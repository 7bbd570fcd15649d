------------------------- MODULE CanvasInputProofs --------------------------
(***************************************************************************)
(* What holds on every canvas, for all nodes, ports and files and gestures *)
(* of any length: the canvas shows the document, wires fit, and a wire     *)
(* that is let go changes no other.                                        *)
(***************************************************************************)
EXTENDS CanvasInput, Iteration

-----------------------------------------------------------------------------
(* What the properties need to be inductive.                               *)

Places == UNION {[D -> Coord] : D \in SUBSET NodeId}
Model  == [current : Document, undo : Seq(Document), redo : Seq(Document)]

Widget == [source : EndOf, target : EndOf, points : Seq(Coord)]
Scene  == [nodes : Places,
           wires : UNION {[I -> Widget] : I \in SUBSET WireId},
           aliases : UNION {[B -> SUBSET WireId] : B \in SUBSET Bus}]

\* What can be hit when the nodes of D are there.
Hits(D) ==
  (UNION {PortHits(n) : n \in D}) \cup (UNION {AliasHits(n, WireId) : n \in Bus \cap D})

Gesture ==
  {Idle, Panning, Marquee} \cup {Control(n) : n \in NodeId}
  \cup [state : {"DraggingNode"}, current : Seq(Coord), initial : Seq(Coord)]
  \cup [state : {"ResizingNode"}, node : NodeId, original : Coord, current : Coord]
  \cup [state : {"DraggingRoutingPoint"}, wire : WireId, index : Nat,
        initial : Seq(Coord), pos : Coord]
  \cup [state : {"CreatingWire"}, start : Hits(NodeId)]
  \cup [state : {"ReconnectingWire"}, index : Nat \ {0}, detach_start : BOOLEAN,
        wire : WireId]

Types ==
  /\ model \in Model /\ scene \in Scene /\ gesture \in Gesture
  /\ next_wire_id \in 1 .. WireLimit + 1
  /\ selection \subseteq NodeId
  /\ {read_only, simulation_mode, drifted, crossed} \subseteq BOOLEAN

\* Every version of the document is numbered below the next number and, until
\* the Delete key crossed a wire in hand, fits.
Versions(m) == {m.current} \cup Range(m.undo) \cup Range(m.redo)
Sound ==
  \A bp \in Versions(model) : Numbered(bp, next_wire_id) /\ (~crossed => Fits(bp))

\* The wire in hand: begun at a port that is there, or taken from where it is.
InHand ==
  ~crossed =>
    /\ gesture.state = "CreatingWire" => gesture.start \in Hits(DOMAIN model.current.nodes)
    /\ gesture.state = "ReconnectingWire" =>
         /\ gesture.index \in DOMAIN model.current.wires
         /\ model.current.wires[gesture.index].id = gesture.wire

\* The wires of s are those of bp that have both their nodes; exactly they are
\* where they are, routing points included.
ShowsWires(s, bp, exactly) ==
  /\ \A id \in DOMAIN s.wires :
       \E w \in Range(bp.wires) : w.id = id /\ Attached(bp, w)
  /\ \A w \in Range(bp.wires) : Attached(bp, w) =>
       /\ w.id \in DOMAIN s.wires
       /\ s.wires[w.id].source = w.source /\ s.wires[w.id].target = w.target
       /\ exactly => s.wires[w.id].points = w.points

\* Where a preview of a drag shows the nodes: each selected one at its position.
Dragged(bp, sel, positions) ==
  [n \in DOMAIN bp.nodes |->
     LET k == Place(Present(bp, sel), n)
     IN  IF k \in DOMAIN positions THEN positions[k] ELSE bp.nodes[n]]

DragShown ==
  LET bp    == model.current
      moved == Present(bp, selection)
  IN  \/ selection \cap DOMAIN bp.nodes = {} /\ scene.nodes = bp.nodes
      \/ /\ gesture.initial = [k \in DOMAIN moved |-> bp.nodes[moved[k]]]
         /\ \/ gesture.current = <<>> /\ scene.nodes = bp.nodes
            \/ /\ DOMAIN gesture.current = DOMAIN moved
               /\ scene.nodes = Dragged(bp, selection, gesture.current)

ResizeShown ==
  LET bp == model.current
  IN  /\ scene.nodes = [n \in DOMAIN bp.nodes |->
                          IF n = gesture.node THEN gesture.current ELSE bp.nodes[n]]
      /\ gesture.node \in DOMAIN bp.nodes => gesture.original = bp.nodes[gesture.node]

ShowsNodes ==
  /\ DOMAIN scene.nodes = DOMAIN model.current.nodes
  /\ DOMAIN scene.aliases = Bus \cap DOMAIN scene.nodes
  /\ Previewing => ~read_only
  /\ ~drifted =>
       /\ Previewing => ~simulation_mode
       /\ gesture.state = "DraggingNode" => DragShown
       /\ gesture.state = "ResizingNode" => ResizeShown
       /\ ~Previewing => scene.nodes = model.current.nodes

IInv ==
  /\ Types
  /\ Sound
  /\ InHand
  /\ ShowsWires(scene, model.current, ~drifted)
  /\ ShowsNodes
-----------------------------------------------------------------------------
(* Sequences and functions.                                                *)

\* The steps of Those, as a function of its own.
Taking(s, S, f) ==
  f = [k \in 0 .. Len(s) |->
         IF k = 0 THEN <<>>
         ELSE IF s[k] \in S THEN Append(f[k - 1], s[k]) ELSE f[k - 1]]

LEMMA ThoseRuns ==
  ASSUME NEW V, NEW s \in Seq(V), NEW S
  PROVE  \E f \in [0 .. Len(s) -> Seq(V)] : Taking(s, S, f) /\ Those(s, S) = f[Len(s)]
  <1> DEFINE D == [k \in 1 .. Len(s) |->
                     [t \in Seq(V) |-> IF s[k] \in S THEN Append(t, s[k]) ELSE t]]
             F == CHOOSE f : Taking(s, S, f)
  <1>0. Len(s) \in Nat
    OBVIOUS
  <1>1. D \in [1 .. Len(s) -> [Seq(V) -> Seq(V)]]
    <2> SUFFICES ASSUME NEW k \in 1 .. Len(s), NEW t \in Seq(V)
                 PROVE  (IF s[k] \in S THEN Append(t, s[k]) ELSE t) \in Seq(V)
      OBVIOUS
    <2>1. s[k] \in V
      OBVIOUS
    <2> QED
      BY <2>1
  <1>2. <<>> \in Seq(V)
    OBVIOUS
  <1>3. PICK f \in [0 .. Len(s) -> Seq(V)] : Iterates(f, Len(s), <<>>, D)
    <2> HIDE DEF D
    <2> QED
      BY <1>0, <1>1, <1>2, IterateExists
  <1>4. \A k \in 0 .. Len(s) : k # 0 =>
          D[k][f[k - 1]] = IF s[k] \in S THEN Append(f[k - 1], s[k]) ELSE f[k - 1]
    <2> TAKE k \in 0 .. Len(s)
    <2> HAVE k # 0
    <2>1. k \in 1 .. Len(s) /\ k - 1 \in 0 .. Len(s)
      BY <1>0
    <2>2. f[k - 1] \in Seq(V)
      BY <2>1
    <2> QED
      BY <2>1, <2>2
  <1>5. Taking(s, S, f)
    <2> HIDE DEF D
    <2>1. f = [k \in 0 .. Len(s) |-> IF k = 0 THEN <<>> ELSE D[k][f[k - 1]]]
      BY <1>3 DEF Iterates
    <2>2. \A k \in 0 .. Len(s) :
            f[k] = IF k = 0 THEN <<>>
                   ELSE IF s[k] \in S THEN Append(f[k - 1], s[k]) ELSE f[k - 1]
      BY <1>4, <2>1
    <2> QED
      BY <1>3, <2>2 DEF Taking
  <1>6. Taking(s, S, F)
    BY <1>5
  <1>7. Those(s, S) = F[Len(s)]
    BY DEF Those, Taking
  <1> HIDE DEF F
  <1>8. F \in [0 .. Len(s) -> Seq(V)]
    <2> DEFINE T == {k \in 0 .. Len(s) : F[k] \in Seq(V)}
    <2>1. 0 \in T
      BY <1>0, <1>2, <1>6 DEF Taking
    <2>2. \A k \in 0 .. Len(s) : k # 0 /\ k - 1 \in T => k \in T
      <3> TAKE k \in 0 .. Len(s)
      <3> HAVE k # 0 /\ k - 1 \in T
      <3>1. F[k] = IF s[k] \in S THEN Append(F[k - 1], s[k]) ELSE F[k - 1]
        BY <1>6 DEF Taking
      <3>2. k \in 1 .. Len(s)
        BY <1>0
      <3>3. s[k] \in V /\ F[k - 1] \in Seq(V)
        BY <3>2
      <3>4. Append(F[k - 1], s[k]) \in Seq(V)
        BY <3>3
      <3>5. F[k] \in Seq(V)
        BY <3>1, <3>3, <3>4
      <3> QED
        BY <3>5
    <2> HIDE DEF T
    <2>3. 0 .. Len(s) \subseteq T
      BY <1>0, <2>1, <2>2, Upward
    <2>4. \A k \in 0 .. Len(s) : F[k] \in Seq(V)
      BY <2>3 DEF T
    <2>5. F = [k \in 0 .. Len(s) |-> F[k]]
      BY <1>6 DEF Taking
    <2> QED
      BY <2>4, <2>5
  <1> QED
    BY <1>6, <1>7, <1>8

\* t holds the elements of s up to k that are in S, each taken from a place of
\* its own.
Taken(s, S, k, t) ==
  /\ \A i \in 1 .. k : s[i] \in S => \E j \in DOMAIN t : t[j] = s[i]
  /\ \E h \in [DOMAIN t -> 1 .. k] :
       /\ \A j \in DOMAIN t : t[j] = s[h[j]] /\ s[h[j]] \in S
       /\ \A i, j \in DOMAIN t : h[i] = h[j] => i = j

LEMMA TakeOne ==
  ASSUME NEW V, NEW s \in Seq(V), NEW S, NEW k \in 1 .. Len(s), NEW t \in Seq(V),
         Taken(s, S, k - 1, t)
  PROVE  Taken(s, S, k, IF s[k] \in S THEN Append(t, s[k]) ELSE t)
  <1>1. PICK h \in [DOMAIN t -> 1 .. k - 1] :
           /\ \A j \in DOMAIN t : t[j] = s[h[j]] /\ s[h[j]] \in S
           /\ \A i, j \in DOMAIN t : h[i] = h[j] => i = j
    BY DEF Taken
  <1>2. Len(s) \in Nat /\ k \in Nat /\ \A i \in 1 .. k : i \in 1 .. k - 1 \/ i = k
    OBVIOUS
  <1>3. CASE s[k] \notin S
    <2>1. h \in [DOMAIN t -> 1 .. k]
      BY <1>2
    <2>2. \A i \in 1 .. k : s[i] \in S => \E j \in DOMAIN t : t[j] = s[i]
      BY <1>2, <1>3 DEF Taken
    <2>3. Taken(s, S, k, t)
      BY <1>1, <2>1, <2>2 DEF Taken
    <2> QED
      BY <1>3, <2>3
  <1>4. CASE s[k] \in S
    <2> DEFINE u == Append(t, s[k])
               n == Len(t) + 1
               g == [j \in DOMAIN u |-> IF j = n THEN k ELSE h[j]]
    <2>1. /\ DOMAIN u = 1 .. n /\ DOMAIN t = 1 .. Len(t) /\ Len(t) \in Nat
          /\ u[n] = s[k] /\ \A j \in DOMAIN t : u[j] = t[j]
      BY <1>2
    <2> HIDE DEF u
    <2>2. \A j \in DOMAIN u : j = n \/ (j # n /\ j \in DOMAIN t)
      BY <2>1
    <2>3. n \notin DOMAIN t
      BY <2>1
    <2>4. g \in [DOMAIN u -> 1 .. k]
      BY <1>2, <2>2
    <2>5. \A j \in DOMAIN u : u[j] = s[g[j]] /\ s[g[j]] \in S
      BY <1>1, <1>4, <2>1, <2>2
    <2>6. \A i, j \in DOMAIN u : g[i] = g[j] => i = j
      <3> SUFFICES ASSUME NEW i \in DOMAIN u, NEW j \in DOMAIN u, g[i] = g[j]
                   PROVE  i = j
        OBVIOUS
      <3>1. \A l \in DOMAIN t : h[l] # k
        BY <1>2
      <3>2. CASE i = n \/ j = n
        BY <2>2, <3>1, <3>2
      <3>3. CASE i # n /\ j # n
        BY <1>1, <2>2, <3>3
      <3> QED
        BY <3>2, <3>3
    <2>7. \A i \in 1 .. k : s[i] \in S => \E j \in DOMAIN u : u[j] = s[i]
      <3> SUFFICES ASSUME NEW i \in 1 .. k, s[i] \in S
                   PROVE  \E j \in DOMAIN u : u[j] = s[i]
        OBVIOUS
      <3>1. CASE i = k
        BY <2>1, <3>1
      <3>2. CASE i \in 1 .. k - 1
        <4>1. PICK j \in DOMAIN t : t[j] = s[i]
          BY <3>2 DEF Taken
        <4> QED
          BY <2>1, <4>1
      <3> QED
        BY <1>2, <3>1, <3>2
    <2> HIDE DEF g
    <2>8. Taken(s, S, k, u)
      BY <2>4, <2>5, <2>6, <2>7 DEF Taken
    <2> QED
      BY <1>4, <2>8 DEF u
  <1> QED
    BY <1>3, <1>4

\* Those(s, S) holds exactly the elements of s that are in S, each from a place
\* of its own.
LEMMA ThoseFacts ==
  ASSUME NEW V, NEW s \in Seq(V), NEW S
  PROVE  /\ Those(s, S) \in Seq(V)
         /\ Range(Those(s, S)) = Range(s) \cap S
         /\ \E h \in [DOMAIN Those(s, S) -> DOMAIN s] :
              /\ \A j \in DOMAIN Those(s, S) : Those(s, S)[j] = s[h[j]]
              /\ \A i, j \in DOMAIN Those(s, S) : h[i] = h[j] => i = j
  <1>0. Len(s) \in Nat /\ DOMAIN s = 1 .. Len(s)
    OBVIOUS
  <1>1. PICK f \in [0 .. Len(s) -> Seq(V)] : Taking(s, S, f) /\ Those(s, S) = f[Len(s)]
    BY ThoseRuns
  <1> DEFINE T == {k \in 0 .. Len(s) : Taken(s, S, k, f[k])}
  <1>2. 0 \in T
    <2>1. f[0] = <<>> /\ DOMAIN f[0] = {}
      BY <1>0, <1>1 DEF Taking
    <2>2. [j \in {} |-> 0] \in [DOMAIN f[0] -> 1 .. 0]
      BY <2>1
    <2>3. Taken(s, S, 0, f[0])
      BY <2>1, <2>2 DEF Taken
    <2> QED
      BY <1>0, <2>3
  <1>3. \A k \in 0 .. Len(s) : k # 0 /\ k - 1 \in T => k \in T
    <2> TAKE k \in 0 .. Len(s)
    <2> HAVE k # 0 /\ k - 1 \in T
    <2>1. f[k] = IF s[k] \in S THEN Append(f[k - 1], s[k]) ELSE f[k - 1]
      BY <1>1 DEF Taking
    <2>2. k \in 1 .. Len(s) /\ k - 1 \in 0 .. Len(s)
      BY <1>0
    <2>3. f[k - 1] \in Seq(V) /\ Taken(s, S, k - 1, f[k - 1])
      BY <2>2
    <2>4. Taken(s, S, k, f[k])
      BY <2>1, <2>2, <2>3, TakeOne
    <2> QED
      BY <2>4
  <1> HIDE DEF T
  <1>4. 0 .. Len(s) \subseteq T
    BY <1>0, <1>2, <1>3, Upward
  <1>5. Taken(s, S, Len(s), Those(s, S))
    BY <1>0, <1>1, <1>4 DEF T
  <1>6. Those(s, S) \in Seq(V)
    BY <1>0, <1>1
  <1> DEFINE t == Those(s, S)
  <1> HIDE DEF t
  <1>7. Taken(s, S, Len(s), t) /\ t \in Seq(V)
    BY <1>5, <1>6 DEF t
  <1>8. PICK h \in [DOMAIN t -> DOMAIN s] :
           /\ \A j \in DOMAIN t : t[j] = s[h[j]] /\ s[h[j]] \in S
           /\ \A i, j \in DOMAIN t : h[i] = h[j] => i = j
    BY <1>0, <1>7 DEF Taken
  <1>9. Range(t) = Range(s) \cap S
    BY <1>0, <1>7, <1>8 DEF Range, Taken
  <1> QED
    BY <1>7, <1>8, <1>9 DEF t

\* The places below are functions over some of the nodes.
LEMMA PlacesFacts ==
  /\ \A f \in Places : DOMAIN f \subseteq NodeId /\ f \in [DOMAIN f -> Coord]
  /\ \A D \in SUBSET NodeId : \A f \in [D -> Coord] : f \in Places
  BY DEF Places

LEMMA DocumentFacts ==
  /\ Document = [nodes : Places, wires : Seq(Wire)]
  /\ <<>> \in Places /\ DOMAIN <<>> = {}
  <1>1. Document = [nodes : Places, wires : Seq(Wire)]
    BY DEF Document, Places
  <1>2. DOMAIN <<>> = {} /\ <<>> \in [{} -> Coord]
    OBVIOUS
  <1> QED
    BY <1>1, <1>2, PlacesFacts

\* The number of a wire finds it; 0 when no wire has it.
LEMMA FindWireFacts ==
  ASSUME NEW bp, bp.wires \in Seq(Wire), NEW id
  PROVE  \/ /\ FindWire(bp, id) = 0
            /\ \A i \in DOMAIN bp.wires : bp.wires[i].id # id
         \/ /\ FindWire(bp, id) \in DOMAIN bp.wires /\ FindWire(bp, id) # 0
            /\ bp.wires[FindWire(bp, id)].id = id
  <1> DEFINE I == {i \in 1 .. Len(bp.wires) : bp.wires[i].id = id}
  <1>1. Len(bp.wires) \in Nat /\ DOMAIN bp.wires = 1 .. Len(bp.wires)
    OBVIOUS
  <1>2. FindWire(bp, id) = IF I # {} THEN Min(I) ELSE 0
    BY DEF FindWire, SelectInSeq
  <1>3. I \subseteq Nat
    BY <1>1
  <1>4. CASE I = {}
    BY <1>1, <1>2, <1>4
  <1>5. CASE I # {}
    <2>1. Min(I) \in I
      BY <1>3, <1>5, MinFacts
    <2> QED
      BY <1>1, <1>2, <1>5, <2>1
  <1> QED
    BY <1>4, <1>5

\* The place of an element in a list.
LEMMA PlaceFacts ==
  ASSUME NEW V, NEW list \in Seq(V), NEW n
  PROVE  \/ Place(list, n) = 0 /\ n \notin Range(list)
         \/ Place(list, n) \in DOMAIN list /\ list[Place(list, n)] = n
  <1> DEFINE I == {i \in 1 .. Len(list) : list[i] = n}
  <1>1. Len(list) \in Nat /\ DOMAIN list = 1 .. Len(list)
    OBVIOUS
  <1>2. Place(list, n) = IF I # {} THEN Min(I) ELSE 0
    BY DEF Place, SelectInSeq
  <1>3. I \subseteq Nat
    BY <1>1
  <1>4. CASE I = {}
    BY <1>1, <1>2, <1>4 DEF Range
  <1>5. CASE I # {}
    <2>1. Min(I) \in I
      BY <1>3, <1>5, MinFacts
    <2> QED
      BY <1>1, <1>2, <1>5, <2>1
  <1> QED
    BY <1>4, <1>5

\* What is left of a sequence without its k-th element.
LEMMA RemoveAtRange ==
  ASSUME NEW V, NEW s \in Seq(V), NEW k \in DOMAIN s
  PROVE  \A x \in V : x \in Range(RemoveAt(s, k)) <=> \E i \in DOMAIN s : i # k /\ s[i] = x
  <1>0. Len(s) \in Nat /\ k \in 1 .. Len(s) /\ DOMAIN s = 1 .. Len(s)
    OBVIOUS
  <1> DEFINE t == RemoveAt(s, k)
  <1>1. /\ DOMAIN t = 1 .. Len(s) - 1
        /\ \A i \in 1 .. Len(s) - 1 : t[i] = IF i < k THEN s[i] ELSE s[i + 1]
    BY RemoveAtFacts
  <1> HIDE DEF t
  <1>2. ASSUME NEW i \in DOMAIN t PROVE \E j \in DOMAIN s : j # k /\ s[j] = t[i]
    <2>1. CASE i < k
      BY <1>0, <1>1, <2>1
    <2>2. CASE ~(i < k)
      <3>1. i + 1 \in DOMAIN s /\ i + 1 # k /\ t[i] = s[i + 1]
        BY <1>0, <1>1, <2>2
      <3> QED
        BY <3>1
    <2> QED
      BY <2>1, <2>2
  <1>3. ASSUME NEW j \in DOMAIN s, j # k PROVE \E i \in DOMAIN t : s[j] = t[i]
    <2>1. CASE j < k
      BY <1>0, <1>1, <2>1
    <2>2. CASE j > k
      <3>1. j - 1 \in 1 .. Len(s) - 1 /\ ~(j - 1 < k) /\ (j - 1) + 1 = j
        BY <1>0, <2>2
      <3>2. t[j - 1] = s[j]
        BY <1>1, <3>1
      <3> QED
        BY <1>1, <3>1, <3>2
    <2> QED
      BY <1>0, <1>3, <2>1, <2>2
  <1>4. Range(t) = {t[i] : i \in DOMAIN t}
    BY DEF Range
  <1> QED
    BY <1>2, <1>3, <1>4 DEF t

-----------------------------------------------------------------------------
(* The editor model.                                                       *)

LEMMA BlankFacts ==
  /\ Blank \in Document
  /\ \A k : Numbered(Blank, k)
  /\ Fits(Blank)
  <1>1. Blank.nodes = <<>> /\ Blank.wires = <<>> /\ DOMAIN Blank.wires = {}
    BY DEF Blank
  <1>2. Blank \in Document
    BY DocumentFacts DEF Blank
  <1> QED
    BY <1>1, <1>2 DEF Numbered, Fits

\* The checkpoint holds versions there were and the current one.
LEMMA PushedFacts ==
  ASSUME NEW m \in Model
  PROVE  /\ Pushed(m) \in Seq(Document) /\ Len(Pushed(m)) > 0
         /\ Range(Pushed(m)) \subseteq Range(m.undo) \cup {m.current}
         /\ Front(Pushed(m)) \in Seq(Document)
         /\ Range(Front(Pushed(m))) \subseteq Range(m.undo)
  <1> DEFINE kept == IF Len(m.undo) < MaxHistory THEN m.undo ELSE Tail(m.undo)
  <1>0. m.undo \in Seq(Document) /\ m.current \in Document
    BY DEF Model
  <1>1. kept \in Seq(Document) /\ Range(kept) \subseteq Range(m.undo)
    <2>1. CASE Len(m.undo) < MaxHistory
      BY <1>0, <2>1
    <2>2. CASE ~(Len(m.undo) < MaxHistory)
      <3>1. Len(m.undo) \in Nat /\ Len(m.undo) > 0
        BY <1>0, <2>2, CanvasAssumption
      <3>2. /\ Tail(m.undo) \in Seq(Document)
            /\ Len(Tail(m.undo)) = Len(m.undo) - 1
            /\ \A i \in 1 .. Len(m.undo) - 1 : Tail(m.undo)[i] = m.undo[i + 1]
        BY <1>0, <3>1
      <3>3. Range(Tail(m.undo)) \subseteq Range(m.undo)
        <4>1. \A i \in 1 .. Len(m.undo) - 1 : i + 1 \in DOMAIN m.undo
          BY <1>0, <3>1
        <4>2. DOMAIN Tail(m.undo) = 1 .. Len(m.undo) - 1
          BY <3>2
        <4> QED
          BY <3>2, <4>1, <4>2 DEF Range
      <3> QED
        BY <2>2, <3>2, <3>3
    <2> QED
      BY <2>1, <2>2
  <1>2. Pushed(m) = Append(kept, m.current)
    BY DEF Pushed
  <1> HIDE DEF kept
  <1> DEFINE p == Append(kept, m.current)
  <1>3. /\ Len(kept) \in Nat /\ DOMAIN kept = 1 .. Len(kept)
        /\ p \in Seq(Document) /\ Len(p) = Len(kept) + 1 /\ DOMAIN p = 1 .. Len(kept) + 1
        /\ \A i \in 1 .. Len(kept) : p[i] = kept[i]
        /\ p[Len(kept) + 1] = m.current
    BY <1>0, <1>1
  <1> HIDE DEF p
  <1>4. Range(p) \subseteq Range(m.undo) \cup {m.current}
    <2>1. \A i \in DOMAIN p : i \in DOMAIN kept \/ i = Len(kept) + 1
      BY <1>3
    <2> QED
      BY <1>1, <1>3, <2>1 DEF Range
  <1>5. Front(p) \in Seq(Document) /\ Range(Front(p)) \subseteq Range(m.undo)
    <2>1. Front(p) = SubSeq(p, 1, Len(kept))
      BY <1>3 DEF Front
    <2>2. /\ SubSeq(p, 1, Len(kept)) \in Seq(Document)
          /\ Len(SubSeq(p, 1, Len(kept))) = Len(kept)
          /\ \A i \in 1 .. Len(kept) : SubSeq(p, 1, Len(kept))[i] = p[i]
      BY <1>3
    <2>3. DOMAIN SubSeq(p, 1, Len(kept)) = 1 .. Len(kept)
      BY <2>2
    <2>4. Range(SubSeq(p, 1, Len(kept))) \subseteq Range(kept)
      BY <1>3, <2>2, <2>3 DEF Range
    <2> QED
      BY <1>1, <2>1, <2>2, <2>4
  <1> QED
    BY <1>2, <1>3, <1>4, <1>5 DEF p

\* A command, alone or as a transaction, leaves versions there were, the new one
\* and blank entries.
LEMMA CommandFacts ==
  ASSUME NEW m \in Model, NEW bp \in Document, NEW r \in {Command(m, bp), Atomically(m, bp)}
  PROVE  /\ r \in Model /\ r.current = bp
         /\ Versions(r) \subseteq Versions(m) \cup {bp, Blank}
  <1>0. /\ m = [current |-> m.current, undo |-> m.undo, redo |-> m.redo]
        /\ m.current \in Document /\ m.undo \in Seq(Document) /\ m.redo \in Seq(Document)
    BY DEF Model
  <1> DEFINE c == [current |-> bp, undo |-> Pushed(m), redo |-> <<>>]
             b == [k \in DOMAIN m.redo |-> Blank]
             n == [current |-> m.current, undo |-> Front(Pushed(m)), redo |-> b]
  <1>1. Command(m, bp) = IF bp = m.current THEN m ELSE c
    BY DEF Command
  <1>2. Atomically(m, bp) = IF bp # m.current THEN Command(m, bp) ELSE n
    BY DEF Atomically
  <1>3. /\ Pushed(m) \in Seq(Document)
        /\ Range(Pushed(m)) \subseteq Range(m.undo) \cup {m.current}
        /\ Front(Pushed(m)) \in Seq(Document)
        /\ Range(Front(Pushed(m))) \subseteq Range(m.undo)
    BY PushedFacts
  <1>4. /\ c \in Model /\ c.current = bp /\ Versions(c) \subseteq Versions(m) \cup {bp}
    <2>1. <<>> \in Seq(Document) /\ Range(<<>>) = {}
      BY DEF Range
    <2> QED
      BY <1>3, <2>1 DEF Model, Versions
  <1>5. b \in Seq(Document) /\ Range(b) \subseteq {Blank}
    <2>1. Len(m.redo) \in Nat /\ DOMAIN m.redo = 1 .. Len(m.redo)
      BY <1>0
    <2>2. b \in [1 .. Len(m.redo) -> Document]
      BY <2>1, BlankFacts
    <2>3. b \in Seq(Document)
      BY <2>1, <2>2
    <2> QED
      BY <2>3 DEF Range
  <1>6. n \in Model /\ n.current = m.current /\ Versions(n) \subseteq Versions(m) \cup {Blank}
    <2> HIDE DEF b
    <2> QED
      BY <1>0, <1>3, <1>5 DEF Model, Versions
  <1> HIDE DEF c, n
  <1>7. m.current = bp => m.current = bp /\ Versions(m) \subseteq Versions(m) \cup {bp, Blank}
    OBVIOUS
  <1> QED
    BY <1>1, <1>2, <1>4, <1>6, <1>7

-----------------------------------------------------------------------------
(* The scene.                                                              *)

\* What is known of a document, its wires and what is drawn of them.
LEMMA WireFacts ==
  ASSUME NEW bp \in Document, NEW i \in DOMAIN bp.wires
  PROVE  /\ bp.wires[i] \in Wire /\ bp.wires[i] \in Range(bp.wires)
         /\ WireWidget(bp.wires[i]) \in Widget
         /\ WireWidget(bp.wires[i]).source = bp.wires[i].source
         /\ WireWidget(bp.wires[i]).target = bp.wires[i].target
         /\ WireWidget(bp.wires[i]).points = bp.wires[i].points
  <1>1. bp.wires \in Seq(Wire)
    BY DEF Document
  <1>2. bp.wires[i] \in Wire /\ bp.wires[i] \in Range(bp.wires)
    BY <1>1 DEF Range
  <1> QED
    BY <1>2 DEF Wire, WireWidget, Widget

\* Every wire of a numbered document is the one its number finds.
LEMMA FoundAgain ==
  ASSUME NEW bp \in Document, NEW k, Numbered(bp, k), NEW w \in Range(bp.wires)
  PROVE  /\ w \in Wire /\ FindWire(bp, w.id) # 0
         /\ FindWire(bp, w.id) \in DOMAIN bp.wires /\ bp.wires[FindWire(bp, w.id)] = w
  <1>1. PICK i \in DOMAIN bp.wires : bp.wires[i] = w
    BY DEF Range
  <1>2. bp.wires \in Seq(Wire) /\ w \in Wire
    BY <1>1, WireFacts DEF Document
  <1>3. FindWire(bp, w.id) \in DOMAIN bp.wires /\ bp.wires[FindWire(bp, w.id)].id = w.id
        /\ FindWire(bp, w.id) # 0
    BY <1>1, <1>2, FindWireFacts
  <1>4. FindWire(bp, w.id) = i
    BY <1>1, <1>3 DEF Numbered
  <1> QED
    BY <1>1, <1>2, <1>3, <1>4

\* A scene is a record of nodes, wires and aliases.
LEMMA SceneFacts ==
  /\ \A s \in Scene : /\ s.nodes \in Places
                      /\ DOMAIN s.wires \subseteq WireId
                      /\ s.wires \in [DOMAIN s.wires -> Widget]
                      /\ DOMAIN s.aliases \subseteq Bus
                      /\ s.aliases \in [DOMAIN s.aliases -> SUBSET WireId]
  /\ \A nodes \in Places, I \in SUBSET WireId, B \in SUBSET Bus :
       \A wires \in [I -> Widget], aliases \in [B -> SUBSET WireId] :
         [nodes |-> nodes, wires |-> wires, aliases |-> aliases] \in Scene
  <1>1. ASSUME NEW s \in Scene
        PROVE  /\ s.nodes \in Places
               /\ DOMAIN s.wires \subseteq WireId
               /\ s.wires \in [DOMAIN s.wires -> Widget]
               /\ DOMAIN s.aliases \subseteq Bus
               /\ s.aliases \in [DOMAIN s.aliases -> SUBSET WireId]
    <2>1. s.nodes \in Places
      BY DEF Scene
    <2>2. PICK I \in SUBSET WireId : s.wires \in [I -> Widget]
      BY DEF Scene
    <2>3. PICK B \in SUBSET Bus : s.aliases \in [B -> SUBSET WireId]
      BY DEF Scene
    <2> QED
      BY <2>1, <2>2, <2>3
  <1>2. ASSUME NEW nodes \in Places, NEW I \in SUBSET WireId, NEW B \in SUBSET Bus,
               NEW wires \in [I -> Widget], NEW aliases \in [B -> SUBSET WireId]
        PROVE  [nodes |-> nodes, wires |-> wires, aliases |-> aliases] \in Scene
    BY DEF Scene
  <1> QED
    BY <1>1, <1>2

\* The wires of a scene are replaced, or its nodes.
LEMMA SceneExcept ==
  ASSUME NEW s \in Scene
  PROVE  /\ \A I \in SUBSET WireId : \A wires \in [I -> Widget] :
              LET t == [s EXCEPT !.wires = wires]
              IN  /\ t \in Scene /\ t.wires = wires
                  /\ t.nodes = s.nodes /\ t.aliases = s.aliases
         /\ \A nodes \in Places :
              LET t == [s EXCEPT !.nodes = nodes]
              IN  /\ t \in Scene /\ t.nodes = nodes
                  /\ t.wires = s.wires /\ t.aliases = s.aliases
  <1>1. ASSUME NEW I \in SUBSET WireId, NEW wires \in [I -> Widget]
        PROVE  LET t == [s EXCEPT !.wires = wires]
               IN  /\ t \in Scene /\ t.wires = wires
                   /\ t.nodes = s.nodes /\ t.aliases = s.aliases
    <2>1. wires \in UNION {[J -> Widget] : J \in SUBSET WireId}
      OBVIOUS
    <2> DEFINE W == UNION {[J -> Widget] : J \in SUBSET WireId}
               A == UNION {[B -> SUBSET WireId] : B \in SUBSET Bus}
    <2>2. Scene = [nodes : Places, wires : W, aliases : A]
      BY DEF Scene
    <2>3. wires \in W
      BY <2>1
    <2> HIDE DEF W, A
    <2> QED
      BY <2>2, <2>3
  <1>2. ASSUME NEW nodes \in Places
        PROVE  LET t == [s EXCEPT !.nodes = nodes]
               IN  /\ t \in Scene /\ t.nodes = nodes
                   /\ t.wires = s.wires /\ t.aliases = s.aliases
    <2> DEFINE W == UNION {[J -> Widget] : J \in SUBSET WireId}
               A == UNION {[B -> SUBSET WireId] : B \in SUBSET Bus}
    <2>2. Scene = [nodes : Places, wires : W, aliases : A]
      BY DEF Scene
    <2> HIDE DEF W, A
    <2> QED
      BY <2>2
  <1> QED
    BY <1>1, <1>2

\* A wire drawn anew is shown, and gone when the document has it no longer; the
\* others stay as they are.
LEMMA Redrawn ==
  ASSUME NEW s \in Scene, NEW old \in Document, NEW bp \in Document, NEW id \in WireId,
         NEW k, Numbered(bp, k), NEW exactly \in BOOLEAN, ShowsWires(s, old, exactly),
         DOMAIN bp.nodes = DOMAIN old.nodes,
         \A w \in Wire : w.id # id => (w \in Range(old.wires) <=> w \in Range(bp.wires))
  PROVE  LET t == WithWireDrawn(s, bp, id)
         IN  /\ t \in Scene /\ t.nodes = s.nodes /\ t.aliases = s.aliases
             /\ ShowsWires(t, bp, exactly)
  <1> DEFINE f == FindWire(bp, id)
             t == WithWireDrawn(s, bp, id)
             gone == f = 0 \/ ~Attached(bp, bp.wires[f])
             shown == IF gone THEN [j \in DOMAIN s.wires \ {id} |-> s.wires[j]]
                      ELSE [j \in DOMAIN s.wires \cup {id} |->
                              IF j = id THEN WireWidget(bp.wires[f]) ELSE s.wires[j]]
  <1>1. t = [s EXCEPT !.wires = shown]
    BY DEF WithWireDrawn
  <1>2. \/ f = 0 /\ \A i \in DOMAIN bp.wires : bp.wires[i].id # id
        \/ f \in DOMAIN bp.wires /\ f # 0 /\ bp.wires[f].id = id
    BY FindWireFacts DEF Document
  <1>3. DOMAIN s.wires \subseteq WireId /\ s.wires \in [DOMAIN s.wires -> Widget]
    BY SceneFacts
  <1>4. \A w \in Range(old.wires) \cup Range(bp.wires) : w \in Wire
    BY WireFacts DEF Range
  <1>5. \A w : Attached(bp, w) <=> Attached(old, w)
    BY DEF Attached
  <1>6. \A w \in Range(bp.wires) : w.id = id => f # 0 /\ w = bp.wires[f]
    BY FoundAgain
  <1>7. f # 0 => bp.wires[f] \in Range(bp.wires) /\ WireWidget(bp.wires[f]) \in Widget
    BY <1>2, WireFacts
  <1>8. \E I \in SUBSET WireId : shown \in [I -> Widget]
    <2>1. CASE gone
      BY <1>3, <2>1
    <2>2. CASE ~gone
      <3>1. WireWidget(bp.wires[f]) \in Widget
        BY <1>7, <2>2
      <3> HIDE DEF f
      <3>2. shown \in [DOMAIN s.wires \cup {id} -> Widget]
        BY <1>3, <2>2, <3>1
      <3> QED
        BY <1>3, <3>2
    <2> QED
      BY <2>1, <2>2
  <1>9. t \in Scene /\ t.nodes = s.nodes /\ t.aliases = s.aliases /\ t.wires = shown
    <2> HIDE DEF shown
    <2> QED
      BY <1>1, <1>8, SceneExcept
  <1> HIDE DEF t
  <1>10. ASSUME NEW j \in DOMAIN shown
         PROVE  \E w \in Range(bp.wires) : w.id = j /\ Attached(bp, w)
    <2>1. CASE j = id
      <3>1. ~gone
        BY <2>1
      <3> QED
        BY <1>2, <1>7, <2>1, <3>1
    <2>2. CASE j # id
      <3>1. j \in DOMAIN s.wires
        BY <2>2
      <3>2. PICK w \in Range(old.wires) : w.id = j /\ Attached(old, w)
        BY <3>1 DEF ShowsWires
      <3> QED
        BY <1>4, <1>5, <2>2, <3>2
    <2> QED
      BY <2>1, <2>2
  <1>11. ASSUME NEW w \in Range(bp.wires), Attached(bp, w)
         PROVE  /\ w.id \in DOMAIN shown
                /\ shown[w.id].source = w.source /\ shown[w.id].target = w.target
                /\ exactly => shown[w.id].points = w.points
    <2>1. CASE w.id = id
      <3>1. f # 0 /\ w = bp.wires[f] /\ ~gone
        BY <1>6, <1>11, <2>1
      <3>2. id \in DOMAIN shown /\ shown[id] = WireWidget(w)
        <4> HIDE DEF f
        <4> QED
          BY <3>1
      <3> QED
        BY <2>1, <3>2 DEF WireWidget
    <2>2. CASE w.id # id
      <3>1. w \in Range(old.wires) /\ Attached(old, w)
        BY <1>4, <1>5, <1>11, <2>2
      <3>2. /\ w.id \in DOMAIN s.wires
            /\ s.wires[w.id].source = w.source /\ s.wires[w.id].target = w.target
            /\ exactly => s.wires[w.id].points = w.points
        BY <3>1 DEF ShowsWires
      <3>3. w.id \in DOMAIN shown /\ shown[w.id] = s.wires[w.id]
        <4> HIDE DEF f
        <4> QED
          BY <2>2, <3>2
      <3> QED
        BY <3>2, <3>3
    <2> QED
      BY <2>1, <2>2
  <1> HIDE DEF shown
  <1>12. ShowsWires(t, bp, exactly)
    BY <1>9, <1>10, <1>11 DEF ShowsWires
  <1> QED
    BY <1>9, <1>12 DEF t

\* The scene that is built from a document shows it.
LEMMA RebuiltFacts ==
  ASSUME NEW bp \in Document, NEW k, Numbered(bp, k), NEW exactly \in BOOLEAN
  PROVE  /\ Rebuilt(bp) \in Scene
         /\ Rebuilt(bp).nodes = bp.nodes
         /\ DOMAIN Rebuilt(bp).aliases = Bus \cap DOMAIN bp.nodes
         /\ ShowsWires(Rebuilt(bp), bp, exactly)
         /\ \A w \in Range(bp.wires) : Attached(bp, w) =>
              Rebuilt(bp).wires[w.id] = WireWidget(w)
         /\ DOMAIN Rebuilt(bp).wires = {w.id : w \in {w \in Range(bp.wires) : Attached(bp, w)}}
  <1> DEFINE I == {w.id : w \in {w \in Range(bp.wires) : Attached(bp, w)}}
             wires == [id \in I |-> WireWidget(bp.wires[FindWire(bp, id)])]
             B == Bus \cap DOMAIN bp.nodes
             aliases == [n \in B |->
               {w.id : w \in {w \in Range(bp.wires) : \E e \in Ends(w) : e.node = n}}]
  <1>1. \A w \in Range(bp.wires) : /\ w \in Wire /\ w.id \in WireId
                                   /\ bp.wires[FindWire(bp, w.id)] = w
                                   /\ WireWidget(w) \in Widget
    <2> TAKE w \in Range(bp.wires)
    <2>1. /\ w \in Wire /\ FindWire(bp, w.id) \in DOMAIN bp.wires
          /\ bp.wires[FindWire(bp, w.id)] = w
      BY FoundAgain
    <2>2. WireWidget(w) \in Widget
      BY <2>1, WireFacts
    <2> QED
      BY <2>1, <2>2 DEF Wire
  <1>2. I \in SUBSET WireId
    BY <1>1
  <1>3. \A w \in Range(bp.wires) : Attached(bp, w) => w.id \in I /\ wires[w.id] = WireWidget(w)
    BY <1>1
  <1>4. wires \in [I -> Widget]
    BY <1>1
  <1>5. B \in SUBSET Bus /\ aliases \in [B -> SUBSET WireId]
    BY <1>1
  <1>6. bp.nodes \in Places
    BY DocumentFacts
  <1>7. Rebuilt(bp) = [nodes |-> bp.nodes, wires |-> wires, aliases |-> aliases]
    BY DEF Rebuilt
  <1>8. DOMAIN wires = I /\ DOMAIN aliases = B
    OBVIOUS
  <1>9. \A id \in I : \E w \in Range(bp.wires) : w.id = id /\ Attached(bp, w)
    OBVIOUS
  <1> HIDE DEF wires, aliases, I, B
  <1>10. Rebuilt(bp) \in Scene
    BY <1>2, <1>4, <1>5, <1>6, <1>7, SceneFacts
  <1>11. /\ Rebuilt(bp).nodes = bp.nodes /\ Rebuilt(bp).wires = wires
         /\ Rebuilt(bp).aliases = aliases
    BY <1>7
  <1>12. \A w \in Range(bp.wires) : Attached(bp, w) =>
           /\ wires[w.id].source = w.source /\ wires[w.id].target = w.target
           /\ wires[w.id].points = w.points
    <2> TAKE w \in Range(bp.wires)
    <2> HAVE Attached(bp, w)
    <2>1. wires[w.id] = WireWidget(w)
      BY <1>3
    <2>2. /\ WireWidget(w).source = w.source /\ WireWidget(w).target = w.target
          /\ WireWidget(w).points = w.points
      BY DEF WireWidget
    <2> QED
      BY <2>1, <2>2
  <1>13. ShowsWires(Rebuilt(bp), bp, exactly)
    BY <1>3, <1>8, <1>9, <1>11, <1>12 DEF ShowsWires
  <1>14. DOMAIN Rebuilt(bp).wires = I /\ DOMAIN Rebuilt(bp).aliases = B
    BY <1>8, <1>11
  <1>15. \A w \in Range(bp.wires) : Attached(bp, w) => Rebuilt(bp).wires[w.id] = WireWidget(w)
    BY <1>3, <1>11
  <1> QED
    BY <1>10, <1>11, <1>13, <1>14, <1>15 DEF I, B

\* A document without some of its nodes.
LEMMA WithoutNodesFacts ==
  ASSUME NEW bp \in Document, NEW nodes, NEW k, Numbered(bp, k)
  PROVE  LET new == WithoutNodes(bp, nodes)
         IN  /\ new \in Document /\ Numbered(new, k)
             /\ new.nodes = [n \in DOMAIN bp.nodes \ nodes |-> bp.nodes[n]]
             /\ Range(new.wires) =
                  Range(bp.wires) \ Touching(bp, nodes \cap DOMAIN bp.nodes)
             /\ Fits(bp) => Fits(new)
  <1> DEFINE S == Range(bp.wires) \ Touching(bp, nodes \cap DOMAIN bp.nodes)
             ws == Those(bp.wires, S)
             ns == [n \in DOMAIN bp.nodes \ nodes |-> bp.nodes[n]]
             new == WithoutNodes(bp, nodes)
  <1>1. bp.wires \in Seq(Wire) /\ bp.nodes \in Places
    BY DocumentFacts
  <1>2. /\ ws \in Seq(Wire) /\ Range(ws) = Range(bp.wires) \cap S
        /\ \E h \in [DOMAIN ws -> DOMAIN bp.wires] :
             /\ \A j \in DOMAIN ws : ws[j] = bp.wires[h[j]]
             /\ \A i, j \in DOMAIN ws : h[i] = h[j] => i = j
    <2> HIDE DEF S
    <2> QED
      BY <1>1, ThoseFacts
  <1>3. ns \in Places
    <2>1. DOMAIN bp.nodes \subseteq NodeId /\ bp.nodes \in [DOMAIN bp.nodes -> Coord]
      BY <1>1, PlacesFacts
    <2>2. ns \in [DOMAIN bp.nodes \ nodes -> Coord]
      BY <2>1
    <2>3. DOMAIN bp.nodes \ nodes \in SUBSET NodeId
      BY <2>1
    <2> HIDE DEF ns
    <2> QED
      BY <2>2, <2>3, PlacesFacts
  <1>4. new = [nodes |-> ns, wires |-> ws]
    BY DEF WithoutNodes
  <1>5. DOMAIN ns = DOMAIN bp.nodes \ nodes
    OBVIOUS
  <1>6. Range(bp.wires) \cap S = S
    OBVIOUS
  <1>7. \A w \in S : \A e \in Ends(w) : e.node \notin nodes \cap DOMAIN bp.nodes
    BY DEF Touching
  <1> HIDE DEF ws, ns, S
  <1>8. new \in Document /\ new.nodes = ns /\ new.wires = ws
    BY <1>2, <1>3, <1>4, DocumentFacts
  <1>9. PICK h \in [DOMAIN ws -> DOMAIN bp.wires] :
             /\ \A j \in DOMAIN ws : ws[j] = bp.wires[h[j]]
             /\ \A i, j \in DOMAIN ws : h[i] = h[j] => i = j
    BY <1>2
  <1>10. Numbered(new, k)
    <2> SUFFICES ASSUME NEW i \in DOMAIN ws
                 PROVE  /\ ws[i].id < k
                        /\ \A j \in DOMAIN ws : ws[i].id = ws[j].id => i = j
      BY <1>8 DEF Numbered
    <2>1. ws[i].id < k
      BY <1>9 DEF Numbered
    <2>2. ASSUME NEW j \in DOMAIN ws, ws[i].id = ws[j].id PROVE i = j
      <3>1. h[i] = h[j]
        BY <1>9, <2>2 DEF Numbered
      <3> QED
        BY <1>9, <3>1
    <2> QED
      BY <2>1, <2>2
  <1>11. ASSUME Fits(bp) PROVE Fits(new)
    <2> SUFFICES ASSUME NEW i \in DOMAIN ws PROVE Joins(new, ws[i])
      BY <1>8 DEF Fits
    <2>1. h[i] \in DOMAIN bp.wires /\ ws[i] = bp.wires[h[i]]
      BY <1>9
    <2>2. Joins(bp, ws[i])
      BY <1>11, <2>1 DEF Fits
    <2>3. ws[i] \in S
      BY <1>2, <1>6 DEF Range
    <2>4. ws[i].source \in Ends(ws[i]) /\ ws[i].target \in Ends(ws[i])
      BY DEF Ends
    <2>5. ws[i].source.node \notin nodes \cap DOMAIN bp.nodes
          /\ ws[i].target.node \notin nodes \cap DOMAIN bp.nodes
      BY <1>7, <2>3, <2>4
    <2>6. ws[i].source.node \in DOMAIN bp.nodes /\ ws[i].target.node \in DOMAIN bp.nodes
      BY <2>2 DEF Joins
    <2> QED
      BY <1>5, <1>8, <2>2, <2>5, <2>6 DEF Joins
  <1> QED
    BY <1>2, <1>6, <1>8, <1>10, <1>11 DEF S, ns

\* The widgets of what was deleted are removed one by one; what is left shows
\* what is left of the document.
LEMMA WidgetsRemoved ==
  ASSUME NEW s \in Scene, NEW bp \in Document, NEW nodes, NEW k, Numbered(bp, k),
         NEW exactly \in BOOLEAN, ShowsWires(s, bp, exactly)
  PROVE  LET t == WithoutWidgets(s, nodes, {w.id : w \in Touching(bp, nodes)})
         IN  /\ t \in Scene
             /\ t.nodes = [n \in DOMAIN s.nodes \ nodes |-> s.nodes[n]]
             /\ DOMAIN t.aliases = DOMAIN s.aliases \ nodes
             /\ ShowsWires(t, WithoutNodes(bp, nodes), exactly)
  <1> DEFINE ids == {w.id : w \in Touching(bp, nodes)}
             t  == WithoutWidgets(s, nodes, ids)
             ns == [n \in DOMAIN s.nodes \ nodes |-> s.nodes[n]]
             ws == [j \in DOMAIN s.wires \ ids |-> s.wires[j]]
             as == [n \in DOMAIN s.aliases \ nodes |-> s.aliases[n]]
             new == WithoutNodes(bp, nodes)
  <1>0. /\ s.nodes \in Places
        /\ DOMAIN s.wires \subseteq WireId /\ s.wires \in [DOMAIN s.wires -> Widget]
        /\ DOMAIN s.aliases \subseteq Bus /\ s.aliases \in [DOMAIN s.aliases -> SUBSET WireId]
    BY SceneFacts
  <1>1. t = [nodes |-> ns, wires |-> ws, aliases |-> as]
    BY DEF WithoutWidgets
  <1>2. ns \in Places
    <2>1. DOMAIN s.nodes \subseteq NodeId /\ s.nodes \in [DOMAIN s.nodes -> Coord]
      BY <1>0, PlacesFacts
    <2>2. ns \in [DOMAIN s.nodes \ nodes -> Coord] /\ DOMAIN s.nodes \ nodes \in SUBSET NodeId
      BY <2>1
    <2> HIDE DEF ns
    <2> QED
      BY <2>2, PlacesFacts
  <1>3. /\ DOMAIN s.wires \ ids \in SUBSET WireId
        /\ ws \in [DOMAIN s.wires \ ids -> Widget]
    <2> HIDE DEF ids
    <2> QED
      BY <1>0
  <1>4. /\ DOMAIN s.aliases \ nodes \in SUBSET Bus
        /\ as \in [DOMAIN s.aliases \ nodes -> SUBSET WireId]
    BY <1>0
  <1>5. /\ DOMAIN ws = DOMAIN s.wires \ ids
        /\ \A j \in DOMAIN s.wires \ ids : ws[j] = s.wires[j]
        /\ DOMAIN as = DOMAIN s.aliases \ nodes
    OBVIOUS
  <1> HIDE DEF ws, as
  <1>6. t \in Scene /\ t.nodes = ns /\ t.wires = ws /\ t.aliases = as
    <2> HIDE DEF ns, ids, t
    <2> QED
      BY <1>1, <1>2, <1>3, <1>4, SceneFacts
  <1>7. /\ new.nodes = [n \in DOMAIN bp.nodes \ nodes |-> bp.nodes[n]]
        /\ Range(new.wires) = Range(bp.wires) \ Touching(bp, nodes \cap DOMAIN bp.nodes)
    BY WithoutNodesFacts
  <1>8. DOMAIN new.nodes = DOMAIN bp.nodes \ nodes
    BY <1>7
  <1>9. \A w, v \in Range(bp.wires) : w.id = v.id => w = v
    <2> TAKE w, v \in Range(bp.wires)
    <2> QED
      BY FoundAgain
  <1> HIDE DEF new, t, ns
  <1>10. ASSUME NEW j \in DOMAIN ws
         PROVE  \E w \in Range(new.wires) : w.id = j /\ Attached(new, w)
    <2>1. PICK w \in Range(bp.wires) : w.id = j /\ Attached(bp, w)
      BY <1>5, <1>10 DEF ShowsWires
    <2>2. w \notin Touching(bp, nodes)
      BY <1>5, <2>1
    <2>3. \A e \in Ends(w) : e.node \notin nodes
      BY <2>2 DEF Touching
    <2>4. w \in Range(new.wires)
      BY <1>7, <2>3 DEF Touching
    <2>5. Attached(new, w)
      BY <1>8, <2>1, <2>3 DEF Attached
    <2> QED
      BY <2>1, <2>4, <2>5
  <1>11. ASSUME NEW w \in Range(new.wires), Attached(new, w)
         PROVE  /\ w.id \in DOMAIN ws
                /\ ws[w.id].source = w.source /\ ws[w.id].target = w.target
                /\ exactly => ws[w.id].points = w.points
    <2>1. w \in Range(bp.wires)
      BY <1>7
    <2>2. Attached(bp, w) /\ \A e \in Ends(w) : e.node \notin nodes
      BY <1>8, <1>11 DEF Attached
    <2>3. w.id \notin ids
      BY <1>9, <2>1, <2>2 DEF Touching
    <2>4. /\ w.id \in DOMAIN s.wires
          /\ s.wires[w.id].source = w.source /\ s.wires[w.id].target = w.target
          /\ exactly => s.wires[w.id].points = w.points
      BY <2>1, <2>2 DEF ShowsWires
    <2> HIDE DEF ids
    <2> QED
      BY <1>5, <2>3, <2>4
  <1>12. ShowsWires(t, new, exactly)
    BY <1>6, <1>10, <1>11 DEF ShowsWires
  <1> QED
    BY <1>5, <1>6, <1>12 DEF t, new, ns, ids

-----------------------------------------------------------------------------
(* Edits of one wire.                                                      *)

\* new is bp but for the wire with a number.
WireEdit(bp, new, k, id) ==
  /\ new \in Document /\ Numbered(new, k) /\ new.nodes = bp.nodes
  /\ \A w \in Wire : w.id # id => (w \in Range(bp.wires) <=> w \in Range(new.wires))

LEMMA Rewired ==
  ASSUME NEW bp \in Document, NEW ws \in Seq(Wire)
  PROVE  LET new == [bp EXCEPT !.wires = ws]
         IN  new \in Document /\ new.wires = ws /\ new.nodes = bp.nodes
  BY DocumentFacts

\* Whether wires join depends on the nodes and the ends.
LEMMA JoinsAlike ==
  ASSUME NEW bp, NEW new, DOMAIN bp.nodes = DOMAIN new.nodes, NEW w, NEW v,
         w.source = v.source, w.target = v.target
  PROVE  Joins(bp, w) <=> Joins(new, v)
  BY DEF Joins

\* A wire with the next number is added ...
LEMMA Added ==
  ASSUME NEW bp \in Document, NEW k \in Nat, Numbered(bp, k), NEW wire \in Wire, wire.id = k
  PROVE  LET new == [bp EXCEPT !.wires = Append(@, wire)]
         IN  /\ WireEdit(bp, new, k + 1, k)
             /\ Fits(bp) /\ Joins(bp, wire) => Fits(new)
  <1> DEFINE ws == Append(bp.wires, wire)
             n == Len(bp.wires) + 1
             new == [bp EXCEPT !.wires = ws]
  <1>1. /\ bp.wires \in Seq(Wire) /\ Len(bp.wires) \in Nat /\ DOMAIN bp.wires = 1 .. Len(bp.wires)
        /\ ws \in Seq(Wire) /\ DOMAIN ws = 1 .. n
        /\ \A i \in DOMAIN bp.wires : ws[i] = bp.wires[i]
        /\ ws[n] = wire
    BY DEF Document
  <1>2. \A i \in DOMAIN ws : i \in DOMAIN bp.wires \/ i = n
    BY <1>1
  <1> HIDE DEF ws
  <1>3. new \in Document /\ new.wires = ws /\ new.nodes = bp.nodes
    BY <1>1, Rewired
  <1> HIDE DEF new
  <1>4. \A i \in DOMAIN bp.wires : bp.wires[i].id < k /\ bp.wires[i].id \in Nat
    <2> TAKE i \in DOMAIN bp.wires
    <2>1. bp.wires[i].id \in WireId
      BY WireFacts DEF Wire
    <2>2. bp.wires[i].id < k
      BY DEF Numbered
    <2> QED
      BY <2>1, <2>2 DEF WireId
  <1>5. Numbered(new, k + 1)
    <2> SUFFICES ASSUME NEW i \in DOMAIN ws
                 PROVE  /\ ws[i].id < k + 1
                        /\ \A j \in DOMAIN ws : ws[i].id = ws[j].id => i = j
      BY <1>3 DEF Numbered
    <2>1. CASE i = n
      <3>1. ws[i].id = k
        BY <1>1, <2>1
      <3>2. \A j \in DOMAIN ws : j # n => ws[j].id < k /\ ws[j].id \in Nat
        BY <1>1, <1>2, <1>4
      <3> QED
        BY <2>1, <3>1, <3>2
    <2>2. CASE i \in DOMAIN bp.wires
      <3>1. ws[i] = bp.wires[i] /\ ws[i].id < k /\ ws[i].id \in Nat
        BY <1>1, <1>4, <2>2
      <3>2. ASSUME NEW j \in DOMAIN ws, ws[i].id = ws[j].id PROVE i = j
        <4>1. j # n
          BY <1>1, <3>1, <3>2
        <4>2. j \in DOMAIN bp.wires /\ ws[j] = bp.wires[j]
          BY <1>1, <1>2, <4>1
        <4> QED
          BY <2>2, <3>1, <3>2, <4>2 DEF Numbered
      <3> QED
        BY <3>1, <3>2
    <2> QED
      BY <1>2, <2>1, <2>2
  <1>6. Range(ws) = Range(bp.wires) \cup {wire}
    <2>1. DOMAIN bp.wires \subseteq DOMAIN ws /\ n \in DOMAIN ws
      BY <1>1
    <2> QED
      BY <1>1, <1>2, <2>1 DEF Range
  <1>7. WireEdit(bp, new, k + 1, k)
    BY <1>3, <1>5, <1>6 DEF WireEdit
  <1>8. ASSUME Fits(bp), Joins(bp, wire) PROVE Fits(new)
    <2> SUFFICES ASSUME NEW i \in DOMAIN ws PROVE Joins(new, ws[i])
      BY <1>3 DEF Fits
    <2>1. Joins(bp, ws[i])
      BY <1>1, <1>2, <1>8 DEF Fits
    <2> QED
      BY <1>3, <2>1, JoinsAlike
  <1> QED
    BY <1>7, <1>8 DEF new, ws

\* ... the i-th is removed ...
LEMMA Removed ==
  ASSUME NEW bp \in Document, NEW k, Numbered(bp, k), NEW i \in DOMAIN bp.wires
  PROVE  /\ WireEdit(bp, RemoveWireAt(bp, i), k, bp.wires[i].id)
         /\ Fits(bp) => Fits(RemoveWireAt(bp, i))
         /\ \A w \in Range(RemoveWireAt(bp, i).wires) : w \in Range(bp.wires)
  <1> DEFINE ws == RemoveAt(bp.wires, i)
             new == [bp EXCEPT !.wires = ws]
  <1>0. /\ bp.wires \in Seq(Wire) /\ Len(bp.wires) \in Nat
        /\ DOMAIN bp.wires = 1 .. Len(bp.wires)
    BY DEF Document
  <1>1. /\ ws \in Seq(Wire) /\ DOMAIN ws = 1 .. Len(bp.wires) - 1
        /\ \A j \in DOMAIN ws : ws[j] = IF j < i THEN bp.wires[j] ELSE bp.wires[j + 1]
    BY <1>0, RemoveAtFacts
  <1>2. \A w \in Wire : w \in Range(ws) <=> \E j \in DOMAIN bp.wires : j # i /\ bp.wires[j] = w
    BY <1>0, RemoveAtRange
  <1> HIDE DEF ws
  <1>3. new \in Document /\ new.wires = ws /\ new.nodes = bp.nodes
    BY <1>1, Rewired
  <1>4. RemoveWireAt(bp, i) = new
    BY DEF RemoveWireAt, ws
  <1> HIDE DEF new
  <1> DEFINE at == [j \in DOMAIN ws |-> IF j < i THEN j ELSE j + 1]
  <1>5. /\ \A j \in DOMAIN ws : at[j] \in DOMAIN bp.wires /\ ws[j] = bp.wires[at[j]]
        /\ \A j, l \in DOMAIN ws : at[j] = at[l] => j = l
    BY <1>0, <1>1
  <1> HIDE DEF at
  <1>6. Numbered(new, k)
    <2> SUFFICES ASSUME NEW j \in DOMAIN ws
                 PROVE  /\ ws[j].id < k
                        /\ \A l \in DOMAIN ws : ws[j].id = ws[l].id => j = l
      BY <1>3 DEF Numbered
    <2>1. ws[j].id < k
      BY <1>5 DEF Numbered
    <2>2. ASSUME NEW l \in DOMAIN ws, ws[j].id = ws[l].id PROVE j = l
      <3>1. at[j] = at[l]
        BY <1>5, <2>2 DEF Numbered
      <3> QED
        BY <1>5, <3>1
    <2> QED
      BY <2>1, <2>2
  <1>7. ASSUME NEW w \in Wire, w.id # bp.wires[i].id
        PROVE  w \in Range(bp.wires) <=> w \in Range(ws)
    BY <1>2, <1>7 DEF Range
  <1>8. WireEdit(bp, new, k, bp.wires[i].id)
    BY <1>3, <1>6, <1>7 DEF WireEdit
  <1>9. ASSUME Fits(bp) PROVE Fits(new)
    <2> SUFFICES ASSUME NEW j \in DOMAIN ws PROVE Joins(new, ws[j])
      BY <1>3 DEF Fits
    <2>1. Joins(bp, ws[j])
      BY <1>5, <1>9 DEF Fits
    <2> QED
      BY <1>3, <2>1, JoinsAlike
  <1>10. \A w \in Range(ws) : w \in Range(bp.wires)
    BY <1>5 DEF Range
  <1> QED
    BY <1>3, <1>4, <1>8, <1>9, <1>10

\* ... or it is replaced by one with its number.
LEMMA Replaced ==
  ASSUME NEW bp \in Document, NEW k, Numbered(bp, k), NEW i \in DOMAIN bp.wires,
         NEW wire \in Wire, wire.id = bp.wires[i].id
  PROVE  LET new == [bp EXCEPT !.wires[i] = wire]
         IN  /\ WireEdit(bp, new, k, wire.id)
             /\ Fits(bp) /\ Joins(bp, wire) => Fits(new)
             /\ DOMAIN new.wires = DOMAIN bp.wires
             /\ \A j \in DOMAIN bp.wires : new.wires[j].id = bp.wires[j].id
             /\ \A w \in Range(new.wires) : w = wire \/ w \in Range(bp.wires)
  <1> DEFINE ws == [bp.wires EXCEPT ![i] = wire]
             new == [bp EXCEPT !.wires = ws]
  <1>0. /\ bp.wires \in Seq(Wire) /\ Len(bp.wires) \in Nat
        /\ DOMAIN bp.wires = 1 .. Len(bp.wires)
    BY DEF Document
  <1>1. /\ ws \in Seq(Wire) /\ DOMAIN ws = DOMAIN bp.wires
        /\ \A j \in DOMAIN bp.wires : ws[j] = IF j = i THEN wire ELSE bp.wires[j]
    BY <1>0
  <1>2. \A j \in DOMAIN bp.wires : ws[j].id = bp.wires[j].id
    BY <1>1
  <1> HIDE DEF ws
  <1>3. new \in Document /\ new.wires = ws /\ new.nodes = bp.nodes
    BY <1>1, Rewired
  <1>4. [bp EXCEPT !.wires[i] = wire] = new
    BY DEF ws
  <1> HIDE DEF new
  <1>5. Numbered(new, k)
    BY <1>1, <1>2, <1>3 DEF Numbered
  <1>6. ASSUME NEW w \in Wire, w.id # wire.id
        PROVE  w \in Range(bp.wires) <=> w \in Range(ws)
    BY <1>1, <1>6 DEF Range
  <1>7. WireEdit(bp, new, k, wire.id)
    BY <1>3, <1>5, <1>6 DEF WireEdit
  <1>8. ASSUME Fits(bp), Joins(bp, wire) PROVE Fits(new)
    <2> SUFFICES ASSUME NEW j \in DOMAIN ws PROVE Joins(new, ws[j])
      BY <1>3 DEF Fits
    <2>1. Joins(bp, ws[j])
      BY <1>1, <1>8 DEF Fits
    <2> QED
      BY <1>3, <2>1, JoinsAlike
  <1>9. \A w \in Range(ws) : w = wire \/ w \in Range(bp.wires)
    BY <1>1 DEF Range
  <1> QED
    BY <1>1, <1>2, <1>3, <1>4, <1>7, <1>8, <1>9

\* Its routing points are.
LEMMA Rerouted ==
  ASSUME NEW bp \in Document, NEW k, Numbered(bp, k), NEW i \in DOMAIN bp.wires,
         NEW points \in Seq(Coord)
  PROVE  LET new == [bp EXCEPT !.wires[i].points = points]
         IN  /\ WireEdit(bp, new, k, bp.wires[i].id)
             /\ Fits(bp) => Fits(new)
             /\ DOMAIN new.wires = DOMAIN bp.wires
             /\ \A j \in DOMAIN bp.wires :
                  /\ new.wires[j].id = bp.wires[j].id
                  /\ new.wires[j].source = bp.wires[j].source
                  /\ new.wires[j].target = bp.wires[j].target
  <1> DEFINE wire == [bp.wires[i] EXCEPT !.points = points]
  <1>0. bp.wires[i] \in Wire
    BY WireFacts
  <1>1. /\ wire \in Wire /\ wire.id = bp.wires[i].id
        /\ wire.source = bp.wires[i].source /\ wire.target = bp.wires[i].target
    BY <1>0 DEF Wire
  <1>2. [bp EXCEPT !.wires[i].points = points] = [bp EXCEPT !.wires[i] = wire]
    OBVIOUS
  <1> HIDE DEF wire
  <1> DEFINE new == [bp EXCEPT !.wires[i] = wire]
  <1>3. /\ WireEdit(bp, new, k, wire.id)
        /\ Fits(bp) /\ Joins(bp, wire) => Fits(new)
        /\ DOMAIN new.wires = DOMAIN bp.wires
        /\ \A j \in DOMAIN bp.wires : new.wires[j].id = bp.wires[j].id
    BY <1>1, Replaced
  <1>4. Fits(bp) => Joins(bp, wire)
    BY <1>1, JoinsAlike DEF Fits
  <1>5. \A j \in DOMAIN bp.wires : new.wires[j] = IF j = i THEN wire ELSE bp.wires[j]
    BY DocumentFacts
  <1> QED
    BY <1>1, <1>2, <1>3, <1>4, <1>5

\* Two wires change places.
LEMMA Swapped ==
  ASSUME NEW bp \in Document, NEW k, Numbered(bp, k), NEW i \in DOMAIN bp.wires,
         NEW j \in DOMAIN bp.wires
  PROVE  LET new == [bp EXCEPT !.wires = Reordered(@, i, j)]
         IN  /\ new \in Document /\ Numbered(new, k) /\ new.nodes = bp.nodes
             /\ Fits(bp) => Fits(new)
             /\ Range(new.wires) = Range(bp.wires)
  <1> DEFINE ws == Reordered(bp.wires, i, j)
             new == [bp EXCEPT !.wires = ws]
             at == [l \in DOMAIN bp.wires |-> IF l = j THEN i ELSE IF l = i THEN j ELSE l]
  <1>0. /\ bp.wires \in Seq(Wire) /\ Len(bp.wires) \in Nat
        /\ DOMAIN bp.wires = 1 .. Len(bp.wires)
    BY DEF Document
  <1>1. /\ ws \in Seq(Wire) /\ DOMAIN ws = DOMAIN bp.wires
        /\ \A l \in DOMAIN bp.wires : ws[l] = bp.wires[at[l]]
    <2>1. ws = [bp.wires EXCEPT ![i] = bp.wires[j], ![j] = bp.wires[i]]
      BY DEF Reordered
    <2> QED
      BY <1>0, <2>1
  <1>2. /\ \A l \in DOMAIN bp.wires : at[l] \in DOMAIN bp.wires
        /\ \A l, m \in DOMAIN bp.wires : at[l] = at[m] => l = m
        /\ \A l \in DOMAIN bp.wires : at[at[l]] = l
    OBVIOUS
  <1> HIDE DEF ws, at
  <1>3. new \in Document /\ new.wires = ws /\ new.nodes = bp.nodes
    BY <1>1, Rewired
  <1> HIDE DEF new
  <1>4. Numbered(new, k)
    <2> SUFFICES ASSUME NEW l \in DOMAIN bp.wires
                 PROVE  /\ ws[l].id < k
                        /\ \A m \in DOMAIN bp.wires : ws[l].id = ws[m].id => l = m
      BY <1>1, <1>3 DEF Numbered
    <2>1. at[l] \in DOMAIN bp.wires /\ ws[l] = bp.wires[at[l]]
      BY <1>1, <1>2
    <2>2. ws[l].id < k
      BY <2>1 DEF Numbered
    <2>3. ASSUME NEW m \in DOMAIN bp.wires, ws[l].id = ws[m].id PROVE l = m
      <3>1. at[m] \in DOMAIN bp.wires /\ ws[m] = bp.wires[at[m]]
        BY <1>1, <1>2
      <3>2. at[l] = at[m]
        BY <2>1, <2>3, <3>1 DEF Numbered
      <3> QED
        BY <1>2, <3>2
    <2> QED
      BY <2>2, <2>3
  <1>5. ASSUME Fits(bp) PROVE Fits(new)
    <2> SUFFICES ASSUME NEW l \in DOMAIN ws PROVE Joins(new, ws[l])
      BY <1>3 DEF Fits
    <2>1. Joins(bp, ws[l])
      BY <1>1, <1>2, <1>5 DEF Fits
    <2> QED
      BY <1>3, <2>1, JoinsAlike
  <1>6. Range(ws) = Range(bp.wires)
    <2>1. \A l \in DOMAIN ws : ws[l] \in Range(bp.wires)
      <3> TAKE l \in DOMAIN ws
      <3>1. at[l] \in DOMAIN bp.wires /\ ws[l] = bp.wires[at[l]]
        BY <1>1, <1>2
      <3> HIDE DEF at
      <3> QED
        BY <3>1 DEF Range
    <2>2. ASSUME NEW l \in DOMAIN bp.wires PROVE bp.wires[l] \in Range(ws)
      <3>1. at[l] \in DOMAIN bp.wires /\ at[at[l]] = l
        BY <1>2
      <3>2. at[l] \in DOMAIN ws /\ ws[at[l]] = bp.wires[l]
        BY <1>1, <3>1
      <3> QED
        BY <3>2 DEF Range
    <2>3. Range(ws) \subseteq Range(bp.wires)
      BY <2>1 DEF Range
    <2>4. Range(bp.wires) \subseteq Range(ws)
      BY <2>2 DEF Range
    <2> QED
      BY <2>3, <2>4
  <1> QED
    BY <1>3, <1>4, <1>5, <1>6 DEF new, ws

-----------------------------------------------------------------------------
(* Gestures.                                                               *)

LEMMA TypeFacts ==
  ASSUME Types
  PROVE  /\ model.current \in Document /\ model.current.nodes \in Places
         /\ model.current.wires \in Seq(Wire)
         /\ DOMAIN model.current.nodes \subseteq NodeId
         /\ model.current.nodes \in [DOMAIN model.current.nodes -> Coord]
         /\ model.undo \in Seq(Document) /\ model.redo \in Seq(Document)
         /\ scene.nodes \in Places /\ scene.nodes \in [DOMAIN scene.nodes -> Coord]
         /\ DOMAIN scene.wires \subseteq WireId /\ scene.wires \in [DOMAIN scene.wires -> Widget]
         /\ DOMAIN scene.aliases \subseteq Bus
         /\ scene.aliases \in [DOMAIN scene.aliases -> SUBSET WireId]
  <1>1. /\ model.current \in Document
        /\ model.undo \in Seq(Document) /\ model.redo \in Seq(Document)
    BY DEF Types, Model
  <1>2. model.current.nodes \in Places /\ model.current.wires \in Seq(Wire)
    BY <1>1, DocumentFacts
  <1>3. scene \in Scene
    BY DEF Types
  <1>4. scene.nodes \in Places
    BY <1>3, SceneFacts
  <1> QED
    BY <1>1, <1>2, <1>3, <1>4, SceneFacts, PlacesFacts

\* The current document is numbered and, while nothing crossed, fits.
LEMMA CurrentSound ==
  ASSUME Sound
  PROVE  /\ Numbered(model.current, next_wire_id)
         /\ ~crossed => Fits(model.current)
  BY DEF Sound, Versions

\* What can be hit belongs to nodes that are there.
LEMMA HitFacts ==
  ASSUME IInv, NEW hit \in HitPorts
  PROVE  hit \in Hits(DOMAIN model.current.nodes) /\ hit \in Hits(NodeId)
  <1>1. /\ DOMAIN scene.nodes = DOMAIN model.current.nodes
        /\ DOMAIN scene.aliases = Bus \cap DOMAIN scene.nodes
    BY DEF IInv, ShowsNodes
  <1>2. DOMAIN model.current.nodes \subseteq NodeId
        /\ scene.aliases \in [DOMAIN scene.aliases -> SUBSET WireId]
    BY TypeFacts DEF IInv
  <1>3. hit \in (UNION {PortHits(n) : n \in DOMAIN scene.nodes})
                \cup (UNION {AliasHits(n, scene.aliases[n]) : n \in DOMAIN scene.aliases})
    BY DEF HitPorts
  <1>4. ASSUME NEW n \in DOMAIN scene.nodes, hit \in PortHits(n)
        PROVE  hit \in Hits(DOMAIN model.current.nodes) /\ hit \in Hits(NodeId)
    BY <1>1, <1>2, <1>4 DEF Hits
  <1>5. ASSUME NEW n \in DOMAIN scene.aliases, hit \in AliasHits(n, scene.aliases[n])
        PROVE  hit \in Hits(DOMAIN model.current.nodes) /\ hit \in Hits(NodeId)
    <2>1. n \in Bus \cap DOMAIN model.current.nodes /\ n \in Bus \cap NodeId
      BY <1>1, <1>2
    <2>2. scene.aliases[n] \subseteq WireId
      BY <1>2
    <2>3. hit \in AliasHits(n, WireId)
      BY <1>5, <2>2 DEF AliasHits
    <2> QED
      BY <2>1, <2>3 DEF Hits
  <1>6. \/ \E n \in DOMAIN scene.nodes : hit \in PortHits(n)
        \/ \E n \in DOMAIN scene.aliases : hit \in AliasHits(n, scene.aliases[n])
    BY <1>3
  <1> QED
    BY <1>4, <1>5, <1>6

\* The wire that is found at a port is one of the document.
LEMMA FoundOnPort ==
  ASSUME Types, NEW hit, FindWireOnPort(hit) # 0
  PROVE  FindWireOnPort(hit) \in DOMAIN model.current.wires
  <1> DEFINE wires == model.current.wires
             I == {i \in 1 .. Len(wires) : End(hit.node, hit.port) \in Ends(wires[i])}
  <1>1. Len(wires) \in Nat /\ DOMAIN wires = 1 .. Len(wires)
    BY TypeFacts
  <1>2. CASE ~IsBus(hit.node)
    <2>1. FindWireOnPort(hit) = IF I # {} THEN Min(I) ELSE 0
      BY <1>2 DEF FindWireOnPort, SelectInSeq
    <2>2. I # {} /\ I \subseteq Nat
      BY <1>1, <2>1
    <2>3. Min(I) \in I
      BY <2>2, MinFacts
    <2> QED
      BY <1>1, <2>1, <2>2, <2>3
  <1>3. CASE IsBus(hit.node)
    <2>1. FindWireOnPort(hit) = FindWire(model.current, hit.port)
      BY <1>3 DEF FindWireOnPort
    <2> QED
      BY <2>1, FindWireFacts, TypeFacts
  <1> QED
    BY <1>2, <1>3

\* Selected nodes as a list.
LEMMA ListedFacts ==
  ASSUME NEW sel \in SUBSET NodeId
  PROVE  Listed(sel) \in Seq(NodeId) /\ Range(Listed(sel)) = sel
  <1>1. Nodes \in Seq(NodeId)
    BY CanvasAssumption
  <1>2. Range(Nodes) = NodeId
    BY DEF NodeId
  <1>3. Those(Nodes, sel) \in Seq(NodeId) /\ Range(Those(Nodes, sel)) = Range(Nodes) \cap sel
    BY <1>1, ThoseFacts
  <1> QED
    BY <1>2, <1>3 DEF Listed

LEMMA PresentFacts ==
  ASSUME NEW bp \in Document, NEW sel
  PROVE  /\ Present(bp, sel) \in Seq(NodeId)
         /\ Range(Present(bp, sel)) = sel \cap DOMAIN bp.nodes
         /\ \A k \in DOMAIN Present(bp, sel) : Present(bp, sel)[k] \in sel \cap DOMAIN bp.nodes
         /\ [k \in DOMAIN Present(bp, sel) |-> bp.nodes[Present(bp, sel)[k]]] \in Seq(Coord)
  <1> DEFINE p == Present(bp, sel)
  <1>1. /\ DOMAIN bp.nodes \subseteq NodeId /\ bp.nodes \in [DOMAIN bp.nodes -> Coord]
    BY DocumentFacts, PlacesFacts
  <1>2. sel \cap DOMAIN bp.nodes \in SUBSET NodeId
    BY <1>1
  <1>3. p \in Seq(NodeId) /\ Range(p) = sel \cap DOMAIN bp.nodes
    BY <1>2, ListedFacts DEF Present
  <1> HIDE DEF p
  <1>4. \A k \in DOMAIN p : p[k] \in sel \cap DOMAIN bp.nodes
    BY <1>3 DEF Range
  <1>5. Len(p) \in Nat /\ DOMAIN p = 1 .. Len(p)
    BY <1>3
  <1>6. [k \in DOMAIN p |-> bp.nodes[p[k]]] \in Seq(Coord)
    <2>1. [k \in DOMAIN p |-> bp.nodes[p[k]]] \in [1 .. Len(p) -> Coord]
      BY <1>1, <1>4, <1>5
    <2> QED
      BY <1>5, <2>1
  <1> QED
    BY <1>3, <1>4, <1>6 DEF p

\* What is shown exactly is shown.
LEMMA ShownLess ==
  ASSUME NEW s, NEW bp, NEW exactly, ShowsWires(s, bp, exactly)
  PROVE  /\ ShowsWires(s, bp, FALSE)
         /\ \A t, e : t.wires = s.wires /\ (e => exactly) => ShowsWires(t, bp, e)
  BY DEF ShowsWires

-----------------------------------------------------------------------------
(* Pressing.                                                               *)

\* What a gesture must be to begin with a selection.
Begins(g, sel) ==
  /\ g \in Gesture /\ sel \subseteq NodeId
  /\ g.state = "CreatingWire" => g.start \in Hits(DOMAIN model.current.nodes)
  /\ g.state = "ReconnectingWire" => /\ g.index \in DOMAIN model.current.wires
                                     /\ model.current.wires[g.index].id = g.wire
  /\ g.state \in {"DraggingNode", "ResizingNode"} => ~read_only /\ ~simulation_mode
  /\ g.state = "DraggingNode" => g = DragNode(sel)
  /\ g.state = "ResizingNode" =>
       /\ g.node \in DOMAIN model.current.nodes
       /\ ~drifted => g.original = scene.nodes[g.node] /\ g.current = scene.nodes[g.node]

\* A press begins a gesture or changes the selection of the one in flight.
LEMMA PressPreserves ==
  ASSUME IInv, NEW g, NEW sel \in SUBSET NodeId, Press(g, sel), g = gesture \/ Begins(g, sel)
  PROVE  IInv'
  <1> DEFINE drift == Previewing /\ <<g, sel>> # <<gesture, selection>>
             bp == model.current
  <1>0. /\ model' = model /\ next_wire_id' = next_wire_id /\ read_only' = read_only
        /\ simulation_mode' = simulation_mode /\ crossed' = crossed
        /\ gesture' = g /\ selection' = sel
    BY DEF Press
  <1>1. /\ drifted' = (drifted \/ drift)
        /\ scene' = IF drift THEN [scene EXCEPT !.nodes = model.current.nodes] ELSE scene
    BY DEF Press, Drift
  <1>2. Types /\ Sound /\ InHand /\ ShowsNodes /\ ShowsWires(scene, bp, ~drifted)
    BY DEF IInv
  <1>3. /\ scene' \in Scene /\ scene'.wires = scene.wires /\ scene'.aliases = scene.aliases
        /\ drift => scene'.nodes = model.current.nodes
        /\ ~drift => scene' = scene
    <2>1. scene \in Scene /\ model.current.nodes \in Places
      BY <1>2, TypeFacts DEF Types
    <2> HIDE DEF drift
    <2> QED
      BY <1>1, <2>1, SceneExcept
  <1>4. g \in Gesture
    BY <1>2 DEF Types, Begins
  <1>5. Types'
    <2>1. {read_only, simulation_mode, drifted, crossed} \subseteq BOOLEAN
      BY <1>2 DEF Types
    <2>2. drifted' \in BOOLEAN
      BY <1>1, <2>1
    <2> HIDE DEF drift
    <2> QED
      BY <1>0, <1>2, <1>3, <1>4, <2>1, <2>2 DEF Types
  <1>6. Sound'
    BY <1>0, <1>2 DEF Sound
  <1>7. InHand'
    BY <1>0, <1>2 DEF InHand, Begins
  <1>8. ShowsWires(scene', bp, ~drifted')
    <2> HIDE DEF drift
    <2> QED
      BY <1>1, <1>2, <1>3, ShownLess
  <1>9. ShowsNodes'
    <2>1. /\ DOMAIN scene'.nodes = DOMAIN model.current.nodes
          /\ DOMAIN scene'.aliases = Bus \cap DOMAIN scene'.nodes
      BY <1>2, <1>3 DEF ShowsNodes
    <2>2. Previewing' => ~read_only
      BY <1>0, <1>2 DEF ShowsNodes, Previewing, Begins
    <2>3. CASE drift
      BY <1>0, <1>1, <2>1, <2>2, <2>3 DEF ShowsNodes
    <2>4. CASE ~drift /\ g = gesture /\ sel = selection
      BY <1>0, <1>1, <1>2, <1>3, <2>4
         DEF ShowsNodes, Previewing, DragShown, ResizeShown
    <2>5. CASE ~drift /\ ~Previewing
      <3> SUFFICES ASSUME ~drifted
                   PROVE  /\ Previewing' => ~simulation_mode'
                          /\ gesture'.state = "DraggingNode" => DragShown'
                          /\ gesture'.state = "ResizingNode" => ResizeShown'
                          /\ ~Previewing' => scene'.nodes = model'.current.nodes
        BY <1>0, <1>1, <2>1, <2>2, <2>5 DEF ShowsNodes
      <3>1. scene'.nodes = bp.nodes /\ scene' = scene
        BY <1>2, <1>3, <2>5 DEF ShowsNodes
      <3>2. g.state \in {"DraggingNode", "ResizingNode"} => Begins(g, sel)
        BY <2>5 DEF Previewing
      <3>3. Previewing' => ~simulation_mode'
        BY <1>0, <3>2 DEF Previewing, Begins
      <3>4. ASSUME g.state = "DraggingNode" PROVE DragShown'
        <4>1. g = DragNode(sel)
          BY <3>2, <3>4 DEF Begins
        <4>2. /\ g.current = <<>>
              /\ g.initial = [k \in DOMAIN Present(bp, sel) |-> bp.nodes[Present(bp, sel)[k]]]
          BY <4>1 DEF DragNode
        <4> QED
          BY <1>0, <3>1, <4>2 DEF DragShown
      <3>5. ASSUME g.state = "ResizingNode" PROVE ResizeShown'
        <4>1. /\ g.node \in DOMAIN bp.nodes
              /\ g.original = bp.nodes[g.node] /\ g.current = bp.nodes[g.node]
          BY <3>1, <3>2, <3>5 DEF Begins
        <4>2. bp.nodes = [n \in DOMAIN bp.nodes |-> bp.nodes[n]]
          BY <1>2, TypeFacts
        <4>3. bp.nodes = [n \in DOMAIN bp.nodes |-> IF n = g.node THEN g.current ELSE bp.nodes[n]]
          BY <4>1, <4>2
        <4> QED
          BY <1>0, <3>1, <4>1, <4>3 DEF ResizeShown
      <3> QED
        BY <1>0, <3>1, <3>3, <3>4, <3>5
    <2> QED
      BY <2>3, <2>4, <2>5
  <1> QED
    BY <1>0, <1>5, <1>6, <1>7, <1>8, <1>9 DEF IInv

\* Gestures that remember nothing begin with any selection.
LEMMA PlainBegins ==
  ASSUME NEW sel \in SUBSET NodeId
  PROVE  /\ Begins(Idle, sel) /\ Begins(Panning, sel) /\ Begins(Marquee, sel)
         /\ \A n \in NodeId : Begins(Control(n), sel)
  <1>1. /\ Idle \in Gesture /\ Panning \in Gesture /\ Marquee \in Gesture
        /\ \A n \in NodeId : Control(n) \in Gesture
    BY DEF Gesture
  <1>2. /\ Idle.state = "Idle" /\ Panning.state = "Panning" /\ Marquee.state = "MarqueeSelect"
        /\ \A n \in NodeId : Control(n).state = "DraggingControl"
    BY DEF Idle, Panning, Marquee, Control
  <1> QED
    BY <1>1, <1>2 DEF Begins

\* A drag begins where the selected nodes are.
LEMMA DragBegins ==
  ASSUME IInv, Editing, NEW sel \in SUBSET NodeId
  PROVE  Begins(DragNode(sel), sel)
  <1>1. [k \in DOMAIN Present(model.current, sel) |->
           model.current.nodes[Present(model.current, sel)[k]]] \in Seq(Coord)
    BY PresentFacts, TypeFacts DEF IInv
  <1>2. <<>> \in Seq(Coord)
    OBVIOUS
  <1>3. DragNode(sel) \in [state : {"DraggingNode"}, current : Seq(Coord), initial : Seq(Coord)]
    BY <1>1, <1>2 DEF DragNode
  <1>4. DragNode(sel) \in Gesture
    BY <1>3 DEF Gesture
  <1>5. DragNode(sel).state = "DraggingNode"
    BY DEF DragNode
  <1> QED
    BY <1>4, <1>5 DEF Begins, Editing

\* A resize begins at the size the widget has.
LEMMA ResizeBegins ==
  ASSUME IInv, Editing, NEW sel \in SUBSET NodeId, NEW n \in DOMAIN scene.nodes,
         NEW g \in Resizes(n)
  PROVE  Begins(g, sel)
  <1>1. scene.nodes \in [DOMAIN scene.nodes -> Coord] /\ n \in NodeId
        /\ DOMAIN scene.nodes = DOMAIN model.current.nodes
    BY TypeFacts DEF IInv, ShowsNodes
  <1>2. PICK x \in Coord : /\ g = [state |-> "ResizingNode", node |-> n, original |-> x, current |-> x]
                           /\ ~drifted => x = scene.nodes[n]
    BY <1>1 DEF Resizes
  <1>3. g \in [state : {"ResizingNode"}, node : NodeId, original : Coord, current : Coord]
    BY <1>1, <1>2
  <1>4. g \in Gesture
    BY <1>3 DEF Gesture
  <1> QED
    BY <1>1, <1>2, <1>4 DEF Begins, Editing

\* A routing point that is shown belongs to a wire of the document.
LEMMA PointBegins ==
  ASSUME IInv, NEW sel \in SUBSET NodeId, NEW id \in DOMAIN scene.wires,
         NEW k \in DOMAIN scene.wires[id].points
  PROVE  Begins(DragPoint(id, k), sel)
  <1> DEFINE i == FindWire(model.current, id)
  <1>1. PICK w \in Range(model.current.wires) : w.id = id
    BY DEF IInv, ShowsWires
  <1>2. i \in DOMAIN model.current.wires
    BY <1>1, FoundAgain, CurrentSound, TypeFacts DEF IInv
  <1>3. model.current.wires[i] \in Wire
    BY <1>2, WireFacts, TypeFacts DEF IInv
  <1>4. id \in WireId /\ scene.wires[id] \in Widget
    BY TypeFacts DEF IInv
  <1>5. scene.wires[id].points \in Seq(Coord) /\ model.current.wires[i].points \in Seq(Coord)
    BY <1>3, <1>4 DEF Widget, Wire
  <1>6. scene.wires[id].points[k] \in Coord /\ k \in Nat
    BY <1>5
  <1>7. DragPoint(id, k) \in [state : {"DraggingRoutingPoint"}, wire : WireId, index : Nat,
                              initial : Seq(Coord), pos : Coord]
    BY <1>4, <1>5, <1>6 DEF DragPoint
  <1>8. DragPoint(id, k) \in Gesture
    BY <1>7 DEF Gesture
  <1>9. DragPoint(id, k).state = "DraggingRoutingPoint"
    BY DEF DragPoint
  <1> QED
    BY <1>8, <1>9 DEF Begins

\* A wire is taken from where it is, or begun at a port that is there.
LEMMA WireBegins ==
  ASSUME IInv, NEW sel \in SUBSET NodeId, NEW hit \in HitPorts
  PROVE  LET k == FindWireOnPort(hit)
         IN  Begins(IF k # 0 THEN ReconnectWire(hit, k) ELSE CreateWire(hit), sel)
  <1> DEFINE k == FindWireOnPort(hit)
  <1>1. CASE k # 0
    <2>1. k \in DOMAIN model.current.wires /\ k \in Nat \ {0}
      BY <1>1, FoundOnPort, TypeFacts DEF IInv
    <2>2. model.current.wires[k].id \in WireId
      BY <2>1, WireFacts, TypeFacts DEF IInv, Wire
    <2> HIDE DEF k
    <2> DEFINE g == ReconnectWire(hit, k)
    <2>3. /\ g \in [state : {"ReconnectingWire"}, index : Nat \ {0}, detach_start : BOOLEAN,
                    wire : WireId]
          /\ g.state = "ReconnectingWire" /\ g.index = k
          /\ g.wire = model.current.wires[k].id
      BY <2>1, <2>2 DEF ReconnectWire
    <2>4. g \in Gesture
      BY <2>3 DEF Gesture
    <2> HIDE DEF g
    <2>5. Begins(g, sel)
      BY <2>1, <2>3, <2>4 DEF Begins
    <2> QED
      BY <1>1, <2>5 DEF g, k
  <1>2. CASE k = 0
    <2> DEFINE g == CreateWire(hit)
    <2>1. hit \in Hits(DOMAIN model.current.nodes) /\ hit \in Hits(NodeId)
      BY HitFacts
    <2>2. /\ g \in [state : {"CreatingWire"}, start : Hits(NodeId)]
          /\ g.state = "CreatingWire" /\ g.start = hit
      BY <2>1 DEF CreateWire
    <2>3. g \in Gesture
      BY <2>2 DEF Gesture
    <2> HIDE DEF g
    <2>4. Begins(g, sel)
      BY <2>1, <2>2, <2>3 DEF Begins
    <2> QED
      BY <1>2, <2>4 DEF g
  <1> QED
    BY <1>1, <1>2

\* Every press keeps the invariant.
LEMMA PressesPreserve ==
  ASSUME IInv, MouseDown \/ ReleaseMarquee \/ ReleaseNothing \/ SelectNodeById
  PROVE  IInv'
  <1>0. /\ selection \in SUBSET NodeId
        /\ DOMAIN scene.nodes = DOMAIN model.current.nodes
        /\ DOMAIN model.current.nodes \subseteq NodeId
    BY TypeFacts DEF IInv, Types, ShowsNodes
  <1>1. ASSUME NEW g, NEW sel \in SUBSET NodeId, Press(g, sel), g = gesture \/ Begins(g, sel)
        PROVE  IInv'
    BY <1>1, PressPreserves
  <1>2. CASE PressReadOnly
    <2>1. ASSUME NEW n \in DOMAIN scene.nodes, NEW ctrl \in BOOLEAN,
                 Press(gesture, (IF ctrl THEN selection ELSE {}) \cup {n})
          PROVE  IInv'
      <3>1. (IF ctrl THEN selection ELSE {}) \cup {n} \in SUBSET NodeId
        BY <1>0
      <3> QED
        BY <1>1, <2>1, <3>1
    <2>2. CASE Press(Panning, {})
      <3>1. {} \in SUBSET NodeId
        OBVIOUS
      <3> QED
        BY <1>1, <2>2, <3>1, PlainBegins
    <2> QED
      BY <1>2, <2>1, <2>2 DEF PressReadOnly
  <1>3. CASE PressControl
    <2>1. PICK n \in DOMAIN Controls \cap DOMAIN scene.nodes :
             Press(IF Controls[n] = "click" THEN gesture ELSE Control(n), selection)
      BY <1>3 DEF PressControl
    <2>2. n \in NodeId
      BY <1>0
    <2>3. CASE Controls[n] = "click"
      BY <1>0, <1>1, <2>1, <2>3
    <2>4. CASE Controls[n] # "click"
      BY <1>0, <1>1, <2>1, <2>2, <2>4, PlainBegins
    <2> QED
      BY <2>3, <2>4
  <1>4. CASE PressSimulating \/ PressEmpty
    <2>1. Press(Panning, {}) /\ {} \in SUBSET NodeId
      BY <1>4 DEF PressSimulating, PressEmpty
    <2> QED
      BY <1>1, <2>1, PlainBegins
  <1>5. CASE PressPort
    <2>1. PICK hit \in HitPorts :
             LET k == FindWireOnPort(hit)
             IN  Press(IF k # 0 THEN ReconnectWire(hit, k) ELSE CreateWire(hit), selection)
      BY <1>5 DEF PressPort
    <2> DEFINE g == IF FindWireOnPort(hit) # 0 THEN ReconnectWire(hit, FindWireOnPort(hit))
                    ELSE CreateWire(hit)
    <2>2. Begins(g, selection)
      BY <1>0, WireBegins
    <2>3. Press(g, selection)
      BY <2>1
    <2> HIDE DEF g
    <2> QED
      BY <1>0, <1>1, <2>2, <2>3
  <1>6. CASE PressMarquee
    BY <1>0, <1>1, <1>6, PlainBegins DEF PressMarquee
  <1>7. ASSUME NEW n \in DOMAIN scene.nodes, NEW ctrl \in BOOLEAN, Editing,
               Press(DragNode(DragSelection(n, ctrl)), DragSelection(n, ctrl))
        PROVE  IInv'
    <2>1. DragSelection(n, ctrl) \in SUBSET NodeId
      BY <1>0 DEF DragSelection
    <2> QED
      BY <1>1, <1>7, <2>1, DragBegins
  <1>8. CASE PressHandle
    <2>1. PICK n \in Resizable \cap DOMAIN scene.nodes, ctrl \in BOOLEAN :
             /\ Editing
             /\ IF n \in selection THEN \E g \in Resizes(n) : Press(g, {n})
                ELSE Press(DragNode(DragSelection(n, ctrl)), DragSelection(n, ctrl))
      BY <1>8 DEF PressHandle
    <2>2. CASE n \in selection
      <3>1. PICK g \in Resizes(n) : Press(g, {n})
        BY <2>1, <2>2
      <3>2. {n} \in SUBSET NodeId
        BY <1>0
      <3>3. Begins(g, {n})
        BY <2>1, <3>2, ResizeBegins
      <3> QED
        BY <1>1, <3>1, <3>2, <3>3
    <2>3. CASE n \notin selection
      BY <1>7, <2>1, <2>3
    <2> QED
      BY <2>2, <2>3
  <1>9. CASE PressNode
    BY <1>7, <1>9 DEF PressNode
  <1>10. CASE PressPoint
    <2>1. PICK id \in DOMAIN scene.wires :
             \E k \in DOMAIN scene.wires[id].points : Press(DragPoint(id, k), selection)
      BY <1>10 DEF PressPoint
    <2>2. PICK k \in DOMAIN scene.wires[id].points : Press(DragPoint(id, k), selection)
      BY <2>1
    <2> QED
      BY <1>0, <1>1, <2>2, PointBegins
  <1>11. CASE PressWire
    <2>1. Press(gesture, {}) /\ {} \in SUBSET NodeId
      BY <1>11 DEF PressWire
    <2> QED
      BY <1>1, <2>1
  <1>12. CASE ReleaseMarquee
    <2>1. PICK inside \in SUBSET DOMAIN model.current.nodes : Press(Idle, selection \cup inside)
      BY <1>12 DEF ReleaseMarquee
    <2>2. selection \cup inside \in SUBSET NodeId
      BY <1>0
    <2> QED
      BY <1>1, <2>1, <2>2, PlainBegins
  <1>13. CASE ReleaseNothing
    BY <1>0, <1>1, <1>13, PlainBegins DEF ReleaseNothing
  <1>14. CASE SelectNodeById
    <2>1. PICK n \in DOMAIN model.current.nodes : Press(gesture, {n})
      BY <1>14 DEF SelectNodeById
    <2>2. {n} \in SUBSET NodeId
      BY <1>0
    <2> QED
      BY <1>1, <2>1, <2>2
  <1> QED
    BY <1>2, <1>3, <1>4, <1>5, <1>6, <1>8, <1>9, <1>10, <1>11, <1>12, <1>13, <1>14
       DEF MouseDown

-----------------------------------------------------------------------------
(* Dragging.                                                               *)

\* What a gesture remembers follows from its state.
LEMMA GestureFacts ==
  ASSUME NEW g \in Gesture
  PROVE  /\ g.state = "DraggingNode" =>
              g \in [state : {"DraggingNode"}, current : Seq(Coord), initial : Seq(Coord)]
         /\ g.state = "ResizingNode" =>
              g \in [state : {"ResizingNode"}, node : NodeId, original : Coord, current : Coord]
         /\ g.state = "DraggingRoutingPoint" =>
              g \in [state : {"DraggingRoutingPoint"}, wire : WireId, index : Nat,
                     initial : Seq(Coord), pos : Coord]
         /\ g.state = "CreatingWire" =>
              g \in [state : {"CreatingWire"}, start : Hits(NodeId)]
         /\ g.state = "ReconnectingWire" =>
              g \in [state : {"ReconnectingWire"}, index : Nat \ {0}, detach_start : BOOLEAN,
                     wire : WireId]
  <1>1. /\ Idle.state = "Idle" /\ Panning.state = "Panning" /\ Marquee.state = "MarqueeSelect"
        /\ \A n : Control(n).state = "DraggingControl"
    BY DEF Idle, Panning, Marquee, Control
  <1>2. CASE g \in {Idle, Panning, Marquee} \cup {Control(n) : n \in NodeId}
    BY <1>1, <1>2
  <1>3. CASE g \in [state : {"DraggingNode"}, current : Seq(Coord), initial : Seq(Coord)]
    BY <1>3
  <1>4. CASE g \in [state : {"ResizingNode"}, node : NodeId, original : Coord, current : Coord]
    BY <1>4
  <1>5. CASE g \in [state : {"DraggingRoutingPoint"}, wire : WireId, index : Nat,
                    initial : Seq(Coord), pos : Coord]
    BY <1>5
  <1>6. CASE g \in [state : {"CreatingWire"}, start : Hits(NodeId)]
    BY <1>6
  <1>7. CASE g \in [state : {"ReconnectingWire"}, index : Nat \ {0}, detach_start : BOOLEAN,
                    wire : WireId]
    BY <1>7
  <1> QED
    BY <1>2, <1>3, <1>4, <1>5, <1>6, <1>7 DEF Gesture

\* A preview moves nodes of the scene and lets the gesture remember where.
LEMMA PreviewPreserves ==
  ASSUME IInv, NEW s, NEW g, Preview(s, g), NEW nodes \in Places,
         s = [scene EXCEPT !.nodes = nodes], DOMAIN nodes = DOMAIN scene.nodes,
         g \in Gesture, g.state = gesture.state, Previewing,
         ~drifted /\ g.state = "DraggingNode" => DragShown',
         ~drifted /\ g.state = "ResizingNode" => ResizeShown'
  PROVE  IInv'
  <1>0. /\ model' = model /\ next_wire_id' = next_wire_id /\ selection' = selection
        /\ read_only' = read_only /\ simulation_mode' = simulation_mode
        /\ drifted' = drifted /\ crossed' = crossed /\ scene' = s /\ gesture' = g
    BY DEF Preview
  <1>1. Types /\ Sound /\ InHand /\ ShowsNodes /\ ShowsWires(scene, model.current, ~drifted)
    BY DEF IInv
  <1>2. /\ scene' \in Scene /\ scene'.nodes = nodes
        /\ scene'.wires = scene.wires /\ scene'.aliases = scene.aliases
    BY <1>0, <1>1, SceneExcept DEF Types
  <1>3. Types'
    BY <1>0, <1>1, <1>2 DEF Types
  <1>4. Sound'
    BY <1>0, <1>1 DEF Sound
  <1>5. InHand'
    BY <1>0 DEF InHand, Previewing
  <1>6. ShowsWires(scene', model.current, ~drifted)
    BY <1>1, <1>2, ShownLess
  <1>7. ShowsNodes'
    BY <1>0, <1>1, <1>2 DEF ShowsNodes, Previewing
  <1> QED
    BY <1>0, <1>3, <1>4, <1>5, <1>6, <1>7 DEF IInv

\* The nodes of a drag follow the mouse.
LEMMA DragNodesPreserves ==
  ASSUME IInv, DragNodes
  PROVE  IInv'
  <1> DEFINE bp == model.current
             moved == Present(bp, selection)
             New(d, k) == d + gesture.initial[k]
  <1>0. Types /\ ShowsNodes /\ DOMAIN scene.nodes = DOMAIN bp.nodes
    BY DEF IInv, ShowsNodes
  <1>1. Listed(selection \cap DOMAIN scene.nodes) = moved
    BY <1>0 DEF Present
  <1>2. PICK d \in -Grid .. Grid :
          /\ gesture.state = "DraggingNode" /\ Len(moved) <= Len(gesture.initial)
          /\ \A k \in DOMAIN moved : New(d, k) \in Coord
          /\ Preview([scene EXCEPT !.nodes =
                        [n \in DOMAIN @ |-> IF n \in Range(moved) THEN New(d, Place(moved, n)) ELSE @[n]]],
                     [gesture EXCEPT !.current = [k \in DOMAIN moved |-> New(d, k)]])
    BY <1>1 DEF DragNodes
  <1> DEFINE positions == [k \in DOMAIN moved |-> New(d, k)]
             nodes == [n \in DOMAIN scene.nodes |->
                         IF n \in Range(moved) THEN New(d, Place(moved, n)) ELSE scene.nodes[n]]
             g == [gesture EXCEPT !.current = positions]
             s == [scene EXCEPT !.nodes = nodes]
  <1>3. Preview(s, g)
    BY <1>2
  <1>4. /\ moved \in Seq(NodeId) /\ Range(moved) = selection \cap DOMAIN bp.nodes
        /\ \A k \in DOMAIN moved : moved[k] \in selection \cap DOMAIN bp.nodes
    BY <1>0, PresentFacts, TypeFacts
  <1> HIDE DEF moved
  <1>5. gesture \in [state : {"DraggingNode"}, current : Seq(Coord), initial : Seq(Coord)]
    BY <1>0, <1>2, GestureFacts DEF Types
  <1>6. \A n \in Range(moved) : Place(moved, n) \in DOMAIN moved /\ moved[Place(moved, n)] = n
    BY <1>4, PlaceFacts
  <1>6a. \A n : n \notin Range(moved) => Place(moved, n) \notin DOMAIN moved
    <2> TAKE n
    <2> HAVE n \notin Range(moved)
    <2>1. \A k \in DOMAIN moved : moved[k] \in Range(moved)
      BY DEF Range
    <2>2. 0 \notin DOMAIN moved
      BY <1>4
    <2> QED
      BY <1>4, <2>1, <2>2, PlaceFacts
  <1>7. positions \in Seq(Coord) /\ DOMAIN positions = DOMAIN moved
    <2>1. Len(moved) \in Nat /\ DOMAIN moved = 1 .. Len(moved)
      BY <1>4
    <2>2. positions \in [1 .. Len(moved) -> Coord]
      BY <1>2, <2>1
    <2> HIDE DEF positions
    <2> QED
      BY <2>1, <2>2
  <1>8. nodes \in Places
    <2>1. scene.nodes \in [DOMAIN scene.nodes -> Coord] /\ DOMAIN scene.nodes \in SUBSET NodeId
      BY <1>0, TypeFacts
    <2>2. nodes \in [DOMAIN scene.nodes -> Coord]
      BY <1>2, <1>6, <2>1
    <2> HIDE DEF nodes
    <2> QED
      BY <2>1, <2>2, PlacesFacts
  <1>9. /\ g \in [state : {"DraggingNode"}, current : Seq(Coord), initial : Seq(Coord)]
        /\ g.state = "DraggingNode" /\ g.current = positions /\ g.initial = gesture.initial
    <2> HIDE DEF positions
    <2> QED
      BY <1>5, <1>7
  <1>10. g \in Gesture
    BY <1>9 DEF Gesture
  <1>11. DOMAIN nodes = DOMAIN scene.nodes
    OBVIOUS
  <1>12. \A n \in DOMAIN scene.nodes :
            nodes[n] = IF Place(moved, n) \in DOMAIN moved THEN positions[Place(moved, n)]
                       ELSE scene.nodes[n]
    BY <1>6, <1>6a
  <1>13. scene'.nodes = nodes /\ gesture' = g /\ model' = model /\ selection' = selection
    <2>1. scene' = s /\ gesture' = g /\ model' = model /\ selection' = selection
      BY <1>3 DEF Preview
    <2> HIDE DEF nodes, g
    <2>2. s.nodes = nodes
      BY <1>0, <1>8, SceneExcept DEF Types
    <2> QED
      BY <2>1, <2>2
  <1>14. ASSUME ~drifted PROVE DragShown'
    <2>1. DragShown
      BY <1>0, <1>2, <1>14 DEF ShowsNodes
    <2>2. CASE selection \cap DOMAIN bp.nodes = {} /\ scene.nodes = bp.nodes
      <3>1. Range(moved) = {}
        BY <1>4, <2>2
      <3>2. nodes = scene.nodes
        <4>1. scene.nodes = [n \in DOMAIN scene.nodes |-> scene.nodes[n]]
          BY <1>0, TypeFacts
        <4> QED
          BY <3>1, <4>1
      <3> QED
        BY <1>13, <2>2, <3>2 DEF DragShown
    <2>3. CASE gesture.initial = [k \in DOMAIN moved |-> bp.nodes[moved[k]]]
      <3>1. \A n \in DOMAIN bp.nodes : n \notin Range(moved) => scene.nodes[n] = bp.nodes[n]
        <4>1. CASE scene.nodes = bp.nodes
          BY <4>1
        <4>2. CASE /\ DOMAIN gesture.current = DOMAIN moved
                   /\ scene.nodes = Dragged(bp, selection, gesture.current)
          BY <1>6a, <4>2 DEF Dragged, moved
        <4> QED
          BY <2>1, <2>2, <4>1, <4>2 DEF DragShown, moved
      <3>2. \A n \in DOMAIN bp.nodes :
              nodes[n] = IF Place(moved, n) \in DOMAIN positions
                         THEN positions[Place(moved, n)] ELSE bp.nodes[n]
        BY <1>0, <1>6, <1>7, <1>12, <3>1
      <3>3. nodes = Dragged(bp, selection, positions)
        <4> HIDE DEF positions
        <4>1. nodes = [n \in DOMAIN bp.nodes |-> nodes[n]]
          BY <1>0, <1>11
        <4>2. nodes = [n \in DOMAIN bp.nodes |->
                         IF Place(moved, n) \in DOMAIN positions
                         THEN positions[Place(moved, n)] ELSE bp.nodes[n]]
          <5> HIDE DEF nodes
          <5> QED
            BY <3>2, <4>1
        <4> QED
          BY <4>2 DEF Dragged, moved
      <3> HIDE DEF nodes, positions, g
      <3> QED
        BY <1>7, <1>9, <1>13, <2>3, <3>3 DEF DragShown, moved
    <2> QED
      BY <2>1, <2>2, <2>3 DEF DragShown, moved
  <1> HIDE DEF nodes, g
  <1> QED
    BY <1>2, <1>3, <1>8, <1>9, <1>10, <1>11, <1>14, PreviewPreserves DEF Previewing

\* A resized node follows the mouse.
LEMMA DragResizePreserves ==
  ASSUME IInv, DragResize
  PROVE  IInv'
  <1>0. Types /\ ShowsNodes /\ DOMAIN scene.nodes = DOMAIN model.current.nodes
    BY DEF IInv, ShowsNodes
  <1>1. PICK x \in Coord :
          /\ gesture.state = "ResizingNode" /\ gesture.node \in DOMAIN scene.nodes
          /\ Preview([scene EXCEPT !.nodes[gesture.node] = x], [gesture EXCEPT !.current = x])
    BY DEF DragResize
  <1> DEFINE nodes == [scene.nodes EXCEPT ![gesture.node] = x]
             s == [scene EXCEPT !.nodes = nodes]
             g == [gesture EXCEPT !.current = x]
  <1>2. gesture \in [state : {"ResizingNode"}, node : NodeId, original : Coord, current : Coord]
    BY <1>0, <1>1, GestureFacts DEF Types
  <1>3. /\ g \in [state : {"ResizingNode"}, node : NodeId, original : Coord, current : Coord]
        /\ g.state = "ResizingNode" /\ g.node = gesture.node /\ g.original = gesture.original
        /\ g.current = x
    BY <1>2
  <1>4. g \in Gesture
    BY <1>3 DEF Gesture
  <1>5. DOMAIN scene.nodes \in SUBSET NodeId /\ scene.nodes \in [DOMAIN scene.nodes -> Coord]
    BY <1>0, TypeFacts
  <1>6. /\ nodes \in [DOMAIN scene.nodes -> Coord] /\ DOMAIN nodes = DOMAIN scene.nodes
        /\ \A n \in DOMAIN scene.nodes : nodes[n] = IF n = gesture.node THEN x ELSE scene.nodes[n]
    BY <1>5
  <1>7. nodes \in Places
    <2> HIDE DEF nodes
    <2> QED
      BY <1>5, <1>6, PlacesFacts
  <1>8. Preview(s, g)
    BY <1>1
  <1> HIDE DEF nodes
  <1>9. s.nodes = nodes
    BY <1>0, <1>7, SceneExcept DEF Types
  <1>10. scene' = s /\ gesture' = g /\ model' = model
    BY <1>8 DEF Preview
  <1> HIDE DEF g
  <1>11. ASSUME ~drifted PROVE ResizeShown'
    <2>1. ResizeShown
      BY <1>0, <1>1, <1>11 DEF ShowsNodes
    <2>2. \A n \in DOMAIN model.current.nodes :
            nodes[n] = IF n = gesture.node THEN x ELSE model.current.nodes[n]
      BY <1>0, <1>6, <2>1 DEF ResizeShown
    <2>3. nodes = [n \in DOMAIN model.current.nodes |-> nodes[n]]
      BY <1>0, <1>6
    <2>4. nodes = [n \in DOMAIN model.current.nodes |->
                     IF n = gesture.node THEN x ELSE model.current.nodes[n]]
      BY <2>2, <2>3
    <2>5. scene'.nodes = nodes
      BY <1>9, <1>10
    <2> QED
      BY <1>3, <1>10, <2>1, <2>4, <2>5 DEF ResizeShown
  <1> HIDE DEF s
  <1>12. s = [scene EXCEPT !.nodes = nodes]
    BY DEF s
  <1> QED
    BY <1>1, <1>3, <1>4, <1>6, <1>7, <1>8, <1>11, <1>12, PreviewPreserves DEF Previewing

\* A routing point only remembers where it is dragged.
LEMMA DragPointPreserves ==
  ASSUME IInv, DragRoutingPoint
  PROVE  IInv'
  <1>1. PICK p \in Coord : /\ gesture.state = "DraggingRoutingPoint"
                           /\ Preview(scene, [gesture EXCEPT !.pos = p])
    BY DEF DragRoutingPoint
  <1> DEFINE g == [gesture EXCEPT !.pos = p]
  <1>2. gesture \in [state : {"DraggingRoutingPoint"}, wire : WireId, index : Nat,
                     initial : Seq(Coord), pos : Coord]
    BY <1>1, GestureFacts DEF IInv, Types
  <1>3. /\ g \in [state : {"DraggingRoutingPoint"}, wire : WireId, index : Nat,
                  initial : Seq(Coord), pos : Coord]
        /\ g.state = "DraggingRoutingPoint"
    BY <1>2
  <1>4. g \in Gesture
    BY <1>3 DEF Gesture
  <1> HIDE DEF g
  <1>5. /\ model' = model /\ next_wire_id' = next_wire_id /\ selection' = selection
        /\ read_only' = read_only /\ simulation_mode' = simulation_mode
        /\ drifted' = drifted /\ crossed' = crossed /\ scene' = scene /\ gesture' = g
    BY <1>1 DEF Preview, g
  <1>6. Types'
    BY <1>4, <1>5 DEF IInv, Types
  <1>7. Sound' /\ InHand' /\ ShowsWires(scene', model'.current, ~drifted')
    BY <1>3, <1>5 DEF IInv, Sound, InHand
  <1>8. ShowsNodes'
    BY <1>1, <1>3, <1>5 DEF IInv, ShowsNodes, Previewing
  <1> QED
    BY <1>5, <1>6, <1>7, <1>8 DEF IInv

-----------------------------------------------------------------------------
(* Editing.                                                                *)

\* The versions of m are those of the model, its current one and blank entries.
Grows(m) == m \in Model /\ Versions(m) \subseteq Versions(model) \cup {m.current, Blank}

LEMMA Growing ==
  ASSUME Types
  PROVE  /\ Grows(model)
         /\ \A bp \in Document : /\ Grows(Command(model, bp)) /\ Command(model, bp).current = bp
                                 /\ Grows(Atomically(model, bp))
                                 /\ Atomically(model, bp).current = bp
  <1>1. model \in Model
    BY DEF Types
  <1>2. ASSUME NEW bp \in Document, NEW r \in {Command(model, bp), Atomically(model, bp)}
        PROVE  Grows(r) /\ r.current = bp
    BY <1>1, <1>2, CommandFacts DEF Grows
  <1> QED
    BY <1>1, <1>2 DEF Grows

LEMMA VersionTypes ==
  ASSUME NEW m \in Model
  PROVE  Versions(m) \subseteq Document
  BY DEF Versions, Model, Range

\* An edit leaves every version sound.
LEMMA SoundStep ==
  ASSUME IInv, Grows(model'), next_wire_id' \in Int, next_wire_id <= next_wire_id',
         crossed => crossed',
         Numbered(model'.current, next_wire_id'), ~crossed' => Fits(model'.current)
  PROVE  Sound'
  <1>1. ASSUME NEW bp \in Versions(model)
        PROVE  Numbered(bp, next_wire_id') /\ (~crossed' => Fits(bp))
    <2>1. bp \in Document
      BY VersionTypes DEF IInv, Types
    <2>2. Numbered(bp, next_wire_id) /\ (~crossed' => Fits(bp))
      BY DEF IInv, Sound
    <2>3. \A i \in DOMAIN bp.wires : bp.wires[i].id \in Int
      BY <2>1, WireFacts DEF Wire, WireId
    <2>4. next_wire_id \in Int
      BY DEF IInv, Types
    <2> QED
      BY <2>2, <2>3, <2>4 DEF Numbered
  <1> QED
    BY <1>1, BlankFacts DEF Grows, Sound

\* An edit that leaves the model alone, or makes a version of it, keeps the
\* invariant when scene and gesture go along.
LEMMA EditPreserves ==
  ASSUME IInv, NEW m, NEW s \in Scene, NEW g \in Gesture, NEW sel \in SUBSET NodeId,
         Edit(m, s, g, sel), Grows(m),
         next_wire_id' \in 1 .. WireLimit + 1, next_wire_id <= next_wire_id',
         drifted' \in BOOLEAN, crossed' \in BOOLEAN, crossed => crossed',
         Numbered(m.current, next_wire_id'), ~crossed' => Fits(m.current),
         ShowsWires(s, m.current, ~drifted'), InHand', ShowsNodes'
  PROVE  IInv'
  <1>0. /\ model' = m /\ scene' = s /\ gesture' = g /\ selection' = sel
        /\ read_only' = read_only /\ simulation_mode' = simulation_mode
    BY DEF Edit
  <1>1. Types'
    BY <1>0 DEF IInv, Types, Grows
  <1>2. Sound'
    BY <1>0, SoundStep DEF IInv, Types
  <1> QED
    BY <1>0, <1>1, <1>2 DEF IInv

\* The same for an edit that ends a gesture.
LEMMA EndPreserves ==
  ASSUME IInv, NEW m, NEW s \in Scene, Edit(m, s, Idle, selection), Grows(m),
         next_wire_id' \in 1 .. WireLimit + 1, next_wire_id <= next_wire_id',
         drifted' \in BOOLEAN, UNCHANGED crossed,
         Numbered(m.current, next_wire_id'), ~crossed => Fits(m.current),
         ShowsWires(s, m.current, ~drifted'),
         DOMAIN s.nodes = DOMAIN m.current.nodes,
         DOMAIN s.aliases = Bus \cap DOMAIN m.current.nodes,
         ~drifted' => s.nodes = m.current.nodes
  PROVE  IInv'
  <1>1. Idle.state = "Idle" /\ Idle \in Gesture
    BY DEF Idle, Gesture
  <1>2. model' = m /\ scene' = s /\ gesture' = Idle /\ simulation_mode' = simulation_mode
    BY DEF Edit
  <1>3. InHand'
    BY <1>1, <1>2 DEF InHand
  <1>4. ShowsNodes'
    BY <1>1, <1>2 DEF ShowsNodes, Previewing
  <1>5. selection \in SUBSET NodeId /\ crossed' \in BOOLEAN
    BY DEF IInv, Types
  <1> QED
    BY <1>1, <1>3, <1>4, <1>5, EditPreserves

\* A gesture that ends with a change of one wire, drawn anew.
LEMMA WireEditPreserves ==
  ASSUME IInv, ~Previewing, NEW m, Grows(m), NEW id \in WireId,
         Edit(m, WithWireDrawn(scene, m.current, id), Idle, selection),
         WireEdit(model.current, m.current, next_wire_id', id), ~crossed => Fits(m.current),
         next_wire_id' \in 1 .. WireLimit + 1, next_wire_id <= next_wire_id',
         UNCHANGED <<drifted, crossed>>
  PROVE  IInv'
  <1> DEFINE t == WithWireDrawn(scene, m.current, id)
  <1>1. /\ scene \in Scene /\ model.current \in Document /\ m.current \in Document
        /\ drifted \in BOOLEAN /\ (~drifted) \in BOOLEAN
    BY TypeFacts DEF IInv, Types, WireEdit
  <1>2. m.current.nodes = model.current.nodes /\ Numbered(m.current, next_wire_id')
    BY DEF WireEdit
  <1>3. /\ t \in Scene /\ t.nodes = scene.nodes /\ t.aliases = scene.aliases
        /\ ShowsWires(t, m.current, ~drifted)
    <2>1. ShowsWires(scene, model.current, ~drifted)
      BY DEF IInv
    <2>2. DOMAIN m.current.nodes = DOMAIN model.current.nodes
      BY <1>2
    <2>3. \A w \in Wire : w.id # id =>
            (w \in Range(model.current.wires) <=> w \in Range(m.current.wires))
      BY DEF WireEdit
    <2> DEFINE k == next_wire_id'
               e == ~drifted
               bp == m.current
    <2>4. /\ bp \in Document /\ Numbered(bp, k) /\ e \in BOOLEAN
          /\ ShowsWires(scene, model.current, e)
          /\ DOMAIN bp.nodes = DOMAIN model.current.nodes
          /\ \A w \in Wire : w.id # id =>
               (w \in Range(model.current.wires) <=> w \in Range(bp.wires))
      BY <1>1, <1>2, <2>1, <2>2, <2>3
    <2> HIDE DEF k, e, bp
    <2>5. /\ WithWireDrawn(scene, bp, id) \in Scene
          /\ WithWireDrawn(scene, bp, id).nodes = scene.nodes
          /\ WithWireDrawn(scene, bp, id).aliases = scene.aliases
          /\ ShowsWires(WithWireDrawn(scene, bp, id), bp, e)
      BY <1>1, <2>4, Redrawn
    <2> QED
      BY <2>5 DEF bp, e
  <1>4. /\ DOMAIN scene.nodes = DOMAIN model.current.nodes
        /\ DOMAIN scene.aliases = Bus \cap DOMAIN model.current.nodes
        /\ ~drifted => scene.nodes = model.current.nodes
    BY DEF IInv, ShowsNodes
  <1> HIDE DEF t
  <1>5. Edit(m, t, Idle, selection)
    BY DEF t
  <1>6. /\ drifted' \in BOOLEAN /\ UNCHANGED crossed
        /\ ShowsWires(t, m.current, ~drifted')
        /\ DOMAIN t.nodes = DOMAIN m.current.nodes
        /\ DOMAIN t.aliases = Bus \cap DOMAIN m.current.nodes
        /\ ~drifted' => t.nodes = m.current.nodes
    BY <1>1, <1>2, <1>3, <1>4
  <1> QED
    BY <1>2, <1>3, <1>5, <1>6, EndPreserves

\* A gesture that ends without a change.
LEMMA NoEditPreserves ==
  ASSUME IInv, Edit(model, scene, Idle, selection),
         next_wire_id' \in 1 .. WireLimit + 1, next_wire_id <= next_wire_id',
         UNCHANGED <<drifted, crossed>>, ~drifted => scene.nodes = model.current.nodes
  PROVE  IInv'
  <1>1. scene \in Scene /\ drifted \in BOOLEAN /\ Grows(model)
    BY Growing DEF IInv, Types
  <1>2. Numbered(model.current, next_wire_id) /\ (~crossed => Fits(model.current))
    BY CurrentSound DEF IInv
  <1>3. Numbered(model.current, next_wire_id')
    <2>1. \A i \in DOMAIN model.current.wires : model.current.wires[i].id \in Int
      BY WireFacts, TypeFacts DEF IInv, Wire, WireId
    <2>2. next_wire_id \in Int /\ next_wire_id' \in Int
      BY DEF IInv, Types
    <2> QED
      BY <1>2, <2>1, <2>2 DEF Numbered
  <1>4. /\ DOMAIN scene.nodes = DOMAIN model.current.nodes
        /\ DOMAIN scene.aliases = Bus \cap DOMAIN model.current.nodes
        /\ ShowsWires(scene, model.current, ~drifted)
    BY DEF IInv, ShowsNodes
  <1>5. /\ drifted' \in BOOLEAN /\ ShowsWires(scene, model.current, ~drifted')
        /\ ~drifted' => scene.nodes = model.current.nodes
    BY <1>1, <1>4
  <1> QED
    BY <1>1, <1>2, <1>3, <1>4, <1>5, EndPreserves

-----------------------------------------------------------------------------
(* Releasing.                                                              *)

\* A document with its nodes elsewhere and the same wires.
LEMMA Relocated ==
  ASSUME NEW bp \in Document, NEW nodes \in Places, DOMAIN nodes = DOMAIN bp.nodes
  PROVE  LET new == [bp EXCEPT !.nodes = nodes]
         IN  /\ new \in Document /\ new.nodes = nodes /\ new.wires = bp.wires
             /\ \A k : Numbered(bp, k) => Numbered(new, k)
             /\ Fits(bp) => Fits(new)
             /\ \A s, e : ShowsWires(s, bp, e) => ShowsWires(s, new, e)
  <1> DEFINE new == [bp EXCEPT !.nodes = nodes]
  <1>1. new \in Document /\ new.nodes = nodes /\ new.wires = bp.wires
    BY DocumentFacts
  <1> HIDE DEF new
  <1>2. \A k : Numbered(bp, k) => Numbered(new, k)
    BY <1>1 DEF Numbered
  <1>3. Fits(bp) => Fits(new)
    <2> SUFFICES ASSUME Fits(bp), NEW i \in DOMAIN bp.wires PROVE Joins(new, bp.wires[i])
      BY <1>1 DEF Fits
    <2>1. Joins(bp, bp.wires[i])
      BY DEF Fits
    <2> QED
      BY <1>1, <2>1, JoinsAlike
  <1>4. \A w : Attached(bp, w) <=> Attached(new, w)
    BY <1>1 DEF Attached
  <1>5. \A s, e : ShowsWires(s, bp, e) => ShowsWires(s, new, e)
    BY <1>1, <1>4 DEF ShowsWires
  <1> QED
    BY <1>1, <1>2, <1>3, <1>5 DEF new

\* What the next three lemmas have in common.
LEMMA RelocatePreserves ==
  ASSUME IInv, NEW nodes \in Places, DOMAIN nodes = DOMAIN model.current.nodes,
         NEW m \in {Command(model, [model.current EXCEPT !.nodes = nodes]),
                    Atomically(model, [model.current EXCEPT !.nodes = nodes])},
         Edit(m, scene, Idle, selection), UNCHANGED <<next_wire_id, drifted, crossed>>,
         ~drifted => scene.nodes = nodes
  PROVE  IInv'
  <1> DEFINE bp == model.current
             new == [bp EXCEPT !.nodes = nodes]
  <1>0. bp \in Document /\ Types
    BY TypeFacts DEF IInv
  <1>1. /\ new \in Document /\ new.nodes = nodes
        /\ \A k : Numbered(bp, k) => Numbered(new, k)
        /\ Fits(bp) => Fits(new)
        /\ \A s, e : ShowsWires(s, bp, e) => ShowsWires(s, new, e)
    BY <1>0, Relocated
  <1> HIDE DEF new
  <1>2. m = Command(model, new) \/ m = Atomically(model, new)
    BY DEF new
  <1>3. Grows(m) /\ m.current = new
    BY <1>0, <1>1, <1>2, Growing
  <1>4. Numbered(m.current, next_wire_id) /\ (~crossed => Fits(m.current))
    BY <1>1, <1>3, CurrentSound DEF IInv
  <1>5. /\ ShowsWires(scene, bp, ~drifted)
        /\ DOMAIN scene.nodes = DOMAIN bp.nodes
        /\ DOMAIN scene.aliases = Bus \cap DOMAIN bp.nodes
    BY DEF IInv, ShowsNodes
  <1>6. ShowsWires(scene, m.current, ~drifted)
    BY <1>1, <1>3, <1>5
  <1>7. /\ scene \in Scene /\ drifted' \in BOOLEAN
        /\ next_wire_id' \in 1 .. WireLimit + 1 /\ next_wire_id <= next_wire_id'
        /\ Numbered(m.current, next_wire_id')
        /\ ShowsWires(scene, m.current, ~drifted')
        /\ DOMAIN scene.nodes = DOMAIN m.current.nodes
        /\ DOMAIN scene.aliases = Bus \cap DOMAIN m.current.nodes
        /\ ~drifted' => scene.nodes = m.current.nodes
    BY <1>0, <1>1, <1>3, <1>4, <1>5, <1>6 DEF Types
  <1> QED
    BY <1>3, <1>4, <1>7, EndPreserves

\* What is let go is committed where the preview showed it.
LEMMA ReleaseDragPreserves ==
  ASSUME IInv, ReleaseDrag
  PROVE  IInv'
  <1> DEFINE bp == model.current
             moved == Present(bp, selection)
             any == \E k \in DOMAIN moved \cap DOMAIN gesture.current \cap DOMAIN gesture.initial :
                       gesture.current[k] # gesture.initial[k]
             nodes == Dragged(bp, selection, gesture.current)
  <1>0. /\ Types /\ bp \in Document /\ bp.nodes \in [DOMAIN bp.nodes -> Coord]
        /\ DOMAIN bp.nodes \in SUBSET NodeId /\ next_wire_id \in 1 .. WireLimit + 1
    BY TypeFacts DEF IInv, Types
  <1>1. /\ gesture.state = "DraggingNode"
        /\ Edit(IF any THEN Atomically(model, CommittedDrag(bp)) ELSE model, scene, Idle, selection)
        /\ UNCHANGED <<next_wire_id, drifted, crossed>>
    BY DEF ReleaseDrag
  <1>2. gesture.current \in Seq(Coord) /\ gesture.initial \in Seq(Coord)
    BY <1>0, <1>1, GestureFacts DEF Types
  <1>3. /\ moved \in Seq(NodeId) /\ Range(moved) = selection \cap DOMAIN bp.nodes
        /\ \A k \in DOMAIN moved : moved[k] \in selection \cap DOMAIN bp.nodes
    BY <1>0, PresentFacts
  <1>4. CommittedDrag(bp) = [bp EXCEPT !.nodes = nodes]
    BY DEF CommittedDrag, Dragged
  <1> HIDE DEF moved
  <1>5. nodes \in Places /\ DOMAIN nodes = DOMAIN bp.nodes
    <2>1. \A k \in DOMAIN gesture.current : gesture.current[k] \in Coord
      BY <1>2
    <2>2. nodes \in [DOMAIN bp.nodes -> Coord]
      BY <1>0, <2>1 DEF Dragged
    <2> HIDE DEF nodes
    <2> QED
      BY <1>0, <2>2, PlacesFacts
  <1>6. ASSUME ~drifted
        PROVE  scene.nodes = IF any THEN nodes ELSE bp.nodes
    <2>1. DragShown
      BY <1>1, <1>6 DEF IInv, ShowsNodes
    <2>2. CASE selection \cap DOMAIN bp.nodes = {} /\ scene.nodes = bp.nodes
      BY <1>3, <2>2
    <2>3. CASE gesture.current = <<>> /\ scene.nodes = bp.nodes
      BY <2>3
    <2>4. CASE /\ gesture.initial = [k \in DOMAIN moved |-> bp.nodes[moved[k]]]
               /\ DOMAIN gesture.current = DOMAIN moved /\ scene.nodes = nodes
      <3>1. CASE any
        BY <2>4, <3>1
      <3>2. CASE ~any
        <4>1. \A k \in DOMAIN moved : gesture.current[k] = bp.nodes[moved[k]]
          BY <2>4, <3>2
        <4>2. \A n \in DOMAIN bp.nodes : Place(moved, n) \in DOMAIN moved =>
                moved[Place(moved, n)] = n
          <5>1. 0 \notin DOMAIN moved
            BY <1>3
          <5> QED
            BY <1>3, <5>1, PlaceFacts
        <4>3. \A n \in DOMAIN bp.nodes : nodes[n] = bp.nodes[n]
          BY <2>4, <4>1, <4>2 DEF Dragged, moved
        <4>4. nodes = [n \in DOMAIN bp.nodes |-> nodes[n]]
          BY DEF Dragged
        <4>5. bp.nodes = [n \in DOMAIN bp.nodes |-> bp.nodes[n]]
          BY <1>0
        <4> HIDE DEF nodes
        <4>6. nodes = bp.nodes
          BY <4>3, <4>4, <4>5
        <4> QED
          BY <2>4, <3>2, <4>6
      <3> QED
        BY <3>1, <3>2
    <2> QED
      BY <2>1, <2>2, <2>3, <2>4 DEF DragShown, moved
  <1>7. CASE any
    <2> HIDE DEF nodes
    <2>1. ~drifted => scene.nodes = nodes
      BY <1>6, <1>7
    <2> DEFINE m == Atomically(model, [model.current EXCEPT !.nodes = nodes])
    <2>2. Edit(m, scene, Idle, selection)
      BY <1>1, <1>4, <1>7
    <2>3. m \in {Command(model, [model.current EXCEPT !.nodes = nodes]),
                 Atomically(model, [model.current EXCEPT !.nodes = nodes])}
      OBVIOUS
    <2> HIDE DEF m
    <2> QED
      BY <1>1, <1>5, <2>1, <2>2, <2>3, RelocatePreserves
  <1>8. CASE ~any
    <2>1. ~drifted => scene.nodes = bp.nodes
      BY <1>6, <1>8
    <2>2. Edit(model, scene, Idle, selection)
      BY <1>1, <1>8
    <2>3. next_wire_id' \in 1 .. WireLimit + 1 /\ next_wire_id <= next_wire_id'
      BY <1>0, <1>1
    <2> QED
      BY <1>1, <2>1, <2>2, <2>3, NoEditPreserves
  <1> QED
    BY <1>7, <1>8

\* The size is committed that the preview showed.
LEMMA ReleaseResizePreserves ==
  ASSUME IInv, ReleaseResize
  PROVE  IInv'
  <1> DEFINE bp == model.current
             same == gesture.current = gesture.original \/ gesture.node \notin DOMAIN bp.nodes
             nodes == [bp.nodes EXCEPT ![gesture.node] = gesture.current]
  <1>0. /\ Types /\ bp \in Document /\ bp.nodes \in [DOMAIN bp.nodes -> Coord]
        /\ DOMAIN bp.nodes \in SUBSET NodeId /\ next_wire_id \in 1 .. WireLimit + 1
    BY TypeFacts DEF IInv, Types
  <1>1. /\ gesture.state = "ResizingNode"
        /\ Edit(IF same THEN model ELSE Command(model, [model.current EXCEPT !.nodes = nodes]),
                scene, Idle, selection)
        /\ UNCHANGED <<next_wire_id, drifted, crossed>>
    BY DEF ReleaseResize
  <1>2. gesture.current \in Coord
    BY <1>0, <1>1, GestureFacts DEF Types
  <1>3. /\ nodes \in [DOMAIN bp.nodes -> Coord] /\ DOMAIN nodes = DOMAIN bp.nodes
        /\ nodes = [n \in DOMAIN bp.nodes |->
                      IF n = gesture.node THEN gesture.current ELSE bp.nodes[n]]
    BY <1>0, <1>2
  <1> HIDE DEF nodes
  <1>4. nodes \in Places
    BY <1>0, <1>3, PlacesFacts
  <1>5. ASSUME ~drifted
        PROVE  /\ scene.nodes = nodes
               /\ same => scene.nodes = bp.nodes
    <2>1. ResizeShown
      BY <1>1, <1>5 DEF IInv, ShowsNodes
    <2>2. scene.nodes = nodes
      BY <1>3, <2>1 DEF ResizeShown
    <2>3. ASSUME same PROVE nodes = bp.nodes
      <3>1. \A n \in DOMAIN bp.nodes : nodes[n] = bp.nodes[n]
        BY <1>3, <2>1, <2>3 DEF ResizeShown
      <3> QED
        BY <1>0, <1>3, <3>1
    <2> QED
      BY <2>2, <2>3
  <1>6. CASE same
    <2>1. Edit(model, scene, Idle, selection)
      BY <1>1, <1>6
    <2>2. next_wire_id' \in 1 .. WireLimit + 1 /\ next_wire_id <= next_wire_id'
      BY <1>0, <1>1
    <2>3. ~drifted => scene.nodes = bp.nodes
      BY <1>5, <1>6
    <2> QED
      BY <1>1, <2>1, <2>2, <2>3, NoEditPreserves
  <1>7. CASE ~same
    <2> DEFINE m == Command(model, [model.current EXCEPT !.nodes = nodes])
    <2>1. Edit(m, scene, Idle, selection)
      BY <1>1, <1>7
    <2>2. m \in {Command(model, [model.current EXCEPT !.nodes = nodes]),
                 Atomically(model, [model.current EXCEPT !.nodes = nodes])}
      OBVIOUS
    <2> HIDE DEF m
    <2>3. ~drifted => scene.nodes = nodes
      BY <1>5
    <2> QED
      BY <1>1, <1>3, <1>4, <2>1, <2>2, <2>3, RelocatePreserves
  <1> QED
    BY <1>6, <1>7

\* Wires with the ends they had are shown, if not where they go.
LEMMA ShownAlike ==
  ASSUME NEW bp, NEW new, new.nodes = bp.nodes, DOMAIN new.wires = DOMAIN bp.wires,
         \A j \in DOMAIN bp.wires : /\ new.wires[j].id = bp.wires[j].id
                                    /\ new.wires[j].source = bp.wires[j].source
                                    /\ new.wires[j].target = bp.wires[j].target,
         NEW s, NEW exactly, ShowsWires(s, bp, exactly)
  PROVE  ShowsWires(s, new, FALSE)
  <1>1. \A j \in DOMAIN bp.wires : Attached(bp, bp.wires[j]) <=> Attached(new, new.wires[j])
    BY DEF Attached, Ends
  <1>2. ASSUME NEW id \in DOMAIN s.wires
        PROVE  \E w \in Range(new.wires) : w.id = id /\ Attached(new, w)
    <2>1. PICK j \in DOMAIN bp.wires : bp.wires[j].id = id /\ Attached(bp, bp.wires[j])
      BY DEF ShowsWires, Range
    <2>2. new.wires[j].id = id /\ Attached(new, new.wires[j]) /\ new.wires[j] \in Range(new.wires)
      BY <1>1, <2>1 DEF Range
    <2> QED
      BY <2>2
  <1>3. ASSUME NEW w \in Range(new.wires), Attached(new, w)
        PROVE  /\ w.id \in DOMAIN s.wires
               /\ s.wires[w.id].source = w.source /\ s.wires[w.id].target = w.target
    <2>1. PICK j \in DOMAIN bp.wires : new.wires[j] = w
      BY DEF Range
    <2>2. bp.wires[j] \in Range(bp.wires) /\ Attached(bp, bp.wires[j])
      BY <1>1, <1>3, <2>1 DEF Range
    <2>3. /\ bp.wires[j].id \in DOMAIN s.wires
          /\ s.wires[bp.wires[j].id].source = bp.wires[j].source
          /\ s.wires[bp.wires[j].id].target = bp.wires[j].target
      BY <2>2 DEF ShowsWires
    <2> QED
      BY <2>1, <2>3
  <1> QED
    BY <1>2, <1>3 DEF ShowsWires

\* What every release starts from.
LEMMA AtRest ==
  ASSUME IInv
  PROVE  /\ Types /\ model.current \in Document /\ next_wire_id \in 1 .. WireLimit + 1
         /\ scene \in Scene /\ drifted \in BOOLEAN /\ selection \in SUBSET NodeId
         /\ Numbered(model.current, next_wire_id) /\ (~crossed => Fits(model.current))
         /\ ShowsWires(scene, model.current, ~drifted)
         /\ DOMAIN scene.nodes = DOMAIN model.current.nodes
         /\ DOMAIN scene.aliases = Bus \cap DOMAIN model.current.nodes
         /\ ~Previewing /\ ~drifted => scene.nodes = model.current.nodes
  <1>1. model.current \in Document
    BY TypeFacts DEF IInv
  <1>2. Numbered(model.current, next_wire_id) /\ (~crossed => Fits(model.current))
    BY CurrentSound DEF IInv
  <1>3. /\ Types /\ next_wire_id \in 1 .. WireLimit + 1 /\ scene \in Scene
        /\ drifted \in BOOLEAN /\ selection \in SUBSET NodeId
    BY DEF IInv, Types
  <1>4. /\ ShowsWires(scene, model.current, ~drifted)
        /\ DOMAIN scene.nodes = DOMAIN model.current.nodes
        /\ DOMAIN scene.aliases = Bus \cap DOMAIN model.current.nodes
        /\ ~Previewing /\ ~drifted => scene.nodes = model.current.nodes
    BY DEF IInv, ShowsNodes
  <1> QED
    BY <1>1, <1>2, <1>3, <1>4

\* A routing point moves in the document; its widget does not.
LEMMA ReleasePointPreserves ==
  ASSUME IInv, ReleasePoint
  PROVE  IInv'
  <1> DEFINE bp == model.current
             k == FindWire(bp, gesture.wire)
             points == [j \in DOMAIN gesture.initial |->
                          IF j = gesture.index THEN gesture.pos ELSE gesture.initial[j]]
             same == k = 0 \/ points = gesture.initial
             new == [bp EXCEPT !.wires[k].points = points]
  <1>1. /\ gesture.state = "DraggingRoutingPoint"
        /\ Edit(IF same THEN model ELSE Command(model, new), scene, Idle, selection)
        /\ drifted' = (drifted \/ model' # model)
        /\ UNCHANGED <<next_wire_id, crossed>>
    BY DEF ReleasePoint
  <1>2. ~Previewing
    BY <1>1 DEF Previewing
  <1>3. points \in Seq(Coord)
    <2>1. gesture.initial \in Seq(Coord) /\ gesture.pos \in Coord
      BY <1>1, AtRest, GestureFacts DEF Types
    <2> QED
      BY <2>1
  <1>4. next_wire_id' \in 1 .. WireLimit + 1 /\ next_wire_id <= next_wire_id'
    BY <1>1, AtRest
  <1>5. CASE same
    <2>1. Edit(model, scene, Idle, selection)
      BY <1>1, <1>5
    <2>2. drifted' = drifted
      BY <1>1, <2>1, AtRest DEF Edit
    <2> QED
      BY <1>1, <1>2, <1>4, <2>1, <2>2, AtRest, NoEditPreserves
  <1>6. CASE ~same
    <2> HIDE DEF points
    <2>1. k \in DOMAIN bp.wires
      BY <1>6, AtRest, FindWireFacts, TypeFacts
    <2> HIDE DEF k
    <2>2. /\ WireEdit(bp, new, next_wire_id, bp.wires[k].id)
          /\ Fits(bp) => Fits(new)
          /\ DOMAIN new.wires = DOMAIN bp.wires
          /\ \A j \in DOMAIN bp.wires : /\ new.wires[j].id = bp.wires[j].id
                                        /\ new.wires[j].source = bp.wires[j].source
                                        /\ new.wires[j].target = bp.wires[j].target
      BY <1>3, <2>1, AtRest, Rerouted
    <2> HIDE DEF new
    <2> DEFINE m == Command(model, new)
    <2>3. Edit(m, scene, Idle, selection) /\ model' = m
      BY <1>1, <1>6 DEF Edit
    <2>4. /\ new \in Document /\ new.nodes = bp.nodes /\ Numbered(new, next_wire_id)
      BY <2>2 DEF WireEdit
    <2>5. Grows(m) /\ m.current = new
      BY <2>4, AtRest, Growing
    <2>6. new # bp => drifted' = TRUE
      BY <1>1, <2>3, <2>5
    <2>7. new = bp => drifted' = drifted
      BY <1>1, <2>3, AtRest DEF Command
    <2>8. ShowsWires(scene, new, ~drifted')
      <3>1. ShowsWires(scene, bp, ~drifted)
        BY AtRest
      <3>2. ShowsWires(scene, new, FALSE)
        BY <2>2, <2>4, <3>1, ShownAlike
      <3>3. CASE new = bp
        BY <2>7, <3>1, <3>3
      <3>4. CASE new # bp
        <4>1. (~drifted') = FALSE
          BY <2>6, <3>4
        <4> QED
          BY <3>2, <4>1
      <3> QED
        BY <3>3, <3>4
    <2> HIDE DEF m
    <2>9. /\ drifted' \in BOOLEAN /\ UNCHANGED crossed
          /\ Numbered(m.current, next_wire_id') /\ (~crossed => Fits(m.current))
          /\ DOMAIN scene.nodes = DOMAIN m.current.nodes
          /\ DOMAIN scene.aliases = Bus \cap DOMAIN m.current.nodes
          /\ ~drifted' => scene.nodes = m.current.nodes
      BY <1>1, <1>2, <2>2, <2>4, <2>5, AtRest
    <2>10. ShowsWires(scene, m.current, ~drifted')
      BY <2>5, <2>8
    <2> QED
      BY <1>4, <2>3, <2>5, <2>9, <2>10, AtRest, EndPreserves
  <1> QED
    BY <1>5, <1>6

\* The end that a hit stands for ...
LEMMA CanonicalFacts ==
  ASSUME NEW hit \in Hits(NodeId)
  PROVE  Canonical(hit) \in EndOf /\ hit.node \in NodeId
  <1> DEFINE P == UNION {DOMAIN Ports[n] : n \in NodeId}
  <1>1. \/ \E n \in NodeId : \E p \in DOMAIN Ports[n] : hit.node = n /\ hit.port = p
        \/ \E n \in Bus \cap NodeId : \E id \in WireId : hit.node = n /\ hit.port = id
    BY DEF Hits, PortHits, AliasHits
  <1>2. hit.node \in NodeId /\ hit.port \in P \cup WireId
    BY <1>1
  <1>3. ASSUME IsBus(hit.node) PROVE BusPort \in P
    <2>1. hit.node \in Bus
      BY <1>3 DEF IsBus
    <2>2. Ports[hit.node] = [p \in {BusPort} |-> [direction |-> "InOut", type |-> "V"]]
      BY <2>1, CanvasAssumption
    <2>3. BusPort \in DOMAIN Ports[hit.node]
      BY <2>2
    <2> QED
      BY <1>2, <2>3
  <1> DEFINE port == IF IsBus(hit.node) THEN BusPort ELSE hit.port
             Q == P \cup WireId
  <1>4. port \in Q
    BY <1>2, <1>3
  <1> HIDE DEF port
  <1>5. Canonical(hit) = [node |-> hit.node, port |-> port]
    BY DEF Canonical, End, port
  <1>6. EndOf = [node : NodeId, port : Q]
    BY DEF EndOf
  <1> HIDE DEF Q
  <1> QED
    BY <1>2, <1>4, <1>5, <1>6

\* ... is a port of a node that is there, and says what the hit says of it.
LEMMA CanonicalResolves ==
  ASSUME NEW hit \in Hits(DOMAIN model.current.nodes)
  PROVE  /\ Resolves(Canonical(hit))
         /\ Descriptor(Canonical(hit)).direction = hit.direction
         /\ Descriptor(Canonical(hit)).type = hit.type
  <1> DEFINE D == DOMAIN model.current.nodes
             e == Canonical(hit)
  <1>1. e.node = hit.node /\ e.port = IF IsBus(hit.node) THEN BusPort ELSE hit.port
    BY DEF Canonical, End
  <1>2. \/ /\ hit.node \in D /\ hit.port \in DOMAIN Ports[hit.node]
           /\ hit.direction = Ports[hit.node][hit.port].direction
           /\ hit.type = Ports[hit.node][hit.port].type
        \/ /\ hit.node \in Bus \cap D
           /\ hit.direction = "InOut" /\ hit.type = "V"
    BY DEF Hits, PortHits, AliasHits
  <1>3. hit.node \in D
    BY <1>2
  <1>4. CASE IsBus(hit.node)
    <2>1. hit.node \in Bus
      BY <1>4 DEF IsBus
    <2>2. Ports[hit.node] = [p \in {BusPort} |-> [direction |-> "InOut", type |-> "V"]]
      BY <2>1, CanvasAssumption
    <2>3. /\ DOMAIN Ports[hit.node] = {BusPort}
          /\ Ports[hit.node][BusPort].direction = "InOut"
          /\ Ports[hit.node][BusPort].type = "V"
      BY <2>2
    <2>4. hit.direction = "InOut" /\ hit.type = "V"
      BY <1>2, <2>3
    <2> HIDE DEF e
    <2> QED
      BY <1>1, <1>3, <1>4, <2>3, <2>4 DEF Resolves, Descriptor, e
  <1>5. CASE ~IsBus(hit.node)
    <2>1. hit.node \notin Bus
      BY <1>3, <1>5 DEF IsBus
    <2> HIDE DEF e
    <2> QED
      BY <1>1, <1>2, <1>3, <1>5, <2>1 DEF Resolves, Descriptor, e
  <1> QED
    BY <1>4, <1>5

\* The wire that is drawn from a port to a port joins them.
LEMMA NewWireJoins ==
  ASSUME NEW start \in Hits(DOMAIN model.current.nodes),
         NEW hit \in Hits(DOMAIN model.current.nodes),
         Canonical(start) # Canonical(hit),
         AreTypesCompatible(start.type, hit.type),
         CanDrive(start.direction) /\ CanReceive(hit.direction),
         NEW wire, wire.source = Canonical(start), wire.target = Canonical(hit)
  PROVE  Joins(model.current, wire)
  <1>1. /\ Resolves(wire.source)
        /\ Descriptor(wire.source).direction = start.direction
        /\ Descriptor(wire.source).type = start.type
    BY CanonicalResolves
  <1>2. /\ Resolves(wire.target)
        /\ Descriptor(wire.target).direction = hit.direction
        /\ Descriptor(wire.target).type = hit.type
    BY CanonicalResolves
  <1> QED
    BY <1>1, <1>2 DEF Joins, Resolves

LEMMA ReleaseNewWirePreserves ==
  ASSUME IInv, ReleaseNewWire
  PROVE  IInv'
  <1> DEFINE start == gesture.start
             Forward(hit) == CanDrive(start.direction) /\ CanReceive(hit.direction)
             Backward(hit) == CanDrive(hit.direction) /\ CanReceive(start.direction)
             Source(hit) == Canonical(IF Forward(hit) THEN start ELSE hit)
             Target(hit) == Canonical(IF Forward(hit) THEN hit ELSE start)
             WireTo(hit) == [id |-> next_wire_id, source |-> Source(hit),
                             target |-> Target(hit), points |-> <<>>]
             New(hit) == [model.current EXCEPT !.wires = Append(@, WireTo(hit))]
             Joined(hit) == /\ End(start.node, start.port) # End(hit.node, hit.port)
                            /\ AreDirectionsCompatible(start.direction, hit.direction)
                            /\ AreTypesCompatible(start.type, hit.type)
                            /\ Forward(hit) \/ Backward(hit)
  <1>1. PICK hit \in HitPorts :
          /\ gesture.state = "CreatingWire"
          /\ Joined(hit) => next_wire_id \in WireId
          /\ IF Joined(hit) /\ Source(hit) # Target(hit)
               THEN Edit(Command(model, New(hit)),
                         WithWireDrawn(scene, Command(model, New(hit)).current, next_wire_id),
                         Idle, selection)
               ELSE Edit(model, scene, Idle, selection)
          /\ next_wire_id' = next_wire_id + (IF Joined(hit) THEN 1 ELSE 0)
          /\ UNCHANGED <<drifted, crossed>>
    BY DEF ReleaseNewWire
  <1>2. ~Previewing
    BY <1>1 DEF Previewing
  <1>3. /\ start \in Hits(NodeId)
        /\ ~crossed => start \in Hits(DOMAIN model.current.nodes)
    BY <1>1, AtRest, GestureFacts DEF IInv, Types, InHand
  <1>4. hit \in Hits(DOMAIN model.current.nodes) /\ hit \in Hits(NodeId)
    BY HitFacts
  <1>5. /\ WireLimit \in Nat /\ next_wire_id \in 1 .. WireLimit + 1
        /\ Joined(hit) => next_wire_id \in 1 .. WireLimit
    BY <1>1, AtRest, CanvasAssumption DEF WireId
  <1> HIDE DEF Joined
  <1>6. next_wire_id' \in 1 .. WireLimit + 1 /\ next_wire_id <= next_wire_id'
    BY <1>1, <1>5
  <1>7. CASE Joined(hit) /\ Source(hit) # Target(hit)
    <2> DEFINE wire == WireTo(hit)
               new == New(hit)
               m == Command(model, new)
    <2>1. Source(hit) \in EndOf /\ Target(hit) \in EndOf
      BY <1>3, <1>4, CanonicalFacts
    <2>2. /\ wire.id = next_wire_id /\ wire.source = Source(hit) /\ wire.target = Target(hit)
          /\ wire \in Wire
      <3> HIDE DEF Source, Target
      <3>1. next_wire_id \in WireId /\ <<>> \in Seq(Coord)
        BY <1>1, <1>7
      <3> QED
        BY <2>1, <3>1 DEF Wire
    <2>3. ASSUME ~crossed PROVE Joins(model.current, wire)
      <3>1. /\ AreTypesCompatible(start.type, hit.type)
            /\ AreTypesCompatible(hit.type, start.type)
            /\ Forward(hit) \/ Backward(hit)
        BY <1>7 DEF AreTypesCompatible, Joined
      <3>2. start \in Hits(DOMAIN model.current.nodes)
        BY <1>3, <2>3
      <3> HIDE DEF wire
      <3>3. CASE Forward(hit)
        BY <1>4, <1>7, <2>2, <3>1, <3>2, <3>3, NewWireJoins
      <3>4. CASE ~Forward(hit)
        BY <1>4, <1>7, <2>2, <3>1, <3>2, <3>4, NewWireJoins
      <3> QED
        BY <3>3, <3>4
    <2> HIDE DEF wire
    <2>4. new = [model.current EXCEPT !.wires = Append(@, wire)]
      BY DEF wire
    <2> HIDE DEF New
    <2>5. /\ WireEdit(model.current, new, next_wire_id + 1, next_wire_id)
          /\ Fits(model.current) /\ Joins(model.current, wire) => Fits(new)
      <3> DEFINE bp == model.current
                 added == [bp EXCEPT !.wires = Append(@, wire)]
      <3>1. next_wire_id \in Nat
        BY <1>5
      <3>2. bp \in Document /\ Numbered(bp, next_wire_id)
        BY AtRest
      <3>3. new = added
        BY <2>4
      <3> HIDE DEF bp, new
      <3>4. /\ WireEdit(bp, added, next_wire_id + 1, next_wire_id)
            /\ Fits(bp) /\ Joins(bp, wire) => Fits(added)
        BY <2>2, <3>1, <3>2, Added
      <3> HIDE DEF added
      <3> QED
        BY <3>3, <3>4 DEF bp
    <2>6. new \in Document
      BY <2>5 DEF WireEdit
    <2>7. Grows(m) /\ m.current = new
      BY <2>6, AtRest, Growing
    <2>8. Edit(m, WithWireDrawn(scene, m.current, next_wire_id), Idle, selection)
      BY <1>1, <1>7
    <2>9. next_wire_id' = next_wire_id + 1 /\ next_wire_id \in WireId
      BY <1>1, <1>7
    <2> HIDE DEF m, new
    <2>10. WireEdit(model.current, m.current, next_wire_id', next_wire_id)
      BY <2>5, <2>7, <2>9
    <2>11. ~crossed => Fits(m.current)
      BY <2>3, <2>5, <2>7, AtRest
    <2> QED
      BY <1>1, <1>2, <1>6, <2>7, <2>8, <2>9, <2>10, <2>11, WireEditPreserves
  <1>8. CASE ~(Joined(hit) /\ Source(hit) # Target(hit))
    <2>1. Edit(model, scene, Idle, selection)
      BY <1>1, <1>8
    <2>2. ~drifted => scene.nodes = model.current.nodes
      BY <1>2, AtRest
    <2>3. UNCHANGED <<drifted, crossed>>
      BY <1>1
    <2> QED
      BY <1>6, <2>1, <2>2, <2>3, NoEditPreserves
  <1> QED
    BY <1>7, <1>8

\* A scene built anew: nothing is left where a preview put it.
LEMMA RebuiltEndPreserves ==
  ASSUME IInv, NEW m, Grows(m), Edit(m, Rebuilt(m.current), Idle, selection),
         UNCHANGED <<next_wire_id, crossed>>, drifted' = FALSE,
         Numbered(m.current, next_wire_id), ~crossed => Fits(m.current)
  PROVE  IInv'
  <1> DEFINE bp == m.current
             s == Rebuilt(bp)
  <1>1. bp \in Document
    BY DEF Grows, Model
  <1>2. Numbered(bp, next_wire_id) /\ TRUE \in BOOLEAN
    OBVIOUS
  <1> HIDE DEF bp
  <1>3. /\ s \in Scene /\ s.nodes = bp.nodes /\ DOMAIN s.aliases = Bus \cap DOMAIN bp.nodes
        /\ ShowsWires(s, bp, TRUE)
    BY <1>1, <1>2, RebuiltFacts
  <1> HIDE DEF s
  <1>4. /\ Edit(m, s, Idle, selection) /\ (~drifted') = TRUE /\ drifted' \in BOOLEAN
        /\ next_wire_id' \in 1 .. WireLimit + 1 /\ next_wire_id <= next_wire_id'
        /\ UNCHANGED crossed
    <2>1. Edit(m, s, Idle, selection)
      BY DEF s, bp
    <2>2. next_wire_id' \in 1 .. WireLimit + 1 /\ next_wire_id <= next_wire_id'
      BY AtRest
    <2> QED
      BY <2>1, <2>2
  <1>5. /\ ShowsWires(s, m.current, ~drifted')
        /\ DOMAIN s.nodes = DOMAIN m.current.nodes
        /\ DOMAIN s.aliases = Bus \cap DOMAIN m.current.nodes
        /\ ~drifted' => s.nodes = m.current.nodes
        /\ Numbered(m.current, next_wire_id')
    BY <1>3, <1>4 DEF bp
  <1> QED
    BY <1>3, <1>4, <1>5, EndPreserves

\* The wire in hand is removed.
LEMMA DropWirePreserves ==
  ASSUME IInv, ~Previewing, gesture.index \in DOMAIN model.current.wires, DropWire,
         UNCHANGED <<next_wire_id, drifted, crossed>>
  PROVE  IInv'
  <1> DEFINE bp == model.current
             i == gesture.index
             id == bp.wires[i].id
             new == RemoveWireAt(bp, i)
             m == Command(model, new)
  <1>1. Edit(m, WithWireDrawn(scene, m.current, id), Idle, selection)
    BY DEF DropWire
  <1>2. bp \in Document /\ Numbered(bp, next_wire_id) /\ (~crossed => Fits(bp))
    BY AtRest
  <1>3. id \in WireId
    BY <1>2, WireFacts DEF Wire
  <1>4. WireEdit(bp, new, next_wire_id, id) /\ (Fits(bp) => Fits(new))
    BY <1>2, Removed
  <1>5. new \in Document
    BY <1>4 DEF WireEdit
  <1> HIDE DEF new, id
  <1>6. Grows(m) /\ m.current = new
    BY <1>5, AtRest, Growing
  <1> HIDE DEF m
  <1>7. /\ WireEdit(model.current, m.current, next_wire_id', id) /\ (~crossed => Fits(m.current))
        /\ next_wire_id' \in 1 .. WireLimit + 1 /\ next_wire_id <= next_wire_id'
    BY <1>2, <1>4, <1>6, AtRest
  <1> QED
    BY <1>1, <1>3, <1>6, <1>7, WireEditPreserves

\* It goes to another port.
LEMMA ReconnectToPortPreserves ==
  ASSUME IInv, ~Previewing, gesture.index \in DOMAIN model.current.wires,
         NEW hit \in HitPorts, ReconnectToPort(hit),
         UNCHANGED <<next_wire_id, drifted, crossed>>
  PROVE  IInv'
  <1> DEFINE bp == model.current
             i == gesture.index
             w == bp.wires[i]
             wire == IF gesture.detach_start THEN [w EXCEPT !.source = Canonical(hit)]
                                             ELSE [w EXCEPT !.target = Canonical(hit)]
             new == [bp EXCEPT !.wires[i] = wire]
             m == Command(model, new)
  <1>1. IF ~ValidateWire(wire.source, wire.target) THEN Edit(model, scene, Idle, selection)
        ELSE Edit(m, WithWireDrawn(scene, m.current, w.id), Idle, selection)
    BY DEF ReconnectToPort
  <1>2. bp \in Document /\ Numbered(bp, next_wire_id) /\ (~crossed => Fits(bp))
    BY AtRest
  <1>3. w \in Wire /\ w.id \in WireId
    BY <1>2, WireFacts DEF Wire
  <1>4. wire \in Wire /\ wire.id = w.id
    <2>1. Canonical(hit) \in EndOf
      BY HitFacts, CanonicalFacts
    <2> HIDE DEF w
    <2> QED
      BY <1>3, <2>1 DEF Wire
  <1>5. next_wire_id' \in 1 .. WireLimit + 1 /\ next_wire_id <= next_wire_id'
    BY AtRest
  <1>6. CASE ~ValidateWire(wire.source, wire.target)
    BY <1>1, <1>5, <1>6, AtRest, NoEditPreserves
  <1>7. CASE ValidateWire(wire.source, wire.target)
    <2>1. Joins(bp, wire)
      BY <1>7 DEF ValidateWire, Joins, Resolves
    <2> HIDE DEF wire
    <2>2. WireEdit(bp, new, next_wire_id, wire.id) /\ (Fits(bp) /\ Joins(bp, wire) => Fits(new))
      BY <1>2, <1>4, Replaced
    <2>3. new \in Document
      BY <2>2 DEF WireEdit
    <2>4. Edit(m, WithWireDrawn(scene, m.current, wire.id), Idle, selection)
      BY <1>1, <1>4, <1>7
    <2> HIDE DEF new
    <2>5. Grows(m) /\ m.current = new
      BY <2>3, AtRest, Growing
    <2> HIDE DEF m
    <2>6. WireEdit(model.current, m.current, next_wire_id', wire.id)
      BY <2>2, <2>5
    <2>7. (~crossed => Fits(m.current)) /\ wire.id \in WireId
      BY <1>2, <1>3, <1>4, <2>1, <2>2, <2>5
    <2> QED
      BY <1>5, <2>4, <2>5, <2>6, <2>7, WireEditPreserves
  <1> QED
    BY <1>6, <1>7

\* On an alias it changes places with the wire the alias is of.
LEMMA ReconnectToAliasPreserves ==
  ASSUME IInv, ~Previewing, gesture.index \in DOMAIN model.current.wires,
         NEW hit \in HitPorts, ReconnectToAlias(hit),
         UNCHANGED <<next_wire_id, crossed>>
  PROVE  IInv'
  <1> DEFINE bp == model.current
             i == gesture.index
             other == FindWire(bp, hit.port)
             new == [bp EXCEPT !.wires = Reordered(@, i, other)]
             m == Atomically(model, new)
  <1>1. IF other = 0 THEN DropWire /\ UNCHANGED drifted
        ELSE IF other = i THEN Edit(model, scene, Idle, selection) /\ UNCHANGED drifted
        ELSE Edit(m, Rebuilt(m.current), Idle, selection) /\ drifted' = FALSE
    BY DEF ReconnectToAlias
  <1>2. bp \in Document /\ Numbered(bp, next_wire_id) /\ (~crossed => Fits(bp))
    BY AtRest
  <1>3. next_wire_id' \in 1 .. WireLimit + 1 /\ next_wire_id <= next_wire_id'
    BY AtRest
  <1>4. CASE other = 0
    BY <1>1, <1>4, DropWirePreserves
  <1>5. CASE other # 0 /\ other = i
    BY <1>1, <1>3, <1>5, AtRest, NoEditPreserves
  <1>6. CASE other # 0 /\ other # i
    <2>1. other \in DOMAIN bp.wires
      BY <1>2, <1>6, FindWireFacts DEF Document
    <2> HIDE DEF other
    <2>2. new \in Document /\ Numbered(new, next_wire_id) /\ (Fits(bp) => Fits(new))
      BY <1>2, <2>1, Swapped
    <2>3. Edit(m, Rebuilt(m.current), Idle, selection) /\ drifted' = FALSE
      BY <1>1, <1>6
    <2> HIDE DEF new
    <2>4. Grows(m) /\ m.current = new
      BY <2>2, AtRest, Growing
    <2> HIDE DEF m
    <2>5. Numbered(m.current, next_wire_id) /\ (~crossed => Fits(m.current))
      BY <1>2, <2>2, <2>4
    <2> QED
      BY <2>3, <2>4, <2>5, RebuiltEndPreserves
  <1> QED
    BY <1>4, <1>5, <1>6

LEMMA ReleaseReconnectedPreserves ==
  ASSUME IInv, ReleaseReconnected
  PROVE  IInv'
  <1>1. PICK hit \in HitPorts \cup {NoHit} : ReleaseReconnect(hit)
    BY DEF ReleaseReconnected
  <1>2. /\ gesture.state = "ReconnectingWire"
        /\ UNCHANGED <<next_wire_id, crossed>>
        /\ \/ Edit(model, scene, Idle, selection) /\ UNCHANGED drifted
           \/ /\ ~(gesture.index > Len(model.current.wires))
              /\ \/ DropWire /\ UNCHANGED drifted
                 \/ hit # NoHit /\ ReconnectToAlias(hit)
                 \/ hit # NoHit /\ ReconnectToPort(hit) /\ UNCHANGED drifted
    BY <1>1 DEF ReleaseReconnect
  <1>3. ~Previewing
    BY <1>2 DEF Previewing
  <1>4. gesture.index \in Nat \ {0}
    BY <1>2, AtRest, GestureFacts DEF Types
  <1>5. ASSUME ~(gesture.index > Len(model.current.wires))
        PROVE  gesture.index \in DOMAIN model.current.wires
    <2>1. model.current.wires \in Seq(Wire)
      BY AtRest, TypeFacts
    <2> QED
      BY <1>4, <1>5, <2>1
  <1>6. next_wire_id' \in 1 .. WireLimit + 1 /\ next_wire_id <= next_wire_id'
    BY <1>2, AtRest
  <1>7. CASE Edit(model, scene, Idle, selection) /\ UNCHANGED drifted
    <2>1. (~drifted => scene.nodes = model.current.nodes) /\ UNCHANGED <<drifted, crossed>>
      BY <1>2, <1>3, <1>7, AtRest
    <2> QED
      BY <1>6, <1>7, <2>1, NoEditPreserves
  <1>8. CASE gesture.index \in DOMAIN model.current.wires /\ DropWire /\ UNCHANGED drifted
    BY <1>2, <1>3, <1>8, DropWirePreserves
  <1>9. CASE /\ gesture.index \in DOMAIN model.current.wires
             /\ hit # NoHit /\ ReconnectToAlias(hit)
    BY <1>2, <1>3, <1>9, ReconnectToAliasPreserves
  <1>10. CASE /\ gesture.index \in DOMAIN model.current.wires
              /\ hit # NoHit /\ ReconnectToPort(hit) /\ UNCHANGED drifted
    BY <1>2, <1>3, <1>10, ReconnectToPortPreserves
  <1> QED
    BY <1>2, <1>5, <1>7, <1>8, <1>9, <1>10

-----------------------------------------------------------------------------
(* Double clicks and keys.                                                 *)

\* A routing point more or less.
LEMMA PointFacts ==
  ASSUME NEW s \in Seq(Coord), NEW k \in Nat
  PROVE  /\ k \in DOMAIN s => RemoveAt(s, k) \in Seq(Coord)
         /\ \A p \in Coord : k # 0 /\ k <= Len(s) + 1 => InsertAt(s, k, p) \in Seq(Coord)
  <1>1. k \in DOMAIN s => RemoveAt(s, k) \in Seq(Coord)
    BY RemoveAtFacts
  <1>2. ASSUME NEW p \in Coord, k # 0, k <= Len(s) + 1
        PROVE  InsertAt(s, k, p) \in Seq(Coord)
    <2>0. Len(s) \in Nat
      OBVIOUS
    <2>1. SubSeq(s, 1, k - 1) \in Seq(Coord)
      BY <1>2, <2>0
    <2>2. SubSeq(s, k, Len(s)) \in Seq(Coord)
      BY <1>2, <2>0
    <2>3. <<p>> \in Seq(Coord)
      OBVIOUS
    <2> QED
      BY <2>1, <2>2, <2>3 DEF InsertAt
  <1> QED
    BY <1>1, <1>2

\* The points of a wire change under any gesture, and the wire is drawn anew.
LEMMA RoutePreserves ==
  ASSUME IInv, NEW i \in DOMAIN model.current.wires, NEW points \in Seq(Coord),
         NEW m, m = Command(model, [model.current EXCEPT !.wires[i].points = points]),
         NEW id, id = model.current.wires[i].id,
         Edit(m, WithWireDrawn(scene, m.current, id), gesture, selection),
         UNCHANGED <<next_wire_id, drifted, crossed>>
  PROVE  IInv'
  <1> DEFINE old == model.current
             new == [old EXCEPT !.wires[i].points = points]
  <1>1. old \in Document /\ Numbered(old, next_wire_id) /\ (~crossed => Fits(old))
    BY AtRest
  <1>2. /\ WireEdit(old, new, next_wire_id, id) /\ (Fits(old) => Fits(new))
        /\ DOMAIN new.wires = DOMAIN old.wires
        /\ \A j \in DOMAIN old.wires : new.wires[j].id = old.wires[j].id
    BY <1>1, Rerouted
  <1>3. id \in WireId
    BY <1>1, WireFacts DEF Wire
  <1> HIDE DEF new
  <1>4. /\ new \in Document /\ Numbered(new, next_wire_id) /\ new.nodes = old.nodes
        /\ \A w \in Wire : w.id # id => (w \in Range(old.wires) <=> w \in Range(new.wires))
    BY <1>2 DEF WireEdit
  <1>5. Grows(m) /\ m.current = new
    <2>1. m = Command(model, new)
      BY DEF new
    <2> QED
      BY <1>4, <2>1, AtRest, Growing
  <1> DEFINE t == WithWireDrawn(scene, new, id)
             e == ~drifted
  <1>6. /\ t \in Scene /\ t.nodes = scene.nodes /\ t.aliases = scene.aliases
        /\ ShowsWires(t, new, e)
    <2>1. scene \in Scene /\ e \in BOOLEAN /\ ShowsWires(scene, old, e)
      BY AtRest
    <2>2. DOMAIN new.nodes = DOMAIN old.nodes
      BY <1>4
    <2> HIDE DEF e, old
    <2> QED
      BY <1>1, <1>3, <1>4, <2>1, <2>2, Redrawn DEF old
  <1>7. /\ model' = m /\ scene' = t /\ gesture' = gesture /\ selection' = selection
        /\ read_only' = read_only /\ simulation_mode' = simulation_mode
        /\ drifted' = drifted /\ crossed' = crossed
        /\ Edit(m, t, gesture, selection)
    BY <1>5 DEF Edit
  <1> HIDE DEF t
  <1>8. InHand'
    BY <1>2, <1>4, <1>5, <1>7 DEF IInv, InHand
  <1>9. ShowsNodes'
    <2>1. ShowsNodes /\ model'.current.nodes = model.current.nodes /\ scene'.nodes = scene.nodes
          /\ DOMAIN scene'.aliases = DOMAIN scene.aliases
      BY <1>4, <1>5, <1>6, <1>7 DEF IInv
    <2>2. DragShown <=> DragShown'
      BY <1>7, <2>1 DEF DragShown, Dragged, Present
    <2>3. ResizeShown <=> ResizeShown'
      BY <1>7, <2>1 DEF ResizeShown
    <2> QED
      BY <1>7, <2>1, <2>2, <2>3 DEF ShowsNodes, Previewing
  <1>10. gesture \in Gesture /\ crossed' \in BOOLEAN /\ drifted' \in BOOLEAN
    BY <1>7 DEF IInv, Types
  <1>11. next_wire_id' \in 1 .. WireLimit + 1 /\ next_wire_id <= next_wire_id'
    BY AtRest
  <1>12. Numbered(m.current, next_wire_id') /\ (~crossed' => Fits(m.current))
    BY <1>1, <1>2, <1>4, <1>5, <1>7
  <1>13. ShowsWires(t, m.current, ~drifted')
    BY <1>5, <1>6, <1>7
  <1>14. selection \in SUBSET NodeId /\ (crossed => crossed')
    BY <1>7, AtRest
  <1> QED
    BY <1>5, <1>6, <1>7, <1>8, <1>9, <1>10, <1>11, <1>12, <1>13, <1>14, EditPreserves

LEMMA DoubleClickPreserves ==
  ASSUME IInv, DoubleClickPoint \/ DoubleClickWire
  PROVE  IInv'
  <1> DEFINE I(id) == FindWire(model.current, id)
  <1>1. model.current.wires \in Seq(Wire) /\ scene.wires \in [DOMAIN scene.wires -> Widget]
    BY AtRest, TypeFacts
  <1>2. \A id : I(id) # 0 => /\ I(id) \in DOMAIN model.current.wires
                             /\ model.current.wires[I(id)].id = id
                             /\ model.current.wires[I(id)].points \in Seq(Coord)
    <2> TAKE id
    <2> HAVE I(id) # 0
    <2>1. I(id) \in DOMAIN model.current.wires /\ model.current.wires[I(id)].id = id
      BY <1>1, FindWireFacts
    <2> HIDE DEF I
    <2>2. model.current.wires[I(id)] \in Wire
      BY <1>1, <2>1
    <2> QED
      BY <2>1, <2>2 DEF Wire
  <1>3. \A id \in DOMAIN scene.wires : scene.wires[id].points \in Seq(Coord)
    BY <1>1 DEF Widget
  <1>4. CASE DoubleClickPoint
    <2>1. PICK id \in DOMAIN scene.wires : \E k \in DOMAIN scene.wires[id].points :
            LET i == I(id)
                m == Command(model, [model.current EXCEPT !.wires[i].points = RemoveAt(@, k)])
            IN  /\ i # 0 /\ k \in DOMAIN model.current.wires[i].points
                /\ Edit(m, WithWireDrawn(scene, m.current, id), gesture, selection)
                /\ UNCHANGED <<next_wire_id, drifted, crossed>>
      BY <1>4 DEF DoubleClickPoint
    <2> DEFINE i == I(id)
               New(points) == [model.current EXCEPT !.wires[i].points = points]
    <2>2. PICK k \in DOMAIN scene.wires[id].points :
            LET m == Command(model, [model.current EXCEPT !.wires[i].points = RemoveAt(@, k)])
            IN  /\ i # 0 /\ k \in DOMAIN model.current.wires[i].points
                /\ Edit(m, WithWireDrawn(scene, m.current, id), gesture, selection)
                /\ UNCHANGED <<next_wire_id, drifted, crossed>>
      BY <2>1
    <2> DEFINE points == RemoveAt(model.current.wires[i].points, k)
               m == Command(model, New(points))
    <2>3. Edit(m, WithWireDrawn(scene, m.current, id), gesture, selection)
          /\ UNCHANGED <<next_wire_id, drifted, crossed>>
      BY <2>2
    <2>4. i \in DOMAIN model.current.wires /\ model.current.wires[i].id = id
          /\ model.current.wires[i].points \in Seq(Coord)
      BY <1>2, <2>2
    <2> HIDE DEF i
    <2>5. k \in Nat
      BY <2>2, <2>4
    <2>6. points \in Seq(Coord)
      BY <2>2, <2>4, <2>5, PointFacts
    <2> HIDE DEF points
    <2>7. m = Command(model, [model.current EXCEPT !.wires[i].points = points])
      OBVIOUS
    <2> HIDE DEF m
    <2> QED
      BY <2>3, <2>4, <2>6, <2>7, RoutePreserves
  <1>5. CASE DoubleClickWire
    <2>1. PICK id \in DOMAIN scene.wires :
            \E k \in 1 .. Len(scene.wires[id].points) + 1, p \in Coord :
              LET i == I(id)
                  m == Command(model, [model.current EXCEPT !.wires[i].points = InsertAt(@, k, p)])
              IN  /\ i # 0 /\ k <= Len(model.current.wires[i].points) + 1
                  /\ Edit(m, WithWireDrawn(scene, m.current, id), gesture, selection)
                  /\ UNCHANGED <<next_wire_id, drifted, crossed>>
      BY <1>5 DEF DoubleClickWire
    <2> DEFINE i == I(id)
               New(points) == [model.current EXCEPT !.wires[i].points = points]
    <2>2. PICK k \in 1 .. Len(scene.wires[id].points) + 1, p \in Coord :
            LET m == Command(model, [model.current EXCEPT !.wires[i].points = InsertAt(@, k, p)])
            IN  /\ i # 0 /\ k <= Len(model.current.wires[i].points) + 1
                /\ Edit(m, WithWireDrawn(scene, m.current, id), gesture, selection)
                /\ UNCHANGED <<next_wire_id, drifted, crossed>>
      BY <2>1
    <2> DEFINE points == InsertAt(model.current.wires[i].points, k, p)
               m == Command(model, New(points))
    <2>3. Edit(m, WithWireDrawn(scene, m.current, id), gesture, selection)
          /\ UNCHANGED <<next_wire_id, drifted, crossed>>
      BY <2>2
    <2>4. i \in DOMAIN model.current.wires /\ model.current.wires[i].id = id
          /\ model.current.wires[i].points \in Seq(Coord)
      BY <1>2, <2>2
    <2> HIDE DEF i
    <2>5. k \in Nat /\ k # 0
      BY <1>3, <2>2
    <2>6. points \in Seq(Coord)
      BY <2>2, <2>4, <2>5, PointFacts
    <2> HIDE DEF points
    <2>7. m = Command(model, [model.current EXCEPT !.wires[i].points = points])
      OBVIOUS
    <2> HIDE DEF m
    <2> QED
      BY <2>3, <2>4, <2>6, <2>7, RoutePreserves
  <1> QED
    BY <1>4, <1>5

\* What leaves the model alone keeps the invariant when the scene shows it.
LEMMA StillPreserves ==
  ASSUME IInv, UNCHANGED <<model, next_wire_id, read_only, crossed>>,
         scene' \in Scene, gesture' \in Gesture, selection' \in SUBSET NodeId,
         simulation_mode' \in BOOLEAN, drifted' \in BOOLEAN,
         gesture'.state \in {"CreatingWire", "ReconnectingWire"} => gesture' = gesture,
         ShowsWires(scene', model.current, ~drifted'), ShowsNodes'
  PROVE  IInv'
  <1>1. Types'
    BY DEF IInv, Types
  <1>2. Sound'
    BY DEF IInv, Sound
  <1>3. InHand'
    BY DEF IInv, InHand
  <1> QED
    BY <1>1, <1>2, <1>3 DEF IInv

\* The scene of the current document.
LEMMA CurrentRebuilt ==
  ASSUME IInv
  PROVE  LET s == Rebuilt(model.current)
         IN  /\ s \in Scene /\ s.nodes = model.current.nodes
             /\ DOMAIN s.aliases = Bus \cap DOMAIN model.current.nodes
             /\ \A e : ShowsWires(s, model.current, e)
  <1>1. model.current \in Document /\ Numbered(model.current, next_wire_id) /\ TRUE \in BOOLEAN
    BY AtRest
  <1> DEFINE s == Rebuilt(model.current)
  <1>2. /\ s \in Scene /\ s.nodes = model.current.nodes
        /\ DOMAIN s.aliases = Bus \cap DOMAIN model.current.nodes
        /\ ShowsWires(s, model.current, TRUE)
    BY <1>1, RebuiltFacts
  <1> HIDE DEF s
  <1>3. \A e : ShowsWires(s, model.current, e)
    BY <1>2, ShownLess
  <1> QED
    BY <1>2, <1>3 DEF s

LEMMA EscapePreserves ==
  ASSUME IInv, Escape
  PROVE  IInv'
  <1> DEFINE rebuild == Editing /\ (Previewing \/ gesture.state = "DraggingRoutingPoint")
             idle == Editing /\ gesture.state # "Panning"
             s == Rebuilt(model.current)
  <1>1. /\ gesture' = IF idle THEN Idle ELSE gesture
        /\ scene' = IF rebuild THEN s ELSE scene
        /\ drifted' = (drifted /\ ~rebuild)
        /\ selection' = {}
        /\ UNCHANGED <<model, next_wire_id, read_only, simulation_mode, crossed>>
    BY DEF Escape
  <1>2. /\ s \in Scene /\ s.nodes = model.current.nodes
        /\ DOMAIN s.aliases = Bus \cap DOMAIN model.current.nodes
        /\ \A e : ShowsWires(s, model.current, e)
    BY CurrentRebuilt
  <1> HIDE DEF s
  <1>3. /\ scene \in Scene /\ ShowsWires(scene, model.current, ~drifted)
        /\ drifted \in BOOLEAN
    BY AtRest
  <1>4. gesture \in Gesture /\ simulation_mode \in BOOLEAN /\ Idle \in Gesture /\ Idle.state = "Idle"
    BY DEF IInv, Types, Idle, Gesture
  <1>5. rebuild => idle
    BY DEF Previewing
  <1>6. ShowsWires(scene', model.current, ~drifted')
    <2>1. CASE rebuild
      BY <1>1, <1>2, <2>1
    <2>2. CASE ~rebuild
      <3>1. scene' = scene /\ drifted' = drifted
        BY <1>1, <1>3, <2>2
      <3> QED
        BY <1>3, <3>1
    <2> QED
      BY <2>1, <2>2
  <1>7. ShowsNodes'
    <2>1. ShowsNodes
      BY DEF IInv
    <2>2. CASE rebuild
      <3>1. gesture' = Idle /\ scene' = s /\ model' = model
        BY <1>1, <1>5, <2>2
      <3>2. gesture'.state = "Idle"
        BY <1>4, <3>1
      <3> QED
        BY <1>2, <3>1, <3>2 DEF ShowsNodes, Previewing
    <2>3. CASE ~rebuild
      <3>1. scene' = scene /\ drifted' = drifted /\ model' = model
        BY <1>1, <1>3, <2>3
      <3>2. CASE idle
        <4>1. ~Previewing
          BY <2>3, <3>2
        <4>2. gesture'.state = "Idle"
          BY <1>1, <1>4, <3>2
        <4> QED
          BY <2>1, <3>1, <4>1, <4>2 DEF ShowsNodes, Previewing
      <3>3. CASE ~idle
        <4>1. gesture' = gesture
          BY <1>1, <3>3
        <4>2. Previewing => drifted
          BY <2>1, <3>3 DEF ShowsNodes, Editing, Previewing
        <4> QED
          BY <1>1, <2>1, <3>1, <4>1, <4>2 DEF ShowsNodes, Previewing
      <3> QED
        BY <3>2, <3>3
    <2> QED
      BY <2>2, <2>3
  <1>8. scene' \in Scene /\ gesture' \in Gesture
    BY <1>1, <1>2, <1>3, <1>4
  <1>9. /\ selection' \in SUBSET NodeId /\ simulation_mode' \in BOOLEAN
        /\ drifted' \in BOOLEAN
        /\ gesture'.state \in {"CreatingWire", "ReconnectingWire"} => gesture' = gesture
        /\ UNCHANGED <<model, next_wire_id, read_only, crossed>>
    BY <1>1, <1>3, <1>4
  <1> QED
    BY <1>6, <1>7, <1>8, <1>9, StillPreserves

\* The simulation starts and stops under a gesture.
LEMMA SimulationPreserves ==
  ASSUME IInv, StartSimulation \/ StopSimulation
  PROVE  IInv'
  <1> DEFINE s == Rebuilt(model.current)
             moved == [scene EXCEPT !.nodes = model.current.nodes]
  <1>0. /\ scene \in Scene /\ drifted \in BOOLEAN
        /\ ShowsWires(scene, model.current, ~drifted) /\ ShowsNodes
        /\ gesture \in Gesture /\ selection \in SUBSET NodeId
    BY AtRest DEF IInv, Types
  <1>1. /\ s \in Scene /\ s.nodes = model.current.nodes
        /\ DOMAIN s.aliases = Bus \cap DOMAIN model.current.nodes
        /\ \A e : ShowsWires(s, model.current, e)
    BY CurrentRebuilt
  <1>2. /\ moved \in Scene /\ moved.nodes = model.current.nodes
        /\ moved.wires = scene.wires /\ moved.aliases = scene.aliases
    BY <1>0, SceneExcept, TypeFacts, AtRest
  <1> HIDE DEF s, moved
  <1>3. /\ UNCHANGED <<model, next_wire_id, read_only, crossed, gesture, selection>>
        /\ simulation_mode' \in BOOLEAN /\ drifted' \in BOOLEAN
        /\ Previewing => drifted'
        /\ \/ scene' = s
           \/ scene' = moved /\ (drifted => drifted')
           \/ scene' = scene /\ (drifted => drifted')
    <2>1. CASE StartSimulation
      BY <1>0, <2>1 DEF StartSimulation, Drift, Previewing, moved
    <2>2. CASE StopSimulation
      BY <1>0, <2>2 DEF StopSimulation, Previewing, s
    <2> QED
      BY <2>1, <2>2
  <1>4. ShowsWires(scene', model.current, ~drifted')
    <2>1. CASE scene' = s
      BY <1>1, <2>1
    <2>2. CASE scene'.wires = scene.wires /\ (drifted => drifted')
      <3>1. (~drifted') => (~drifted)
        BY <2>2
      <3> DEFINE e == ~drifted
                 f == ~drifted'
                 t == scene'
      <3>2. ShowsWires(scene, model.current, e) /\ (f => e) /\ t.wires = scene.wires
        BY <1>0, <2>2, <3>1
      <3> HIDE DEF e, f, t
      <3>3. ShowsWires(t, model.current, f)
        BY <3>2, ShownLess
      <3> QED
        BY <3>3 DEF t, f
    <2> QED
      BY <1>2, <1>3, <2>1, <2>2
  <1>5. ShowsNodes'
    <2>1. /\ DOMAIN scene'.nodes = DOMAIN model.current.nodes
          /\ DOMAIN scene'.aliases = Bus \cap DOMAIN model.current.nodes
      BY <1>0, <1>1, <1>2, <1>3 DEF ShowsNodes
    <2>2. ~Previewing /\ ~drifted' => scene'.nodes = model.current.nodes
      BY <1>0, <1>1, <1>2, <1>3 DEF ShowsNodes
    <2> QED
      BY <1>0, <1>3, <2>1, <2>2 DEF ShowsNodes, Previewing
  <1>6. scene' \in Scene /\ gesture' \in Gesture /\ selection' \in SUBSET NodeId
    BY <1>0, <1>1, <1>2, <1>3
  <1>7. gesture'.state \in {"CreatingWire", "ReconnectingWire"} => gesture' = gesture
    BY <1>3
  <1> QED
    BY <1>3, <1>4, <1>5, <1>6, <1>7, StillPreserves

\* Nodes and their wires are deleted under a gesture.
LEMMA DeletePreserves ==
  ASSUME IInv, Delete
  PROVE  IInv'
  <1> DEFINE bp == model.current
             ids == {w.id : w \in Touching(bp, selection)}
             new == WithoutNodes(bp, selection)
             m == Atomically(model, new)
             t == WithoutWidgets(scene, selection, ids)
  <1>1. /\ Edit(m, t, gesture, {})
        /\ crossed' = (crossed \/ gesture.state \in {"CreatingWire", "ReconnectingWire"})
        /\ UNCHANGED <<next_wire_id, drifted>>
    BY DEF Delete
  <1>2. /\ bp \in Document /\ Numbered(bp, next_wire_id) /\ (~crossed => Fits(bp))
        /\ scene \in Scene /\ (~drifted) \in BOOLEAN /\ drifted \in BOOLEAN
        /\ ShowsWires(scene, bp, ~drifted)
        /\ DOMAIN scene.nodes = DOMAIN bp.nodes /\ DOMAIN scene.aliases = Bus \cap DOMAIN bp.nodes
    BY AtRest
  <1>3. /\ new \in Document /\ Numbered(new, next_wire_id) /\ (Fits(bp) => Fits(new))
        /\ new.nodes = [n \in DOMAIN bp.nodes \ selection |-> bp.nodes[n]]
    <2> HIDE DEF bp
    <2> QED
      BY <1>2, WithoutNodesFacts
  <1>4. /\ t \in Scene
        /\ t.nodes = [n \in DOMAIN scene.nodes \ selection |-> scene.nodes[n]]
        /\ DOMAIN t.aliases = DOMAIN scene.aliases \ selection
        /\ ShowsWires(t, new, ~drifted)
    <2> DEFINE e == ~drifted
    <2>1. e \in BOOLEAN /\ ShowsWires(scene, bp, e)
      BY <1>2
    <2> HIDE DEF e, bp
    <2>2. /\ t \in Scene
          /\ t.nodes = [n \in DOMAIN scene.nodes \ selection |-> scene.nodes[n]]
          /\ DOMAIN t.aliases = DOMAIN scene.aliases \ selection
          /\ ShowsWires(t, new, e)
      BY <1>2, <2>1, WidgetsRemoved
    <2> QED
      BY <2>2 DEF e
  <1> HIDE DEF t, new
  <1>5. Grows(m) /\ m.current = new
    BY <1>3, AtRest, Growing
  <1> HIDE DEF m
  <1>6. /\ model' = m /\ scene' = t /\ gesture' = gesture /\ selection' = {}
        /\ read_only' = read_only /\ simulation_mode' = simulation_mode
    BY <1>1 DEF Edit
  <1>7. DOMAIN t.nodes = DOMAIN new.nodes /\ DOMAIN new.nodes = DOMAIN bp.nodes \ selection
        /\ DOMAIN t.aliases = Bus \cap DOMAIN new.nodes
    BY <1>2, <1>3, <1>4
  <1>8. InHand'
    BY <1>1, <1>6 DEF InHand
  <1>9. ASSUME \A n \in DOMAIN bp.nodes \ selection : scene.nodes[n] = bp.nodes[n]
        PROVE  t.nodes = new.nodes
    BY <1>2, <1>3, <1>4, <1>9
  <1>10. ASSUME gesture.state = "DraggingNode", ~drifted
         PROVE  t.nodes = new.nodes
    <2>1. DragShown
      BY <1>10 DEF IInv, ShowsNodes
    <2>2. CASE scene.nodes = bp.nodes
      BY <1>9, <2>2
    <2>3. CASE scene.nodes = Dragged(bp, selection, gesture.current)
      <3>1. 0 \notin DOMAIN gesture.current
        <4>1. gesture.current \in Seq(Coord)
          BY <1>10, AtRest, GestureFacts DEF Types
        <4> QED
          BY <4>1
      <3>2. ASSUME NEW n \in DOMAIN bp.nodes \ selection
            PROVE  scene.nodes[n] = bp.nodes[n]
        <4> DEFINE moved == Present(bp, selection)
        <4>1. moved \in Seq(NodeId) /\ Range(moved) = selection \cap DOMAIN bp.nodes
          BY <1>2, PresentFacts
        <4> HIDE DEF moved
        <4>2. n \notin Range(moved)
          BY <4>1
        <4>3. Place(moved, n) = 0
          BY <4>1, <4>2, PlaceFacts DEF Range
        <4> QED
          BY <2>3, <3>1, <4>3 DEF Dragged, moved
      <3> QED
        BY <1>9, <3>2
    <2> QED
      BY <2>1, <2>2, <2>3 DEF DragShown
  <1>11. ASSUME gesture.state = "ResizingNode", ~drifted
         PROVE  ResizeShown'
    <2>1. ResizeShown
      BY <1>11 DEF IInv, ShowsNodes
    <2>2. \A n \in DOMAIN new.nodes :
            /\ t.nodes[n] = IF n = gesture.node THEN gesture.current ELSE new.nodes[n]
            /\ new.nodes[n] = bp.nodes[n] /\ n \in DOMAIN bp.nodes
      BY <1>2, <1>3, <1>4, <1>7, <2>1 DEF ResizeShown
    <2>3. t.nodes = [n \in DOMAIN new.nodes |->
                       IF n = gesture.node THEN gesture.current ELSE new.nodes[n]]
      <3>1. t.nodes = [n \in DOMAIN new.nodes |-> t.nodes[n]]
        BY <1>4, <1>7
      <3> QED
        BY <2>2, <3>1
    <2>4. gesture.node \in DOMAIN new.nodes => gesture.original = new.nodes[gesture.node]
      BY <2>1, <2>2 DEF ResizeShown
    <2> QED
      BY <1>5, <1>6, <2>3, <2>4 DEF ResizeShown
  <1>12. ShowsNodes'
    <2>1. ShowsNodes /\ drifted' = drifted
      BY <1>1 DEF IInv
    <2>2. ASSUME ~drifted, gesture.state = "DraggingNode" PROVE DragShown'
      BY <1>5, <1>6, <1>10, <2>2 DEF DragShown
    <2>3. ASSUME ~drifted, ~Previewing PROVE t.nodes = new.nodes
      BY <1>9, <2>1, <2>3 DEF ShowsNodes
    <2> QED
      BY <1>5, <1>6, <1>7, <1>11, <2>1, <2>2, <2>3 DEF ShowsNodes, Previewing
  <1>13. gesture \in Gesture /\ {} \in SUBSET NodeId /\ crossed \in BOOLEAN
    BY DEF IInv, Types
  <1>14. crossed' \in BOOLEAN /\ (crossed => crossed') /\ drifted' \in BOOLEAN
    BY <1>1, <1>2, <1>13
  <1>15. next_wire_id' \in 1 .. WireLimit + 1 /\ next_wire_id <= next_wire_id'
    BY <1>1, AtRest
  <1>16. Numbered(m.current, next_wire_id') /\ (~crossed' => Fits(m.current))
    BY <1>1, <1>2, <1>3, <1>5, <1>14
  <1>17. ShowsWires(t, m.current, ~drifted')
    BY <1>1, <1>4, <1>5
  <1> QED
    BY <1>1, <1>4, <1>5, <1>8, <1>12, <1>13, <1>14, <1>15, <1>16, <1>17, EditPreserves

-----------------------------------------------------------------------------
(* From elsewhere.                                                         *)

\* Gestures are cancelled and the scene is built anew.
LEMMA CancelPreserves ==
  ASSUME IInv, NEW m, Grows(m), CancelAndRebuild(m),
         Numbered(m.current, next_wire_id), ~crossed => Fits(m.current)
  PROVE  IInv'
  <1> DEFINE bp == m.current
             s == Rebuilt(bp)
  <1>1. bp \in Document /\ Numbered(bp, next_wire_id) /\ TRUE \in BOOLEAN
    BY DEF Grows, Model
  <1>2. /\ model' = m /\ scene' = s /\ gesture' = Idle /\ drifted' = FALSE
        /\ UNCHANGED <<next_wire_id, selection, read_only, simulation_mode, crossed>>
    BY DEF CancelAndRebuild
  <1> HIDE DEF bp
  <1>3. /\ s \in Scene /\ s.nodes = bp.nodes /\ DOMAIN s.aliases = Bus \cap DOMAIN bp.nodes
        /\ ShowsWires(s, bp, TRUE)
    BY <1>1, RebuiltFacts
  <1> HIDE DEF s
  <1>4. Idle \in Gesture /\ Idle.state = "Idle"
    BY DEF Idle, Gesture
  <1>5. Types'
    <2>1. m \in Model
      BY DEF Grows
    <2> QED
      BY <1>2, <1>3, <1>4, <2>1 DEF IInv, Types
  <1>6. Sound'
    <2>1. next_wire_id' \in Int /\ next_wire_id <= next_wire_id'
      BY <1>2, AtRest
    <2>2. Grows(model') /\ (crossed => crossed') /\ Numbered(model'.current, next_wire_id')
          /\ (~crossed' => Fits(model'.current))
      BY <1>2
    <2> QED
      BY <2>1, <2>2, SoundStep
  <1>7. InHand'
    BY <1>2, <1>4 DEF InHand
  <1>8. ShowsNodes'
    BY <1>2, <1>3, <1>4 DEF ShowsNodes, Previewing, bp
  <1>9. (~drifted') = TRUE /\ model'.current = bp /\ scene' = s
    BY <1>2 DEF bp
  <1>10. ShowsWires(scene', model'.current, ~drifted')
    BY <1>3, <1>9
  <1> QED
    BY <1>5, <1>6, <1>7, <1>8, <1>10 DEF IInv

\* The last version of a stack, and what is below it.
LEMMA TopFacts ==
  ASSUME NEW s \in Seq(Document), s # <<>>
  PROVE  /\ Last(s) \in Document /\ Last(s) \in Range(s)
         /\ Front(s) \in Seq(Document) /\ Range(Front(s)) \subseteq Range(s)
  <1>1. Len(s) \in Nat /\ Len(s) > 0 /\ DOMAIN s = 1 .. Len(s)
    OBVIOUS
  <1>2. Last(s) = s[Len(s)] /\ Len(s) \in DOMAIN s
    BY <1>1 DEF Last
  <1>3. Last(s) \in Document /\ Last(s) \in Range(s)
    BY <1>1, <1>2 DEF Range
  <1>4. Front(s) = SubSeq(s, 1, Len(s) - 1)
    BY DEF Front
  <1>5. /\ Front(s) \in Seq(Document) /\ Len(Front(s)) = Len(s) - 1
        /\ \A i \in 1 .. Len(s) - 1 : Front(s)[i] = s[i]
    BY <1>1, <1>4
  <1> DEFINE t == Front(s)
  <1> HIDE DEF t
  <1>6. DOMAIN t = 1 .. Len(s) - 1
    BY <1>1, <1>5 DEF t
  <1>7. \A i \in DOMAIN t : i \in DOMAIN s /\ t[i] = s[i]
    BY <1>1, <1>5, <1>6 DEF t
  <1>8. Range(t) \subseteq Range(s)
    BY <1>7 DEF Range
  <1> QED
    BY <1>3, <1>5, <1>8 DEF t

LEMMA OntoFacts ==
  ASSUME NEW s \in Seq(Document), NEW bp \in Document
  PROVE  Append(s, bp) \in Seq(Document) /\ Range(Append(s, bp)) = Range(s) \cup {bp}
  <1> DEFINE t == Append(s, bp)
  <1>1. /\ Len(s) \in Nat /\ DOMAIN s = 1 .. Len(s)
        /\ t \in Seq(Document) /\ DOMAIN t = 1 .. Len(s) + 1
        /\ \A i \in DOMAIN s : t[i] = s[i]
        /\ t[Len(s) + 1] = bp
    OBVIOUS
  <1> HIDE DEF t
  <1>2. \A i \in DOMAIN t : i \in DOMAIN s \/ i = Len(s) + 1
    BY <1>1
  <1>3. DOMAIN s \subseteq DOMAIN t /\ Len(s) + 1 \in DOMAIN t
    BY <1>1
  <1>4. Range(t) = Range(s) \cup {bp}
    BY <1>1, <1>2, <1>3 DEF Range
  <1> QED
    BY <1>1, <1>4 DEF t

\* Undo and redo go to a version there is.
LEMMA HistoryPreserves ==
  ASSUME IInv, PerformUndo \/ PerformRedo
  PROVE  IInv'
  <1>0. model.undo \in Seq(Document) /\ model.redo \in Seq(Document) /\ model.current \in Document
    BY AtRest, TypeFacts
  <1>1. ASSUME NEW m \in Model, Versions(m) \subseteq Versions(model), CancelAndRebuild(m)
        PROVE  IInv'
    <2>1. Grows(m) /\ m.current \in Versions(model)
      BY <1>1 DEF Grows, Versions
    <2>2. Numbered(m.current, next_wire_id) /\ (~crossed => Fits(m.current))
      BY <2>1 DEF IInv, Sound
    <2> QED
      BY <1>1, <2>1, <2>2, CancelPreserves
  <1>2. CASE PerformUndo
    <2> DEFINE m == [current |-> Last(model.undo), undo |-> Front(model.undo),
                     redo |-> Append(model.redo, model.current)]
    <2>1. model.undo # <<>> /\ CancelAndRebuild(m)
      BY <1>2 DEF PerformUndo
    <2>2. m \in Model
      BY <1>0, <2>1, TopFacts, OntoFacts DEF Model
    <2>3. Versions(m) \subseteq Versions(model)
      BY <1>0, <2>1, TopFacts, OntoFacts DEF Versions
    <2> HIDE DEF m
    <2> QED
      BY <1>1, <2>1, <2>2, <2>3
  <1>3. CASE PerformRedo
    <2> DEFINE m == [current |-> Last(model.redo), redo |-> Front(model.redo),
                     undo |-> Append(model.undo, model.current)]
    <2>1. model.redo # <<>> /\ CancelAndRebuild(m)
      BY <1>3 DEF PerformRedo
    <2>2. m \in Model
      BY <1>0, <2>1, TopFacts, OntoFacts DEF Model
    <2>3. Versions(m) \subseteq Versions(model)
      BY <1>0, <2>1, TopFacts, OntoFacts DEF Versions
    <2> HIDE DEF m
    <2> QED
      BY <1>1, <2>1, <2>2, <2>3
  <1> QED
    BY <1>2, <1>3

\* A node is added from a menu.
LEMMA AddComponentPreserves ==
  ASSUME IInv, AddComponent
  PROVE  IInv'
  <1> DEFINE bp == model.current
             Nodes2(n) == [k \in DOMAIN bp.nodes \cup {n} |-> IF k = n THEN 0 ELSE bp.nodes[k]]
  <1>1. PICK n \in NodeId \ DOMAIN bp.nodes :
          CancelAndRebuild(Command(model, [bp EXCEPT !.nodes = Nodes2(n)]))
    BY DEF AddComponent
  <1> DEFINE nodes == Nodes2(n)
             new == [bp EXCEPT !.nodes = nodes]
             m == Command(model, new)
  <1>2. /\ bp \in Document /\ DOMAIN bp.nodes \subseteq NodeId
        /\ bp.nodes \in [DOMAIN bp.nodes -> Coord]
        /\ Numbered(bp, next_wire_id) /\ (~crossed => Fits(bp))
    BY AtRest, TypeFacts
  <1>3. nodes \in Places /\ DOMAIN bp.nodes \subseteq DOMAIN nodes
    <2>1. 0 \in Coord
      BY CanvasAssumption DEF Coord
    <2>2. nodes \in [DOMAIN bp.nodes \cup {n} -> Coord] /\ DOMAIN bp.nodes \cup {n} \subseteq NodeId
      BY <1>2, <2>1
    <2> HIDE DEF nodes
    <2> QED
      BY <2>2, PlacesFacts
  <1>4. CancelAndRebuild(m)
    BY <1>1
  <1> HIDE DEF nodes
  <1>5. new \in Document /\ new.nodes = nodes /\ new.wires = bp.wires
    BY <1>2, <1>3, DocumentFacts
  <1> HIDE DEF new
  <1>6. Numbered(new, next_wire_id)
    BY <1>2, <1>5 DEF Numbered
  <1>7. ASSUME Fits(bp) PROVE Fits(new)
    <2> SUFFICES ASSUME NEW i \in DOMAIN bp.wires PROVE Joins(new, bp.wires[i])
      BY <1>5 DEF Fits
    <2>1. Joins(bp, bp.wires[i])
      BY <1>7 DEF Fits
    <2> QED
      BY <1>3, <1>5, <2>1 DEF Joins
  <1>8. Grows(m) /\ m.current = new
    BY <1>5, AtRest, Growing
  <1> HIDE DEF m
  <1> QED
    BY <1>2, <1>4, <1>6, <1>7, <1>8, CancelPreserves

-----------------------------------------------------------------------------
(* The invariant.                                                          *)

LEMMA InitInv ==
  ASSUME Init
  PROVE  IInv
  <1>1. PICK bp \in Files : model = [current |-> bp, undo |-> <<>>, redo |-> <<>>]
    BY DEF Init
  <1>2. /\ next_wire_id = 1 + Len(bp.wires) /\ scene = Rebuilt(bp)
        /\ gesture = Idle /\ selection = {}
        /\ read_only \in BOOLEAN /\ simulation_mode = FALSE
        /\ drifted = FALSE /\ crossed = FALSE
    BY <1>1 DEF Init
  <1>3. /\ bp \in Document /\ Fits(bp) /\ Numbered(bp, 1 + Len(bp.wires))
        /\ Len(bp.wires) <= WireLimit /\ WireLimit \in Nat
    BY CanvasAssumption
  <1>4. bp.wires \in Seq(Wire)
    BY <1>3, DocumentFacts
  <1>5. next_wire_id \in 1 .. WireLimit + 1
    BY <1>2, <1>3, <1>4
  <1>6. model \in Model
    BY <1>1, <1>3 DEF Model
  <1>7. Versions(model) = {bp}
    BY <1>1 DEF Versions, Range
  <1>8. Sound
    BY <1>2, <1>3, <1>7 DEF Sound
  <1>9. /\ scene \in Scene /\ scene.nodes = bp.nodes
        /\ DOMAIN scene.aliases = Bus \cap DOMAIN bp.nodes
        /\ ShowsWires(scene, bp, TRUE)
    <2> DEFINE k == 1 + Len(bp.wires)
    <2>1. Numbered(bp, k) /\ TRUE \in BOOLEAN
      BY <1>3
    <2> HIDE DEF k
    <2> QED
      BY <1>2, <1>3, <2>1, RebuiltFacts
  <1>10. Idle \in Gesture /\ Idle.state = "Idle"
    BY DEF Idle, Gesture
  <1>11. Types
    BY <1>2, <1>5, <1>6, <1>9, <1>10 DEF Types
  <1>12. InHand
    BY <1>2, <1>10 DEF InHand
  <1>13. ShowsNodes
    BY <1>1, <1>2, <1>9, <1>10 DEF ShowsNodes, Previewing
  <1>14. ShowsWires(scene, model.current, ~drifted)
    <2>1. (~drifted) = TRUE /\ model.current = bp
      BY <1>1, <1>2
    <2> QED
      BY <1>9, <2>1
  <1> QED
    BY <1>8, <1>11, <1>12, <1>13, <1>14 DEF IInv

LEMMA NextInv ==
  ASSUME IInv, [Next]_vars
  PROVE  IInv'
  <1>1. CASE MouseDown \/ SelectNodeById
    BY <1>1, PressesPreserve
  <1>2. CASE MouseDrag
    BY <1>2, DragNodesPreserves, DragResizePreserves, DragPointPreserves DEF MouseDrag
  <1>3. CASE MouseUp
    <2>1. CASE ReleaseMarquee \/ ReleaseNothing
      BY <2>1, PressesPreserve
    <2>2. CASE ReleaseDrag
      BY <2>2, ReleaseDragPreserves
    <2>3. CASE ReleasePoint
      BY <2>3, ReleasePointPreserves
    <2>4. CASE ReleaseResize
      BY <2>4, ReleaseResizePreserves
    <2>5. CASE ReleaseNewWire
      BY <2>5, ReleaseNewWirePreserves
    <2>6. CASE ReleaseReconnected
      BY <2>6, ReleaseReconnectedPreserves
    <2> QED
      BY <1>3, <2>1, <2>2, <2>3, <2>4, <2>5, <2>6 DEF MouseUp
  <1>4. CASE DoubleClickPoint \/ DoubleClickWire
    BY <1>4, DoubleClickPreserves
  <1>5. CASE Escape
    BY <1>5, EscapePreserves
  <1>6. CASE Delete
    BY <1>6, DeletePreserves
  <1>7. CASE PerformUndo \/ PerformRedo
    BY <1>7, HistoryPreserves
  <1>8. CASE AddComponent
    BY <1>8, AddComponentPreserves
  <1>9. CASE StartSimulation \/ StopSimulation
    BY <1>9, SimulationPreserves
  <1>10. CASE UNCHANGED vars
    <2>1. /\ model' = model /\ next_wire_id' = next_wire_id /\ scene' = scene
          /\ gesture' = gesture /\ selection' = selection /\ read_only' = read_only
          /\ simulation_mode' = simulation_mode /\ drifted' = drifted /\ crossed' = crossed
      BY <1>10 DEF vars
    <2>2. Types'
      BY <2>1 DEF IInv, Types
    <2>3. Sound' /\ InHand'
      BY <2>1 DEF IInv, Sound, InHand
    <2>4. ShowsWires(scene', model'.current, ~drifted')
      BY <2>1 DEF IInv
    <2>5. ShowsNodes'
      BY <2>1 DEF IInv, ShowsNodes, Previewing, DragShown, ResizeShown
    <2> QED
      BY <2>2, <2>3, <2>4, <2>5 DEF IInv
  <1> QED
    BY <1>1, <1>2, <1>3, <1>4, <1>5, <1>6, <1>7, <1>8, <1>9, <1>10 DEF Next

\* Every reachable canvas has documents that are sound in every version, wires in
\* hand that are where they were taken, and a scene that shows what the gesture in
\* flight previews over the document, or says that it drifted.
THEOREM CanvasInvariant == Spec => []IInv
  <1>1. Init => IInv
    BY InitInv
  <1>2. IInv /\ [Next]_vars => IInv'
    BY NextInv
  <1> QED
    BY <1>1, <1>2, PTL DEF Spec

LEMMA InvShows ==
  ASSUME IInv
  PROVE  SceneShowsDocument
  <1> DEFINE bp == model.current
             shown == Rebuilt(bp)
             Joined(s) == [id \in DOMAIN s.wires |-> <<s.wires[id].source, s.wires[id].target>>]
             I == {w.id : w \in {w \in Range(bp.wires) : Attached(bp, w)}}
  <1>1. /\ bp \in Document /\ Numbered(bp, next_wire_id) /\ TRUE \in BOOLEAN
        /\ ShowsWires(scene, bp, ~drifted) /\ DOMAIN scene.nodes = DOMAIN bp.nodes
        /\ ~Previewing /\ ~drifted => scene.nodes = bp.nodes
    BY AtRest
  <1>2. /\ shown.nodes = bp.nodes /\ DOMAIN shown.wires = I
        /\ \A w \in Range(bp.wires) : Attached(bp, w) => shown.wires[w.id] = WireWidget(w)
        /\ shown \in Scene
    BY <1>1, RebuiltFacts
  <1>3. /\ scene.wires \in [DOMAIN scene.wires -> Widget]
        /\ shown.wires \in [DOMAIN shown.wires -> Widget]
    BY <1>2, AtRest, SceneFacts
  <1> HIDE DEF shown
  <1>4. DOMAIN scene.wires = I
    BY <1>1 DEF ShowsWires
  <1>5. \A w : /\ WireWidget(w).source = w.source /\ WireWidget(w).target = w.target
               /\ WireWidget(w).points = w.points
    BY DEF WireWidget
  <1>6. ASSUME NEW id \in I
        PROVE  /\ scene.wires[id].source = shown.wires[id].source
               /\ scene.wires[id].target = shown.wires[id].target
               /\ ~drifted => scene.wires[id].points = shown.wires[id].points
    <2>1. PICK w \in Range(bp.wires) : w.id = id /\ Attached(bp, w)
      OBVIOUS
    <2> QED
      BY <1>1, <1>2, <1>5, <2>1 DEF ShowsWires
  <1>7. Joined(scene) = Joined(shown)
    <2> HIDE DEF I
    <2> QED
      BY <1>2, <1>4, <1>6
  <1>8. ASSUME ~drifted PROVE scene.wires = shown.wires
    <2> HIDE DEF I
    <2>1. \A id \in I : scene.wires[id] \in Widget /\ shown.wires[id] \in Widget
      BY <1>2, <1>3, <1>4
    <2>2. \A x, y \in Widget : x.source = y.source /\ x.target = y.target /\ x.points = y.points
                                 => x = y
      BY DEF Widget
    <2>3. \A id \in I : scene.wires[id] = shown.wires[id]
      BY <1>6, <1>8, <2>1, <2>2
    <2> QED
      BY <1>2, <1>3, <1>4, <2>3
  <1> QED
    BY <1>1, <1>2, <1>7, <1>8 DEF SceneShowsDocument, shown

\* The canvas shows the nodes and the wires of the document at all times, and
\* everything where it is when no preview is shown and none was left.
THEOREM CanvasShowsDocument == Spec => []SceneShowsDocument
  BY CanvasInvariant, InvShows, PTL

LEMMA InvFits ==
  ASSUME IInv
  PROVE  WiresFit
  <1> SUFFICES ASSUME ~crossed, NEW w \in Range(model.current.wires)
               PROVE  /\ \A v \in Range(model.current.wires) : v.id = w.id => v = w
                      /\ Joins(model.current, w)
    BY DEF WiresFit
  <1>1. Numbered(model.current, next_wire_id) /\ Fits(model.current)
    BY AtRest
  <1>2. \A v \in Range(model.current.wires) : v.id = w.id => v = w
    BY <1>1 DEF Numbered, Range
  <1>3. Joins(model.current, w)
    BY <1>1 DEF Fits, Range
  <1> QED
    BY <1>2, <1>3

\* However wires are drawn, moved, reordered and undone, each has a number of its
\* own and joins two ports of nodes that exist, of directions and types that agree,
\* unless nodes were deleted with a wire in hand.
THEOREM WiresAlwaysFit == Spec => []WiresFit
  BY CanvasInvariant, InvFits, PTL

-----------------------------------------------------------------------------
(* A step.                                                                 *)

\* An edit of the wire in hand leaves the others.
LEMMA OthersStay ==
  ASSUME NEW old \in Document, NEW new, NEW k, WireEdit(old, new, k, gesture.wire)
  PROVE  Others(new) = Others(old)
  <1>1. \A w \in Range(old.wires) \cup Range(new.wires) : w \in Wire
    BY WireFacts DEF WireEdit, Range
  <1> QED
    BY <1>1 DEF Others, WireEdit

LEMMA ReconnectStep ==
  ASSUME IInv, MouseUp, gesture.state = "ReconnectingWire", ~crossed
  PROVE  Others(model'.current) = Others(model.current)
  <1> DEFINE bp == model.current
             i == gesture.index
             w == bp.wires[i]
  <1>1. ReleaseReconnected
    BY DEF MouseUp, ReleaseDrag, ReleasePoint, ReleaseResize, ReleaseMarquee,
           ReleaseNothing, ReleaseNewWire
  <1>2. PICK hit \in HitPorts \cup {NoHit} : ReleaseReconnect(hit)
    BY <1>1 DEF ReleaseReconnected
  <1>3. \/ Edit(model, scene, Idle, selection)
        \/ DropWire
        \/ hit # NoHit /\ ReconnectToAlias(hit)
        \/ hit # NoHit /\ ReconnectToPort(hit)
    BY <1>2 DEF ReleaseReconnect
  <1>4. i \in DOMAIN bp.wires /\ w.id = gesture.wire
    BY DEF IInv, InHand
  <1>5. bp \in Document /\ Numbered(bp, next_wire_id)
    BY AtRest
  <1>6. \A new \in Document : /\ Command(model, new).current = new
                              /\ Atomically(model, new).current = new
    BY AtRest, Growing
  <1>7. CASE Edit(model, scene, Idle, selection)
    BY <1>7 DEF Edit
  <1>8. CASE DropWire
    <2> DEFINE new == RemoveWireAt(bp, i)
    <2>1. WireEdit(bp, new, next_wire_id, gesture.wire)
      BY <1>4, <1>5, Removed
    <2>2. model' = Command(model, new)
      BY <1>8 DEF DropWire, Edit
    <2>3. new \in Document
      BY <2>1 DEF WireEdit
    <2> HIDE DEF new
    <2>4. model'.current = new
      BY <1>6, <2>2, <2>3
    <2> QED
      BY <1>5, <2>1, <2>4, OthersStay
  <1>9. CASE hit # NoHit /\ ReconnectToAlias(hit)
    <2> DEFINE other == FindWire(bp, hit.port)
               new == [bp EXCEPT !.wires = Reordered(@, i, other)]
    <2>1. \/ other = 0 /\ DropWire
          \/ Edit(model, scene, Idle, selection)
          \/ other # 0 /\ model' = Atomically(model, new)
      BY <1>9 DEF ReconnectToAlias, Edit
    <2>2. CASE other # 0 /\ model' = Atomically(model, new)
      <3>1. other \in DOMAIN bp.wires
        BY <1>5, <2>2, FindWireFacts DEF Document
      <3> HIDE DEF other
      <3>2. new \in Document /\ Range(new.wires) = Range(bp.wires)
        BY <1>4, <1>5, <3>1, Swapped
      <3> HIDE DEF new
      <3>3. model'.current = new
        BY <1>6, <2>2, <3>2
      <3> QED
        BY <3>2, <3>3 DEF Others
    <2> QED
      BY <1>7, <1>8, <2>1, <2>2
  <1>10. CASE hit # NoHit /\ ReconnectToPort(hit)
    <2> DEFINE wire == IF gesture.detach_start THEN [w EXCEPT !.source = Canonical(hit)]
                                               ELSE [w EXCEPT !.target = Canonical(hit)]
               new == [bp EXCEPT !.wires[i] = wire]
    <2>1. \/ Edit(model, scene, Idle, selection)
          \/ model' = Command(model, new)
      BY <1>10 DEF ReconnectToPort, Edit
    <2>2. CASE model' = Command(model, new)
      <3>1. w \in Wire
        BY <1>4, <1>5, WireFacts
      <3>2. wire \in Wire /\ wire.id = w.id
        <4>1. hit \in HitPorts
          BY <1>10
        <4>2. Canonical(hit) \in EndOf
          BY <4>1, HitFacts, CanonicalFacts
        <4> HIDE DEF w
        <4> QED
          BY <3>1, <4>2 DEF Wire
      <3> HIDE DEF wire
      <3>3. WireEdit(bp, new, next_wire_id, gesture.wire)
        <4>1. WireEdit(bp, new, next_wire_id, wire.id)
          BY <1>4, <1>5, <3>2, Replaced
        <4> HIDE DEF new
        <4> QED
          BY <1>4, <3>2, <4>1
      <3>4. new \in Document
        BY <3>3 DEF WireEdit
      <3> HIDE DEF new
      <3>5. model'.current = new
        BY <1>6, <2>2, <3>4
      <3> QED
        BY <1>5, <3>3, <3>5, OthersStay
    <2> QED
      BY <1>7, <2>1, <2>2
  <1> QED
    BY <1>3, <1>7, <1>8, <1>9, <1>10

\* Letting go of a wire changes no other wire: they may only change places.
THEOREM ReconnectLeavesOthers == Spec => ReconnectKeepsOthers
  <1>1. IInv /\ [Next]_vars =>
          [MouseUp /\ gesture.state = "ReconnectingWire" /\ ~crossed =>
             Others(model'.current) = Others(model.current)]_vars
    BY ReconnectStep
  <1> QED
    BY <1>1, CanvasInvariant, PTL DEF Spec, ReconnectKeepsOthers
=============================================================================
