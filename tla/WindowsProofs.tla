---------------------------- MODULE WindowsProofs ----------------------------
(***************************************************************************)
(* Theorems about Windows for every library, every set of documents and    *)
(* every number of windows: no window is left without its blueprint, every *)
(* window shows its blueprint as it is, and none stays in simulation mode. *)
(*                                                                         *)
(* First trees and sheets, then the operations on the list of windows,     *)
(* last the handlers.                                                      *)
(***************************************************************************)
EXTENDS Windows, Iteration, SequenceTheorems, TLAPS

-----------------------------------------------------------------------------
(* Types.                                                                  *)

Trees  == UNION {[D -> Node] : D \in SUBSET Path}
Scenes == UNION {[D -> Node] : D \in SUBSET NodeId}
Docs   == [current : Trees, undo : Seq(Trees), redo : Seq(Trees)]

Scope == [mode : {"root"}, path : {<<>>}]
         \cup [mode : {"embedded", "external"}, path : Seq(NodeId) \ {<<>>}]

\* Read-only windows are those of the library, and these have a file.
Window ==
  {w \in [scope : Scope, open : BOOLEAN, read_only : BOOLEAN, simulating : BOOLEAN,
          file : BlueprintId \cup {NoFile}, scene : Scenes] :
     /\ w.read_only <=> w.scope.mode = "external"
     /\ w.scope.mode = "external" => w.file \in BlueprintId}

-----------------------------------------------------------------------------
(* Paths.                                                                  *)

\* Paths are sequences of node ids and not empty.
LEMMA PathsAreSequences == Path \subseteq Seq(NodeId) \ {<<>>}
  <1> SUFFICES ASSUME NEW k \in 1 .. Depth, NEW p \in [1 .. k -> NodeId]
               PROVE  p \in Seq(NodeId) /\ p # <<>>
    BY DEF Path
  <1>1. k \in Nat /\ k >= 1
    BY WindowsAssumption
  <1>2. p \in Seq(NodeId) /\ Len(p) = k
    BY <1>1
  <1> QED
    BY <1>1, <1>2

\* Front and Last take apart what Append made; its prefixes are those of the
\* path and itself.
LEMMA PathAppendFacts ==
  ASSUME NEW s \in Seq(NodeId), NEW n \in NodeId
  PROVE  LET p == Append(s, n)
         IN  /\ p \in Seq(NodeId) /\ p # <<>> /\ Len(p) = Len(s) + 1
             /\ Front(p) = s /\ Last(p) = n
             /\ \A k \in 1 .. Len(s) : SubSeq(p, 1, k) = SubSeq(s, 1, k)
             /\ SubSeq(p, 1, Len(p)) = p
             /\ \A q \in Seq(NodeId), m \in NodeId : Append(q, m) = p => q = s /\ m = n
  <1> DEFINE p == Append(s, n)
  <1>1. /\ p \in Seq(NodeId) /\ p # <<>> /\ Len(p) = Len(s) + 1
        /\ \A i \in 1 .. Len(s) : p[i] = s[i]
        /\ p[Len(s) + 1] = n /\ Len(s) \in Nat
    OBVIOUS
  <1> HIDE DEF p
  <1>2. ASSUME NEW k \in 0 .. Len(s)
        PROVE  SubSeq(p, 1, k) = SubSeq(s, 1, k)
    <2>1. SubSeq(p, 1, k) = [i \in 1 .. k |-> p[i]]
      BY <1>1
    <2>2. SubSeq(s, 1, k) = [i \in 1 .. k |-> s[i]]
      BY <1>1
    <2>3. \A i \in 1 .. k : p[i] = s[i]
      BY <1>1
    <2> QED
      BY <2>1, <2>2, <2>3
  <1>3. SubSeq(p, 1, Len(p)) = p
    BY <1>1
  <1>4. SubSeq(s, 1, Len(s)) = s
    BY <1>1
  <1>5. Front(p) = s
    <2>1. Len(p) - 1 = Len(s) /\ Len(s) \in 0 .. Len(s)
      BY <1>1
    <2> QED
      BY <1>2, <1>4, <2>1 DEF Front
  <1>6. Last(p) = n
    BY <1>1 DEF Last
  <1>7. ASSUME NEW q \in Seq(NodeId), NEW m \in NodeId, Append(q, m) = p
        PROVE  q = s /\ m = n
    BY <1>7, AppendInjective DEF p
  <1> QED
    BY <1>1, <1>2, <1>3, <1>5, <1>6, <1>7 DEF p

\* The items of two sequences one after the other.
LEMMA ConcatAt ==
  ASSUME NEW s \in Seq(NodeId), NEW r \in Seq(NodeId)
  PROVE  /\ s \o r \in Seq(NodeId) /\ Len(s \o r) = Len(s) + Len(r)
         /\ \A i \in 1 .. Len(s) : (s \o r)[i] = s[i]
         /\ \A i \in 1 .. Len(r) : (s \o r)[Len(s) + i] = r[i]
  <1>1. /\ s \o r \in Seq(NodeId) /\ Len(s \o r) = Len(s) + Len(r)
        /\ \A i \in 1 .. Len(s) + Len(r) :
             (s \o r)[i] = IF i <= Len(s) THEN s[i] ELSE r[i - Len(s)]
    BY ConcatProperties
  <1>2. Len(s) \in Nat /\ Len(r) \in Nat
    OBVIOUS
  <1>3. \A a, b \in Nat :
          /\ \A i \in 1 .. a : i \in 1 .. a + b /\ i <= a
          /\ \A i \in 1 .. b : a + i \in 1 .. a + b /\ ~(a + i <= a) /\ (a + i) - a = i
    OBVIOUS
  <1> QED
    BY <1>1, <1>2, <1>3

\* The prefixes of a path that is not empty: those of its front, and itself.
LEMMA FrontFacts ==
  ASSUME NEW p \in Seq(NodeId), p # <<>>
  PROVE  /\ Front(p) \in Seq(NodeId) /\ Last(p) \in NodeId
         /\ p = Append(Front(p), Last(p)) /\ Len(Front(p)) = Len(p) - 1
         /\ Len(p) \in Nat \ {0}
  <1> DEFINE k == Len(p) - 1
  <1>1. k \in Nat /\ Len(p) = k + 1 /\ \A i \in 1 .. Len(p) : p[i] \in NodeId
    OBVIOUS
  <1> HIDE DEF k
  <1>2. /\ SubSeq(p, 1, k) = [i \in 1 .. k |-> p[i]]
        /\ SubSeq(p, 1, k) \in Seq(NodeId) /\ Len(SubSeq(p, 1, k)) = k
    BY <1>1
  <1>3. p[Len(p)] \in NodeId
    BY <1>1
  <1>4. p = Append(SubSeq(p, 1, k), p[Len(p)])
    <2> DEFINE q == Append(SubSeq(p, 1, k), p[Len(p)])
    <2>1. /\ q \in Seq(NodeId) /\ Len(q) = k + 1 /\ q[k + 1] = p[Len(p)]
          /\ \A i \in 1 .. k : q[i] = p[i]
      BY <1>1, <1>2, <1>3
    <2> HIDE DEF q
    <2>2. \A i \in 1 .. Len(p) : p[i] = q[i]
      BY <1>1, <2>1
    <2>3. p = q
      BY <1>1, <2>1, <2>2, SeqEqual
    <2> QED
      BY <2>3 DEF q
  <1> QED
    BY <1>1, <1>2, <1>3, <1>4 DEF Front, Last, k

\* embedded_path_exists, one segment at a time.
LEMMA ExistsStep ==
  ASSUME NEW t \in Trees, NEW s \in Seq(NodeId), NEW n \in NodeId
  PROVE  /\ Exists(t, <<>>)
         /\ Exists(t, Append(s, n)) <=>
              /\ Exists(t, s)
              /\ Append(s, n) \in DOMAIN t /\ t[Append(s, n)].kind = "embedded"
  <1> DEFINE p == Append(s, n)
             Ok(q) == q \in DOMAIN t /\ t[q].kind = "embedded"
  <1>1. /\ Len(s) \in Nat /\ Len(p) = Len(s) + 1
        /\ \A k \in 1 .. Len(s) : SubSeq(p, 1, k) = SubSeq(s, 1, k)
        /\ SubSeq(p, 1, Len(p)) = p
    BY PathAppendFacts
  <1> HIDE DEF p, Ok
  <1>2. Exists(t, p) <=> \A k \in 1 .. Len(p) : Ok(SubSeq(p, 1, k))
    BY DEF Exists, Ok
  <1>3. Exists(t, s) <=> \A k \in 1 .. Len(s) : Ok(SubSeq(s, 1, k))
    BY DEF Exists, Ok
  <1>4. (\A k \in 1 .. Len(p) : Ok(SubSeq(p, 1, k)))
          <=> (\A k \in 1 .. Len(s) : Ok(SubSeq(s, 1, k))) /\ Ok(p)
    <2>1. \A k \in 1 .. Len(p) : k \in 1 .. Len(s) \/ k = Len(p)
      BY <1>1
    <2>2. 1 .. Len(s) \subseteq 1 .. Len(p) /\ Len(p) \in 1 .. Len(p)
      BY <1>1
    <2> QED
      BY <1>1, <2>1, <2>2
  <1>5. Exists(t, <<>>)
    BY DEF Exists
  <1> QED
    BY <1>2, <1>3, <1>4, <1>5 DEF Ok, p

-----------------------------------------------------------------------------
(* Trees and their sheets.                                                 *)

\* A tree is a function from paths to nodes; those given by the constants are.
LEMMA TreeFacts ==
  /\ \A t \in Trees : DOMAIN t \subseteq Path /\ \A p \in DOMAIN t : t[p] \in Node
  /\ \A t : t \in Trees <=> IsTree(t)
  /\ \A b \in BlueprintId : Library[b] \in Trees
  /\ Files \subseteq Trees
  <1>1. \A t : t \in Trees <=> IsTree(t)
    BY DEF Trees, IsTree
  <1> QED
    BY <1>1, WindowsAssumption DEF IsTree

\* A function defined on paths with nodes as values is a tree.
LEMMA MakeTree ==
  ASSUME NEW D, D \subseteq Path, NEW f \in [D -> Node]
  PROVE  f \in Trees
  BY DEF Trees

\* What a sheet is.
LEMMA SheetFacts ==
  ASSUME NEW t \in Trees, NEW path \in Seq(NodeId)
  PROVE  /\ Sheet(t, path) \in Scenes
         /\ DOMAIN Sheet(t, path) = {n \in NodeId : Append(path, n) \in DOMAIN t}
         /\ \A n \in DOMAIN Sheet(t, path) :
              /\ Sheet(t, path)[n] = t[Append(path, n)]
              /\ Sheet(t, path)[n] \in Node
  <1> DEFINE D == {n \in NodeId : Append(path, n) \in DOMAIN t}
  <1>1. Sheet(t, path) = [n \in D |-> t[Append(path, n)]]
    BY DEF Sheet
  <1>2. \A n \in D : t[Append(path, n)] \in Node
    BY TreeFacts
  <1>3. D \in SUBSET NodeId
    OBVIOUS
  <1> HIDE DEF D
  <1>4. Sheet(t, path) \in [D -> Node]
    BY <1>1, <1>2
  <1>5. Sheet(t, path) \in Scenes
    BY <1>3, <1>4 DEF Scenes
  <1> QED
    BY <1>1, <1>2, <1>5 DEF D

\* Trees that agree on the nodes of a sheet have the same sheet.
LEMMA SameSheet ==
  ASSUME NEW t \in Trees, NEW u \in Trees, NEW path \in Seq(NodeId),
         \A n \in NodeId : /\ Append(path, n) \in DOMAIN u <=> Append(path, n) \in DOMAIN t
                           /\ Append(path, n) \in DOMAIN t =>
                                u[Append(path, n)] = t[Append(path, n)]
  PROVE  Sheet(u, path) = Sheet(t, path)
  <1> DEFINE D == {n \in NodeId : Append(path, n) \in DOMAIN t}
             E == {n \in NodeId : Append(path, n) \in DOMAIN u}
  <1>1. D = E
    OBVIOUS
  <1>2. \A n \in D : u[Append(path, n)] = t[Append(path, n)]
    OBVIOUS
  <1>3. /\ Sheet(t, path) = [n \in D |-> t[Append(path, n)]]
        /\ Sheet(u, path) = [n \in E |-> u[Append(path, n)]]
    BY DEF Sheet
  <1> HIDE DEF D, E
  <1> QED
    BY <1>1, <1>2, <1>3

\* A node put into a tree, and a node taken out with everything below it.
LEMMA EditFacts ==
  ASSUME NEW t \in Trees, NEW p \in Seq(NodeId)
  PROVE  /\ \A node \in Node : p \in Path => With(t, p, node) \in Trees
         /\ \A node : /\ DOMAIN With(t, p, node) = DOMAIN t \cup {p}
                      /\ With(t, p, node)[p] = node
                      /\ \A q \in DOMAIN t \ {p} : With(t, p, node)[q] = t[q]
         /\ Without(t, p) \in Trees
         /\ DOMAIN Without(t, p) = {q \in DOMAIN t : ~IsPrefix(p, q)}
         /\ \A q \in DOMAIN Without(t, p) : Without(t, p)[q] = t[q]
  <1>1. /\ DOMAIN t \subseteq Path /\ \A q \in DOMAIN t : t[q] \in Node
    BY TreeFacts
  <1>2. ASSUME NEW node
        PROVE  /\ With(t, p, node) = [q \in DOMAIN t \cup {p} |-> IF q = p THEN node ELSE t[q]]
               /\ DOMAIN With(t, p, node) = DOMAIN t \cup {p}
               /\ With(t, p, node)[p] = node
               /\ \A q \in DOMAIN t \ {p} : With(t, p, node)[q] = t[q]
    BY DEF With
  <1>3. ASSUME NEW node \in Node, p \in Path
        PROVE  With(t, p, node) \in Trees
    <2>1. With(t, p, node) \in [DOMAIN t \cup {p} -> Node]
      BY <1>1, <1>2
    <2> QED
      BY <1>1, <1>3, <2>1, MakeTree
  <1>4. Without(t, p) = [q \in {q \in DOMAIN t : ~IsPrefix(p, q)} |-> t[q]]
    BY DEF Without
  <1>5. Without(t, p) \in [{q \in DOMAIN t : ~IsPrefix(p, q)} -> Node]
    BY <1>1, <1>4
  <1>6. Without(t, p) \in Trees
    BY <1>1, <1>5, MakeTree
  <1> QED
    BY <1>2, <1>3, <1>4, <1>6

\* An embedded copy of a library blueprint, when it fits.
LEMMA CopyType ==
  ASSUME NEW t \in Trees, NEW path \in Seq(NodeId), NEW b \in BlueprintId,
         Fits(WithCopy(t, path, b))
  PROVE  WithCopy(t, path, b) \in Trees
  <1> DEFINE held == {path \o p : p \in DOMAIN Library[b]}
             Inner(q) == SubSeq(q, Len(path) + 1, Len(q))
             D == DOMAIN t \cup {path} \cup held
             copy == [p \in D |->
                        IF p = path THEN [kind |-> "embedded", data |-> "loose"]
                        ELSE IF p \in held THEN Library[b][Inner(p)] ELSE t[p]]
  <1>1. WithCopy(t, path, b) = copy
    BY DEF WithCopy
  <1>2. Library[b] \in Trees /\ DOMAIN Library[b] \subseteq Seq(NodeId)
    BY TreeFacts, PathsAreSequences
  <1>3. ASSUME NEW q \in held
        PROVE  Library[b][Inner(q)] \in Node
    <2>1. PICK p \in DOMAIN Library[b] : q = path \o p
      OBVIOUS
    <2>2. p \in Seq(NodeId)
      BY <1>2
    <2>3. Inner(q) = p
      BY <2>1, <2>2, SubSeqOfConcat2
    <2> QED
      BY <1>2, <2>3, TreeFacts
  <1>4. [kind |-> "embedded", data |-> "loose"] \in Node
    BY DEF Node, Embedded
  <1>5. \A p \in DOMAIN t : t[p] \in Node
    BY TreeFacts
  <1>6. copy \in [D -> Node]
    <2> SUFFICES ASSUME NEW p \in D
                 PROVE  (IF p = path THEN [kind |-> "embedded", data |-> "loose"]
                         ELSE IF p \in held THEN Library[b][Inner(p)] ELSE t[p]) \in Node
      OBVIOUS
    <2> HIDE DEF held, Inner
    <2> QED
      BY <1>3, <1>4, <1>5
  <1>7. DOMAIN copy = D
    OBVIOUS
  <1>8. D \subseteq Path
    BY <1>1, <1>7 DEF Fits
  <1> HIDE DEF D, copy
  <1> QED
    BY <1>1, <1>6, <1>8, MakeTree

\* A subtree moved into a new blueprint beside it, when it fits.
LEMMA ExtractedType ==
  ASSUME NEW t \in Trees, NEW path \in Seq(NodeId), NEW n \in NodeId, NEW host \in NodeId,
         Fits(Extracted(t, path, n, host))
  PROVE  Extracted(t, path, n, host) \in Trees
  <1> DEFINE from == Append(path, n)
             to == Append(path, host)
             L == Len(path) + 1
             Old(q) == from \o SubSeq(q, Len(to) + 2, Len(q))
             New(q) == to \o SubSeq(q, Len(to), Len(q))
             moved == {New(q) : q \in {q \in DOMAIN t : IsPrefix(from, q)}}
             rest == Without(t, from)
             D == DOMAIN rest \cup {to} \cup moved
             u == [q \in D |->
                     IF q = to THEN [kind |-> "embedded", data |-> "loose"]
                     ELSE IF q \in moved THEN t[Old(q)] ELSE rest[q]]
  <1>1. Extracted(t, path, n, host) = u
    BY DEF Extracted
  <1>2. /\ from \in Seq(NodeId) /\ to \in Seq(NodeId) /\ Len(from) = L /\ Len(to) = L
        /\ L \in Nat \ {0}
    OBVIOUS
  <1>3. ASSUME NEW q0 \in DOMAIN t, IsPrefix(from, q0)
        PROVE  Old(New(q0)) = q0
    <2> DEFINE q == New(q0)
               v == SubSeq(q, L + 2, Len(q))
               w == from \o v
               N == Len(q0)
               s == SubSeq(q0, L, N)
    <2> HIDE DEF from, to, L
    <2>1. q0 \in Seq(NodeId)
      BY TreeFacts, PathsAreSequences
    <2>2. N \in Nat /\ L <= N /\ \A i \in 1 .. L : from[i] = q0[i]
      <3>1. L <= N /\ SubSeq(from, 1, L) = SubSeq(q0, 1, L) /\ N \in Nat
        BY <1>2, <1>3, <2>1 DEF IsPrefix
      <3>2. \A i \in 1 .. L : SubSeq(from, 1, L)[i] = from[i]
        BY <1>2
      <3>3. \A i \in 1 .. L : SubSeq(q0, 1, L)[i] = q0[i]
        BY <1>2, <3>1, <2>1
      <3> QED
        BY <3>1, <3>2, <3>3
    <2>3. /\ s \in Seq(NodeId) /\ Len(s) = N - L + 1
          /\ \A i \in 1 .. N - L + 1 : s[i] = q0[L + i - 1]
      BY <1>2, <2>1, <2>2
    <2>4. q = to \o s
      BY <1>2
    <2> HIDE DEF s, q, N
    <2>5. /\ q \in Seq(NodeId) /\ Len(q) = N + 1
          /\ \A i \in 1 .. N - L + 1 : q[L + i] = s[i]
      <3>1. /\ q \in Seq(NodeId) /\ Len(q) = L + Len(s)
            /\ \A i \in 1 .. Len(s) : q[L + i] = s[i]
        <4>1. /\ to \o s \in Seq(NodeId) /\ Len(to \o s) = Len(to) + Len(s)
              /\ \A i \in 1 .. Len(s) : (to \o s)[Len(to) + i] = s[i]
          BY <1>2, <2>3, ConcatAt, Zenon
        <4>2. Len(to) = L
          BY <1>2
        <4> QED
          BY <2>4, <4>1, <4>2, Zenon
      <3>2. \A a, b \in Nat : b <= a => b + (a - b + 1) = a + 1
        OBVIOUS
      <3> QED
        BY <1>2, <2>2, <2>3, <3>1, <3>2
    <2>6. /\ v \in Seq(NodeId) /\ Len(v) = N - L
          /\ \A i \in 1 .. N - L : v[i] = q[L + i + 1]
      <3>1. v = SubSeq(q, L + 2, N + 1)
        BY <2>5
      <3>2. L + 2 \in Nat \ {0} /\ N + 1 \in Nat /\ (N + 1) - (L + 2) + 1 = N - L
        BY <1>2, <2>2
      <3>3. \A i \in L + 2 .. N + 1 : q[i] \in NodeId
        <4>1. \A a, b \in Nat : \A i \in b + 2 .. a + 1 : i \in 1 .. a + 1
          OBVIOUS
        <4> QED
          BY <1>2, <2>2, <2>5, <4>1, ElementOfSeq
      <3>4. /\ v \in Seq(NodeId)
            /\ Len(v) = IF L + 2 <= N + 1 THEN (N + 1) - (L + 2) + 1 ELSE 0
            /\ \A i \in 1 .. (N + 1) - (L + 2) + 1 : v[i] = q[(L + 2) + i - 1]
        <4>1. L + 2 \in Int /\ N + 1 \in Int
          BY <1>2, <2>2
        <4> HIDE DEF v
        <4> QED
          BY <3>1, <3>3, <4>1, SubSeqProperties
      <3>5. \A a, b \in Nat :
              b <= a => /\ (a + 1) - (b + 2) + 1 = a - b
                        /\ b + 2 <= a + 1 \/ a - b = 0
                        /\ \A i \in 1 .. a - b : (b + 2) + i - 1 = b + i + 1
        OBVIOUS
      <3> HIDE DEF v
      <3> QED
        BY <1>2, <2>2, <3>4, <3>5
    <2>7. \A i \in 1 .. N - L : v[i] = q0[L + i]
      <3> TAKE i \in 1 .. N - L
      <3>1. /\ i + 1 \in 1 .. N - L + 1 /\ L + i + 1 = L + (i + 1)
            /\ L + (i + 1) - 1 = L + i
        BY <1>2, <2>2
      <3> QED
        BY <2>3, <2>5, <2>6, <3>1
    <2> HIDE DEF v
    <2>8. /\ w \in Seq(NodeId) /\ Len(w) = N
          /\ \A i \in 1 .. L : w[i] = from[i]
          /\ \A i \in 1 .. N - L : w[L + i] = v[i]
      <3>1. \A a, b \in Nat : b <= a => b + (a - b) = a
        OBVIOUS
      <3>2. /\ from \o v \in Seq(NodeId) /\ Len(from \o v) = Len(from) + Len(v)
            /\ \A i \in 1 .. Len(from) : (from \o v)[i] = from[i]
            /\ \A i \in 1 .. Len(v) : (from \o v)[Len(from) + i] = v[i]
        BY <1>2, <2>6, ConcatAt, Zenon
      <3>3. Len(from) = L /\ Len(v) = N - L /\ L + (N - L) = N
        BY <1>2, <2>2, <2>6, <3>1
      <3> QED
        BY <3>2, <3>3, Zenon
    <2> HIDE DEF w
    <2>9. \A i \in 1 .. N : w[i] = q0[i]
      <3> TAKE i \in 1 .. N
      <3>1. CASE i \in 1 .. L
        BY <2>2, <2>8, <3>1
      <3>2. CASE i \notin 1 .. L
        <4>1. i - L \in 1 .. N - L /\ L + (i - L) = i
          BY <1>2, <2>2, <3>2
        <4> QED
          BY <2>7, <2>8, <4>1
      <3> QED
        BY <3>1, <3>2
    <2>10. w = q0
      BY <2>1, <2>8, <2>9, SeqEqual DEF N
    <2> QED
      BY <1>2, <2>10 DEF w, v, q
  <1>4. \A q \in moved : t[Old(q)] \in Node
    <2> HIDE DEF Old, New, from
    <2> QED
      BY <1>3, TreeFacts
  <1>5. \A q \in DOMAIN rest : rest[q] \in Node
    BY <1>2, EditFacts, TreeFacts
  <1>6. [kind |-> "embedded", data |-> "loose"] \in Node
    BY DEF Node, Embedded
  <1>7. u \in [D -> Node]
    <2> SUFFICES ASSUME NEW q \in D
                 PROVE  (IF q = to THEN [kind |-> "embedded", data |-> "loose"]
                         ELSE IF q \in moved THEN t[Old(q)] ELSE rest[q]) \in Node
      OBVIOUS
    <2> HIDE DEF moved, Old, rest, to
    <2> QED
      BY <1>4, <1>5, <1>6
  <1>8. DOMAIN u = D
    OBVIOUS
  <1>9. D \subseteq Path
    BY <1>1, <1>8 DEF Fits
  <1> HIDE DEF D, u
  <1> QED
    BY <1>1, <1>7, <1>9, MakeTree

-----------------------------------------------------------------------------
(* What an edit leaves of the other sheets.                                *)

\* A node changed in place: only the sheet it is on differs.
LEMMA WithLeavesOthers ==
  ASSUME NEW t \in Trees, NEW path \in Seq(NodeId), NEW n \in NodeId, NEW node \in Node,
         Append(path, n) \in Path, NEW q \in Seq(NodeId), q # path
  PROVE  Sheet(With(t, Append(path, n), node), q) = Sheet(t, q)
  <1> DEFINE p == Append(path, n)
             u == With(t, p, node)
  <1>1. \A m \in NodeId : Append(q, m) # p
    BY PathAppendFacts
  <1>2. p \in Seq(NodeId)
    OBVIOUS
  <1>3. /\ u \in Trees /\ DOMAIN u = DOMAIN t \cup {p}
        /\ \A r \in DOMAIN t \ {p} : u[r] = t[r]
    <2>1. p \in Path
      OBVIOUS
    <2>2. u \in Trees
      <3> HIDE DEF p
      <3> QED
        BY <1>2, <2>1, EditFacts
    <2>3. DOMAIN u = DOMAIN t \cup {p} /\ \A r \in DOMAIN t \ {p} : u[r] = t[r]
      <3> HIDE DEF p
      <3> QED
        BY DEF With
    <2> QED
      BY <2>2, <2>3
  <1> HIDE DEF p, u
  <1>4. \A m \in NodeId : /\ Append(q, m) \in DOMAIN u <=> Append(q, m) \in DOMAIN t
                          /\ Append(q, m) \in DOMAIN t => u[Append(q, m)] = t[Append(q, m)]
    BY <1>1, <1>3
  <1> QED
    BY <1>3, <1>4, SameSheet DEF u, p

\* A node deleted: of the blueprints that are left only its own differs.
LEMMA WithoutLeavesOthers ==
  ASSUME NEW t \in Trees, NEW path \in Seq(NodeId), NEW n \in NodeId,
         NEW q \in Seq(NodeId), q # path, Exists(Without(t, Append(path, n)), q)
  PROVE  Sheet(Without(t, Append(path, n)), q) = Sheet(t, q)
  <1> DEFINE p == Append(path, n)
             u == Without(t, p)
  <1>1. /\ p \in Seq(NodeId) /\ Len(p) \in Nat \ {0} /\ SubSeq(p, 1, Len(p)) = p
        /\ \A m \in NodeId : Append(q, m) # p
    <2>1. \A m \in NodeId : Append(q, m) # p
      BY PathAppendFacts
    <2>2. /\ p \in Seq(NodeId) /\ Len(p) = Len(path) + 1 /\ SubSeq(p, 1, Len(p)) = p
          /\ Len(path) \in Nat
      BY PathAppendFacts
    <2>3. Len(p) \in Nat \ {0}
      <3> HIDE DEF p
      <3> QED
        BY <2>2
    <2> QED
      BY <2>1, <2>2, <2>3
  <1>2. /\ u \in Trees /\ DOMAIN u = {r \in DOMAIN t : ~IsPrefix(p, r)}
        /\ \A r \in DOMAIN u : u[r] = t[r]
    BY <1>1, EditFacts
  <1>3. \A k \in 1 .. Len(q) : SubSeq(q, 1, k) \in DOMAIN u
    BY DEF Exists
  <1> HIDE DEF p, u
  <1>4. IsPrefix(p, p)
    <2>1. \A k \in Nat : k <= k
      OBVIOUS
    <2> QED
      BY <1>1, <2>1, Zenon DEF IsPrefix
  <1>5. ASSUME NEW m \in NodeId
        PROVE  ~IsPrefix(p, Append(q, m))
    <2> SUFFICES ASSUME IsPrefix(p, Append(q, m)) PROVE FALSE
      OBVIOUS
    <2> DEFINE r == Append(q, m)
    <2>1. /\ r \in Seq(NodeId) /\ Len(r) = Len(q) + 1 /\ SubSeq(r, 1, Len(r)) = r
          /\ \A k \in 1 .. Len(q) : SubSeq(r, 1, k) = SubSeq(q, 1, k)
          /\ Len(q) \in Nat
      BY PathAppendFacts
    <2> HIDE DEF r
    <2>2. Len(p) <= Len(r) /\ p = SubSeq(r, 1, Len(p))
      BY <1>1, <1>5 DEF IsPrefix, r
    <2>3. Len(p) # Len(r)
      BY <1>1, <2>1, <2>2 DEF r
    <2>4. Len(p) \in 1 .. Len(q)
      <3>1. \A a, b \in Nat : a # 0 /\ a <= b + 1 /\ a # b + 1 => a \in 1 .. b
        OBVIOUS
      <3> QED
        BY <1>1, <2>1, <2>2, <2>3, <3>1
    <2>5. p \in DOMAIN u
      BY <1>3, <2>1, <2>2, <2>4
    <2> QED
      BY <1>2, <1>4, <2>5
  <1>6. \A m \in NodeId : /\ Append(q, m) \in DOMAIN u <=> Append(q, m) \in DOMAIN t
                          /\ Append(q, m) \in DOMAIN t => u[Append(q, m)] = t[Append(q, m)]
    BY <1>2, <1>5
  <1> QED
    BY <1>2, <1>6, SameSheet DEF u, p

-----------------------------------------------------------------------------
(* Windows.                                                                *)

Fresh(w, t) == w.scene = Sheet(Rendered(t, w), Within(w))

\* What NoOrphans asks of one window.
Grounded(w, t) ==
  /\ w.scope.mode = "embedded" => Exists(t, w.scope.path)
  /\ w.scope.mode = "external" /\ Len(w.scope.path) = 1 =>
       /\ w.scope.path \in DOMAIN t
       /\ t[w.scope.path] = [kind |-> "reference", data |-> w.file]

\* The root's window is the first and no two windows have one scope.
WellKept(ws) ==
  /\ ws \in Seq(Window) /\ ws # <<>>
  /\ ws[1].scope = Root
  /\ \A i, j \in DOMAIN ws : ws[i].scope = ws[j].scope => i = j

AllFresh(ws, t) == \A i \in DOMAIN ws : Fresh(ws[i], t)
AllGrounded(ws, t) == \A i \in DOMAIN ws : Grounded(ws[i], t)
Calm(ws) == \A i \in DOMAIN ws : ~ws[i].simulating

\* What scopes look like, and that no scope of the document is the library's.
LEMMA ScopeFacts ==
  /\ \A s \in Scope : /\ s.path \in Seq(NodeId)
                      /\ s.mode \in {"root", "embedded", "external"}
                      /\ s.mode = "root" => s = Root
                      /\ s.mode = "embedded" => s = EmbeddedScope(s.path) /\ s.path # <<>>
                      /\ s.mode = "external" => s = ExternalScope(s.path) /\ s.path # <<>>
  /\ Root \in Scope
  /\ \A p \in Seq(NodeId) \ {<<>>} : EmbeddedScope(p) \in Scope /\ ExternalScope(p) \in Scope
  <1>1. Root \in Scope
    BY DEF Scope, Root
  <1>2. \A p \in Seq(NodeId) \ {<<>>} : EmbeddedScope(p) \in Scope /\ ExternalScope(p) \in Scope
    BY DEF Scope, EmbeddedScope, ExternalScope
  <1>3. ASSUME NEW s \in Scope
        PROVE  /\ s.path \in Seq(NodeId)
               /\ s.mode \in {"root", "embedded", "external"}
               /\ s.mode = "root" => s = Root
               /\ s.mode = "embedded" => s = EmbeddedScope(s.path) /\ s.path # <<>>
               /\ s.mode = "external" => s = ExternalScope(s.path) /\ s.path # <<>>
    <2>1. <<>> \in Seq(NodeId)
      OBVIOUS
    <2>2. CASE s \in [mode : {"root"}, path : {<<>>}]
      BY <2>1, <2>2 DEF Root
    <2>3. CASE s \in [mode : {"embedded", "external"}, path : Seq(NodeId) \ {<<>>}]
      <3>1. /\ s.mode \in {"embedded", "external"} /\ s.path \in Seq(NodeId) /\ s.path # <<>>
            /\ s = [mode |-> s.mode, path |-> s.path]
        BY <2>3
      <3> QED
        BY <3>1 DEF EmbeddedScope, ExternalScope
    <2> QED
      BY <2>2, <2>3 DEF Scope
  <1> QED
    BY <1>1, <1>2, <1>3

\* A window drawn again is the same window with the sheet of its blueprint.
LEMMA DrawnFacts ==
  ASSUME NEW t \in Trees, NEW w \in Window
  PROVE  /\ Drawn(t, w) \in Window
         /\ Drawn(t, w).scope = w.scope /\ Drawn(t, w).open = w.open
         /\ Drawn(t, w).read_only = w.read_only /\ Drawn(t, w).file = w.file
         /\ Drawn(t, w).simulating = w.simulating
         /\ Fresh(Drawn(t, w), t)
         /\ Fresh(w, t) <=> w = Drawn(t, w)
         /\ \A u : Grounded(Drawn(t, w), u) <=> Grounded(w, u)
  <1> DEFINE sheet == Sheet(Rendered(t, w), Within(w))
  <1>1. Rendered(t, w) \in Trees /\ Within(w) \in Seq(NodeId)
    <2>1. w.scope \in Scope /\ w.scope.mode = "external" => Library[w.file] \in Trees
      BY TreeFacts DEF Window
    <2>2. w.scope \in Scope
      BY DEF Window
    <2> QED
      BY <2>1, <2>2, ScopeFacts DEF Rendered, Within
  <1>2. sheet \in Scenes
    BY <1>1, SheetFacts
  <1>3. Drawn(t, w) = [w EXCEPT !.scene = sheet]
    BY DEF Drawn
  <1> HIDE DEF sheet
  <1>4. w \in [scope : Scope, open : BOOLEAN, read_only : BOOLEAN, simulating : BOOLEAN,
               file : BlueprintId \cup {NoFile}, scene : Scenes]
    BY DEF Window
  <1>5. Drawn(t, w) \in [scope : Scope, open : BOOLEAN, read_only : BOOLEAN,
                         simulating : BOOLEAN, file : BlueprintId \cup {NoFile}, scene : Scenes]
    BY <1>2, <1>3, <1>4
  <1>6. /\ Drawn(t, w).scope = w.scope /\ Drawn(t, w).open = w.open
        /\ Drawn(t, w).read_only = w.read_only /\ Drawn(t, w).file = w.file
        /\ Drawn(t, w).simulating = w.simulating /\ Drawn(t, w).scene = sheet
    BY <1>3, <1>4
  <1>7. Drawn(t, w) \in Window
    BY <1>5, <1>6 DEF Window
  <1>8. Fresh(Drawn(t, w), t)
    BY <1>6 DEF Fresh, Rendered, Within, sheet
  <1>9. Fresh(w, t) <=> w = Drawn(t, w)
    <2>1. w.scene = sheet => w = [w EXCEPT !.scene = sheet]
      BY <1>4
    <2> QED
      BY <1>3, <1>6, <2>1 DEF Fresh, sheet
  <1>10. \A u : Grounded(Drawn(t, w), u) <=> Grounded(w, u)
    BY <1>6 DEF Grounded
  <1> QED
    BY <1>6, <1>7, <1>8, <1>9, <1>10

\* A new window.
LEMMA NewWindowFacts ==
  ASSUME NEW t \in Trees, NEW scope \in Scope, NEW file \in BlueprintId \cup {NoFile},
         scope.mode = "external" => file \in BlueprintId
  PROVE  /\ NewWindow(t, scope, file) \in Window
         /\ NewWindow(t, scope, file).scope = scope
         /\ NewWindow(t, scope, file).file = file
         /\ ~NewWindow(t, scope, file).simulating
         /\ Fresh(NewWindow(t, scope, file), t)
  <1> DEFINE w == [scope |-> scope, open |-> TRUE, read_only |-> scope.mode = "external",
                   simulating |-> FALSE, file |-> file, scene |-> <<>>]
  <1>1. <<>> \in Scenes
    <2>1. <<>> \in [{} -> Node]
      <3>1. <<>> \in Seq(Node) /\ DOMAIN <<>> = 1 .. 0 /\ 1 .. 0 = {}
        OBVIOUS
      <3>2. <<>> \in [1 .. 0 -> Node]
        OBVIOUS
      <3> QED
        BY <3>1, <3>2
    <2> QED
      BY <2>1 DEF Scenes
  <1>2. w \in Window
    <2>1. (scope.mode = "external") \in BOOLEAN
      OBVIOUS
    <2> QED
      BY <1>1, <2>1 DEF Window
  <1>3. NewWindow(t, scope, file) = Drawn(t, w)
    BY DEF NewWindow
  <1>4. w.scope = scope /\ w.file = file /\ ~w.simulating
    OBVIOUS
  <1> HIDE DEF w
  <1> QED
    BY <1>2, <1>3, <1>4, DrawnFacts

\* find: the first window with a scope, or 0.
LEMMA FindFacts ==
  ASSUME NEW ws, NEW scope, Len(ws) \in Nat
  PROVE  /\ Find(ws, scope) \in 0 .. Len(ws)
         /\ Find(ws, scope) = 0 <=> \A i \in 1 .. Len(ws) : ws[i].scope # scope
         /\ Find(ws, scope) # 0 => ws[Find(ws, scope)].scope = scope
  <1> DEFINE I == {i \in 1 .. Len(ws) : ws[i].scope = scope}
  <1>1. Find(ws, scope) = IF I # {} THEN Min(I) ELSE 0
    BY DEF Find, SelectInSeq
  <1>2. I \subseteq Nat /\ I \subseteq 1 .. Len(ws)
    OBVIOUS
  <1>3. I # {} => Min(I) \in I
    BY <1>2, MinFacts
  <1> QED
    BY <1>1, <1>2, <1>3

\* A list of windows with the same scopes in the same places.
LEMMA SameScopes ==
  ASSUME NEW ws, WellKept(ws), NEW vs \in [DOMAIN ws -> Window],
         \A i \in DOMAIN ws : vs[i].scope = ws[i].scope
  PROVE  WellKept(vs) /\ DOMAIN vs = DOMAIN ws
  <1>1. ws \in Seq(Window) /\ ws # <<>> /\ DOMAIN ws = 1 .. Len(ws) /\ Len(ws) \in Nat
    BY DEF WellKept
  <1>2. Len(ws) >= 1
    BY <1>1
  <1>3. vs \in Seq(Window) /\ DOMAIN vs = DOMAIN ws
    BY <1>1
  <1>4. vs # <<>>
    BY <1>1, <1>2, <1>3
  <1> QED
    BY <1>1, <1>2, <1>3, <1>4 DEF WellKept

-----------------------------------------------------------------------------
(* The two passes that take windows out of the list.                       *)

\* One round of the loop of remove_orphaned_windows.
Round(ws, t, i, s) ==
  LET answer == IF s.crash THEN "crash" ELSE Answer(s.list, t, s.list[i])
  IN  CASE answer = "crash"  -> [s EXCEPT !.crash = TRUE]
        [] answer = "remove" -> s
        [] OTHER ->
             [s EXCEPT !.kept = @ + 1,
                !.list = [j \in DOMAIN ws |->
                   IF j = s.kept + 1 THEN s.list[i]
                   ELSE IF j = i THEN Moved ELSE s.list[j]]]

Rounds(ws, t, f) ==
  f = [i \in 0 .. Len(ws) |->
         IF i = 0 THEN [list |-> ws, kept |-> 0, crash |-> FALSE]
         ELSE Round(ws, t, i, f[i - 1])]

States(ws) == [list : [DOMAIN ws -> Window \cup {Moved}], kept : Nat, crash : BOOLEAN]

\* What a round does to each part of the state.
LEMMA RoundFacts ==
  ASSUME NEW ws \in Seq(Window), NEW t \in Trees, NEW i \in 1 .. Len(ws), NEW s \in States(ws)
  PROVE  LET r == Round(ws, t, i, s)
         IN  /\ r \in States(ws)
             /\ s.crash => r.crash
             /\ ~r.crash =>
                  \/ r = s /\ Answer(s.list, t, s.list[i]) = "remove"
                  \/ /\ Answer(s.list, t, s.list[i]) \notin {"crash", "remove"}
                     /\ r.kept = s.kept + 1
                     /\ r.list = [j \in DOMAIN ws |->
                                    IF j = s.kept + 1 THEN s.list[i]
                                    ELSE IF j = i THEN Moved ELSE s.list[j]]
  <1> DEFINE answer == IF s.crash THEN "crash" ELSE Answer(s.list, t, s.list[i])
             list == [j \in DOMAIN ws |-> IF j = s.kept + 1 THEN s.list[i]
                                          ELSE IF j = i THEN Moved ELSE s.list[j]]
             r == Round(ws, t, i, s)
  <1>1. /\ s.list \in [DOMAIN ws -> Window \cup {Moved}] /\ s.kept \in Nat /\ s.crash \in BOOLEAN
        /\ s = [list |-> s.list, kept |-> s.kept, crash |-> s.crash]
    BY DEF States
  <1>2. i \in DOMAIN ws
    OBVIOUS
  <1>3. list \in [DOMAIN ws -> Window \cup {Moved}]
    BY <1>1, <1>2
  <1>4. CASE answer = "crash"
    <2>1. r = [s EXCEPT !.crash = TRUE]
      BY <1>4 DEF Round
    <2> QED
      BY <1>1, <2>1 DEF States
  <1>5. CASE answer = "remove"
    <2>1. r = s /\ ~s.crash
      BY <1>5 DEF Round
    <2> QED
      BY <1>5, <2>1
  <1>6. CASE answer \notin {"crash", "remove"}
    <2>1. r = [s EXCEPT !.kept = @ + 1, !.list = list] /\ ~s.crash
      BY <1>6 DEF Round
    <2> HIDE DEF list, r
    <2>2. r = [list |-> list, kept |-> s.kept + 1, crash |-> s.crash]
      <3>1. s \in [list : [DOMAIN ws -> Window \cup {Moved}], kept : Nat, crash : BOOLEAN]
        BY DEF States
      <3> HIDE DEF answer
      <3> QED
        BY <2>1, <3>1
    <2>4. r.list = list /\ r.kept = s.kept + 1 /\ r.crash = s.crash /\ r \in States(ws)
      BY <1>1, <1>3, <2>2 DEF States
    <2>3. Answer(s.list, t, s.list[i]) \notin {"crash", "remove"}
      BY <1>6, <2>1
    <2> QED
      BY <2>1, <2>3, <2>4 DEF list, r
  <1> QED
    BY <1>4, <1>5, <1>6

\* The loop runs: its states exist and each comes from the one before.
LEMMA CompactedRuns ==
  ASSUME NEW ws \in Seq(Window), NEW t \in Trees
  PROVE  \E f \in [0 .. Len(ws) -> States(ws)] :
           Rounds(ws, t, f) /\ Compacted(ws, t) = f[Len(ws)]
  <1> DEFINE V == States(ws)
             c == [list |-> ws, kept |-> 0, crash |-> FALSE]
             D == [i \in 1 .. Len(ws) |-> [s \in V |-> Round(ws, t, i, s)]]
             F == CHOOSE f : Rounds(ws, t, f)
  <1>1. Len(ws) \in Nat
    OBVIOUS
  <1>2. c \in V
    BY DEF States
  <1>3. D \in [1 .. Len(ws) -> [V -> V]]
    <2>1. \A i \in 1 .. Len(ws), s \in V : Round(ws, t, i, s) \in V
      BY RoundFacts
    <2> HIDE DEF V
    <2> QED
      BY <2>1
  <1>4. ASSUME NEW f
        PROVE  /\ Rounds(ws, t, f) => f \in [0 .. Len(ws) -> V]
               /\ f \in [0 .. Len(ws) -> V] =>
                    (Rounds(ws, t, f) <=>
                       f = [i \in 0 .. Len(ws) |-> IF i = 0 THEN c ELSE D[i][f[i - 1]]])
    <2> HIDE DEF V, c
    <2>1. ASSUME f \in [0 .. Len(ws) -> V], NEW i \in 0 .. Len(ws), i # 0
          PROVE  D[i][f[i - 1]] = Round(ws, t, i, f[i - 1])
      <3>1. i - 1 \in 0 .. Len(ws) /\ i \in 1 .. Len(ws)
        BY <1>1, <2>1
      <3> QED
        BY <2>1, <3>1
    <2>2. ASSUME Rounds(ws, t, f)
          PROVE  f \in [0 .. Len(ws) -> V]
      <3> DEFINE S == {i \in 0 .. Len(ws) : f[i] \in V}
      <3>1. 0 \in S
        BY <1>1, <1>2, <2>2 DEF Rounds, c
      <3>2. ASSUME NEW i \in 0 .. Len(ws), i # 0, i - 1 \in S
            PROVE  i \in S
        <4>1. i \in 1 .. Len(ws) /\ f[i - 1] \in V
          BY <1>1, <3>2
        <4>2. f[i] = Round(ws, t, i, f[i - 1])
          BY <2>2, <3>2 DEF Rounds
        <4> QED
          BY <4>1, <4>2, RoundFacts DEF V
      <3> HIDE DEF S
      <3>3. 0 .. Len(ws) \subseteq S
        BY <1>1, <3>1, <3>2, Upward
      <3>4. \A i \in 0 .. Len(ws) : f[i] \in V
        BY <3>3 DEF S
      <3>5. f = [i \in 0 .. Len(ws) |-> f[i]]
        BY <2>2 DEF Rounds
      <3> QED
        BY <3>4, <3>5
    <2> HIDE DEF D
    <2> QED
      BY <2>1, <2>2 DEF Rounds, c
  <1> HIDE DEF V, c, D
  <1>5. PICK f \in [0 .. Len(ws) -> V] :
          Iterates(f, Len(ws), c, D)
    <2> DEFINE n == Len(ws)
    <2>1. n \in Nat /\ c \in V /\ D \in [1 .. n -> [V -> V]]
      BY <1>1, <1>2, <1>3
    <2> HIDE DEF n
    <2>2. \E f \in [0 .. n -> V] : Iterates(f, n, c, D)
      BY <2>1, IterateExists
    <2> QED
      BY <2>2 DEF n
  <1>6. Rounds(ws, t, f)
    BY <1>4, <1>5 DEF Iterates
  <1>7. Rounds(ws, t, F)
    BY <1>6
  <1>8. Compacted(ws, t) = F[Len(ws)]
    BY DEF Compacted, Rounds, Round
  <1> HIDE DEF F
  <1> QED
    BY <1>4, <1>7, <1>8 DEF V

\* A window that stays has its ground; the root's stays.
LEMMA AnswerFacts ==
  ASSUME NEW ws, NEW t \in Trees, NEW w \in Window
  PROVE  /\ w.scope = Root => Answer(ws, t, w) \notin {"crash", "remove"}
         /\ Answer(ws, t, w) \notin {"crash", "remove"} => Grounded(w, t)
  <1>1. w.scope = Root => Answer(ws, t, w) = "keep"
    BY DEF Answer, Root
  <1>2. ASSUME w.scope.mode = "embedded", Answer(ws, t, w) \notin {"crash", "remove"}
        PROVE  Grounded(w, t)
    BY <1>2 DEF Answer, Grounded
  <1>3. ASSUME w.scope.mode = "external", Answer(ws, t, w) \notin {"crash", "remove"},
               Len(w.scope.path) = 1
        PROVE  /\ w.scope.path \in DOMAIN t
               /\ t[w.scope.path] = [kind |-> "reference", data |-> w.file]
    <2> DEFINE path == w.scope.path
               sheet == IF Exists(t, Front(path)) THEN Sheet(t, Front(path)) ELSE <<>>
    <2>1. w.scope \in Scope
      BY DEF Window
    <2>2. path \in Seq(NodeId) /\ path # <<>>
      BY <1>3, <2>1, ScopeFacts
    <2>3. /\ Front(path) \in Seq(NodeId) /\ Last(path) \in NodeId
          /\ path = Append(Front(path), Last(path)) /\ Len(Front(path)) = 0
      BY <1>3, <2>2, FrontFacts
    <2>4. Front(path) = <<>>
      BY <2>3
    <2>5. sheet = Sheet(t, <<>>)
      <3>1. Exists(t, <<>>)
        BY DEF Exists
      <3> QED
        BY <2>4, <3>1
    <2>6. /\ Last(path) \in DOMAIN sheet
          /\ sheet[Last(path)] = [kind |-> "reference", data |-> w.file]
      <3>1. ~(Len(path) > 1)
        BY <1>3
      <3>2. Answer(ws, t, w) = ExternalAnswer(ws, t, w)
        BY <1>3 DEF Answer
      <3> QED
        BY <1>3, <3>1, <3>2 DEF ExternalAnswer
    <2>7. <<>> \in Seq(NodeId)
      OBVIOUS
    <2> HIDE DEF path, sheet
    <2>8. /\ Append(<<>>, Last(path)) \in DOMAIN t
          /\ t[Append(<<>>, Last(path))] = [kind |-> "reference", data |-> w.file]
      BY <2>5, <2>6, <2>7, SheetFacts
    <2> QED
      BY <2>3, <2>4, <2>8 DEF path
  <1>4. w.scope \in Scope
    BY DEF Window
  <1> QED
    BY <1>1, <1>2, <1>3, <1>4, ScopeFacts DEF Grounded, Root

\* What holds after i rounds that met no moved window: the windows kept are
\* some of the first i, each in its place, grounded, the root's first.
Held(ws, t, i, s) ==
  ~s.crash =>
    /\ s.kept <= i
    /\ \A j \in DOMAIN ws : j > i => s.list[j] = ws[j]
    /\ \A j \in 1 .. s.kept : Grounded(s.list[j], t) /\ \E k \in 1 .. i : s.list[j] = ws[k]
    /\ \A j, k \in 1 .. s.kept : s.list[j].scope = s.list[k].scope => j = k
    /\ i # 0 => s.kept # 0 /\ s.list[1] = ws[1]

LEMMA RoundHolds ==
  ASSUME NEW ws, WellKept(ws), NEW t \in Trees, NEW i \in 1 .. Len(ws),
         NEW s \in States(ws), Held(ws, t, i - 1, s)
  PROVE  Held(ws, t, i, Round(ws, t, i, s))
  <1> DEFINE r == Round(ws, t, i, s)
  <1> SUFFICES ASSUME ~r.crash
               PROVE  Held(ws, t, i, r)
    BY DEF Held
  <1>1. /\ ws \in Seq(Window) /\ ws[1].scope = Root
        /\ \A j, k \in DOMAIN ws : ws[j].scope = ws[k].scope => j = k
        /\ DOMAIN ws = 1 .. Len(ws) /\ Len(ws) \in Nat
        /\ \A j \in DOMAIN ws : ws[j] \in Window
    BY DEF WellKept
  <1>2. /\ r \in States(ws) /\ ~s.crash
        /\ \/ r = s /\ Answer(s.list, t, s.list[i]) = "remove"
           \/ /\ Answer(s.list, t, s.list[i]) \notin {"crash", "remove"}
              /\ r.kept = s.kept + 1
              /\ r.list = [j \in DOMAIN ws |->
                             IF j = s.kept + 1 THEN s.list[i]
                             ELSE IF j = i THEN Moved ELSE s.list[j]]
    <2>1. ws \in Seq(Window)
      BY <1>1
    <2> QED
      BY <2>1, RoundFacts, Zenon
  <1> HIDE DEF r
  <1>3. /\ s.kept \in Nat /\ s.kept <= i - 1 /\ i \in Nat /\ i >= 1 /\ i <= Len(ws)
        /\ \A j \in DOMAIN ws : j > i - 1 => s.list[j] = ws[j]
        /\ \A j \in 1 .. s.kept :
             Grounded(s.list[j], t) /\ \E k \in 1 .. i - 1 : s.list[j] = ws[k]
        /\ \A j, k \in 1 .. s.kept : s.list[j].scope = s.list[k].scope => j = k
        /\ i - 1 # 0 => s.kept # 0 /\ s.list[1] = ws[1]
    BY <1>1, <1>2 DEF Held, States
  <1>4. i \in DOMAIN ws /\ s.list[i] = ws[i] /\ ws[i] \in Window
    BY <1>1, <1>3
  <1>5. CASE r = s /\ Answer(s.list, t, s.list[i]) = "remove"
    <2>1. i # 1
      BY <1>1, <1>4, <1>5, AnswerFacts
    <2>2. s.kept <= i /\ i - 1 # 0 /\ \A j : j > i /\ j \in Nat => j > i - 1
      BY <1>3, <2>1
    <2>3. \A k \in 1 .. i - 1 : k \in 1 .. i
      BY <1>3
    <2>4. \A j \in DOMAIN ws : j \in Nat
      BY <1>1
    <2> QED
      BY <1>3, <1>5, <2>2, <2>3, <2>4 DEF Held
  <1>6. CASE /\ Answer(s.list, t, s.list[i]) \notin {"crash", "remove"}
             /\ r.kept = s.kept + 1
             /\ r.list = [j \in DOMAIN ws |->
                            IF j = s.kept + 1 THEN s.list[i]
                            ELSE IF j = i THEN Moved ELSE s.list[j]]
    <2>1. Grounded(ws[i], t)
      BY <1>4, <1>6, AnswerFacts
    <2>2. r.kept <= i /\ r.kept # 0 /\ r.kept \in DOMAIN ws
      BY <1>1, <1>3, <1>6
    <2>3. r.list[r.kept] = ws[i]
      BY <1>4, <1>6, <2>2
    <2>4. ASSUME NEW j \in 1 .. r.kept, j # r.kept
          PROVE  j \in 1 .. s.kept /\ r.list[j] = s.list[j]
      <3>1. j \in 1 .. s.kept /\ j # i /\ j \in DOMAIN ws /\ j # s.kept + 1
        BY <1>1, <1>3, <1>6, <2>4
      <3> QED
        BY <1>6, <3>1
    <2>5. \A j \in DOMAIN ws : j > i => r.list[j] = ws[j]
      <3> TAKE j \in DOMAIN ws
      <3> HAVE j > i
      <3>1. j # s.kept + 1 /\ j # i /\ j > i - 1
        BY <1>1, <1>3
      <3> QED
        BY <1>3, <1>6, <3>1
    <2>6. \A j \in 1 .. r.kept : Grounded(r.list[j], t) /\ \E k \in 1 .. i : r.list[j] = ws[k]
      <3> TAKE j \in 1 .. r.kept
      <3>1. i \in 1 .. i /\ \A k \in 1 .. i - 1 : k \in 1 .. i
        BY <1>3
      <3> QED
        BY <1>3, <2>1, <2>3, <2>4, <3>1
    <2>7. \A j \in 1 .. s.kept : s.list[j].scope # ws[i].scope
      <3> TAKE j \in 1 .. s.kept
      <3>1. PICK k \in 1 .. i - 1 : s.list[j] = ws[k]
        BY <1>3
      <3>2. k \in DOMAIN ws /\ k # i
        BY <1>1, <1>3
      <3> QED
        BY <1>1, <1>4, <3>1, <3>2
    <2>8. \A j, k \in 1 .. r.kept : r.list[j].scope = r.list[k].scope => j = k
      <3> SUFFICES ASSUME NEW j \in 1 .. r.kept, NEW k \in 1 .. r.kept,
                          r.list[j].scope = r.list[k].scope
                   PROVE  j = k
        OBVIOUS
      <3>1. CASE j = r.kept \/ k = r.kept
        BY <2>3, <2>4, <2>7, <3>1
      <3>2. CASE j # r.kept /\ k # r.kept
        <4>1. j \in 1 .. s.kept /\ k \in 1 .. s.kept /\ s.list[j].scope = s.list[k].scope
          BY <2>4, <3>2
        <4> QED
          BY <1>3, <4>1
      <3> QED
        BY <3>1, <3>2
    <2>9. r.list[1] = ws[1]
      <3>1. CASE i = 1
        <4>1. r.kept = 1
          BY <1>3, <1>6, <3>1
        <4> QED
          BY <2>3, <3>1, <4>1
      <3>2. CASE i # 1
        <4>1. i - 1 # 0 /\ 1 \in 1 .. r.kept
          BY <1>3, <1>6, <3>2
        <4>2. 1 # r.kept
          BY <1>3, <1>6, <4>1
        <4> QED
          BY <1>3, <2>4, <4>1, <4>2
      <3> QED
        BY <3>1, <3>2
    <2> QED
      BY <2>2, <2>5, <2>6, <2>8, <2>9 DEF Held
  <1> QED
    BY <1>2, <1>5, <1>6

\* remove_orphaned_windows, when it returns: of the windows that were there,
\* in their order, those that have their ground.
LEMMA OrphansRemoved ==
  ASSUME NEW ws, WellKept(ws), NEW t \in Trees, ~CrashesOn(ws, t)
  PROVE  LET rest == WithoutOrphans(ws, t)
         IN  /\ WellKept(rest) /\ AllGrounded(rest, t)
             /\ \A j \in DOMAIN rest : \E k \in DOMAIN ws : rest[j] = ws[k]
  <1>1. ws \in Seq(Window) /\ Len(ws) \in Nat /\ DOMAIN ws = 1 .. Len(ws) /\ Len(ws) # 0
    BY DEF WellKept
  <1>2. PICK f \in [0 .. Len(ws) -> States(ws)] :
          Rounds(ws, t, f) /\ Compacted(ws, t) = f[Len(ws)]
    BY <1>1, CompactedRuns
  <1> DEFINE S == {i \in 0 .. Len(ws) : Held(ws, t, i, f[i])}
             s == f[Len(ws)]
  <1>3. 0 \in S
    <2>1. f[0] = [list |-> ws, kept |-> 0, crash |-> FALSE] /\ 0 \in 0 .. Len(ws)
      BY <1>1, <1>2 DEF Rounds
    <2> QED
      BY <1>1, <2>1 DEF Held
  <1>4. ASSUME NEW i \in 0 .. Len(ws), i # 0, i - 1 \in S
        PROVE  i \in S
    <2>1. i \in 1 .. Len(ws) /\ i - 1 \in 0 .. Len(ws)
      BY <1>1, <1>4
    <2>2. f[i] = Round(ws, t, i, f[i - 1]) /\ f[i - 1] \in States(ws)
      BY <1>2, <1>4, <2>1 DEF Rounds
    <2>3. Held(ws, t, i - 1, f[i - 1])
      BY <1>4
    <2> QED
      BY <2>1, <2>2, <2>3, RoundHolds
  <1>5. Held(ws, t, Len(ws), s)
    <2>1. Len(ws) \in 0 .. Len(ws)
      BY <1>1
    <2> HIDE DEF S
    <2>2. 0 .. Len(ws) \subseteq S
      BY <1>1, <1>3, <1>4, Upward
    <2> QED
      BY <2>1, <2>2 DEF S
  <1> DEFINE rest == WithoutOrphans(ws, t)
  <1>6. ~s.crash /\ rest = SubSeq(s.list, 1, s.kept)
    BY <1>2 DEF CrashesOn, WithoutOrphans
  <1>7. s \in States(ws)
    BY <1>1, <1>2
  <1> HIDE DEF s, rest, S
  <1>8. /\ s.kept \in Nat /\ s.kept <= Len(ws)
        /\ \A j \in 1 .. s.kept :
             Grounded(s.list[j], t) /\ \E k \in 1 .. Len(ws) : s.list[j] = ws[k]
        /\ \A j, k \in 1 .. s.kept : s.list[j].scope = s.list[k].scope => j = k
        /\ s.kept # 0 /\ s.list[1] = ws[1]
    BY <1>1, <1>5, <1>6, <1>7 DEF Held, States
  <1>9. \A j \in 1 .. s.kept : s.list[j] \in Window
    BY <1>1, <1>8
  <1>10. /\ rest \in Seq(Window) /\ Len(rest) = s.kept
         /\ \A j \in 1 .. s.kept : rest[j] = s.list[j]
    <2>1. /\ rest \in Seq(Window)
          /\ Len(rest) = IF 1 <= s.kept THEN s.kept - 1 + 1 ELSE 0
          /\ \A j \in 1 .. s.kept - 1 + 1 : rest[j] = s.list[1 + j - 1]
      <3>1. 1 \in Int /\ s.kept \in Int
        BY <1>8
      <3> QED
        BY <1>6, <1>9, <3>1, SubSeqProperties
    <2>2. \A k \in Nat : k - 1 + 1 = k /\ (1 <= k \/ k = 0) /\ \A j \in 1 .. k : 1 + j - 1 = j
      OBVIOUS
    <2> QED
      BY <1>8, <2>1, <2>2
  <1>11. DOMAIN rest = 1 .. s.kept /\ rest # <<>> /\ 1 \in 1 .. s.kept
    BY <1>8, <1>10
  <1>12. WellKept(rest)
    BY <1>8, <1>10, <1>11 DEF WellKept
  <1>13. AllGrounded(rest, t)
    BY <1>8, <1>10, <1>11 DEF AllGrounded
  <1>14. \A j \in DOMAIN rest : \E k \in DOMAIN ws : rest[j] = ws[k]
    <2> TAKE j \in DOMAIN rest
    <2>1. j \in 1 .. s.kept
      BY <1>11
    <2>2. PICK k \in 1 .. Len(ws) : s.list[j] = ws[k]
      BY <1>8, <2>1
    <2> QED
      BY <1>1, <1>10, <2>1, <2>2
  <1> QED
    BY <1>12, <1>13, <1>14 DEF rest

\* One round of remove_closed_windows.
Passed(ws, i, r) ==
  IF ws[i].open \/ ws[i].scope.mode = "root" THEN Append(r, ws[i]) ELSE r

Passes(ws, f) ==
  f = [i \in 0 .. Len(ws) |-> IF i = 0 THEN <<>> ELSE Passed(ws, i, f[i - 1])]

LEMMA WithoutClosedRuns ==
  ASSUME NEW ws \in Seq(Window)
  PROVE  \E f : Passes(ws, f) /\ WithoutClosed(ws) = f[Len(ws)]
  <1> DEFINE V == Seq(Window)
             n == Len(ws)
             D == [i \in 1 .. n |-> [r \in V |-> Passed(ws, i, r)]]
             F == CHOOSE f : Passes(ws, f)
  <1>1. n \in Nat /\ <<>> \in V
    OBVIOUS
  <1>2. \A i \in 1 .. n, r \in V : Passed(ws, i, r) \in V
    BY DEF Passed
  <1>3. D \in [1 .. n -> [V -> V]]
    <2> HIDE DEF V
    <2> QED
      BY <1>2
  <1>4. \A i \in 1 .. n, r \in V : D[i][r] = Passed(ws, i, r)
    OBVIOUS
  <1>5. WithoutClosed(ws) = F[Len(ws)]
    BY DEF WithoutClosed, Passes, Passed
  <1>6. \A f : Passes(ws, f) <=>
          f = [i \in 0 .. n |-> IF i = 0 THEN <<>> ELSE Passed(ws, i, f[i - 1])]
    BY DEF Passes
  <1> HIDE DEF V, D, n, F
  <1>7. PICK f \in [0 .. n -> V] : Iterates(f, n, <<>>, D)
    BY <1>1, <1>3, IterateExists
  <1>8. Passes(ws, f)
    <2>1. f = [i \in 0 .. n |-> IF i = 0 THEN <<>> ELSE D[i][f[i - 1]]]
      BY <1>7 DEF Iterates
    <2>2. \A i \in 0 .. n : i # 0 => i \in 1 .. n /\ i - 1 \in 0 .. n
      BY <1>1
    <2>3. \A i \in 0 .. n : i # 0 => D[i][f[i - 1]] = Passed(ws, i, f[i - 1])
      BY <1>4, <1>7, <2>2
    <2>4. f = [i \in 0 .. n |-> IF i = 0 THEN <<>> ELSE Passed(ws, i, f[i - 1])]
      BY <2>1, <2>3
    <2> QED
      BY <1>6, <2>4
  <1>9. Passes(ws, F)
    BY <1>8 DEF F
  <1> QED
    BY <1>5, <1>9

\* What holds after i rounds of that loop: r has some of the first i windows,
\* each once, the root's first.
Gathered(ws, i, r) ==
  /\ r \in Seq(Window)
  /\ \A j \in 1 .. Len(r) : \E k \in 1 .. i : r[j] = ws[k]
  /\ \A j, k \in 1 .. Len(r) : r[j].scope = r[k].scope => j = k
  /\ i # 0 => r # <<>> /\ r[1] = ws[1]

LEMMA PassedGathers ==
  ASSUME NEW ws, WellKept(ws), NEW i \in 1 .. Len(ws), NEW r, Gathered(ws, i - 1, r)
  PROVE  Gathered(ws, i, Passed(ws, i, r))
  <1>1. /\ ws \in Seq(Window) /\ ws[1].scope = Root
        /\ \A j, k \in DOMAIN ws : ws[j].scope = ws[k].scope => j = k
        /\ DOMAIN ws = 1 .. Len(ws) /\ Len(ws) \in Nat
        /\ ws[i] \in Window /\ i \in DOMAIN ws
    BY DEF WellKept
  <1>2. /\ r \in Seq(Window)
        /\ \A j \in 1 .. Len(r) : \E k \in 1 .. i - 1 : r[j] = ws[k]
        /\ \A j, k \in 1 .. Len(r) : r[j].scope = r[k].scope => j = k
        /\ i - 1 # 0 => r # <<>> /\ r[1] = ws[1]
        /\ Len(r) \in Nat
    BY DEF Gathered
  <1>3. \A k \in 1 .. i - 1 : k \in 1 .. i /\ k \in DOMAIN ws /\ k # i
    BY <1>1
  <1>4. CASE ~(ws[i].open \/ ws[i].scope.mode = "root")
    <2>1. Passed(ws, i, r) = r
      BY <1>4 DEF Passed
    <2>2. i # 1
      BY <1>1, <1>4 DEF Root
    <2>3. i - 1 # 0
      BY <2>2
    <2> QED
      BY <1>2, <1>3, <2>1, <2>3 DEF Gathered
  <1>5. CASE ws[i].open \/ ws[i].scope.mode = "root"
    <2> DEFINE q == Append(r, ws[i])
    <2>1. Passed(ws, i, r) = q
      BY <1>5 DEF Passed
    <2>2. /\ q \in Seq(Window) /\ Len(q) = Len(r) + 1 /\ q # <<>>
          /\ q[Len(r) + 1] = ws[i] /\ \A j \in 1 .. Len(r) : q[j] = r[j]
      BY <1>1, <1>2
    <2> HIDE DEF q
    <2>3. \A j \in 1 .. Len(q) : j \in 1 .. Len(r) \/ j = Len(r) + 1
      BY <1>2, <2>2
    <2>4. \A j \in 1 .. Len(q) : \E k \in 1 .. i : q[j] = ws[k]
      <3> TAKE j \in 1 .. Len(q)
      <3>1. CASE j \in 1 .. Len(r)
        BY <1>2, <1>3, <2>2, <3>1
      <3>2. CASE j = Len(r) + 1
        <4>1. i \in 1 .. i
          OBVIOUS
        <4> QED
          BY <2>2, <3>2, <4>1
      <3> QED
        BY <2>3, <3>1, <3>2
    <2>5. \A j \in 1 .. Len(r) : r[j].scope # ws[i].scope
      <3> TAKE j \in 1 .. Len(r)
      <3>1. PICK k \in 1 .. i - 1 : r[j] = ws[k]
        BY <1>2
      <3> QED
        BY <1>1, <1>3, <3>1
    <2>6. \A j, k \in 1 .. Len(q) : q[j].scope = q[k].scope => j = k
      BY <1>2, <2>2, <2>3, <2>5
    <2>7. q[1] = ws[1]
      <3>1. CASE i = 1
        <4>1. Len(r) = 0
          <5>1. ~(\E j \in 1 .. Len(r) : TRUE)
            BY <1>2, <3>1
          <5> QED
            BY <1>2, <5>1
        <4> QED
          BY <2>2, <3>1, <4>1
      <3>2. CASE i # 1
        <4>1. i - 1 # 0
          BY <3>2
        <4>2. r # <<>> /\ r[1] = ws[1]
          BY <1>2, <4>1
        <4>3. 1 \in 1 .. Len(r)
          BY <1>2, <4>2
        <4> QED
          BY <2>2, <4>2, <4>3
      <3> QED
        BY <3>1, <3>2
    <2> QED
      BY <2>1, <2>2, <2>4, <2>6, <2>7 DEF Gathered
  <1> QED
    BY <1>4, <1>5

\* remove_closed_windows leaves windows that were there, the root's first.
LEMMA ClosedRemoved ==
  ASSUME NEW ws, WellKept(ws)
  PROVE  /\ WellKept(WithoutClosed(ws))
         /\ \A j \in DOMAIN WithoutClosed(ws) :
              \E k \in DOMAIN ws : WithoutClosed(ws)[j] = ws[k]
  <1>1. ws \in Seq(Window) /\ Len(ws) \in Nat /\ DOMAIN ws = 1 .. Len(ws) /\ Len(ws) # 0
    BY DEF WellKept
  <1>2. PICK f : Passes(ws, f) /\ WithoutClosed(ws) = f[Len(ws)]
    BY <1>1, WithoutClosedRuns
  <1> DEFINE S == {i \in 0 .. Len(ws) : Gathered(ws, i, f[i])}
  <1>3. 0 \in S
    <2>1. f[0] = <<>> /\ 0 \in 0 .. Len(ws)
      BY <1>1, <1>2 DEF Passes
    <2>2. <<>> \in Seq(Window) /\ Len(<<>>) = 0 /\ 1 .. 0 = {}
      OBVIOUS
    <2>3. Gathered(ws, 0, <<>>)
      BY <2>2 DEF Gathered
    <2> QED
      BY <2>1, <2>3
  <1>4. ASSUME NEW i \in 0 .. Len(ws), i # 0, i - 1 \in S
        PROVE  i \in S
    <2>1. i \in 1 .. Len(ws)
      BY <1>1, <1>4
    <2>2. f[i] = Passed(ws, i, f[i - 1])
      BY <1>2, <1>4 DEF Passes
    <2>3. Gathered(ws, i - 1, f[i - 1])
      BY <1>4
    <2> QED
      BY <2>1, <2>2, <2>3, PassedGathers
  <1>5. Gathered(ws, Len(ws), WithoutClosed(ws))
    <2>1. Len(ws) \in 0 .. Len(ws)
      BY <1>1
    <2> HIDE DEF S
    <2>2. 0 .. Len(ws) \subseteq S
      BY <1>1, <1>3, <1>4, Upward
    <2> QED
      BY <1>2, <2>1, <2>2 DEF S
  <1> DEFINE rest == WithoutClosed(ws)
  <1> HIDE DEF rest
  <1>6. /\ rest \in Seq(Window) /\ DOMAIN rest = 1 .. Len(rest)
        /\ \A j \in 1 .. Len(rest) : \E k \in 1 .. Len(ws) : rest[j] = ws[k]
        /\ \A j, k \in 1 .. Len(rest) : rest[j].scope = rest[k].scope => j = k
        /\ rest # <<>> /\ rest[1] = ws[1]
    BY <1>1, <1>5 DEF Gathered, rest
  <1>7. ws[1].scope = Root
    BY DEF WellKept
  <1>8. WellKept(rest)
    BY <1>6, <1>7 DEF WellKept
  <1> QED
    BY <1>1, <1>6, <1>8 DEF rest

-----------------------------------------------------------------------------
(* Lists of windows that handlers compute.                                 *)

\* rebuild_window_scenes draws every window that has its ground.
LEMMA RedrawnFacts ==
  ASSUME NEW ws, WellKept(ws), NEW t \in Trees
  PROVE  /\ WellKept(Redrawn(ws, t)) /\ DOMAIN Redrawn(ws, t) = DOMAIN ws
         /\ \A i \in DOMAIN ws :
              /\ Redrawn(ws, t)[i].simulating = ws[i].simulating
              /\ \A u : Grounded(Redrawn(ws, t)[i], u) <=> Grounded(ws[i], u)
         /\ AllGrounded(ws, t) => AllFresh(Redrawn(ws, t), t)
  <1> DEFINE New(i) == IF ws[i].scope.mode = "embedded" /\ ~Exists(t, ws[i].scope.path)
                         THEN ws[i] ELSE Drawn(t, ws[i])
             vs == Redrawn(ws, t)
  <1>1. vs = [i \in DOMAIN ws |-> New(i)]
    BY DEF Redrawn
  <1>2. \A i \in DOMAIN ws : ws[i] \in Window
    BY DEF WellKept
  <1>3. ASSUME NEW i \in DOMAIN ws
        PROVE  /\ New(i) \in Window /\ New(i).scope = ws[i].scope
               /\ New(i).simulating = ws[i].simulating
               /\ \A u : Grounded(New(i), u) <=> Grounded(ws[i], u)
               /\ Grounded(ws[i], t) => Fresh(New(i), t)
    <2>1. CASE New(i) = ws[i] /\ ws[i].scope.mode = "embedded" /\ ~Exists(t, ws[i].scope.path)
      <3> HIDE DEF New
      <3> QED
        BY <1>2, <2>1 DEF Grounded
    <2>2. CASE New(i) = Drawn(t, ws[i])
      <3> HIDE DEF New
      <3> QED
        BY <1>2, <2>2, DrawnFacts
    <2> QED
      BY <2>1, <2>2
  <1> HIDE DEF New, vs
  <1>4. vs \in [DOMAIN ws -> Window] /\ \A i \in DOMAIN ws : vs[i] = New(i)
    BY <1>1, <1>3
  <1>5. WellKept(vs) /\ DOMAIN vs = DOMAIN ws
    BY <1>3, <1>4, SameScopes
  <1>6. AllGrounded(ws, t) => AllFresh(vs, t)
    BY <1>3, <1>4, <1>5 DEF AllGrounded, AllFresh
  <1> QED
    BY <1>3, <1>4, <1>5, <1>6 DEF vs

\* set_windows_simulation_mode changes the mode and nothing else.
LEMMA ModeFacts ==
  ASSUME NEW ws, WellKept(ws), NEW on \in BOOLEAN
  PROVE  /\ WellKept(SimulationMode(ws, on)) /\ DOMAIN SimulationMode(ws, on) = DOMAIN ws
         /\ on = FALSE => Calm(SimulationMode(ws, on))
         /\ \A u : AllGrounded(ws, u) => AllGrounded(SimulationMode(ws, on), u)
         /\ \A u : AllFresh(ws, u) => AllFresh(SimulationMode(ws, on), u)
  <1> DEFINE New(i) == [ws[i] EXCEPT !.simulating = on]
             vs == SimulationMode(ws, on)
  <1>1. vs = [i \in DOMAIN ws |-> New(i)]
    BY DEF SimulationMode
  <1>2. \A i \in DOMAIN ws : ws[i] \in Window
    BY DEF WellKept
  <1>3. ASSUME NEW i \in DOMAIN ws
        PROVE  /\ New(i) \in Window /\ New(i).scope = ws[i].scope
               /\ New(i).simulating = on /\ New(i).file = ws[i].file
               /\ New(i).scene = ws[i].scene
    BY <1>2 DEF Window
  <1>4. ASSUME NEW i \in DOMAIN ws, NEW u
        PROVE  /\ Grounded(New(i), u) <=> Grounded(ws[i], u)
               /\ Fresh(New(i), u) <=> Fresh(ws[i], u)
    <2> HIDE DEF New
    <2> QED
      BY <1>3 DEF Grounded, Fresh, Rendered, Within
  <1> HIDE DEF New, vs
  <1>5. vs \in [DOMAIN ws -> Window] /\ \A i \in DOMAIN ws : vs[i] = New(i)
    BY <1>1, <1>3
  <1>6. WellKept(vs) /\ DOMAIN vs = DOMAIN ws
    BY <1>3, <1>5, SameScopes
  <1>7. on = FALSE => Calm(vs)
    BY <1>3, <1>5, <1>6 DEF Calm
  <1>8. \A u : AllGrounded(ws, u) => AllGrounded(vs, u)
    BY <1>4, <1>5, <1>6 DEF AllGrounded
  <1>9. \A u : AllFresh(ws, u) => AllFresh(vs, u)
    BY <1>4, <1>5, <1>6 DEF AllFresh
  <1> QED
    BY <1>6, <1>7, <1>8, <1>9 DEF vs

\* One window drawn again.
LEMMA OneDrawn ==
  ASSUME NEW ws, WellKept(ws), NEW t \in Trees, NEW i \in DOMAIN ws
  PROVE  LET vs == [ws EXCEPT ![i] = Drawn(t, @)]
         IN  /\ WellKept(vs) /\ DOMAIN vs = DOMAIN ws
             /\ Calm(ws) => Calm(vs)
             /\ \A u : AllGrounded(ws, u) => AllGrounded(vs, u)
             /\ vs[i].scope = ws[i].scope /\ Fresh(vs[i], t)
             /\ \A j \in DOMAIN ws : j # i => vs[j] = ws[j]
  <1> DEFINE vs == [ws EXCEPT ![i] = Drawn(t, @)]
  <1>1. \A j \in DOMAIN ws : ws[j] \in Window
    BY DEF WellKept
  <1>2. /\ DOMAIN vs = DOMAIN ws /\ vs[i] = Drawn(t, ws[i])
        /\ \A j \in DOMAIN ws : j # i => vs[j] = ws[j]
        /\ vs = [j \in DOMAIN ws |-> vs[j]]
    BY DEF WellKept
  <1> HIDE DEF vs
  <1>3. /\ vs[i] \in Window /\ vs[i].scope = ws[i].scope /\ vs[i].simulating = ws[i].simulating
        /\ Fresh(vs[i], t) /\ \A u : Grounded(vs[i], u) <=> Grounded(ws[i], u)
    BY <1>1, <1>2, DrawnFacts
  <1>4. \A j \in DOMAIN ws : vs[j] \in Window /\ vs[j].scope = ws[j].scope
    BY <1>1, <1>2, <1>3
  <1>5. WellKept(vs)
    BY <1>2, <1>4, SameScopes
  <1>6. Calm(ws) => Calm(vs)
    BY <1>2, <1>3 DEF Calm
  <1>7. \A u : AllGrounded(ws, u) => AllGrounded(vs, u)
    BY <1>2, <1>3 DEF AllGrounded
  <1> QED
    BY <1>2, <1>3, <1>5, <1>6, <1>7 DEF vs

\* A window opened again or marked for removal.
LEMMA OpenFacts ==
  ASSUME NEW ws, WellKept(ws), NEW i \in DOMAIN ws, NEW open \in BOOLEAN
  PROVE  LET vs == [ws EXCEPT ![i].open = open]
         IN  /\ WellKept(vs)
             /\ Calm(ws) => Calm(vs)
             /\ \A u : AllGrounded(ws, u) => AllGrounded(vs, u)
             /\ \A u : AllFresh(ws, u) => AllFresh(vs, u)
  <1> DEFINE w == [ws[i] EXCEPT !.open = open]
             vs == [ws EXCEPT ![i].open = open]
  <1>1. \A j \in DOMAIN ws : ws[j] \in Window
    BY DEF WellKept
  <1>2. /\ w \in Window /\ w.scope = ws[i].scope /\ w.simulating = ws[i].simulating
        /\ w.file = ws[i].file /\ w.scene = ws[i].scene
    BY <1>1 DEF Window
  <1>3. /\ DOMAIN vs = DOMAIN ws /\ vs[i] = w
        /\ \A j \in DOMAIN ws : j # i => vs[j] = ws[j]
        /\ vs = [j \in DOMAIN ws |-> vs[j]]
    BY DEF WellKept
  <1> HIDE DEF vs, w
  <1>4. \A j \in DOMAIN ws : vs[j] \in Window /\ vs[j].scope = ws[j].scope
    BY <1>1, <1>2, <1>3
  <1>5. WellKept(vs)
    BY <1>3, <1>4, SameScopes
  <1>6. Calm(ws) => Calm(vs)
    BY <1>2, <1>3 DEF Calm
  <1>7. \A u : Grounded(vs[i], u) <=> Grounded(ws[i], u)
    BY <1>2, <1>3 DEF Grounded
  <1>8. \A u : Fresh(vs[i], u) <=> Fresh(ws[i], u)
    BY <1>2, <1>3 DEF Fresh, Rendered, Within
  <1>9. \A u : AllGrounded(ws, u) => AllGrounded(vs, u)
    BY <1>3, <1>7 DEF AllGrounded
  <1>10. \A u : AllFresh(ws, u) => AllFresh(vs, u)
    BY <1>3, <1>8 DEF AllFresh
  <1> QED
    BY <1>5, <1>6, <1>9, <1>10 DEF vs

\* A window added for a scope that has none.
LEMMA AddedFacts ==
  ASSUME NEW ws, WellKept(ws), NEW w \in Window,
         \A i \in 1 .. Len(ws) : ws[i].scope # w.scope
  PROVE  /\ WellKept(Append(ws, w))
         /\ Calm(ws) /\ ~w.simulating => Calm(Append(ws, w))
         /\ \A u : AllGrounded(ws, u) /\ Grounded(w, u) => AllGrounded(Append(ws, w), u)
         /\ \A u : AllFresh(ws, u) /\ Fresh(w, u) => AllFresh(Append(ws, w), u)
  <1> DEFINE vs == Append(ws, w)
  <1>1. /\ ws \in Seq(Window) /\ ws # <<>> /\ ws[1].scope = Root
        /\ \A i, j \in DOMAIN ws : ws[i].scope = ws[j].scope => i = j
        /\ Len(ws) \in Nat /\ DOMAIN ws = 1 .. Len(ws)
    BY DEF WellKept
  <1>2. /\ vs \in Seq(Window) /\ vs # <<>> /\ DOMAIN vs = 1 .. Len(ws) + 1
        /\ vs[Len(ws) + 1] = w /\ \A i \in DOMAIN ws : vs[i] = ws[i]
    BY <1>1
  <1> HIDE DEF vs
  <1>3. /\ \A i \in DOMAIN vs : i \in DOMAIN ws \/ i = Len(ws) + 1
        /\ DOMAIN ws \subseteq DOMAIN vs
    BY <1>1, <1>2
  <1>4. vs[1].scope = Root
    <2>1. 1 \in DOMAIN ws
      BY <1>1
    <2> QED
      BY <1>1, <1>2, <2>1
  <1>5. \A i, j \in DOMAIN vs : vs[i].scope = vs[j].scope => i = j
    BY <1>1, <1>2, <1>3
  <1>6. WellKept(vs)
    BY <1>2, <1>4, <1>5 DEF WellKept
  <1>7. Calm(ws) /\ ~w.simulating => Calm(vs)
    BY <1>2, <1>3 DEF Calm
  <1>8. \A u : AllGrounded(ws, u) /\ Grounded(w, u) => AllGrounded(vs, u)
    BY <1>2, <1>3 DEF AllGrounded
  <1>9. \A u : AllFresh(ws, u) /\ Fresh(w, u) => AllFresh(vs, u)
    BY <1>2, <1>3 DEF AllFresh
  <1> QED
    BY <1>6, <1>7, <1>8, <1>9 DEF vs

\* openSubWindow: the window is there already, is added with what its scope
\* asks for, or nothing happens.
LEMMA OpenSubWindowFacts ==
  ASSUME NEW ws, WellKept(ws), NEW t \in Trees, NEW target \in Scope, target.path # <<>>
  PROVE  LET vs == OpenSubWindow(ws, t, target)
         IN  /\ WellKept(vs)
             /\ Calm(ws) => Calm(vs)
             /\ AllGrounded(ws, t) => AllGrounded(vs, t)
             /\ AllFresh(ws, t) => AllFresh(vs, t)
  <1> DEFINE path == target.path
             n == Last(path)
             sheet == ParentSheet(ws, t, path)
             Good(vs) == /\ WellKept(vs)
                         /\ Calm(ws) => Calm(vs)
                         /\ AllGrounded(ws, t) => AllGrounded(vs, t)
                         /\ AllFresh(ws, t) => AllFresh(vs, t)
  <1>1. Len(ws) \in Nat /\ DOMAIN ws = 1 .. Len(ws) /\ \A i \in DOMAIN ws : ws[i] \in Window
    BY DEF WellKept
  <1>2. /\ path \in Seq(NodeId) /\ path # <<>> /\ Front(path) \in Seq(NodeId)
        /\ n \in NodeId /\ path = Append(Front(path), n)
        /\ Len(Front(path)) = Len(path) - 1 /\ Len(path) \in Nat \ {0}
    <2>1. path \in Seq(NodeId) /\ path # <<>>
      BY ScopeFacts
    <2> HIDE DEF path
    <2> QED
      BY <2>1, FrontFacts
  <1>3. Good(ws)
    OBVIOUS
  <1>4. ASSUME NEW scope, Find(ws, scope) # 0
        PROVE  Good(Reopened(ws, Find(ws, scope)))
    <2>1. Find(ws, scope) \in DOMAIN ws
      BY <1>1, <1>4, FindFacts
    <2> HIDE DEF Good
    <2> QED
      BY <2>1, OpenFacts DEF Reopened, Good
  <1>5. ASSUME NEW scope \in Scope, NEW file \in BlueprintId \cup {NoFile}, Find(ws, scope) = 0,
               scope.mode = "external" => file \in BlueprintId,
               AllGrounded(ws, t) => Grounded(NewWindow(t, scope, file), t)
        PROVE  Good(Append(ws, NewWindow(t, scope, file)))
    <2>1. \A i \in 1 .. Len(ws) : ws[i].scope # scope
      BY <1>1, <1>5, FindFacts
    <2> DEFINE w == NewWindow(t, scope, file)
    <2>2. w \in Window /\ w.scope = scope /\ ~w.simulating /\ Fresh(w, t)
      BY <1>5, NewWindowFacts
    <2> HIDE DEF w
    <2>3. AllGrounded(ws, t) => Grounded(w, t)
      BY <1>5 DEF w
    <2>4. Good(Append(ws, w))
      BY <2>1, <2>2, <2>3, AddedFacts
    <2> QED
      BY <2>4 DEF w
  <1>6. Good(OpenEmbedded(ws, t, target))
    <2>1. CASE Find(ws, target) # 0
      BY <1>4, <2>1 DEF OpenEmbedded
    <2>2. CASE Find(ws, target) = 0 /\ target.mode = "embedded" /\ Exists(t, path)
      <3>1. NewWindow(t, target, NoFile).scope = target
        BY <2>2, NewWindowFacts
      <3>2. Grounded(NewWindow(t, target, NoFile), t)
        BY <2>2, <3>1 DEF Grounded
      <3>3. OpenEmbedded(ws, t, target) = Append(ws, NewWindow(t, target, NoFile))
        BY <2>2 DEF OpenEmbedded
      <3> HIDE DEF Good
      <3> QED
        BY <1>5, <2>2, <3>2, <3>3
    <2>3. CASE Find(ws, target) = 0 /\ ~(target.mode = "embedded" /\ Exists(t, path))
      BY <1>3, <2>3 DEF OpenEmbedded
    <2> QED
      BY <2>1, <2>2, <2>3
  <1>7. ASSUME n \in DOMAIN sheet, sheet[n].kind = "reference"
        PROVE  Good(OpenExternal(ws, t, ExternalScope(path), sheet[n].data))
    <2> DEFINE scope == ExternalScope(path)
               i == Find(ws, ExternalScope(Front(path)))
               file == sheet[n].data
    <2>1. scope \in Scope /\ scope.mode = "external" /\ scope.path = path
      BY <1>2, ScopeFacts DEF ExternalScope
    <2>2. sheet[n] \in Node
      <3>1. CASE Len(path) > 1 /\ i # 0
        <4>1. sheet = Sheet(Library[ws[i].file], <<>>)
          BY <3>1 DEF ParentSheet
        <4>2. i \in DOMAIN ws /\ ws[i].scope.mode = "external"
          BY <1>1, <3>1, FindFacts DEF ExternalScope
        <4>3. ws[i].file \in BlueprintId
          BY <1>1, <4>2 DEF Window
        <4>4. Library[ws[i].file] \in Trees /\ <<>> \in Seq(NodeId)
          BY <4>3, TreeFacts
        <4> HIDE DEF sheet, i
        <4> QED
          BY <1>7, <4>1, <4>4, SheetFacts
      <3>2. CASE ~(Len(path) > 1 /\ i # 0) /\ Exists(t, Front(path))
        <4>1. sheet = Sheet(t, Front(path))
          BY <3>2 DEF ParentSheet
        <4> HIDE DEF sheet
        <4> QED
          BY <1>2, <1>7, <4>1, SheetFacts
      <3>3. CASE ~(Len(path) > 1 /\ i # 0) /\ ~Exists(t, Front(path))
        <4>1. sheet = <<>>
          BY <3>3 DEF ParentSheet
        <4>2. DOMAIN <<>> = {}
          OBVIOUS
        <4> QED
          BY <1>7, <4>1, <4>2
      <3> QED
        BY <3>1, <3>2, <3>3
    <2>3. file \in BlueprintId /\ sheet[n] = [kind |-> "reference", data |-> file]
      <3> HIDE DEF sheet
      <3> QED
        BY <1>7, <2>2 DEF Node, Part, Bridge, Embedded, Ref
    <2>4. CASE Find(ws, scope) # 0
      BY <1>4, <2>4 DEF OpenExternal
    <2>5. CASE Find(ws, scope) = 0
      <3> DEFINE w == NewWindow(t, scope, file)
      <3>1. w.scope = scope /\ w.file = file
        BY <2>1, <2>3, NewWindowFacts
      <3>2. ASSUME Len(path) = 1
            PROVE  path \in DOMAIN t /\ t[path] = [kind |-> "reference", data |-> file]
        <4>1. Front(path) = <<>> /\ ~(Len(path) > 1)
          BY <1>2, <3>2
        <4>2. sheet = Sheet(t, <<>>)
          <5>1. Exists(t, <<>>)
            BY DEF Exists
          <5> QED
            BY <4>1, <5>1 DEF ParentSheet
        <4>3. <<>> \in Seq(NodeId)
          OBVIOUS
        <4> HIDE DEF sheet, n, path, file
        <4>4. Append(<<>>, n) \in DOMAIN t /\ t[Append(<<>>, n)] = sheet[n]
          BY <1>7, <4>2, <4>3, SheetFacts
        <4> QED
          BY <1>2, <2>3, <4>1, <4>4
      <3>3. Grounded(w, t)
        <4> HIDE DEF w, file
        <4> QED
          BY <2>1, <3>1, <3>2 DEF Grounded
      <3>4. OpenExternal(ws, t, scope, file) = Append(ws, w)
        BY <2>5 DEF OpenExternal
      <3>5. Good(OpenExternal(ws, t, scope, file))
        <4> HIDE DEF Good, scope, file
        <4> QED
          BY <1>5, <2>1, <2>3, <2>5, <3>3, <3>4
      <3> QED
        BY <3>5
    <2> QED
      BY <2>4, <2>5
  <1>8. \/ OpenSubWindow(ws, t, target) = ws
        \/ OpenSubWindow(ws, t, target) = OpenEmbedded(ws, t, target)
        \/ /\ n \in DOMAIN sheet /\ sheet[n].kind = "reference"
           /\ OpenSubWindow(ws, t, target)
                = OpenExternal(ws, t, ExternalScope(path), sheet[n].data)
    BY DEF OpenSubWindow
  <1>9. Good(OpenSubWindow(ws, t, target))
    <2> HIDE DEF Good, sheet, n, path
    <2> QED
      BY <1>3, <1>6, <1>7, <1>8
  <1> QED
    BY <1>9

-----------------------------------------------------------------------------
(* The invariant.                                                          *)

\* Windows are in order and, without a simulation, none is in its mode; while
\* the program lives each has its ground, and, when no addition was rolled
\* back, shows its blueprint.
IInv ==
  /\ doc \in Docs
  /\ running \in BOOLEAN /\ stale \in BOOLEAN /\ halted \in BOOLEAN
  /\ WellKept(windows)
  /\ ~running => Calm(windows)
  /\ ~halted => AllGrounded(windows, doc.current)
  /\ ~halted /\ ~stale => AllFresh(windows, doc.current)

\* The history yields documents.
LEMMA DocFacts ==
  ASSUME NEW d \in Docs
  PROVE  /\ d.current \in Trees
         /\ \A t \in Trees : /\ Opened(t) \in Docs /\ Opened(t).current = t
                             /\ Edited(d, t) \in Docs /\ Edited(d, t).current = t
         /\ d.undo # <<>> => Undone(d) \in Docs
         /\ d.redo # <<>> => Redone(d) \in Docs
         /\ \A t \in Trees : [d EXCEPT !.current = t] \in Docs
                             /\ [d EXCEPT !.current = t].current = t
  <1>1. d.current \in Trees /\ d.undo \in Seq(Trees) /\ d.redo \in Seq(Trees)
    BY DEF Docs
  <1>2. ASSUME NEW s \in Seq(Trees), s # <<>>
        PROVE  Front(s) \in Seq(Trees) /\ Last(s) \in Trees /\ Tail(s) \in Seq(Trees)
    <2>1. Len(s) \in Nat \ {0} /\ Len(s) \in 1 .. Len(s) /\ Tail(s) \in Seq(Trees)
      BY <1>2
    <2>2. Last(s) \in Trees
      BY <2>1 DEF Last
    <2>3. \A i \in 1 .. Len(s) - 1 : s[i] \in Trees
      BY <2>1
    <2>4. Front(s) \in Seq(Trees)
      <3>1. 1 \in Int /\ Len(s) - 1 \in Int
        BY <2>1
      <3> QED
        BY <2>3, <3>1, SubSeqProperties DEF Front
    <2> QED
      BY <2>1, <2>2, <2>4
  <1>3. ASSUME NEW t \in Trees
        PROVE  Opened(t) \in Docs /\ Opened(t).current = t
    BY DEF Opened, Docs
  <1>4. ASSUME NEW t \in Trees
        PROVE  Edited(d, t) \in Docs /\ Edited(d, t).current = t
    <2>1. CASE t = d.current
      BY <2>1 DEF Edited
    <2>2. CASE t # d.current
      <3> DEFINE older == IF Len(d.undo) < MaxHistory THEN d.undo ELSE Tail(d.undo)
                 undo == IF MaxHistory = 0 THEN <<>> ELSE Append(older, d.current)
      <3>1. Edited(d, t) = [current |-> t, redo |-> <<>>, undo |-> undo]
        BY <2>2 DEF Edited
      <3>2. MaxHistory # 0 => older \in Seq(Trees)
        <4>1. CASE d.undo # <<>>
          BY <1>1, <1>2, <4>1
        <4>2. CASE d.undo = <<>>
          <5>1. Len(d.undo) = 0 /\ MaxHistory \in Nat
            BY <4>2, WindowsAssumption
          <5> QED
            BY <1>1, <5>1
        <4> QED
          BY <4>1, <4>2
      <3> HIDE DEF older
      <3>3. undo \in Seq(Trees)
        BY <1>1, <3>2
      <3> HIDE DEF undo
      <3> QED
        BY <3>1, <3>3 DEF Docs
    <2> QED
      BY <2>1, <2>2
  <1>5. d.undo # <<>> => Undone(d) \in Docs
    <2> SUFFICES ASSUME d.undo # <<>> PROVE Undone(d) \in Docs
      OBVIOUS
    <2>1. /\ Front(d.undo) \in Seq(Trees) /\ Last(d.undo) \in Trees
          /\ Append(d.redo, d.current) \in Seq(Trees)
      BY <1>1, <1>2
    <2> QED
      BY <2>1 DEF Undone, Docs
  <1>6. d.redo # <<>> => Redone(d) \in Docs
    <2> SUFFICES ASSUME d.redo # <<>> PROVE Redone(d) \in Docs
      OBVIOUS
    <2>1. /\ Front(d.redo) \in Seq(Trees) /\ Last(d.redo) \in Trees
          /\ Append(d.undo, d.current) \in Seq(Trees)
      BY <1>1, <1>2
    <2> QED
      BY <2>1 DEF Redone, Docs
  <1>7. \A t \in Trees : [d EXCEPT !.current = t] \in Docs
                         /\ [d EXCEPT !.current = t].current = t
    BY DEF Docs
  <1> QED
    BY <1>1, <1>3, <1>4, <1>5, <1>6, <1>7

\* The scope of a window that takes edits is told by its path, and no other
\* window of the document has that path.
LEMMA DocumentScope ==
  ASSUME NEW ws, WellKept(ws), NEW i \in DOMAIN ws, ~ws[i].read_only
  PROVE  /\ ws[i].scope.path \in Seq(NodeId)
         /\ ws[i].scope = IF ws[i].scope.path = <<>> THEN Root
                          ELSE EmbeddedScope(ws[i].scope.path)
         /\ \A j \in DOMAIN ws : j # i /\ ws[j].scope.mode # "external" =>
              ws[j].scope.path # ws[i].scope.path
  <1>1. /\ \A j \in DOMAIN ws : ws[j] \in Window
        /\ \A j, k \in DOMAIN ws : ws[j].scope = ws[k].scope => j = k
    BY DEF WellKept
  <1>2. \A j \in DOMAIN ws : ws[j].scope \in Scope
    BY <1>1 DEF Window
  <1>3. ASSUME NEW j \in DOMAIN ws, ws[j].scope.mode # "external"
        PROVE  ws[j].scope = IF ws[j].scope.path = <<>> THEN Root
                             ELSE EmbeddedScope(ws[j].scope.path)
    <2>1. CASE ws[j].scope.mode = "root"
      <3>1. ws[j].scope = Root
        BY <1>2, <2>1, ScopeFacts
      <3> QED
        BY <3>1 DEF Root
    <2>2. CASE ws[j].scope.mode = "embedded"
      BY <1>2, <2>2, ScopeFacts
    <2> QED
      BY <1>2, <1>3, <2>1, <2>2, ScopeFacts
  <1>4. ws[i].scope.mode # "external"
    BY <1>1 DEF Window
  <1>5. ws[i].scope.path \in Seq(NodeId)
    BY <1>2, ScopeFacts
  <1>6. \A j \in DOMAIN ws : j # i /\ ws[j].scope.mode # "external" =>
          ws[j].scope.path # ws[i].scope.path
    BY <1>1, <1>3, <1>4
  <1> QED
    BY <1>3, <1>4, <1>5, <1>6

\* A window whose sheet is the same in two trees shows both or neither.
LEMMA SameView ==
  ASSUME NEW w, NEW t, NEW u,
         w.scope.mode = "external" \/ Sheet(u, w.scope.path) = Sheet(t, w.scope.path)
  PROVE  Fresh(w, t) <=> Fresh(w, u)
  BY DEF Fresh, Rendered, Within

\* A part changed: a tree again, the same blueprints and references in it, and
\* the same sheets but one.
LEMMA PartChange ==
  ASSUME NEW t \in Trees, NEW path \in Seq(NodeId), NEW n \in DOMAIN Sheet(t, path),
         Sheet(t, path)[n].kind = "part", NEW part \in Part
  PROVE  LET u == With(t, Append(path, n), part)
         IN  /\ u \in Trees
             /\ \A q \in Seq(NodeId) : q # path => Sheet(u, q) = Sheet(t, q)
             /\ \A w \in Window : Grounded(w, t) => Grounded(w, u)
  <1> DEFINE p == Append(path, n)
             u == With(t, p, part)
  <1>1. n \in NodeId /\ p \in DOMAIN t /\ t[p].kind = "part"
    BY SheetFacts
  <1>2. p \in Path /\ p \in Seq(NodeId) /\ part \in Node
    BY <1>1, TreeFacts DEF Node
  <1>3. /\ u \in Trees /\ DOMAIN u = DOMAIN t /\ u[p] = part
        /\ \A q \in DOMAIN t \ {p} : u[q] = t[q]
    <2> HIDE DEF p
    <2>1. u \in Trees
      BY <1>2, EditFacts
    <2>2. /\ DOMAIN u = DOMAIN t \cup {p} /\ u[p] = part
          /\ \A q \in DOMAIN t \ {p} : u[q] = t[q]
      BY DEF With
    <2> QED
      BY <1>1, <2>1, <2>2
  <1>4. \A q \in Seq(NodeId) : q # path => Sheet(u, q) = Sheet(t, q)
    BY <1>1, <1>2, WithLeavesOthers
  <1> HIDE DEF u, p
  <1>5. part.kind = "part"
    BY DEF Part
  <1>6. \A q : Exists(t, q) => Exists(u, q)
    <2> TAKE q
    <2> HAVE Exists(t, q)
    <2>1. ASSUME NEW r, r \in DOMAIN t, t[r].kind = "embedded"
          PROVE  r \in DOMAIN u /\ u[r].kind = "embedded"
      <3>1. r # p
        BY <1>1, <2>1
      <3> QED
        BY <1>3, <2>1, <3>1
    <2> QED
      BY <2>1 DEF Exists
  <1>7. ASSUME NEW w \in Window, Grounded(w, t)
        PROVE  Grounded(w, u)
    <2>1. ASSUME w.scope.mode = "external", Len(w.scope.path) = 1
          PROVE  /\ w.scope.path \in DOMAIN u
                 /\ u[w.scope.path] = [kind |-> "reference", data |-> w.file]
      <3>1. /\ w.scope.path \in DOMAIN t
            /\ t[w.scope.path] = [kind |-> "reference", data |-> w.file]
        BY <1>7, <2>1 DEF Grounded
      <3>2. t[w.scope.path].kind = "reference"
        BY <3>1
      <3>3. w.scope.path # p
        BY <1>1, <3>2
      <3> QED
        BY <1>3, <3>1, <3>3
    <2> QED
      BY <1>6, <1>7, <2>1 DEF Grounded
  <1> QED
    BY <1>3, <1>4, <1>7 DEF u, p

-----------------------------------------------------------------------------
(* The steps.                                                              *)

\* Windows taken from a list have what those of the list have.
LEMMA TakenFrom ==
  ASSUME NEW ws, NEW vs, \A j \in DOMAIN vs : \E k \in DOMAIN ws : vs[j] = ws[k]
  PROVE  /\ Calm(ws) => Calm(vs)
         /\ \A u : AllGrounded(ws, u) => AllGrounded(vs, u)
         /\ \A u : AllFresh(ws, u) => AllFresh(vs, u)
  <1>1. Calm(ws) => Calm(vs)
    BY DEF Calm
  <1>2. \A u : AllGrounded(ws, u) => AllGrounded(vs, u)
    BY DEF AllGrounded
  <1>3. \A u : AllFresh(ws, u) => AllFresh(vs, u)
    BY DEF AllFresh
  <1> QED
    BY <1>1, <1>2, <1>3

\* The bridge's rebuild leaves the windows as they are, or takes all of them
\* out of simulation mode when it stops.
LEMMA RebuildFacts ==
  ASSUME running \in BOOLEAN, NEW ws, WellKept(ws), ~running => Calm(ws),
         RebuildSimulation(ws)
  PROVE  /\ running' \in BOOLEAN /\ WellKept(windows') /\ (~running' => Calm(windows'))
         /\ \A u : AllGrounded(ws, u) => AllGrounded(windows', u)
         /\ \A u : AllFresh(ws, u) => AllFresh(windows', u)
  <1>1. PICK on \in {running, FALSE} :
          /\ running' = on
          /\ windows' = IF running /\ ~on THEN SimulationMode(ws, FALSE) ELSE ws
    BY DEF RebuildSimulation
  <1>2. CASE running /\ ~on
    <2>1. windows' = SimulationMode(ws, FALSE)
      BY <1>1, <1>2
    <2> QED
      BY <1>1, <2>1, ModeFacts
  <1>3. CASE ~(running /\ ~on)
    <2>1. windows' = ws /\ running' = running
      BY <1>1, <1>3
    <2> QED
      BY <2>1
  <1> QED
    BY <1>2, <1>3

\* Orphans removed and the others drawn: what dialogs, menus, undo and redo do.
LEMMA ReconcileFacts ==
  ASSUME IInv, NEW d \in Docs, Reconcile(d)
  PROVE  IInv'
  <1> DEFINE t == d.current
             rest == WithoutOrphans(windows, t)
             drawn == Redrawn(rest, t)
  <1>1. t \in Trees /\ doc' = d
    BY DocFacts DEF Reconcile
  <1>2. CASE CrashesOn(windows, t) \/ ~Flattens(t)
    <2>1. halted' = TRUE /\ UNCHANGED <<windows, running, stale>>
      BY <1>2 DEF Reconcile, Halt
    <2> QED
      BY <1>1, <2>1 DEF IInv
  <1>3. CASE ~CrashesOn(windows, t) /\ Flattens(t)
    <2>1. RebuildSimulation(drawn) /\ stale' = FALSE /\ halted' = FALSE
      BY <1>3 DEF Reconcile
    <2>2. /\ WellKept(rest) /\ AllGrounded(rest, t)
          /\ \A j \in DOMAIN rest : \E k \in DOMAIN windows : rest[j] = windows[k]
      BY <1>1, <1>3, OrphansRemoved DEF IInv
    <2>3. ~running => Calm(rest)
      BY <2>2, TakenFrom DEF IInv
    <2> HIDE DEF rest, t
    <2>4. /\ WellKept(drawn) /\ AllFresh(drawn, t) /\ DOMAIN drawn = DOMAIN rest
          /\ \A i \in DOMAIN rest : /\ drawn[i].simulating = rest[i].simulating
                                    /\ \A u : Grounded(drawn[i], u) <=> Grounded(rest[i], u)
      BY <1>1, <2>2, RedrawnFacts
    <2> HIDE DEF drawn
    <2>5. AllGrounded(drawn, t) /\ (~running => Calm(drawn))
      BY <2>2, <2>3, <2>4 DEF AllGrounded, Calm
    <2>6. /\ running' \in BOOLEAN /\ WellKept(windows') /\ (~running' => Calm(windows'))
          /\ AllGrounded(windows', t) /\ AllFresh(windows', t)
      BY <2>1, <2>4, <2>5, RebuildFacts DEF IInv
    <2> QED
      BY <1>1, <2>1, <2>6 DEF IInv, t
  <1> QED
    BY <1>2, <1>3

\* The canvas of window i changed a node of its blueprint, or deleted one with
\* everything below it: blueprints that are left show what they showed.
LEMMA ApplyFacts ==
  ASSUME IInv, NEW i \in Editable, NEW t \in Trees,
         \A q \in Seq(NodeId) : q # windows[i].scope.path /\ Exists(t, q) =>
           Sheet(t, q) = Sheet(doc.current, q),
         ApplyResult(i, Edited(doc, t))
  PROVE  IInv'
  <1> DEFINE ws == [windows EXCEPT ![i] = Drawn(t, @)]
             rest == WithoutOrphans(ws, t)
  <1>1. Edited(doc, t) \in Docs /\ Edited(doc, t).current = t /\ doc' = Edited(doc, t)
    BY DocFacts DEF IInv, ApplyResult
  <1>2. i \in DOMAIN windows /\ ~windows[i].read_only /\ ~halted
    BY DEF Editable, Shown
  <1>3. CASE ~Flattens(t) \/ CrashesOn(ws, t)
    <2>1. halted' = TRUE /\ UNCHANGED <<windows, running, stale>>
      BY <1>1, <1>3 DEF ApplyResult, Halt
    <2> QED
      BY <1>1, <2>1 DEF IInv
  <1>4. CASE Flattens(t) /\ ~CrashesOn(ws, t)
    <2>1. /\ RebuildSimulation(rest) /\ stale' = stale
          /\ RestOfPass(i, rest)
      BY <1>1, <1>4 DEF ApplyResult
    <2>2. halted' \in BOOLEAN
      BY <2>1 DEF RestOfPass
    <2>3. /\ WellKept(ws) /\ DOMAIN ws = DOMAIN windows /\ (Calm(windows) => Calm(ws))
          /\ ws[i].scope = windows[i].scope /\ Fresh(ws[i], t)
          /\ \A j \in DOMAIN windows : j # i => ws[j] = windows[j]
      BY <1>2, OneDrawn DEF IInv
    <2> HIDE DEF ws
    <2>4. /\ WellKept(rest) /\ AllGrounded(rest, t)
          /\ \A j \in DOMAIN rest : \E k \in DOMAIN ws : rest[j] = ws[k]
      BY <1>4, <2>3, OrphansRemoved
    <2> HIDE DEF rest
    <2>5. ~running => Calm(rest)
      BY <2>3, <2>4, TakenFrom DEF IInv
    <2>6. ASSUME ~stale PROVE AllFresh(rest, t)
      <3> SUFFICES ASSUME NEW j \in DOMAIN rest PROVE Fresh(rest[j], t)
        BY DEF AllFresh
      <3>1. PICK k \in DOMAIN ws : rest[j] = ws[k]
        BY <2>4
      <3>2. CASE k = i
        BY <2>3, <3>1, <3>2
      <3>3. CASE k # i
        <4> DEFINE w == windows[k]
        <4>1. rest[j] = w /\ k \in DOMAIN windows /\ w \in Window
          BY <2>3, <3>1, <3>3 DEF IInv, WellKept
        <4>2. Fresh(w, doc.current)
          BY <1>2, <2>6, <4>1 DEF IInv, AllFresh
        <4>3. CASE w.scope.mode = "external"
          BY <4>1, <4>2, <4>3, SameView
        <4>4. CASE w.scope.mode # "external"
          <5>1. w.scope \in Scope
            BY <4>1 DEF Window
          <5>2. w.scope.path \in Seq(NodeId) /\ w.scope.path # windows[i].scope.path
            BY <1>2, <3>3, <4>1, <4>4, <5>1, ScopeFacts, DocumentScope DEF IInv
          <5>3. Exists(t, w.scope.path)
            <6>1. CASE w.scope.mode = "root"
              <7>1. w.scope.path = <<>>
                BY <5>1, <6>1, ScopeFacts DEF Root
              <7> QED
                BY <7>1 DEF Exists
            <6>2. CASE w.scope.mode = "embedded"
              BY <2>4, <4>1, <6>2 DEF AllGrounded, Grounded
            <6> QED
              BY <4>4, <5>1, <6>1, <6>2, ScopeFacts
          <5>4. Sheet(t, w.scope.path) = Sheet(doc.current, w.scope.path)
            BY <5>2, <5>3
          <5> QED
            BY <4>1, <4>2, <5>4, SameView
        <4> QED
          BY <4>3, <4>4
      <3> QED
        BY <3>2, <3>3
    <2>7. /\ running' \in BOOLEAN /\ WellKept(windows') /\ (~running' => Calm(windows'))
          /\ AllGrounded(windows', t) /\ (~stale => AllFresh(windows', t))
      BY <2>1, <2>4, <2>5, <2>6, RebuildFacts DEF IInv
    <2> QED
      BY <1>1, <2>1, <2>2, <2>7 DEF IInv
  <1> QED
    BY <1>3, <1>4

\* A part changed from the window that shows it, with no more done than to draw it.
LEMMA ChangeFacts ==
  ASSUME IInv, NEW i \in Shown, ~windows[i].read_only,
         NEW t \in Changes(windows[i].scope.path), doc' = Edited(doc, t),
         windows' = [windows EXCEPT ![i] = Drawn(t, @)],
         UNCHANGED <<running, stale, halted>>
  PROVE  IInv'
  <1> DEFINE path == windows[i].scope.path
             cur == doc.current
             vs == [windows EXCEPT ![i] = Drawn(t, @)]
  <1>1. i \in DOMAIN windows /\ ~halted
    BY DEF Shown
  <1>2. path \in Seq(NodeId) /\ cur \in Trees
    BY <1>1, DocumentScope, DocFacts DEF IInv
  <1>3. PICK n \in DOMAIN Sheet(cur, path), part \in Part :
          Sheet(cur, path)[n].kind = "part" /\ t = With(cur, Append(path, n), part)
    BY DEF Changes
  <1>4. /\ t \in Trees
        /\ \A q \in Seq(NodeId) : q # path => Sheet(t, q) = Sheet(cur, q)
        /\ \A w \in Window : Grounded(w, cur) => Grounded(w, t)
    <2> HIDE DEF path, cur
    <2> QED
      BY <1>2, <1>3, PartChange
  <1>5. Edited(doc, t) \in Docs /\ Edited(doc, t).current = t
    BY <1>4, DocFacts DEF IInv
  <1>6. /\ WellKept(vs) /\ DOMAIN vs = DOMAIN windows /\ (Calm(windows) => Calm(vs))
        /\ \A u : AllGrounded(windows, u) => AllGrounded(vs, u)
        /\ Fresh(vs[i], t) /\ \A j \in DOMAIN windows : j # i => vs[j] = windows[j]
    BY <1>1, <1>4, OneDrawn DEF IInv
  <1> HIDE DEF vs
  <1>7. \A j \in DOMAIN windows : windows[j] \in Window
    BY DEF IInv, WellKept
  <1>8. AllGrounded(vs, t)
    <2>1. AllGrounded(windows, t)
      BY <1>1, <1>4, <1>7 DEF IInv, AllGrounded
    <2> QED
      BY <1>6, <2>1
  <1>9. ASSUME ~stale PROVE AllFresh(vs, t)
    <2> SUFFICES ASSUME NEW j \in DOMAIN windows, j # i PROVE Fresh(windows[j], t)
      BY <1>6 DEF AllFresh
    <2>1. Fresh(windows[j], cur)
      BY <1>1, <1>9 DEF IInv, AllFresh
    <2>2. CASE windows[j].scope.mode = "external"
      BY <2>1, <2>2, SameView
    <2>3. CASE windows[j].scope.mode # "external"
      <3>1. windows[j].scope \in Scope
        BY <1>7 DEF Window
      <3>2. windows[j].scope.path \in Seq(NodeId) /\ windows[j].scope.path # path
        BY <1>1, <2>3, <3>1, ScopeFacts, DocumentScope DEF IInv
      <3>3. Sheet(t, windows[j].scope.path) = Sheet(cur, windows[j].scope.path)
        BY <1>4, <3>2
      <3> QED
        BY <2>1, <3>3, SameView
    <2> QED
      BY <2>2, <2>3
  <1>10. windows' = vs
    BY DEF vs
  <1> QED
    BY <1>5, <1>6, <1>8, <1>9, <1>10 DEF IInv

\* What the paths of dialogs and the changes of a part are.
LEMMA EditTypes ==
  ASSUME IInv
  PROVE  /\ \A path \in Scopes : path \in Seq(NodeId)
         /\ \A path \in Seq(NodeId) : Changes(path) \subseteq Trees
         /\ \A i \in Shown : i \in DOMAIN windows /\ windows[i] \in Window /\ ~halted
         /\ \A i \in Shown : ~windows[i].read_only => windows[i].scope.path \in Seq(NodeId)
         /\ \A i \in Shown : windows[i].scope \in Scope /\ windows[i].scene \in Scenes
  <1>1. ASSUME NEW i \in Shown
        PROVE  /\ i \in DOMAIN windows /\ windows[i] \in Window /\ ~halted
               /\ windows[i].scope \in Scope /\ windows[i].scene \in Scenes
               /\ ~windows[i].read_only => windows[i].scope.path \in Seq(NodeId)
    <2>1. i \in DOMAIN windows /\ windows[i] \in Window /\ ~halted
      BY DEF Shown, IInv, WellKept
    <2> QED
      BY <2>1, DocumentScope DEF IInv, Window
  <1>2. ASSUME NEW path \in Scopes
        PROVE  path \in Seq(NodeId)
    BY <1>1 DEF Scopes
  <1>3. ASSUME NEW path \in Seq(NodeId), NEW t \in Changes(path)
        PROVE  t \in Trees
    <2>1. doc.current \in Trees
      BY DocFacts DEF IInv
    <2>2. PICK n \in DOMAIN Sheet(doc.current, path), part \in Part :
            /\ Sheet(doc.current, path)[n].kind = "part"
            /\ t = With(doc.current, Append(path, n), part)
      BY DEF Changes
    <2> QED
      BY <2>1, <2>2, PartChange
  <1> QED
    BY <1>1, <1>2, <1>3

LEMMA InitHolds == Init => IInv
  <1> SUFFICES ASSUME Init PROVE IInv
    OBVIOUS
  <1>1. PICK t \in Files : doc = Opened(t)
    BY DEF Init
  <1>2. doc \in Docs /\ doc.current = t /\ t \in Trees
    <2>1. Opened(t) = [current |-> t, undo |-> <<>>, redo |-> <<>>] /\ t \in Trees
      BY TreeFacts DEF Opened
    <2> QED
      BY <1>1, <2>1 DEF Docs
  <1> DEFINE w == NewWindow(t, Root, NoFile)
  <1>3. w \in Window /\ w.scope = Root /\ ~w.simulating /\ Fresh(w, t)
    BY <1>2, ScopeFacts, NewWindowFacts DEF Root
  <1>4. windows = <<w>> /\ running = FALSE /\ stale = FALSE /\ halted = FALSE
    BY <1>2 DEF Init
  <1> HIDE DEF w
  <1>5. windows \in Seq(Window) /\ windows # <<>> /\ DOMAIN windows = {1} /\ windows[1] = w
    BY <1>3, <1>4
  <1>6. Grounded(w, t)
    BY <1>3 DEF Grounded, Root
  <1>7. WellKept(windows) /\ Calm(windows) /\ AllGrounded(windows, t) /\ AllFresh(windows, t)
    BY <1>3, <1>5, <1>6 DEF WellKept, Calm, AllGrounded, AllFresh
  <1> QED
    BY <1>2, <1>4, <1>7 DEF IInv

\* An addition that is rolled back: the windows that are left had their ground
\* in the document before.
LEMMA AddFailedFacts ==
  ASSUME IInv, ~halted, NEW d \in Docs, AddFailed(d), ~CrashesOn(windows, d.current)
  PROVE  IInv'
  <1> DEFINE t == d.current
             rest == WithoutOrphans(windows, t)
             drawn == Redrawn(rest, t)
  <1>1. /\ doc' = [d EXCEPT !.current = doc.current] /\ windows' = drawn
        /\ stale' = TRUE /\ halted' = FALSE /\ running' = running
    BY DEF AddFailed
  <1>2. t \in Trees /\ doc' \in Docs /\ doc'.current = doc.current
    BY <1>1, DocFacts DEF IInv
  <1>3. /\ WellKept(rest)
        /\ \A j \in DOMAIN rest : \E k \in DOMAIN windows : rest[j] = windows[k]
    BY <1>2, OrphansRemoved DEF IInv
  <1>4. (~running => Calm(rest)) /\ AllGrounded(rest, doc.current)
    BY <1>3, TakenFrom DEF IInv
  <1> HIDE DEF rest, t
  <1>5. /\ WellKept(drawn) /\ DOMAIN drawn = DOMAIN rest
        /\ \A i \in DOMAIN rest : /\ drawn[i].simulating = rest[i].simulating
                                  /\ \A u : Grounded(drawn[i], u) <=> Grounded(rest[i], u)
    BY <1>2, <1>3, RedrawnFacts
  <1> HIDE DEF drawn
  <1>6. (~running => Calm(drawn)) /\ AllGrounded(drawn, doc.current)
    BY <1>4, <1>5 DEF Calm, AllGrounded
  <1> QED
    BY <1>1, <1>2, <1>5, <1>6 DEF IInv

LEMMA StepHolds == IInv /\ [Next]_vars => IInv'
  <1> SUFFICES ASSUME IInv, [Next]_vars PROVE IInv'
    OBVIOUS
  <1> DEFINE cur == doc.current
  <1>0. cur \in Trees /\ doc \in Docs
    BY DocFacts DEF IInv
  <1>1. CASE MoveNode
    <2>1. PICK i \in Editable : \E t \in Changes(windows[i].scope.path) :
             /\ doc' = Edited(doc, t)
             /\ windows' = [windows EXCEPT ![i] = Drawn(t, @)]
             /\ UNCHANGED <<running, stale, halted>>
      BY <1>1 DEF MoveNode
    <2>2. i \in Shown /\ ~windows[i].read_only
      BY DEF Editable
    <2> QED
      BY <2>1, <2>2, ChangeFacts
  <1>2. CASE SetColor
    <2>1. PICK path \in Scopes : \E t \in Changes(path) :
             LET i == Find(windows, IF path = <<>> THEN Root ELSE EmbeddedScope(path))
             IN  /\ doc' = Edited(doc, t)
                 /\ windows' = [windows EXCEPT ![i] = Drawn(t, @)]
                 /\ UNCHANGED <<running, stale, halted>>
      BY <1>2 DEF SetColor
    <2>2. PICK i \in Shown : ~windows[i].read_only /\ path = windows[i].scope.path
      BY DEF Scopes
    <2> DEFINE scope == IF path = <<>> THEN Root ELSE EmbeddedScope(path)
    <2>3. i \in DOMAIN windows /\ windows[i].scope = scope
      BY <2>2, EditTypes, DocumentScope DEF IInv
    <2>4. Find(windows, scope) = i
      <3>1. Len(windows) \in Nat /\ DOMAIN windows = 1 .. Len(windows)
        BY DEF IInv, WellKept
      <3> HIDE DEF scope
      <3>2. Find(windows, scope) \in DOMAIN windows /\ windows[Find(windows, scope)].scope = scope
        BY <2>3, <3>1, FindFacts
      <3> QED
        BY <2>3, <3>2 DEF IInv, WellKept
    <2>5. PICK t \in Changes(path) :
            /\ doc' = Edited(doc, t)
            /\ windows' = [windows EXCEPT ![i] = Drawn(t, @)]
            /\ UNCHANGED <<running, stale, halted>>
      BY <2>1, <2>4
    <2> QED
      BY <2>2, <2>5, ChangeFacts
  <1>3. CASE DeleteNode
    <2>0. PICK i \in Editable : \E n \in DOMAIN windows[i].scene :
             ApplyResult(i, Edited(doc, Without(cur, Append(windows[i].scope.path, n))))
      BY <1>3 DEF DeleteNode
    <2>1. PICK n \in DOMAIN windows[i].scene :
             ApplyResult(i, Edited(doc, Without(cur, Append(windows[i].scope.path, n))))
      BY <2>0
    <2> DEFINE path == windows[i].scope.path
               t == Without(cur, Append(path, n))
    <2>2. i \in Shown /\ ~windows[i].read_only
      BY DEF Editable
    <2>3. path \in Seq(NodeId) /\ n \in NodeId
      BY <2>2, EditTypes DEF Scenes
    <2> HIDE DEF path
    <2>4. Append(path, n) \in Seq(NodeId)
      BY <2>3
    <2>5. t \in Trees
      BY <1>0, <2>4, EditFacts
    <2>6. \A q \in Seq(NodeId) : q # path /\ Exists(t, q) => Sheet(t, q) = Sheet(cur, q)
      BY <1>0, <2>3, WithoutLeavesOthers
    <2> HIDE DEF t
    <2> QED
      BY <2>1, <2>5, <2>6, ApplyFacts DEF path, t
  <1>4. CASE Rewire
    <2>0. PICK i \in Editable : \E n \in DOMAIN windows[i].scene, data \in {"wired", "loose"} :
            LET p == Append(windows[i].scope.path, n)
            IN  /\ p \in DOMAIN cur /\ cur[p].kind = "embedded"
                /\ ApplyResult(i, Edited(doc, With(cur, p, [cur[p] EXCEPT !.data = data])))
      BY <1>4 DEF Rewire
    <2>1. PICK n \in DOMAIN windows[i].scene, data \in {"wired", "loose"} :
            LET p == Append(windows[i].scope.path, n)
            IN  /\ p \in DOMAIN cur /\ cur[p].kind = "embedded"
                /\ ApplyResult(i, Edited(doc, With(cur, p, [cur[p] EXCEPT !.data = data])))
      BY <2>0
    <2> DEFINE path == windows[i].scope.path
               p == Append(path, n)
               node == [cur[p] EXCEPT !.data = data]
               t == With(cur, p, node)
    <2>2. i \in Shown /\ ~windows[i].read_only
      BY DEF Editable
    <2>3. path \in Seq(NodeId) /\ n \in NodeId
      BY <2>2, EditTypes DEF Scenes
    <2>4. p \in DOMAIN cur /\ cur[p].kind = "embedded"
      BY <2>1
    <2>5. p \in Path /\ p \in Seq(NodeId) /\ cur[p] \in Node
      BY <1>0, <2>4, TreeFacts, PathsAreSequences
    <2>6. node \in Node
      <3> HIDE DEF p
      <3>1. cur[p] \in Embedded
        BY <2>4, <2>5 DEF Node, Part, Bridge, Embedded, Ref
      <3> QED
        BY <3>1 DEF Node, Embedded
    <2> HIDE DEF path, node
    <2>7. \A q \in Seq(NodeId) : q # path => Sheet(t, q) = Sheet(cur, q)
      BY <1>0, <2>3, <2>5, <2>6, WithLeavesOthers
    <2>8. t \in Trees
      <3> HIDE DEF p
      <3> QED
        BY <1>0, <2>5, <2>6, EditFacts
    <2>9. ApplyResult(i, Edited(doc, t))
      BY <2>1 DEF path, node
    <2> HIDE DEF t
    <2> QED
      BY <2>7, <2>8, <2>9, ApplyFacts DEF path
  <1>5. CASE Add
    <2>1. PICK path \in Scopes, n \in NodeId, new \in NewNodes :
            LET p == Append(path, n)
                t == IF new.kind = "embedded" THEN WithCopy(cur, p, new.data)
                                              ELSE With(cur, p, new)
            IN  /\ Fits(t)
                /\ IF Flattens(t) \/ CrashesOn(windows, t) THEN Reconcile(Edited(doc, t))
                                                         ELSE AddFailed(Edited(doc, t))
      BY <1>5 DEF Add
    <2> DEFINE p == Append(path, n)
               t == IF new.kind = "embedded" THEN WithCopy(cur, p, new.data)
                                             ELSE With(cur, p, new)
    <2>2. p \in Seq(NodeId)
      BY EditTypes
    <2>3. t \in Trees
      <3> HIDE DEF p
      <3>1. Fits(t)
        BY <2>1 DEF p
      <3>2. \/ new \in [kind : {"embedded"}, data : BlueprintId]
            \/ new \in Node /\ new.kind # "embedded"
        BY WindowsAssumption DEF Node, Part, Bridge, Ref
      <3>3. CASE new \in [kind : {"embedded"}, data : BlueprintId]
        <4>1. t = WithCopy(cur, p, new.data) /\ new.data \in BlueprintId
          BY <3>3
        <4> QED
          BY <1>0, <2>2, <3>1, <4>1, CopyType
      <3>4. CASE new \in Node /\ new.kind # "embedded"
        <4>1. t = With(cur, p, new)
          BY <3>4
        <4>2. p \in Path
          BY <3>1, <4>1 DEF Fits, With
        <4> QED
          BY <1>0, <2>2, <3>4, <4>1, <4>2, EditFacts
      <3> QED
        BY <3>2, <3>3, <3>4
    <2>4. \/ Reconcile(Edited(doc, t))
          \/ AddFailed(Edited(doc, t)) /\ ~CrashesOn(windows, t)
      BY <2>1
    <2> HIDE DEF t
    <2>5. Edited(doc, t) \in Docs /\ Edited(doc, t).current = t
      BY <1>0, <2>3, DocFacts
    <2>6. ~halted
      BY EditTypes DEF Scopes
    <2> QED
      BY <2>4, <2>5, <2>6, ReconcileFacts, AddFailedFacts
  <1>6. CASE EditValue
    <2>0. PICK path \in Scopes : \E t \in Changes(path) : Reconcile(Edited(doc, t))
      BY <1>6 DEF EditValue
    <2>1. PICK t \in Changes(path) : Reconcile(Edited(doc, t))
      BY <2>0
    <2>2. t \in Trees
      BY EditTypes
    <2> QED
      BY <1>0, <2>1, <2>2, DocFacts, ReconcileFacts
  <1>7. CASE Bake
    <2>1. PICK path \in Scopes, n \in NodeId :
            LET p == Append(path, n)
                t == WithCopy(cur, p, cur[p].data)
            IN  /\ p \in DOMAIN cur /\ cur[p].kind = "reference"
                /\ Fits(t) /\ Reconcile(Edited(doc, t))
      BY <1>7 DEF Bake
    <2> DEFINE p == Append(path, n)
               t == WithCopy(cur, p, cur[p].data)
    <2>2. p \in Seq(NodeId)
      BY EditTypes
    <2>3. p \in DOMAIN cur /\ cur[p].kind = "reference" /\ Fits(t) /\ Reconcile(Edited(doc, t))
      BY <2>1
    <2> HIDE DEF p
    <2>4. cur[p] \in Node
      BY <1>0, <2>3, TreeFacts
    <2>5. cur[p].data \in BlueprintId
      BY <2>3, <2>4 DEF Node, Part, Bridge, Embedded, Ref
    <2>6. t \in Trees
      BY <1>0, <2>2, <2>3, <2>5, CopyType
    <2> HIDE DEF t
    <2> QED
      BY <1>0, <2>3, <2>6, DocFacts, ReconcileFacts
  <1>8. CASE Extract
    <2>1. PICK path \in Scopes, n \in NodeId, host \in NodeId :
            /\ Fits(Extracted(cur, path, n, host))
            /\ Reconcile(Edited(doc, Extracted(cur, path, n, host)))
      BY <1>8 DEF Extract
    <2>2. Extracted(cur, path, n, host) \in Trees
      BY <1>0, <2>1, EditTypes, ExtractedType
    <2> QED
      BY <1>0, <2>1, <2>2, DocFacts, ReconcileFacts
  <1>9. CASE PerformUndo
    BY <1>0, <1>9, DocFacts, ReconcileFacts DEF PerformUndo
  <1>10. CASE PerformRedo
    BY <1>0, <1>10, DocFacts, ReconcileFacts DEF PerformRedo
  <1>11. CASE OpenFromCanvas
    <2>0. PICK i \in Shown : \E n \in DOMAIN windows[i].scene :
            LET ws == OpenSubWindow(windows, cur, ChildScope(windows[i].scope, n))
            IN  windows' = ws /\ RestOfPass(i, ws) /\ UNCHANGED <<doc, running, stale>>
      BY <1>11 DEF OpenFromCanvas
    <2>1. PICK n \in DOMAIN windows[i].scene :
            LET ws == OpenSubWindow(windows, cur, ChildScope(windows[i].scope, n))
            IN  windows' = ws /\ RestOfPass(i, ws) /\ UNCHANGED <<doc, running, stale>>
      BY <2>0
    <2> DEFINE target == ChildScope(windows[i].scope, n)
               ws == OpenSubWindow(windows, cur, target)
    <2>2. windows[i].scope \in Scope /\ n \in NodeId /\ ~halted
      BY EditTypes DEF Scenes
    <2>3. target \in Scope /\ target.path # <<>>
      <3>1. windows[i].scope.path \in Seq(NodeId)
        BY <2>2, ScopeFacts
      <3>2. /\ Append(windows[i].scope.path, n) \in Seq(NodeId)
            /\ Append(windows[i].scope.path, n) # <<>>
        BY <2>2, <3>1
      <3> QED
        BY <3>2 DEF ChildScope, Scope
    <2> HIDE DEF target
    <2>4. /\ WellKept(ws) /\ (Calm(windows) => Calm(ws))
          /\ AllGrounded(windows, cur) => AllGrounded(ws, cur)
          /\ AllFresh(windows, cur) => AllFresh(ws, cur)
      BY <1>0, <2>3, OpenSubWindowFacts DEF IInv
    <2>5. windows' = ws /\ halted' \in BOOLEAN /\ UNCHANGED <<doc, running, stale>>
      BY <2>1 DEF target, RestOfPass
    <2> HIDE DEF ws
    <2> QED
      BY <2>2, <2>4, <2>5 DEF IInv
  <1>12. CASE CloseWindow
    <2>1. PICK i \in Shown : /\ windows' = [windows EXCEPT ![i].open = FALSE]
                             /\ UNCHANGED <<doc, running, stale, halted>>
      BY <1>12 DEF CloseWindow
    <2> DEFINE ws == [windows EXCEPT ![i].open = FALSE]
    <2>2. /\ WellKept(ws) /\ (Calm(windows) => Calm(ws))
          /\ AllGrounded(windows, cur) => AllGrounded(ws, cur)
          /\ AllFresh(windows, cur) => AllFresh(ws, cur)
      BY EditTypes, OpenFacts DEF IInv
    <2> HIDE DEF ws
    <2> QED
      BY <2>1, <2>2 DEF IInv, ws
  <1>13. CASE RemoveClosed
    <2> DEFINE ws == WithoutClosed(windows)
    <2>1. windows' = ws /\ UNCHANGED <<doc, running, stale, halted>>
      BY <1>13 DEF RemoveClosed
    <2>2. /\ WellKept(ws) /\ (Calm(windows) => Calm(ws))
          /\ AllGrounded(windows, cur) => AllGrounded(ws, cur)
          /\ AllFresh(windows, cur) => AllFresh(ws, cur)
      BY ClosedRemoved, TakenFrom DEF IInv
    <2> HIDE DEF ws
    <2> QED
      BY <2>1, <2>2 DEF IInv
  <1>14. CASE Load
    <2>1. PICK t \in Files :
            /\ doc' = Opened(t)
            /\ windows' = Redrawn(SimulationMode(OnlyRoot(windows), FALSE), t)
            /\ running' = FALSE /\ stale' = FALSE /\ halted' = halted
      BY <1>14 DEF Load
    <2>2. t \in Trees /\ Opened(t) \in Docs /\ Opened(t).current = t
      BY <1>0, TreeFacts, DocFacts
    <2> DEFINE one == OnlyRoot(windows)
               calm == SimulationMode(one, FALSE)
               drawn == Redrawn(calm, t)
    <2>3. WellKept(one) /\ AllGrounded(one, t)
      <3>1. /\ windows \in Seq(Window) /\ windows # <<>> /\ windows[1].scope = Root
            /\ Head(windows) = windows[1] /\ windows[1] \in Window
        BY DEF IInv, WellKept
      <3>2. one \in Seq(Window) /\ one # <<>> /\ DOMAIN one = {1} /\ one[1] = windows[1]
        BY <3>1 DEF OnlyRoot
      <3>3. Grounded(windows[1], t)
        BY <3>1 DEF Grounded, Root
      <3> HIDE DEF one
      <3> QED
        BY <3>1, <3>2, <3>3 DEF WellKept, AllGrounded
    <2> HIDE DEF one
    <2>4. WellKept(calm) /\ Calm(calm) /\ AllGrounded(calm, t)
      BY <2>3, ModeFacts
    <2> HIDE DEF calm
    <2>5. /\ WellKept(drawn) /\ AllFresh(drawn, t) /\ DOMAIN drawn = DOMAIN calm
          /\ \A i \in DOMAIN calm : /\ drawn[i].simulating = calm[i].simulating
                                    /\ \A u : Grounded(drawn[i], u) <=> Grounded(calm[i], u)
      BY <2>2, <2>4, RedrawnFacts
    <2>6. windows' = drawn
      BY <2>1 DEF calm, one
    <2> HIDE DEF drawn
    <2>7. Calm(drawn) /\ AllGrounded(drawn, t)
      BY <2>4, <2>5 DEF Calm, AllGrounded
    <2> QED
      BY <2>1, <2>2, <2>5, <2>6, <2>7 DEF IInv
  <1>15. CASE StartSimulation
    <2>1. CASE ~Flattens(cur)
      BY <1>15, <2>1 DEF StartSimulation, Halt, IInv
    <2>2. CASE Flattens(cur)
      <3>1. PICK on \in BOOLEAN :
              /\ running' = on
              /\ windows' = IF on THEN SimulationMode(windows, TRUE) ELSE windows
              /\ UNCHANGED <<doc, stale, halted>> /\ ~halted /\ ~running
        BY <1>15, <2>2 DEF StartSimulation
      <3>2. CASE on
        <4>1. windows' = SimulationMode(windows, TRUE) /\ running' = TRUE
          BY <3>1, <3>2
        <4>2. /\ WellKept(windows')
              /\ AllGrounded(windows, cur) => AllGrounded(windows', cur)
              /\ AllFresh(windows, cur) => AllFresh(windows', cur)
          BY <4>1, ModeFacts DEF IInv
        <4> QED
          BY <3>1, <4>1, <4>2 DEF IInv
      <3>3. CASE ~on
        BY <3>1, <3>3 DEF IInv
      <3> QED
        BY <3>2, <3>3
    <2> QED
      BY <2>1, <2>2
  <1>16. CASE StopSimulation
    <2> DEFINE calm == SimulationMode(windows, FALSE)
               drawn == Redrawn(calm, cur)
    <2>1. /\ windows' = drawn /\ running' = FALSE /\ stale' = FALSE
          /\ UNCHANGED <<doc, halted>> /\ ~halted
      BY <1>16 DEF StopSimulation
    <2>2. WellKept(calm) /\ Calm(calm) /\ AllGrounded(calm, cur)
      BY <2>1, ModeFacts DEF IInv
    <2> HIDE DEF calm
    <2>3. /\ WellKept(drawn) /\ AllFresh(drawn, cur) /\ DOMAIN drawn = DOMAIN calm
          /\ \A i \in DOMAIN calm : /\ drawn[i].simulating = calm[i].simulating
                                    /\ \A u : Grounded(drawn[i], u) <=> Grounded(calm[i], u)
      BY <1>0, <2>2, RedrawnFacts
    <2> HIDE DEF drawn
    <2>4. Calm(drawn) /\ AllGrounded(drawn, cur)
      BY <2>2, <2>3 DEF Calm, AllGrounded
    <2> QED
      BY <2>1, <2>3, <2>4 DEF IInv
  <1>17. CASE UNCHANGED vars
    BY <1>17 DEF vars, IInv
  <1> QED
    BY <1>1, <1>2, <1>3, <1>4, <1>5, <1>6, <1>7, <1>8, <1>9, <1>10, <1>11, <1>12,
       <1>13, <1>14, <1>15, <1>16, <1>17 DEF Next

-----------------------------------------------------------------------------
(* The theorems.                                                           *)

\* The invariant holds in every state, for every library, every set of
\* documents and every bound.
THEOREM WindowsInvariant == Spec => []IInv
  BY InitHolds, StepHolds, PTL DEF Spec

\* Every window shows the present content of its blueprint, whichever window,
\* dialog or undo changed it.
THEOREM ScenesShowScopes == Spec => []SceneShowsScope
  <1>1. IInv => SceneShowsScope
    <2> SUFFICES ASSUME IInv, ~halted, ~stale, NEW i \in DOMAIN windows
                 PROVE  windows[i] = Drawn(doc.current, windows[i])
      BY DEF SceneShowsScope
    <2>1. doc.current \in Trees /\ windows[i] \in Window
      BY DocFacts DEF IInv, WellKept
    <2>2. Fresh(windows[i], doc.current)
      BY DEF IInv, AllFresh
    <2> QED
      BY <2>1, <2>2, DrawnFacts
  <1> QED
    BY <1>1, WindowsInvariant, PTL

\* Between handlers no window edits a blueprint that is gone, and none at the
\* root shows a reference that is not there any more.
THEOREM WindowsGrounded == Spec => []NoOrphans
  <1>1. IInv => NoOrphans
    BY DEF IInv, NoOrphans, AllGrounded, Grounded
  <1> QED
    BY <1>1, WindowsInvariant, PTL

\* No window refuses edits because of a simulation that no longer runs.
THEOREM ModesFollow == Spec => []ModeFollowsSimulation
  <1>1. IInv => ModeFollowsSimulation
    BY DEF IInv, ModeFollowsSimulation, Calm
  <1> QED
    BY <1>1, WindowsInvariant, PTL
=============================================================================
