----------------------------- MODULE Iteration ------------------------------
(***************************************************************************)
(* Induction over numbers, functions defined step by step and lists with   *)
(* an item less: what the proofs about loops and vectors rest on.  The     *)
(* induction theorems of the library take an operator and cannot be        *)
(* instantiated; that every set of natural numbers has a least element     *)
(* takes a set, and is enough.                                             *)
(***************************************************************************)
EXTENDS Integers, Sequences, SequencesExt, Lists, WellFoundedInduction, TLAPS

\* Every set of natural numbers that is not empty has a least element.
LEMMA LeastNat ==
  ASSUME NEW T, T \subseteq Nat, T # {}
  PROVE  \E x \in T : \A y \in T : x <= y
  <1> DEFINE R == OpToRel(<, Nat)
  <1>1. IsWellFoundedOn(R, Nat)
    BY NatLessThanWellFounded
  <1>2. \A x, y \in Nat : y < x => <<y, x>> \in R
    BY DEF OpToRel
  <1> HIDE DEF R
  <1>3. PICK x \in T : \A y \in T : ~(<<y, x>> \in R)
    BY <1>1, WFMin
  <1>4. \A y \in T : ~(y < x)
    BY <1>2, <1>3
  <1> QED
    BY <1>4

\* Induction up to n, for the set of the numbers for which something holds.
LEMMA Upward ==
  ASSUME NEW n \in Nat, NEW S, 0 \in S,
         \A i \in 0 .. n : i # 0 /\ i - 1 \in S => i \in S
  PROVE  0 .. n \subseteq S
  <1> DEFINE T == (0 .. n) \ S
  <1> SUFFICES ASSUME T # {} PROVE FALSE
    OBVIOUS
  <1>0. T \subseteq Nat
    OBVIOUS
  <1>1. PICK x \in T : \A y \in T : x <= y
    BY <1>0, LeastNat
  <1>2. x # 0 /\ x - 1 \in 0 .. n /\ ~(x <= x - 1)
    BY <1>1
  <1>3. x - 1 \notin T
    BY <1>1, <1>2
  <1> QED
    BY <1>1, <1>2, <1>3

\* Induction along a function.
LEMMA TypedThroughout ==
  ASSUME NEW n \in Nat, NEW V, NEW F, F[0] \in V,
         \A i \in 1 .. n : F[i - 1] \in V => F[i] \in V
  PROVE  \A i \in 0 .. n : F[i] \in V
  <1> DEFINE S == {i \in 0 .. n : F[i] \in V}
  <1>1. 0 \in S
    OBVIOUS
  <1>2. ASSUME NEW i \in 0 .. n, i # 0, i - 1 \in S PROVE i \in S
    BY <1>2
  <1> HIDE DEF S
  <1>3. 0 .. n \subseteq S
    BY <1>1, <1>2, Upward
  <1> QED
    BY <1>3 DEF S

\* Min of FiniteSetsExt is the least element.
LEMMA MinFacts ==
  ASSUME NEW I, I \subseteq Nat, I # {}
  PROVE  Min(I) \in I /\ \A j \in I : Min(I) <= j
  <1>1. \E x \in I : \A y \in I : x =< y
    BY LeastNat
  <1> QED
    BY <1>1 DEF Min

\* Max of FiniteSetsExt is the greatest of numbers up to n.
LEMMA MaxFacts ==
  ASSUME NEW n \in Nat, NEW I, I \subseteq 0 .. n, I # {}
  PROVE  Max(I) \in I /\ \A j \in I : j <= Max(I)
  <1> DEFINE J == {n - i : i \in I}
  <1>0. \A i \in I : n - i \in Nat
    OBVIOUS
  <1>1. J \subseteq Nat /\ J # {}
    BY <1>0
  <1>2. PICK k \in J : \A y \in J : k <= y
    BY <1>1, LeastNat
  <1>3. PICK i \in I : k = n - i
    BY <1>2
  <1>4. \A j \in I : n - j \in J
    OBVIOUS
  <1>5. \A j \in I : i >= j
    BY <1>2, <1>3, <1>4
  <1>6. \E x \in I : \A j \in I : x >= j
    BY <1>5
  <1>7. Max(I) \in I /\ \A j \in I : Max(I) >= j
    BY <1>6 DEF Max
  <1>8. \A j \in I : j \in Int
    OBVIOUS
  <1> QED
    BY <1>7, <1>8

\* f starts at c and computes each of its values from the one before.
Iterates(f, n, c, D) == f = [i \in 0 .. n |-> IF i = 0 THEN c ELSE D[i][f[i - 1]]]

\* Such a function exists.
LEMMA IterateExists ==
  ASSUME NEW n \in Nat, NEW V, NEW c \in V, NEW D \in [1 .. n -> [V -> V]]
  PROVE  \E f \in [0 .. n -> V] : Iterates(f, n, c, D)
  <1> DEFINE Good(f, k) == /\ f \in [0 .. k -> V]
                           /\ f[0] = c
                           /\ \A i \in 1 .. k : f[i] = D[i][f[i - 1]]
             S == {k \in 0 .. n : \E f : Good(f, k)}
  <1>1. 0 \in S
    <2>1. Good([i \in 0 .. 0 |-> c], 0)
      OBVIOUS
    <2> HIDE DEF Good
    <2>2. \E f : Good(f, 0)
      BY <2>1
    <2> QED
      BY <2>2
  <1>2. ASSUME NEW k \in 0 .. n, k # 0, k - 1 \in S
        PROVE  k \in S
    <2>1. PICK f : Good(f, k - 1)
      BY <1>2
    <2> DEFINE g == [i \in 0 .. k |-> IF i = k THEN D[k][f[k - 1]] ELSE f[i]]
    <2>2. D[k][f[k - 1]] \in V
      <3>1. k \in 1 .. n /\ k - 1 \in 0 .. k - 1
        BY <1>2
      <3> QED
        BY <2>1, <3>1
    <2>3. g \in [0 .. k -> V]
      <3>1. \A i \in 0 .. k : i # k => i \in 0 .. k - 1
        OBVIOUS
      <3> QED
        BY <2>1, <2>2, <3>1
    <2>4. g[0] = c
      BY <1>2, <2>1
    <2>5. \A i \in 1 .. k : g[i] = D[i][g[i - 1]]
      <3> TAKE i \in 1 .. k
      <3>1. i - 1 \in 0 .. k /\ i - 1 # k /\ i \in 0 .. k
        BY <1>2
      <3>2. g[i - 1] = f[i - 1]
        BY <3>1
      <3>3. CASE i = k
        BY <3>1, <3>2, <3>3
      <3>4. CASE i # k
        <4>1. i \in 1 .. k - 1
          BY <3>4
        <4> QED
          BY <2>1, <3>1, <3>2, <3>4, <4>1
      <3> QED
        BY <3>3, <3>4
    <2> HIDE DEF g
    <2>6. Good(g, k)
      BY <2>3, <2>4, <2>5
    <2> HIDE DEF Good
    <2>7. \E h : Good(h, k)
      BY <2>6
    <2> QED
      BY <2>7
  <1> HIDE DEF S
  <1>3. 0 .. n \subseteq S
    BY <1>1, <1>2, Upward
  <1>4. n \in S
    BY <1>3
  <1>5. PICK f : Good(f, n)
    BY <1>4 DEF S
  <1>6. \A i \in 0 .. n : f[i] = IF i = 0 THEN c ELSE D[i][f[i - 1]]
    BY <1>5
  <1>7. Iterates(f, n, c, D)
    BY <1>5, <1>6 DEF Iterates
  <1> QED
    BY <1>5, <1>7

-----------------------------------------------------------------------------
(* Lists.                                                                  *)

\* Nothing is in the list twice.
Distinct(s) == \A i, j \in DOMAIN s : s[i] = s[j] => i = j

\* An item at the end.
LEMMA AppendIndex ==
  ASSUME NEW V, NEW q \in Seq(V), NEW x \in V
  PROVE  /\ Len(q) \in Nat /\ DOMAIN q = 1 .. Len(q)
         /\ Append(q, x) \in Seq(V) /\ DOMAIN Append(q, x) = 1 .. Len(q) + 1
         /\ Append(q, x)[Len(q) + 1] = x
         /\ \A i \in 1 .. Len(q) : Append(q, x)[i] = q[i]
  <1>1. Append(q, x) \in Seq(V) /\ Len(Append(q, x)) = Len(q) + 1
    OBVIOUS
  <1>2. DOMAIN Append(q, x) = 1 .. Len(q) + 1
    BY <1>1
  <1> QED
    BY <1>1, <1>2

\* Without its first item.
LEMMA TailIndex ==
  ASSUME NEW V, NEW q \in Seq(V), q # <<>>
  PROVE  /\ Len(q) \in Nat /\ DOMAIN q = 1 .. Len(q) /\ Len(q) >= 1
         /\ Head(q) = q[1] /\ Head(q) \in V
         /\ Tail(q) \in Seq(V) /\ DOMAIN Tail(q) = 1 .. Len(q) - 1
         /\ \A i \in 1 .. Len(q) - 1 : Tail(q)[i] = q[i + 1]
  <1>1. Len(q) \in Nat /\ Len(q) >= 1 /\ Tail(q) \in Seq(V) /\ Len(Tail(q)) = Len(q) - 1
    OBVIOUS
  <1>2. DOMAIN Tail(q) = 1 .. Len(q) - 1
    BY <1>1
  <1>3. \A i \in 1 .. Len(q) - 1 : Tail(q)[i] = q[i + 1]
    BY <1>1
  <1> QED
    BY <1>1, <1>2, <1>3

\* What an item at the end adds.
LEMMA AppendFacts ==
  ASSUME NEW V, NEW s \in Seq(V), NEW x \in V
  PROVE  /\ ToSet(Append(s, x)) = ToSet(s) \cup {x}
         /\ Distinct(s) /\ x \notin ToSet(s) => Distinct(Append(s, x))
  <1> DEFINE n == Len(s)
             t == Append(s, x)
  <1>1. /\ n \in Nat /\ DOMAIN s = 1 .. n /\ DOMAIN t = 1 .. n + 1
        /\ t[n + 1] = x /\ \A i \in 1 .. n : t[i] = s[i]
    BY AppendIndex
  <1> HIDE DEF t, n
  <1>2. \A i \in 1 .. n + 1 : i \in 1 .. n \/ i = n + 1
    BY <1>1
  <1>3. 1 .. n \subseteq 1 .. n + 1 /\ n + 1 \in 1 .. n + 1
    BY <1>1
  <1>4. ToSet(t) = ToSet(s) \cup {x}
    BY <1>1, <1>2, <1>3 DEF ToSet
  <1>5. ASSUME Distinct(s), x \notin ToSet(s) PROVE Distinct(t)
    <2>1. \A i \in 1 .. n : t[i] # x
      BY <1>1, <1>5 DEF ToSet
    <2> QED
      BY <1>1, <1>2, <1>5, <2>1 DEF Distinct
  <1> QED
    BY <1>4, <1>5 DEF t

\* One list behind the other.
LEMMA ConcatFacts ==
  ASSUME NEW V, NEW s \in Seq(V), NEW t \in Seq(V)
  PROVE  /\ s \o t \in Seq(V) /\ Len(s) \in Nat /\ Len(t) \in Nat
         /\ DOMAIN s = 1 .. Len(s) /\ DOMAIN t = 1 .. Len(t)
         /\ DOMAIN (s \o t) = 1 .. Len(s) + Len(t) /\ Len(s \o t) = Len(s) + Len(t)
         /\ \A i \in 1 .. Len(s) : (s \o t)[i] = s[i]
         /\ \A i \in 1 .. Len(t) : (s \o t)[Len(s) + i] = t[i]
         /\ ToSet(s \o t) = ToSet(s) \cup ToSet(t)
         /\ Distinct(s) /\ Distinct(t) /\ ToSet(s) \cap ToSet(t) = {} => Distinct(s \o t)
  <1> DEFINE m == Len(s)
             n == Len(t)
             u == s \o t
  <1>1. /\ u \in Seq(V) /\ m \in Nat /\ n \in Nat /\ Len(u) = m + n
        /\ DOMAIN s = 1 .. m /\ DOMAIN t = 1 .. n
    OBVIOUS
  <1>2. DOMAIN u = 1 .. m + n
    BY <1>1
  <1>3. \A i \in 1 .. m : u[i] = s[i]
    BY <1>1
  <1>4. \A i \in 1 .. n : u[m + i] = t[i]
    BY <1>1
  <1> HIDE DEF u, m, n
  <1>5. \A i \in 1 .. m + n : i \in 1 .. m \/ (i - m \in 1 .. n /\ i = m + (i - m))
    BY <1>1
  <1>6. (\A i \in 1 .. m : i \in 1 .. m + n) /\ (\A i \in 1 .. n : m + i \in 1 .. m + n)
    BY <1>1
  <1>7. ToSet(u) = ToSet(s) \cup ToSet(t)
    <2>1. ASSUME NEW i \in 1 .. m + n PROVE u[i] \in ToSet(s) \cup ToSet(t)
      <3>1. CASE i \in 1 .. m
        BY <1>1, <1>3, <3>1 DEF ToSet
      <3>2. CASE i - m \in 1 .. n /\ i = m + (i - m)
        <4>1. u[i] = t[i - m]
          BY <1>4, <3>2
        <4> QED
          BY <1>1, <3>2, <4>1 DEF ToSet
      <3> QED
        BY <1>5, <3>1, <3>2
    <2>2. ToSet(u) \subseteq ToSet(s) \cup ToSet(t)
      BY <1>2, <2>1 DEF ToSet
    <2>3. ToSet(s) \subseteq ToSet(u)
      BY <1>1, <1>2, <1>3, <1>6 DEF ToSet
    <2>4. \A i \in 1 .. n : t[i] \in ToSet(u)
      BY <1>2, <1>4, <1>6 DEF ToSet
    <2>5. ToSet(t) \subseteq ToSet(u)
      BY <1>1, <2>4 DEF ToSet
    <2> QED
      BY <2>2, <2>3, <2>5
  <1>8. ASSUME Distinct(s), Distinct(t), ToSet(s) \cap ToSet(t) = {} PROVE Distinct(u)
    <2> SUFFICES ASSUME NEW i \in 1 .. m + n, NEW j \in 1 .. m + n, u[i] = u[j] PROVE i = j
      BY <1>2 DEF Distinct
    <2>1. \A k \in 1 .. m, l \in 1 .. n : s[k] # t[l]
      BY <1>1, <1>8 DEF ToSet
    <2>2. CASE i \in 1 .. m /\ j \in 1 .. m
      BY <1>1, <1>3, <1>8, <2>2 DEF Distinct
    <2>3. CASE i \in 1 .. m /\ (j - m \in 1 .. n /\ j = m + (j - m))
      <3>1. u[j] = t[j - m] /\ u[i] = s[i]
        BY <1>3, <1>4, <2>3
      <3> QED
        BY <2>1, <2>3, <3>1
    <2>4. CASE (i - m \in 1 .. n /\ i = m + (i - m)) /\ j \in 1 .. m
      <3>1. u[i] = t[i - m] /\ u[j] = s[j]
        BY <1>3, <1>4, <2>4
      <3> QED
        BY <2>1, <2>4, <3>1
    <2>5. CASE (i - m \in 1 .. n /\ i = m + (i - m)) /\ (j - m \in 1 .. n /\ j = m + (j - m))
      <3>1. t[i - m] = t[j - m]
        <4>1. u[i] = t[i - m]
          BY <1>4, <2>5
        <4>2. u[j] = t[j - m]
          BY <1>4, <2>5
        <4> QED
          BY <4>1, <4>2
      <3>2. i - m = j - m
        BY <1>1, <1>8, <2>5, <3>1 DEF Distinct
      <3> QED
        BY <1>1, <3>2
    <2> QED
      BY <1>5, <2>2, <2>3, <2>4, <2>5
  <1> QED
    BY <1>1, <1>2, <1>3, <1>4, <1>7, <1>8 DEF u, m, n

\* Taking the k-th element out of a sequence.
LEMMA RemoveAtFacts ==
  ASSUME NEW V, NEW s \in Seq(V), NEW k \in DOMAIN s
  PROVE  /\ RemoveAt(s, k) \in Seq(V)
         /\ Len(RemoveAt(s, k)) = Len(s) - 1 /\ DOMAIN RemoveAt(s, k) = 1 .. Len(s) - 1
         /\ \A i \in 1 .. Len(s) - 1 : RemoveAt(s, k)[i] = IF i < k THEN s[i] ELSE s[i + 1]
  <1> DEFINE a == SubSeq(s, 1, k - 1)
             b == SubSeq(s, k + 1, Len(s))
  <1>0. Len(s) \in Nat /\ k \in 1 .. Len(s)
    OBVIOUS
  <1>1. /\ a \in Seq(V) /\ Len(a) = k - 1
        /\ \A i \in 1 .. k - 1 : a[i] = s[i]
    BY <1>0
  <1>2. /\ b \in Seq(V) /\ Len(b) = Len(s) - k
        /\ \A i \in 1 .. Len(s) - k : b[i] = s[k + i]
    BY <1>0
  <1>3. RemoveAt(s, k) = a \o b
    BY DEF RemoveAt
  <1> HIDE DEF a, b
  <1>4. a \o b \in Seq(V) /\ Len(a \o b) = Len(s) - 1
    BY <1>0, <1>1, <1>2
  <1>5. ASSUME NEW i \in 1 .. Len(s) - 1
        PROVE  (a \o b)[i] = IF i < k THEN s[i] ELSE s[i + 1]
    <2>1. CASE i < k
      <3>1. (a \o b)[i] = a[i]
        BY <1>0, <1>1, <1>2, <2>1
      <3> QED
        BY <1>0, <1>1, <2>1, <3>1
    <2>2. CASE ~(i < k)
      <3>1. (a \o b)[i] = b[i - (k - 1)]
        BY <1>0, <1>1, <1>2, <2>2
      <3>2. i - (k - 1) \in 1 .. Len(s) - k /\ k + (i - (k - 1)) = i + 1
        BY <1>0, <2>2
      <3> QED
        BY <1>2, <2>2, <3>1, <3>2
    <2> QED
      BY <2>1, <2>2
  <1> DEFINE t == a \o b
  <1> HIDE DEF t
  <1>6. t \in Seq(V) /\ Len(t) = Len(s) - 1
    BY <1>4 DEF t
  <1>7. DOMAIN t = 1 .. Len(s) - 1
    BY <1>6
  <1>8. \A i \in 1 .. Len(s) - 1 : t[i] = IF i < k THEN s[i] ELSE s[i + 1]
    BY <1>5 DEF t
  <1>9. RemoveAt(s, k) = t
    BY <1>3 DEF t
  <1> QED
    BY <1>6, <1>7, <1>8, <1>9

\* What is left, and what is gone from a list without repetitions.
LEMMA RemoveFirstFacts ==
  ASSUME NEW V, NEW s \in Seq(V), Distinct(s), NEW f
  PROVE  LET r == RemoveFirst(s, f)
         IN  /\ r \in Seq(V) /\ Distinct(r)
             /\ Range(r) = Range(s) \ {f}
  <1>1. CASE \A i \in 1 .. Len(s) : s[i] # f
    <2>1. RemoveFirst(s, f) = s
      BY <1>1 DEF RemoveFirst
    <2>2. \A g \in Range(s) : g # f
      BY <1>1 DEF Range
    <2> QED
      BY <2>1, <2>2
  <1>2. CASE \E i \in 1 .. Len(s) : s[i] = f
    <2> DEFINE I == {i \in 1 .. Len(s) : s[i] = f}
               k == Min(I)
               r == RemoveAt(s, k)
               n == Len(s)
    <2>1. I # {} /\ I \subseteq Nat
      BY <1>2
    <2>2. k \in I
      BY <2>1, MinFacts
    <2>3. k \in 1 .. n /\ s[k] = f
      BY <2>2
    <2>4. RemoveFirst(s, f) = r
      <3>1. SelectInSeq(s, LAMBDA v : v = f) = k
        BY <2>1 DEF SelectInSeq
      <3> QED
        BY <1>2, <3>1 DEF RemoveFirst
    <2> HIDE DEF k, I
    <2>5. /\ r \in Seq(V) /\ Len(r) = n - 1
          /\ \A j \in 1 .. n - 1 : r[j] = IF j < k THEN s[j] ELSE s[j + 1]
      BY <2>3, RemoveAtFacts
    <2>6. n \in Nat /\ DOMAIN r = 1 .. n - 1 /\ DOMAIN s = 1 .. n
      BY <2>5
    <2> HIDE DEF r, n
    <2> DEFINE old(j) == IF j < k THEN j ELSE j + 1
    <2>7. \A j \in 1 .. n - 1 : old(j) \in 1 .. n /\ old(j) # k /\ r[j] = s[old(j)]
      BY <2>3, <2>5, <2>6
    <2>8. \A i, j \in 1 .. n - 1 : old(i) = old(j) => i = j
      BY <2>3, <2>6
    <2> HIDE DEF old
    <2>9. Distinct(r)
      BY <2>6, <2>7, <2>8 DEF Distinct
    <2>10. \A j \in 1 .. n - 1 : r[j] \in Range(s) /\ r[j] # f
      BY <2>3, <2>6, <2>7 DEF Distinct, Range
    <2>11. ASSUME NEW i \in 1 .. n, i # k
           PROVE  \E j \in 1 .. n - 1 : r[j] = s[i]
      <3> DEFINE new == IF i < k THEN i ELSE i - 1
      <3>1. new \in 1 .. n - 1 /\ (IF new < k THEN new ELSE new + 1) = i
        BY <2>3, <2>6, <2>11
      <3> QED
        BY <2>5, <3>1
    <2>12. Range(s) \ {f} \subseteq Range(r)
      BY <2>3, <2>6, <2>11 DEF Range
    <2>13. Range(r) \subseteq Range(s) \ {f}
      BY <2>6, <2>10 DEF Range
    <2> QED
      BY <2>4, <2>5, <2>9, <2>12, <2>13
  <1> QED
    BY <1>1, <1>2

\* The prefixes of a list of lists, put in a row one after the other.
LEMMA FlattenRuns ==
  ASSUME NEW V, NEW ss \in Seq(Seq(V))
  PROVE  \E F \in [0 .. Len(ss) -> Seq(V)] :
            /\ F[0] = <<>> /\ F[Len(ss)] = FlattenSeq(ss)
            /\ \A i \in 1 .. Len(ss) : F[i] = F[i - 1] \o ss[i]
  <1> DEFINE n == Len(ss)
             W == Seq(V)
             P(f) == f = [i \in 1 .. n |-> IF i = 1 THEN ss[i] ELSE f[i - 1] \o ss[i]]
             D == [i \in 1 .. n |-> [x \in W |-> x \o ss[i]]]
             G == CHOOSE f : P(f)
  <1>1. n \in Nat /\ DOMAIN ss = 1 .. n
    OBVIOUS
  <1>2. /\ \A i \in 1 .. n : ss[i] \in W
        /\ <<>> \in W /\ \A x \in W, y \in W : x \o y \in W
        /\ \A x \in W : <<>> \o x = x
    BY <1>1
  <1>3. FlattenSeq(ss) = IF n = 0 THEN <<>> ELSE G[n]
    <2>1. n = 0 => ss = <<>>
      OBVIOUS
    <2> QED
      BY <2>1 DEF FlattenSeq
  <1> HIDE DEF n, W
  <1>4. PICK f \in [0 .. n -> W] : Iterates(f, n, <<>>, D)
    <2>1. D \in [1 .. n -> [W -> W]]
      BY <1>2
    <2> HIDE DEF D
    <2> QED
      BY <1>1, <1>2, <2>1, IterateExists
  <1>5. f[0] = <<>> /\ \A i \in 1 .. n : f[i] = f[i - 1] \o ss[i]
    <2>1. \A i \in 0 .. n : f[i] = IF i = 0 THEN <<>> ELSE D[i][f[i - 1]]
      <3> HIDE DEF D
      <3> QED
        BY <1>4 DEF Iterates
    <2>2. \A i \in 1 .. n : i \in 0 .. n /\ i # 0 /\ i - 1 \in 0 .. n
      BY <1>1
    <2>3. \A i \in 1 .. n : f[i - 1] \in W
      BY <1>4, <2>2
    <2>4. 0 \in 0 .. n
      BY <1>1
    <2>5. \A i \in 1 .. n : D[i][f[i - 1]] = f[i - 1] \o ss[i]
      BY <2>3
    <2> HIDE DEF D
    <2> QED
      BY <2>1, <2>2, <2>4, <2>5
  <1>6. n # 0 => f[n] = G[n]
    <2> SUFFICES ASSUME n # 0 PROVE f[n] = G[n]
      OBVIOUS
    <2> DEFINE g == [i \in 1 .. n |-> f[i]]
    <2>1. \A i \in 1 .. n : g[i] = IF i = 1 THEN ss[i] ELSE g[i - 1] \o ss[i]
      <3> TAKE i \in 1 .. n
      <3>1. CASE i = 1
        <4>1. i - 1 = 0
          BY <3>1
        <4> QED
          BY <1>2, <1>5, <3>1, <4>1
      <3>2. CASE i # 1
        <4>1. i - 1 \in 1 .. n
          BY <1>1, <3>2
        <4> QED
          BY <1>5, <3>2, <4>1
      <3> QED
        BY <3>1, <3>2
    <2>2. P(g)
      BY <2>1
    <2>3. P(G)
      BY <2>2
    <2> HIDE DEF G, g
    <2>4. \A i \in 1 .. n : G[i] = IF i = 1 THEN ss[i] ELSE G[i - 1] \o ss[i]
      BY <2>3
    <2> HIDE DEF P
    <2> DEFINE S == {i \in 0 .. n : i # 0 => f[i] = G[i]}
    <2>5. 0 \in S
      BY <1>1
    <2>6. ASSUME NEW i \in 0 .. n, i # 0, i - 1 \in S PROVE i \in S
      <3>1. i \in 1 .. n /\ (i # 1 => i - 1 # 0)
        BY <1>1, <2>6
      <3>2. CASE i = 1
        <4>1. f[i] = f[0] \o ss[i] /\ G[i] = ss[i]
          <5>1. i - 1 = 0
            BY <3>2
          <5> QED
            BY <1>5, <2>4, <3>1, <3>2, <5>1
        <4>2. f[0] \o ss[i] = ss[i]
          BY <1>2, <1>5, <3>1
        <4> QED
          BY <4>1, <4>2
      <3>3. CASE i # 1
        BY <1>5, <2>4, <2>6, <3>1, <3>3
      <3> QED
        BY <3>2, <3>3
    <2> HIDE DEF S
    <2>7. 0 .. n \subseteq S
      BY <1>1, <2>5, <2>6, Upward
    <2>8. n \in 0 .. n
      BY <1>1
    <2> QED
      BY <2>7, <2>8 DEF S
  <1>7. f[n] = FlattenSeq(ss)
    BY <1>3, <1>5, <1>6
  <1> QED
    BY <1>4, <1>5, <1>7 DEF n, W

\* In the list all, the list ss[j] begins behind the place at[j], and nothing
\* else is in all.
Spots(all, ss, at) ==
  /\ at \in [DOMAIN ss -> Nat]
  /\ \A j \in DOMAIN ss : \A i \in DOMAIN ss[j] :
        at[j] + i \in DOMAIN all /\ all[at[j] + i] = ss[j][i]
  /\ \A k \in DOMAIN all : \E j \in DOMAIN ss : \E i \in DOMAIN ss[j] : k = at[j] + i

LEMMA FlattenPlaces ==
  ASSUME NEW V, NEW ss \in Seq(Seq(V))
  PROVE  FlattenSeq(ss) \in Seq(V) /\ \E at : Spots(FlattenSeq(ss), ss, at)
  <1> DEFINE n == Len(ss)
  <1>1. n \in Nat /\ DOMAIN ss = 1 .. n /\ \A i \in 1 .. n : ss[i] \in Seq(V)
    OBVIOUS
  <1>2. PICK F \in [0 .. n -> Seq(V)] :
            /\ F[0] = <<>> /\ F[n] = FlattenSeq(ss)
            /\ \A i \in 1 .. n : F[i] = F[i - 1] \o ss[i]
    BY FlattenRuns
  <1> HIDE DEF n
  <1> DEFINE at == [j \in 1 .. n |-> Len(F[j - 1])]
  <1>3. \A i \in 0 .. n : F[i] \in Seq(V) /\ Len(F[i]) \in Nat /\ DOMAIN F[i] = 1 .. Len(F[i])
    BY <1>2
  <1>4. \A j \in 1 .. n : at[j] = Len(F[j - 1]) /\ at[j] \in Nat
    <2>1. \A j \in 1 .. n : j - 1 \in 0 .. n
      BY <1>1
    <2> QED
      BY <1>3, <2>1
  <1>5. at \in [1 .. n -> Nat]
    BY <1>4
  <1> HIDE DEF at
  <1> DEFINE Held(m) == \A j \in 1 .. m : \A i \in DOMAIN ss[j] :
                           at[j] + i \in DOMAIN F[m] /\ F[m][at[j] + i] = ss[j][i]
             Met(m) == \A k \in DOMAIN F[m] :
                           \E j \in 1 .. m : \E i \in DOMAIN ss[j] : k = at[j] + i
             S == {m \in 0 .. n : Held(m) /\ Met(m)}
  <1>6. 0 \in S
    <2>1. 0 \in 0 .. n /\ 1 .. 0 = {} /\ DOMAIN F[0] = {}
      BY <1>1, <1>2
    <2> QED
      BY <2>1
  <1>7. ASSUME NEW m \in 0 .. n, m # 0, m - 1 \in S PROVE m \in S
    <2> DEFINE p == F[m - 1]
               q == ss[m]
    <2>1. m \in 1 .. n /\ m - 1 \in 0 .. n /\ m \in Nat
      BY <1>1, <1>7
    <2>2. p \in Seq(V) /\ q \in Seq(V) /\ F[m] = p \o q /\ at[m] = Len(p)
      BY <1>1, <1>2, <1>3, <1>4, <2>1
    <2>3. Held(m - 1) /\ Met(m - 1)
      BY <1>7
    <2>4. /\ Len(p) \in Nat /\ Len(q) \in Nat /\ DOMAIN p = 1 .. Len(p) /\ DOMAIN q = 1 .. Len(q)
          /\ DOMAIN F[m] = 1 .. Len(p) + Len(q)
          /\ \A i \in 1 .. Len(p) : F[m][i] = p[i]
          /\ \A i \in 1 .. Len(q) : F[m][Len(p) + i] = q[i]
      <3> HIDE DEF p, q
      <3>1. p \in Seq(V) /\ q \in Seq(V)
        BY <2>2
      <3>2. /\ Len(p) \in Nat /\ Len(q) \in Nat /\ DOMAIN p = 1 .. Len(p) /\ DOMAIN q = 1 .. Len(q)
            /\ DOMAIN (p \o q) = 1 .. Len(p) + Len(q)
            /\ \A i \in 1 .. Len(p) : (p \o q)[i] = p[i]
            /\ \A i \in 1 .. Len(q) : (p \o q)[Len(p) + i] = q[i]
        BY <3>1, ConcatFacts
      <3> QED
        BY <2>2, <3>2
    <2>5. \A j \in 1 .. m : j = m \/ j \in 1 .. m - 1
      BY <2>1
    <2>6. Held(m)
      <3> TAKE j \in 1 .. m
      <3> TAKE i \in DOMAIN ss[j]
      <3>1. CASE j = m
        <4>1. i \in 1 .. Len(q) /\ at[j] + i = Len(p) + i
          BY <2>2, <2>4, <3>1
        <4> HIDE DEF p
        <4>2. Len(p) + i \in 1 .. Len(p) + Len(q)
          <5> HIDE DEF q
          <5> QED
            BY <2>4, <4>1
        <4> QED
          BY <2>4, <3>1, <4>1, <4>2
      <3>2. CASE j \in 1 .. m - 1
        <4>1. at[j] + i \in DOMAIN p /\ p[at[j] + i] = ss[j][i]
          BY <2>3, <3>2
        <4> HIDE DEF p, q
        <4>2. at[j] + i \in 1 .. Len(p) + Len(q)
          BY <2>4, <4>1
        <4> QED
          BY <2>4, <4>1, <4>2
      <3> QED
        BY <2>5, <3>1, <3>2
    <2>7. Met(m)
      <3> TAKE k \in DOMAIN F[m]
      <3>1. CASE k \in 1 .. Len(p)
        <4>1. PICK j \in 1 .. m - 1 : \E i \in DOMAIN ss[j] : k = at[j] + i
          BY <2>3, <2>4, <3>1
        <4>2. j \in 1 .. m
          BY <2>1
        <4> QED
          BY <4>1, <4>2
      <3>2. CASE k \notin 1 .. Len(p)
        <4>1. k - Len(p) \in 1 .. Len(q) /\ k = Len(p) + (k - Len(p))
          <5> HIDE DEF p, q
          <5> QED
            BY <2>4, <3>2
        <4>2. k - Len(p) \in DOMAIN ss[m] /\ m \in 1 .. m
          BY <2>1, <2>4, <4>1
        <4> HIDE DEF p, q
        <4> QED
          BY <2>2, <4>1, <4>2
      <3> QED
        BY <3>1, <3>2
    <2> HIDE DEF Held, Met
    <2> QED
      BY <2>6, <2>7
  <1> HIDE DEF S, Held, Met
  <1>8. n \in S
    <2>1. 0 .. n \subseteq S
      BY <1>1, <1>6, <1>7, Upward
    <2> QED
      BY <1>1, <2>1
  <1>9. Held(n) /\ Met(n)
    BY <1>8 DEF S
  <1> DEFINE all == FlattenSeq(ss)
  <1>10. all \in Seq(V) /\ all = F[n]
    BY <1>1, <1>2
  <1> HIDE DEF all
  <1>11. /\ \A j \in DOMAIN ss : \A i \in DOMAIN ss[j] :
               at[j] + i \in DOMAIN all /\ all[at[j] + i] = ss[j][i]
         /\ \A k \in DOMAIN all : \E j \in DOMAIN ss : \E i \in DOMAIN ss[j] : k = at[j] + i
    <2>1. Held(n) = (\A j \in DOMAIN ss : \A i \in DOMAIN ss[j] :
                        at[j] + i \in DOMAIN all /\ all[at[j] + i] = ss[j][i])
      BY <1>1, <1>10 DEF Held
    <2>2. Met(n) = (\A k \in DOMAIN all : \E j \in DOMAIN ss : \E i \in DOMAIN ss[j] : k = at[j] + i)
      BY <1>1, <1>10 DEF Met
    <2> QED
      BY <1>9, <2>1, <2>2
  <1>12. at \in [DOMAIN ss -> Nat]
    BY <1>1, <1>5
  <1>13. Spots(all, ss, at)
    BY <1>11, <1>12 DEF Spots
  <1> QED
    BY <1>10, <1>13 DEF all

\* The places of one list at which another has its items, none of them twice.
TakenAt(f, t, n, s) ==
    /\ f \in [1..Len(t) -> 1..n]
    /\ \A i, j \in 1..Len(t) : f[i] = f[j] => i = j
    /\ \A i \in 1..Len(t) : t[i] = s[f[i]]

\* What Among keeps of a list.
LEMMA AmongFacts ==
    ASSUME NEW V, NEW s \in Seq(V), NEW S
    PROVE  /\ Among(s, S) \in Seq(V)
           /\ ToSet(Among(s, S)) = ToSet(s) \cap S
           /\ Distinct(s) => Distinct(Among(s, S))
           /\ \E f : TakenAt(f, Among(s, S), Len(s), s)
  <1> DEFINE n == Len(s)
             W == Seq(V)
             next(i, x) == IF s[i] \in S THEN Append(x, s[i]) ELSE x
             P(f) == f = [i \in 0..n |-> IF i = 0 THEN <<>> ELSE next(i, f[i - 1])]
             D == [i \in 1..n |-> [x \in W |-> next(i, x)]]
             F == CHOOSE f : P(f)
  <1>1. n \in Nat /\ <<>> \in W /\ DOMAIN s = 1..n
    OBVIOUS
  <1>2. \A i \in 1..n, x \in W : next(i, x) \in W
    OBVIOUS
  <1>3. Among(s, S) = F[n]
    BY DEF Among
  <1> HIDE DEF n, W, next
  <1>4. D \in [1..n -> [W -> W]]
    BY <1>2
  <1>5. PICK f \in [0..n -> W] : Iterates(f, n, <<>>, D)
    <2> HIDE DEF D
    <2>1. \E f \in [0..n -> W] : Iterates(f, n, <<>>, D)
      BY <1>1, <1>4, IterateExists
    <2> QED BY <2>1
  <1>6. P(f)
    <2>1. \A i \in 0..n : i # 0 => i \in 1..n /\ i - 1 \in 0..n
      BY <1>1
    <2>2. \A i \in 0..n : i # 0 => D[i][f[i - 1]] = next(i, f[i - 1])
      BY <1>5, <2>1
    <2> HIDE DEF D
    <2>3. f = [i \in 0..n |-> IF i = 0 THEN <<>> ELSE D[i][f[i - 1]]]
      BY <1>5 DEF Iterates
    <2>4. \A i \in 0..n : f[i] = IF i = 0 THEN <<>> ELSE next(i, f[i - 1])
      BY <2>2, <2>3
    <2> QED BY <1>5, <2>4
  <1>7. P(F)
    BY <1>6
  <1> HIDE DEF F
  <1>8. F[0] = <<>> /\ \A i \in 1..n : F[i] = next(i, F[i - 1])
    BY <1>1, <1>7
  <1> HIDE DEF P, D
  <1> DEFINE Good(i, x) == /\ x \in W
                           /\ ToSet(x) = {s[j] : j \in 1..i} \cap S
                           /\ Distinct(s) => Distinct(x)
                           /\ \E at : TakenAt(at, x, i, s)
             I == {i \in 0..n : Good(i, F[i])}
  <1>9. 0 \in I
    <2>1. F[0] \in W /\ ToSet(F[0]) = {s[j] : j \in 1..0} \cap S /\ (Distinct(s) => Distinct(F[0]))
      BY <1>1, <1>8 DEF ToSet, Distinct
    <2>2. TakenAt([i \in 1..0 |-> 0], F[0], 0, s)
      <3>1. Len(F[0]) = 0 /\ \A i : i \notin 1..0
        BY <1>8
      <3> QED BY <3>1 DEF TakenAt
    <2> QED BY <1>1, <2>1, <2>2
  <1>10. ASSUME NEW i \in 0..n, i # 0, i - 1 \in I PROVE i \in I
    <2> DEFINE x == F[i - 1]
    <2>1. i \in 1..n /\ {s[j] : j \in 1..i} = {s[j] : j \in 1..i - 1} \cup {s[i]}
      <3>1. \A j \in 1..i : j \in 1..i - 1 \/ j = i
        BY <1>10
      <3>2. i \in 1..i /\ 1..i - 1 \subseteq 1..i /\ i \in 1..n
        BY <1>10
      <3> QED BY <3>1, <3>2
    <2>2. Good(i - 1, x) /\ F[i] = next(i, x)
      BY <1>8, <1>10, <2>1
    <2>3. s[i] \in V /\ (Distinct(s) => s[i] \notin {s[j] : j \in 1..i - 1})
      BY <1>1, <2>1 DEF Distinct
    <2> HIDE DEF x
    <2>4. CASE s[i] \in S
      <3>1. F[i] = Append(x, s[i])
        BY <2>2, <2>4 DEF next
      <3>2. ToSet(Append(x, s[i])) = ToSet(x) \cup {s[i]} /\ Append(x, s[i]) \in W
        BY <2>2, <2>3, AppendFacts DEF W
      <3>3. Distinct(s) => Distinct(Append(x, s[i]))
        BY <2>2, <2>3, AppendFacts DEF W
      <3>4. \E at : TakenAt(at, Append(x, s[i]), i, s)
        <4>1. PICK g : TakenAt(g, x, i - 1, s)
          BY <2>2
        <4> DEFINE m == Len(x)
                   y == Append(x, s[i])
                   h == [k \in 1..m + 1 |-> IF k = m + 1 THEN i ELSE g[k]]
        <4>2. /\ m \in Nat /\ Len(y) = m + 1 /\ y[m + 1] = s[i]
              /\ \A k \in 1..m : y[k] = x[k]
          BY <2>2, <2>3 DEF W
        <4>3. i \in Nat /\ i \in 1..i /\ i \notin 1..i - 1 /\ 1..i - 1 \subseteq 1..i
          BY <1>1, <1>10
        <4>4. \A k \in 1..m + 1 : k # m + 1 => k \in 1..m
          BY <4>2
        <4>5. /\ \A k \in 1..m : g[k] \in 1..i - 1 /\ x[k] = s[g[k]]
              /\ \A k, l \in 1..m : g[k] = g[l] => k = l
          BY <4>1 DEF TakenAt
        <4> HIDE DEF m, y
        <4>6. h \in [1..m + 1 -> 1..i]
          BY <4>3, <4>4, <4>5
        <4>7. \A k, l \in 1..m + 1 : h[k] = h[l] => k = l
          BY <4>3, <4>4, <4>5
        <4>8. \A k \in 1..m + 1 : y[k] = s[h[k]]
          BY <4>2, <4>4, <4>5
        <4> HIDE DEF h
        <4>9. TakenAt(h, y, i, s)
          BY <4>2, <4>6, <4>7, <4>8 DEF TakenAt
        <4> QED BY <4>9 DEF y
      <3> QED BY <2>1, <2>2, <2>4, <3>1, <3>2, <3>3, <3>4
    <2>5. CASE s[i] \notin S
      <3>1. F[i] = x
        BY <2>2, <2>5 DEF next
      <3>2. PICK g : TakenAt(g, x, i - 1, s)
        BY <2>2
      <3>3. 1..i - 1 \subseteq 1..i
        BY <1>10
      <3>4. TakenAt(g, x, i, s)
        BY <3>2, <3>3 DEF TakenAt
      <3> QED BY <2>1, <2>2, <2>5, <3>1, <3>4
    <2> QED BY <2>4, <2>5
  <1> HIDE DEF I
  <1>11. n \in I
    BY <1>1, <1>9, <1>10, Upward
  <1>12. Good(n, F[n])
    BY <1>11 DEF I
  <1>13. {s[j] : j \in 1..n} = ToSet(s)
    BY <1>1 DEF ToSet
  <1> QED BY <1>3, <1>12, <1>13 DEF W, n

\* FirstOf finds an item of the set when the list has one.
LEMMA FirstOfFacts ==
  ASSUME NEW V, NEW s \in Seq(V), NEW S, ToSet(s) \cap S # {}
  PROVE  FirstOf(s, S) \in ToSet(s) \cap S
  <1> DEFINE at == {i \in DOMAIN s : s[i] \in S}
  <1>1. at \subseteq Nat /\ at # {}
    BY DEF ToSet
  <1>2. Min(at) \in at
    BY <1>1, MinFacts
  <1> QED
    BY <1>2 DEF FirstOf, ToSet
=============================================================================
