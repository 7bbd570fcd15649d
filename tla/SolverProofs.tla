---------------------------- MODULE SolverProofs ----------------------------
(***************************************************************************)
(* Theorems about the simulation's parts and plans: what the components of *)
(* Components.tla do is what their history says, and the simulator and the *)
(* generated program make the same plan of a circuit (NodalFrames.tla).    *)
(***************************************************************************)
EXTENDS Components, NodalFrames, Iteration, FiniteSetTheorems

-----------------------------------------------------------------------------
(* The bench: types, and how a history grows.                                *)

Levels == {0, 1}

\* The committed state of each kind.
States(kind) ==
  CASE kind = "Monostable" -> [timer : Int, last_in : Levels]
    [] kind = "TimeDelay"  -> [current : Levels, last_in : Levels, accumulator : Int, first : BOOLEAN]
    [] kind = "SampleHold" -> [stored : Int, last_trig : Levels]
    [] kind = "Comparator" -> [output_state : Levels]
    [] kind = "Integrator" -> [accumulator : Int, first : BOOLEAN]
    [] kind = "FuelTank"   -> [level : Int]
    [] kind = "Relay"      -> [closed : Levels]
    [] kind = "AZS"        -> [closed : Levels, tripped : Levels, temp : Nat, last_control : Int]
    [] OTHER               -> [current : Int, first : BOOLEAN]

Outs(kind) == IF kind = "AZS" THEN [state : Levels, tripped : Levels] ELSE [value : Int]

FrameOf(kind) ==
  [dt : Positive, at : Nat, in : Ports(kind), out : Outs(kind), part : States(kind)]

Typed ==
  /\ name \in DOMAIN Bench
  /\ part \in States(Kind) /\ out \in Outs(Kind)
  /\ frames \in Seq(FrameOf(Kind))

\* Every frame ends its time after the one before.
Timed(fs) == \A i \in DOMAIN fs : fs[i].at = Ended(fs, i - 1) + fs[i].dt

\* gs is fs with the frame f, the k + 1st, behind it.
Grown(fs, gs, f, k) ==
  /\ k \in Nat /\ Len(fs) = k /\ DOMAIN fs = 1 .. k
  /\ Len(gs) = k + 1 /\ DOMAIN gs = 1 .. k + 1
  /\ gs[k + 1] = f /\ \A i \in 1 .. k : gs[i] = fs[i]
  /\ gs # <<>> /\ Last(gs) = f /\ Front(gs) = fs /\ (fs = <<>>) = (k = 0)
  /\ k # 0 => Last(fs) = fs[k]
  /\ f.at = Ended(fs, k) + f.dt /\ f.dt \in Positive
  /\ Timed(fs) /\ Timed(gs)
  /\ \A i \in 1 .. k : fs[i].dt \in Positive
  /\ \A i \in 0 .. k : Ended(gs, i) = Ended(fs, i) /\ Ended(fs, i) \in Nat
  /\ Ended(gs, k + 1) = Ended(fs, k) + f.dt

\* The parts and their parameters as assumed.
LEMMA OnBench ==
  ASSUME Typed
  PROVE  Kind \in Kinds /\ Allowed(Kind, P) /\ Inputs[name] \subseteq Ports(Kind)
  BY BenchAssumption DEF Typed, Kind, P

\* How a history grows by a frame.
LEMMA GrownFacts ==
  ASSUME NEW kind, NEW fs \in Seq(FrameOf(kind)), Timed(fs),
         NEW f, f.dt \in Positive, f.at = Ended(fs, Len(fs)) + f.dt
  PROVE  Grown(fs, Append(fs, f), f, Len(fs))
  <1> DEFINE V == FrameOf(kind) \cup {f}
             gs == Append(fs, f)
             k == Len(fs)
  <1>0. k \in Nat /\ \A i \in 1 .. k : fs[i] \in FrameOf(kind)
    OBVIOUS
  <1>1. \A i \in 1 .. k : fs[i].at \in Nat /\ fs[i].dt \in Positive
    BY <1>0 DEF FrameOf
  <1>10. fs \in Seq(V) /\ f \in V
    OBVIOUS
  <1> HIDE DEF V
  <1>2. /\ DOMAIN fs = 1 .. k
        /\ gs \in Seq(V) /\ DOMAIN gs = 1 .. k + 1 /\ Len(gs) = k + 1
        /\ gs[k + 1] = f /\ \A i \in 1 .. k : gs[i] = fs[i]
    BY <1>10, AppendIndex
  <1>3. Last(gs) = f /\ Front(gs) = fs
    <2>1. Front(gs) = SubSeq(gs, 1, k)
      BY <1>0, <1>2 DEF Front
    <2>2. SubSeq(gs, 1, k) \in Seq(V) /\ Len(SubSeq(gs, 1, k)) = k
          /\ \A i \in 1 .. k : SubSeq(gs, 1, k)[i] = gs[i]
      BY <1>0, <1>2
    <2>4. SubSeq(gs, 1, k) = fs
      BY <1>0, <1>2, <1>10, <2>2
    <2> QED
      BY <1>2, <2>1, <2>4 DEF Last
  <1>4. gs # <<>> /\ (fs = <<>>) = (k = 0) /\ (k # 0 => Last(fs) = fs[k])
    BY <1>0, <1>2 DEF Last
  <1> HIDE DEF gs, k
  <1>5. \A i \in 0 .. k : Ended(gs, i) = Ended(fs, i) /\ Ended(fs, i) \in Nat
    BY <1>0, <1>1, <1>2 DEF Ended
  <1>6. f.at = Ended(fs, k) + f.dt
    BY DEF k
  <1>7. Ended(gs, k + 1) = Ended(fs, k) + f.dt
    BY <1>0, <1>2, <1>6 DEF Ended
  <1>8. Timed(gs)
    <2> SUFFICES ASSUME NEW i \in 1 .. k + 1 PROVE gs[i].at = Ended(gs, i - 1) + gs[i].dt
      BY <1>2 DEF Timed
    <2>1. CASE i = k + 1
      BY <1>0, <1>2, <1>5, <1>6, <2>1
    <2>2. CASE i \in 1 .. k
      <3>1. i - 1 \in 0 .. k
        BY <1>0, <2>2
      <3> QED
        BY <1>2, <1>5, <2>2, <3>1 DEF Timed
    <2> QED
      BY <1>0, <2>1, <2>2
  <1>9. Grown(fs, gs, f, k)
    BY <1>0, <1>1, <1>2, <1>3, <1>4, <1>5, <1>6, <1>7, <1>8 DEF Grown
  <1> QED
    BY <1>9 DEF gs, k

\* Frames end one after the other.
LEMMA TimeRises ==
  ASSUME NEW fs, NEW k \in Nat, DOMAIN fs = 1 .. k, Timed(fs),
         \A i \in 1 .. k : fs[i].dt \in Positive,
         \A i \in 0 .. k : Ended(fs, i) \in Nat,
         NEW i \in 0 .. k, NEW j \in i .. k
  PROVE  Ended(fs, i) <= Ended(fs, j)
  <1> DEFINE S == {m \in 0 .. k : m >= i => Ended(fs, i) <= Ended(fs, m)}
  <1>1. 0 \in S
    OBVIOUS
  <1>2. ASSUME NEW m \in 0 .. k, m # 0, m - 1 \in S PROVE m \in S
    <2>1. Ended(fs, m) = Ended(fs, m - 1) + fs[m].dt
      BY <1>2 DEF Timed, Ended
    <2>2. fs[m].dt \in Positive /\ Ended(fs, m) \in Nat /\ Ended(fs, m - 1) \in Nat
      BY <1>2
    <2>3. CASE m = i
      BY <2>2, <2>3
    <2>4. CASE m # i
      BY <1>2, <2>1, <2>2, <2>4 DEF Positive
    <2> QED
      BY <2>3, <2>4
  <1> HIDE DEF S
  <1>3. 0 .. k \subseteq S
    BY <1>1, <1>2, Upward
  <1> QED
    BY <1>3 DEF S

-----------------------------------------------------------------------------
(* Edges, and the pulse.                                                     *)

\* A frame with a rising edge adds an edge, any other adds none.
LEMMA EdgesGrow ==
  ASSUME NEW a, NEW b, NEW k \in Nat, DOMAIN a = 1 .. k, DOMAIN b = 1 .. k + 1,
         \A i \in 1 .. k : b[i] = a[i]
  PROVE  /\ Edges(a) \subseteq 1 .. k
         /\ b[k + 1] = 1 /\ (k = 0 \/ a[k] = 0) => Edges(b) = Edges(a) \cup {k + 1}
         /\ ~(b[k + 1] = 1 /\ (k = 0 \/ a[k] = 0)) => Edges(b) = Edges(a)
  <1>1. Edges(a) \subseteq 1 .. k
    BY DEF Edges
  <1>2. \A i \in 1 .. k : i \in Edges(b) <=> i \in Edges(a)
    <2> TAKE i \in 1 .. k
    <2>1. i = 1 \/ i - 1 \in 1 .. k
      OBVIOUS
    <2>2. i \in 1 .. k + 1
      OBVIOUS
    <2> QED
      BY <2>1, <2>2 DEF Edges
  <1>3. k + 1 \in Edges(b) <=> b[k + 1] = 1 /\ (k = 0 \/ a[k] = 0)
    <2>1. k + 1 \in 1 .. k + 1 /\ (k + 1 = 1 <=> k = 0) /\ k + 1 - 1 = k
      OBVIOUS
    <2>2. k # 0 => b[k] = a[k]
      OBVIOUS
    <2> QED
      BY <2>1, <2>2 DEF Edges
  <1>4. Edges(b) \subseteq 1 .. k + 1
    BY DEF Edges
  <1>5. \A i \in 1 .. k + 1 : i \in 1 .. k \/ i = k + 1
    OBVIOUS
  <1> QED
    BY <1>1, <1>2, <1>3, <1>4, <1>5

\* The timer of a pulse is what is left of the edge that has most left.
PulseKept(p, fs, s) ==
  LET left(e) == p.duration - (Ended(fs, Len(fs)) - Ended(fs, e))
  IN  /\ s.last_in = IF Len(fs) = 0 THEN 0 ELSE In(fs, Len(fs))
      /\ \A e \in InEdges(fs) : left(e) > 0 => s.timer >= left(e)
      /\ s.timer > 0 => \E e \in InEdges(fs) : s.timer = left(e)

\* Monostable: the output says whether an edge still lasts, and the timer goes on.
LEMMA PulseStep ==
  ASSUME NEW fs, NEW gs, NEW f, NEW k, Grown(fs, gs, f, k),
         f.in.in \in Levels, P.duration \in Int,
         NEW s \in [timer : Int, last_in : Levels], PulseKept(P, fs, s)
  PROVE  /\ Monostable(s, f.in, f.dt).part \in [timer : Int, last_in : Levels]
         /\ Monostable(s, f.in, f.dt).out \in [value : Int]
         /\ Monostable(s, f.in, f.dt).out.value = PulseReference(fs, P)
         /\ PulseKept(P, gs, Monostable(s, f.in, f.dt).part)
  <1> DEFINE t == Monostable(s, f.in, f.dt).part
             trigger == f.in.in = 1 /\ s.last_in = 0
             D == P.duration
             E(i) == Ended(fs, i)
             A == InEdges(fs)
             B == InEdges(gs)
  <1>0. /\ k \in Nat /\ Len(fs) = k /\ DOMAIN fs = 1 .. k /\ Len(gs) = k + 1 /\ DOMAIN gs = 1 .. k + 1
        /\ gs[k + 1] = f /\ \A i \in 1 .. k : gs[i] = fs[i]
    BY DEF Grown
  <1>1. /\ t = [timer |-> IF trigger THEN D ELSE Larger(0, s.timer - f.dt), last_in |-> f.in.in]
        /\ Monostable(s, f.in, f.dt).out = [value |-> Logic(s.timer > 0)]
    BY DEF Monostable, Answer
  <1> HIDE DEF t
  <1>2. f.dt \in Int /\ f.dt > 0 /\ s.timer \in Int /\ s.last_in \in Levels /\ D \in Int
    BY DEF Grown, Positive
  <1>3. t.timer = (IF trigger THEN D ELSE Larger(0, s.timer - f.dt)) /\ t.last_in = f.in.in
        /\ t \in [timer : Int, last_in : Levels]
    BY <1>1, <1>2 DEF Larger
  <1>4. A \subseteq 1 .. k /\ B = A \cup (IF trigger THEN {k + 1} ELSE {})
    <2> DEFINE a == [i \in DOMAIN fs |-> fs[i].in.in]
               b == [i \in DOMAIN gs |-> gs[i].in.in]
    <2>1. DOMAIN a = 1 .. k /\ DOMAIN b = 1 .. k + 1 /\ (\A i \in 1 .. k : b[i] = a[i]) /\ b[k + 1] = f.in.in
      BY <1>0
    <2>2. s.last_in = IF k = 0 THEN 0 ELSE a[k]
      BY <1>0 DEF PulseKept, In
    <2>3. A = Edges(a) /\ B = Edges(b)
      BY DEF InEdges
    <2> HIDE DEF A, B, a, b
    <2>4. trigger <=> b[k + 1] = 1 /\ (k = 0 \/ a[k] = 0)
      BY <2>1, <2>2
    <2> HIDE DEF trigger
    <2>6. k \in Nat
      BY <1>0
    <2>5. /\ Edges(a) \subseteq 1 .. k
          /\ b[k + 1] = 1 /\ (k = 0 \/ a[k] = 0) => Edges(b) = Edges(a) \cup {k + 1}
          /\ ~(b[k + 1] = 1 /\ (k = 0 \/ a[k] = 0)) => Edges(b) = Edges(a)
      BY ONLY <2>1, <2>6, EdgesGrow
    <2> QED
      BY <2>3, <2>4, <2>5
  <1>5. \A e \in A : E(e) \in Nat /\ E(k) \in Nat /\ E(e) <= E(k)
    <2>1. \A i \in 1 .. k : fs[i].dt \in Positive
      BY <1>0 DEF Grown
    <2>2. \A i \in 0 .. k : E(i) \in Nat
      BY DEF Grown
    <2>3. Timed(fs)
      BY DEF Grown
    <2> HIDE DEF E, A
    <2>4. \A i \in 0 .. k : \A j \in i .. k : E(i) <= E(j)
      BY <1>0, <2>1, <2>2, <2>3, TimeRises DEF E
    <2>5. \A e \in A : e \in 0 .. k /\ k \in e .. k /\ k \in 0 .. k
      BY <1>0, <1>4
    <2> QED
      BY <2>2, <2>4, <2>5
  <1>6. /\ Ended(gs, k + 1) = E(k) + f.dt
        /\ \A e \in A : Ended(gs, e) = E(e)
    BY <1>4 DEF Grown
  <1>7. /\ \A e \in A : D - (E(k) - E(e)) > 0 => s.timer >= D - (E(k) - E(e))
        /\ s.timer > 0 => \E e \in A : s.timer = D - (E(k) - E(e))
    BY <1>0 DEF PulseKept
  <1>8. Logic(s.timer > 0) = PulseReference(fs, P)
    <2>1. PulseReference(fs, P) = Logic(\E e \in A : E(k) - E(e) < D)
      <3>1. \A e \in A : Elapsed(fs, e + 1, Len(fs)) = E(k) - E(e)
        BY <1>0, <1>4 DEF Elapsed
      <3> QED
        BY <3>1 DEF PulseReference
    <2> HIDE DEF A, E, D
    <2>2. (\E e \in A : E(k) - E(e) < D) <=> s.timer > 0
      BY <1>2, <1>5, <1>7
    <2> QED
      BY <2>1, <2>2 DEF Logic
  <1>9. PulseKept(P, gs, t)
    <2> DEFINE G(e) == Ended(gs, e)
               now == Ended(gs, Len(gs))
               left(e) == D - (now - G(e))
    <2>1. now = E(k) + f.dt /\ (\A e \in A : G(e) = E(e)) /\ G(k + 1) = E(k) + f.dt
      BY <1>0, <1>6
    <2>2. t.last_in = IF Len(gs) = 0 THEN 0 ELSE In(gs, Len(gs))
      BY <1>0, <1>3 DEF In
    <2> HIDE DEF A, B, E, G, D, now
    <2>3. \A e \in B : left(e) > 0 => t.timer >= left(e)
      <3> SUFFICES ASSUME NEW e \in B, left(e) > 0 PROVE t.timer >= left(e)
        OBVIOUS
      <3>1. CASE e \in A
        <4>1. left(e) = D - (E(k) - E(e)) - f.dt /\ E(e) \in Nat /\ E(k) \in Nat /\ E(e) <= E(k)
          BY <1>2, <1>5, <2>1, <3>1
        <4>2. D - (E(k) - E(e)) > 0
          BY <1>2, <4>1
        <4>3. s.timer >= D - (E(k) - E(e))
          BY <1>7, <3>1, <4>2
        <4> QED
          BY <1>2, <1>3, <4>1, <4>3 DEF Larger
      <3>2. CASE e = k + 1 /\ e \notin A
        <4>1. trigger
          BY <1>4, <3>2
        <4>2. t.timer = D
          BY <1>3, <4>1
        <4>3. left(e) = D - (now - now)
          BY <2>1, <3>2
        <4>4. now \in Int
          <5>1. E(k) \in Nat
            BY DEF Grown, E
          <5> QED
            BY <1>2, <2>1, <5>1
        <4> QED
          BY <1>2, <4>2, <4>3, <4>4
      <3> QED
        BY <1>4, <3>1, <3>2
    <2>4. ASSUME t.timer > 0 PROVE \E e \in B : t.timer = left(e)
      <3>0. E(k) \in Nat
        BY DEF Grown, E
      <3>1. CASE trigger
        <4>1. k + 1 \in B /\ t.timer = D
          BY <1>3, <1>4, <3>1
        <4>2. left(k + 1) = D
          BY <1>2, <2>1, <3>0
        <4> QED
          BY <4>1, <4>2
      <3>2. CASE ~trigger
        <4>1. t.timer = s.timer - f.dt /\ s.timer > 0
          BY <1>2, <1>3, <2>4, <3>2 DEF Larger
        <4>2. PICK e \in A : s.timer = D - (E(k) - E(e))
          BY <1>7, <4>1
        <4>3. E(e) \in Nat /\ G(e) = E(e) /\ now = E(k) + f.dt
          BY <1>5, <2>1, <4>2
        <4>5. left(e) = D - (E(k) + f.dt - E(e))
          BY <1>2, <3>0, <4>3
        <4>4. t.timer = left(e) /\ e \in B
          BY <1>2, <1>4, <3>0, <4>1, <4>2, <4>3, <4>5
        <4> QED
          BY <4>4
      <3> QED
        BY <3>1, <3>2
    <2>5. InEdges(gs) = B /\ P.duration = D /\ \A e \in B : P.duration - (Ended(gs, Len(gs)) - Ended(gs, e)) = left(e)
      BY DEF B, D, now, G
    <2> HIDE DEF left
    <2> QED
      BY <2>2, <2>3, <2>4, <2>5 DEF PulseKept
  <1>10. Monostable(s, f.in, f.dt).out \in [value : Int] /\ Monostable(s, f.in, f.dt).out.value = Logic(s.timer > 0)
    BY <1>1 DEF Logic
  <1> QED
    BY <1>3, <1>8, <1>9, <1>10 DEF t
-----------------------------------------------------------------------------
(* The last of the frames, samplers, latches.                                *)

\* The last of some frames, and of some more with the newest.
LEMMA Newest ==
  ASSUME NEW k \in Nat, NEW A, A \subseteq 1 .. k
  PROVE  /\ A # {} => Max(A) \in 1 .. k /\ Max(A) \in A
         /\ Max(A \cup {k + 1}) = k + 1
  <1>1. A \subseteq 0 .. k /\ A \cup {k + 1} \subseteq 0 .. k + 1 /\ k + 1 \in Nat
    OBVIOUS
  <1>2. A # {} => Max(A) \in A
    BY <1>1, MaxFacts
  <1>3. Max(A \cup {k + 1}) \in A \cup {k + 1} /\ \A j \in A \cup {k + 1} : j <= Max(A \cup {k + 1})
    BY ONLY <1>1, MaxFacts
  <1>4. \A m \in A \cup {k + 1} : m >= k + 1 => m = k + 1
    OBVIOUS
  <1> QED
    BY <1>2, <1>3, <1>4

\* What a sampler holds is the input of the last edge of its trigger.
SampleKept(fs, s) ==
  /\ s.last_trig = IF Len(fs) = 0 THEN 0 ELSE fs[Len(fs)].in.trigger
  /\ s.stored = SampleReference(fs)

LEMMA SampleStep ==
  ASSUME NEW fs, NEW gs, NEW f, NEW k, Grown(fs, gs, f, k),
         f.in \in [in : Int, trigger : Levels],
         NEW s \in [stored : Int, last_trig : Levels], SampleKept(fs, s)
  PROVE  /\ SampleHold(s, f.in, f.dt).part \in [stored : Int, last_trig : Levels]
         /\ SampleHold(s, f.in, f.dt).out \in [value : Int]
         /\ SampleHold(s, f.in, f.dt).out.value = SampleReference(fs)
         /\ SampleKept(gs, SampleHold(s, f.in, f.dt).part)
  <1> DEFINE t == SampleHold(s, f.in, f.dt).part
             trigger == f.in.trigger = 1 /\ s.last_trig = 0
             A == TriggerEdges(fs)
             B == TriggerEdges(gs)
  <1>0. /\ k \in Nat /\ Len(fs) = k /\ DOMAIN fs = 1 .. k /\ Len(gs) = k + 1 /\ DOMAIN gs = 1 .. k + 1
        /\ gs[k + 1] = f /\ \A i \in 1 .. k : gs[i] = fs[i]
    BY DEF Grown
  <1>1. /\ t = [stored |-> IF trigger THEN f.in.in ELSE s.stored, last_trig |-> f.in.trigger]
        /\ SampleHold(s, f.in, f.dt).out = [value |-> s.stored]
    BY DEF SampleHold, Answer
  <1> HIDE DEF t
  <1>2. t \in [stored : Int, last_trig : Levels] /\ SampleHold(s, f.in, f.dt).out \in [value : Int]
    BY <1>1
  <1>3. A \subseteq 1 .. k /\ B = A \cup (IF trigger THEN {k + 1} ELSE {})
    <2> DEFINE a == [i \in DOMAIN fs |-> fs[i].in.trigger]
               b == [i \in DOMAIN gs |-> gs[i].in.trigger]
    <2>1. DOMAIN a = 1 .. k /\ DOMAIN b = 1 .. k + 1 /\ (\A i \in 1 .. k : b[i] = a[i]) /\ b[k + 1] = f.in.trigger
      BY <1>0
    <2>2. s.last_trig = IF k = 0 THEN 0 ELSE a[k]
      BY <1>0 DEF SampleKept
    <2>3. A = Edges(a) /\ B = Edges(b)
      BY DEF TriggerEdges
    <2> HIDE DEF A, B, a, b
    <2>4. trigger <=> b[k + 1] = 1 /\ (k = 0 \/ a[k] = 0)
      BY <2>1, <2>2
    <2> HIDE DEF trigger
    <2>6. k \in Nat
      BY <1>0
    <2>5. /\ Edges(a) \subseteq 1 .. k
          /\ b[k + 1] = 1 /\ (k = 0 \/ a[k] = 0) => Edges(b) = Edges(a) \cup {k + 1}
          /\ ~(b[k + 1] = 1 /\ (k = 0 \/ a[k] = 0)) => Edges(b) = Edges(a)
      BY ONLY <2>1, <2>6, EdgesGrow
    <2> QED
      BY <2>3, <2>4, <2>5
  <1>4. t.stored = SampleReference(gs)
    <2>1. s.stored = IF A = {} THEN 0 ELSE In(fs, Max(A))
      BY DEF SampleKept, SampleReference
    <2>2. SampleReference(gs) = IF B = {} THEN 0 ELSE In(gs, Max(B))
      BY DEF SampleReference
    <2> HIDE DEF A, B
    <2>3. (A # {} => Max(A) \in 1 .. k) /\ Max(A \cup {k + 1}) = k + 1
      BY <1>0, <1>3, Newest
    <2>4. CASE trigger
      <3>1. SampleReference(gs) = In(gs, k + 1)
        BY <1>3, <2>2, <2>3, <2>4
      <3> QED
        BY <1>0, <1>1, <2>4, <3>1 DEF In
    <2>5. CASE ~trigger
      <3>1. B = A /\ t.stored = s.stored
        BY <1>1, <1>3, <2>5
      <3>2. A # {} => In(gs, Max(A)) = In(fs, Max(A))
        BY <1>0, <2>3 DEF In
      <3> QED
        BY <2>1, <2>2, <3>1, <3>2
    <2> QED
      BY <2>4, <2>5
  <1>5. t.last_trig = IF Len(gs) = 0 THEN 0 ELSE gs[Len(gs)].in.trigger
    BY <1>0, <1>1
  <1>6. SampleKept(gs, t)
    BY <1>4, <1>5 DEF SampleKept
  <1>7. SampleHold(s, f.in, f.dt).out.value = SampleReference(fs)
    BY <1>1 DEF SampleKept
  <1> QED
    BY <1>2, <1>6, <1>7 DEF t

\* A part with two thresholds, by a frame.
LEMMA LatchStep ==
  ASSUME NEW fs, NEW gs, NEW f, NEW k, Grown(fs, gs, f, k), f.in.in \in Int,
         NEW high, NEW low, NEW initial
  PROVE  LatchReference(gs, high, low, initial) =
             IF f.in.in >= high \/ f.in.in <= low THEN Logic(f.in.in >= high)
             ELSE LatchReference(fs, high, low, initial)
  <1> DEFINE A == {i \in DOMAIN fs : In(fs, i) >= high \/ In(fs, i) <= low}
             B == {i \in DOMAIN gs : In(gs, i) >= high \/ In(gs, i) <= low}
             passes == f.in.in >= high \/ f.in.in <= low
  <1>0. /\ k \in Nat /\ DOMAIN fs = 1 .. k /\ DOMAIN gs = 1 .. k + 1
        /\ In(gs, k + 1) = f.in.in /\ \A i \in 1 .. k : In(gs, i) = In(fs, i)
    BY DEF Grown, In
  <1>1. A \subseteq 1 .. k /\ (passes => B = A \cup {k + 1}) /\ (~passes => B = A)
    <2>1. \A i : i \in 1 .. k + 1 <=> i \in 1 .. k \/ i = k + 1
      BY <1>0
    <2>2. \A i \in 1 .. k : i \in A <=> i \in B
      BY <1>0, <2>1
    <2>3. k + 1 \in B <=> passes
      BY <1>0, <2>1
    <2>4. A \subseteq 1 .. k /\ B \subseteq 1 .. k + 1
      BY <1>0
    <2> HIDE DEF A, B, passes
    <2> QED
      BY <2>1, <2>2, <2>3, <2>4
  <1>2. /\ LatchReference(fs, high, low, initial) = IF A = {} THEN initial ELSE Logic(In(fs, Max(A)) >= high)
        /\ LatchReference(gs, high, low, initial) = IF B = {} THEN initial ELSE Logic(In(gs, Max(B)) >= high)
    BY DEF LatchReference
  <1> HIDE DEF A, B, passes
  <1>3. (A # {} => Max(A) \in 1 .. k) /\ Max(A \cup {k + 1}) = k + 1
    BY <1>0, <1>1, Newest
  <1>4. CASE passes
    <2>1. LatchReference(gs, high, low, initial) = Logic(In(gs, k + 1) >= high)
      BY <1>1, <1>2, <1>3, <1>4
    <2> QED
      BY <1>0, <1>4, <2>1 DEF passes
  <1>5. CASE ~passes
    <2>1. A # {} => In(gs, Max(A)) = In(fs, Max(A))
      BY <1>0, <1>3
    <2>3. B = A
      BY <1>1, <1>5
    <2>2. LatchReference(gs, high, low, initial) = LatchReference(fs, high, low, initial)
      BY ONLY <1>2, <2>1, <2>3
    <2> QED
      BY <1>5, <2>2 DEF passes
  <1> QED
    BY <1>4, <1>5

\* Comparator: its state is the side of the thresholds its input last was on.
LEMMA ComparatorStep ==
  ASSUME NEW fs, NEW gs, NEW f, NEW k, Grown(fs, gs, f, k), f.in.in \in Int,
         P.Von \in Int, P.Voff \in Int, NEW s \in [output_state : Levels],
         s.output_state = LatchReference(fs, P.Von, P.Voff, 0)
  PROVE  /\ Comparator(s, f.in, f.dt).part \in [output_state : Levels]
         /\ Comparator(s, f.in, f.dt).out \in [value : Int]
         /\ Comparator(s, f.in, f.dt).out.value = LatchReference(gs, P.Von, P.Voff, 0)
         /\ Comparator(s, f.in, f.dt).part.output_state = LatchReference(gs, P.Von, P.Voff, 0)
  <1> DEFINE on == Logic(f.in.in >= P.Von \/ (s.output_state = 1 /\ f.in.in > P.Voff))
  <1>1. /\ Comparator(s, f.in, f.dt).part = [output_state |-> on]
        /\ Comparator(s, f.in, f.dt).out = [value |-> on]
    BY DEF Comparator, Answer
  <1>2. LatchReference(gs, P.Von, P.Voff, 0) =
             IF f.in.in >= P.Von \/ f.in.in <= P.Voff THEN Logic(f.in.in >= P.Von) ELSE s.output_state
    BY LatchStep
  <1>3. on = (IF f.in.in >= P.Von \/ f.in.in <= P.Voff THEN Logic(f.in.in >= P.Von) ELSE s.output_state)
        /\ on \in Levels
    BY DEF Logic, Levels
  <1> HIDE DEF on
  <1>4. on \in Int
    BY <1>3 DEF Levels
  <1> QED
    BY <1>1, <1>2, <1>3, <1>4

\* Relay: it stands on the side of its threshold its control last was on.
LEMMA RelayStep ==
  ASSUME NEW fs, NEW gs, NEW f, NEW k, Grown(fs, gs, f, k), f.in.in \in Int,
         P.hold_threshold \in Int, NEW s \in [closed : Levels],
         s.closed = LatchReference(fs, P.hold_threshold + 1, -P.hold_threshold - 1, P.closed)
  PROVE  /\ Relay(s, f.in, f.dt).part \in [closed : Levels]
         /\ Relay(s, f.in, f.dt).out \in [value : Int]
         /\ Relay(s, f.in, f.dt).out.value
              = LatchReference(gs, P.hold_threshold + 1, -P.hold_threshold - 1, P.closed)
         /\ Relay(s, f.in, f.dt).part.closed
              = LatchReference(gs, P.hold_threshold + 1, -P.hold_threshold - 1, P.closed)
  <1> DEFINE high == P.hold_threshold + 1
             low == -P.hold_threshold - 1
             closed == IF f.in.in > P.hold_threshold THEN 1
                       ELSE IF f.in.in < -P.hold_threshold THEN 0 ELSE s.closed
  <1>1. /\ Relay(s, f.in, f.dt).part = [closed |-> closed]
        /\ Relay(s, f.in, f.dt).out = [value |-> closed]
    BY DEF Relay, Answer
  <1>2. LatchReference(gs, high, low, P.closed) =
             IF f.in.in >= high \/ f.in.in <= low THEN Logic(f.in.in >= high) ELSE s.closed
    BY LatchStep
  <1>3. closed = (IF f.in.in >= high \/ f.in.in <= low THEN Logic(f.in.in >= high) ELSE s.closed)
        /\ closed \in Levels
    BY DEF Logic, Levels
  <1> HIDE DEF closed
  <1>4. closed \in Int
    BY <1>3 DEF Levels
  <1> QED
    BY <1>1, <1>2, <1>3, <1>4
-----------------------------------------------------------------------------
(* Delays.                                                                   *)

\* The frames from which the input has been what it is in frame i.
Steady(fs, i) == {j \in 1 .. i : \A m \in j .. i : In(fs, m) = In(fs, i)}

\* Where the run of equal inputs began, before and after a frame.
LEMMA RunsGrow ==
  ASSUME NEW fs, NEW gs, NEW f, NEW k, Grown(fs, gs, f, k)
  PROVE  /\ \A i \in 1 .. k : RunStart(gs, i) = RunStart(fs, i) /\ RunStart(fs, i) \in 1 .. i
         /\ RunStart(gs, k + 1) = IF k # 0 /\ f.in.in = In(fs, k) THEN RunStart(fs, k) ELSE k + 1
  <1>0. /\ k \in Nat /\ DOMAIN fs = 1 .. k /\ DOMAIN gs = 1 .. k + 1
        /\ In(gs, k + 1) = f.in.in /\ \A i \in 1 .. k : In(gs, i) = In(fs, i)
    BY DEF Grown, In
  <1>1. \A i \in 1 .. k : Steady(gs, i) = Steady(fs, i)
    <2> TAKE i \in 1 .. k
    <2>1. \A j \in 1 .. i : \A m \in j .. i : m \in 1 .. k
      BY <1>0
    <2> QED
      BY <1>0, <2>1 DEF Steady
  <1>2. /\ \A i \in 1 .. k : RunStart(fs, i) = Min(Steady(fs, i)) /\ RunStart(gs, i) = Min(Steady(gs, i))
        /\ RunStart(gs, k + 1) = Min(Steady(gs, k + 1))
    BY DEF RunStart, Steady
  <1>3. \A i \in 1 .. k : RunStart(fs, i) \in 1 .. i
    <2> TAKE i \in 1 .. k
    <2>1. i \in Steady(fs, i) /\ Steady(fs, i) \subseteq Nat /\ Steady(fs, i) \subseteq 1 .. i
      <3>1. i \in 1 .. i /\ \A m \in i .. i : m = i
        BY <1>0
      <3> QED
        BY <1>0, <3>1 DEF Steady
    <2> DEFINE I == Steady(fs, i)
    <2> HIDE DEF I
    <2>2. I \subseteq Nat /\ I # {} /\ I \subseteq 1 .. i
      BY <2>1 DEF I
    <2>3. Min(I) \in I
      BY <2>2, MinFacts
    <2> QED
      BY <1>2, <2>2, <2>3 DEF I
  <1>4. CASE k # 0 /\ f.in.in = In(fs, k)
    <2> DEFINE I == Steady(fs, k)
               J == Steady(gs, k + 1)
    <2>1. J = I \cup {k + 1}
      <3>1. \A j \in 1 .. k : j \in J <=> j \in I
        <4> TAKE j \in 1 .. k
        <4>1. k \in j .. k /\ j \in 1 .. k + 1
          BY <1>0
        <4>2. \A m : m \in j .. k + 1 <=> m \in j .. k \/ m = k + 1
          BY <1>0
        <4>3. \A m \in j .. k : m \in 1 .. k
          BY <1>0
        <4>4. j \in I <=> \A m \in j .. k : In(fs, m) = In(fs, k)
          BY DEF Steady
        <4>5. j \in J <=> \A m \in j .. k + 1 : In(gs, m) = In(gs, k + 1)
          BY <4>1 DEF Steady
        <4> HIDE DEF I, J
        <4>6. \A m \in j .. k : In(gs, m) = In(fs, m)
          BY <1>0, <4>3
        <4> QED
          BY <1>0, <1>4, <4>1, <4>2, <4>4, <4>5, <4>6
      <3>2. k + 1 \in J
        <4>1. k + 1 \in 1 .. k + 1 /\ \A m \in k + 1 .. k + 1 : m = k + 1
          BY <1>0
        <4> QED
          BY <4>1 DEF Steady
      <3>3. J \subseteq 1 .. k + 1 /\ I \subseteq 1 .. k
        BY DEF Steady
      <3>4. \A j : j \in 1 .. k + 1 => j \in 1 .. k \/ j = k + 1
        BY <1>0
      <3> HIDE DEF I, J
      <3> QED
        BY <3>1, <3>2, <3>3, <3>4
    <2>2. k \in I /\ I \subseteq 1 .. k
      <3>1. k \in 1 .. k /\ \A m \in k .. k : m = k
        BY <1>0, <1>4
      <3> QED
        BY <3>1 DEF Steady
    <2> HIDE DEF I, J
    <2>3. I \subseteq Nat /\ J \subseteq Nat /\ J # {}
      BY <1>0, <2>1, <2>2
    <2>4. Min(I) \in I /\ \A j \in I : Min(I) <= j
      BY <2>2, <2>3, MinFacts
    <2>5. Min(J) \in J /\ \A j \in J : Min(J) <= j
      BY <2>3, MinFacts
    <2>12. \A j \in J : j \in 1 .. k + 1
      BY <1>0, <2>1, <2>2
    <2>6. Min(I) \in 1 .. k /\ Min(I) \in J /\ Min(J) \in 1 .. k + 1
      <3>1. Min(I) \in 1 .. k
        BY <2>2, <2>4
      <3>2. Min(I) \in J
        BY <2>1, <2>4
      <3>3. Min(J) \in 1 .. k + 1
        BY <2>5, <2>12
      <3> QED
        BY <3>1, <3>2, <3>3
    <2>7. Min(J) <= Min(I)
      BY <2>5, <2>6
    <2>8. Min(J) \in I
      BY <1>0, <2>1, <2>5, <2>6, <2>7
    <2>9. Min(I) <= Min(J)
      BY <2>4, <2>8
    <2>10. Min(I) = Min(J)
      BY <1>0, <2>6, <2>7, <2>9
    <2>11. k \in 1 .. k
      BY <2>2
    <2> QED
      BY <1>1, <1>2, <1>3, <1>4, <2>10, <2>11 DEF I, J
  <1>5. CASE ~(k # 0 /\ f.in.in = In(fs, k))
    <2> DEFINE J == Steady(gs, k + 1)
    <2>1. J = {k + 1}
      <3>1. k + 1 \in J
        <4>1. k + 1 \in 1 .. k + 1 /\ \A m \in k + 1 .. k + 1 : m = k + 1
          BY <1>0
        <4> QED
          BY <4>1 DEF Steady
      <3>2. \A j \in 1 .. k : j \notin J
        <4> TAKE j \in 1 .. k
        <4>1. k # 0 /\ k \in j .. k + 1 /\ k \in 1 .. k
          BY <1>0
        <4>2. In(gs, k) # In(gs, k + 1)
          BY <1>0, <1>5, <4>1
        <4> QED
          BY <4>1, <4>2 DEF Steady
      <3>3. J \subseteq 1 .. k + 1
        BY DEF Steady
      <3>4. \A j : j \in 1 .. k + 1 => j \in 1 .. k \/ j = k + 1
        BY <1>0
      <3> HIDE DEF J
      <3> QED
        BY <3>1, <3>2, <3>3, <3>4
    <2> HIDE DEF J
    <2>2. J \subseteq Nat /\ J # {}
      BY <1>0, <2>1
    <2>3. Min(J) = k + 1
      BY <2>1, <2>2, MinFacts
    <2> QED
      BY <1>1, <1>2, <1>3, <1>5, <2>3 DEF J
  <1> QED
    BY <1>4, <1>5

\* How long an input has lasted, before and after a frame.
LEMMA LastingGrows ==
  ASSUME NEW fs, NEW gs, NEW f, NEW k, Grown(fs, gs, f, k)
  PROVE  /\ \A i \in 1 .. k : Lasted(gs, i) = Lasted(fs, i) /\ Lasted(fs, i) \in Int
         /\ Lasted(gs, k + 1) = IF k = 0 THEN f.dt
                                ELSE IF f.in.in = In(fs, k) THEN Lasted(fs, k) + f.dt ELSE 0
  <1>0. /\ k \in Nat /\ f.dt \in Int /\ \A i \in 0 .. k : Ended(gs, i) = Ended(fs, i) /\ Ended(fs, i) \in Int
        /\ Ended(gs, k + 1) = Ended(fs, k) + f.dt
    BY DEF Grown, Positive
  <1>1. /\ \A i \in 1 .. k : RunStart(gs, i) = RunStart(fs, i) /\ RunStart(fs, i) \in 1 .. i
        /\ RunStart(gs, k + 1) = IF k # 0 /\ f.in.in = In(fs, k) THEN RunStart(fs, k) ELSE k + 1
    BY RunsGrow
  <1> DEFINE from(r) == IF r = 1 THEN 0 ELSE r
  <1>2. \A h, i : RunStart(h, i) \in Nat => Lasted(h, i) = Ended(h, i) - Ended(h, from(RunStart(h, i)))
    <2> TAKE h, i
    <2> HAVE RunStart(h, i) \in Nat
    <2> DEFINE r == RunStart(h, i)
    <2>1. Lasted(h, i) = Ended(h, i) - Ended(h, (IF r = 1 THEN 1 ELSE r + 1) - 1)
      BY DEF Lasted, Elapsed
    <2> HIDE DEF r
    <2>2. r \in Nat
      BY DEF r
    <2>3. (IF r = 1 THEN 1 ELSE r + 1) - 1 = from(r)
      BY <2>2
    <2> HIDE DEF from
    <2> QED
      BY <2>1, <2>3 DEF r
  <1>3. \A i \in 1 .. k : Lasted(gs, i) = Lasted(fs, i) /\ Lasted(fs, i) \in Int
    <2> TAKE i \in 1 .. k
    <2>1. RunStart(fs, i) \in 1 .. i /\ RunStart(gs, i) = RunStart(fs, i)
      BY <1>1
    <2>2. from(RunStart(fs, i)) \in 0 .. k /\ RunStart(fs, i) \in Nat /\ i \in 0 .. k
      BY <1>0, <2>1
    <2> HIDE DEF from
    <2>3. /\ Lasted(fs, i) = Ended(fs, i) - Ended(fs, from(RunStart(fs, i)))
          /\ Lasted(gs, i) = Ended(gs, i) - Ended(gs, from(RunStart(fs, i)))
      BY <1>2, <2>1, <2>2
    <2> QED
      BY <1>0, <2>2, <2>3
  <1>4. CASE k = 0
    <2>1. RunStart(gs, k + 1) = 1
      BY <1>1, <1>4
    <2>2. Lasted(gs, k + 1) = Ended(gs, k + 1) - Ended(gs, 0)
      BY <1>2, <2>1
    <2>3. Ended(gs, 0) = 0 /\ Ended(fs, 0) = 0
      BY DEF Ended
    <2> QED
      BY <1>0, <1>3, <1>4, <2>2, <2>3
  <1>5. CASE k # 0 /\ f.in.in = In(fs, k)
    <2>1. k \in 1 .. k /\ k \in 0 .. k
      BY <1>0, <1>5
    <2>2. RunStart(gs, k + 1) = RunStart(fs, k) /\ RunStart(fs, k) \in 1 .. k /\ RunStart(fs, k) \in Nat
      BY <1>0, <1>1, <1>5, <2>1
    <2>3. from(RunStart(fs, k)) \in 0 .. k
      BY <1>0, <2>2
    <2> HIDE DEF from
    <2>4. Lasted(fs, k) = Ended(fs, k) - Ended(fs, from(RunStart(fs, k)))
      BY <1>2, <2>2
    <2>5. Lasted(gs, k + 1) = Ended(gs, k + 1) - Ended(gs, from(RunStart(fs, k)))
      BY <1>2, <2>2
    <2>6. /\ Ended(gs, from(RunStart(fs, k))) = Ended(fs, from(RunStart(fs, k)))
          /\ Ended(fs, from(RunStart(fs, k))) \in Int /\ Ended(fs, k) \in Int
      BY <1>0, <2>1, <2>3
    <2>7. Lasted(gs, k + 1) = Lasted(fs, k) + f.dt
      BY <1>0, <2>4, <2>5, <2>6
    <2> QED
      BY <1>3, <1>5, <2>7
  <1>6. CASE k # 0 /\ f.in.in # In(fs, k)
    <2>1. RunStart(gs, k + 1) = k + 1 /\ k + 1 \in Nat /\ k + 1 # 1 /\ k \in 0 .. k
      BY <1>0, <1>1, <1>6
    <2>2. from(k + 1) = k + 1
      BY <2>1
    <2> HIDE DEF from
    <2>3. Lasted(gs, k + 1) = Ended(gs, k + 1) - Ended(gs, k + 1)
      BY <1>2, <2>1, <2>2
    <2>4. Ended(gs, k + 1) \in Int
      BY <1>0, <2>1
    <2>5. Lasted(gs, k + 1) = 0
      BY <2>3, <2>4
    <2> QED
      BY <1>3, <1>6, <2>5
  <1> QED
    BY <1>4, <1>5, <1>6

\* A delay counts how long its input has lasted, and holds the last that passed.
DelayKept(p, fs, s) ==
  LET k == Len(fs)
  IN IF k = 0 THEN s.first /\ s.accumulator = 0
     ELSE /\ ~s.first /\ s.last_in = In(fs, k)
          /\ s.accumulator = Lasted(fs, k)
          /\ s.current = In(fs, LastPassed(fs, p))

LEMMA DelayStep ==
  ASSUME NEW fs, NEW gs, NEW f, NEW k, Grown(fs, gs, f, k), f.in.in \in Levels,
         P.delay_on \in Int, P.delay_off \in Int,
         NEW s \in [current : Levels, last_in : Levels, accumulator : Int, first : BOOLEAN],
         DelayKept(P, fs, s)
  PROVE  LET a == TimeDelay(s, f.in, f.dt)
         IN  /\ a.part \in [current : Levels, last_in : Levels, accumulator : Int, first : BOOLEAN]
             /\ a.out \in [value : Int]
             /\ a.out.value = In(gs, LastPassed(fs, P))
             /\ DelayKept(P, gs, a.part)
  <1> DEFINE a == TimeDelay(s, f.in, f.dt)
             t == a.part
             current == IF s.first THEN f.in.in ELSE s.current
             same == s.first \/ f.in.in = s.last_in
             accumulator == IF same THEN s.accumulator + f.dt ELSE 0
             delay == IF f.in.in = 1 THEN P.delay_on ELSE P.delay_off
             passed(h) == {i \in DOMAIN h : Lasted(h, i) >= (IF In(h, i) = 1 THEN P.delay_on ELSE P.delay_off)}
  <1>0. /\ k \in Nat /\ Len(fs) = k /\ DOMAIN fs = 1 .. k /\ Len(gs) = k + 1 /\ DOMAIN gs = 1 .. k + 1
        /\ In(gs, k + 1) = f.in.in /\ (\A i \in 1 .. k : In(gs, i) = In(fs, i)) /\ f.dt \in Int
    BY DEF Grown, In, Positive
  <1>1. /\ t = [current |-> IF accumulator >= delay THEN f.in.in ELSE current,
                last_in |-> f.in.in, accumulator |-> accumulator, first |-> FALSE]
        /\ a.out = [value |-> current]
    BY DEF TimeDelay, Answer
  <1> HIDE DEF a
  <1>2. accumulator \in Int /\ current \in Levels
    BY <1>0
  <1>3. accumulator = Lasted(gs, k + 1)
    <2>1. Lasted(gs, k + 1) = IF k = 0 THEN f.dt
                              ELSE IF f.in.in = In(fs, k) THEN Lasted(fs, k) + f.dt ELSE 0
      BY LastingGrows
    <2>2. IF k = 0 THEN s.first /\ s.accumulator = 0
          ELSE ~s.first /\ s.last_in = In(fs, k) /\ s.accumulator = Lasted(fs, k)
      BY <1>0 DEF DelayKept
    <2> QED
      BY <1>0, <2>1, <2>2
  <1>4. passed(fs) \subseteq 1 .. k
        /\ passed(gs) = passed(fs) \cup (IF accumulator >= delay THEN {k + 1} ELSE {})
    <2>1. \A i : i \in 1 .. k + 1 <=> i \in 1 .. k \/ i = k + 1
      BY <1>0
    <2>2. \A i \in 1 .. k : Lasted(gs, i) = Lasted(fs, i)
      BY LastingGrows
    <2>3. \A i \in 1 .. k : i \in passed(gs) <=> i \in passed(fs)
      BY <1>0, <2>1, <2>2
    <2>4. k + 1 \in passed(gs) <=> accumulator >= delay
      <3> HIDE DEF accumulator
      <3> QED
        BY <1>0, <1>3, <2>1
    <2>5. passed(fs) \subseteq 1 .. k /\ passed(gs) \subseteq 1 .. k + 1
      BY <1>0
    <2> HIDE DEF passed, accumulator, delay
    <2> QED
      BY <2>1, <2>3, <2>4, <2>5
  <1> DEFINE A == passed(fs)
             B == passed(gs)
  <1>5. /\ LastPassed(fs, P) = IF A = {} THEN 1 ELSE Max(A)
        /\ LastPassed(gs, P) = IF B = {} THEN 1 ELSE Max(B)
    BY DEF LastPassed, LastOr
  <1>40. A \subseteq 1 .. k /\ B = A \cup (IF accumulator >= delay THEN {k + 1} ELSE {})
    BY <1>4
  <1> HIDE DEF A, B, passed
  <1>6. (A # {} => Max(A) \in 1 .. k) /\ Max(A \cup {k + 1}) = k + 1
    BY <1>0, <1>40, Newest
  <1>7. LastPassed(fs, P) \in 1 .. k + 1 /\ (k # 0 => LastPassed(fs, P) \in 1 .. k)
    BY <1>0, <1>5, <1>6
  <1>8. current = In(gs, LastPassed(fs, P))
    <2>1. CASE k = 0
      <3>1. A = {}
        BY <1>0, <1>40, <2>1
      <3>2. s.first
        BY <1>0, <2>1 DEF DelayKept
      <3> QED
        BY <1>0, <1>5, <2>1, <3>1, <3>2
    <2>2. CASE k # 0
      <3>1. ~s.first /\ s.current = In(fs, LastPassed(fs, P))
        BY <1>0, <2>2 DEF DelayKept
      <3> QED
        BY <1>0, <1>7, <2>2, <3>1
    <2> QED
      BY <2>1, <2>2
  <1> HIDE DEF current, accumulator, delay
  <1>9. t.current = In(gs, LastPassed(gs, P))
    <2>1. CASE accumulator >= delay
      <3>1. LastPassed(gs, P) = k + 1
        BY <1>5, <1>6, <1>40, <2>1
      <3> QED
        BY <1>0, <1>1, <2>1, <3>1
    <2>2. CASE ~(accumulator >= delay)
      <3>1. LastPassed(gs, P) = LastPassed(fs, P)
        BY <1>5, <1>40, <2>2
      <3> QED
        BY <1>1, <1>8, <2>2, <3>1
    <2> QED
      BY <2>1, <2>2
  <1>10. t \in [current : Levels, last_in : Levels, accumulator : Int, first : BOOLEAN]
         /\ ~t.first /\ t.last_in = f.in.in /\ t.accumulator = accumulator
    BY <1>1, <1>2
  <1>11. DelayKept(P, gs, t)
    <2>1. k + 1 # 0
      BY <1>0
    <2> QED
      BY <1>0, <1>3, <1>9, <1>10, <2>1 DEF DelayKept
  <1>12. a.out \in [value : Int] /\ a.out.value = current
    BY <1>1, <1>2 DEF Levels
  <1> QED
    BY <1>8, <1>10, <1>11, <1>12 DEF a
-----------------------------------------------------------------------------
(* Integrals and levels.                                                     *)

\* The area grows frame by frame.
LEMMA AreaFacts ==
  ASSUME NEW fs, NEW p, NEW k \in Nat, Len(fs) = k, p.gain \in Int,
         \A i \in 1 .. k : In(fs, i) \in Int /\ fs[i].dt \in Int
  PROVE  /\ Area(fs, p)[0] = 0
         /\ \A i \in 0 .. k : Area(fs, p)[i] \in Int
         /\ \A i \in 1 .. k : Area(fs, p)[i] = Area(fs, p)[i - 1] + In(fs, i) * p.gain * fs[i].dt
  <1> DEFINE d(i) == In(fs, i) * p.gain * fs[i].dt
             D == [i \in 1 .. k |-> [v \in Int |-> v + d(i)]]
  <1>1. \A i \in 1 .. k : d(i) \in Int
    OBVIOUS
  <1>0. \A i \in 1 .. k : d(i) = In(fs, i) * p.gain * fs[i].dt
    OBVIOUS
  <1> HIDE DEF d
  <1>2. D \in [1 .. k -> [Int -> Int]]
    BY <1>1
  <1>3. PICK g \in [0 .. k -> Int] : Iterates(g, k, 0, D)
    <2> HIDE DEF D
    <2>1. 0 \in Int
      OBVIOUS
    <2>2. \E g \in [0 .. k -> Int] : Iterates(g, k, 0, D)
      BY <1>2, <2>1, IterateExists
    <2> QED
      BY <2>2
  <1>4. g = [i \in 0 .. k |-> IF i = 0 THEN 0 ELSE g[i - 1] + d(i)]
    <2>1. g = [i \in 0 .. k |-> IF i = 0 THEN 0 ELSE D[i][g[i - 1]]]
      BY <1>3 DEF Iterates
    <2>2. \A i \in 0 .. k : i # 0 => D[i][g[i - 1]] = g[i - 1] + d(i)
      <3> TAKE i \in 0 .. k
      <3> HAVE i # 0
      <3>1. i \in 1 .. k /\ i - 1 \in 0 .. k
        OBVIOUS
      <3>2. g[i - 1] \in Int
        BY <3>1
      <3> QED
        BY <3>1, <3>2
    <2> HIDE DEF D
    <2> QED
      BY <2>1, <2>2
  <1> DEFINE good(h) == h = [i \in 0 .. Len(fs) |-> IF i = 0 THEN 0
                                ELSE h[i - 1] + In(fs, i) * p.gain * fs[i].dt]
             A == Area(fs, p)
  <1>5. good(g)
    BY <1>0, <1>4
  <1>6. A = CHOOSE h : good(h)
    BY DEF Area
  <1> HIDE DEF A
  <1>7. good(A)
    <2> HIDE DEF good
    <2> QED
      BY <1>5, <1>6
  <1>8. A = [i \in 0 .. k |-> IF i = 0 THEN 0 ELSE A[i - 1] + d(i)]
    <2>1. A = [i \in 0 .. k |-> IF i = 0 THEN 0 ELSE A[i - 1] + In(fs, i) * p.gain * fs[i].dt]
      BY <1>7
    <2> QED
      BY <1>0, <2>1
  <1>9. A[0] = 0 /\ \A i \in 1 .. k : A[i] = A[i - 1] + d(i)
    <2>1. 0 \in 0 .. k /\ \A i \in 1 .. k : i \in 0 .. k /\ i # 0
      OBVIOUS
    <2> QED
      BY <1>8, <2>1
  <1>10. \A i \in 0 .. k : A[i] \in Int
    <2>1. \A i \in 1 .. k : A[i - 1] \in Int => A[i] \in Int
      BY <1>1, <1>9
    <2>2. A[0] \in Int
      BY <1>9
    <2> QED
      BY <2>1, <2>2, TypedThroughout
  <1> QED
    BY <1>0, <1>9, <1>10 DEF A

\* A frame adds its rectangle and leaves the rest.
LEMMA AreaGrows ==
  ASSUME NEW fs, NEW gs, NEW f, NEW k, Grown(fs, gs, f, k), NEW p, p.gain \in Int,
         \A i \in 1 .. k + 1 : In(gs, i) \in Int
  PROVE  /\ \A i \in 0 .. k : Area(gs, p)[i] = Area(fs, p)[i] /\ Area(fs, p)[i] \in Int
         /\ Area(gs, p)[k + 1] = Area(fs, p)[k] + f.in.in * p.gain * f.dt
         /\ Area(gs, p)[k + 1] \in Int
  <1> DEFINE A == Area(fs, p)
             B == Area(gs, p)
             d(i) == In(gs, i) * p.gain * gs[i].dt
  <1>0. /\ k \in Nat /\ k + 1 \in Nat /\ Len(fs) = k /\ Len(gs) = k + 1
        /\ (\A i \in 1 .. k : gs[i] = fs[i]) /\ gs[k + 1] = f
        /\ (\A i \in 1 .. k : fs[i].dt \in Int) /\ f.dt \in Int
    BY DEF Grown, Positive
  <1>1. \A i \in 1 .. k + 1 : i \in 1 .. k \/ i = k + 1
    BY <1>0
  <1>2. \A i \in 1 .. k + 1 : In(gs, i) \in Int /\ gs[i].dt \in Int
    BY <1>0, <1>1
  <1>3. \A i \in 1 .. k : i \in 1 .. k + 1 /\ In(fs, i) = In(gs, i) /\ In(fs, i) \in Int /\ fs[i].dt \in Int
    BY <1>0, <1>2 DEF In
  <1>4. /\ A[0] = 0 /\ \A i \in 0 .. k : A[i] \in Int
        /\ \A i \in 1 .. k : A[i] = A[i - 1] + In(fs, i) * p.gain * fs[i].dt
    BY <1>0, <1>3, AreaFacts
  <1>5. /\ B[0] = 0 /\ \A i \in 0 .. k + 1 : B[i] \in Int
        /\ \A i \in 1 .. k + 1 : B[i] = B[i - 1] + In(gs, i) * p.gain * gs[i].dt
    BY <1>0, <1>2, AreaFacts
  <1>6. \A i \in 1 .. k : In(fs, i) * p.gain * fs[i].dt = d(i)
    BY <1>0, <1>3
  <1>7. \A i \in 1 .. k + 1 : In(gs, i) * p.gain * gs[i].dt = d(i)
    OBVIOUS
  <1>8. d(k + 1) = f.in.in * p.gain * f.dt
    BY <1>0 DEF In
  <1> HIDE DEF A, B, d
  <1>9. 0 .. k \subseteq {i \in 0 .. k : A[i] = B[i]}
    <2> DEFINE S == {i \in 0 .. k : A[i] = B[i]}
    <2>1. 0 \in S
      BY <1>0, <1>4, <1>5
    <2>2. ASSUME NEW i \in 0 .. k, i # 0, i - 1 \in S PROVE i \in S
      <3>1. i \in 1 .. k /\ i \in 1 .. k + 1
        BY <1>0, <2>2
      <3>2. A[i] = A[i - 1] + d(i) /\ B[i] = B[i - 1] + d(i)
        BY <1>4, <1>5, <1>6, <1>7, <3>1
      <3> QED
        BY <2>2, <3>2
    <2> HIDE DEF S
    <2>3. 0 .. k \subseteq S
      BY <1>0, <2>1, <2>2, Upward
    <2> QED
      BY <2>3 DEF S
  <1>10. k + 1 \in 1 .. k + 1 /\ k + 1 \in 0 .. k + 1 /\ k + 1 - 1 = k /\ k \in 0 .. k
    BY <1>0
  <1>11. B[k + 1] = B[k] + d(k + 1) /\ B[k + 1] \in Int
    BY <1>5, <1>7, <1>10
  <1>12. \A i \in 0 .. k : A[i] = B[i]
    BY <1>9
  <1>13. B[k + 1] = A[k] + d(k + 1)
    BY <1>10, <1>11, <1>12
  <1> QED
    BY <1>4, <1>8, <1>11, <1>12, <1>13 DEF A, B

\* What an integrator holds is the integral since its last reset.
IntegralKept(p, fs, s) == (IF s.first THEN p.initial_val ELSE s.accumulator) = IntegralReference(fs, p)

LEMMA IntegralStep ==
  ASSUME NEW fs, NEW gs, NEW f, NEW k, Grown(fs, gs, f, k),
         \A i \in 1 .. k + 1 : In(gs, i) \in Int,
         f.in \in [in : Int, reset : Levels], P.gain \in Int, P.initial_val \in Int,
         NEW s \in [accumulator : Int, first : BOOLEAN], IntegralKept(P, fs, s)
  PROVE  LET a == Integrator(s, f.in, f.dt)
         IN  /\ a.part \in [accumulator : Int, first : BOOLEAN]
             /\ a.out \in [value : Int]
             /\ a.out.value = IntegralReference(fs, P)
             /\ IntegralKept(P, gs, a.part)
  <1> DEFINE a == Integrator(s, f.in, f.dt)
             t == a.part
             committed == IF s.first THEN P.initial_val ELSE s.accumulator
             more == f.in.in * P.gain * f.dt
             A == {i \in DOMAIN fs : fs[i].in.reset = 1}
             B == {i \in DOMAIN gs : gs[i].in.reset = 1}
             X == Area(fs, P)
             Y == Area(gs, P)
  <1>0. /\ k \in Nat /\ Len(fs) = k /\ DOMAIN fs = 1 .. k /\ Len(gs) = k + 1 /\ DOMAIN gs = 1 .. k + 1
        /\ gs[k + 1] = f /\ (\A i \in 1 .. k : gs[i] = fs[i]) /\ f.dt \in Int
    BY DEF Grown, Positive
  <1>1. /\ t = [accumulator |-> IF f.in.reset = 1 THEN 0 ELSE committed + more, first |-> FALSE]
        /\ a.out = [value |-> committed]
    BY DEF Integrator, Answer
  <1>2. committed = IntegralReference(fs, P)
    BY DEF IntegralKept
  <1>3. more \in Int /\ committed \in Int
    BY <1>0
  <1>4. /\ \A i \in 0 .. k : Y[i] = X[i] /\ X[i] \in Int
        /\ Y[k + 1] = X[k] + more /\ Y[k + 1] \in Int
    BY AreaGrows
  <1>5. A \subseteq 1 .. k /\ B = A \cup (IF f.in.reset = 1 THEN {k + 1} ELSE {})
    <2>1. \A i : i \in 1 .. k + 1 <=> i \in 1 .. k \/ i = k + 1
      BY <1>0
    <2>2. \A i \in 1 .. k : i \in A <=> i \in B
      BY <1>0, <2>1
    <2>3. k + 1 \in B <=> f.in.reset = 1
      BY <1>0, <2>1
    <2>4. A \subseteq 1 .. k /\ B \subseteq 1 .. k + 1
      BY <1>0
    <2> HIDE DEF A, B
    <2> QED
      BY <2>1, <2>2, <2>3, <2>4
  <1> DEFINE r == IF A = {} THEN 0 ELSE Max(A)
             q == IF B = {} THEN 0 ELSE Max(B)
  <1>6. /\ IntegralReference(fs, P) = (IF r = 0 THEN P.initial_val ELSE 0) + (X[k] - X[r])
        /\ IntegralReference(gs, P) = (IF q = 0 THEN P.initial_val ELSE 0) + (Y[k + 1] - Y[q])
    BY <1>0 DEF IntegralReference, LastOr
  <1> HIDE DEF a, A, B, X, Y, more, committed
  <1>7. (A # {} => Max(A) \in 1 .. k) /\ Max(A \cup {k + 1}) = k + 1
    BY <1>0, <1>5, Newest
  <1>8. (IF f.in.reset = 1 THEN 0 ELSE committed + more) = IntegralReference(gs, P)
    <2>1. CASE f.in.reset = 1
      <3>1. q = k + 1
        BY <1>5, <1>7, <2>1
      <3> HIDE DEF q
      <3>2. q # 0 /\ Y[q] = Y[k + 1]
        BY <1>0, <3>1
      <3>3. IntegralReference(gs, P) = 0 + (Y[k + 1] - Y[k + 1])
        BY <1>6, <3>2
      <3> QED
        BY <1>4, <2>1, <3>3
    <2>2. CASE f.in.reset # 1
      <3>1. q = r /\ r \in 0 .. k /\ k \in 0 .. k
        BY <1>0, <1>5, <1>7, <2>2
      <3> HIDE DEF q, r
      <3>2. Y[q] = X[r] /\ X[r] \in Int /\ X[k] \in Int /\ Y[k + 1] = X[k] + more
        BY <1>4, <3>1
      <3> DEFINE base == IF r = 0 THEN P.initial_val ELSE 0
      <3>3. /\ IntegralReference(gs, P) = base + (Y[k + 1] - Y[q])
            /\ committed = base + (X[k] - X[r])
        BY <1>2, <1>6, <3>1
      <3>4. base \in Int
        OBVIOUS
      <3> HIDE DEF base
      <3>5. Y[k + 1] - Y[q] = (X[k] - X[r]) + more
        BY <1>3, <3>2
      <3> QED
        BY <1>3, <2>2, <3>2, <3>3, <3>4, <3>5
    <2> QED
      BY <2>1, <2>2
  <1>9. /\ t \in [accumulator : Int, first : BOOLEAN] /\ a.out \in [value : Int]
        /\ ~t.first /\ t.accumulator = IntegralReference(gs, P) /\ a.out.value = IntegralReference(fs, P)
    BY <1>1, <1>2, <1>3, <1>8
  <1> QED
    BY <1>9 DEF a, IntegralKept

\* FuelTank: the level is what the consumption has left.
LEMMA LevelStep ==
  ASSUME NEW fs, NEW gs, NEW f, NEW k, Grown(fs, gs, f, k),
         P.level \in Int, P.consumption_rate \in Int, P.capacity \in Nat,
         NEW s \in [level : Int], s.level = LevelReference(fs, P)
  PROVE  LET a == FuelTank(s, f.in, f.dt)
         IN  /\ a.part \in [level : Int] /\ a.out \in [value : Int]
             /\ a.out.value = LevelReference(fs, P)
             /\ a.part.level = LevelReference(gs, P)
  <1> DEFINE rate == Larger(P.consumption_rate, 0)
             full == Smaller(Larger(P.level, 0), P.capacity)
             t == Ended(fs, k)
  <1>0. k \in Nat /\ Len(fs) = k /\ Len(gs) = k + 1 /\ f.dt \in Nat /\ t \in Nat
        /\ Ended(gs, k + 1) = t + f.dt
    BY DEF Grown, Positive
  <1>1. rate \in Nat /\ full \in Nat
    BY DEF Larger, Smaller
  <1>2. Elapsed(fs, 1, Len(fs)) = t /\ Elapsed(gs, 1, Len(gs)) = t + f.dt
    BY <1>0 DEF Elapsed, Ended
  <1>3. /\ LevelReference(fs, P) = Larger(full - rate * t, 0)
        /\ LevelReference(gs, P) = Larger(full - rate * (t + f.dt), 0)
    BY <1>2 DEF LevelReference
  <1>4. /\ FuelTank(s, f.in, f.dt).part = [level |-> Larger(s.level - rate * f.dt, 0)]
        /\ FuelTank(s, f.in, f.dt).out = [value |-> s.level]
    BY DEF FuelTank, Answer
  <1> HIDE DEF rate, full, t
  <1>5. rate * (t + f.dt) = rate * t + rate * f.dt /\ rate * t \in Nat /\ rate * f.dt \in Nat
    BY <1>0, <1>1
  <1>6. Larger(s.level - rate * f.dt, 0) = LevelReference(gs, P) /\ Larger(s.level - rate * f.dt, 0) \in Int
    BY <1>1, <1>3, <1>5 DEF Larger
  <1> QED
    BY <1>4, <1>6
-----------------------------------------------------------------------------
(* Followers.                                                                *)

\* What a whole division keeps.
LEMMA Quotient ==
  ASSUME NEW x \in Int, NEW t \in Nat \ {0}
  PROVE  x \div t \in Int /\ t * (x \div t) <= x /\ x < t * (x \div t) + t
  OBVIOUS

\* A part k / t of a distance d is between nothing and the whole, and something
\* when the distance is t at least.
LEMMA Portion ==
  ASSUME NEW d \in Int, NEW k \in Int, NEW t \in Int, 0 < k, k <= t
  PROVE  LET q == (d * k) \div t
         IN  /\ q \in Int
             /\ d >= 0 => 0 <= q /\ q <= d
             /\ d < 0 => d <= q /\ q < 0
             /\ d >= t => q > 0
  <1> DEFINE x == d * k
             q == x \div t
  <1>1. x \in Int /\ t \in Nat \ {0}
    OBVIOUS
  <1>2. d >= 0 => 0 <= x /\ x <= d * t
    OBVIOUS
  <1>3. d < 0 => d * t <= x /\ x < 0
    OBVIOUS
  <1>4. d >= t => x >= t
    OBVIOUS
  <1> HIDE DEF x
  <1>5. q \in Int /\ t * q <= x /\ x < t * q + t
    BY <1>1, Quotient
  <1> HIDE DEF q
  <1>6. d >= 0 => 0 <= q /\ q <= d
    BY <1>1, <1>2, <1>5
  <1>7. d < 0 => d <= q /\ q < 0
    BY <1>1, <1>3, <1>5
  <1>8. d >= t => q > 0
    BY <1>1, <1>4, <1>5
  <1> QED
    BY <1>5, <1>6, <1>7, <1>8 DEF q, x

\* A step of a follower over a difference: towards the input, no further, and
\* one at least outside the dead zone.
Towards(diff, step, zone) ==
  /\ step \in Int
  /\ diff >= 0 => 0 <= step /\ step <= diff
  /\ diff <= 0 => diff <= step /\ step <= 0
  /\ diff >= zone \/ -diff >= zone => step # 0

\* The clamp of a difference to more than nothing goes towards the input.
LEMMA ClampTowards ==
  ASSUME NEW d \in Int, NEW m \in Int, m > 0, NEW z \in Int, z > 0
  PROVE  Towards(d, Limited(d, m), z) /\ Limited(d, m) <= m /\ -m <= Limited(d, m)
  BY DEF Towards, Limited, Larger, Smaller

\* So does a part of it, when the divisor is within the dead zone.
LEMMA PortionTowards ==
  ASSUME NEW d \in Int, NEW k \in Int, NEW t \in Int, 0 < k, k <= t, NEW z \in Int, t <= z
  PROVE  Towards(d, (d * k) \div t, z)
  <1> DEFINE q == (d * k) \div t
  <1>1. /\ q \in Int
        /\ d >= 0 => 0 <= q /\ q <= d
        /\ d < 0 => d <= q /\ q < 0
        /\ d >= t => q > 0
    BY Portion
  <1> HIDE DEF q
  <1>2. Towards(d, q, z)
    BY <1>1 DEF Towards
  <1> QED
    BY <1>2 DEF q

\* A part k / t of a distance d is between nothing and twice the whole, when k is
\* no more than twice t.
LEMMA DoublePortion ==
  ASSUME NEW d \in Int, NEW k \in Int, NEW t \in Nat \ {0}, 0 <= k, k <= 2 * t
  PROVE  LET q == (d * k) \div t
         IN  /\ q \in Int
             /\ d >= 0 => 0 <= q /\ q <= 2 * d
             /\ d <= 0 => 2 * d <= q /\ q <= 0
  <1> DEFINE x == d * k
             q == x \div t
  <1>1. x \in Int
    OBVIOUS
  <1>2. d >= 0 => 0 <= x /\ x <= t * (2 * d)
    OBVIOUS
  <1>3. d <= 0 => t * (2 * d) <= x /\ x <= 0
    OBVIOUS
  <1> HIDE DEF x
  <1>4. q \in Int /\ t * q <= x /\ x < t * q + t
    BY <1>1, Quotient
  <1> HIDE DEF q
  <1>5. d >= 0 => 0 <= q /\ q <= 2 * d
    BY <1>1, <1>2, <1>4
  <1>6. d <= 0 => 2 * d <= q /\ q <= 0
    BY <1>1, <1>3, <1>4
  <1> QED
    BY <1>4, <1>5, <1>6 DEF q, x

\* What the promise asks of the step from a value towards an input.
Strides(from, aim, dt, step) ==
  LET diff == aim - from
  IN  /\ step \in Int
      /\ Heads(from, aim) =>
             /\ Towards(diff, step, Larger(P.deadzone, Grain(from, aim)))
             /\ Kind \in Limiters =>
                    LET most == RateTo(from, aim) * dt
                    IN  most \in Int /\ step <= most /\ -most <= step
      /\ Kind = "LerpNode" /\ 0 <= P.factor /\ P.factor <= 2 * P.unit =>
             /\ diff >= 0 => step <= 2 * diff /\ 0 <= step
             /\ diff <= 0 => 2 * diff <= step /\ step <= 0

\* Such a step keeps the promise.
LEMMA FollowMoves ==
  ASSUME NEW s \in [current : Int, first : BOOLEAN], NEW in \in [in : Int], NEW dt \in Positive,
         P.deadzone \in Int, Grain(Committed(s, in), in.in) \in Int,
         NEW step, Strides(Committed(s, in), in.in, dt, step)
  PROVE  LET a == Follow(s, in, step)
         IN  /\ a.part \in [current : Int, first : BOOLEAN] /\ ~a.part.first
             /\ a.out = [value |-> Committed(s, in)] /\ Committed(s, in) \in Int
             /\ Promised(Committed(s, in), in.in, dt, a.part.current)
  <1> DEFINE c == Committed(s, in)
             v == in.in
             moves == Distance(v, c) >= P.deadzone
             next == IF moves THEN c + step ELSE c
             zone == Larger(P.deadzone, Grain(c, v))
             most == RateTo(c, v) * dt
  <1>1. c \in Int /\ v \in Int
    BY DEF Committed
  <1>2. /\ Follow(s, in, step).part = [current |-> next, first |-> FALSE]
        /\ Follow(s, in, step).out = [value |-> c]
    BY DEF Follow, Answer
  <1>3. zone \in Int /\ P.deadzone <= zone
    BY DEF Larger
  <1>4. /\ step \in Int
        /\ Heads(c, v) => Towards(v - c, step, zone)
        /\ Heads(c, v) /\ Kind \in Limiters => most \in Int /\ step <= most /\ -most <= step
        /\ Kind = "LerpNode" /\ 0 <= P.factor /\ P.factor <= 2 * P.unit =>
               /\ v - c >= 0 => step <= 2 * (v - c) /\ 0 <= step
               /\ v - c <= 0 => 2 * (v - c) <= step /\ step <= 0
    BY DEF Strides
  <1>5. moves <=> Distance(v, c) >= P.deadzone
    OBVIOUS
  <1>6. most = RateTo(c, v) * dt /\ zone = Larger(P.deadzone, Grain(c, v))
    OBVIOUS
  <1> HIDE DEF c, v, moves, zone, most
  <1>7. next \in Int
    BY <1>1, <1>4
  <1>8. ASSUME Heads(c, v)
        PROVE  /\ next \in Smaller(c, v) .. Larger(c, v)
               /\ Distance(c, v) >= zone => next # c
               /\ Kind \in Limiters => Distance(c, next) <= most
    <2>1. /\ v - c >= 0 => 0 <= step /\ step <= v - c
          /\ v - c <= 0 => v - c <= step /\ step <= 0
          /\ v - c >= zone \/ -(v - c) >= zone => step # 0
      BY <1>4, <1>8 DEF Towards
    <2>2. next \in Smaller(c, v) .. Larger(c, v)
      BY <1>1, <1>4, <2>1 DEF Smaller, Larger
    <2>3. Distance(c, v) >= zone => next # c
      BY <1>1, <1>3, <1>4, <1>5, <2>1 DEF Distance
    <2>4. ASSUME Kind \in Limiters PROVE Distance(c, next) <= most
      <3>1. most \in Int /\ step <= most /\ -most <= step
        BY <1>4, <1>8, <2>4
      <3> QED
        BY <1>1, <1>4, <3>1 DEF Distance
    <2> QED
      BY <2>2, <2>3, <2>4
  <1>9. ASSUME Kind = "LerpNode", 0 <= P.factor, P.factor <= 2 * P.unit
        PROVE  Distance(next, v) <= Distance(c, v)
    <2>1. /\ v - c >= 0 => step <= 2 * (v - c) /\ 0 <= step
          /\ v - c <= 0 => 2 * (v - c) <= step /\ step <= 0
      BY <1>4, <1>9
    <2> QED
      BY <1>1, <1>4, <2>1 DEF Distance
  <1> HIDE DEF next
  <1>10. Promised(c, v, dt, next)
    BY <1>6, <1>8, <1>9 DEF Promised
  <1> QED
    BY <1>1, <1>2, <1>7, <1>10 DEF c, v

\* What a follower holds: nothing yet, or where the last frame has sent it.
FollowerKept(fs, s) ==
  IF fs = <<>> THEN s.first
  ELSE ~s.first /\ Promised(Last(fs).out.value, Last(fs).in.in, Last(fs).dt, s.current)

\* The lag of a follower is a tick at least.
LEMMA HeldTauPositive ==
  ASSUME NEW tau \in Int
  PROVE  HeldTau(tau) \in Int /\ 0 < HeldTau(tau)
  BY DEF HeldTau, Larger

\* Every follower takes such a step.
LEMMA FollowerStrides ==
  ASSUME Kind \in Followers, Allowed(Kind, P),
         NEW s \in [current : Int, first : BOOLEAN], NEW in \in [in : Int], NEW dt \in Positive
  PROVE  /\ P.deadzone \in Int /\ Grain(Committed(s, in), in.in) \in Int
         /\ \E step : /\ Behaviour(s, in, dt) = Follow(s, in, step)
                      /\ Strides(Committed(s, in), in.in, dt, step)
  <1> DEFINE c == Committed(s, in)
             v == in.in
             d == Diff(s, in)
             zone == Larger(P.deadzone, Grain(c, v))
  <1>0. /\ c \in Int /\ v \in Int /\ d = v - c /\ d \in Int /\ dt \in Int /\ dt > 0
        /\ d > 0 <=> v > c
    BY DEF Diff, Committed, Positive
  <1>1. CASE Kind \in Limiters
    <2> DEFINE rate == RateTo(c, v)
               m == rate * dt
               step == Limited(d, m)
    <2>1. P.deadzone \in Int /\ rate \in Int /\ Grain(c, v) = 1 /\ Kind # "LerpNode"
      <3>1. CASE Kind = "SlewRate"
        BY <3>1 DEF Allowed, RateTo, Grain
      <3>2. CASE Kind = "AsymSlewRate"
        BY <3>2 DEF Allowed, RateTo, Grain
      <3> QED
        BY <1>1, <3>1, <3>2 DEF Limiters
    <2>2. Behaviour(s, in, dt) = Follow(s, in, step)
      <3>1. CASE Kind = "SlewRate"
        BY <3>1 DEF Behaviour, SlewRate, RateTo
      <3>2. CASE Kind = "AsymSlewRate"
        <4>1. rate = IF d > 0 THEN P.rate_up ELSE P.rate_down
          BY <1>0, <3>2 DEF RateTo
        <4>2. Behaviour(s, in, dt) = AsymSlewRate(s, in, dt)
          BY <3>2 DEF Behaviour
        <4> QED
          BY <4>1, <4>2 DEF AsymSlewRate
      <3> QED
        BY <1>1, <3>1, <3>2 DEF Limiters
    <2>3. Heads(c, v) => rate > 0
      BY <1>1 DEF Heads
    <2>4. m = RateTo(c, v) * dt /\ zone \in Int /\ zone > 0
      BY <2>1 DEF Larger
    <2> HIDE DEF rate
    <2>5. m \in Int /\ (Heads(c, v) => m > 0)
      BY <1>0, <2>1, <2>3
    <2> HIDE DEF d, m, zone, c, v
    <2>6. step \in Int
      BY <1>0, <2>5 DEF Limited, Larger, Smaller
    <2>7. Heads(c, v) => Towards(d, step, zone) /\ step <= m /\ -m <= step
      BY <1>0, <2>4, <2>5, ClampTowards
    <2> HIDE DEF step
    <2>8. zone = Larger(P.deadzone, Grain(c, v))
      BY DEF zone
    <2>9. Strides(c, v, dt, step)
      BY <1>0, <2>1, <2>4, <2>5, <2>6, <2>7, <2>8 DEF Strides
    <2> QED
      BY <2>1, <2>2, <2>9 DEF c, v
  <1>2. CASE Kind \in {"FastTMO", "AsymTMO"}
    <2> DEFINE tau == Grain(c, v)
               k == Smaller(dt, tau)
               step == (d * k) \div tau
    <2>1. P.deadzone \in Int /\ tau \in Int /\ 0 < tau /\ Kind \notin Limiters /\ Kind # "LerpNode"
      <3>1. CASE Kind = "FastTMO"
        BY <3>1, HeldTauPositive DEF Allowed, Grain, Limiters
      <3>2. CASE Kind = "AsymTMO"
        BY <3>2, HeldTauPositive DEF Allowed, Grain, Limiters
      <3> QED
        BY <1>2, <3>1, <3>2
    <2>2. Behaviour(s, in, dt) = Follow(s, in, step)
      <3>1. CASE Kind = "FastTMO"
        BY <3>1 DEF Behaviour, FastTMO, Grain
      <3>2. CASE Kind = "AsymTMO"
        <4>1. tau = HeldTau(IF d > 0 THEN P.tau_up ELSE P.tau_down)
          BY <1>0, <3>2 DEF Grain
        <4>2. Behaviour(s, in, dt) = AsymTMO(s, in, dt)
          BY <3>2 DEF Behaviour
        <4> QED
          BY <4>1, <4>2 DEF AsymTMO
      <3> QED
        BY <1>2, <3>1, <3>2
    <2>3. zone \in Int /\ tau <= zone
      BY <2>1 DEF Larger
    <2>4. zone = Larger(P.deadzone, Grain(c, v))
      OBVIOUS
    <2> HIDE DEF d, tau, zone, c, v
    <2>5. k \in Int /\ 0 < k /\ k <= tau
      BY <1>0, <2>1 DEF Smaller
    <2> HIDE DEF k
    <2>6. Towards(d, step, zone)
      BY <1>0, <2>1, <2>3, <2>5, PortionTowards
    <2> HIDE DEF step
    <2>7. Strides(c, v, dt, step)
      BY <1>0, <2>1, <2>4, <2>6 DEF Strides, Towards
    <2> QED
      BY <2>1, <2>2, <2>7 DEF tau, c, v
  <1>3. CASE Kind = "LerpNode"
    <2> DEFINE k == P.factor
               t == P.unit
               step == (d * k) \div t
    <2>1. P.deadzone \in Int /\ k \in Int /\ t \in Nat \ {0} /\ Grain(c, v) = t /\ Kind \notin Limiters
      BY <1>3 DEF Allowed, Positive, Grain, Limiters
    <2>2. Behaviour(s, in, dt) = Follow(s, in, step)
      BY <1>3 DEF Behaviour, LerpNode
    <2>3. zone \in Int /\ t <= zone
      BY <2>1 DEF Larger
    <2>4. zone = Larger(P.deadzone, Grain(c, v))
      OBVIOUS
    <2>5. Heads(c, v) => 0 < k /\ k <= t
      BY <1>3 DEF Heads
    <2> HIDE DEF d, zone, c, v
    <2>6. step \in Int
      <3> DEFINE x == d * k
      <3>1. x \in Int
        BY <1>0, <2>1
      <3> HIDE DEF x
      <3>2. x \div t \in Int
        BY <2>1, <3>1, Quotient
      <3> QED
        BY <3>2 DEF x
    <2>7. ASSUME Heads(c, v) PROVE Towards(d, step, zone)
      <3>1. 0 < k /\ k <= t /\ k \in Int /\ t \in Int
        BY <2>1, <2>5, <2>7
      <3> HIDE DEF k, t
      <3> QED
        BY <1>0, <2>3, <3>1, PortionTowards
    <2>8. 0 <= k /\ k <= 2 * t =>
              /\ d >= 0 => 0 <= step /\ step <= 2 * d
              /\ d <= 0 => 2 * d <= step /\ step <= 0
      BY <1>0, <2>1, DoublePortion
    <2> HIDE DEF step
    <2>9. Strides(c, v, dt, step)
      BY <1>0, <2>1, <2>4, <2>6, <2>7, <2>8 DEF Strides
    <2> QED
      BY <2>1, <2>2, <2>9 DEF c, v
  <1> QED
    BY <1>1, <1>2, <1>3 DEF Followers, Limiters

\* So every follower keeps its promise.
LEMMA FollowerStep ==
  ASSUME Kind \in Followers, Allowed(Kind, P),
         NEW s \in [current : Int, first : BOOLEAN], NEW in \in [in : Int], NEW dt \in Positive
  PROVE  LET a == Behaviour(s, in, dt)
         IN  /\ a.part \in [current : Int, first : BOOLEAN] /\ ~a.part.first
             /\ a.out = [value |-> Committed(s, in)] /\ Committed(s, in) \in Int
             /\ Promised(Committed(s, in), in.in, dt, a.part.current)
  BY FollowerStrides, FollowMoves
-----------------------------------------------------------------------------
(* The breaker.                                                              *)

\* What a breaker was before a frame: as it was built, or as the last left it.
BreakerKept ==
  /\ out.state = part.closed
  /\ part.closed = 1 => part.tripped = 0
  /\ part = IF frames = <<>> THEN Built(Kind, P) ELSE Last(frames).part

\* AZS: what a frame may do to it.
LEMMA BreakerStep ==
  ASSUME Kind = "AZS", Allowed(Kind, P), part \in States("AZS"), BreakerKept,
         NEW in \in Ports("AZS"), NEW dt \in Positive
  PROVE  LET a == Behaviour(part, in, dt)
             now == a.part
             moved == in.control # part.last_control
         IN  /\ now \in States("AZS") /\ a.out \in Outs("AZS") /\ a.out.state = now.closed
             /\ now.closed = 1 => now.temp <= P.trip /\ now.tripped = 0
             /\ part.closed = 1 /\ now.closed = 0 => moved \/ now.tripped = 1
             /\ part.closed = 0 /\ ~moved => now.closed = 0 /\ now.tripped = part.tripped
             /\ part.closed = 0 /\ P.r_heat * in.leak * in.leak * P.unit <= part.temp * P.k_cool =>
                    now.temp <= part.temp
  <1> DEFINE temp == Heated(part, in, dt)
             control == in.control
  <1>1. Behaviour(part, in, dt) = AZSCommit(part, temp, control)
    BY DEF Behaviour, AZS
  <1>2. /\ part.closed \in Levels /\ part.tripped \in Levels /\ part.temp \in Nat /\ part.last_control \in Int
        /\ in.load \in Int /\ in.leak \in Int /\ control \in Int /\ dt \in Int /\ dt > 0
        /\ P.r_heat \in Int /\ P.trip \in Int /\ P.k_cool \in Int /\ P.unit \in Nat \ {0}
    BY DEF States, Ports, Allowed, Positive
  <1> DEFINE leaks == part.closed = 0 /\ P.r_heat * in.leak * in.leak * P.unit <= part.temp * P.k_cool
  <1>3. temp \in Nat /\ (leaks => temp <= part.temp)
    <2> DEFINE current == BranchCurrent(out, in)
               heat == P.r_heat * current * current
               rise == heat * dt
               loss == part.temp * P.k_cool
               x == loss * dt
               cooled == x \div P.unit
    <2>1. temp = Larger(0, part.temp + rise - cooled)
      BY DEF Heated
    <2>2. current \in Int
      BY <1>2 DEF BranchCurrent
    <2>3. leaks => current = in.leak
      BY DEF BranchCurrent, BreakerKept
    <2>4. leaks => heat * P.unit <= loss
      BY <2>3
    <2> HIDE DEF current, leaks
    <2>5. heat \in Int /\ loss \in Int
      BY <1>2, <2>2
    <2> HIDE DEF heat, loss
    <2>6. rise \in Int /\ x \in Int
      BY <1>2, <2>5
    <2>7. leaks => P.unit * rise <= x
      <3>1. SUFFICES ASSUME leaks PROVE P.unit * rise <= x
        OBVIOUS
      <3>2. (heat * P.unit) * dt <= loss * dt
        BY <1>2, <2>4, <2>5, <3>1
      <3>3. (heat * P.unit) * dt = P.unit * (heat * dt)
        BY <1>2, <2>5
      <3> QED
        BY <3>2, <3>3
    <2> HIDE DEF x, rise
    <2>8. cooled \in Int /\ x < P.unit * cooled + P.unit
      BY <1>2, <2>6, Quotient
    <2> HIDE DEF cooled, temp
    <2>9. leaks => rise <= cooled
      <3>1. SUFFICES ASSUME leaks, rise >= cooled + 1 PROVE FALSE
        BY <2>6, <2>8
      <3>2. P.unit * (cooled + 1) <= P.unit * rise
        BY <1>2, <2>6, <2>8, <3>1
      <3> QED
        BY <1>2, <2>6, <2>7, <2>8, <3>1, <3>2
    <2>10. part.temp + rise - cooled \in Int
      BY <1>2, <2>6, <2>8
    <2>11. temp \in Nat
      BY <2>1, <2>10 DEF Larger
    <2>12. leaks => temp <= part.temp
      BY <1>2, <2>1, <2>6, <2>8, <2>9 DEF Larger
    <2> QED
      BY <2>11, <2>12
  <1>4. part.closed = 1 => part.tripped = 0
    BY DEF BreakerKept
  <1> DEFINE moved == control # part.last_control
             closed == IF moved THEN 1 - part.closed ELSE part.closed
             trips == closed = 1 /\ temp > P.trip
             tripped == IF trips THEN 1 ELSE IF moved /\ part.closed = 0 THEN 0 ELSE part.tripped
             now == IF trips THEN 0 ELSE closed
  <1>5. /\ Behaviour(part, in, dt).part
              = [closed |-> now, tripped |-> tripped, temp |-> temp, last_control |-> control]
        /\ Behaviour(part, in, dt).out = [state |-> now, tripped |-> tripped]
    BY <1>1 DEF AZSCommit
  <1> HIDE DEF temp, control
  <1>6. /\ now \in Levels /\ tripped \in Levels
        /\ now = 1 => temp <= P.trip /\ tripped = 0
        /\ part.closed = 1 /\ now = 0 => moved \/ tripped = 1
        /\ part.closed = 0 /\ ~moved => now = 0 /\ tripped = part.tripped
    BY <1>2, <1>3, <1>4 DEF Levels
  <1> HIDE DEF now, tripped
  <1> QED
    BY <1>2, <1>3, <1>5, <1>6 DEF States, Outs, control

-----------------------------------------------------------------------------
(* Every part, frame by frame.                                               *)

\* What the committed state of a part says of its history.
Kept(kind, p, fs, s) ==
  CASE kind = "Monostable" -> PulseKept(p, fs, s)
    [] kind = "TimeDelay"  -> DelayKept(p, fs, s)
    [] kind = "SampleHold" -> SampleKept(fs, s)
    [] kind = "Comparator" -> s.output_state = LatchReference(fs, p.Von, p.Voff, 0)
    [] kind = "Relay"      -> s.closed = LatchReference(fs, p.hold_threshold + 1, -p.hold_threshold - 1, p.closed)
    [] kind = "Integrator" -> IntegralKept(p, fs, s)
    [] kind = "FuelTank"   -> s.level = LevelReference(fs, p)
    [] kind = "AZS"        -> BreakerKept
    [] OTHER               -> FollowerKept(fs, s)

\* What the history says the part shows in frame gs after fs.
Shown(kind, p, fs, gs, value) ==
  CASE kind = "Monostable" -> value = PulseReference(fs, p)
    [] kind = "TimeDelay"  -> value = In(gs, LastPassed(fs, p))
    [] kind = "SampleHold" -> value = SampleReference(fs)
    [] kind = "Comparator" -> value = LatchReference(gs, p.Von, p.Voff, 0)
    [] kind = "Relay"      -> value = LatchReference(gs, p.hold_threshold + 1, -p.hold_threshold - 1, p.closed)
    [] kind = "Integrator" -> value = IntegralReference(fs, p)
    [] kind = "FuelTank"   -> value = LevelReference(fs, p)
    [] OTHER -> TRUE

\* A frame of any part but the breaker.
LEMMA PartStep ==
  ASSUME Kind \in Kinds \ {"AZS"}, Allowed(Kind, P),
         NEW fs \in Seq(FrameOf(Kind)), NEW gs, NEW f, Grown(fs, gs, f, Len(fs)),
         f.in \in Ports(Kind), NEW s \in States(Kind), Kept(Kind, P, fs, s),
         f.out = Behaviour(s, f.in, f.dt).out
  PROVE  LET a == Behaviour(s, f.in, f.dt)
         IN  /\ a.part \in States(Kind) /\ a.out \in Outs(Kind)
             /\ Shown(Kind, P, fs, gs, a.out.value)
             /\ Kept(Kind, P, gs, a.part)
  <1> DEFINE a == Behaviour(s, f.in, f.dt)
             k == Len(fs)
  <1>1. CASE Kind = "Monostable"
    <2>1. /\ s \in [timer : Int, last_in : Levels] /\ f.in.in \in Levels /\ P.duration \in Int
          /\ PulseKept(P, fs, s) /\ a = Monostable(s, f.in, f.dt)
      BY <1>1 DEF States, Ports, Allowed, Kept, Behaviour, Levels
    <2>2. /\ a.part \in [timer : Int, last_in : Levels] /\ a.out \in [value : Int]
          /\ a.out.value = PulseReference(fs, P) /\ PulseKept(P, gs, a.part)
      BY <2>1, PulseStep
    <2> QED
      BY <1>1, <2>2 DEF States, Outs, Shown, Kept
  <1>2. CASE Kind = "TimeDelay"
    <2>1. /\ s \in [current : Levels, last_in : Levels, accumulator : Int, first : BOOLEAN]
          /\ f.in.in \in Levels /\ P.delay_on \in Int /\ P.delay_off \in Int
          /\ DelayKept(P, fs, s) /\ a = TimeDelay(s, f.in, f.dt)
      BY <1>2 DEF States, Ports, Allowed, Kept, Behaviour, Levels
    <2>2. /\ a.part \in [current : Levels, last_in : Levels, accumulator : Int, first : BOOLEAN]
          /\ a.out \in [value : Int]
          /\ a.out.value = In(gs, LastPassed(fs, P)) /\ DelayKept(P, gs, a.part)
      BY <2>1, DelayStep
    <2> QED
      BY <1>2, <2>2 DEF States, Outs, Shown, Kept
  <1>3. CASE Kind = "SampleHold"
    <2>1. /\ s \in [stored : Int, last_trig : Levels] /\ f.in \in [in : Int, trigger : Levels]
          /\ SampleKept(fs, s) /\ a = SampleHold(s, f.in, f.dt)
      BY <1>3 DEF States, Ports, Kept, Behaviour, Levels
    <2>2. /\ a.part \in [stored : Int, last_trig : Levels] /\ a.out \in [value : Int]
          /\ a.out.value = SampleReference(fs) /\ SampleKept(gs, a.part)
      BY <2>1, SampleStep
    <2> QED
      BY <1>3, <2>2 DEF States, Outs, Shown, Kept
  <1>4. CASE Kind = "Comparator"
    <2>1. /\ s \in [output_state : Levels] /\ f.in.in \in Int /\ P.Von \in Int /\ P.Voff \in Int
          /\ s.output_state = LatchReference(fs, P.Von, P.Voff, 0) /\ a = Comparator(s, f.in, f.dt)
      BY <1>4 DEF States, Ports, Allowed, Kept, Behaviour
    <2>2. /\ a.part \in [output_state : Levels] /\ a.out \in [value : Int]
          /\ a.out.value = LatchReference(gs, P.Von, P.Voff, 0)
          /\ a.part.output_state = LatchReference(gs, P.Von, P.Voff, 0)
      BY <2>1, ComparatorStep
    <2> QED
      BY <1>4, <2>2 DEF States, Outs, Shown, Kept
  <1>5. CASE Kind = "Relay"
    <2> DEFINE latched(h) == LatchReference(h, P.hold_threshold + 1, -P.hold_threshold - 1, P.closed)
    <2>1. /\ s \in [closed : Levels] /\ f.in.in \in Int /\ P.hold_threshold \in Int
          /\ s.closed = latched(fs) /\ a = Relay(s, f.in, f.dt)
      BY <1>5 DEF States, Ports, Allowed, Kept, Behaviour
    <2>2. /\ a.part \in [closed : Levels] /\ a.out \in [value : Int]
          /\ a.out.value = latched(gs) /\ a.part.closed = latched(gs)
      BY <2>1, RelayStep
    <2> QED
      BY <1>5, <2>2 DEF States, Outs, Shown, Kept
  <1>6. CASE Kind = "Integrator"
    <2>1. /\ s \in [accumulator : Int, first : BOOLEAN] /\ f.in \in [in : Int, reset : Levels]
          /\ P.gain \in Int /\ P.initial_val \in Int
          /\ IntegralKept(P, fs, s) /\ a = Integrator(s, f.in, f.dt)
      BY <1>6 DEF States, Ports, Allowed, Kept, Behaviour, Levels
    <2>2. \A i \in 1 .. k + 1 : In(gs, i) \in Int
      <3> TAKE i \in 1 .. k + 1
      <3>1. CASE i = k + 1
        BY <2>1, <3>1 DEF Grown, In
      <3>2. CASE i # k + 1
        <4>1. i \in 1 .. k /\ fs[i] \in FrameOf("Integrator")
          BY <1>6, <3>2
        <4> QED
          BY <4>1 DEF Grown, In, FrameOf, Ports
      <3> QED
        BY <3>1, <3>2
    <2>3. /\ a.part \in [accumulator : Int, first : BOOLEAN] /\ a.out \in [value : Int]
          /\ a.out.value = IntegralReference(fs, P) /\ IntegralKept(P, gs, a.part)
      BY <2>1, <2>2, IntegralStep
    <2> QED
      BY <1>6, <2>3 DEF States, Outs, Shown, Kept
  <1>7. CASE Kind = "FuelTank"
    <2>1. /\ s \in [level : Int] /\ P.level \in Int /\ P.consumption_rate \in Int /\ P.capacity \in Nat
          /\ s.level = LevelReference(fs, P) /\ a = FuelTank(s, f.in, f.dt)
      BY <1>7 DEF States, Allowed, Kept, Behaviour
    <2>2. /\ a.part \in [level : Int] /\ a.out \in [value : Int]
          /\ a.out.value = LevelReference(fs, P) /\ a.part.level = LevelReference(gs, P)
      BY <2>1, LevelStep
    <2> QED
      BY <1>7, <2>2 DEF States, Outs, Shown, Kept
  <1>8. CASE Kind \in Followers
    <2>1. s \in [current : Int, first : BOOLEAN] /\ f.in \in [in : Int] /\ f.dt \in Positive
      BY <1>8 DEF States, Ports, Followers, Grown
    <2>2. /\ a.part \in [current : Int, first : BOOLEAN] /\ ~a.part.first
          /\ a.out = [value |-> Committed(s, f.in)] /\ Committed(s, f.in) \in Int
          /\ Promised(Committed(s, f.in), f.in.in, f.dt, a.part.current)
      BY <1>8, <2>1, FollowerStep
    <2>3. gs # <<>> /\ Last(gs) = f
      BY DEF Grown
    <2> HIDE DEF a
    <2>4. f.out.value = Committed(s, f.in)
      BY <2>2 DEF a
    <2>5. FollowerKept(gs, a.part)
      BY <2>2, <2>3, <2>4 DEF FollowerKept
    <2>6. a.out \in [value : Int]
      BY <2>2
    <2>7. Kept(Kind, P, gs, a.part) /\ Shown(Kind, P, fs, gs, a.out.value)
      BY <1>8, <2>5 DEF Kept, Shown, Followers
    <2>8. a.part \in States(Kind) /\ a.out \in Outs(Kind)
      BY <1>8, <2>2, <2>6 DEF States, Outs, Followers
    <2> QED
      BY <2>7, <2>8 DEF a
  <1> QED
    BY <1>1, <1>2, <1>3, <1>4, <1>5, <1>6, <1>7, <1>8 DEF Kinds

-----------------------------------------------------------------------------
(* The inductive invariant: types, times, what the committed state says of   *)
(* the history, and the three properties of the last frame.                  *)

BenchInv ==
  /\ Typed
  /\ Timed(frames)
  /\ Kept(Kind, P, frames, part)
  /\ OutputsFollowHistory
  /\ FollowersNeverOvershoot
  /\ BreakersStayTripped

LEMMA BenchStart == BenchInit => BenchInv
  <1> SUFFICES ASSUME BenchInit PROVE BenchInv
    OBVIOUS
  <1>0. /\ name \in DOMAIN Bench /\ part = Built(Kind, P) /\ out = Bootstrapped(Kind, P) /\ frames = <<>>
        /\ Len(frames) = 0 /\ DOMAIN frames = {} /\ frames \in Seq(FrameOf(Kind))
    BY DEF BenchInit, Kind, P
  <1>1. Kind \in Kinds /\ Allowed(Kind, P)
    BY <1>0, BenchAssumption DEF Kind, P
  <1>2. part \in States(Kind)
    <2>1. CASE Kind = "Monostable"
      BY <1>0, <1>1, <2>1 DEF Built, States, Levels
    <2>2. CASE Kind = "TimeDelay"
      BY <1>0, <1>1, <2>2 DEF Built, States, Levels
    <2>3. CASE Kind = "SampleHold"
      BY <1>0, <1>1, <2>3 DEF Built, States, Levels
    <2>4. CASE Kind = "Comparator"
      BY <1>0, <1>1, <2>4 DEF Built, States, Levels
    <2>5. CASE Kind = "Integrator"
      BY <1>0, <1>1, <2>5 DEF Built, States, Allowed
    <2>6. CASE Kind = "FuelTank"
      BY <1>0, <1>1, <2>6 DEF Built, States, Smaller, Larger, Allowed
    <2>7. CASE Kind = "Relay"
      BY <1>0, <1>1, <2>7 DEF Built, States, Allowed, Levels
    <2>8. CASE Kind = "AZS"
      BY <1>0, <1>1, <2>8 DEF Built, States, Allowed, Levels
    <2>9. CASE Kind \in Followers
      <3>1. part = [current |-> 0, first |-> TRUE]
        BY <1>0, <2>9 DEF Built, Followers
      <3>2. States(Kind) = [current : Int, first : BOOLEAN]
        BY <2>9 DEF States, Followers
      <3> QED
        BY <3>1, <3>2
    <2> QED
      BY <1>1, <2>1, <2>2, <2>3, <2>4, <2>5, <2>6, <2>7, <2>8, <2>9 DEF Kinds
  <1>3. out \in Outs(Kind)
    <2>1. Kind \in {"AZS", "Relay"} => P.closed \in {0, 1}
      BY <1>1 DEF Allowed
    <2>2. CASE Kind = "AZS"
      BY <1>0, <2>1, <2>2 DEF Bootstrapped, Outs, Levels
    <2>3. CASE Kind # "AZS"
      <3> DEFINE v == IF Kind = "Relay" THEN P.closed ELSE 0
      <3>1. out = [value |-> v] /\ v \in Int
        BY <1>0, <2>1, <2>3 DEF Bootstrapped
      <3> QED
        BY <2>3, <3>1 DEF Outs
    <2> QED
      BY <2>2, <2>3
  <1>4. Typed /\ Timed(frames)
    BY <1>0, <1>2, <1>3 DEF Typed, Timed
  <1>5. OutputsFollowHistory /\ FollowersNeverOvershoot /\ BreakersStayTripped
    BY <1>0 DEF OutputsFollowHistory, FollowersNeverOvershoot, BreakersStayTripped
  <1>6. InEdges(frames) = {} /\ TriggerEdges(frames) = {}
    BY <1>0 DEF InEdges, TriggerEdges, Edges
  <1>7. \A high, low, initial : LatchReference(frames, high, low, initial) = initial
    BY <1>0 DEF LatchReference
  <1>8. Kept(Kind, P, frames, part)
    <2>1. CASE Kind = "Monostable"
      <3>1. part = [timer |-> 0, last_in |-> 0]
        BY <1>0, <2>1 DEF Built
      <3> QED
        BY <1>0, <1>6, <2>1, <3>1 DEF Kept, PulseKept
    <2>2. CASE Kind = "TimeDelay"
      <3>1. part.first /\ part.accumulator = 0
        BY <1>0, <2>2 DEF Built
      <3> QED
        BY <1>0, <2>2, <3>1 DEF Kept, DelayKept
    <2>3. CASE Kind = "SampleHold"
      <3>1. part = [stored |-> 0, last_trig |-> 0]
        BY <1>0, <2>3 DEF Built
      <3> QED
        BY <1>0, <1>6, <2>3, <3>1 DEF Kept, SampleKept, SampleReference
    <2>4. CASE Kind = "Comparator"
      <3>1. part.output_state = 0
        BY <1>0, <2>4 DEF Built
      <3> QED
        BY <1>7, <2>4, <3>1 DEF Kept
    <2>5. CASE Kind = "Relay"
      <3>1. part.closed = P.closed
        BY <1>0, <2>5 DEF Built
      <3> QED
        BY <1>7, <2>5, <3>1 DEF Kept
    <2>6. CASE Kind = "Integrator"
      <3>1. part.first
        BY <1>0, <2>6 DEF Built
      <3>2. P.gain \in Int /\ P.initial_val \in Int
        BY <1>1, <2>6 DEF Allowed
      <3>3. Area(frames, P)[0] = 0
        <4>1. \A i \in 1 .. 0 : In(frames, i) \in Int /\ frames[i].dt \in Int
          OBVIOUS
        <4>2. 0 \in Nat
          OBVIOUS
        <4> QED
          BY <1>0, <3>2, <4>1, <4>2, AreaFacts
      <3>4. IntegralReference(frames, P) = P.initial_val
        BY <1>0, <3>2, <3>3 DEF IntegralReference, LastOr
      <3> QED
        BY <2>6, <3>1, <3>4 DEF Kept, IntegralKept
    <2>7. CASE Kind = "FuelTank"
      <3> DEFINE full == Smaller(Larger(P.level, 0), P.capacity)
                 rate == Larger(P.consumption_rate, 0)
      <3>1. part.level = full
        BY <1>0, <2>7 DEF Built
      <3>2. full \in Nat /\ rate \in Int
        BY <1>1, <2>7 DEF Allowed, Smaller, Larger
      <3>3. Elapsed(frames, 1, Len(frames)) = 0
        BY <1>0 DEF Elapsed, Ended
      <3>4. LevelReference(frames, P) = Larger(full - rate * 0, 0)
        BY <3>3 DEF LevelReference
      <3> HIDE DEF full, rate
      <3>5. Larger(full - rate * 0, 0) = full
        BY <3>2 DEF Larger
      <3> QED
        BY <2>7, <3>1, <3>4, <3>5 DEF Kept
    <2>8. CASE Kind = "AZS"
      <3>1. part.closed = P.closed /\ part.tripped = 0 /\ out.state = P.closed
        BY <1>0, <2>8 DEF Built, Bootstrapped
      <3> QED
        BY <1>0, <2>8, <3>1 DEF Kept, BreakerKept
    <2>9. CASE Kind \in Followers
      <3>1. part.first
        BY <1>0, <2>9 DEF Built, Followers
      <3>2. FollowerKept(frames, part)
        BY <1>0, <3>1 DEF FollowerKept
      <3> QED
        BY <2>9, <3>2 DEF Kept, Followers
    <2> QED
      BY <1>1, <2>1, <2>2, <2>3, <2>4, <2>5, <2>6, <2>7, <2>8, <2>9 DEF Kinds
  <1> QED
    BY <1>4, <1>5, <1>8 DEF BenchInv

LEMMA BenchFrame ==
  ASSUME BenchInv, NEW dt \in Steps, NEW in \in Inputs[name], Frame(dt, in)
  PROVE  BenchInv'
  <1> DEFINE d == Smaller(dt, MAX_DT)
             a == Behaviour(part, in, d)
             f == [dt |-> d, at |-> Now + d, in |-> in, out |-> a.out, part |-> a.part]
             k == Len(frames)
             gs == Append(frames, f)
  <1>0. /\ part' = a.part /\ out' = a.out /\ frames' = gs /\ name' = name
        /\ Kind' = Kind /\ P' = P
    BY DEF Frame, Kind, P
  <1>1. /\ Kind \in Kinds /\ Allowed(Kind, P) /\ in \in Ports(Kind)
        /\ part \in States(Kind) /\ frames \in Seq(FrameOf(Kind)) /\ Timed(frames)
        /\ Kept(Kind, P, frames, part) /\ name \in DOMAIN Bench
    BY OnBench DEF BenchInv, Typed
  <1>2. d \in Positive
    BY StepsAssumption DEF Frame, Smaller, Positive
  <1>3. Now = Ended(frames, k) /\ Now \in Nat
    <2>1. k \in Nat /\ (frames = <<>> <=> k = 0) /\ (k # 0 => k \in 1 .. k /\ Last(frames) = frames[k])
      BY <1>1 DEF Last
    <2>2. \A i \in 1 .. k : frames[i] \in FrameOf(Kind)
      BY <1>1
    <2>3. k # 0 => frames[k].at \in Nat
      BY <2>1, <2>2 DEF FrameOf
    <2> QED
      BY <2>1, <2>3 DEF Now, Ended
  <1>4. /\ f.dt = d /\ f.in = in /\ f.out = a.out /\ f.part = a.part /\ f.at = Now + d
        /\ f.at = Ended(frames, k) + f.dt /\ f.dt \in Positive
    BY <1>2, <1>3
  <1> HIDE DEF f, a
  <1>5. Grown(frames, gs, f, k)
    BY <1>1, <1>4, GrownFacts
  <1>6. Timed(gs) /\ gs # <<>> /\ Last(gs) = f /\ Front(gs) = frames
        /\ k \in Nat /\ Len(gs) = k + 1 /\ gs[k + 1] = f /\ (\A i \in 1 .. k : gs[i] = frames[i])
        /\ (frames = <<>> <=> k = 0) /\ (k # 0 => Last(frames) = frames[k])
    BY <1>5 DEF Grown
  <1>7. f \in FrameOf(Kind) /\ gs \in Seq(FrameOf(Kind))
        <=> a.part \in States(Kind) /\ a.out \in Outs(Kind)
    <2>1. f \in FrameOf(Kind) <=> a.part \in States(Kind) /\ a.out \in Outs(Kind)
      <3>1. Now + d \in Nat
        BY <1>2, <1>3 DEF Positive
      <3> QED
        BY <1>1, <1>2, <3>1 DEF FrameOf, f
    <2>2. f \in FrameOf(Kind) => gs \in Seq(FrameOf(Kind))
      BY <1>1
    <2> QED
      BY <2>1, <2>2
  <1>8. CASE Kind = "AZS"
    <2>1. BreakerKept
      BY <1>1, <1>8 DEF Kept
    <2> DEFINE now == a.part
               moved == in.control # part.last_control
    <2>2. /\ now \in States("AZS") /\ a.out \in Outs("AZS") /\ a.out.state = now.closed
          /\ now.closed = 1 => now.temp <= P.trip /\ now.tripped = 0
          /\ part.closed = 1 /\ now.closed = 0 => moved \/ now.tripped = 1
          /\ part.closed = 0 /\ ~moved => now.closed = 0 /\ now.tripped = part.tripped
          /\ part.closed = 0 /\ P.r_heat * in.leak * in.leak * P.unit <= part.temp * P.k_cool =>
                 now.temp <= part.temp
      BY <1>1, <1>2, <1>8, <2>1, BreakerStep DEF a
    <2>3. Typed'
      BY <1>0, <1>1, <1>7, <1>8, <2>2 DEF Typed
    <2>4. Kept(Kind, P, frames, part)'
      <3>1. out'.state = part'.closed /\ (part'.closed = 1 => part'.tripped = 0) /\ frames' # <<>>
            /\ part' = Last(frames').part
        BY <1>0, <1>4, <1>6, <2>2
      <3>2. BreakerKept'
        BY <3>1 DEF BreakerKept
      <3> QED
        BY <1>0, <1>8, <3>2 DEF Kept
    <2>5. BreakersStayTripped'
      <3>1. part = IF Len(gs) = 1 THEN Built(Kind, P) ELSE Last(Front(gs)).part
        BY <1>6, <2>1 DEF BreakerKept
      <3>2. Last(gs).part = now /\ Last(gs).in = in
        BY <1>4, <1>6
      <3> HIDE DEF gs, now
      <3> QED
        BY <1>0, <2>2, <3>1, <3>2 DEF BreakersStayTripped
    <2>6. OutputsFollowHistory' /\ FollowersNeverOvershoot'
      BY <1>0, <1>8 DEF OutputsFollowHistory, FollowersNeverOvershoot, Followers
    <2> QED
      BY <1>0, <1>6, <2>3, <2>4, <2>5, <2>6 DEF BenchInv
  <1>9. CASE Kind # "AZS"
    <2>1. /\ a.part \in States(Kind) /\ a.out \in Outs(Kind)
          /\ Shown(Kind, P, frames, gs, a.out.value)
          /\ Kept(Kind, P, gs, a.part)
      <3>1. Kind \in Kinds \ {"AZS"}
        BY <1>1, <1>9
      <3>2. a = Behaviour(part, f.in, f.dt)
        BY <1>4 DEF a
      <3> HIDE DEF gs, k
      <3>3. Grown(frames, gs, f, Len(frames))
        BY <1>5 DEF k
      <3> QED
        BY <1>1, <1>4, <3>1, <3>2, <3>3, PartStep
    <2>2. Typed'
      BY <1>0, <1>1, <1>7, <2>1 DEF Typed
    <2>3. Kept(Kind, P, frames, part)'
      <3>1. FollowerKept(frames, part)' <=> FollowerKept(gs, a.part)
        BY <1>0 DEF FollowerKept, Promised, Heads, Grain, RateTo
      <3> QED
        BY <1>0, <1>9, <2>1, <3>1 DEF Kept
    <2>4. OutputsFollowHistory'
      <3>1. Last(gs).out.value = a.out.value /\ Front(gs) = frames
        BY <1>4, <1>6
      <3> HIDE DEF gs
      <3> QED
        BY <1>0, <2>1, <3>1 DEF OutputsFollowHistory, Shown
    <2>5. BreakersStayTripped'
      BY <1>0, <1>9 DEF BreakersStayTripped
    <2>6. FollowersNeverOvershoot'
      <3>1. CASE Kind \notin Followers
        BY <1>0, <3>1 DEF FollowersNeverOvershoot
      <3>2. CASE Kind \in Followers
        <4>1. FollowerKept(frames, part) /\ part \in [current : Int, first : BOOLEAN] /\ in \in [in : Int]
          BY <1>1, <3>2 DEF Kept, Followers, States, Ports
        <4>2. a.out.value = Committed(part, in)
          <5>1. a = Behaviour(part, in, d)
            BY DEF a
          <5> HIDE DEF d
          <5>2. a.out = [value |-> Committed(part, in)]
            BY <1>1, <1>2, <3>2, <4>1, <5>1, FollowerStep
          <5> QED
            BY <5>2
        <4>3. CASE k = 0
          <5>1. a.out.value = In(gs, 1)
            BY <1>4, <1>6, <4>1, <4>2, <4>3 DEF FollowerKept, Committed, In
          <5> HIDE DEF gs
          <5> QED
            BY <1>0, <1>4, <1>6, <4>3, <5>1 DEF FollowersNeverOvershoot
        <4>4. CASE k # 0
          <5>1. /\ Promised(Last(frames).out.value, Last(frames).in.in, Last(frames).dt, a.out.value)
                /\ gs[Len(gs) - 1] = Last(frames)
            BY <1>6, <4>1, <4>2, <4>4 DEF FollowerKept, Committed
          <5>2. Len(gs) # 1 /\ Last(gs).out.value = a.out.value
            BY <1>4, <1>6, <4>4
          <5> HIDE DEF gs
          <5> QED
            BY <1>0, <5>1, <5>2 DEF FollowersNeverOvershoot, Promised, Heads, Grain, RateTo
        <4> QED
          BY <4>3, <4>4
      <3> QED
        BY <3>1, <3>2
    <2> QED
      BY <1>0, <1>6, <2>2, <2>3, <2>4, <2>5, <2>6 DEF BenchInv
  <1> QED
    BY <1>8, <1>9

LEMMA BenchInvariance == BenchInv /\ [BenchNext]_benchVars => BenchInv'
  <1> SUFFICES ASSUME BenchInv, [BenchNext]_benchVars PROVE BenchInv'
    OBVIOUS
  <1>1. CASE BenchNext
    <2>1. PICK dt \in Steps, in \in Inputs[name] : Frame(dt, in)
      BY <1>1 DEF BenchNext
    <2> QED
      BY <2>1, BenchFrame
  <1>2. CASE UNCHANGED benchVars
    BY <1>2 DEF benchVars, BenchInv, Typed, Kept, BreakerKept, FollowerKept,
                OutputsFollowHistory, FollowersNeverOvershoot, Promised, Heads, Grain, RateTo, BreakersStayTripped, Kind, P
  <1> QED
    BY <1>1, <1>2

LEMMA BenchInvariant == BenchSpec => []BenchInv
  BY BenchStart, BenchInvariance, PTL DEF BenchSpec

\* Timers, samplers, latches and integrators are functions of their history.
THEOREM PartsFollowHistory == BenchSpec => []OutputsFollowHistory
  <1>1. BenchInv => OutputsFollowHistory
    BY DEF BenchInv
  <1> QED
    BY <1>1, BenchInvariant, PTL

\* Followers keep their promise for any parameters, any inputs and any frames:
\* with a rate above 0 and a factor up to 1 they go towards their input, stop
\* there and keep to their rate; a factor up to 2 passes the input and still
\* comes no further from it.
THEOREM FollowersStop == BenchSpec => []FollowersNeverOvershoot
  <1>1. BenchInv => FollowersNeverOvershoot
    BY DEF BenchInv
  <1> QED
    BY <1>1, BenchInvariant, PTL

\* A breaker opens above its trip point, says so, stays open until its control is
\* moved, and is then heated by what leaks through it and by nothing else.
THEOREM BreakersTripAndStay == BenchSpec => []BreakersStayTripped
  <1>1. BenchInv => BreakersStayTripped
    BY DEF BenchInv
  <1> QED
    BY <1>1, BenchInvariant, PTL

-----------------------------------------------------------------------------
(* The plans of simulator and code generator.                                *)

\* What the builds rest on in the roles of the library: an electrical role is
\* of a kind that is extracted, its keys are named or constant and not both,
\* a role that is patched binds its device, and only a knob has branches that
\* are told apart by an index.
Regular(class, role) ==
  /\ DOMAIN role.params \cap DOMAIN role.values = {}
  /\ role.domain = "Electrical" =>
        role.kind \in {"FixedVoltageNode", "TheveninSource", "ConductanceBranch", "KnobSwitchBranches"}
  /\ role.domain = "Electrical" /\ role.patch.kind # None =>
        "bind_handle" \in DOMAIN role.values /\ role.values.bind_handle = One
  /\ (role.kind = "KnobSwitchBranches") = (class = "KnobSwitch")

LEMMA RolesRegular == \A class \in DOMAIN SolverRole : Regular(class, SolverRole[class])
  <1> TAKE class \in DOMAIN SolverRole
  <1> USE DEF Regular, Role, NoRole, NoPatch, Branch, OpenOrClosed, Nothing, Bound, None
  <1>1. CASE class = "Value"
    BY <1>1 DEF SolverRole
  <1>2. CASE class = "Greater"
    BY <1>2 DEF SolverRole
  <1>3. CASE class = "VoltageSense"
    BY <1>3 DEF SolverRole
  <1>4. CASE class = "RefNode"
    BY <1>4 DEF SolverRole
  <1>5. CASE class = "ElectricalSource"
    BY <1>5 DEF SolverRole
  <1>6. CASE class = "Resistor"
    BY <1>6 DEF SolverRole
  <1>7. CASE class = "CurrentSense"
    BY <1>7 DEF SolverRole
  <1>8. CASE class = "HoldButton"
    BY <1>8 DEF SolverRole
  <1>9. CASE class = "Relay"
    BY <1>9 DEF SolverRole
  <1>10. CASE class = "VariableConductance"
    BY <1>10 DEF SolverRole
  <1>11. CASE class = "ControlledVoltageSource"
    BY <1>11 DEF SolverRole
  <1>12. CASE class = "KnobSwitch"
    BY <1>12 DEF SolverRole
  <1>13. CASE class = "PneumaticRef"
    BY <1>13 DEF SolverRole
  <1>14. CASE class = "PneumaticCompressor"
    BY <1>14 DEF SolverRole
  <1>15. CASE class = "PneumaticValve"
    BY <1>15 DEF SolverRole
  <1>16. class \in {"Value", "Greater", "VoltageSense", "RefNode", "ElectricalSource", "Resistor",
                    "CurrentSense", "HoldButton", "Relay", "VariableConductance",
                    "ControlledVoltageSource", "KnobSwitch", "PneumaticRef",
                    "PneumaticCompressor", "PneumaticValve"}
    BY DEF SolverRole
  <1> QED
    BY <1>1, <1>2, <1>3, <1>4, <1>5, <1>6, <1>7, <1>8,
       <1>9, <1>10, <1>11, <1>12, <1>13, <1>14, <1>15, <1>16

\* A key that a device has once, as a constant or as a parameter that is there,
\* reads the same in both.
LEMMA ReadAgrees ==
  ASSUME NEW d, DOMAIN d.role.params \cap DOMAIN d.role.values = {}, NEW key, NEW default,
         \/ key \in DOMAIN d.role.values
         \/ key \in DOMAIN d.role.params /\ d.role.params[key] \in DOMAIN d.params
  PROVE  ReadParam("AOT", d, key, default) = ReadParam("JIT", d, key, default)
  <1>1. CASE key \in DOMAIN d.role.values
    <2>1. key \notin DOMAIN d.role.params
      BY <1>1
    <2> QED
      BY <1>1, <2>1 DEF ReadParam
  <1>2. CASE key \notin DOMAIN d.role.values
    BY <1>2 DEF ReadParam, Param
  <1> QED
    BY <1>1, <1>2

\* An electrical device of an accepted circuit.
Accepted(c, d) ==
  /\ d.class \in DOMAIN SolverRole /\ d.role = SolverRole[d.class]
  /\ d.role.domain = "Electrical" /\ ~MissingParams(d)
  /\ \A key \in DOMAIN d.params : d.params[key] \in Fraction

\* A list of elements with one item, or of a knob with several.
MadeOf(d, made) ==
  \E n \in Nat : DOMAIN made = 1 .. n /\ IF d.class = "KnobSwitch" THEN n >= 2 ELSE n = 1

\* What the simulator reads of a parameter is a number.
LEMMA ParamIsFraction ==
  ASSUME NEW d, \A key \in DOMAIN d.params : d.params[key] \in Fraction,
         NEW key \in DOMAIN d.role.params, NEW default
  PROVE  ReadParam("JIT", d, key, default) \in Fraction
  <1>1. \A k : Param(d, k, Zero) \in Fraction
    BY DEF Param, Written, Zero, Whole, Fraction
  <1> QED
    BY <1>1 DEF ReadParam

LEMMA ExtractAgrees ==
  ASSUME NEW c, NEW d, Accepted(c, d)
  PROVE  Extract("AOT", c, d) = Extract("JIT", c, d) /\ MadeOf(d, Extract("JIT", c, d))
  <1>1. Regular(d.class, d.role)
    BY RolesRegular DEF Accepted
  <1>2. /\ DOMAIN d.role.params \cap DOMAIN d.role.values = {}
        /\ d.role.kind \in {"FixedVoltageNode", "TheveninSource", "ConductanceBranch", "KnobSwitchBranches"}
        /\ (d.role.kind = "KnobSwitchBranches") = (d.class = "KnobSwitch")
    BY <1>1 DEF Accepted, Regular
  <1>3. d.role.kind # None
    BY <1>2 DEF None
  <1>4. \A key \in Read[d.role.kind] :
           \/ key \in DOMAIN d.role.values
           \/ key \in DOMAIN d.role.params /\ d.role.params[key] \in DOMAIN d.params
    <2>1. ~MissingParams(d)
      BY DEF Accepted
    <2> QED
      BY <1>3, <2>1 DEF MissingParams
  <1>5. \A key \in Read[d.role.kind] : \A default :
           ReadParam("AOT", d, key, default) = ReadParam("JIT", d, key, default)
    BY <1>2, <1>4, ReadAgrees
  <1>6. CASE d.role.kind = "FixedVoltageNode"
    <2>1. "voltage" \in Read[d.role.kind]
      BY <1>6 DEF Read
    <2> QED
      BY <1>2, <1>5, <1>6, <2>1 DEF Extract, MadeOf, Element
  <1>7. CASE d.role.kind = "TheveninSource"
    <2>1. {"voltage", "resistance"} \subseteq Read[d.role.kind]
      BY <1>7 DEF Read
    <2> QED
      BY <1>2, <1>5, <1>7, <2>1 DEF Extract, MadeOf, Element
  <1>8. CASE d.role.kind = "ConductanceBranch"
    <2>1. "g" \in Read[d.role.kind]
      BY <1>8 DEF Read
    <2> QED
      BY <1>2, <1>5, <1>8, <2>1 DEF Extract, MadeOf, Element
  <1>9. CASE d.role.kind = "KnobSwitchBranches"
    <2>1. {"positions", "initial_position", "g_open", "g_closed"} \subseteq Read[d.role.kind]
      BY <1>9 DEF Read
    <2>2. \A a : Extract(a, c, d) = KnobBranches(a, c, d)
      BY <1>9 DEF Extract
    <2>3. KnobBranches("AOT", c, d) = KnobBranches("JIT", c, d)
      BY <1>5, <2>1 DEF KnobBranches
    <2>4. MadeOf(d, KnobBranches("JIT", c, d))
      <3> DEFINE positions == Within(Truncated(ReadParam("JIT", d, "positions", Whole(3))), 2, Len(Throws))
                 made == KnobBranches("JIT", c, d)
      <3>1. Len(Throws) = 5
        BY DEF Throws
      <3>2. positions \in Nat /\ positions >= 2
        <4>1. "positions" \in DOMAIN d.role.params
          <5>1. d.role = SolverRole["KnobSwitch"]
            BY <1>2, <1>9 DEF Accepted
          <5>2. SolverRole["KnobSwitch"].params
                  = [positions |-> "positions", initial_position |-> "initial_position",
                     g_open |-> "g_open", g_closed |-> "g_closed"]
            BY DEF SolverRole, Role
          <5> QED
            BY <5>1, <5>2
        <4>2. ReadParam("JIT", d, "positions", Whole(3)) \in Fraction
          BY <4>1, ParamIsFraction DEF Accepted
        <4>3. Truncated(ReadParam("JIT", d, "positions", Whole(3))) \in Int
          BY <4>2 DEF Truncated, Fraction, Magnitude
        <4> QED
          BY <3>1, <4>3 DEF Within
      <3>3. DOMAIN made = 1 .. positions
        BY DEF KnobBranches
      <3> HIDE DEF positions, made
      <3> QED
        BY <1>2, <1>9, <3>2, <3>3 DEF MadeOf, made
    <2> QED
      BY <2>2, <2>3, <2>4
  <1> QED
    BY <1>2, <1>6, <1>7, <1>8, <1>9

\* The listed elements, device by device.
Rows(adapter, c) ==
  [j \in DOMAIN c.devices |->
     IF c.devices[j].role.domain = "Electrical"
     THEN [i \in DOMAIN Extract(adapter, c, c.devices[j]) |->
             [of |-> j, element |-> Extract(adapter, c, c.devices[j])[i]]]
     ELSE <<>>]

LEMMA DevicesAccepted ==
  ASSUME NEW c \in Circuits, ~Refused(c)
  PROVE  /\ c.devices \in Seq(ToSet(c.devices)) /\ DOMAIN c.devices = 1 .. Len(c.devices)
         /\ Len(c.devices) \in Nat
         /\ \A j \in DOMAIN c.devices :
               /\ c.devices[j].role.domain = "Electrical" => Accepted(c, c.devices[j])
               /\ Regular(c.devices[j].class, c.devices[j].role)
               /\ c.devices[j].name # None
               /\ \A i \in DOMAIN c.devices : c.devices[i].name = c.devices[j].name => i = j
  <1>1. /\ c.devices \in Seq(ToSet(c.devices)) /\ DOMAIN c.devices = 1 .. Len(c.devices)
        /\ Len(c.devices) \in Nat
    BY CircuitsAssumption
  <1>2. ASSUME NEW j \in DOMAIN c.devices
        PROVE  /\ c.devices[j].role.domain = "Electrical" => Accepted(c, c.devices[j])
               /\ Regular(c.devices[j].class, c.devices[j].role)
               /\ c.devices[j].name # None
               /\ \A i \in DOMAIN c.devices : c.devices[i].name = c.devices[j].name => i = j
    <2> DEFINE d == c.devices[j]
    <2>1. /\ d.class \in DOMAIN SolverRole /\ d.role = SolverRole[d.class]
          /\ d.name # None /\ \A key \in DOMAIN d.params : d.params[key] \in Fraction
          /\ \A i \in DOMAIN c.devices : c.devices[i].name = d.name => i = j
      BY CircuitsAssumption
    <2>2. ~MissingParams(d)
      BY DEF Refused, ToSet
    <2> HIDE DEF d
    <2>3. Regular(d.class, d.role)
      BY <2>1, RolesRegular
    <2>4. d.role.domain = "Electrical" => Accepted(c, d)
      BY <2>1, <2>2 DEF Accepted
    <2> QED
      BY <2>1, <2>3, <2>4 DEF d
  <1> QED
    BY <1>1, <1>2

\* Both list the same elements.
LEMMA ListingAgrees ==
  ASSUME NEW c \in Circuits, ~Refused(c)
  PROVE  Listing("AOT", c, "Electrical") = Listing("JIT", c, "Electrical")
  <1>1. \A j \in DOMAIN c.devices : c.devices[j].role.domain = "Electrical" =>
           Extract("AOT", c, c.devices[j]) = Extract("JIT", c, c.devices[j])
    BY DevicesAccepted, ExtractAgrees
  <1>2. Rows("AOT", c) = Rows("JIT", c)
    BY <1>1 DEF Rows
  <1>3. \A a : Listing(a, c, "Electrical") = FlattenSeq(Rows(a, c))
    BY DEF Listing, Rows
  <1> QED
    BY <1>2, <1>3

\* Every entry of the list names its device, and every electrical device has
\* one, or a knob several.
Covers(c, list) ==
  /\ \E n \in Nat : DOMAIN list = 1 .. n
  /\ \A k \in DOMAIN list : list[k].of \in DOMAIN c.devices
  /\ \A j \in DOMAIN c.devices :
        c.devices[j].role.domain = "Electrical" =>
           IF c.devices[j].class = "KnobSwitch"
           THEN \E k, l \in DOMAIN list : k # l /\ list[k].of = j /\ list[l].of = j
           ELSE \E k \in DOMAIN list : \A l \in DOMAIN list : (list[l].of = j) = (l = k)

LEMMA ListingFacts ==
  ASSUME NEW c \in Circuits, ~Refused(c)
  PROVE  Covers(c, Listing("JIT", c, "Electrical"))
  <1> DEFINE rows == Rows("JIT", c)
             list == FlattenSeq(rows)
             V == UNION {{rows[j][i] : i \in DOMAIN rows[j]} : j \in DOMAIN c.devices}
             electrical(j) == c.devices[j].role.domain = "Electrical"
  <1>1. \A j \in DOMAIN c.devices : electrical(j) => MadeOf(c.devices[j], Extract("JIT", c, c.devices[j]))
    BY DevicesAccepted, ExtractAgrees
  <1>2. DOMAIN rows = DOMAIN c.devices
    BY DEF Rows
  <1>3. ASSUME NEW j \in DOMAIN c.devices, ~electrical(j)
        PROVE  rows[j] = <<>> /\ DOMAIN rows[j] = {}
    BY <1>3 DEF Rows
  <1>4. ASSUME NEW j \in DOMAIN c.devices, electrical(j)
        PROVE  /\ \E n \in Nat : /\ DOMAIN rows[j] = 1 .. n
                                 /\ IF c.devices[j].class = "KnobSwitch" THEN n >= 2 ELSE n = 1
               /\ \A i \in DOMAIN rows[j] : rows[j][i].of = j
    <2> DEFINE made == Extract("JIT", c, c.devices[j])
    <2>1. rows[j] = [i \in DOMAIN made |-> [of |-> j, element |-> made[i]]]
      BY <1>4 DEF Rows
    <2>2. MadeOf(c.devices[j], made)
      BY <1>1, <1>4
    <2> HIDE DEF made, rows
    <2>3. DOMAIN rows[j] = DOMAIN made
          /\ \A i \in DOMAIN made : rows[j][i].of = j
      BY <2>1
    <2> QED
      BY <2>2, <2>3 DEF MadeOf
  <1> HIDE DEF rows
  <1>5. rows \in Seq(Seq(V))
    <2>1. ASSUME NEW j \in DOMAIN c.devices PROVE rows[j] \in Seq(V)
      <3>1. \A i \in DOMAIN rows[j] : rows[j][i] \in V
        OBVIOUS
      <3> HIDE DEF V
      <3>2. CASE ~electrical(j)
        <4>1. rows[j] = <<>>
          BY <1>3, <3>2
        <4> QED
          BY <4>1
      <3>3. CASE electrical(j)
        <4>1. PICK n \in Nat : DOMAIN rows[j] = 1 .. n
          BY <1>4, <3>3
        <4>2. rows[j] = [i \in 1 .. n |-> rows[j][i]]
          <5>1. rows[j] = [i \in DOMAIN rows[j] |-> rows[j][i]]
            BY <3>3 DEF rows, Rows
          <5> QED
            BY <4>1, <5>1
        <4> QED
          BY <3>1, <4>1, <4>2
      <3> QED
        BY <3>2, <3>3
    <2>2. rows = [j \in DOMAIN c.devices |-> rows[j]]
      BY DEF rows, Rows
    <2> HIDE DEF V
    <2>3. DOMAIN c.devices = 1 .. Len(c.devices) /\ Len(c.devices) \in Nat
      BY DevicesAccepted
    <2> QED
      BY <2>1, <2>2, <2>3
  <1> HIDE DEF V
  <1>6. list \in Seq(V) /\ \E at : Spots(list, rows, at)
    BY <1>5, FlattenPlaces
  <1>7. \E n \in Nat : DOMAIN list = 1 .. n
    <2> HIDE DEF list
    <2> QED
      BY <1>6
  <1> HIDE DEF list
  <1>8. PICK at : Spots(list, rows, at)
    BY <1>6
  <1> USE DEF Spots
  <1>9. ASSUME NEW k \in DOMAIN list
        PROVE  \E j \in DOMAIN c.devices : \E i \in DOMAIN rows[j] :
                  electrical(j) /\ k = at[j] + i /\ list[k].of = j
    <2>1. PICK j \in DOMAIN rows : \E i \in DOMAIN rows[j] : k = at[j] + i
      BY <1>8
    <2>2. PICK i \in DOMAIN rows[j] : k = at[j] + i
      BY <2>1
    <2>3. electrical(j)
      BY <1>2, <1>3
    <2>4. list[k] = rows[j][i]
      BY <1>8, <2>2
    <2>5. list[k].of = j
      BY <1>2, <1>4, <2>3, <2>4
    <2> QED
      BY <1>2, <2>2, <2>3, <2>5
  <1>10. ASSUME NEW j \in DOMAIN c.devices, electrical(j)
         PROVE  IF c.devices[j].class = "KnobSwitch"
                THEN \E k, l \in DOMAIN list : k # l /\ list[k].of = j /\ list[l].of = j
                ELSE \E k \in DOMAIN list : \A l \in DOMAIN list : (list[l].of = j) = (l = k)
    <2>1. PICK n \in Nat : /\ DOMAIN rows[j] = 1 .. n
                           /\ IF c.devices[j].class = "KnobSwitch" THEN n >= 2 ELSE n = 1
      BY <1>4, <1>10
    <2>2. at[j] \in Nat
      BY <1>2, <1>8
    <2>3. \A i \in 1 .. n : at[j] + i \in DOMAIN list /\ list[at[j] + i].of = j
      BY <1>2, <1>4, <1>8, <1>10, <2>1
    <2>4. CASE c.devices[j].class = "KnobSwitch"
      <3>1. 1 \in 1 .. n /\ 2 \in 1 .. n /\ at[j] + 1 # at[j] + 2
        BY <2>1, <2>2, <2>4
      <3> QED
        BY <2>3, <2>4, <3>1
    <2>5. CASE c.devices[j].class # "KnobSwitch"
      <3>1. n = 1
        BY <2>1, <2>5
      <3>2. at[j] + 1 \in DOMAIN list /\ list[at[j] + 1].of = j
        BY <2>3, <3>1
      <3>3. ASSUME NEW l \in DOMAIN list, list[l].of = j PROVE l = at[j] + 1
        <4>1. \E i \in DOMAIN rows[j] : l = at[j] + i
          BY <1>9, <3>3
        <4>2. \A i \in DOMAIN rows[j] : i = 1
          BY <2>1, <3>1
        <4> QED
          BY <4>1, <4>2
      <3>4. \A l \in DOMAIN list : (list[l].of = j) = (l = at[j] + 1)
        BY <3>2, <3>3
      <3> QED
        BY <2>5, <3>2, <3>4
    <2> QED
      BY <2>4, <2>5
  <1>11. Listing("JIT", c, "Electrical") = list
    BY DEF list, rows, Listing, Rows
  <1>12. Covers(c, list)
    BY <1>7, <1>9, <1>10 DEF Covers
  <1> QED
    BY <1>11, <1>12

\* The elements of the list, numbered and bound.
LEMMA RawFacts ==
  ASSUME NEW c \in Circuits, ~Refused(c), NEW adapter \in Adapters
  PROVE  LET list == Listing("JIT", c, "Electrical")
             raw == RawElements(adapter, c, "Electrical")
             binds(d) == \/ adapter = "AOT"
                         \/ "bind_handle" \in DOMAIN d.role.values /\ d.role.values.bind_handle = One
         IN  /\ DOMAIN raw = DOMAIN list
             /\ \A k \in DOMAIN list :
                   LET d == c.devices[list[k].of]
                       e == list[k].element
                   IN  /\ raw[k].id = k - 1
                       /\ binds(d) => raw[k].device = d.name
                       /\ raw[k].device \in {d.name, None}
                       /\ raw[k].kind = e.kind /\ raw[k].a = e.a /\ raw[k].b = e.b
                       /\ raw[k].value_a = e.value_a /\ raw[k].value_b = e.value_b
  <1> DEFINE list == Listing("JIT", c, "Electrical")
  <1>1. Listing(adapter, c, "Electrical") = list
    BY ListingAgrees DEF Adapters
  <1> HIDE DEF list
  <1> QED
    BY <1>1 DEF RawElements, list

\* The ids that are bound to a device the build patches, in either plan.
LEMMA IdsFacts ==
  ASSUME NEW c \in Circuits, ~Refused(c), NEW j \in DOMAIN c.devices,
         c.devices[j].role.domain = "Electrical", c.devices[j].role.patch.kind # None
  PROVE  LET d == c.devices[j]
             ids(adapter) == IdsOf(RawElements(adapter, c, "Electrical"), d)
         IN  ids("AOT") = ids("JIT") /\ (Len(ids("JIT")) # 1) = (d.class = "KnobSwitch")
  <1> DEFINE d == c.devices[j]
             list == Listing("JIT", c, "Electrical")
             raw(adapter) == RawElements(adapter, c, "Electrical")
             own(adapter) == {raw(adapter)[i].id : i \in {k \in DOMAIN raw(adapter) : raw(adapter)[k].device = d.name}}
             S == {k - 1 : k \in {l \in DOMAIN list : list[l].of = j}}
  <1>1. Covers(c, list)
    BY ListingFacts
  <1>2. /\ "bind_handle" \in DOMAIN d.role.values /\ d.role.values.bind_handle = One
        /\ d.name # None /\ \A i \in DOMAIN c.devices : c.devices[i].name = d.name => i = j
    BY DevicesAccepted DEF Regular
  <1>3. ASSUME NEW adapter \in Adapters PROVE own(adapter) = S
    <2>1. DOMAIN raw(adapter) = DOMAIN list
      BY RawFacts
    <2>2. \A k \in DOMAIN list :
             /\ raw(adapter)[k].id = k - 1
             /\ list[k].of = j => raw(adapter)[k].device = d.name
             /\ raw(adapter)[k].device \in {c.devices[list[k].of].name, None}
      BY <1>2, RawFacts
    <2> HIDE DEF raw, list, d
    <2>3. \A k \in DOMAIN list : (raw(adapter)[k].device = d.name) = (list[k].of = j)
      BY <1>1, <1>2, <2>2 DEF Covers
    <2> QED
      BY <2>1, <2>2, <2>3
  <1>4. \A adapter \in Adapters : IdsOf(raw(adapter), d) = Ascending(S)
    BY <1>3 DEF IdsOf
  <1> HIDE DEF list
  <1>5. IsFiniteSet(S) /\ Cardinality(S) \in Nat
    <2>1. PICK n \in Nat : DOMAIN list = 1 .. n
      BY <1>1 DEF Covers
    <2>2. S \subseteq 0 .. n
      BY <2>1
    <2> HIDE DEF S
    <2> QED
      <3>1. IsFiniteSet(0 .. n)
        <4>1. 0 \in Int /\ n \in Int
          OBVIOUS
        <4> QED
          BY <4>1, FS_Interval
      <3>2. IsFiniteSet(S)
        BY <2>2, <3>1, FS_Subset
      <3> QED
        BY <3>2, FS_CardinalityType
  <1>6. Len(Ascending(S)) = Cardinality(S)
    BY <1>5 DEF Ascending
  <1>7. (Cardinality(S) # 1) = (d.class = "KnobSwitch")
    <2>1. DOMAIN list \subseteq Int
      BY <1>1 DEF Covers
    <2>2. CASE d.class = "KnobSwitch"
      <3>1. PICK k, l \in DOMAIN list : k # l /\ list[k].of = j /\ list[l].of = j
        BY <1>1, <2>2 DEF Covers
      <3>2. k - 1 \in S /\ l - 1 \in S /\ k - 1 # l - 1
        BY <2>1, <3>1
      <3> HIDE DEF S
      <3> QED
        BY <1>5, <2>2, <3>2, FS_Singleton
    <2>3. CASE d.class # "KnobSwitch"
      <3>1. PICK k \in DOMAIN list : \A l \in DOMAIN list : (list[l].of = j) = (l = k)
        BY <1>1, <2>3 DEF Covers
      <3>2. S = {k - 1}
        BY <3>1
      <3> HIDE DEF S
      <3> QED
        BY <2>3, <3>2, FS_Singleton
    <2> QED
      BY <2>2, <2>3
  <1> HIDE DEF S
  <1> QED
    BY <1>4, <1>6, <1>7 DEF Adapters

\* Of an accepted circuit both make the same elements and operations.
LEMMA PlanAgrees == \A c \in Circuits : ~Refused(c) =>
    LET shape(e) == <<e.id, e.kind, e.a, e.b, e.value_a, e.value_b>>
        shapes(raw) == [i \in DOMAIN raw |-> shape(raw[i])]
        elements(adapter) == shapes(RawElements(adapter, c, "Electrical"))
    IN  /\ elements("AOT") = elements("JIT")
        /\ PatchOps("AOT", c, "Electrical") = PatchOps("JIT", c, "Electrical")
  <1> TAKE c \in Circuits
  <1> HAVE ~Refused(c)
  <1> DEFINE raw(adapter) == RawElements(adapter, c, "Electrical")
             list == Listing("JIT", c, "Electrical")
             shape(e) == <<e.id, e.kind, e.a, e.b, e.value_a, e.value_b>>
             elements(adapter) == [i \in DOMAIN raw(adapter) |-> shape(raw(adapter)[i])]
             plain(k) == LET e == list[k].element
                         IN  <<k - 1, e.kind, e.a, e.b, e.value_a, e.value_b>>
             ops(d, ids) == [i \in DOMAIN ids |-> PatchOp(c, d, ids[i], i - 1)]
             patched(adapter, d) == /\ d.role.domain = "Electrical" /\ d.role.patch.kind # None
                                    /\ d.role.patch.multi = Indexed(adapter, raw(adapter), d)
             row(adapter, d) == IF patched(adapter, d) THEN ops(d, IdsOf(raw(adapter), d)) ELSE <<>>
             rows(adapter) == [j \in DOMAIN c.devices |-> row(adapter, c.devices[j])]
  <1>1. \A adapter \in Adapters : elements(adapter) = [k \in DOMAIN list |-> plain(k)]
    <2> TAKE adapter \in Adapters
    <2>1. DOMAIN raw(adapter) = DOMAIN list
      BY RawFacts
    <2>2. \A k \in DOMAIN list : shape(raw(adapter)[k]) = plain(k)
      BY RawFacts
    <2> HIDE DEF raw, list, shape, plain
    <2> QED
      BY <2>1, <2>2
  <1>2. ASSUME NEW j \in DOMAIN c.devices PROVE row("AOT", c.devices[j]) = row("JIT", c.devices[j])
    <2> DEFINE d == c.devices[j]
    <2>1. CASE d.role.domain = "Electrical" /\ d.role.patch.kind # None
      <3>1. IdsOf(raw("AOT"), d) = IdsOf(raw("JIT"), d)
            /\ (Len(IdsOf(raw("JIT"), d)) # 1) = (d.class = "KnobSwitch")
        BY <2>1, IdsFacts
      <3>2. Indexed("AOT", raw("AOT"), d) = Indexed("JIT", raw("JIT"), d)
        BY <3>1 DEF Indexed
      <3> HIDE DEF raw, d
      <3> QED
        BY <3>1, <3>2 DEF d
    <2>2. CASE ~(d.role.domain = "Electrical" /\ d.role.patch.kind # None)
      BY <2>2
    <2> QED
      BY <2>1, <2>2
  <1>3. rows("AOT") = rows("JIT")
    <2> HIDE DEF row
    <2> QED
      BY <1>2
  <1>4. \A adapter : PatchOps(adapter, c, "Electrical") = FlattenSeq(rows(adapter))
    BY DEF PatchOps, PatchOpsOf
  <1> HIDE DEF rows, plain
  <1> QED
    BY <1>1, <1>3, <1>4 DEF Adapters

\* The simulator and the generated program make the same of every circuit the
\* build accepts (electrical_codegen.cpp:303-365).
THEOREM PlansCoincide == Spec => []PlansAgree
  <1>1. Init => circuit \in Circuits
    BY DEF Init
  <1>2. circuit \in Circuits /\ [Next]_vars => (circuit \in Circuits)'
    BY DEF Next, vars, Edit, Start, Stop, Override, Step
  <1>3. circuit \in Circuits => PlansAgree
    BY PlanAgrees DEF PlansAgree
  <1> QED
    BY <1>1, <1>2, <1>3, PTL DEF Spec
=============================================================================
