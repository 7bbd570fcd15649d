----------------------------- MODULE NodalSolve ----------------------------
(***************************************************************************)
(* The nodal solve of one island (core/solvers/jit/subsolvers) and the     *)
(* patch operations that run before it (core/solvers/common/nodal_patch_   *)
(* ops.h), over exact fractions.  The code takes a pivot or a determinant  *)
(* below 1e-12 for zero; the conductances of the circuits that are checked *)
(* are far from that.                                                      *)
(***************************************************************************)
EXTENDS NodalPlan

\* Mutant: a switch that is on flips its element in every frame.
PatchedByToggling(op, values, old) ==
    LET s(i) == values[op.s[i]] IN
    CASE op.kind = "AffineClamp" -> Clamped(Plus(Times(s(1), s(2)), s(3)), s(4), s(5))
      [] op.kind = "LerpClamped01" -> Plus(s(2), Times(Minus(s(3), s(2)), Clamped(s(1), Zero, One)))
      [] op.kind = "BoolSwitch" -> IF Less(Frac(1, 2), s(1)) /\ old # op.on THEN op.on ELSE op.off
      [] op.kind = "IndexSwitch" -> IF Truncated(s(1)) = op.index THEN op.on ELSE op.off
      [] OTHER -> s(1)

\* update_nodal_dynamic_sources, one operation.
Patched(op, values, old) ==
    LET s(i) == values[op.s[i]] IN
    CASE op.kind = "AffineClamp" -> Clamped(Plus(Times(s(1), s(2)), s(3)), s(4), s(5))
      [] op.kind = "LerpClamped01" -> Plus(s(2), Times(Minus(s(3), s(2)), Clamped(s(1), Zero, One)))
      [] op.kind = "BoolSwitch" -> IF Less(Frac(1, 2), s(1)) THEN op.on ELSE op.off
      [] op.kind = "IndexSwitch" -> IF Truncated(s(1)) = op.index THEN op.on ELSE op.off
      [] op.kind = "CopySignal" -> s(1)
      [] OTHER -> old

UpdateSources(ops, values, element_value) ==
    FoldLeft(LAMBDA ev, op : [ev EXCEPT ![op.element] = Patched(op, values, @)], element_value, ops)

-----------------------------------------------------------------------------
(* Linear systems: rows of coefficients with the right-hand side last.       *)

\* The first of the first n rows with the largest entry in the first column.
PivotRow(rows, n) ==
    CHOOSE r \in 1..n :
        \A q \in 1..n : \/ Less(Size(rows[q][1]), Size(rows[r][1]))
                        \/ Size(rows[q][1]) = Size(rows[r][1]) /\ r <= q

\* The first column taken out of the other rows with the row normal, and left
\* out; normal goes behind the rows it was taken out of.
Cleared(rows, normal) ==
    LET cleared(row) ==
            Tail([j \in DOMAIN row |-> Minus(row[j], Times(row[1], normal[j]))])
    IN FoldLeft(LAMBDA done, row : Append(done, cleared(row)), <<>>, rows) \o <<Tail(normal)>>

Normal(row) == FoldLeft(LAMBDA done, x : Append(done, Over(x, row[1])), <<>>, row)

\* Gauss-Jordan with the largest pivot, over n rows that have no column yet.
Eliminate(system, n) ==
    LET r == PivotRow(system.rows, n)
    IN IF ~system.ok \/ system.rows[r][1] = Zero THEN [system EXCEPT !.ok = FALSE]
       ELSE [ok |-> TRUE, rows |-> Cleared(RemoveAt(system.rows, r), Normal(system.rows[r]))]

SolveDense(rows) ==
    LET N == Len(rows)
        system == FoldLeft(Eliminate, [ok |-> TRUE, rows |-> rows], [i \in 1..N |-> N + 1 - i])
    IN [ok |-> system.ok, x |-> FlattenSeq(system.rows)]

SolveTwo(rows) ==
    LET a(i, j) == rows[i][j]
        b(i) == rows[i][3]
        det == Minus(Times(a(1, 1), a(2, 2)), Times(a(1, 2), a(2, 1)))
    IN IF det = Zero THEN [ok |-> FALSE, x |-> <<b(1), b(2)>>]
       ELSE [ok |-> TRUE,
             x |-> <<Over(Minus(Times(b(1), a(2, 2)), Times(b(2), a(1, 2))), det),
                     Over(Minus(Times(a(1, 1), b(2)), Times(a(2, 1), b(1))), det)>>]

SolveOne(rows) ==
    IF rows[1][1] = Zero THEN [ok |-> FALSE, x |-> <<rows[1][2]>>]
    ELSE [ok |-> TRUE, x |-> <<Over(rows[1][2], rows[1][1])>>]

\* Mutant: the second unknown of two is divided with the wrong sign.
SolveLinearCrossed(rows) ==
    CASE Len(rows) = 0 -> [ok |-> TRUE, x |-> <<>>]
      [] Len(rows) = 1 -> SolveOne(rows)
      [] Len(rows) = 2 -> LET s == SolveTwo(rows) IN [s EXCEPT !.x[2] = Negated(@)]
      [] OTHER -> SolveDense(rows)

SolveLinear(rows) ==
    CASE Len(rows) = 0 -> [ok |-> TRUE, x |-> <<>>]
      [] Len(rows) = 1 -> SolveOne(rows)
      [] Len(rows) = 2 -> SolveTwo(rows)
      [] OTHER -> SolveDense(rows)

-----------------------------------------------------------------------------
(* An island with the element values ev.                                     *)

\* The potentials of its fixed nodes: the first element that names one decides.
Fixed(island, ev) ==
    LET add(fixed, e) == IF e.kind = "FixedNode" THEN fixed @@ (e.a :> ev[e.id]) ELSE fixed
    IN FoldLeft(add, Nothing, island.elements)

\* A source is stamped as a conductance and a current; a negative conductance is open.
Conductance(e, ev) ==
    IF e.kind = "Source" THEN Over(One, Greatest(e.value_b, Frac(1, 1000000)))
    ELSE Greatest(ev[e.id], Zero)

Norton(e, ev) == IF e.kind = "Source" THEN Times(ev[e.id], Conductance(e, ev)) ELSE Zero

\* A branch from a net to itself cancels out.
Stamped(island) == {e \in ToSet(island.elements) : e.kind # "FixedNode" /\ e.a # e.b}

Row(island, ev, fixed, unknowns, u) ==
    LET at == {e \in Stamped(island) : u \in NetsOfElement(e)}
        far(e) == IF e.a = u THEN e.b ELSE e.a
        to(v) == {e \in at : far(e) = v}
        g(e) == Conductance(e, ev)
        coefficient(v) == IF v = u THEN SumOver(at, g) ELSE Negated(SumOver(to(v), g))
        given(e) == IF far(e) \in DOMAIN fixed THEN Times(g(e), fixed[far(e)]) ELSE Zero
        injected(e) == IF e.a = u THEN Norton(e, ev) ELSE Negated(Norton(e, ev))
    IN [v \in DOMAIN unknowns |-> coefficient(unknowns[v])]
       \o <<Plus(SumOver(at, given), SumOver(at, injected))>>

\* What an island becomes with the solution of its system: without one its nets
\* keep their potentials and nothing flows.
Outcome(island, ev, values, fixed, unknowns, solution) ==
    LET potential ==
            [net \in island.nets |->
                IF net \in DOMAIN fixed THEN fixed[net]
                ELSE IF ~solution.ok THEN values[net]
                ELSE solution.x[SelectInSeq(unknowns, LAMBDA u : u = net)]]
        flow(e) ==
            IF e.kind = "FixedNode" \/ ~solution.ok THEN Zero
            ELSE Minus(Times(IF e.kind = "Source" THEN Conductance(e, ev) ELSE ev[e.id],
                             Minus(potential[e.a], potential[e.b])),
                       Norton(e, ev))
        elements == ToSet(island.elements)
    IN [potential |-> potential,
        flow |-> [id \in {e.id : e \in elements} |-> flow(CHOOSE e \in elements : e.id = id)]]

\* solve_nodal of one island: the potentials of its nets and the flows of its
\* elements.
SolveIsland(island, ev, values) ==
    LET fixed == Fixed(island, ev)
        unknowns == SortSeq(Listed(island.nets \ DOMAIN fixed), <)
        rows == [i \in DOMAIN unknowns |-> Row(island, ev, fixed, unknowns, unknowns[i])]
    IN Outcome(island, ev, values, fixed, unknowns, SolveLinear(rows))

Joined(parts) == FoldSet(LAMBDA f, all : f @@ all, Nothing, parts)

\* Every island of a domain: they have no nets in common.
SolveNodal(plan, ev, values) ==
    LET solved == {SolveIsland(island, ev, values) : island \in plan.islands}
    IN [values |-> Joined({s.potential : s \in solved}) @@ values,
        flow |-> Joined({s.flow : s \in solved})]
=============================================================================
