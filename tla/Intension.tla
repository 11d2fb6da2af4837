------------------------------ MODULE Intension ------------------------------
(***************************************************************************)
(* src/constraints/intension.rs: an expression that must hold.  Posting    *)
(* turns what it can into clauses and linear rows; the rest is filtered by *)
(* intervals, with an exact check once everything is fixed.  c.vars lists  *)
(* the variables of the expression in the order of their ids.              *)
(***************************************************************************)
EXTENDS Expressions, Linear

IntensionKinds == {"intension"}

IntensionMeans(c, a) == \E n \in Eval(c.expr, a) : n # 0

IntensionWakes(c) == Range(c.vars) \X {"DomainChange"}

-----------------------------------------------------------------------------
(* Literals: a 0/1 variable and the value it must have.                    *)

RelationOf == [eq |-> "Eq", ne |-> "Ne", lt |-> "Lt", le |-> "Le", gt |-> "Gt", ge |-> "Ge"]

RECURSIVE BooleanLiteral(_, _)
BooleanLiteral(e, d) ==
  LET boolean(v) == d[v] \subseteq {0, 1}
      l == e.args[1]
      r == e.args[2]
      pair == IF l.op = "var" /\ r.op = "const" THEN {<<l.v, r.k>>}
              ELSE IF l.op = "const" /\ r.op = "var" THEN {<<r.v, l.k>>} ELSE {}
      at(k, positive) == IF l.op = "var" /\ r.op = "const" /\ boolean(l.v) /\ r.k = k THEN {<<l.v, positive>>} ELSE {}
  IN  CASE e.op = "var" -> IF boolean(e.v) THEN {<<e.v, TRUE>>} ELSE {}
        [] e.op = "not" -> {<<q[1], ~q[2]>> : q \in BooleanLiteral(l, d)}
        [] e.op \in {"eq", "ne"} -> {<<p[1], (p[2] = 1) = (e.op = "eq")>> : p \in {p \in pair : boolean(p[1]) /\ p[2] \in {0, 1}}}
        [] e.op = "ge" -> at(1, TRUE)
        [] e.op = "gt" -> at(0, TRUE)
        [] e.op = "le" -> at(0, FALSE)
        [] e.op = "lt" -> at(1, FALSE)
        [] OTHER -> {}

Flip(q) == <<q[1], ~q[2]>>

\* boolean_formula: a literal, or a disjunction or conjunction of literals.
BooleanFormula(e, d) ==
  LET literals == [i \in DOMAIN e.args |-> BooleanLiteral(e.args[i], d)]
  IN  IF BooleanLiteral(e, d) # {} THEN {<<"or", BooleanLiteral(e, d)>>}
      ELSE IF e.op \in {"or", "and"} /\ \A i \in DOMAIN literals : literals[i] # {}
      THEN {<<e.op, UNION Range(literals)>>} ELSE {}

\* imply_formula and equivalent_formula: sets of clauses, sets of literals.
Implied(q, f) == IF f[1] = "or" THEN {{Flip(q)} \cup f[2]} ELSE {{Flip(q), r} : r \in f[2]}
Converse(q, f) == IF f[1] = "or" THEN {{q, Flip(r)} : r \in f[2]} ELSE {{q} \cup {Flip(r) : r \in f[2]}}
Equivalent(q, f) == Implied(q, f) \cup Converse(q, f)

-----------------------------------------------------------------------------
(* Plans: sequences of rows to post.                                       *)

Weighted(c, of, rel, rhs) ==
  LET xs == SelectSeq(c.vars, LAMBDA v : of[v] # 0)
  IN  [kind |-> "linear", coeffs |-> [i \in DOMAIN xs |-> of[xs[i]]], vars |-> xs, rel |-> rel, rhs |-> rhs]

\* post_clause: nothing for a tautology, else one row over its literals.
ClauseRow(c, clause) ==
  LET sign(v) == IF <<v, TRUE>> \in clause THEN 1 ELSE IF <<v, FALSE>> \in clause THEN -1 ELSE 0
      negative == {v \in Vars : sign(v) = -1}
  IN  IF \E q \in clause : Flip(q) \in clause THEN <<>>
      ELSE <<Weighted(c, [v \in Vars |-> sign(v)], "Ge", 1 - Cardinality(negative))>>

Clauses(c, C) == FlattenSeq([i \in 1 .. Cardinality(C) |-> ClauseRow(c, SetToSeq(C)[i])])

\* affine_predicate: a comparison of affine forms as one row.
AffineRows(c, e) ==
  IF e.op \notin Relations THEN {}
  ELSE {Weighted(c, [v \in Vars |-> f.of[v] - g.of[v]], RelationOf[e.op], g.c - f.c) :
          <<f, g>> \in Affine(e.args[1], Vars) \X Affine(e.args[2], Vars)}

ReifiedRow(q, row, equivalence) ==
  [kind |-> "reified", selector |-> q[1], active |-> IF q[2] THEN 1 ELSE 0, equivalence |-> equivalence,
   coeffs |-> row.coeffs, vars |-> row.vars, rel |-> row.rel, rhs |-> row.rhs]

\* A literal that implies, or is equivalent to, a formula or a comparison.
LiteralImplies(c, e, of, d, equivalence) ==
  LET formula == BooleanFormula(of, d)
  IN  UNION {IF formula # {}
             THEN {Clauses(c, IF equivalence THEN Equivalent(q, f) ELSE Implied(q, f)) : f \in formula}
             ELSE {<<ReifiedRow(q, row, equivalence)>> : row \in AffineRows(c, of)} : q \in BooleanLiteral(e, d)}

\* native_intension: a plan, or none.
RECURSIVE Native(_, _, _)
Native(c, e, d) ==
  LET parts   == [i \in DOMAIN e.args |-> Native(c, e.args[i], d)]
      left    == LiteralImplies(c, e.args[1], e.args[2], d, TRUE)
      right   == LiteralImplies(c, e.args[2], e.args[1], d, TRUE)
      formula == BooleanFormula(e, d)
      plain   == IF formula # {} THEN {Clauses(c, IF f[1] = "or" THEN {f[2]} ELSE {{q} : q \in f[2]}) : f \in formula}
                 ELSE {<<row>> : row \in AffineRows(c, e)}
  IN  CASE e.op = "const" -> {IF e.k = 0 THEN Clauses(c, {{}}) ELSE <<>>}
        [] e.op = "and"   -> IF \E i \in DOMAIN parts : parts[i] = {} THEN {}
                             ELSE {FlattenSeq([i \in DOMAIN parts |-> CHOOSE plan \in parts[i] : TRUE])}
        [] e.op = "imp"   -> LiteralImplies(c, e.args[1], e.args[2], d, FALSE)
        [] e.op \in {"iff", "eq"} -> IF left # {} THEN left ELSE IF right # {} THEN right ELSE plain
        [] OTHER          -> plain

\* intension_interruptible: the propagators of a plan, or the expression itself.
PostedIntension(c, d) ==
  LET plan == Native(c, c.expr, d)
  IN  IF plan = {} THEN <<c>> ELSE LET rows == CHOOSE rows \in plan : TRUE IN [i \in DOMAIN rows |-> PostedRow(rows[i], d)]

-----------------------------------------------------------------------------

Box(d) == [v \in Vars |-> <<Min(d[v]), Max(d[v])>>]

\* Probe every value of every open variable against the bounds of the others.
Probe(c, s) ==
  LET alive(d, v) == {u \in d[v] : Bounds(c.expr, [Box(d) EXCEPT ![v] = <<u, u>>])[2] >= 1}
  IN  ForEach(LAMBDA t, v : IF IsFixed(t.dom, v) THEN t ELSE Confine(t, v, alive(t.dom, v), Scope), s, c.vars)

ExactCheck(c, s) ==
  IF s.ok /\ (\A v \in Range(c.vars) : IsFixed(s.dom, v)) /\ Eval(c.expr, [v \in Range(c.vars) |-> TheValue(s.dom, v)]) \subseteq {0}
  THEN Failed(s) ELSE s

IntensionFilter(c, s) ==
  LET b == Bounds(c.expr, Box(s.dom))
  IN  IF b[2] < 1 THEN Failed(s) ELSE IF b[1] >= 1 THEN s ELSE ExactCheck(c, Probe(c, s))
=============================================================================
