----------------------------- MODULE Expressions -----------------------------
(***************************************************************************)
(* The expression trees of src/expr.rs: exact value, sound interval and    *)
(* affine form.  A tree is a record of an operator and its operands.  A    *)
(* result that may be missing is a set of at most one value.  The numbers  *)
(* are far from the limits of i64, where the code clamps.                  *)
(***************************************************************************)
EXTENDS Integers, Sequences, FiniteSets, SequencesExt, FiniteSetsExt

Const(k)  == [op |-> "const", k |-> k]
Var(v)    == [op |-> "var", v |-> v]
Op1(o, a) == [op |-> o, args |-> <<a>>]
Op2(o, a, b) == [op |-> o, args |-> <<a, b>>]
OpN(o, as) == [op |-> o, args |-> as]

Relations == {"eq", "ne", "lt", "le", "gt", "ge"}

AsNumber(holds) == IF holds THEN 1 ELSE 0
Magnitude(n) == IF n < 0 THEN -n ELSE n

\* Division truncates toward zero.
Quotient(a, b) ==
  LET q == Magnitude(a) \div Magnitude(b) IN IF (a < 0) = (b < 0) THEN q ELSE -q
Remainder(a, b) == a - b * Quotient(a, b)

Compares(op, a, b) ==
  CASE op = "eq" -> a = b [] op = "ne" -> a # b [] op = "lt" -> a < b
    [] op = "le" -> a <= b [] op = "gt" -> a > b [] op = "ge" -> a >= b

-----------------------------------------------------------------------------

\* The operators whose operands are all needed: xs are their values.
Apply(op, xs) ==
  CASE op = "neg" -> -xs[1]
    [] op = "abs" -> Magnitude(xs[1])
    [] op = "add" -> FoldLeft(LAMBDA m, n : m + n, 0, xs)
    [] op = "sub" -> xs[1] - xs[2]
    [] op = "mul" -> FoldLeft(LAMBDA m, n : m * n, 1, xs)
    [] op = "div" -> Quotient(xs[1], xs[2])
    [] op = "mod" -> Remainder(xs[1], xs[2])
    [] op = "min" -> Min(Range(xs))
    [] op = "max" -> Max(Range(xs))
    [] op \in Relations -> AsNumber(Compares(op, xs[1], xs[2]))
    [] op = "not" -> AsNumber(xs[1] = 0)
    [] op = "and" -> AsNumber(\A i \in DOMAIN xs : xs[i] # 0)
    [] op = "or"  -> AsNumber(\E i \in DOMAIN xs : xs[i] # 0)
    [] op = "iff" -> AsNumber((xs[1] # 0) = (xs[2] # 0))

\* eval: undefined when a divisor is zero, or an operand it looks at is undefined.
RECURSIVE Eval(_, _)
Eval(e, a) ==
  CASE e.op = "const" -> {e.k}
    [] e.op = "var"   -> {a[e.v]}
    [] e.op = "imp"   -> UNION {IF p = 0 THEN {1} ELSE {AsNumber(q # 0) : q \in Eval(e.args[2], a)} : p \in Eval(e.args[1], a)}
    [] e.op = "ite"   -> UNION {Eval(e.args[IF p # 0 THEN 2 ELSE 3], a) : p \in Eval(e.args[1], a)}
    [] OTHER ->
         LET xs == [i \in DOMAIN e.args |-> Eval(e.args[i], a)]
         IN  IF \E i \in DOMAIN xs : xs[i] = {} THEN {}
             ELSE IF e.op \in {"div", "mod"} /\ xs[2] = {0} THEN {}
             ELSE {Apply(e.op, [i \in DOMAIN xs |-> CHOOSE n \in xs[i] : TRUE])}

-----------------------------------------------------------------------------

No    == <<0, 0>>
Yes   == <<1, 1>>
Maybe == <<0, 1>>

Hull(S) == <<Min(S), Max(S)>>

Verdict(always, never) == IF always THEN Yes ELSE IF never THEN No ELSE Maybe

\* cmp_bounds, and the arms of Eq and Ne: b and c are the intervals of the sides.
CompareBounds(op, b, c) ==
  LET apart == b[2] < c[1] \/ c[2] < b[1]
      same  == b[1] = b[2] /\ c[1] = c[2] /\ b[1] = c[1]
  IN  CASE op = "eq" -> Verdict(same, apart)
        [] op = "ne" -> Verdict(apart, same)
        [] op = "lt" -> Verdict(b[2] < c[1], b[1] >= c[2])
        [] op = "le" -> Verdict(b[2] <= c[1], b[1] > c[2])
        [] op = "gt" -> Verdict(c[2] < b[1], c[1] >= b[2])
        [] op = "ge" -> Verdict(c[2] <= b[1], c[1] > b[2])

ProductBounds(b, c) == Hull({b[1] * c[1], b[1] * c[2], b[2] * c[1], b[2] * c[2]})

\* The interval of an operator from those of its operands.
ApplyBounds(op, bs) ==
  LET b == bs[1]
      c == bs[2]
      all(v)  == \A i \in DOMAIN bs : bs[i] = v
      some(v) == \E i \in DOMAIN bs : bs[i] = v
  IN  CASE op = "neg" -> <<-b[2], -b[1]>>
        [] op = "abs" -> IF b[1] >= 0 THEN b ELSE IF b[2] <= 0 THEN <<-b[2], -b[1]>> ELSE <<0, Max({-b[1], b[2]})>>
        [] op = "add" -> FoldLeft(LAMBDA m, n : <<m[1] + n[1], m[2] + n[2]>>, <<0, 0>>, bs)
        [] op = "sub" -> <<b[1] - c[2], b[2] - c[1]>>
        [] op = "mul" -> FoldLeft(ProductBounds, <<1, 1>>, bs)
        [] op = "div" -> LET m == Max({Magnitude(b[1]), Magnitude(b[2])})
                         IN  IF c[1] <= 0 /\ c[2] >= 0 THEN <<-m, m>>
                             ELSE Hull({Quotient(b[i], c[j]) : i, j \in 1 .. 2})
        [] op = "mod" -> LET m == Max({Magnitude(c[1]), Magnitude(c[2])})
                         IN  IF m = 0 THEN <<0, 0>> ELSE <<-(m - 1), m - 1>>
        [] op = "min" -> <<Min({bs[i][1] : i \in DOMAIN bs}), Min({bs[i][2] : i \in DOMAIN bs})>>
        [] op = "max" -> <<Max({bs[i][1] : i \in DOMAIN bs}), Max({bs[i][2] : i \in DOMAIN bs})>>
        [] op \in Relations -> CompareBounds(op, b, c)
        [] op = "not" -> Verdict(b = No, b = Yes)
        [] op = "and" -> Verdict(all(Yes), some(No))
        [] op = "or"  -> Verdict(some(Yes), all(No))
        [] op = "imp" -> IF b = No THEN Yes ELSE IF b = Yes THEN c ELSE Maybe
        [] op = "iff" -> IF {b, c} \subseteq {Yes, No} THEN Verdict(b = c, b # c) ELSE Maybe
        [] op = "ite" -> IF b = Yes THEN c ELSE IF b = No THEN bs[3]
                         ELSE <<Min({c[1], bs[3][1]}), Max({c[2], bs[3][2]})>>

\* bounds: box gives the interval of each variable.
RECURSIVE Bounds(_, _)
Bounds(e, box) ==
  CASE e.op = "const" -> <<e.k, e.k>>
    [] e.op = "var"   -> box[e.v]
    [] OTHER          -> ApplyBounds(e.op, [i \in DOMAIN e.args |-> Bounds(e.args[i], box)])

-----------------------------------------------------------------------------

\* affine_form: a constant and a coefficient for each of the variables vs.
Scaled(f, k)   == [c |-> k * f.c, of |-> [v \in DOMAIN f.of |-> k * f.of[v]]]
Plus(f, g)     == [c |-> f.c + g.c, of |-> [v \in DOMAIN f.of |-> f.of[v] + g.of[v]]]
IsConstant(f)  == \A v \in DOMAIN f.of : f.of[v] = 0
Multiplied(f, g) ==
  IF IsConstant(g) THEN {Scaled(f, g.c)} ELSE IF IsConstant(f) THEN {Scaled(g, f.c)} ELSE {}

Combined(Op(_, _), forms, from) ==
  FoldLeft(LAMBDA F, G : UNION {Op(f, g) : <<f, g>> \in F \X G}, {from}, forms)

RECURSIVE Affine(_, _)
Affine(e, vs) ==
  LET number(k) == [c |-> k, of |-> [v \in vs |-> 0]]
      forms == [i \in DOMAIN e.args |-> Affine(e.args[i], vs)]
  IN  CASE e.op = "const" -> {number(e.k)}
        [] e.op = "var"   -> {[c |-> 0, of |-> [v \in vs |-> IF v = e.v THEN 1 ELSE 0]]}
        [] e.op = "neg"   -> {Scaled(f, -1) : f \in forms[1]}
        [] e.op = "sub"   -> {Plus(f, Scaled(g, -1)) : <<f, g>> \in forms[1] \X forms[2]}
        [] e.op = "add"   -> Combined(LAMBDA f, g : {Plus(f, g)}, forms, number(0))
        [] e.op = "mul"   -> Combined(Multiplied, forms, number(1))
        [] OTHER          -> {}
=============================================================================
