------------------------------ MODULE MCLearning ------------------------------
(* Small instances of Learning for TLC: networks of four variables, and      *)
(* searches of every mode over them.                                         *)
EXTENDS Learning

CONSTANTS w, x, y, z

NotEq(a, b, k)  == [kind |-> "not_equal", x |-> a, y |-> b, k |-> k]
LessEq(a, b, k) == [kind |-> "less_or_equal", x |-> a, y |-> b, k |-> k]
Product(a, b, c) == [kind |-> "sign_products", terms |-> << <<a, b, c>> >>]
Row(cs, s, rel, k) == [kind |-> "linear", coeffs |-> cs, vars |-> s, rel |-> rel, rhs |-> k]
When(b, c)      == [kind |-> "selected", sel |-> b, inner |-> c]

Numbers == -1 .. 2
All  == {0, 1, 2}
Ends == {0, 2}
Bit  == {0, 1}
Sign == {-1, 1}

On(ps, W, X, Y, Z) == <<ps, (w :> W) @@ (x :> X) @@ (y :> Y) @@ (z :> Z)>>
From(v, k)    == <<Ge(v, k), TRUE>>
Below(v, k)   == <<Ge(v, k), FALSE>>
Is(v, k)      == <<Equals(v, k), TRUE>>
Foreign(ls)   == [lits |-> ls, lbd |-> 4]

\* Weak constraints, so that there is something to learn.
Sums == On(<< Row(<<1, 1, 1>>, <<x, y, z>>, "Eq", 3), NotEq(x, y, 0), NotEq(y, z, 0) >>, {0}, All, All, Ends)
Colours == On(<< NotEq(x, y, 0), NotEq(y, z, 0), NotEq(x, z, 0), NotEq(w, x, 0) >>, Bit, All, Ends, All)
Pigeons == On(<< NotEq(x, y, 0), NotEq(y, z, 0), NotEq(x, z, 0), LessEq(x, z, 0) >>, {0}, Bit, Bit, Bit)
Signs == On(<< Product(x, y, z), NotEq(y, z, 2), NotEq(x, w, 1) >>, Bit, Sign, Sign, Sign)
Switched == On(<< When(w, Row(<<1, 1>>, <<x, y>>, "Ne", 2)), Row(<<1, 1, 1>>, <<x, y, z>>, "Ne", 3), NotEq(w, z, 0) >>, Bit, Bit, Bit, Bit)
Clausal == On(<< Row(<<1, 1, 1>>, <<w, x, y>>, "Ne", 0), Row(<<1, 1, 1>>, <<w, x, y>>, "Ne", 3),
                 Row(<<1, 1, -1>>, <<x, y, z>>, "Ne", 0), Row(<<1, -1, 1>>, <<w, x, z>>, "Ne", 1) >>, Bit, Bit, Bit, Bit)
Sparse == On(<< Row(<<1, 1, 1, 1>>, <<w, x, y, z>>, "Ne", 1), Row(<<1, 1, 1, -1>>, <<w, x, y, z>>, "Ne", 0),
                Row(<<1, -1, 1, 1>>, <<w, x, y, z>>, "Ne", 2) >>, Bit, Bit, Bit, Bit)
Chained == On(<< When(z, Row(<<1, 1>>, <<x, y>>, "Eq", 3)), LessEq(z, w, 0) >>, Bit, All, Ends, Bit)

\* Either value of w leaves y one value, which only probing sees.
Shared == On(<< Row(<<1, 1>>, <<w, y>>, "Ne", 0), Row(<<1, -1>>, <<w, y>>, "Ne", 1), Row(<<1, 1, 1>>, <<x, y, z>>, "Ne", 3) >>,
             Bit, Bit, Bit, Bit)

\* What other workers have learnt about Sparse and about Clausal.
Learnt == {Foreign(<<From(w, 1), From(x, 1), From(y, 1)>>)}
Borrowed == {Foreign(<<From(w, 1), From(x, 1), From(y, 1)>>), Foreign(<<Below(w, 1), Below(x, 1), Below(y, 1)>>)}

Plain(n) == [on |-> n, mode |-> "sat", sparse |-> {}, cube |-> <<>>, objective |-> x, minimizing |-> TRUE,
             target |-> 0, budget |-> NoBudget, foreign |-> {}, peers |-> FALSE, may_stop |-> FALSE]

\* Root probing, stopped at any moment; in a cube, with clauses to import;
\* without a solution.
Deciding ==
  { [Plain(Sums) EXCEPT !.may_stop = TRUE], Plain(Shared),
    [Plain(Colours) EXCEPT !.mode = "assuming", !.cube = <<From(x, 1)>>, !.sparse = {y}],
    [Plain(Clausal) EXCEPT !.mode = "assuming", !.cube = <<From(z, 1)>>, !.foreign = Borrowed],
    [Plain(Pigeons) EXCEPT !.mode = "assuming"], [Plain(Pigeons) EXCEPT !.mode = "assuming", !.budget = 1],
    [Plain(Chained) EXCEPT !.mode = "assuming"] }

\* In a cube with a budget; beside workers that share their bounds; at one bound.
Optimizing ==
  { [Plain(Sums) EXCEPT !.mode = "optimize", !.cube = <<Below(y, 2)>>, !.budget = 2, !.minimizing = FALSE],
    [Plain(Clausal) EXCEPT !.mode = "optimize", !.peers = TRUE],
    [Plain(Sparse) EXCEPT !.mode = "optimize", !.cube = <<Below(w, 1)>>, !.foreign = Learnt,
                           !.objective = z, !.minimizing = FALSE],
    [Plain(Colours) EXCEPT !.mode = "bounded", !.target = 1, !.minimizing = FALSE] }

\* Under assumptions that fail, one by one or only together, or that hold.
Assumed ==
  { [Plain(Signs) EXCEPT !.mode = "core", !.cube = <<From(y, 1), From(x, 1)>>],
    [Plain(Switched) EXCEPT !.mode = "core", !.cube = <<Is(x, 1), Is(w, 1), Is(y, 1)>>],
    [Plain(Sparse) EXCEPT !.mode = "core", !.cube = <<Below(w, 1), Below(x, 1)>>] }

SomeTasks  == Deciding \cup Optimizing \cup Assumed
NoNetworks == {}
=============================================================================
