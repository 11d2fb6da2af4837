---------------------------- MODULE MCEnumeration ----------------------------
(* Small instances of Enumeration for TLC: five variables, mostly three open, over 0..2 or a   *)
(* subset of it, and networks that hold every kind of constraint.           *)
EXTENDS Enumeration

CONSTANTS o, w, x, y, z

NotEq(a, b, k)  == [kind |-> "not_equal", x |-> a, y |-> b, k |-> k]
LessEq(a, b, k) == [kind |-> "less_or_equal", x |-> a, y |-> b, k |-> k]
Product(a, b, c) == [kind |-> "sign_products", terms |-> << <<a, b, c>> >>]
Are(s, vals)    == [kind |-> "Instantiation", vars |-> s, values |-> vals]
AllEq(s)        == [kind |-> "AllEqual", vars |-> s]
AllDiff(s, E)   == [kind |-> "AllDifferent", vars |-> s, except |-> E]
Sorted(s, rel)  == [kind |-> "Ordered", vars |-> s, rel |-> rel]
MinOfVars(t, s) == [kind |-> "Minimum", target |-> t, vars |-> s]
MaxOfVars(t, s) == [kind |-> "Maximum", target |-> t, vars |-> s]
At(t, s, i)     == [kind |-> "Element", target |-> t, vars |-> s, index |-> i]
AtConst(t, s, i) == [kind |-> "ElementConst", target |-> t, array |-> s, index |-> i]
Within(s, S)    == [kind |-> "in_set", vars |-> s, set |-> S]
Times(s, u, rel, k) == [kind |-> "Count", vars |-> s, value |-> u, rel |-> rel, count |-> k]
Gcc(s, us, lo, hi, closed) == [kind |-> "Cardinality", vars |-> s, values |-> us, lower |-> lo, upper |-> hi, closed |-> closed]
Distinct(s, rel, k) == [kind |-> "NValues", vars |-> s, rel |-> rel, count |-> k]
Row(cs, s, rel, k) == [kind |-> "Linear", coeffs |-> cs, vars |-> s, rel |-> rel, rhs |-> k]
Heavy(s, ws, ps, k, m) == [kind |-> "Knapsack", vars |-> s, weights |-> ws, profits |-> ps, weight_relation |-> "Le",
                           weight_limit |-> k, profit_relation |-> "Ge", profit_limit |-> m]
InTurn(s, us, covered) == [kind |-> "ValuePrecedence", vars |-> s, values |-> us, covered |-> covered]
AnyOf(ls)       == [kind |-> "Clause", literals |-> ls]
Reif(b, act, eqv, cs, s, rel, k) ==
  [kind |-> "reified", selector |-> b, active |-> act, equivalence |-> eqv,
   coeffs |-> cs, vars |-> s, rel |-> rel, rhs |-> k]
Lexical(s, t, strict) == [kind |-> "Lex", left |-> s, right |-> t, strict |-> strict]
LexRows(rows, strict) == [kind |-> "LexChain", rows |-> rows, strict |-> strict]
Inverse2(s, t)  == [kind |-> "Channel", left |-> s, right |-> t]
Table(s, T, pos) == [kind |-> "Table", vars |-> s, tuples |-> T, positive |-> pos]
Automaton(s, q, arcs, F) == [kind |-> "Regular", vars |-> s, automaton |-> [start |-> q, arcs |-> arcs, accepting |-> F]]
Diagram(s, layers) == [kind |-> "Mdd", vars |-> s, layers |-> layers]
Tour(s, cut)    == [kind |-> "Circuit", vars |-> s, cutset |-> cut]
Past(i, k, v, us) ==
  [kind |-> "Intension", vars |-> <<i, v>>,
   expr |-> Op2("imp", Op2("gt", Var(i), Const(k)), Op1("not", OpN("or", [n \in DOMAIN us |-> Op2("eq", Var(v), Const(us[n]))])))]
Coprime(u, v, k) ==
  [kind |-> "Intension", vars |-> IF u = v THEN <<u>> ELSE <<u, v>>,
   expr |-> OpN("or", <<Op2("ne", Op2("mod", Var(u), Const(k)), Const(0)), Op2("ne", Const(0), Op2("mod", Var(v), Const(k)))>>)]
That(e, s)      == [kind |-> "Intension", expr |-> e, vars |-> s]
Guarded1(b, c)  == [kind |-> "selected", sel |-> b, inner |-> c]
When(b, c)      == [kind |-> "Selected", selector |-> b, inner |-> c]

\* A set has a membership variable for each possible value.
SetOf(set, S)   == [kind |-> "SetVar", set |-> set, required |-> S]
Subset1(s, t)   == [kind |-> "SetSubset", left |-> s, right |-> t]
ApartSets(s, t) == [kind |-> "SetDisjoint", left |-> s, right |-> t]
Sized(s, lo, hi) == [kind |-> "SetCardinality", set |-> s, min |-> lo, max |-> hi]

\* A list holds items 1, 2, ...
Carrier(ms, n)  == [members |-> ms, length |-> n]
Split(ls)       == [kind |-> "partition", lists |-> ls, items |-> <<1, 2>>]
Together(ls)    == [kind |-> "same_list", lists |-> ls, a |-> 1, b |-> 2]
Precedes(ls)    == [kind |-> "item_precedence", lists |-> ls, a |-> 1, b |-> 2]
Counts(l)       == [kind |-> "list_cardinality", list |-> l]
InUse(l, b)     == [kind |-> "list_used", list |-> l, used |-> b]
Holds(l, lo, hi) == [kind |-> "list_length", list |-> l, low |-> lo, high |-> hi]
Weighs(l, ws, lo, hi) == [kind |-> "list_item_sum", list |-> l, weights |-> ws, low |-> lo, high |-> hi]

Machine(s, ds)  == [kind |-> "tasks_apart", starts |-> s, dur |-> ds]
Resource(s, ds, hs, k) == [kind |-> "cumulative", starts |-> s, dur |-> ds, height |-> hs, capacity |-> k]
Flexible(s, ds, hs, k) == [kind |-> "CumulativeVar", starts |-> s, durations |-> ds, demands |-> hs, capacity |-> k]
Packed(s, ns, ks) == [kind |-> "BinPacking", vars |-> s, sizes |-> ns, capacities |-> ks]
Loaded(s, ns, ls) == [kind |-> "BinLoads", items |-> s, sizes |-> ns, loads |-> ls]

Task(t, n)      == [start |-> t, dur |-> n, presence |-> {}]
Option(t, n, b) == [start |-> t, dur |-> n, presence |-> {b}]
First(i, j)     == [kind |-> "interval_precedence", intervals |-> <<i, j>>]
OneByOne(s, ds) == [kind |-> "NoOverlap", vars |-> s, durations |-> ds]
Stacked(s, ds, hs, k) == [kind |-> "Cumulative", vars |-> s, durations |-> ds, demands |-> hs, capacity |-> k]
Apart(s, ds, ps, os) == [kind |-> "OptionalNoOverlap", starts |-> s, durations |-> ds, presences |-> ps, orders |-> os]
Modes(t, s, ds, ps) == [kind |-> "AlternativeChannel", shared |-> t, starts |-> s, durations |-> ds, presences |-> ps]
Shared(is, ds, k) == [kind |-> "interval_cumulative", intervals |-> is, demands |-> ds, capacity |-> k]
DoneBy(is, k)   == [kind |-> "makespan_bound", intervals |-> is, bound |-> k]

Numbers == -1 .. 3
All == {0, 1, 2}
Ends == {0, 2}
Bit == {0, 1}
Sign == {-1, 1}

Of(ps, V, W, X, Y, Z) == <<ps, (o :> V) @@ (w :> W) @@ (x :> X) @@ (y :> Y) @@ (z :> Z)>>
On(ps, X, Y, Z)       == Of(ps, {0}, {0}, X, Y, Z)

\* Bounds, disequalities and their interplay.
Binary == {
  << NotEq(x, y, 0), LessEq(y, z, 0), LessEq(x, z, 1) >>,
  << LessEq(x, y, 1), LessEq(y, z, 0), NotEq(z, x, 1) >>,
  << Are(<<x, y>>, <<1, 2>>), LessEq(y, z, 0) >> }

\* Constraints over all the variables.
Global == {
  << AllEq(<<x, y>>), NotEq(y, z, 0), Gcc(<<x, y, z>>, <<1>>, <<1>>, <<2>>, FALSE) >>,
  << Gcc(<<x, y, z>>, <<2, 0>>, <<0, 0>>, <<1, 1>>, TRUE) >>,
  << Gcc(<<x, y>>, <<2, 0>>, <<0, 0>>, <<1, 2>>, TRUE), InTurn(<<x, y, z>>, <<0, 2>>, FALSE) >>,
  << AllDiff(<<x, y, z>>, {}), Sorted(<<x, y>>, "Lt") >>,
  << AllDiff(<<x, y, z>>, {0}), Sorted(<<z, y, x>>, "Ge") >>,
  << Times(<<x, y, z>>, 1, "Eq", 2), NotEq(x, y, 0) >>,
  << Distinct(<<x, y, z>>, "Le", 1) >>,
  << Distinct(<<x, y, z>>, "Gt", 2), Distinct(<<x, y>>, "Ne", 1) >> }

Counted == {
  << Times(<<x, y, z>>, 1, "Ne", 2), Times(<<x, y, z>>, 0, "Lt", 2) >>,
  << Times(<<x, y, z>>, 2, "Ge", 1), Times(<<x, y, z>>, 0, "Gt", 0) >>,
  << Distinct(<<x, y, z>>, "Eq", 2), LessEq(x, z, 0) >> }

Linears == {
  << Row(<<1, 2, -1>>, <<x, y, z>>, "Eq", 2), NotEq(x, y, 0) >>,
  << Heavy(<<x, y, z>>, <<2, 1, 1>>, <<1, 1, 2>>, 5, 4) >>,
  << Row(<<2, -1, 1>>, <<x, y, z>>, "Ge", 3), Row(<<1, 1, 1>>, <<x, y, z>>, "Ne", 4) >> }

\* z decides whether the others must obey.
Conditional == {
  << Reif(z, 1, TRUE, <<1, -1>>, <<x, y>>, "Le", 0), Row(<<1, 1>>, <<x, y>>, "Gt", 1) >>,
  << Reif(z, 0, FALSE, <<1, 1>>, <<x, y>>, "Eq", 2), NotEq(x, y, 0) >>,
  << Reif(z, 1, TRUE, <<1, 1>>, <<x, y>>, "Ne", 2), AllEq(<<x, y>>) >>,
  << Guarded1(z, LessEq(x, y, 1)), Guarded1(z, NotEq(x, y, -1)), AllEq(<<y, z>>) >>,
  << When(z, Row(<<1, 1>>, <<x, y>>, "Eq", 3)), When(z, AllDiff(<<x, y>>, {})) >>,
  << When(z, Times(<<x, y>>, 1, "Ge", 1)), NotEq(x, z, 0) >> }

Booleans == {
  << Row(<<2, 1, -1>>, <<x, y, z>>, "Le", 1), Row(<<1, 1, 1>>, <<x, y, z>>, "Ge", 1) >>,
  << Row(<<1, -2, 1>>, <<x, y, y>>, "Lt", 0), NotEq(x, z, 0) >>,
  << Reif(x, 1, TRUE, <<1, 1>>, <<y, z>>, "Lt", 2), Row(<<1, 1>>, <<y, z>>, "Ge", 1) >> }

Sequenced == {
  << Lexical(<<x, y>>, <<y, z>>, TRUE), NotEq(x, z, 0) >>,
  << LexRows(<< <<x, y>>, <<z, x>>, <<y, z>> >>, FALSE) >>,
  << Inverse2(<<x, y>>, <<z, w>>) >>,
  << Inverse2(<<x, y, z>>, <<x, y, z>>), NotEq(x, y, 0) >>,
  << At(x, <<y, z>>, w), NotEq(x, y, 0) >>,
  << At(x, <<y, z, y>>, y) >>,
  << AtConst(x, <<1, 0, 1>>, y), At(y, <<x, z>>, x) >> }

\* Tables, automata and implications.
Tabled == {
  << Table(<<x, y, z>>, {<<0, 1, 2>>, <<2, STAR, 0>>, <<2, 1, 1>>, <<0, 0, 0>>}, TRUE), NotEq(y, z, 0) >>,
  << Table(<<x, y>>, {<<0, 0>>, <<2, 1>>, <<2, 2>>}, TRUE), Table(<<y, z>>, {<<0, 2>>, <<1, 0>>, <<1, 1>>}, TRUE) >>,
  << Table(<<x, y, z>>, {<<0, STAR, 1>>, <<0, 2, STAR>>, <<2, 0, 0>>, <<STAR, 1, 2>>}, FALSE), LessEq(x, z, 1) >>,
  << Automaton(<<x, y, z>>, 0, << <<0, 0, 1>>, <<0, 2, 0>>, <<1, 1, 1>>, <<1, 2, 0>>, <<0, 1, 2>>, <<2, 0, 1>> >>, {1}), NotEq(x, z, 0) >>,
  << Diagram(<<x, y, z>>, << {<<0, 0, 0>>, <<0, 2, 1>>}, {<<0, 1, 0>>, <<1, 1, 0>>, <<1, 2, 1>>},
                             {<<0, 0, 0>>, <<0, 2, 1>>, <<1, 1, 1>>} >>), LessEq(z, y, 0) >>,
  << Past(y, 0, x, <<0, 1>>), NotEq(x, z, 0), Past(y, 1, z, <<1, 0>>) >>,
    << Coprime(x, y, 2), Coprime(z, z, 2), LessEq(z, y, 0), Coprime(x, y, 3) >> }

\* Expressions that become clauses or rows, and expressions that do not.
Expressed == {
  << That(Op2("iff", Var(z), Op2("ge", Op2("add", Var(x), Var(y)), Const(2))), <<x, y, z>>), NotEq(x, y, 0) >>,
  << That(Op2("imp", Op1("not", Var(z)), Op2("ne", Var(x), Op2("mul", Const(2), Var(y)))), <<x, y, z>>), LessEq(x, y, 1) >>,
  << That(OpN("and", << OpN("or", <<Var(z), Op2("le", Var(y), Const(0))>>), Op2("lt", Op2("sub", Var(x), Var(y)), Const(1)) >>),
          <<x, y, z>>) >>,
  << That(Op2("eq", Op1("abs", Op2("sub", Var(x), Var(y))), Op2("max", Var(z), Const(1))), <<x, y, z>>), NotEq(y, z, 0) >>,
  << That(OpN("or", <<Op2("eq", Op2("mod", Var(x), Op2("add", Var(z), Const(1))), Const(1)),
                      Op2("gt", Op2("div", Var(y), Const(2)), Var(z))>>), <<x, y, z>>) >>,
  << That([op |-> "ite", args |-> <<Op2("eq", Var(x), Var(y)), Var(z), Op1("neg", Op2("sub", Var(x), Const(2)))>>], <<x, y, z>>) >>,
  << That(Op2("imp", Op2("lt", Var(x), Var(y)), Op2("eq", Op2("min", Var(x), Var(z)), Op2("mul", Var(x), Var(y)))), <<x, y, z>>) >> }

Clausal == {
  << That(Op2("iff", Var(x), OpN("or", <<Var(y), Op1("not", Var(z))>>)), <<x, y, z>>) >>,
  << That(Op2("eq", OpN("and", <<Var(x), Op2("lt", Var(y), Const(1))>>), Op2("ne", Var(z), Const(0))), <<x, y, z>>) >> }

\* Two sets and the bounds of a third; clauses over the members.
Sets ==
  LET two == (1 :> x) @@ (2 :> y)
      other == (1 :> w) @@ (3 :> z)
      bits(ps, W, Y) == Of(ps, Bit, W, Bit, Y, Bit)
  IN  { bits(<< SetOf(two, {1}), SetOf(other, {}), ApartSets(two, other), Sized(other, 1, 2) >>, Bit, Bit),
        bits(<< SetOf(two, {}), SetOf(other, {3}), Subset1(two, other), AnyOf(<< <<x, FALSE>>, <<o, TRUE>> >>) >>, Bit, Bit),
        bits(<< SetOf(two, {}), Sized(two, 1, 1), When(o, AnyOf(<< <<w, TRUE>>, <<y, FALSE>>, <<z, TRUE>> >>)) >>, {0}, Bit),
        On(<< InTurn(<<x, y, z>>, <<0, 2>>, TRUE) >>, All, Ends, All) }

\* Tours of three and of four nodes.
Tours ==
  {On(<< Tour(<<x, y, z>>, cut), LessEq(x, y, 1) >>, All, All, All) : cut \in BOOLEAN}
    \cup {Of(<< Tour(<<w, x, y, z>>, cut), NotEq(w, x, 0) >>, {0}, {1, 2}, {0, 2}, {0, 1, 3}, All) : cut \in BOOLEAN}

\* Two lists of two items; one of three; one whose length decides another variable.
Listed ==
  LET two   == << Carrier(<<w, x>>, o), Carrier(<<y, z>>, o) >>
      three == Carrier(<<w, x, y>>, z)
      short == Carrier(<<w, x>>, y)
      bits(ps)   == Of(ps, {0}, Bit, Bit, Bit, Bit)
      sized(ps, Z) == Of(ps, {0}, Bit, Bit, Bit, Z)
  IN  { bits(<< Split(two), Together(two) >>), bits(<< Split(two), Precedes(two) >>), bits(<< Precedes(two) >>),
        sized(<< Counts(three), Holds(three, 1, 2), Weighs(three, << <<1, 2>>, <<2, -1>>, <<3, 1>> >>, 1, 2) >>, 0 .. 3),
        Of(<< Counts(short), InUse(short, z), Weighs(short, << <<1, 1>>, <<2, -1>> >>, 0, 0) >>, {0}, Bit, Bit, All, Bit) }

\* Tasks on machines and resources, items in bins.
Scheduled == {
  On(<< Machine(<<x, y, z>>, <<2, 1, 1>>), LessEq(x, z, 1) >>, All, All, {0, 3}),
  On(<< Resource(<<x, y, z>>, <<2, 1, 2>>, <<1, 2, 1>>, 2), NotEq(x, y, 0) >>, Ends, All, Ends),
  On(<< Stacked(<<x, y, z>>, <<2, 1, 2>>, <<1, 2, 1>>, 2), NotEq(x, y, 0) >>, Ends, All, Ends),
  Of(<< Flexible(<<x, y>>, <<w, z>>, <<z, o>>, w) >>, {1}, {1, 2}, Bit, Ends, {1, 2}),
  On(<< Packed(<<x, y, z>>, <<2, 1, 1>>, <<2, 2>>), NotEq(y, z, 0) >>, All, All, All),
  Of(<< Loaded(<<x, y>>, <<1, 2>>, <<w, z>>), LessEq(w, z, 2) >>, {0}, {0, 1, 3}, All, Bit, Ends) }

\* Intervals that may be absent, with and without variables for their order.
Timed ==
  LET first  == Option(x, 1, w)
      second == Option(y, 2, z)
  IN  { Of(<< First(first, second) >>, {0}, Bit, Bit, Ends, {1}),
        Of(<< Apart(<<x, y>>, <<1, 2>>, << {w}, {z} >>, << 1, 2 >> :> o) >>, Bit, Bit, Ends, Bit, {1}),
        Of(<< OneByOne(<<x, y, z>>, <<1, 2, 1>>), DoneBy(<<Task(x, 1), Task(z, 1)>>, 4) >>, {0}, {0}, All, Bit, {0, 1, 3}),
        Of(<< Shared(<<first, second, Task(o, 1)>>, <<1, 2, 1>>, 2) >>, {1, 3}, Bit, Ends, Bit, {1}),
        Of(<< Modes(o, <<x, y>>, <<1, 2>>, <<w, z>>) >>, {1, 3}, Bit, Bit, {1, 3}, Bit) }

EveryKind ==
  {On(ps, Ends, All, All) : ps \in Binary \cup Global \cup Linears \cup Tabled}
    \cup {On(ps, Ends, All, Ends) : ps \in Sequenced}
    \cup {On(ps, Ends, All, Bit) : ps \in Counted}
    \cup {On(ps, All, Ends, Bit) : ps \in Conditional \cup Expressed}
    \cup {On(ps, Bit, Bit, Bit) : ps \in Booleans \cup Clausal}
    \cup Sets \cup Tours \cup Listed \cup Scheduled \cup Timed
    \cup {On(<< Product(x, y, z), NotEq(y, z, 2) >>, Sign, Sign, Sign)}

\* Searches that may be stopped at any moment.
Hurried == Binary \cup Conditional \cup Clausal
Unhurried == {}

\* Guarded constraints that subscribe to nothing of their own.
Unwoken == {
  On(<< Guarded1(z, Within(<<x>>, {1})), LessEq(x, y, 1) >>, All, All, Bit),
  On(<< When(z, Are(<<x>>, <<1>>)), LessEq(x, y, 1) >>, All, All, Bit) }

Minimums == { On(<< MinOfVars(x, <<y, z>>) >>, X, Y, Z) : X, Y, Z \in {All, Ends, {1, 2}} }
=============================================================================
