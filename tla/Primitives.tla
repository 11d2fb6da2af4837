----------------------------- MODULE Primitives -----------------------------
(***************************************************************************)
(* The propagators of src/constraints/primitives.rs: for each kind of      *)
(* constraint its meaning, the events it subscribes to and its filtering,  *)
(* with the reasons it gives.                                              *)
(***************************************************************************)
EXTENDS Store

PrimitiveKinds == {"not_equal", "sign_products", "less_or_equal", "instantiation", "all_equal",
                   "minimum", "maximum", "element", "element_const", "all_different"}

\* Values taken by a sequence of variables under an assignment.
Tuple(a, xs) == [i \in DOMAIN xs |-> a[xs[i]]]

PrimitiveMeans(c, a) ==
  CASE c.kind = "not_equal"     -> a[c.x] # a[c.y] + c.k
    [] c.kind = "sign_products" -> \A i \in DOMAIN c.terms : LET t == Tuple(a, c.terms[i]) IN t[1] = t[2] * t[3]
    [] c.kind = "less_or_equal" -> a[c.x] + c.k <= a[c.y]
    [] c.kind = "instantiation" -> Tuple(a, c.vars) = c.vals
    [] c.kind = "all_equal"     -> Cardinality(Range(Tuple(a, c.vars))) <= 1
    [] c.kind = "minimum"       -> a[c.y] = Min(Range(Tuple(a, c.vars)))
    [] c.kind = "maximum"       -> a[c.y] = Max(Range(Tuple(a, c.vars)))
    [] c.kind = "element"       -> a[c.idx] + 1 \in DOMAIN c.array /\ a[c.y] = a[c.array[a[c.idx] + 1]]
    [] c.kind = "element_const" -> a[c.idx] + 1 \in DOMAIN c.array /\ a[c.y] = c.array[a[c.idx] + 1]
    [] c.kind = "all_different" -> \A i, j \in DOMAIN c.vars :
                                     i # j /\ a[c.vars[i]] = a[c.vars[j]] => a[c.vars[i]] \in c.except

PrimitiveWakes(c) ==
  CASE c.kind = "not_equal"     -> {c.x, c.y} \X {"Fix"}
    [] c.kind = "sign_products" -> (UNION {Range(c.terms[i]) : i \in DOMAIN c.terms}) \X {"Fix"}
    [] c.kind = "less_or_equal" -> {c.x, c.y} \X {"BoundChange"}
    [] c.kind = "instantiation" -> {}
    [] c.kind \in {"minimum", "maximum"} -> ({c.y} \cup Range(c.vars)) \X {"BoundChange"}
    [] c.kind \in {"all_equal", "all_different"} -> Range(c.vars) \X {"DomainChange"}
    [] c.kind = "element"       -> ({c.idx, c.y} \cup Range(c.array)) \X {"DomainChange"}
    [] c.kind = "element_const" -> {c.idx, c.y} \X {"DomainChange"}

-----------------------------------------------------------------------------

\* y loses the value that x, once fixed, forbids.
ForbidFrom(s, x, y, offset) ==
  IF s.ok /\ IsFixed(s.dom, x)
  THEN RemoveVal(s, y, TheValue(s.dom, x) + offset, Because({Equals(x, TheValue(s.dom, x))})) ELSE s

NotEqual(c, s) == ForbidFrom(ForbidFrom(s, c.x, c.y, -c.k), c.y, c.x, c.k)

\* fix_sign_product: target is the product of a and b, both fixed.
FixSignProduct(s, target, a, b) ==
  LET product == TheValue(s.dom, a) * TheValue(s.dom, b)
      why     == {Equals(a, TheValue(s.dom, a)), Equals(b, TheValue(s.dom, b))}
  IN  IF product \notin s.dom[target] THEN FailBecause(s, why)
      ELSE Fix(s, target, product, Because(why))

SignProduct(s, term) ==
  LET open == {i \in 1 .. 3 : ~IsFixed(s.dom, term[i])}
  IN  CASE open = {1} -> FixSignProduct(s, term[1], term[2], term[3])
        [] open = {2} -> FixSignProduct(s, term[2], term[1], term[3])
        [] open = {3} -> FixSignProduct(s, term[3], term[1], term[2])
        [] open = {} /\ TheValue(s.dom, term[1]) # TheValue(s.dom, term[2]) * TheValue(s.dom, term[3]) ->
             FailBecause(s, {Equals(term[i], TheValue(s.dom, term[i])) : i \in 1 .. 3})
        [] OTHER -> s

SignProducts(c, s) == UntilStable(LAMBDA t : ForEach(SignProduct, t, c.terms), s)

LessOrEqual_StaleMinimum(c, s) ==
  LET s1 == RemoveAbove(s, c.x, Max(s.dom[c.y]) - c.k - 1, Because({Le(c.y, Max(s.dom[c.y]))}))
  IN  RemoveBelow(s1, c.y, Min(s1.dom[c.x]) + c.k, Because({Ge(c.x, Min(s1.dom[c.x]))}))

LessOrEqual(c, s) ==
  LET s1 == RemoveAbove(s, c.x, Max(s.dom[c.y]) - c.k, Because({Le(c.y, Max(s.dom[c.y]))}))
  IN  RemoveBelow(s1, c.y, Min(s1.dom[c.x]) + c.k, Because({Ge(c.x, Min(s1.dom[c.x]))}))

Instantiation(c, s) == ForEach(LAMBDA t, i : Fix(t, c.vars[i], c.vals[i], Scope), s, Indices(c.vars))

AllEqual(c, s) ==
  IF Len(c.vars) < 2 THEN s
  ELSE ConfineEach(s, c.vars, [i \in DOMAIN c.vars |-> {u \in Values : \A v \in Range(c.vars) : u \in s.dom[v]}], Scope)

\* Extremum: one pass, from the bounds read at its start.
Minimum(c, s) ==
  LET lb == Min({Min(s.dom[v]) : v \in Range(c.vars)})
      ub == Min({Max(s.dom[v]) : v \in Range(c.vars)})
      s1 == RemoveAbove(RemoveBelow(s, c.y, lb, Scope), c.y, ub, Scope)
  IN  ForEach(LAMBDA t, x : RemoveBelow(t, x, Min(s1.dom[c.y]), Scope), s1, c.vars)

Maximum(c, s) ==
  LET lb == Max({Min(s.dom[v]) : v \in Range(c.vars)})
      ub == Max({Max(s.dom[v]) : v \in Range(c.vars)})
      s1 == RemoveAbove(RemoveBelow(s, c.y, lb, Scope), c.y, ub, Scope)
  IN  ForEach(LAMBDA t, x : RemoveAbove(t, x, Max(s1.dom[c.y]), Scope), s1, c.vars)

\* equate: first a from b, then b from a.
Equate(s, a, b) ==
  LET s1 == Confine(s, a, s.dom[b], Scope) IN Confine(s1, b, s1.dom[a], Scope)

\* The index keeps the entries that share a value, the value what a live entry offers.
Indexed(c, s, Offers(_, _), Equated(_)) ==
  LET live(t)  == {i \in Values : i + 1 \in DOMAIN c.array /\ Offers(t, i) \cap t.dom[c.y] # {}}
      valid    == RemoveAbove(RemoveBelow(s, c.idx, 0, Scope), c.idx, Len(c.array) - 1, Scope)
      value(t) == IF IsFixed(t.dom, c.idx) THEN Equated(t)
                  ELSE Confine(t, c.y, UNION {Offers(t, i) : i \in t.dom[c.idx]}, Scope)
  IN  Then(Then(valid, LAMBDA t : Confine(t, c.idx, live(t), Scope)), value)

Element(c, s) ==
  Indexed(c, s, LAMBDA t, i : t.dom[c.array[i + 1]],
          LAMBDA t : Equate(t, c.y, c.array[TheValue(t.dom, c.idx) + 1]))

ElementConst(c, s) ==
  Indexed(c, s, LAMBDA t, i : {c.array[i + 1]},
          LAMBDA t : Fix(t, c.y, c.array[TheValue(t.dom, c.idx) + 1], Scope))

-----------------------------------------------------------------------------
(* AllDifferent, by Hall's theorem: the matching and the components of its *)
(* graph find a set of variables with too few values, or for each value    *)
(* the smallest set of variables that uses all of its own values.  Which   *)
(* of several violated sets is found depends on the matching that earlier  *)
(* calls left as a hint; here it is a smallest one.                        *)

\* The values a set of positions may take; an exempt one is private to each.
Reach(c, d, T) == UNION {d[c.vars[i]] \ c.except : i \in T}
Capacity(c, d, T) ==
  Cardinality(Reach(c, d, T)) + Cardinality({i \in T : d[c.vars[i]] \cap c.except # {}})

Violated(c, d) == {T \in SUBSET DOMAIN c.vars : Capacity(c, d, T) < Cardinality(T)}
Hall(c, d)     == {T \in SUBSET DOMAIN c.vars : T # {} /\ Capacity(c, d, T) = Cardinality(T)}
Smallest(sets) == CHOOSE T \in sets : \A U \in sets : Cardinality(T) <= Cardinality(U)

PinnedBy(c, d, T) == UNION {DomainPremises(d, c.vars[i]) : i \in T}

\* The values of position i that a Hall set without i uses up, and that set.
LostBy(c, d, i, u) == {T \in Hall(c, d) : i \notin T /\ u \in Reach(c, d, T)}

AllDifferent(c, s) ==
  LET exempt(v) == s.dom[v] \cap c.except # {}
      everyone  == DOMAIN c.vars
      room      == Cardinality(Reach(c, s.dom, everyone)) + IF c.except = {} THEN 0 ELSE Len(c.vars)
      loss(i)   == {u \in s.dom[c.vars[i]] \ c.except : LostBy(c, s.dom, i, u) # {}}
      why(i, u) == PinnedBy(c, s.dom, Smallest(LostBy(c, s.dom, i, u)))
  IN  IF c.vars = <<>> \/ (c.except # {} /\ \A i \in everyone : exempt(c.vars[i])) THEN s
      ELSE IF room < Len(c.vars) THEN Failed(s)
      ELSE IF Violated(c, s.dom) # {} THEN FailBecause(s, PinnedBy(c, s.dom, Smallest(Violated(c, s.dom))))
      ELSE ForEach(LAMBDA t, i :
                     ForEach(LAMBDA r, u : RemoveVal(r, c.vars[i], u, Because(why(i, u))), t, InOrder(loss(i))),
                   s, Indices(c.vars))

PrimitiveFilter(c, s) ==
  CASE c.kind = "not_equal"     -> NotEqual(c, s)
    [] c.kind = "sign_products" -> SignProducts(c, s)
    [] c.kind = "less_or_equal" -> LessOrEqual(c, s)
    [] c.kind = "instantiation" -> Instantiation(c, s)
    [] c.kind = "all_equal"     -> AllEqual(c, s)
    [] c.kind = "minimum"       -> Minimum(c, s)
    [] c.kind = "maximum"       -> Maximum(c, s)
    [] c.kind = "element"       -> Element(c, s)
    [] c.kind = "element_const" -> ElementConst(c, s)
    [] c.kind = "all_different" -> AllDifferent(c, s)
=============================================================================
