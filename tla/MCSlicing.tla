----------------------------- MODULE MCSlicing -----------------------------
(* Models of up to MaxTransitions transitions out of a pool that has every     *)
(* kind of dependency the slicing follows, and one request with every kind of  *)
(* property, in two orders.                                                   *)
EXTENDS Slicing
CONSTANT MaxTransitions

MCVars == {"x", "y", "w", "page", "local", "pending"}
MCDom == [v \in MCVars |-> IF v = "w" THEN {0, 1} ELSE {0, 1, 2}]

Atom(op, v, n) == [op |-> op, var |-> v, val |-> n]
Eq(v, n) == Atom("eq", v, n)
Lit(n) == [kind |-> "lit", val |-> n, var |-> "none"]
Read(v) == [kind |-> "read", val |-> 0, var |-> v]
Pre(v) == [kind |-> "pre", val |-> 0, var |-> v]
Do(op, v, src, cond) == [op |-> op, var |-> v, src |-> src, cond |-> cond]
Set(v, src) == Do("assign", v, src, {})
Havoc(v) == Do("havoc", v, Lit(0), {})
Enqueue == Do("enqueue", "pending", Lit(0), {})
Dequeue == Do("dequeue", "pending", Lit(0), {})
MCMount == [v \in {"local"} |-> Eq("page", 0)]

Pool == <<
  <<{Eq("y", 1)}, <<Set("x", Lit(1))>>>>,
  <<{}, <<Set("y", Lit(1)), Set("w", Lit(1))>>>>,
  <<{Eq("x", 1)}, <<Set("x", Lit(2))>>>>,
  <<{}, <<Set("y", Read("w"))>>>>,
  <<{}, <<Havoc("w")>>>>,
  <<{}, <<Do("assign", "x", Lit(1), {Eq("w", 1)})>>>>,
  <<{Eq("page", 0)}, <<Set("page", Lit(1))>>>>,
  <<{}, <<Set("local", Lit(1)), Set("x", Lit(1))>>>>,
  <<{Eq("page", 0), Eq("local", 1)}, <<Set("y", Lit(1))>>>>,
  <<{}, <<Enqueue, Set("y", Lit(1))>>>>,
  <<{Eq("pending", 0)}, <<Enqueue>>>>,
  <<{Eq("pending", 1)}, <<Dequeue, Set("x", Lit(1))>>>>,
  <<{}, <<Set("w", Lit(1)), Set("x", Pre("y"))>>>>,
  <<{Atom("gte", "y", 1)}, <<Set("x", Lit(2)), Set("y", Read("x"))>>>>,
  <<{Eq("page", 0)}, <<Set("local", Lit(1))>>>>,
  <<{Atom("neq", "w", 0)}, <<Set("y", Lit(2))>>>> >>

Transition(i) == [id |-> i, guard |-> Pool[i][1], effect |-> Pool[i][2]]
Chosen == {S \in SUBSET (DOMAIN Pool) : Cardinality(S) \in 1..MaxTransitions}
InOrder(S) ==
    LET first(n) == CHOOSE i \in S : Cardinality({j \in S : j < i}) = n - 1
    IN  [n \in 1..Cardinality(S) |-> Transition(first(n))]

Property(name, kind, pre, atoms, observed, target, changing, negate) ==
    [name |-> name, kind |-> kind, pre |-> pre, atoms |-> atoms, observed |-> observed,
     target |-> target, changed |-> changing, negate |-> negate, budget |-> 2]
Never(name, atoms, observed) == Property(name, "AG", {}, atoms, observed, NoTarget, {}, TRUE)
Possible(name, atoms) == Property(name, "EF", {}, atoms, {}, NoTarget, {}, TRUE)
NoStep(name, pre, target, changing, post) ==
    Property(name, "step", pre, post, {}, target, changing, TRUE)

LeadsTo(name, target, changing, goal) ==
    Property(name, "leads", {}, goal, {}, target, changing, FALSE)

Properties == <<
  Never("never x1", {Eq("x", 1)}, {}),
  Never("never x2 and y1", {Eq("x", 2), Eq("y", 1)}, {}),
  Never("never local and pending", {Eq("local", 1), Eq("pending", 1)}, {}),
  Possible("x2 possible", {Eq("x", 2)}),
  Possible("x other than 0 possible", {Atom("neq", "x", 0)}),
  NoStep("1 never ends in x1 and w1", {Eq("w", 1)}, 1, {}, {Eq("x", 1)}),
  NoStep("14 never from x0", {Eq("x", 0)}, 14, {}, {}),
  NoStep("y never changes to 1 while x1", {Eq("x", 1)}, NoTarget, {"y"}, {Eq("y", 1)}),
  NoStep("nothing ever happens", {}, NoTarget, {}, {}),
  Property("every step is 2", "step", {}, {}, {}, 2, {}, FALSE),
  Never("never x1 while 1 can run", {Eq("x", 1)}, {1}),
  LeadsTo("y changed, then x1 within two steps", NoTarget, {"y"}, {Eq("x", 1)}),
  LeadsTo("2, then y1 within two steps", 2, {}, {Eq("y", 1)}),
  LeadsTo("2, then y0 within two steps", 2, {}, {Eq("y", 0)}) >>
Backwards == [k \in DOMAIN Properties |-> Properties[Len(Properties) + 1 - k]]

MCRequests == {<<InOrder(S), ps>> : S \in Chosen, ps \in {Properties, Backwards}}
=============================================================================
