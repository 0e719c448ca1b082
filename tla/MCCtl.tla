------------------------------- MODULE MCCtl -------------------------------
(***************************************************************************)
(* Ctl on every graph over three states that one initial state reaches:    *)
(* every formula with one operator and every argument on the whole graph,  *)
(* some of them cut off at a depth bound or under fairness, and the        *)
(* formula AG(q => EF p) of reachableFrom and AG EG p.                     *)
(***************************************************************************)
EXTENDS Ctl, TLC

CONSTANTS a, b, c

MCNode == {a, b, c}

Unlimited == 3    \* a depth no state of three is at

\* The graphs in which everything is reachable from the states in I.
Graphs(I) ==
  {E \in SUBSET (MCNode \X MCNode) :
     \A C \in SUBSET MCNode : I \subseteq C /\ Post(E, C) \subseteq C => C = MCNode}

JobsOf(ops, P, Q, F, depths) ==
  UNION {[edges : Graphs({i}), initial : {{i}}, depth : depths, p : P, q : Q,
          fair : F, ops : ops] : i \in MCNode}

Atoms == SUBSET MCNode

OneOp == {<<"EX">>, <<"AX">>, <<"EF">>, <<"AG">>, <<"EG">>, <<"AF">>}
Until == {<<"EU">>, <<"AU">>}

MCJobs ==
  JobsOf(OneOp, Atoms, {{}}, {{}}, {1, Unlimited})
  \cup {j \in JobsOf(Until, Atoms, Atoms, {{}}, {Unlimited}) : j.p \cap j.q = {} /\ j.p # {} /\ j.q # {}}
  \cup JobsOf({<<"EF", "IMP", "AG">>}, Atoms, {{i} : i \in MCNode}, {{}}, {Unlimited})
  \cup JobsOf({<<"EG">>, <<"AF">>, <<"EG", "AG">>}, {MCNode, {}}, {{}}, {{{i}} : i \in MCNode}, {Unlimited})

Renaming == Permutations(MCNode)
=============================================================================
