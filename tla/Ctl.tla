-------------------------------- MODULE Ctl --------------------------------
(***************************************************************************)
(* The temporal engine of the native checker (crates/checker/src/ctl.rs):  *)
(* after the search, every CTL operator of a formula is labelled on the    *)
(* recorded graph by worklists and strongly connected components, and the  *)
(* verdict is read off the initial states.                                 *)
(*                                                                         *)
(* A job is a whole model and the depth it was explored to, so the graph   *)
(* the engine works on is the recorded part of a larger one. A formula is  *)
(* a chain of operators, innermost first, over the atoms p and q.          *)
(***************************************************************************)
EXTENDS Scc

CONSTANT Jobs

Ops == {"EX", "AX", "EF", "AG", "EU", "AU", "EG", "AF", "IMP"}

Job == [edges   : SUBSET (Node \X Node),  \* the model
        initial : SUBSET Node,
        depth   : Nat,                    \* maxDepth of the search
        p       : SUBSET Node,            \* argument of the innermost operator
        q       : SUBSET Node,            \* left operand of EU, AU and =>
        fair    : SUBSET SUBSET Node,     \* fairlyOften conditions
        ops     : Seq(Ops)]

ASSUME JobAssumption == Jobs \subseteq Job

VARIABLES
  job,
  pc,
  rest,     \* operators still to label
  arg,      \* label of the argument of the current operator
  sat,      \* label of the current operator
  result, work, within,  \* a worklist: states found, to expand, allowed
  avoid,    \* AU: E[~q U ~p /\ ~q]
  cand, kept, left,      \* eg_fair: q, new_q and the conditions not yet applied
  verdict

list  == <<result, work, within>>
fairs == <<cand, kept, left>>
vars  == <<graph, index, low, stack, calls, sccs, job, pc, rest, arg, sat,
           result, work, within, avoid, cand, kept, left, verdict>>

-----------------------------------------------------------------------------
(* What the search leaves behind for a job.                                *)

Post(E, S) == {e[2] : e \in {e \in E : e[1] \in S}}

\* The states within n steps.
Explored(j, n) ==
  LET W[k \in 0..n] == IF k = 0 THEN j.initial
                       ELSE W[k - 1] \cup Post(j.edges, W[k - 1])
  IN  W[n]

Universe == Explored(job, job.depth)

\* The states at the depth bound, never expanded.
Frontier == IF job.depth = 0 THEN Universe ELSE Universe \ Explored(job, job.depth - 1)

\* mutant: the states left on the frontier are forgotten
AlwaysExhaustive == TRUE

Exhaustive == Frontier = {}

\* GraphIndex::build
Edges == {e \in job.edges : e[1] \in Universe \ Frontier /\ e[2] \in Universe}

Pred(s) == {e[1] : e \in {e \in Edges : e[2] = s}}

\* mutant: the complement is not taken in the explored states
NotInModel(S) == Node \ S

Not(S) == Universe \ S

-----------------------------------------------------------------------------
(* Labelling: label_formula and label_formula_fair.                        *)

Op    == rest[1]
Left  == job.q \cap Universe
Right == arg

Fair == {F \cap Universe : F \in job.fair}

\* The conditions are passed down through EG, AF, EU, AU and implication only:
\* below another operator label_formula_fair falls back on label_formula.
Conditions ==
  IF \E i \in 2..Len(rest) : rest[i] \in {"EX", "AX", "EF", "AG"} THEN {} ELSE Fair

Worklist(seeds, allowed) == result' = seeds /\ work' = seeds /\ within' = allowed

\* EX, AX and implication need no iteration.
LabelAtOnce ==
  /\ pc = "op" /\ Op \in {"EX", "AX", "IMP"}
  /\ sat' = CASE Op = "EX"  -> {s \in Universe : Post(Edges, {s}) \cap arg # {}}
              [] Op = "AX"  -> {s \in Universe : Post(Edges, {s}) \subseteq arg}
              [] Op = "IMP" -> Not(Left) \cup arg
  /\ pc' = "labelled"
  /\ UNCHANGED <<tarjan, job, rest, arg, list, avoid, fairs, verdict>>

\* EF and AG by backward reachability, EU and the first half of AU.
StartWorklist ==
  /\ pc = "op" /\ Op \in {"EF", "AG", "EU", "AU"}
  /\ CASE Op = "EF" -> Worklist(arg, Universe)
       [] Op = "AG" -> Worklist(Not(arg), Universe)
       [] Op = "EU" -> Worklist(Right, Left)
       [] Op = "AU" -> Worklist(Not(Left) \cap Not(Right), Not(Right))
  /\ pc' = "until"
  /\ UNCHANGED <<tarjan, job, rest, arg, sat, avoid, fairs, verdict>>

\* mutant: predecessors are added without looking at the allowed states
PopAny(s) ==
  /\ pc \in {"until", "reach", "back"} /\ s \in work
  /\ LET new == Pred(s) \ result
     IN  result' = result \cup new /\ work' = (work \ {s}) \cup new
  /\ UNCHANGED <<tarjan, job, pc, rest, arg, sat, within, avoid, fairs, verdict>>

\* One iteration of a worklist loop; every loop of ctl.rs has this body.
Pop(s) ==
  /\ pc \in {"until", "reach", "back"} /\ s \in work
  /\ LET new == (Pred(s) \cap within) \ result
     IN  result' = result \cup new /\ work' = (work \ {s}) \cup new
  /\ UNCHANGED <<tarjan, job, pc, rest, arg, sat, within, avoid, fairs, verdict>>

\* EG S: the components of S, or first the fairness conditions (eg_fair).
StartEG(S) ==
  IF Conditions = {} \/ S = {}
  THEN /\ TarjanStart(S, Edges) /\ pc' = "scc"
       /\ UNCHANGED fairs
  ELSE /\ cand' = S /\ kept' = S /\ left' = Conditions /\ pc' = "fair"
       /\ UNCHANGED tarjan

StartCycle ==
  /\ pc = "op" /\ Op \in {"EG", "AF"}
  /\ StartEG(IF Op = "EG" THEN arg ELSE Not(arg))
  /\ UNCHANGED <<job, rest, arg, sat, list, avoid, verdict>>

EndWorklist ==
  /\ pc = "until" /\ work = {}
  /\ IF Op = "AU"
     THEN /\ avoid' = result
          /\ StartEG(Not(Right))
          /\ UNCHANGED sat
     ELSE /\ sat' = IF Op = "AG" THEN Not(result) ELSE result
          /\ pc' = "labelled"
          /\ UNCHANGED <<tarjan, avoid, fairs>>
  /\ UNCHANGED <<job, rest, arg, list, verdict>>

\* mutant: the path to F has to stay in F
ApplyInside(F) ==
  /\ pc = "fair" /\ F \in left
  /\ Worklist(cand \cap F, F)
  /\ left' = left \ {F}
  /\ pc' = "reach"
  /\ UNCHANGED <<tarjan, job, rest, arg, sat, avoid, cand, kept, verdict>>

\* eg_fair: the states of cand that can reach F inside cand.
ApplyCondition(F) ==
  /\ pc = "fair" /\ F \in left
  /\ Worklist(cand \cap F, cand)
  /\ left' = left \ {F}
  /\ pc' = "reach"
  /\ UNCHANGED <<tarjan, job, rest, arg, sat, avoid, cand, kept, verdict>>

KeepReaching ==
  /\ pc = "reach" /\ work = {}
  /\ kept' = kept \cap result
  /\ pc' = "fair"
  /\ UNCHANGED <<tarjan, job, rest, arg, sat, list, avoid, cand, left, verdict>>

\* A round in which every condition has been applied changed something, or not.
EndRound ==
  /\ pc = "fair" /\ left = {}
  /\ IF kept = cand
     THEN TarjanStart(cand, Edges) /\ pc' = "scc" /\ UNCHANGED fairs
     ELSE cand' = kept /\ left' = Conditions /\ UNCHANGED <<tarjan, kept, pc>>
  /\ UNCHANGED <<job, rest, arg, sat, list, avoid, verdict>>

FindComponents ==
  /\ pc = "scc" /\ TarjanStep
  /\ UNCHANGED <<job, pc, rest, arg, sat, list, avoid, fairs, verdict>>

\* eg_label: backward from the non-trivial components, inside the node set.
StartBack ==
  /\ pc = "scc" /\ TarjanDone
  /\ Worklist(UNION NonTrivial, graph.node)
  /\ pc' = "back"
  /\ UNCHANGED <<tarjan, job, rest, arg, sat, avoid, fairs, verdict>>

EndBack ==
  /\ pc = "back" /\ work = {}
  /\ sat' = CASE Op = "EG" -> result
              [] Op = "AF" -> Not(result)
              [] Op = "AU" -> Not(avoid \cup result)
  /\ pc' = "labelled"
  /\ UNCHANGED <<tarjan, job, rest, arg, list, avoid, fairs, verdict>>

\* The label is the argument of the next operator.
NextOperator ==
  /\ pc = "labelled" /\ Len(rest) > 1
  /\ rest' = Tail(rest) /\ arg' = sat
  /\ pc' = "op"
  /\ UNCHANGED <<tarjan, job, sat, list, avoid, fairs, verdict>>

-----------------------------------------------------------------------------
(* check_temporal and make_violation_verdict.                              *)

\* find_nearest_in_set: the target states at the least distance from s.
Nearest(s, target) ==
  LET D[n \in 0..Cardinality(Universe)] ==
        IF n = 0 THEN {s} ELSE D[n - 1] \cup Post(Edges, D[n - 1])
      hits == {n \in DOMAIN D : D[n] \cap target # {}}
  IN  UNION {D[n] \cap target : n \in {n \in hits : \A m \in hits : n <= m}}

\* The trace of a violation leads to its end state; {} if there is no trace.
Pass ==
  /\ pc = "labelled" /\ Len(rest) = 1 /\ job.initial \subseteq sat
  /\ verdict' = [status |-> IF Exhaustive THEN "verified" ELSE "verified-within-bounds",
                 end |-> {}]
  /\ pc' = "done"
  /\ UNCHANGED <<tarjan, job, rest, arg, sat, list, avoid, fairs>>

Violation(s) ==
  /\ pc = "labelled" /\ Len(rest) = 1 /\ s \in job.initial \ sat
  /\ \E e \in IF Op = "AG" THEN Nearest(s, Not(sat)) ELSE {s} :
       verdict' = IF Op \in {"EF", "EX", "EG", "EU"}
                  THEN [status |-> "vacuous-warning", end |-> {}]
                  ELSE [status |-> "violated", end |-> {e}]
  /\ pc' = "done"
  /\ UNCHANGED <<tarjan, job, rest, arg, sat, list, avoid, fairs>>

Finished == pc = "done" /\ UNCHANGED vars

-----------------------------------------------------------------------------
Init ==
  /\ job \in Jobs
  /\ pc = "op" /\ rest = job.ops
  /\ arg = job.p \cap Universe /\ sat = {}
  /\ result = {} /\ work = {} /\ within = {} /\ avoid = {}
  /\ cand = {} /\ kept = {} /\ left = {}
  /\ verdict = [status |-> "none", end |-> {}]
  /\ TarjanInit

Next ==
  \/ LabelAtOnce \/ StartWorklist \/ EndWorklist
  \/ \E s \in Node : Pop(s)
  \/ StartCycle \/ FindComponents \/ StartBack \/ EndBack
  \/ \E F \in left : ApplyCondition(F)
  \/ KeepReaching \/ EndRound
  \/ NextOperator
  \/ Pass \/ \E s \in Node : Violation(s)
  \/ Finished

Spec == Init /\ [][Next]_vars

-----------------------------------------------------------------------------
(* The semantics of the operators on a graph N with edges E, by fixpoints. *)
(* A state without successors satisfies AX and every A-until vacuously, as *)
(* the engine has it.                                                      *)

\* E[a U b]: the least set with b and the a-states that have a successor in it.
ExistsUntil(N, E, a, b) ==
  {s \in N : \A C \in SUBSET N :
     b \subseteq C /\ (\A e \in E : e[1] \in a /\ e[2] \in C => e[1] \in C) => s \in C}

\* A[a U b]: the least set with b and the a-states all of whose successors are in it.
AllUntil(N, E, a, b) ==
  {s \in N : \A C \in SUBSET N :
     b \subseteq C /\ (\A t \in a : Post(E, {t}) \subseteq C => t \in C) => s \in C}

\* EG a: the largest subset of a in which every state has a successor.
ExistsAlways(E, a) ==
  UNION {Z \in SUBSET a : \A z \in Z : Post(E, {z}) \cap Z # {}}

\* EG a on fair paths: an a-path into a set of a-states, each with a path to each
\* inside the set, that meets every condition.
FairLoops(E, a, fair) ==
  {Z \in SUBSET a :
     /\ Z # {} /\ \A F \in fair : Z \cap F # {}
     /\ \A y, z \in Z : Post(E, {y}) \cap ExistsUntil(Z, E, Z, {z}) # {}}

FairAlways(N, E, a, fair) == ExistsUntil(N, E, a, UNION FairLoops(E, a, fair))

Meaning(op, N, E, a, b) ==
  CASE op = "EX" -> {s \in N : Post(E, {s}) \cap b # {}}
    [] op = "AX" -> {s \in N : Post(E, {s}) \subseteq b}
    [] op = "EF" -> ExistsUntil(N, E, N, b)
    [] op = "EU" -> ExistsUntil(N, E, a, b)
    [] op = "AG" -> N \ ExistsUntil(N, E, N, N \ b)
    [] op = "AU" -> AllUntil(N, E, a, b)
    [] op = "AF" -> AllUntil(N, E, N, b)
    [] op = "EG" -> ExistsAlways(E, b)
    [] op = "IMP" -> (N \ a) \cup b

-----------------------------------------------------------------------------
(* Properties.                                                             *)

TypeOK ==
  /\ job \in Job
  /\ pc \in {"op", "until", "fair", "reach", "scc", "back", "labelled", "done"}
  /\ rest \in Seq(Ops)
  /\ arg \subseteq Universe /\ sat \subseteq Universe
  /\ result \subseteq Universe /\ work \subseteq result /\ within \subseteq Universe
  /\ avoid \subseteq Universe /\ cand \subseteq Universe /\ kept \subseteq Universe
  /\ left \subseteq Fair
  /\ TarjanTypeOK /\ graph.node \subseteq Universe
  /\ verdict \in [status : {"none", "verified", "verified-within-bounds", "violated",
                            "vacuous-warning"},
                  end : SUBSET (job.initial \cup Universe)]

\* The worklists label EX, AX, EF, AG and EU exactly: with the least fixpoint of
\* the operator over the explored graph, whatever the order of the worklist.
ReachLabelIsExact ==
  pc = "labelled" /\ Op \in {"EX", "AX", "EF", "AG", "EU"}
    => sat = Meaning(Op, Universe, Edges, Left, Right)

\* Where no fairness applies EG, AF and AU, which go through the components, are labelled
\* exactly: EG with the greatest fixpoint, AF and AU with the least one.
CycleLabelIsExact ==
  pc = "labelled" /\ Op \in {"EG", "AF", "AU"} /\ Conditions = {}
    => sat = Meaning(Op, Universe, Edges, Left, Right)

\* Under fairness no fair path is lost: a state with a fair path that keeps the
\* argument of EG is labelled EG, and one with a fair path that avoids the goal
\* of AF is not labelled AF.
FairPathsAreKept ==
  pc = "labelled" =>
    /\ Op = "EG" => FairAlways(Universe, Edges, arg, Fair) \subseteq sat
    /\ Op = "AF" => FairAlways(Universe, Edges, Not(arg), Fair) \cap sat = {}

\* The states of the whole model that satisfy the n inner operators of the formula.
Truth ==
  LET T[n \in 0..Len(job.ops)] ==
        IF n = 0 THEN job.p
        ELSE Meaning(job.ops[n], Node, job.edges, job.q, T[n - 1])
  IN  T

\* What a verdict about one operator claims of the model holds in the whole model
\* and not only in the part within the depth bound: a violation of AX, AG, AF or
\* AU and a verified EX, EF, EG or EU always. If the search was exhaustive, every
\* verdict is the truth, for nested operators too.
VerdictIsReal ==
  LET holds == job.initial \subseteq Truth[Len(job.ops)]
      passed == verdict.status \in {"verified", "verified-within-bounds"}
  IN  pc = "done" /\ job.fair = {} =>
        /\ job.ops \in {<<"AX">>, <<"AG">>, <<"AF">>, <<"AU">>} /\ ~passed => ~holds
        /\ job.ops \in {<<"EX">>, <<"EF">>, <<"EG">>, <<"EU">>} /\ passed => holds
        /\ Exhaustive => (passed <=> holds)

\* The comment in make_violation_verdict: a violation of AG f is shown by a state
\* in not f, so the trace ends in a state that violates f.
AGTraceReachesViolation ==
  pc = "done" /\ Op = "AG" /\ verdict.status = "violated" => verdict.end \cap arg = {}

\* The comment of eg_fair: a state satisfies EG_fair(f) iff there is a path from
\* it that stays in f and visits every fairness condition infinitely often.
FairLabelIsExact ==
  pc = "labelled" /\ Op = "EG" /\ Conditions # {} => sat = FairAlways(Universe, Edges, arg, Fair)

\* The comments of label_formula_fair: the fairness constraints are threaded
\* through EG, below every other operator too, so that a state labelled EG f can
\* reach every condition through f.
FairnessIsThreaded ==
  pc = "labelled" /\ Op = "EG" =>
    \A F \in Fair : sat \subseteq ExistsUntil(Universe, Edges, arg, arg \cap F)
=============================================================================
