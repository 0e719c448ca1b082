----------------------------- MODULE MCFinalize -----------------------------
(***************************************************************************)
(* Finalize for the jobs of MCCtl, which ask for nothing more, and for     *)
(* every graph from a fourth state d over a, b, c and back to d, with a    *)
(* leadsToWithin property that is triggered by the edges out of d.         *)
(***************************************************************************)
EXTENDS MCCtl, Finalize

CONSTANT d

MCState == MCNode \cup {d}

\* Jobs that leave the temporal engine at once.  Two edges lead out of d, which are
\* all the search has recorded; a cycle has at least two states.
Ways == {e \in MCNode \X MCState : e[1] # e[2]}

AskedJobs ==
  [edges : {E \cup ({d} \X (MCNode \ {i})) : E \in SUBSET Ways, i \in MCNode},
   initial : {{d}}, depth : {1}, p : {{}}, q : {{}}, fair : {{}}, ops : {<<"AX">>}]

MCFinalJobs == MCJobs \cup AskedJobs

\* The goal is d and every edge triggers the property; or besides every step out of
\* a state is the user's, or evaluating the goal fails in a state; or nothing
\* triggers the property.
MCProperties(j) ==
  IF j.initial # {d} THEN {} ELSE
  LET P(users, allow, goals, broken, budgets, triggers) ==
        [user : users, allowUser : allow, trigger : triggers, goal : goals,
         broken : broken, budget : budgets]
      all == {j.edges}
  IN  P({{}}, {FALSE}, {{d}}, {{}}, 0..3, all)
      \cup P({{i} \X MCState : i \in MCNode}, BOOLEAN, {{d}}, {{}}, {2}, all)
      \cup P({{}}, {FALSE}, {{d}}, {{i} : i \in MCNode}, {2}, all)
      \cup P({{}}, {FALSE}, {{d}}, {{}}, {1}, {{}})
=============================================================================
