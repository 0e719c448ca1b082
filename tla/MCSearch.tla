------------------------------ MODULE MCSearch ------------------------------
(***************************************************************************)
(* Instances of Search for TLC: five states, two transitions, a diamond    *)
(* whose two sides produce the same state, a cycle back to a seed, a seed  *)
(* that occurs twice, an enabled transition without a post.                *)
(***************************************************************************)
EXTENDS Search

MCState      == 1..5
MCTransition == {1, 2}
MCPools      == {1, 2, 3}

Arrows ==
  [e \in MCState \X MCTransition |->
     CASE e = <<1, 1>> -> <<3>>
       [] e = <<1, 2>> -> <<4, 3>>
       [] e = <<2, 1>> -> <<4>>
       [] e = <<3, 1>> -> <<5>>
       [] e = <<4, 2>> -> <<5, 1>>
       [] e = <<5, 1>> -> <<2>>         \* not enabled in state 5
       [] OTHER -> <<>>]

Graph ==
  [seeds |-> <<1, 2, 2>>,
   enabled |-> [s \in MCState |-> CASE s = 1 -> {1, 2} [] s \in {2, 3} -> {1} [] OTHER -> {2}],
   posts |-> Arrows,
   capped |-> {},
   steps |-> {"s"}, always |-> {"a"},
   stepBad |-> [p \in StepProp |-> {<<4, 2, 1>>, <<5, 1, 2>>}],
   bad |-> [a \in AlwaysProp |-> {5}],
   shard |-> [s \in MCState |-> IF s = 4 THEN 0 ELSE 1],
   maxDepth |-> 4, maxStates |-> {}, maxEdges |-> {}, maxFrontier |-> {},
   memoryGuard |-> FALSE]

\* what is checked: no violation, an early and a late one, step properties
\* alone (the search may end once all of them are decided), nothing
Both == [Graph EXCEPT !.steps = {"s", "u"}, !.always = {}]

Checked ==
  {[Graph EXCEPT !.stepBad["s"] = {<<5, 1, 2>>}, !.bad["a"] = {}],
   [Graph EXCEPT !.stepBad["s"] = {<<2, 1, 4>>, <<3, 1, 5>>}],
   [Both EXCEPT !.stepBad = [p \in StepProp |-> {<<1, 2, 4>>, <<1, 2, 3>>}]],
   [Both EXCEPT !.stepBad = [p \in StepProp |-> IF p = "s" THEN {<<4, 2, 1>>} ELSE {<<1, 1, 3>>}]],
   [Graph EXCEPT !.steps = {}, !.always = {}]}

\* no limits: the graph is explored to its end or to the depth bound
Unlimited ==
  {[r EXCEPT !.maxDepth = d] : r \in Checked, d \in {2, 4}}

\* each limit near the sizes the graph has, alone and together
Limits ==
  {[Graph EXCEPT !.maxStates = {4}], [Graph EXCEPT !.maxStates = {6}],
   [Graph EXCEPT !.maxEdges = {5}],
   [Graph EXCEPT !.maxFrontier = {2}], [Graph EXCEPT !.maxFrontier = {4}],
   [Graph EXCEPT !.maxStates = {6}, !.maxEdges = {5}],
   [Graph EXCEPT !.maxEdges = {8}, !.maxFrontier = {4}],
   [Graph EXCEPT !.memoryGuard = TRUE]}

\* an effect that runs into a cap, with a post and without one
Capped ==
  {[Graph EXCEPT !.capped = {<<4, 2>>, <<5, 1>>, <<5, 2>>}, !.maxDepth = d] : d \in {2, 4}}

MCRequests == Unlimited \cup Limits \cup Capped
=============================================================================
