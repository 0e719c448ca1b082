-------------------------------- MODULE Scc --------------------------------
(***************************************************************************)
(* Tarjan's strongly connected components as the checker computes them     *)
(* (crates/checker/src/scc.rs). The recursion of strongconnect is a stack  *)
(* of calls, each with the successors its loop has still to examine; the   *)
(* roots come from a hash set and the successors in the order of the       *)
(* recorded edges, so both are taken in any order.                         *)
(***************************************************************************)
EXTENDS Naturals, FiniteSets, Sequences

CONSTANT Node

VARIABLES
  graph,       \* [node, edge]: the roots and the successor relation
  index, low,  \* indices and lowlinks, functions on the nodes visited so far
  stack,       \* the nodes that are on_stack, in visit order
  calls,       \* active calls: <<node, successors still to examine>>
  sccs         \* the components found, in the order they are pushed

tarjan == <<graph, index, low, stack, calls, sccs>>

TarjanInit ==
  /\ graph = [node |-> {}, edge |-> {}]
  /\ index = [v \in {} |-> 0] /\ low = [v \in {} |-> 0]
  /\ stack = <<>> /\ calls = <<>> /\ sccs = <<>>

\* tarjan_sccs on the nodes N with the successors restricted to N.
TarjanStart(N, E) ==
  /\ graph' = [node |-> N, edge |-> E \cap (N \X N)]
  /\ index' = [v \in {} |-> 0] /\ low' = [v \in {} |-> 0]
  /\ stack' = <<>> /\ calls' = <<>> /\ sccs' = <<>>

TarjanDone == calls = <<>> /\ DOMAIN index = graph.node

-----------------------------------------------------------------------------
Successors(v) == {e[2] : e \in {e \in graph.edge : e[1] = v}}

OnStack(v) == \E i \in DOMAIN stack : stack[i] = v

Caller == calls[Len(calls)]       \* the innermost call
Outer  == SubSeq(calls, 1, Len(calls) - 1)

\* strongconnect(v): the next index, then the loop over the successors.
Enter(v, outer) ==
  /\ v \in graph.node \ DOMAIN index
  /\ LET next == Cardinality(DOMAIN index)
         Assign(f) == [u \in DOMAIN f \cup {v} |-> IF u = v THEN next ELSE f[u]]
     IN  index' = Assign(index) /\ low' = Assign(low)
  /\ stack' = Append(stack, v)
  /\ calls' = Append(outer, <<v, Successors(v)>>)
  /\ UNCHANGED <<graph, sccs>>

Root(v) == calls = <<>> /\ Enter(v, <<>>)

\* The loop takes w out of the successors of the innermost call.
Examine(w) == Append(Outer, <<Caller[1], Caller[2] \ {w}>>)

Descend(w) == calls # <<>> /\ w \in Caller[2] /\ Enter(w, Examine(w))

Lower(v, n) == IF n < low[v] THEN [low EXCEPT ![v] = n] ELSE low

\* mutant: the successor need not be on the stack
LookAtAny(w) ==
  /\ calls # <<>> /\ w \in Caller[2] /\ w \in DOMAIN index
  /\ calls' = Examine(w)
  /\ low' = Lower(Caller[1], index[w])
  /\ UNCHANGED <<graph, index, stack, sccs>>

\* A successor that is visited lowers the lowlink while it is on the stack.
LookAt(w) ==
  /\ calls # <<>> /\ w \in Caller[2] /\ w \in DOMAIN index
  /\ calls' = Examine(w)
  /\ low' = IF OnStack(w) THEN Lower(Caller[1], index[w]) ELSE low
  /\ UNCHANGED <<graph, index, stack, sccs>>

\* mutant: the pop loop takes one node too many
ReturnTooMuch(v) ==
  /\ calls # <<>> /\ Caller = <<v, {}>>
  /\ IF low[v] = index[v]
     THEN LET at == CHOOSE i \in DOMAIN stack : stack[i] = v
          IN  /\ sccs' = Append(sccs, {stack[i] : i \in at..Len(stack)})
              /\ stack' = SubSeq(stack, 1, at - 2)
     ELSE UNCHANGED <<sccs, stack>>
  /\ calls' = Outer
  /\ low' = IF Outer = <<>> THEN low ELSE Lower(Outer[Len(Outer)][1], low[v])
  /\ UNCHANGED <<graph, index>>

\* The end of strongconnect(v): the root of a component pops it off the stack,
\* and the caller's loop takes over the lowlink.
Return(v) ==
  /\ calls # <<>> /\ Caller = <<v, {}>>
  /\ IF low[v] = index[v]
     THEN LET at == CHOOSE i \in DOMAIN stack : stack[i] = v
          IN  /\ sccs' = Append(sccs, {stack[i] : i \in at..Len(stack)})
              /\ stack' = SubSeq(stack, 1, at - 1)
     ELSE UNCHANGED <<sccs, stack>>
  /\ calls' = Outer
  /\ low' = IF Outer = <<>> THEN low ELSE Lower(Outer[Len(Outer)][1], low[v])
  /\ UNCHANGED <<graph, index>>

TarjanStep == \E v \in graph.node : Root(v) \/ Descend(v) \/ LookAt(v) \/ Return(v)

\* mutant: a single node with an edge to itself counts as trivial
LargeOnly == {C \in {sccs[i] : i \in DOMAIN sccs} : Cardinality(C) > 1}

\* non_trivial_sccs: the components with an infinite path inside.
NonTrivial ==
  {C \in {sccs[i] : i \in DOMAIN sccs} :
      Cardinality(C) > 1 \/ \E v \in C : <<v, v>> \in graph.edge}

-----------------------------------------------------------------------------
\* The nodes a walk from v inside the graph reaches.
ReachFrom(v) ==
  {w \in graph.node : \A C \in SUBSET graph.node :
      v \in C /\ (\A e \in graph.edge : e[1] \in C => e[2] \in C) => w \in C}

Mutual(v, w) == w \in ReachFrom(v) /\ v \in ReachFrom(w)

TarjanTypeOK ==
  /\ graph.edge \subseteq graph.node \X graph.node
  /\ DOMAIN index \subseteq graph.node
  /\ index \in [DOMAIN index -> Nat] /\ low \in [DOMAIN index -> Nat]
  /\ stack \in Seq(DOMAIN index)
  /\ calls \in Seq((DOMAIN index) \X (SUBSET graph.node))
  /\ sccs \in Seq(SUBSET DOMAIN index)

\* A node stays on the stack as long as its call is active, so the pop loop of a
\* root stops at the root: stack.pop().unwrap() never finds the stack empty.
CallersOnStack == \A i \in DOMAIN calls : OnStack(calls[i][1])

\* Every component handed out is a whole class of mutually reachable nodes, from
\* the moment it is pushed, and in the end every node is in one. They come out sinks
\* first: no edge leads from one to a later one or to a node that is in none yet.
ComponentsAreClasses ==
  /\ \A i \in DOMAIN sccs : \A v \in sccs[i] :
        sccs[i] = {w \in graph.node : Mutual(v, w)}
  /\ TarjanDone => \A v \in graph.node : \E i \in DOMAIN sccs : v \in sccs[i]
  /\ \A i \in DOMAIN sccs : \A e \in graph.edge :
        e[1] \in sccs[i] => \E j \in 1..i : e[2] \in sccs[j]
=============================================================================
