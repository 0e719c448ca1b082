---------------------------- MODULE CtlProofs -----------------------------
(***************************************************************************)
(* Proofs about Ctl for every set of states, finite or not, and every set  *)
(* of jobs: types, Tarjan's stack and the labels found by the worklists,   *)
(* the components and the operators labelled by way of them, and what the  *)
(* verdict on an explored part says of the whole graph.                    *)
(***************************************************************************)
EXTENDS Ctl, FiniteSetTheorems, SequenceTheorems, WellFoundedInduction, TLAPS

-----------------------------------------------------------------------------
(* Tarjan's components.                                                    *)

\* The nodes on the stack and those of the active calls are in index order.
InOrder ==
  /\ \A v \in DOMAIN index : index[v] < Cardinality(DOMAIN index)
  /\ \A i, j \in DOMAIN stack : i < j => index[stack[i]] < index[stack[j]]
  /\ \A i, j \in DOMAIN calls : i < j => index[calls[i][1]] < index[calls[j][1]]

TarjanInv ==
  /\ TarjanTypeOK /\ IsFiniteSet(DOMAIN index)
  /\ InOrder /\ CallersOnStack

\* The run of the algorithm starts in its invariant.
LEMMA TarjanStarts ==
  ASSUME NEW N, NEW E, TarjanStart(N, E)
  PROVE  TarjanInv' /\ graph'.node = N
<1>. USE DEF TarjanStart
<1>1. DOMAIN index' = {} /\ DOMAIN low' = {} /\ graph'.node = N
  OBVIOUS
<1>2. TarjanTypeOK'
  BY DEF TarjanTypeOK
<1>3. IsFiniteSet(DOMAIN index')
  BY <1>1, FS_EmptySet
<1>4. InOrder' /\ CallersOnStack'
  BY <1>1 DEF InOrder, CallersOnStack, OnStack
<1>. QED  BY <1>1, <1>2, <1>3, <1>4 DEF TarjanInv

\* A call adds its node at the end of the stack, with the greatest index.
LEMMA EnterKeepsInv ==
  ASSUME TarjanInv, NEW v \in graph.node,
         NEW outer \in Seq((DOMAIN index) \X (SUBSET graph.node)),
         \A i \in DOMAIN outer : OnStack(outer[i][1]),
         \A i, j \in DOMAIN outer : i < j => index[outer[i][1]] < index[outer[j][1]],
         Enter(v, outer)
  PROVE  TarjanInv'
<1>. DEFINE n == Cardinality(DOMAIN index)
<1>. USE DEF TarjanInv
<1>1. v \notin DOMAIN index /\ n \in Nat
  BY FS_CardinalityType DEF Enter
<1>2. DOMAIN index' = DOMAIN index \cup {v} /\ DOMAIN low' = DOMAIN low \cup {v}
  BY DEF Enter
<1>3. IsFiniteSet(DOMAIN index') /\ Cardinality(DOMAIN index') = n + 1
  BY <1>1, <1>2, FS_AddElement
<1>4. /\ \A u \in DOMAIN index : index'[u] = index[u] /\ low'[u] = low[u]
      /\ index'[v] = n /\ low'[v] = n
  BY <1>1 DEF Enter, TarjanTypeOK
<1>5. Successors(v) \subseteq graph.node
  BY DEF Successors, TarjanTypeOK
<1>6. /\ graph' = graph /\ sccs' = sccs
      /\ stack' = Append(stack, v)
      /\ calls' = Append(outer, <<v, Successors(v)>>)
  BY DEF Enter
<1>7. index' \in [DOMAIN index' -> Nat] /\ low' \in [DOMAIN index' -> Nat]
  BY <1>1, <1>2, <1>4 DEF Enter, TarjanTypeOK
<1>8. stack \in Seq(DOMAIN index') /\ stack' \in Seq(DOMAIN index')
  BY <1>2, <1>6 DEF TarjanTypeOK
<1>9. outer \in Seq((DOMAIN index') \X (SUBSET graph.node))
  BY <1>2
<1>10. calls' \in Seq((DOMAIN index') \X (SUBSET graph'.node))
  BY <1>2, <1>5, <1>6, <1>9
<1>11. sccs' \in Seq(SUBSET DOMAIN index')
  BY <1>2, <1>6 DEF TarjanTypeOK
<1>12. TarjanTypeOK'
  BY <1>2, <1>6, <1>7, <1>8, <1>10, <1>11 DEF TarjanTypeOK
<1>13. \A i \in DOMAIN stack : stack[i] \in DOMAIN index /\ index[stack[i]] < n
  BY DEF TarjanTypeOK, InOrder
<1>14. \A i \in DOMAIN outer : outer[i][1] \in DOMAIN index /\ index[outer[i][1]] < n
  <2>1. \A i \in DOMAIN outer : outer[i] \in (DOMAIN index) \X (SUBSET graph.node)
    OBVIOUS
  <2>. QED  BY <2>1 DEF InOrder
<1>15. InOrder'
  <2>1. \A u \in DOMAIN index' : index'[u] < Cardinality(DOMAIN index')
    BY <1>1, <1>2, <1>3, <1>4 DEF InOrder, TarjanTypeOK
  <2>2. ASSUME NEW i \in DOMAIN stack', NEW j \in DOMAIN stack', i < j
        PROVE  index'[stack'[i]] < index'[stack'[j]]
    <3>1. i \in DOMAIN stack /\ stack'[i] = stack[i]
      BY <1>6, <2>2 DEF TarjanTypeOK
    <3>2. CASE j \in DOMAIN stack
      <4>1. stack'[j] = stack[j]
        BY <1>6, <3>2 DEF TarjanTypeOK
      <4>2. index[stack[i]] < index[stack[j]]
        BY <2>2, <3>1, <3>2 DEF InOrder
      <4>3. stack[i] \in DOMAIN index /\ stack[j] \in DOMAIN index
        BY <1>13, <3>1, <3>2
      <4>. HIDE DEF TarjanInv
      <4>. QED  BY <1>4, <3>1, <4>1, <4>2, <4>3
    <3>3. CASE j \notin DOMAIN stack
      <4>1. stack'[j] = v
        BY <1>6, <3>3 DEF TarjanTypeOK
      <4>. QED  BY <1>4, <1>13, <3>1, <4>1
    <3>. QED  BY <3>2, <3>3
  <2>3. ASSUME NEW i \in DOMAIN calls', NEW j \in DOMAIN calls', i < j
        PROVE  index'[calls'[i][1]] < index'[calls'[j][1]]
    <3>1. i \in DOMAIN outer /\ calls'[i] = outer[i]
      BY <1>6, <2>3
    <3>2. CASE j \in DOMAIN outer
      BY <1>4, <1>6, <1>14, <2>3, <3>1, <3>2
    <3>3. CASE j \notin DOMAIN outer
      <4>1. calls'[j] = <<v, Successors(v)>>
        BY <1>6, <3>3
      <4>. QED  BY <1>4, <1>14, <3>1, <4>1
    <3>. QED  BY <3>2, <3>3
  <2>. QED  BY <2>1, <2>2, <2>3 DEF InOrder
<1>16. CallersOnStack'
  <2>1. ASSUME NEW i \in DOMAIN calls'
        PROVE  \E k \in DOMAIN stack' : stack'[k] = calls'[i][1]
    <3>1. CASE i \in DOMAIN outer
      <4>1. PICK k \in DOMAIN stack : stack[k] = outer[i][1]
        BY <3>1 DEF OnStack
      <4>2. k \in DOMAIN stack' /\ stack'[k] = stack[k]
        BY <1>6 DEF TarjanTypeOK
      <4>3. calls'[i] = outer[i]
        BY <1>6, <3>1
      <4>. QED  BY <4>1, <4>2, <4>3
    <3>2. CASE i \notin DOMAIN outer
      <4>1. calls'[i] = <<v, Successors(v)>>
        BY <1>6, <3>2
      <4>2. Len(stack) + 1 \in DOMAIN stack' /\ stack'[Len(stack) + 1] = v
        BY <1>6 DEF TarjanTypeOK
      <4>. QED  BY <4>1, <4>2
    <3>. QED  BY <3>1, <3>2
  <2>. QED  BY <2>1 DEF CallersOnStack, OnStack
<1>. QED  BY <1>3, <1>12, <1>15, <1>16

\* The calls below the innermost one, and the calls with a changed loop state.
LEMMA Calls ==
  ASSUME TarjanInv, calls # <<>>
  PROVE  /\ Len(calls) \in DOMAIN calls
         /\ Caller \in (DOMAIN index) \X (SUBSET graph.node)
         /\ Outer \in Seq((DOMAIN index) \X (SUBSET graph.node))
         /\ Len(Outer) = Len(calls) - 1
         /\ \A i \in DOMAIN Outer : i \in DOMAIN calls /\ i < Len(calls) /\ Outer[i] = calls[i]
<1>1. calls \in Seq((DOMAIN index) \X (SUBSET graph.node))
  BY DEF TarjanInv, TarjanTypeOK
<1>2. Len(calls) \in Nat \ {0} /\ DOMAIN calls = 1..Len(calls)
  BY <1>1
<1>3. /\ Outer \in Seq((DOMAIN index) \X (SUBSET graph.node))
      /\ Len(Outer) = Len(calls) - 1
      /\ \A i \in 1..Len(calls) - 1 : Outer[i] = calls[i]
  BY <1>1, <1>2 DEF Outer
<1>4. Caller \in (DOMAIN index) \X (SUBSET graph.node)
  BY <1>1, <1>2 DEF Caller
<1>5. DOMAIN Outer = 1..(Len(calls) - 1)
  BY <1>3
<1>6. \A i \in DOMAIN Outer : i \in DOMAIN calls /\ i < Len(calls) /\ Outer[i] = calls[i]
  BY <1>2, <1>3, <1>5
<1>. QED  BY <1>2, <1>3, <1>4, <1>6

\* The loop of the innermost call loses a successor and nothing else changes.
LEMMA ExamineKeepsOrder ==
  ASSUME TarjanInv, calls # <<>>, NEW w
  PROVE  /\ Examine(w) \in Seq((DOMAIN index) \X (SUBSET graph.node))
         /\ DOMAIN Examine(w) = DOMAIN calls
         /\ \A i \in DOMAIN calls : Examine(w)[i][1] = calls[i][1]
<1>1. <<Caller[1], Caller[2] \ {w}>> \in (DOMAIN index) \X (SUBSET graph.node)
  BY Calls
<1>2. Examine(w) \in Seq((DOMAIN index) \X (SUBSET graph.node))
  BY <1>1, Calls DEF Examine
<1>3. Len(Examine(w)) = Len(calls) /\ calls \in Seq((DOMAIN index) \X (SUBSET graph.node))
  BY Calls DEF Examine, TarjanInv, TarjanTypeOK
<1>4. ASSUME NEW i \in DOMAIN calls
      PROVE  Examine(w)[i][1] = calls[i][1]
  <2>1. CASE i = Len(calls)
    <3>1. Examine(w)[i] = <<Caller[1], Caller[2] \ {w}>>
      BY <2>1, <1>1, Calls DEF Examine
    <3>. QED  BY <2>1, <3>1 DEF Caller
  <2>2. CASE i # Len(calls)
    <3>1. i \in DOMAIN Outer
      BY <1>3, <2>2, Calls
    <3>2. Examine(w)[i] = Outer[i]
      BY <3>1, <1>1, Calls DEF Examine
    <3>. QED  BY <3>1, <3>2, Calls
  <2>. QED  BY <2>1, <2>2
<1>. QED  BY <1>2, <1>3, <1>4

\* Lowering a lowlink leaves it a number.
LEMMA LowerType ==
  ASSUME TarjanInv, NEW v \in DOMAIN index, NEW n \in Nat
  PROVE  Lower(v, n) \in [DOMAIN index -> Nat]
BY DEF TarjanInv, TarjanTypeOK, Lower

LEMMA LookAtKeepsInv ==
  ASSUME TarjanInv, NEW w \in graph.node, LookAt(w)
  PROVE  TarjanInv'
<1>. USE DEF TarjanInv
<1>1. calls # <<>> /\ w \in DOMAIN index /\ calls' = Examine(w)
      /\ UNCHANGED <<graph, index, stack, sccs>>
  BY DEF LookAt
<1>2. low' \in [DOMAIN index -> Nat]
  <2>1. Caller[1] \in DOMAIN index /\ index[w] \in Nat
    BY <1>1, Calls DEF TarjanTypeOK
  <2>2. Lower(Caller[1], index[w]) \in [DOMAIN index -> Nat]
    BY <2>1, LowerType
  <2>. QED  BY <2>2 DEF LookAt, TarjanTypeOK
<1>3. TarjanTypeOK'
  BY <1>1, <1>2, ExamineKeepsOrder DEF TarjanTypeOK
<1>4. DOMAIN calls' = DOMAIN calls /\ \A i \in DOMAIN calls : calls'[i][1] = calls[i][1]
  BY <1>1, ExamineKeepsOrder
<1>5. InOrder'
  BY <1>1, <1>4 DEF InOrder
<1>6. CallersOnStack'
  BY <1>1, <1>4 DEF CallersOnStack, OnStack
<1>. QED  BY <1>1, <1>3, <1>5, <1>6

LEMMA ReturnKeepsInv ==
  ASSUME TarjanInv, NEW v \in graph.node, Return(v)
  PROVE  TarjanInv'
<1>. USE DEF TarjanInv
<1>1. /\ calls # <<>> /\ Caller = <<v, {}>> /\ calls' = Outer
      /\ graph' = graph /\ index' = index
  BY DEF Return
<1>2. v \in DOMAIN index /\ v = calls[Len(calls)][1]
  BY <1>1, Calls DEF Caller
<1>. DEFINE at == CHOOSE i \in DOMAIN stack : stack[i] = v
<1>3. at \in DOMAIN stack /\ stack[at] = v
  BY <1>1, <1>2, Calls DEF CallersOnStack, OnStack
<1>. HIDE DEF at
<1>4. \/ stack' = stack /\ sccs' = sccs
      \/ /\ stack' = SubSeq(stack, 1, at - 1)
         /\ sccs' = Append(sccs, {stack[i] : i \in at..Len(stack)})
  BY DEF Return, at
<1>5. stack \in Seq(DOMAIN index) /\ Len(stack) \in Nat /\ at \in 1..Len(stack)
  BY <1>3 DEF TarjanTypeOK
<1>6. /\ SubSeq(stack, 1, at - 1) \in Seq(DOMAIN index)
      /\ Len(SubSeq(stack, 1, at - 1)) = at - 1
      /\ \A i \in 1..at - 1 : SubSeq(stack, 1, at - 1)[i] = stack[i]
  BY <1>5
<1>7. /\ stack' \in Seq(DOMAIN index)
      /\ DOMAIN stack' \subseteq DOMAIN stack
      /\ \A i \in DOMAIN stack' : stack'[i] = stack[i]
  BY <1>4, <1>5, <1>6
<1>8. sccs' \in Seq(SUBSET DOMAIN index)
  <2>1. {stack[i] : i \in at..Len(stack)} \in SUBSET DOMAIN index
    BY <1>5
  <2>2. sccs \in Seq(SUBSET DOMAIN index)
    BY DEF TarjanTypeOK
  <2>3. Append(sccs, {stack[i] : i \in at..Len(stack)}) \in Seq(SUBSET DOMAIN index)
    BY <2>1, <2>2
  <2>. QED  BY <1>4, <2>2, <2>3
<1>9. low' \in [DOMAIN index -> Nat]
  <2>1. CASE Outer = <<>>
    BY <2>1 DEF Return, TarjanTypeOK
  <2>2. CASE Outer # <<>>
    <3>1. Outer[Len(Outer)][1] \in DOMAIN index
      BY <1>1, <2>2, Calls
    <3>2. low[v] \in Nat
      BY <1>2 DEF TarjanTypeOK
    <3>. QED  BY <2>2, <3>1, <3>2, LowerType DEF Return
  <2>. QED  BY <2>1, <2>2
<1>10. TarjanTypeOK'
  BY <1>1, <1>7, <1>8, <1>9, Calls DEF TarjanTypeOK
<1>11. InOrder'
  BY <1>1, <1>7, Calls DEF InOrder
<1>12. CallersOnStack'
  <2>1. ASSUME NEW i \in DOMAIN calls'
        PROVE  \E k \in DOMAIN stack' : stack'[k] = calls'[i][1]
    <3>1. i \in DOMAIN calls /\ i < Len(calls) /\ calls'[i] = calls[i]
      BY <1>1, Calls
    <3>2. PICK k \in DOMAIN stack : stack[k] = calls[i][1]
      BY <3>1 DEF CallersOnStack, OnStack
    <3>3. index[stack[k]] < index[v]
      BY <1>1, <1>2, <3>1, <3>2, Calls DEF InOrder
    <3>4. k < at
      <4>1. ASSUME k >= at  PROVE FALSE
        <5>0. k \in 1..Len(stack) /\ stack[k] \in DOMAIN index
          BY <1>5
        <5>1. /\ k \in 1..Len(stack) /\ stack[k] \in DOMAIN index
              /\ index[v] \in Nat /\ index[stack[k]] \in Nat
          BY <1>2, <5>0 DEF TarjanTypeOK
        <5>2. index[v] <= index[stack[k]]
          BY <1>3, <4>1, <5>1, <1>5 DEF InOrder
        <5>. QED  BY <3>3, <5>1, <5>2
      <4>. QED  BY <4>1, <1>5
    <3>5. k \in DOMAIN stack' /\ stack'[k] = stack[k]
      BY <1>4, <1>5, <1>6, <3>4
    <3>. QED  BY <3>1, <3>2, <3>5
  <2>. QED  BY <2>1 DEF CallersOnStack, OnStack
<1>. QED  BY <1>1, <1>10, <1>11, <1>12

\* Every step of the algorithm keeps its invariant and its graph.
LEMMA TarjanSteps ==
  ASSUME TarjanInv, TarjanStep
  PROVE  TarjanInv' /\ graph' = graph
<1>1. PICK v \in graph.node : Root(v) \/ Descend(v) \/ LookAt(v) \/ Return(v)
  BY DEF TarjanStep
<1>2. CASE Root(v)
  <2>1. /\ <<>> \in Seq((DOMAIN index) \X (SUBSET graph.node)) /\ DOMAIN <<>> = {}
        /\ Enter(v, <<>>)
    BY <1>2 DEF Root
  <2>. QED  BY <2>1, EnterKeepsInv DEF Enter
<1>3. CASE Descend(v)
  <2>1. calls # <<>> /\ Enter(v, Examine(v))
    BY <1>3 DEF Descend
  <2>2. \A i \in DOMAIN Examine(v) : OnStack(Examine(v)[i][1])
    BY <2>1, ExamineKeepsOrder DEF TarjanInv, CallersOnStack
  <2>3. \A i, j \in DOMAIN Examine(v) : i < j =>
          index[Examine(v)[i][1]] < index[Examine(v)[j][1]]
    BY <2>1, ExamineKeepsOrder DEF TarjanInv, InOrder
  <2>4. Examine(v) \in Seq((DOMAIN index) \X (SUBSET graph.node))
    BY <2>1, ExamineKeepsOrder
  <2>. HIDE DEF Examine
  <2>. QED  BY <2>1, <2>2, <2>3, <2>4, EnterKeepsInv DEF Enter
<1>4. CASE LookAt(v)
  BY <1>4, LookAtKeepsInv DEF LookAt
<1>5. CASE Return(v)
  BY <1>5, ReturnKeepsInv DEF Return
<1>. QED  BY <1>1, <1>2, <1>3, <1>4, <1>5

-----------------------------------------------------------------------------
(* The labelling.                                                          *)

\* Which worklist runs in which phase.
Phase ==
  /\ pc = "until" => Op \in {"EF", "AG", "EU", "AU"}
  /\ pc \in {"fair", "reach", "scc", "back"} => Op \in {"EG", "AF", "AU"}

Typed == TypeOK /\ TarjanInv /\ Phase

\* The job never changes, and with it what the search left behind.
LEMMA JobIsFixed ==
  ASSUME [Next]_vars
  PROVE  /\ job' = job /\ Universe' = Universe /\ Edges' = Edges
         /\ Fair' = Fair /\ Left' = Left
<1>1. job' = job
  BY DEF Next, vars, LabelAtOnce, StartWorklist, EndWorklist, Pop, StartCycle,
         FindComponents, StartBack, EndBack, ApplyCondition, KeepReaching, EndRound,
         NextOperator, Pass, Violation, Finished
<1>2. Universe' = Universe
  BY <1>1 DEF Universe
<1>3. Frontier' = Frontier
  BY <1>1, <1>2 DEF Frontier
<1>. QED  BY <1>1, <1>2, <1>3 DEF Edges, Fair, Left

\* Edges lead from explored states to explored states.
LEMMA EdgesExplored ==
  \A e \in Edges : e[1] \in Universe /\ e[2] \in Universe
BY DEF Edges

\* Starting EG on a set of explored states.
LEMMA StartEGTypes ==
  ASSUME NEW S \in SUBSET Universe, StartEG(S), Typed
  PROVE  /\ pc' \in {"scc", "fair"}
         /\ TarjanInv' /\ graph'.node \subseteq Universe
         /\ cand' \subseteq Universe /\ kept' \subseteq Universe /\ left' \subseteq Fair
<1>1. CASE Conditions = {} \/ S = {}
  <2>1. TarjanStart(S, Edges) /\ pc' = "scc" /\ UNCHANGED fairs
    BY <1>1 DEF StartEG
  <2>. QED  BY <2>1, TarjanStarts DEF fairs, Typed, TypeOK
<1>2. CASE ~(Conditions = {} \/ S = {})
  <2>1. cand' = S /\ kept' = S /\ left' = Conditions /\ pc' = "fair" /\ UNCHANGED tarjan
    BY <1>2 DEF StartEG
  <2>2. TarjanInv' /\ graph' = graph
    BY <2>1 DEF tarjan, Typed, TarjanInv, TarjanTypeOK, InOrder, CallersOnStack, OnStack
  <2>. QED  BY <2>1, <2>2 DEF Conditions, Typed, TypeOK
<1>. QED  BY <1>1, <1>2

\* The components are sets of explored states.
LEMMA ComponentTypes ==
  ASSUME Typed
  PROVE  UNION NonTrivial \subseteq Universe
<1>1. \A i \in DOMAIN sccs : sccs[i] \subseteq Universe
  BY DEF Typed, TypeOK, TarjanTypeOK
<1>. QED  BY <1>1 DEF NonTrivial

\* The search starts well typed.
LEMMA InitTyped == Init => Typed
<1>. SUFFICES ASSUME Init PROVE Typed
  OBVIOUS
<1>. USE DEF Init
<1>1. job \in Job
  BY JobAssumption
<1>2. TarjanInv /\ graph.node = {}
  <2>1. TarjanTypeOK /\ DOMAIN index = {} /\ graph.node = {}
    BY DEF TarjanInit, TarjanTypeOK
  <2>2. IsFiniteSet(DOMAIN index)
    BY <2>1, FS_EmptySet
  <2>3. InOrder /\ CallersOnStack
    BY <2>1 DEF TarjanInit, InOrder, CallersOnStack, OnStack
  <2>. QED  BY <2>1, <2>2, <2>3 DEF TarjanInv
<1>3. TypeOK
  BY <1>1, <1>2 DEF TypeOK, Job, TarjanInv
<1>. QED  BY <1>2, <1>3 DEF Typed, Phase

\* The steps that leave Tarjan's variables alone keep their invariant.
LEMMA TarjanUntouched ==
  ASSUME Typed, UNCHANGED tarjan
  PROVE  TarjanInv' /\ graph' = graph
BY DEF tarjan, Typed, TarjanInv, TarjanTypeOK, InOrder, CallersOnStack, OnStack

\* Every step keeps the types.
LEMMA NextTyped == Typed /\ [Next]_vars => Typed'
<1>. SUFFICES ASSUME Typed, [Next]_vars PROVE Typed'
  OBVIOUS
<1>. DEFINE U == Universe
<1>0. /\ job' = job /\ Universe' = Universe /\ Edges' = Edges /\ Fair' = Fair
      /\ Left' = Left /\ job \in Job
  BY JobIsFixed DEF Typed, TypeOK
<1>. USE DEF Typed, list, fairs
<1>1. CASE LabelAtOnce
  <2>1. sat' \subseteq Universe
    BY <1>1 DEF LabelAtOnce, Not, TypeOK
  <2>2. TarjanInv' /\ graph' = graph
    BY <1>1, TarjanUntouched DEF LabelAtOnce
  <2>3. TypeOK'
    BY <1>0, <1>1, <2>1, <2>2 DEF LabelAtOnce, TypeOK, TarjanInv
  <2>. QED  BY <1>1, <2>2, <2>3 DEF LabelAtOnce, Phase
<1>2. CASE StartWorklist
  <2>1. result' \subseteq Universe /\ work' = result' /\ within' \subseteq Universe
    BY <1>2 DEF StartWorklist, Worklist, Not, Left, Right, TypeOK
  <2>2. TarjanInv' /\ graph' = graph
    BY <1>2, TarjanUntouched DEF StartWorklist
  <2>3. TypeOK'
    BY <1>0, <1>2, <2>1, <2>2 DEF StartWorklist, TypeOK, TarjanInv
  <2>. QED  BY <1>2, <2>2, <2>3 DEF StartWorklist, Phase, Op
<1>3. CASE EndWorklist
  <2>1. CASE Op = "AU"
    <3>1. avoid' = result /\ StartEG(Not(Right)) /\ Not(Right) \in SUBSET Universe
      BY <1>3, <2>1 DEF EndWorklist, Not
    <3>2. /\ pc' \in {"scc", "fair"} /\ TarjanInv' /\ graph'.node \subseteq Universe
          /\ cand' \subseteq Universe /\ kept' \subseteq Universe /\ left' \subseteq Fair
      BY <3>1, StartEGTypes
    <3>3. UNCHANGED <<job, rest, arg, sat, result, work, within, verdict>>
      BY <1>3, <2>1 DEF EndWorklist
    <3>4. TypeOK'
      BY <1>0, <3>1, <3>2, <3>3 DEF TypeOK, TarjanInv
    <3>. QED  BY <2>1, <3>2, <3>3, <3>4 DEF Phase, Op
  <2>2. CASE Op # "AU"
    <3>1. sat' \subseteq Universe /\ pc' = "labelled"
          /\ UNCHANGED <<tarjan, avoid, fairs, job, rest, arg, list, verdict>>
      BY <1>3, <2>2 DEF EndWorklist, Not, TypeOK
    <3>2. TarjanInv' /\ graph' = graph
      BY <3>1, TarjanUntouched
    <3>3. TypeOK'
      BY <1>0, <3>1, <3>2 DEF TypeOK, TarjanInv
    <3>. QED  BY <3>1, <3>2, <3>3 DEF Phase
  <2>. QED  BY <2>1, <2>2
<1>4. ASSUME NEW s \in Node, Pop(s)  PROVE Typed'
  <2>1. Pred(s) \subseteq Universe
    BY EdgesExplored DEF Pred
  <2>2. result' \subseteq Universe /\ work' \subseteq result'
    BY <1>4, <2>1 DEF Pop, TypeOK
  <2>3. TarjanInv' /\ graph' = graph
    BY <1>4, TarjanUntouched DEF Pop
  <2>4. TypeOK'
    BY <1>0, <1>4, <2>2, <2>3 DEF Pop, TypeOK, TarjanInv
  <2>. QED  BY <1>4, <2>3, <2>4 DEF Pop, Phase, Op
<1>5. CASE StartCycle
  <2>1. PICK S \in SUBSET Universe : StartEG(S)
    BY <1>5 DEF StartCycle, Not, TypeOK
  <2>2. /\ pc' \in {"scc", "fair"} /\ TarjanInv' /\ graph'.node \subseteq Universe
        /\ cand' \subseteq Universe /\ kept' \subseteq Universe /\ left' \subseteq Fair
    BY <2>1, StartEGTypes
  <2>3. TypeOK'
    BY <1>0, <1>5, <2>2 DEF StartCycle, TypeOK, TarjanInv
  <2>. QED  BY <1>5, <2>2, <2>3 DEF StartCycle, Phase, Op
<1>6. CASE FindComponents
  <2>1. TarjanInv' /\ graph' = graph
    BY <1>6, TarjanSteps DEF FindComponents
  <2>2. TypeOK'
    BY <1>0, <1>6, <2>1 DEF FindComponents, TypeOK, TarjanInv
  <2>. QED  BY <1>6, <2>1, <2>2 DEF FindComponents, Phase, Op
<1>7. CASE StartBack
  <2>1. result' \subseteq Universe /\ work' = result' /\ within' \subseteq Universe
    BY <1>7, ComponentTypes DEF StartBack, Worklist, TypeOK
  <2>2. TarjanInv' /\ graph' = graph
    BY <1>7, TarjanUntouched DEF StartBack
  <2>3. TypeOK'
    BY <1>0, <1>7, <2>1, <2>2 DEF StartBack, TypeOK, TarjanInv
  <2>. QED  BY <1>7, <2>2, <2>3 DEF StartBack, Phase, Op
<1>8. CASE EndBack
  <2>1. sat' \subseteq Universe
    BY <1>8 DEF EndBack, Phase, Not, TypeOK
  <2>2. TarjanInv' /\ graph' = graph
    BY <1>8, TarjanUntouched DEF EndBack
  <2>3. TypeOK'
    BY <1>0, <1>8, <2>1, <2>2 DEF EndBack, TypeOK, TarjanInv
  <2>. QED  BY <1>8, <2>2, <2>3 DEF EndBack, Phase
<1>9. ASSUME NEW F \in left, ApplyCondition(F)  PROVE Typed'
  <2>1. result' \subseteq Universe /\ work' = result' /\ within' \subseteq Universe
        /\ left' \subseteq Fair
    BY <1>9 DEF ApplyCondition, Worklist, TypeOK
  <2>2. TarjanInv' /\ graph' = graph
    BY <1>9, TarjanUntouched DEF ApplyCondition
  <2>3. TypeOK'
    BY <1>0, <1>9, <2>1, <2>2 DEF ApplyCondition, TypeOK, TarjanInv
  <2>. QED  BY <1>9, <2>2, <2>3 DEF ApplyCondition, Phase, Op
<1>10. CASE KeepReaching
  <2>1. TarjanInv' /\ graph' = graph
    BY <1>10, TarjanUntouched DEF KeepReaching
  <2>2. TypeOK'
    BY <1>0, <1>10, <2>1 DEF KeepReaching, TypeOK, TarjanInv
  <2>. QED  BY <1>10, <2>1, <2>2 DEF KeepReaching, Phase, Op
<1>11. CASE EndRound
  <2>1. CASE kept = cand
    <3>1. TarjanStart(cand, Edges) /\ pc' = "scc" /\ UNCHANGED fairs
      BY <1>11, <2>1 DEF EndRound
    <3>2. TarjanInv' /\ graph'.node \subseteq Universe
      BY <3>1, TarjanStarts DEF TypeOK
    <3>3. TypeOK'
      BY <1>0, <1>11, <3>1, <3>2 DEF EndRound, TypeOK, TarjanInv
    <3>. QED  BY <1>11, <3>1, <3>2, <3>3 DEF EndRound, Phase, Op
  <2>2. CASE kept # cand
    <3>1. /\ cand' = kept /\ left' = Conditions /\ UNCHANGED <<tarjan, kept, pc>>
      BY <1>11, <2>2 DEF EndRound
    <3>2. TarjanInv' /\ graph' = graph
      BY <3>1, TarjanUntouched
    <3>3. left' \subseteq Fair
      BY <3>1 DEF Conditions
    <3>4. TypeOK'
      BY <1>0, <1>11, <3>1, <3>2, <3>3 DEF EndRound, TypeOK, TarjanInv
    <3>. QED  BY <1>11, <3>1, <3>2, <3>4 DEF EndRound, Phase, Op
  <2>. QED  BY <2>1, <2>2
<1>12. CASE NextOperator
  <2>1. Tail(rest) \in Seq(Ops)
    BY <1>12 DEF NextOperator, TypeOK
  <2>2. TarjanInv' /\ graph' = graph
    BY <1>12, TarjanUntouched DEF NextOperator
  <2>3. TypeOK'
    BY <1>0, <1>12, <2>1, <2>2 DEF NextOperator, TypeOK, TarjanInv
  <2>. QED  BY <1>12, <2>2, <2>3 DEF NextOperator, Phase
<1>13. CASE Pass
  <2>1. TarjanInv' /\ graph' = graph
    BY <1>13, TarjanUntouched DEF Pass
  <2>2. TypeOK'
    BY <1>0, <1>13, <2>1 DEF Pass, TypeOK, TarjanInv
  <2>. QED  BY <1>13, <2>1, <2>2 DEF Pass, Phase
<1>14. ASSUME NEW s \in Node, Violation(s)  PROVE Typed'
  <2>1. Nearest(s, Not(sat)) \subseteq Not(sat)
    BY DEF Nearest
  <2>2. PICK e \in job.initial \cup Universe :
          verdict' = IF Op \in {"EF", "EX", "EG", "EU"}
                     THEN [status |-> "vacuous-warning", end |-> {}]
                     ELSE [status |-> "violated", end |-> {e}]
    <3>1. \A e \in IF Op = "AG" THEN Nearest(s, Not(sat)) ELSE {s} :
             e \in job.initial \cup Universe
      BY <1>14, <2>1 DEF Violation, Not
    <3>. QED  BY <1>14, <3>1 DEF Violation
  <2>3. TarjanInv' /\ graph' = graph
    BY <1>14, TarjanUntouched DEF Violation
  <2>4. verdict' \in [status : {"none", "verified", "verified-within-bounds", "violated",
                                "vacuous-warning"},
                      end : SUBSET (job.initial \cup Universe)]
    BY <2>2
  <2>5. TypeOK'
    BY <1>0, <1>14, <2>3, <2>4 DEF Violation, TypeOK, TarjanInv
  <2>. QED  BY <1>14, <2>3, <2>5 DEF Violation, Phase
<1>15. CASE UNCHANGED vars
  <2>1. TarjanInv' /\ graph' = graph
    BY <1>15, TarjanUntouched DEF vars, tarjan
  <2>2. TypeOK'
    BY <1>0, <1>15, <2>1 DEF vars, TypeOK, TarjanInv
  <2>. QED  BY <1>15, <2>1, <2>2 DEF vars, Phase, Op
<1>. QED  BY <1>1, <1>2, <1>3, <1>4, <1>5, <1>6, <1>7, <1>8, <1>9, <1>10, <1>11, <1>12,
             <1>13, <1>14, <1>15 DEF Next, Finished

\* Every variable has its type, in every reachable state.
THEOREM TypeCorrect == Spec => []TypeOK
<1>1. Spec => []Typed
  BY InitTyped, NextTyped, PTL DEF Spec
<1>2. Typed => TypeOK
  BY DEF Typed
<1>. QED  BY <1>1, <1>2, PTL

\* The nodes of the active calls are on Tarjan's stack, so that the pop loop of a
\* component root never empties the stack.
THEOREM CallersStay == Spec => []CallersOnStack
<1>1. Spec => []Typed
  BY InitTyped, NextTyped, PTL DEF Spec
<1>2. Typed => CallersOnStack
  BY DEF Typed, TarjanInv
<1>. QED  BY <1>1, <1>2, PTL

-----------------------------------------------------------------------------
(* The labels found by the worklists.                                      *)

\* The states a worklist starts from and the states it may pass through.
Seeds == CASE Op = "EF" -> arg
           [] Op = "AG" -> Not(arg)
           [] Op = "EU" -> Right
           [] Op = "AU" -> Not(Left) \cap Not(Right)

Allowed == CASE Op = "EF" -> Universe
             [] Op = "AG" -> Universe
             [] Op = "EU" -> Left
             [] Op = "AU" -> Not(Right)

\* C has the seeds and every allowed predecessor of its states.
Closed(C) == Seeds \subseteq C /\ \A e \in Edges : e[1] \in within /\ e[2] \in C => e[1] \in C

\* The states found are the seeds and the allowed predecessors of the expanded
\* ones, and no closed set misses one of them.
Found ==
  pc = "until" =>
    /\ within = Allowed /\ Seeds \subseteq result
    /\ \A e \in Edges : e[1] \in within /\ e[2] \in result \ work => e[1] \in result
    /\ \A C \in SUBSET Universe : Closed(C) => result \subseteq C

Labelled == Typed /\ Found /\ ReachLabelIsExact

\* A worklist that has been emptied has found the least closed set.
LEMMA EmptyWorklist ==
  ASSUME Typed, Found, pc = "until", work = {}
  PROVE  result = ExistsUntil(Universe, Edges, within, Seeds)
<1>. DEFINE E == ExistsUntil(Universe, Edges, within, Seeds)
<1>1. result \in SUBSET Universe
  BY DEF Typed, TypeOK
<1>2. Closed(result)
  BY DEF Found, Closed
<1>3. E \subseteq result
  BY <1>1, <1>2 DEF ExistsUntil, Closed
<1>4. ASSUME NEW s \in result  PROVE s \in E
  <2>1. \A C \in SUBSET Universe : Closed(C) => s \in C
    BY <1>4 DEF Found
  <2>. QED  BY <1>1, <1>4, <2>1 DEF ExistsUntil, Closed
<1>. QED  BY <1>3, <1>4

\* One iteration of the worklist.
LEMMA PopFinds ==
  ASSUME Labelled, NEW s \in Node, Pop(s), pc = "until",
         job' = job, Universe' = Universe, Edges' = Edges, Left' = Left
  PROVE  Found'
<1>. USE DEF Labelled
<1>1. /\ UNCHANGED <<pc, rest, arg, within>> /\ s \in work
      /\ result' = result \cup ((Pred(s) \cap within) \ result)
      /\ work' = (work \ {s}) \cup ((Pred(s) \cap within) \ result)
  BY DEF Pop
<1>2. Seeds' = Seeds /\ Allowed' = Allowed
  BY <1>1 DEF Seeds, Allowed, Not, Right, Op
<1>3. within' = Allowed' /\ Seeds' \subseteq result'
  BY <1>1, <1>2 DEF Found
<1>4. ASSUME NEW e \in Edges', e[1] \in within', e[2] \in result' \ work'
      PROVE  e[1] \in result'
  <2>1. e[2] \in result /\ e[1] \in within /\ e \in Edges
    BY <1>1, <1>4
  <2>2. CASE e[2] = s
    BY <1>1, <2>1, <2>2 DEF Pred
  <2>3. CASE e[2] # s
    BY <1>1, <1>4, <2>1, <2>3 DEF Found
  <2>. QED  BY <2>2, <2>3
<1>5. ASSUME NEW C \in SUBSET Universe', Closed(C)'
      PROVE  result' \subseteq C
  <2>1. Closed(C)
    BY <1>1, <1>2, <1>5 DEF Closed
  <2>2. result \subseteq C /\ s \in C
    BY <1>1, <1>5, <2>1 DEF Found, Typed, TypeOK
  <2>3. Pred(s) \cap within \subseteq C
    BY <2>1, <2>2 DEF Closed, Pred
  <2>. QED  BY <1>1, <2>2, <2>3
<1>. QED  BY <1>3, <1>4, <1>5 DEF Found

\* The first states of a worklist are its seeds, all of them still to expand.
LEMMA StartFinds ==
  ASSUME Labelled, StartWorklist, Universe' = Universe, Left' = Left
  PROVE  Found'
<1>1. /\ UNCHANGED <<rest, arg>> /\ work' = result'
      /\ result' = Seeds /\ within' = Allowed
  BY DEF StartWorklist, Worklist, Seeds, Allowed
<1>2. Seeds' = Seeds /\ Allowed' = Allowed
  BY <1>1 DEF Seeds, Allowed, Not, Right, Op, StartWorklist
<1>. QED  BY <1>1, <1>2 DEF Found, Closed

\* The label read off an empty worklist is the meaning of the operator.
LEMMA EndIsExact ==
  ASSUME Labelled, EndWorklist, Op # "AU", Universe' = Universe, Edges' = Edges,
         Left' = Left
  PROVE  ReachLabelIsExact'
<1>. USE DEF Labelled
<1>1. /\ pc = "until" /\ work = {} /\ UNCHANGED <<rest, arg>>
      /\ sat' = IF Op = "AG" THEN Not(result) ELSE result
  BY DEF EndWorklist, list
<1>2. Op \in {"EF", "AG", "EU"} /\ within = Allowed
  BY <1>1 DEF Typed, Phase, Found
<1>3. result = ExistsUntil(Universe, Edges, Allowed, Seeds)
  BY <1>1, <1>2, EmptyWorklist
<1>4. sat' = Meaning(Op, Universe, Edges, Left, Right)
  <2>1. CASE Op = "EF"
    BY <1>1, <1>3, <2>1 DEF Meaning, Seeds, Allowed, Right
  <2>2. CASE Op = "EU"
    BY <1>1, <1>3, <2>2 DEF Meaning, Seeds, Allowed
  <2>3. CASE Op = "AG"
    BY <1>1, <1>3, <2>3 DEF Meaning, Seeds, Allowed, Not, Right
  <2>. QED  BY <1>2, <2>1, <2>2, <2>3
<1>5. Op' = Op /\ Right' = Right
  BY <1>1 DEF Op, Right
<1>. QED  BY <1>4, <1>5 DEF ReachLabelIsExact

\* EX and AX are labelled by their definition.
LEMMA AtOnceIsExact ==
  ASSUME Labelled, LabelAtOnce, Universe' = Universe, Edges' = Edges, Left' = Left
  PROVE  ReachLabelIsExact'
<1>1. UNCHANGED <<rest, arg>> /\ Op \in {"EX", "AX", "IMP"}
  BY DEF LabelAtOnce
<1>2. Op' = Op /\ Right' = Right
  BY <1>1 DEF Op, Right
<1>3. Op \in {"EX", "AX"} => sat' = Meaning(Op, Universe, Edges, Left, Right)
  BY DEF LabelAtOnce, Meaning, Right
<1>. QED  BY <1>1, <1>2, <1>3 DEF ReachLabelIsExact

\* The phases of EG, AF and AU end in no label of the other operators.
LEMMA NextLabelled == Labelled /\ [Next]_vars => Labelled'
<1>. SUFFICES ASSUME Labelled, [Next]_vars PROVE Labelled'
  OBVIOUS
<1>0. /\ job' = job /\ Universe' = Universe /\ Edges' = Edges /\ Left' = Left
      /\ Typed /\ Typed'
  BY JobIsFixed, NextTyped DEF Labelled
<1>. USE DEF Labelled
<1>1. CASE LabelAtOnce
  BY <1>0, <1>1, AtOnceIsExact DEF LabelAtOnce, Found
<1>2. CASE StartWorklist
  BY <1>0, <1>2, StartFinds DEF StartWorklist, ReachLabelIsExact
<1>3. CASE EndWorklist
  <2>1. CASE Op = "AU"
    <3>1. pc' \in {"scc", "fair"}
      BY <1>3, <2>1 DEF EndWorklist, StartEG
    <3>. QED  BY <1>0, <3>1 DEF Found, ReachLabelIsExact
  <2>2. CASE Op # "AU"
    <3>1. pc' = "labelled"
      BY <1>3, <2>2 DEF EndWorklist
    <3>. QED  BY <1>0, <1>3, <2>2, <3>1, EndIsExact DEF Found
  <2>. QED  BY <2>1, <2>2
<1>4. ASSUME NEW s \in Node, Pop(s)  PROVE Labelled'
  <2>1. pc' = pc /\ pc # "labelled"
    BY <1>4 DEF Pop
  <2>2. Found'
    BY <1>0, <1>4, <2>1, PopFinds DEF Found
  <2>. QED  BY <1>0, <2>1, <2>2 DEF ReachLabelIsExact
<1>5. CASE StartCycle
  <2>1. pc' \in {"scc", "fair"}
    BY <1>5 DEF StartCycle, StartEG
  <2>. QED  BY <1>0, <2>1 DEF Found, ReachLabelIsExact
<1>6. CASE FindComponents \/ StartBack \/ KeepReaching \/ EndRound
           \/ \E F \in left : ApplyCondition(F)
  <2>1. pc' \in {"scc", "back", "fair", "reach"}
    BY <1>6 DEF FindComponents, StartBack, KeepReaching, EndRound, ApplyCondition
  <2>. QED  BY <1>0, <2>1 DEF Found, ReachLabelIsExact
<1>7. CASE EndBack
  <2>1. pc' = "labelled" /\ Op' = Op /\ Op \in {"EG", "AF", "AU"}
    BY <1>0, <1>7 DEF EndBack, Typed, Phase, Op
  <2>. QED  BY <1>0, <2>1 DEF Found, ReachLabelIsExact
<1>8. CASE NextOperator \/ Pass \/ \E s \in Node : Violation(s)
  <2>1. pc' \in {"op", "done"}
    BY <1>8 DEF NextOperator, Pass, Violation
  <2>. QED  BY <1>0, <2>1 DEF Found, ReachLabelIsExact
<1>9. CASE UNCHANGED vars
  <2>1. UNCHANGED <<pc, rest, arg, sat, result, work, within>>
    BY <1>9 DEF vars
  <2>2. Op' = Op /\ Right' = Right /\ Seeds' = Seeds /\ Allowed' = Allowed
    BY <1>0, <2>1 DEF Op, Right, Seeds, Allowed, Not
  <2>3. Found'
    BY <1>0, <2>1, <2>2 DEF Found, Closed
  <2>. QED  BY <1>0, <2>1, <2>2, <2>3 DEF ReachLabelIsExact
<1>. QED  BY <1>1, <1>2, <1>3, <1>4, <1>5, <1>6, <1>7, <1>8, <1>9 DEF Next, Finished

\* EX, AX, EF, AG and EU are labelled with the least fixpoint of the operator on
\* every graph and in every worklist order.
THEOREM ReachLabelExact == Spec => []ReachLabelIsExact
<1>1. Init => Labelled
  BY InitTyped DEF Init, Labelled, Found, ReachLabelIsExact
<1>2. Spec => []Labelled
  BY <1>1, NextLabelled, PTL DEF Spec
<1>3. Labelled => ReachLabelIsExact
  BY DEF Labelled
<1>. QED  BY <1>2, <1>3, PTL

(***************************************************************************)
(* Tarjan's algorithm finds the strongly connected components of every     *)
(* graph, whatever the order of its loops, EG, AF and AU, which the        *)
(* temporal engine labels by way of the components, are labelled with      *)
(* their fixpoints, and under fairness no fair path is lost.               *)
(***************************************************************************)

-----------------------------------------------------------------------------
(* Reachability: ReachFrom(v) is the least closed set that contains v.     *)

Inside == graph.edge \subseteq graph.node \X graph.node

LEMMA ReachSelf ==
  ASSUME NEW v \in graph.node
  PROVE  v \in ReachFrom(v)
BY DEF ReachFrom

LEMMA ReachLeast ==
  ASSUME NEW v, NEW C \in SUBSET graph.node, v \in C,
         \A e \in graph.edge : e[1] \in C => e[2] \in C
  PROVE  ReachFrom(v) \subseteq C
BY DEF ReachFrom

LEMMA ReachEdge ==
  ASSUME Inside, NEW v, NEW e \in graph.edge, e[1] \in ReachFrom(v)
  PROVE  e[2] \in ReachFrom(v)
<1>1. e[2] \in graph.node
  BY DEF Inside
<1>2. ASSUME NEW C \in SUBSET graph.node, v \in C,
             \A d \in graph.edge : d[1] \in C => d[2] \in C
      PROVE  e[2] \in C
  BY <1>2 DEF ReachFrom
<1>. QED  BY <1>1, <1>2 DEF ReachFrom

LEMMA ReachTrans ==
  ASSUME Inside, NEW v, NEW u \in ReachFrom(v)
  PROVE  ReachFrom(u) \subseteq ReachFrom(v)
<1>1. ReachFrom(v) \subseteq graph.node
  BY DEF ReachFrom
<1>. QED  BY <1>1, ReachEdge, ReachLeast

-----------------------------------------------------------------------------
(* The invariant. A node of an active call is gray; what is visited is on  *)
(* the stack until it is assigned to a component. Each node on the stack   *)
(* belongs to the innermost call that began no later than it was visited.  *)

Stacked  == {stack[i] : i \in DOMAIN stack}
Assigned == UNION {sccs[i] : i \in DOMAIN sccs}
Gray(k)  == calls[k][1]

\* A successor that is not visited is still to be examined by an active call.
Visits ==
  /\ DOMAIN index = Stacked \cup Assigned /\ Stacked \cap Assigned = {}
  /\ \A k \in DOMAIN calls : calls[k][2] \subseteq Successors(Gray(k))
  /\ \A e \in graph.edge : e[1] \in DOMAIN index /\ e[2] \notin DOMAIN index =>
       \E k \in DOMAIN calls : e[1] = Gray(k) /\ e[2] \in calls[k][2]

\* A node on the stack reaches a gray node before it and is reached by all of them.
Paths ==
  /\ \A u \in Stacked : \E k \in DOMAIN calls :
       index[Gray(k)] <= index[u] /\ Gray(k) \in ReachFrom(u)
  /\ \A k \in DOMAIN calls : \A u \in Stacked :
       index[Gray(k)] <= index[u] => u \in ReachFrom(Gray(k))

Owns(k, u) ==
  index[Gray(k)] <= index[u] /\ (k # Len(calls) => index[u] < index[Gray(k + 1)])

\* A lowlink is the index of a node that is reached, and is no larger than that
\* of any node that a node of the call has an examined edge to.
Lows ==
  /\ \A v \in Stacked : /\ low[v] <= index[v]
                        /\ \E w \in Stacked : index[w] = low[v] /\ w \in ReachFrom(v)
  /\ \A k \in DOMAIN calls : \A e \in graph.edge :
       /\ e[1] \in Stacked /\ e[2] \in Stacked /\ Owns(k, e[1])
       /\ ~(e[1] = Gray(k) /\ e[2] \in calls[k][2])
       => low[Gray(k)] <= index[e[2]]

Classes ==
  /\ \A i \in DOMAIN sccs : \A v \in sccs[i] : sccs[i] = {w \in graph.node : Mutual(v, w)}
  /\ \A i \in DOMAIN sccs : \A e \in graph.edge :
       e[1] \in sccs[i] => \E j \in 1..i : e[2] \in sccs[j]

Tracing == TarjanInv /\ Visits /\ Paths /\ Lows /\ Classes

LEMMA Basics ==
  ASSUME TarjanInv
  PROVE  /\ Inside /\ Stacked \subseteq DOMAIN index /\ DOMAIN index \subseteq graph.node
         /\ \A u \in DOMAIN index : index[u] \in Nat /\ low[u] \in Nat
         /\ Len(calls) \in Nat /\ DOMAIN calls = 1..Len(calls)
         /\ \A k \in DOMAIN calls : Gray(k) \in Stacked
         /\ \A j, k \in DOMAIN calls : j < k => index[Gray(j)] < index[Gray(k)]
<1>1. TarjanTypeOK
  BY DEF TarjanInv
<1>2. stack \in Seq(DOMAIN index) /\ calls \in Seq((DOMAIN index) \X (SUBSET graph.node))
  BY <1>1 DEF TarjanTypeOK
<1>3. Stacked \subseteq DOMAIN index
  BY <1>2 DEF Stacked
<1>4. \A u \in DOMAIN index : index[u] \in Nat /\ low[u] \in Nat
  BY <1>1 DEF TarjanTypeOK
<1>5. Len(calls) \in Nat /\ DOMAIN calls = 1..Len(calls)
  BY <1>2
<1>6. \A k \in DOMAIN calls : Gray(k) \in Stacked
  BY DEF TarjanInv, CallersOnStack, OnStack, Gray, Stacked
<1>7. \A j, k \in DOMAIN calls : j < k => index[Gray(j)] < index[Gray(k)]
  BY DEF TarjanInv, InOrder, Gray
<1>. QED  BY <1>1, <1>3, <1>4, <1>5, <1>6, <1>7 DEF TarjanTypeOK, Inside

-----------------------------------------------------------------------------
(* A new call. Its node is the last one visited, so it owns only itself.   *)

LEMMA EnterTraces ==
  ASSUME Tracing, TarjanInv', NEW v \in graph.node, NEW outer, Enter(v, outer),
         outer \in Seq((DOMAIN index) \X (SUBSET graph.node)), Len(outer) = Len(calls),
         \A k \in DOMAIN calls : /\ outer[k][1] = Gray(k)
                                 /\ outer[k][2] \subseteq calls[k][2]
                                 /\ calls[k][2] \ {v} \subseteq outer[k][2],
         calls # <<>> => <<Gray(Len(calls)), v>> \in graph.edge
  PROVE  Tracing'
<1>. DEFINE n == Cardinality(DOMAIN index)
            m == Len(calls) + 1
            New(k) == calls'[k][1]
<1>1. /\ Inside /\ Stacked \subseteq DOMAIN index /\ DOMAIN index \subseteq graph.node
      /\ \A u \in DOMAIN index : index[u] \in Nat /\ low[u] \in Nat
      /\ Len(calls) \in Nat /\ DOMAIN calls = 1..Len(calls)
      /\ \A k \in DOMAIN calls : Gray(k) \in Stacked
      /\ \A j, k \in DOMAIN calls : j < k => index[Gray(j)] < index[Gray(k)]
  BY Basics DEF Tracing
<1>2. v \notin DOMAIN index /\ n \in Nat /\ \A u \in DOMAIN index : index[u] < n
  BY FS_CardinalityType DEF Enter, Tracing, TarjanInv, InOrder
<1>3. /\ DOMAIN index' = DOMAIN index \cup {v}
      /\ \A u \in DOMAIN index : index'[u] = index[u] /\ low'[u] = low[u]
      /\ index'[v] = n /\ low'[v] = n
  BY <1>2 DEF Enter, Tracing, TarjanInv, TarjanTypeOK
<1>. HIDE DEF n
<1>4. Stacked' = Stacked \cup {v}
  <2>1. stack \in Seq(DOMAIN index) /\ stack' = Append(stack, v)
    BY DEF Enter, Tracing, TarjanInv, TarjanTypeOK
  <2>2. DOMAIN stack' = DOMAIN stack \cup {Len(stack) + 1}
    BY <2>1
  <2>3. /\ \A i \in DOMAIN stack : stack'[i] = stack[i]
        /\ stack'[Len(stack) + 1] = v
    BY <2>1
  <2>. QED  BY <2>2, <2>3 DEF Stacked
<1>5. /\ graph' = graph /\ sccs' = sccs
      /\ Successors(v) \subseteq graph.node
      /\ DOMAIN calls' = DOMAIN calls \cup {m} /\ Len(calls') = m
      /\ calls'[m] = <<v, Successors(v)>>
      /\ \A k \in DOMAIN calls : calls'[k] = outer[k]
  <2>1. calls' = Append(outer, <<v, Successors(v)>>) /\ graph' = graph /\ sccs' = sccs
    BY DEF Enter
  <2>2. Successors(v) \subseteq graph.node
    BY <1>1 DEF Successors, Inside
  <2>. QED  BY <1>1, <2>1, <2>2
<1>6. New(m) = v /\ \A k \in DOMAIN calls : New(k) = Gray(k)
  BY <1>5 DEF Gray
<1>7. \A u : ReachFrom(u)' = ReachFrom(u) /\ Successors(u)' = Successors(u)
  BY <1>5 DEF ReachFrom, Successors
<1>8. m \in Nat /\ m \notin DOMAIN calls /\ \A k \in DOMAIN calls : k < m
  BY <1>1
<1>. HIDE DEF m
<1>9. Visits'
  <2>1. DOMAIN index' = Stacked' \cup Assigned' /\ Stacked' \cap Assigned' = {}
    BY <1>2, <1>3, <1>4, <1>5 DEF Tracing, Visits, Assigned
  <2>2. ASSUME NEW k \in DOMAIN calls'
        PROVE  calls'[k][2] \subseteq Successors(New(k))
    <3>1. CASE k = m
      BY <1>5, <1>6, <3>1
    <3>2. CASE k # m
      BY <1>5, <1>6, <3>2 DEF Tracing, Visits
    <3>. QED  BY <3>1, <3>2
  <2>3. ASSUME NEW e \in graph.edge, e[1] \in DOMAIN index', e[2] \notin DOMAIN index'
        PROVE  \E k \in DOMAIN calls' : e[1] = New(k) /\ e[2] \in calls'[k][2]
    <3>1. CASE e[1] = v
      <4>1. e[2] \in Successors(v)
        BY <3>1 DEF Successors
      <4>. QED  BY <1>5, <1>6, <3>1, <4>1
    <3>2. CASE e[1] # v
      <4>1. e[1] \in DOMAIN index /\ e[2] \notin DOMAIN index /\ e[2] # v
        BY <1>3, <2>3, <3>2
      <4>2. PICK k \in DOMAIN calls : e[1] = Gray(k) /\ e[2] \in calls[k][2]
        BY <4>1 DEF Tracing, Visits
      <4>. QED  BY <1>5, <1>6, <4>1, <4>2
    <3>. QED  BY <3>1, <3>2
  <2>. QED  BY <1>5, <1>7, <2>1, <2>2, <2>3 DEF Visits, Gray
<1>10. Paths'
  <2>1. ASSUME NEW u \in Stacked'
        PROVE  \E k \in DOMAIN calls' : index'[New(k)] <= index'[u] /\ New(k) \in ReachFrom(u)
    <3>1. CASE u = v
      BY <1>2, <1>3, <1>5, <1>6, <3>1, ReachSelf
    <3>2. CASE u # v
      <4>1. u \in Stacked
        BY <1>4, <3>2
      <4>2. PICK k \in DOMAIN calls : index[Gray(k)] <= index[u] /\ Gray(k) \in ReachFrom(u)
        BY <4>1 DEF Tracing, Paths
      <4>. QED  BY <1>1, <1>3, <1>5, <1>6, <4>1, <4>2
    <3>. QED  BY <3>1, <3>2
  <2>2. ASSUME NEW k \in DOMAIN calls', NEW u \in Stacked', index'[New(k)] <= index'[u]
        PROVE  u \in ReachFrom(New(k))
    <3>1. CASE k = m
      <4>1. u = v
        BY <1>1, <1>2, <1>3, <1>4, <1>6, <2>2, <3>1
      <4>. QED  BY <1>6, <3>1, <4>1, ReachSelf
    <3>2. CASE k # m /\ u # v
      <4>1. k \in DOMAIN calls /\ u \in Stacked /\ Gray(k) \in Stacked /\ New(k) = Gray(k)
        BY <1>1, <1>4, <1>5, <1>6, <3>2
      <4>2. index[Gray(k)] <= index[u]
        BY <1>1, <1>3, <2>2, <4>1
      <4>. QED  BY <4>1, <4>2 DEF Tracing, Paths
    <3>3. CASE k # m /\ u = v
      <4>1. k \in DOMAIN calls /\ Len(calls) \in DOMAIN calls /\ calls # <<>>
            /\ (k = Len(calls) \/ k < Len(calls))
        BY <1>1, <1>5, <3>3
      <4>2. index[Gray(k)] <= index[Gray(Len(calls))]
        BY <1>1, <4>1
      <4>3. Gray(Len(calls)) \in ReachFrom(Gray(k))
        BY <1>1, <4>1, <4>2 DEF Tracing, Paths
      <4>4. v \in ReachFrom(Gray(k))
        BY <1>1, <4>1, <4>3, ReachEdge
      <4>. QED  BY <1>6, <3>3, <4>1, <4>4
    <3>. QED  BY <3>1, <3>2, <3>3
  <2>. QED  BY <1>7, <2>1, <2>2 DEF Paths, Gray
<1>11. Lows'
  <2>1. ASSUME NEW u \in Stacked'
        PROVE  /\ low'[u] <= index'[u]
               /\ \E w \in Stacked' : index'[w] = low'[u] /\ w \in ReachFrom(u)
    <3>1. CASE u = v
      BY <1>2, <1>3, <1>4, <3>1, ReachSelf
    <3>2. CASE u # v
      <4>1. PICK w \in Stacked : index[w] = low[u] /\ w \in ReachFrom(u) /\ low[u] <= index[u]
        BY <1>4, <3>2 DEF Tracing, Lows
      <4>. QED  BY <1>1, <1>3, <1>4, <3>2, <4>1
    <3>. QED  BY <3>1, <3>2
  <2>2. ASSUME NEW k \in DOMAIN calls', NEW e \in graph.edge,
               e[1] \in Stacked', e[2] \in Stacked', Owns(k, e[1])',
               ~(e[1] = New(k) /\ e[2] \in calls'[k][2])
        PROVE  low'[New(k)] <= index'[e[2]]
    <3>1. CASE k = m
      <4>1. e[1] = v
        BY <1>1, <1>2, <1>3, <1>4, <1>6, <2>2, <3>1 DEF Owns, Gray
      <4>2. e[2] \in Successors(v)
        BY <4>1 DEF Successors
      <4>. QED  BY <1>5, <1>6, <2>2, <3>1, <4>1, <4>2
    <3>2. CASE k # m
      <4>1. /\ k \in DOMAIN calls /\ k < m /\ k + 1 \in DOMAIN calls' /\ k # Len(calls')
            /\ k # Len(calls) => k + 1 \in DOMAIN calls
        BY <1>1, <1>5, <1>8, <3>2 DEF m
      <4>2. Gray(k) \in Stacked /\ low[Gray(k)] <= index[Gray(k)]
        BY <1>1, <4>1 DEF Tracing, Lows
      <4>3. /\ index'[New(k)] <= index'[e[1]] /\ index'[e[1]] < index'[New(k + 1)]
        BY <2>2, <4>1 DEF Owns, Gray
      <4>4. e[1] # v
        BY <1>1, <1>2, <1>3, <1>4, <1>5, <1>6, <4>1, <4>3
      <4>5. CASE e[2] = v
        <5>1. New(k) = Gray(k) /\ Gray(k) \in DOMAIN index /\ index'[e[2]] = n
          BY <1>1, <1>3, <1>6, <4>1, <4>2, <4>5
        <5>2. index[Gray(k)] < n /\ index[Gray(k)] \in Nat /\ low[Gray(k)] \in Nat
          BY <1>1, <1>2, <5>1
        <5>3. low'[New(k)] = low[Gray(k)]
          BY <1>3, <5>1
        <5>. QED  BY <1>2, <4>2, <5>1, <5>2, <5>3
      <4>6. CASE e[2] # v
        <5>1. e[1] \in Stacked /\ e[2] \in Stacked
          BY <1>4, <2>2, <4>4, <4>6
        <5>2. Owns(k, e[1])
          BY <1>1, <1>3, <1>6, <4>1, <4>3, <5>1 DEF Owns
        <5>3. ~(e[1] = Gray(k) /\ e[2] \in calls[k][2])
          BY <1>5, <1>6, <2>2, <4>1, <4>6
        <5>4. low[Gray(k)] <= index[e[2]]
          BY <4>1, <5>1, <5>2, <5>3 DEF Tracing, Lows
        <5>5. low'[New(k)] = low[Gray(k)] /\ index'[e[2]] = index[e[2]]
          BY <1>1, <1>3, <1>6, <4>1, <4>2, <5>1
        <5>. QED  BY <5>4, <5>5
      <4>. QED  BY <4>5, <4>6
    <3>. QED  BY <3>1, <3>2
  <2>. QED  BY <1>5, <1>7, <2>1, <2>2 DEF Lows, Gray
<1>12. Classes'
  BY <1>5, <1>7 DEF Tracing, Classes, Mutual
<1>. QED  BY <1>9, <1>10, <1>11, <1>12 DEF Tracing

-----------------------------------------------------------------------------
(* A look at a visited successor.                                          *)

\* Lowering a lowlink changes it to the lower number, and no other.
LEMMA LowerLow ==
  ASSUME TarjanInv, NEW v \in DOMAIN index, NEW n \in Nat
  PROVE  /\ \A u \in DOMAIN index : u # v => Lower(v, n)[u] = low[u]
         /\ Lower(v, n)[v] = IF n < low[v] THEN n ELSE low[v]
BY DEF TarjanInv, TarjanTypeOK, Lower

LEMMA LookAtTraces ==
  ASSUME Tracing, TarjanInv', NEW w \in graph.node, LookAt(w)
  PROVE  Tracing'
<1>. DEFINE m == Len(calls)
            c == Gray(m)
            New(k) == calls'[k][1]
<1>1. /\ Inside /\ Stacked \subseteq DOMAIN index /\ DOMAIN index \subseteq graph.node
      /\ \A u \in DOMAIN index : index[u] \in Nat /\ low[u] \in Nat
      /\ Len(calls) \in Nat /\ DOMAIN calls = 1..Len(calls)
      /\ \A k \in DOMAIN calls : Gray(k) \in Stacked
      /\ \A j, k \in DOMAIN calls : j < k => index[Gray(j)] < index[Gray(k)]
  BY Basics DEF Tracing
<1>2. /\ calls # <<>> /\ w \in Caller[2] /\ w \in DOMAIN index /\ calls' = Examine(w)
      /\ UNCHANGED <<graph, index, stack, sccs>>
      /\ low' = IF OnStack(w) THEN Lower(Caller[1], index[w]) ELSE low
  BY DEF LookAt
<1>3. /\ m \in DOMAIN calls /\ c \in Stacked /\ c = Caller[1]
      /\ w \in calls[m][2]
  BY <1>1, <1>2 DEF Caller, Gray
<1>4. <<c, w>> \in graph.edge
  <2>1. w \in Successors(c)
    BY <1>3 DEF Tracing, Visits
  <2>2. PICK e \in graph.edge : e[1] = c /\ e[2] = w
    BY <2>1 DEF Successors
  <2>. QED  BY <1>1, <2>2 DEF Inside
<1>5. /\ DOMAIN calls' = DOMAIN calls /\ Len(calls') = Len(calls)
      /\ \A k \in DOMAIN calls : New(k) = Gray(k)
      /\ \A k \in DOMAIN calls : k # m => calls'[k][2] = calls[k][2]
      /\ calls'[m][2] = calls[m][2] \ {w}
  <2>1. Outer \in Seq((DOMAIN index) \X (SUBSET graph.node)) /\ Len(Outer) = Len(calls) - 1
        /\ \A i \in DOMAIN Outer : Outer[i] = calls[i]
    BY <1>2, Calls DEF Tracing
  <2>2. calls' = Append(Outer, <<Caller[1], Caller[2] \ {w}>>)
    BY <1>2 DEF Examine
  <2>3. Len(calls') = Len(calls) /\ DOMAIN calls' = DOMAIN calls
    BY <1>1, <1>2, ExamineKeepsOrder DEF Tracing
  <2>4. calls'[m] = <<Caller[1], Caller[2] \ {w}>>
    BY <1>1, <2>1, <2>2
  <2>5. ASSUME NEW k \in DOMAIN calls, k # m
        PROVE  calls'[k] = calls[k]
    <3>1. k \in DOMAIN Outer
      BY <1>1, <2>1, <2>5
    <3>. QED  BY <2>1, <2>2, <3>1
  <2>. QED  BY <2>3, <2>4, <2>5 DEF Caller, Gray
<1>6. /\ Stacked' = Stacked /\ Assigned' = Assigned
      /\ \A u : ReachFrom(u)' = ReachFrom(u) /\ Successors(u)' = Successors(u)
      /\ \A k \in DOMAIN calls : \A u : Owns(k, u)' <=> Owns(k, u)
  <2>1. Stacked' = Stacked /\ Assigned' = Assigned
        /\ \A u : ReachFrom(u)' = ReachFrom(u) /\ Successors(u)' = Successors(u)
    BY <1>2 DEF Stacked, Assigned, ReachFrom, Successors
  <2>2. ASSUME NEW k \in DOMAIN calls, NEW u
        PROVE  Owns(k, u)' <=> Owns(k, u)
    <3>1. k # Len(calls) => k + 1 \in DOMAIN calls
      BY <1>1
    <3>. QED  BY <1>2, <1>5, <3>1 DEF Owns, Gray
  <2>. QED  BY <2>1, <2>2
<1>7. /\ \A u \in DOMAIN index : u # c => low'[u] = low[u]
      /\ w \in Stacked => low'[c] = IF index[w] < low[c] THEN index[w] ELSE low[c]
      /\ w \notin Stacked => low'[c] = low[c]
  <2>1. OnStack(w) <=> w \in Stacked
    BY DEF OnStack, Stacked
  <2>. QED  BY <1>1, <1>2, <1>3, <2>1, LowerLow DEF Tracing
<1>. HIDE DEF m, c
<1>8. \A u \in DOMAIN index : low'[u] <= low[u]
  BY <1>1, <1>2, <1>3, <1>7
<1>9. Visits'
  <2>1. ASSUME NEW e \in graph.edge, e[1] \in DOMAIN index, e[2] \notin DOMAIN index
        PROVE  \E k \in DOMAIN calls : e[1] = New(k) /\ e[2] \in calls'[k][2]
    <3>1. PICK k \in DOMAIN calls : e[1] = Gray(k) /\ e[2] \in calls[k][2]
      BY <2>1 DEF Tracing, Visits
    <3>. QED  BY <1>2, <1>5, <2>1, <3>1
  <2>2. \A k \in DOMAIN calls : calls'[k][2] \subseteq Successors(New(k))
    BY <1>3, <1>5 DEF Tracing, Visits
  <2>. QED  BY <1>2, <1>5, <1>6, <2>1, <2>2 DEF Tracing, Visits, Gray
<1>10. Paths'
  BY <1>2, <1>5, <1>6 DEF Tracing, Paths, Gray
<1>11. Lows'
  <2>1. ASSUME NEW u \in Stacked
        PROVE  low'[u] <= index[u] /\ \E x \in Stacked : index[x] = low'[u] /\ x \in ReachFrom(u)
    <3>1. PICK x \in Stacked : index[x] = low[u] /\ x \in ReachFrom(u) /\ low[u] <= index[u]
      BY DEF Tracing, Lows
    <3>2. CASE low'[u] = low[u]
      BY <3>1, <3>2
    <3>3. CASE low'[u] # low[u]
      <4>1. u = c /\ w \in Stacked /\ low'[u] = index[w]
        BY <1>1, <1>7, <3>3
      <4>2. w \in ReachFrom(u)
        BY <1>1, <1>4, <4>1, ReachSelf, ReachEdge
      <4>. QED  BY <1>1, <1>8, <3>1, <4>1, <4>2
    <3>. QED  BY <3>2, <3>3
  <2>2. ASSUME NEW k \in DOMAIN calls, NEW e \in graph.edge,
               e[1] \in Stacked, e[2] \in Stacked, Owns(k, e[1]),
               ~(e[1] = New(k) /\ e[2] \in calls'[k][2])
        PROVE  low'[New(k)] <= index[e[2]]
    <3>1. Gray(k) \in DOMAIN index /\ e[2] \in DOMAIN index /\ New(k) = Gray(k)
          /\ low'[Gray(k)] <= low[Gray(k)] /\ low[Gray(k)] \in Nat
          /\ index[e[2]] \in Nat
      BY <1>1, <1>5, <1>8, <2>2
    <3>2. CASE ~(e[1] = Gray(k) /\ e[2] \in calls[k][2])
      <4>1. low[Gray(k)] <= index[e[2]]
        BY <2>2, <3>2 DEF Tracing, Lows
      <4>2. low'[Gray(k)] \in Nat
        BY <1>1, <1>2, <1>7, <3>1
      <4>. QED  BY <3>1, <4>1, <4>2
    <3>3. CASE e[1] = Gray(k) /\ e[2] \in calls[k][2]
      <4>1. k = m /\ e[2] = w
        BY <1>5, <2>2, <3>1, <3>3
      <4>2. New(k) = c
        BY <1>5, <4>1 DEF c
      <4>. QED  BY <1>1, <1>2, <1>3, <1>7, <2>2, <4>1, <4>2
    <3>. QED  BY <3>2, <3>3
  <2>3. \A k \in DOMAIN calls : Gray(k)' = New(k)
    BY DEF Gray
  <2>. QED  BY <1>2, <1>5, <1>6, <2>1, <2>2, <2>3 DEF Lows
<1>12. Classes'
  BY <1>2, <1>6 DEF Tracing, Classes, Mutual
<1>. QED  BY <1>9, <1>10, <1>11, <1>12 DEF Tracing

-----------------------------------------------------------------------------
(* The end of a call. What the nodes on the stack from its node on reach   *)
(* is on the stack from its lowlink on, or assigned.                       *)

Above(v) == {u \in Stacked : index[u] >= index[v]}

\* The calls that remain, and that nothing else is unvisited.
LEMMA ReturnBasics ==
  ASSUME Tracing, NEW v \in graph.node, Return(v)
  PROVE  /\ Len(calls) \in DOMAIN calls /\ v = Gray(Len(calls)) /\ v \in Stacked
         /\ calls[Len(calls)][2] = {}
         /\ Len(calls') = Len(calls) - 1 /\ DOMAIN calls' = 1..(Len(calls) - 1)
         /\ DOMAIN calls' \subseteq DOMAIN calls
         /\ \A k \in DOMAIN calls' : calls'[k] = calls[k] /\ index[Gray(k)] < index[v]
         /\ \A k \in DOMAIN calls : k \in DOMAIN calls' \/ k = Len(calls)
         /\ graph' = graph /\ index' = index
<1>1. /\ calls # <<>> /\ Caller = <<v, {}>> /\ calls' = Outer
      /\ graph' = graph /\ index' = index
  BY DEF Return
<1>2. /\ Len(calls) \in Nat /\ DOMAIN calls = 1..Len(calls)
      /\ \A k \in DOMAIN calls : Gray(k) \in Stacked
      /\ \A j, k \in DOMAIN calls : j < k => index[Gray(j)] < index[Gray(k)]
  BY Basics DEF Tracing
<1>3. /\ Outer \in Seq((DOMAIN index) \X (SUBSET graph.node)) /\ Len(Outer) = Len(calls) - 1
      /\ Len(calls) \in DOMAIN calls
      /\ \A i \in DOMAIN Outer : i \in DOMAIN calls /\ i < Len(calls) /\ Outer[i] = calls[i]
  BY <1>1, Calls DEF Tracing
<1>4. v = Gray(Len(calls)) /\ calls[Len(calls)][2] = {}
  BY <1>1 DEF Caller, Gray
<1>5. DOMAIN Outer = 1..(Len(calls) - 1)
  BY <1>3
<1>. QED  BY <1>1, <1>2, <1>3, <1>4, <1>5

\* An edge from above v leads to a node that is assigned or on the stack, no
\* lower than the lowlink of v.
LEMMA EdgesAbove ==
  ASSUME Tracing, NEW v \in graph.node, Return(v), NEW e \in graph.edge, e[1] \in Above(v)
  PROVE  e[2] \in Assigned \/ (e[2] \in Stacked /\ low[v] <= index[e[2]])
<1>1. /\ Len(calls) \in DOMAIN calls /\ v = Gray(Len(calls)) /\ v \in Stacked
      /\ calls[Len(calls)][2] = {}
      /\ \A k \in DOMAIN calls : k \in DOMAIN calls' \/ k = Len(calls)
      /\ \A k \in DOMAIN calls' : index[Gray(k)] < index[v]
  BY ReturnBasics
<1>2. /\ Stacked \subseteq DOMAIN index
      /\ \A u \in DOMAIN index : index[u] \in Nat /\ low[u] \in Nat
  BY Basics DEF Tracing
<1>3. e[1] \in Stacked /\ index[e[1]] >= index[v]
  BY DEF Above
<1>4. e[2] \in DOMAIN index
  <2>1. SUFFICES ASSUME e[2] \notin DOMAIN index PROVE FALSE
    OBVIOUS
  <2>2. PICK k \in DOMAIN calls : e[1] = Gray(k) /\ e[2] \in calls[k][2]
    BY <1>2, <1>3, <2>1 DEF Tracing, Visits
  <2>. QED  BY <1>1, <1>2, <1>3, <2>2
<1>5. CASE e[2] \in Stacked
  <2>1. Owns(Len(calls), e[1])
    BY <1>1, <1>2, <1>3 DEF Owns
  <2>. QED  BY <1>1, <1>3, <1>5, <2>1 DEF Tracing, Lows
<1>. QED  BY <1>4, <1>5 DEF Tracing, Visits

\* Every node above v reaches a gray node, and v reaches every node above it.
LEMMA PathsAbove ==
  ASSUME Tracing, NEW v \in graph.node, Return(v), NEW u \in Above(v)
  PROVE  u \in ReachFrom(v) /\ v \in ReachFrom(u)
<1>1. /\ Len(calls) \in DOMAIN calls /\ v = Gray(Len(calls)) /\ v \in Stacked
      /\ \A k \in DOMAIN calls : k \in DOMAIN calls' \/ k = Len(calls)
      /\ \A k \in DOMAIN calls' : index[Gray(k)] < index[v]
  BY ReturnBasics
<1>2. /\ Inside /\ Stacked \subseteq DOMAIN index /\ \A x \in DOMAIN index : index[x] \in Nat
      /\ \A k \in DOMAIN calls : Gray(k) \in Stacked
  BY Basics DEF Tracing
<1>3. u \in Stacked /\ index[v] <= index[u]
  BY <1>1, <1>2 DEF Above
<1>4. u \in ReachFrom(v)
  BY <1>1, <1>3 DEF Tracing, Paths
<1>5. PICK k \in DOMAIN calls : index[Gray(k)] <= index[u] /\ Gray(k) \in ReachFrom(u)
  BY <1>3 DEF Tracing, Paths
<1>6. index[Gray(k)] <= index[v]
  BY <1>1, <1>2
<1>7. v \in ReachFrom(Gray(k))
  BY <1>1, <1>6 DEF Tracing, Paths
<1>. QED  BY <1>2, <1>4, <1>5, <1>7, ReachTrans

\* The root of a component: what is popped is a class.
LEMMA PoppedIsClass ==
  ASSUME Tracing, NEW v \in graph.node, Return(v), low[v] = index[v]
  PROVE  /\ \A e \in graph.edge : e[1] \in Above(v) => e[2] \in Above(v) \cup Assigned
         /\ \A u \in Above(v) : Above(v) = {w \in graph.node : Mutual(u, w)}
<1>1. v \in Stacked /\ v \in Above(v)
  <2>1. v \in Stacked
    BY ReturnBasics
  <2>. QED  BY <2>1, Basics DEF Above, Tracing
<1>2. /\ Inside /\ Stacked \subseteq DOMAIN index /\ DOMAIN index \subseteq graph.node
      /\ \A u \in DOMAIN index : index[u] \in Nat
  BY Basics DEF Tracing
<1>3. ASSUME NEW e \in graph.edge, e[1] \in Above(v)
      PROVE  e[2] \in Above(v) \cup Assigned
  BY <1>1, <1>2, <1>3, EdgesAbove DEF Above
<1>4. \A e \in graph.edge : e[1] \in Assigned => e[2] \in Assigned
  <2>1. DOMAIN sccs = 1..Len(sccs) /\ Len(sccs) \in Nat
    BY DEF Tracing, TarjanInv, TarjanTypeOK
  <2>2. \A i \in DOMAIN sccs : 1..i \subseteq DOMAIN sccs
    BY <2>1
  <2>. QED  BY <2>2 DEF Tracing, Classes, Assigned
<1>5. Assigned \subseteq graph.node /\ Above(v) \subseteq graph.node
  BY <1>2 DEF Tracing, Visits, Above
<1>6. ASSUME NEW u \in Above(v), NEW w \in Above(v)
      PROVE  w \in graph.node /\ Mutual(u, w)
  <2>1. u \in ReachFrom(v) /\ v \in ReachFrom(u) /\ w \in ReachFrom(v) /\ v \in ReachFrom(w)
    BY <1>6, PathsAbove
  <2>. QED  BY <1>2, <1>5, <2>1, ReachTrans DEF Mutual
<1>7. ASSUME NEW u \in Above(v), NEW w \in graph.node, Mutual(u, w)
      PROVE  w \in Above(v)
  <2>1. ReachFrom(u) \subseteq Above(v) \cup Assigned
    BY <1>3, <1>4, <1>5, ReachLeast
  <2>2. CASE w \in Assigned
    <3>1. ReachFrom(w) \subseteq Assigned
      BY <1>4, <1>5, <2>2, ReachLeast
    <3>2. u \in Assigned
      BY <1>7, <3>1 DEF Mutual
    <3>. QED  BY <3>2 DEF Tracing, Visits, Above
  <2>. QED  BY <1>7, <2>1, <2>2 DEF Mutual
<1>. QED  BY <1>3, <1>6, <1>7

\* The pop loop takes what is above v off the stack.
LEMMA PopSplits ==
  ASSUME Tracing, NEW v \in graph.node, Return(v), low[v] = index[v]
  PROVE  /\ sccs' = Append(sccs, Above(v)) /\ sccs \in Seq(SUBSET DOMAIN index)
         /\ Stacked' = Stacked \ Above(v)
<1>. DEFINE at == CHOOSE i \in DOMAIN stack : stack[i] = v
<1>1. v \in Stacked
  BY ReturnBasics
<1>2. at \in DOMAIN stack /\ stack[at] = v
  BY <1>1 DEF Stacked
<1>3. /\ sccs' = Append(sccs, {stack[i] : i \in at..Len(stack)})
      /\ stack' = SubSeq(stack, 1, at - 1)
  BY DEF Return
<1>. HIDE DEF at
<1>4. /\ stack \in Seq(DOMAIN index) /\ sccs \in Seq(SUBSET DOMAIN index)
      /\ \A i, j \in DOMAIN stack : i < j => index[stack[i]] < index[stack[j]]
      /\ \A u \in DOMAIN index : index[u] \in Nat
  BY DEF Tracing, TarjanInv, TarjanTypeOK, InOrder
<1>5. Len(stack) \in Nat /\ DOMAIN stack = 1..Len(stack) /\ at \in 1..Len(stack)
      /\ \A i \in DOMAIN stack : index[stack[i]] \in Nat
  BY <1>2, <1>4
<1>6. ASSUME NEW i \in DOMAIN stack
      PROVE  index[stack[i]] >= index[v] <=> i >= at
  <2>1. i \in Nat /\ at \in Nat /\ index[stack[i]] \in Nat /\ index[v] \in Nat
    BY <1>2, <1>5
  <2>2. (i < at => index[stack[i]] < index[v]) /\ (at < i => index[v] < index[stack[i]])
    BY <1>2, <1>4
  <2>. QED  BY <1>2, <2>1, <2>2
<1>7. {stack[i] : i \in at..Len(stack)} = Above(v)
  <2>1. \A i \in at..Len(stack) : i \in DOMAIN stack /\ i >= at
    BY <1>5
  <2>2. \A i \in DOMAIN stack : i >= at => i \in at..Len(stack)
    BY <1>5
  <2>. QED  BY <1>6, <2>1, <2>2 DEF Above, Stacked
<1>8. Stacked' = {stack[i] : i \in 1..(at - 1)}
  <2>1. DOMAIN stack' = 1..(at - 1) /\ \A i \in 1..(at - 1) : stack'[i] = stack[i]
    BY <1>3, <1>4, <1>5
  <2>. QED  BY <2>1 DEF Stacked
<1>9. {stack[i] : i \in 1..(at - 1)} = Stacked \ Above(v)
  <2>1. \A i \in 1..(at - 1) : i \in DOMAIN stack /\ ~(i >= at)
    BY <1>5
  <2>2. \A i \in DOMAIN stack : ~(i >= at) => i \in 1..(at - 1)
    BY <1>5
  <2>3. \A i \in 1..(at - 1) : stack[i] \in Stacked /\ stack[i] \notin Above(v)
    BY <1>6, <2>1 DEF Above, Stacked
  <2>4. \A u \in Stacked \ Above(v) : \E i \in 1..(at - 1) : u = stack[i]
    BY <1>6, <2>2 DEF Above, Stacked
  <2>. QED  BY <2>3, <2>4
<1>. QED  BY <1>3, <1>4, <1>7, <1>8, <1>9

\* A call that ends without a component leaves its nodes to its caller, which
\* takes over the lowlink.
LEMMA HandOver ==
  ASSUME Tracing, TarjanInv', NEW v \in graph.node, Return(v), low[v] # index[v]
  PROVE  Tracing'
<1>. DEFINE m == Len(calls) - 1
            p == Gray(m)
<1>1. /\ Inside /\ Stacked \subseteq DOMAIN index /\ DOMAIN index \subseteq graph.node
      /\ \A u \in DOMAIN index : index[u] \in Nat /\ low[u] \in Nat
      /\ Len(calls) \in Nat /\ DOMAIN calls = 1..Len(calls)
      /\ \A k \in DOMAIN calls : Gray(k) \in Stacked
  BY Basics DEF Tracing
<1>2. /\ Len(calls) \in DOMAIN calls /\ v = Gray(Len(calls)) /\ v \in Stacked
      /\ calls[Len(calls)][2] = {}
      /\ Len(calls') = m /\ DOMAIN calls' = 1..m
      /\ DOMAIN calls' \subseteq DOMAIN calls
      /\ \A k \in DOMAIN calls' : calls'[k] = calls[k] /\ index[Gray(k)] < index[v]
      /\ \A k \in DOMAIN calls : k \in DOMAIN calls' \/ k = Len(calls)
      /\ graph' = graph /\ index' = index
  BY ReturnBasics
<1>3. PICK w \in Stacked : index[w] = low[v] /\ w \in ReachFrom(v) /\ low[v] < index[v]
  BY <1>1, <1>2 DEF Tracing, Lows
<1>4. PICK g \in DOMAIN calls' : index[Gray(g)] <= index[w] /\ Gray(g) \in ReachFrom(w)
  <2>1. PICK g \in DOMAIN calls : index[Gray(g)] <= index[w] /\ Gray(g) \in ReachFrom(w)
    BY DEF Tracing, Paths
  <2>2. g # Len(calls)
    BY <1>1, <1>2, <1>3, <2>1
  <2>. QED  BY <1>2, <2>1, <2>2
<1>5. Gray(g) \in ReachFrom(v)
  BY <1>1, <1>3, <1>4, ReachTrans
<1>6. m \in DOMAIN calls' /\ p \in Stacked /\ index[p] < index[v] /\ v \in ReachFrom(p)
  <2>1. m \in DOMAIN calls'
    BY <1>1, <1>2, <1>4
  <2>2. p \in Stacked /\ index[p] < index[v]
    BY <1>1, <1>2, <2>1
  <2>3. m \in DOMAIN calls /\ index[p] <= index[v]
    BY <1>1, <1>2, <2>1, <2>2
  <2>4. v \in ReachFrom(p)
    BY <1>2, <2>3 DEF Tracing, Paths
  <2>. QED  BY <2>1, <2>2, <2>4
<1>7. /\ stack' = stack /\ sccs' = sccs
      /\ low' = Lower(p, low[v])
  <2>1. calls' = Outer /\ stack' = stack /\ sccs' = sccs
        /\ low' = IF Outer = <<>> THEN low ELSE Lower(Outer[Len(Outer)][1], low[v])
    BY DEF Return
  <2>2. Outer # <<>> /\ Len(Outer) = m /\ Outer[m] = calls[m]
    BY <1>2, <1>6, <2>1
  <2>. QED  BY <2>1, <2>2 DEF Gray
<1>. HIDE DEF m, p
<1>8. /\ \A u \in DOMAIN index : u # p => low'[u] = low[u]
      /\ low'[p] = IF low[v] < low[p] THEN low[v] ELSE low[p]
  <2>1. TarjanInv /\ p \in DOMAIN index /\ low[v] \in Nat
    BY <1>1, <1>2, <1>6 DEF Tracing
  <2>. QED  BY <1>7, <2>1, LowerLow
<1>9. /\ \A u \in DOMAIN index : low'[u] <= low[u] /\ low'[u] \in Nat
      /\ low'[p] <= low[v]
  <2>1. low[p] \in Nat /\ low[v] \in Nat
    BY <1>1, <1>2, <1>6
  <2>2. low'[p] <= low[p] /\ low'[p] <= low[v] /\ low'[p] \in Nat
    BY <1>8, <2>1
  <2>3. \A u \in DOMAIN index : low[u] <= low[u]
    BY <1>1
  <2>. QED  BY <1>1, <1>8, <2>2, <2>3
<1>10. /\ Stacked' = Stacked /\ Assigned' = Assigned
       /\ \A u : ReachFrom(u)' = ReachFrom(u) /\ Successors(u)' = Successors(u)
  BY <1>2, <1>7 DEF Stacked, Assigned, ReachFrom, Successors
<1>11. Visits'
  <2>1. ASSUME NEW e \in graph.edge, e[1] \in DOMAIN index, e[2] \notin DOMAIN index
        PROVE  \E k \in DOMAIN calls' : e[1] = calls'[k][1] /\ e[2] \in calls'[k][2]
    <3>1. PICK k \in DOMAIN calls : e[1] = Gray(k) /\ e[2] \in calls[k][2]
      BY <2>1 DEF Tracing, Visits
    <3>. QED  BY <1>2, <3>1 DEF Gray
  <2>. QED  BY <1>2, <1>10, <2>1 DEF Tracing, Visits, Gray
<1>12. Paths'
  <2>1. ASSUME NEW u \in Stacked
        PROVE  \E k \in DOMAIN calls' : index[Gray(k)] <= index[u] /\ Gray(k) \in ReachFrom(u)
    <3>1. PICK k \in DOMAIN calls : index[Gray(k)] <= index[u] /\ Gray(k) \in ReachFrom(u)
      BY DEF Tracing, Paths
    <3>2. CASE k = Len(calls)
      <4>1. v \in ReachFrom(u) /\ index[v] <= index[u]
        BY <1>2, <3>1, <3>2
      <4>2. Gray(g) \in ReachFrom(u)
        BY <1>1, <1>5, <4>1, ReachTrans
      <4>3. index[Gray(g)] <= index[u]
        BY <1>1, <1>2, <1>4, <4>1
      <4>. QED  BY <4>2, <4>3
    <3>. QED  BY <1>2, <3>1, <3>2
  <2>2. ASSUME NEW k \in DOMAIN calls', NEW u \in Stacked, index[Gray(k)] <= index[u]
        PROVE  u \in ReachFrom(Gray(k))
    BY <1>2, <2>2 DEF Tracing, Paths
  <2>3. \A k \in DOMAIN calls' : calls'[k][1] = Gray(k)
    BY <1>2 DEF Gray
  <2>. QED  BY <1>2, <1>10, <2>1, <2>2, <2>3 DEF Paths, Gray
<1>13. Lows'
  <2>1. ASSUME NEW u \in Stacked
        PROVE  low'[u] <= index[u] /\ \E x \in Stacked : index[x] = low'[u] /\ x \in ReachFrom(u)
    <3>1. PICK x \in Stacked : index[x] = low[u] /\ x \in ReachFrom(u) /\ low[u] <= index[u]
      BY DEF Tracing, Lows
    <3>2. CASE low'[u] = low[u]
      BY <3>1, <3>2
    <3>3. CASE low'[u] # low[u]
      <4>1. u = p /\ low'[u] = low[v]
        BY <1>1, <1>8, <3>3
      <4>2. w \in ReachFrom(u)
        BY <1>1, <1>3, <1>6, <4>1, ReachTrans
      <4>3. low'[u] <= low[u] /\ low'[u] \in Nat
        BY <1>1, <1>9
      <4>4. low'[u] <= index[u]
        BY <1>1, <3>1, <4>3
      <4>. QED  BY <1>3, <4>1, <4>2, <4>4
    <3>. QED  BY <3>2, <3>3
  <2>2. ASSUME NEW k \in DOMAIN calls', NEW e \in graph.edge,
               e[1] \in Stacked, e[2] \in Stacked,
               index[Gray(k)] <= index[e[1]], k # m => index[e[1]] < index[Gray(k + 1)],
               ~(e[1] = Gray(k) /\ e[2] \in calls[k][2])
        PROVE  low'[Gray(k)] <= index[e[2]]
    <3>1. /\ k \in DOMAIN calls /\ k # Len(calls) /\ Gray(k) \in DOMAIN index
          /\ e[1] \in DOMAIN index /\ e[2] \in DOMAIN index /\ k + 1 \in DOMAIN calls
          /\ k = m => Gray(k) = p /\ k + 1 = Len(calls)
      <4>1. k \in DOMAIN calls /\ e[1] \in DOMAIN index /\ e[2] \in DOMAIN index
        BY <1>1, <1>2, <2>2
      <4>2. k \in 1..m /\ Len(calls) \in Nat /\ DOMAIN calls = 1..Len(calls)
            /\ m = Len(calls) - 1
        BY <1>1, <1>2, <2>2 DEF m
      <4>3. k # Len(calls) /\ k + 1 \in DOMAIN calls /\ (k = m => k + 1 = Len(calls))
        BY <4>2
      <4>. QED  BY <1>1, <4>1, <4>3 DEF p
    <3>2. CASE k # m \/ index[e[1]] < index[v]
      <4>1. Owns(k, e[1])
        BY <1>2, <2>2, <3>1, <3>2 DEF Owns
      <4>2. low[Gray(k)] <= index[e[2]]
        BY <2>2, <3>1, <4>1 DEF Tracing, Lows
      <4>3. low'[Gray(k)] <= low[Gray(k)] /\ low'[Gray(k)] \in Nat
        BY <1>9, <3>1
      <4>4. low[Gray(k)] \in Nat /\ index[e[2]] \in Nat
        BY <1>1, <3>1
      <4>. HIDE DEF Gray
      <4>. QED  BY <4>2, <4>3, <4>4
    <3>3. CASE k = m /\ ~(index[e[1]] < index[v])
      <4>1. e[1] \in Above(v)
        BY <1>1, <1>2, <2>2, <3>1, <3>3 DEF Above
      <4>2. low[v] <= index[e[2]]
        BY <2>2, <4>1, EdgesAbove DEF Tracing, Visits
      <4>3. Gray(k) = p /\ low'[p] <= low[v]
        BY <1>9, <3>1, <3>3
      <4>4. low'[p] \in Nat /\ low[v] \in Nat /\ index[e[2]] \in Nat
        BY <1>1, <1>2, <1>6, <1>9, <3>1
      <4>. QED  BY <4>2, <4>3, <4>4
    <3>. QED  BY <3>2, <3>3
  <2>3. \A k \in DOMAIN calls' : Gray(k)' = Gray(k) /\ calls'[k] = calls[k]
    BY <1>2 DEF Gray
  <2>4. ASSUME NEW k \in DOMAIN calls', NEW u \in Stacked, Owns(k, u)'
        PROVE  index[Gray(k)] <= index[u] /\ (k # m => index[u] < index[Gray(k + 1)])
    <3>1. k # m => k + 1 \in DOMAIN calls'
      <4>1. k \in 1..m /\ m \in Int
        BY <1>1, <1>2 DEF m
      <4>. QED  BY <1>2, <4>1
    <3>2. k # m => calls'[k + 1][1] = Gray(k + 1)
      BY <1>2, <3>1 DEF Gray
    <3>. QED  BY <1>2, <2>3, <2>4, <3>2 DEF Owns, Gray
  <2>5. /\ \A u \in Stacked' : /\ low'[u] <= index'[u]
                                /\ \E x \in Stacked' : index'[x] = low'[u] /\ x \in ReachFrom(u)'
    BY <1>2, <1>10, <2>1
  <2>6. \A k \in DOMAIN calls' : \A e \in graph.edge :
          /\ e[1] \in Stacked' /\ e[2] \in Stacked' /\ Owns(k, e[1])'
          /\ ~(e[1] = Gray(k) /\ e[2] \in calls[k][2])
          => low'[Gray(k)] <= index[e[2]]
    BY <1>10, <2>2, <2>4
  <2>. QED  BY <1>2, <2>3, <2>5, <2>6 DEF Lows
<1>14. Classes'
  BY <1>2, <1>7, <1>10 DEF Tracing, Classes, Mutual
<1>. QED  BY <1>11, <1>12, <1>13, <1>14 DEF Tracing

\* A call that ends with a component takes it off the stack; the lowlink of its
\* caller stays.
LEMMA PopOff ==
  ASSUME Tracing, TarjanInv', NEW v \in graph.node, Return(v), low[v] = index[v]
  PROVE  Tracing'
<1>1. /\ Inside /\ Stacked \subseteq DOMAIN index /\ DOMAIN index \subseteq graph.node
      /\ \A u \in DOMAIN index : index[u] \in Nat /\ low[u] \in Nat
      /\ Len(calls) \in Nat /\ DOMAIN calls = 1..Len(calls)
      /\ \A k \in DOMAIN calls : Gray(k) \in Stacked
  BY Basics DEF Tracing
<1>2. /\ Len(calls) \in DOMAIN calls /\ v = Gray(Len(calls)) /\ v \in Stacked
      /\ calls[Len(calls)][2] = {}
      /\ Len(calls') = Len(calls) - 1 /\ DOMAIN calls' = 1..(Len(calls) - 1)
      /\ DOMAIN calls' \subseteq DOMAIN calls
      /\ \A k \in DOMAIN calls' : calls'[k] = calls[k] /\ index[Gray(k)] < index[v]
      /\ \A k \in DOMAIN calls : k \in DOMAIN calls' \/ k = Len(calls)
      /\ graph' = graph /\ index' = index
  BY ReturnBasics
<1>3. /\ sccs' = Append(sccs, Above(v)) /\ sccs \in Seq(SUBSET DOMAIN index)
      /\ Stacked' = Stacked \ Above(v)
  BY PopSplits
<1>4. \A u \in Stacked' : u \in Stacked /\ index[u] < index[v]
  BY <1>1, <1>2, <1>3 DEF Above
<1>5. /\ Above(v) \subseteq Stacked
      /\ \A e \in graph.edge : e[1] \in Above(v) => e[2] \in Above(v) \cup Assigned
      /\ \A u \in Above(v) : Above(v) = {w \in graph.node : Mutual(u, w)}
  BY PoppedIsClass DEF Above
<1>6. low' = low
  <2>1. calls' = Outer
        /\ low' = IF Outer = <<>> THEN low ELSE Lower(Outer[Len(Outer)][1], low[v])
    BY DEF Return
  <2>2. CASE Outer # <<>>
    <3>1. Len(Outer) \in DOMAIN calls'
      BY <1>1, <1>2, <2>1, <2>2
    <3>. DEFINE p == Gray(Len(Outer))
    <3>2. p = Outer[Len(Outer)][1] /\ p \in Stacked /\ index[p] < index[v]
      BY <1>1, <1>2, <2>1, <3>1 DEF Gray
    <3>3. low[p] <= index[p]
      BY <3>2 DEF Tracing, Lows
    <3>4. ~(low[v] < low[p])
      BY <1>1, <1>2, <3>2, <3>3
    <3>. QED  BY <2>1, <2>2, <3>2, <3>4 DEF Lower
  <2>. QED  BY <2>1, <2>2
<1>7. \A u : ReachFrom(u)' = ReachFrom(u) /\ Successors(u)' = Successors(u)
  BY <1>2 DEF ReachFrom, Successors
<1>8. /\ DOMAIN sccs' = DOMAIN sccs \cup {Len(sccs) + 1} /\ Len(sccs) \in Nat
      /\ DOMAIN sccs = 1..Len(sccs)
      /\ \A i \in DOMAIN sccs : sccs'[i] = sccs[i]
      /\ sccs'[Len(sccs) + 1] = Above(v)
  BY <1>3
<1>9. Assigned' = Assigned \cup Above(v)
  BY <1>8 DEF Assigned
<1>10. \A k \in DOMAIN calls' : Gray(k)' = Gray(k)
  BY <1>2 DEF Gray
<1>11. Visits'
  <2>1. DOMAIN index' = Stacked' \cup Assigned' /\ Stacked' \cap Assigned' = {}
    BY <1>2, <1>3, <1>5, <1>9 DEF Tracing, Visits
  <2>2. ASSUME NEW e \in graph.edge, e[1] \in DOMAIN index, e[2] \notin DOMAIN index
        PROVE  \E k \in DOMAIN calls' : e[1] = Gray(k) /\ e[2] \in calls'[k][2]
    BY <1>2, <2>2 DEF Tracing, Visits
  <2>3. \A k \in DOMAIN calls' : calls'[k][2] \subseteq Successors(Gray(k))
    BY <1>2 DEF Tracing, Visits
  <2>. QED  BY <1>2, <1>7, <1>10, <2>1, <2>2, <2>3 DEF Visits
<1>12. Paths'
  <2>1. ASSUME NEW u \in Stacked'
        PROVE  \E k \in DOMAIN calls' : index[Gray(k)] <= index[u] /\ Gray(k) \in ReachFrom(u)
    <3>1. PICK k \in DOMAIN calls : index[Gray(k)] <= index[u] /\ Gray(k) \in ReachFrom(u)
      BY <1>4 DEF Tracing, Paths
    <3>2. k # Len(calls)
      BY <1>1, <1>2, <1>4, <3>1
    <3>. QED  BY <1>2, <3>1, <3>2
  <2>2. ASSUME NEW k \in DOMAIN calls', NEW u \in Stacked', index[Gray(k)] <= index[u]
        PROVE  u \in ReachFrom(Gray(k))
    BY <1>2, <1>4, <2>2 DEF Tracing, Paths
  <2>. QED  BY <1>2, <1>7, <1>10, <2>1, <2>2 DEF Paths
<1>13. Lows'
  <2>1. ASSUME NEW u \in Stacked'
        PROVE  low[u] <= index[u] /\ \E w \in Stacked' : index[w] = low[u] /\ w \in ReachFrom(u)
    <3>1. PICK w \in Stacked : index[w] = low[u] /\ w \in ReachFrom(u) /\ low[u] <= index[u]
      BY <1>4 DEF Tracing, Lows
    <3>2. u \in DOMAIN index /\ w \in DOMAIN index /\ index[u] < index[v]
      BY <1>1, <1>4
    <3>3. w \notin Above(v)
      BY <1>1, <1>2, <3>1, <3>2 DEF Above
    <3>. QED  BY <1>3, <3>1, <3>3
  <2>2. ASSUME NEW k \in DOMAIN calls', NEW e \in graph.edge,
               e[1] \in Stacked', e[2] \in Stacked',
               Owns(k, e[1])', ~(e[1] = Gray(k) /\ e[2] \in calls[k][2])
        PROVE  low[Gray(k)] <= index[e[2]]
    <3>1. /\ k \in DOMAIN calls /\ k # Len(calls) /\ e[1] \in Stacked /\ e[2] \in Stacked
          /\ index[e[1]] < index[v] /\ index[Gray(k)] <= index[e[1]]
      BY <1>1, <1>2, <1>4, <1>10, <2>2 DEF Owns
    <3>2. index[e[1]] < index[Gray(k + 1)]
      <4>1. CASE k = Len(calls')
        <5>1. k + 1 = Len(calls)
          BY <1>1, <1>2, <4>1
        <5>. QED  BY <1>2, <3>1, <5>1
      <4>2. CASE k # Len(calls')
        <5>1. k + 1 \in DOMAIN calls'
          BY <1>1, <1>2, <4>2
        <5>2. calls'[k + 1][1] = Gray(k + 1)
          BY <1>2, <5>1 DEF Gray
        <5>. QED  BY <1>2, <2>2, <4>2, <5>2 DEF Owns, Gray
      <4>. QED  BY <4>1, <4>2
    <3>. QED  BY <2>2, <3>1, <3>2 DEF Tracing, Lows, Owns
  <2>. QED  BY <1>2, <1>6, <1>7, <1>10, <2>1, <2>2 DEF Lows
<1>14. Classes'
  <2>1. ASSUME NEW i \in DOMAIN sccs', NEW u \in sccs'[i]
        PROVE  sccs'[i] = {w \in graph.node : Mutual(u, w)}
    BY <1>5, <1>8 DEF Tracing, Classes
  <2>2. ASSUME NEW i \in DOMAIN sccs', NEW e \in graph.edge, e[1] \in sccs'[i]
        PROVE  \E j \in 1..i : e[2] \in sccs'[j]
    <3>1. CASE i \in DOMAIN sccs
      <4>1. PICK j \in 1..i : e[2] \in sccs[j]
        BY <1>8, <2>2, <3>1 DEF Tracing, Classes
      <4>2. j \in DOMAIN sccs
        BY <1>8, <3>1
      <4>. QED  BY <1>8, <4>1, <4>2
    <3>2. CASE i = Len(sccs) + 1
      <4>1. e[2] \in Above(v) \cup Assigned
        BY <1>5, <1>8, <2>2, <3>2
      <4>2. CASE e[2] \in Above(v)
        BY <1>8, <3>2, <4>2
      <4>3. CASE e[2] \in Assigned
        <5>1. PICK j \in DOMAIN sccs : e[2] \in sccs[j]
          BY <4>3 DEF Assigned
        <5>2. j \in 1..i
          BY <1>8, <3>2
        <5>. QED  BY <1>8, <5>1, <5>2
      <4>. QED  BY <4>1, <4>2, <4>3
    <3>. QED  BY <1>8, <3>1, <3>2
  <2>. QED  BY <1>2, <1>7, <2>1, <2>2 DEF Classes, Mutual
<1>. QED  BY <1>11, <1>12, <1>13, <1>14 DEF Tracing

LEMMA TarjanTraces ==
  ASSUME Tracing, TarjanStep
  PROVE  Tracing'
<1>0. TarjanInv /\ TarjanInv'
  BY TarjanSteps DEF Tracing
<1>1. PICK v \in graph.node : Root(v) \/ Descend(v) \/ LookAt(v) \/ Return(v)
  BY DEF TarjanStep
<1>2. CASE Root(v)
  <2>1. calls = <<>> /\ Enter(v, <<>>) /\ DOMAIN calls = {}
        /\ <<>> \in Seq((DOMAIN index) \X (SUBSET graph.node)) /\ Len(<<>>) = Len(calls)
    BY <1>2 DEF Root
  <2>. QED  BY <1>0, <2>1, EnterTraces
<1>3. CASE Descend(v)
  <2>. DEFINE m == Len(calls)
  <2>1. calls # <<>> /\ v \in Caller[2] /\ Enter(v, Examine(v))
    BY <1>3 DEF Descend
  <2>2. /\ Examine(v) \in Seq((DOMAIN index) \X (SUBSET graph.node))
        /\ DOMAIN Examine(v) = DOMAIN calls
        /\ \A k \in DOMAIN calls : Examine(v)[k][1] = Gray(k)
    BY <1>0, <2>1, ExamineKeepsOrder DEF Gray
  <2>3. /\ m \in Nat /\ DOMAIN calls = 1..m /\ m \in DOMAIN calls
        /\ Outer \in Seq((DOMAIN index) \X (SUBSET graph.node)) /\ Len(Outer) = m - 1
        /\ \A i \in DOMAIN Outer : Outer[i] = calls[i]
    BY <1>0, <2>1, Calls, Basics
  <2>4. Len(Examine(v)) = Len(calls)
    BY <2>2, <2>3
  <2>5. ASSUME NEW k \in DOMAIN calls
        PROVE  Examine(v)[k][2] \subseteq calls[k][2] /\ calls[k][2] \ {v} \subseteq Examine(v)[k][2]
    <3>1. CASE k = m
      <4>1. Examine(v)[k] = <<Caller[1], Caller[2] \ {v}>>
        BY <2>3, <3>1 DEF Examine
      <4>. QED  BY <3>1, <4>1 DEF Caller
    <3>2. CASE k # m
      <4>1. k \in DOMAIN Outer
        BY <2>3, <3>2
      <4>2. Examine(v)[k] = Outer[k]
        BY <2>3, <4>1 DEF Examine
      <4>. QED  BY <2>3, <4>1, <4>2
    <3>. QED  BY <3>1, <3>2
  <2>6. <<Gray(m), v>> \in graph.edge
    <3>1. v \in Successors(Gray(m))
      BY <2>1, <2>3 DEF Tracing, Visits, Caller
    <3>2. PICK e \in graph.edge : e[1] = Gray(m) /\ e[2] = v
      BY <3>1 DEF Successors
    <3>. QED  BY <1>0, <3>2, Basics DEF Inside
  <2>. HIDE DEF Examine
  <2>. QED  BY <1>0, <2>1, <2>2, <2>4, <2>5, <2>6, EnterTraces
<1>4. CASE LookAt(v)
  BY <1>0, <1>4, LookAtTraces
<1>5. CASE Return(v)
  BY <1>0, <1>5, HandOver, PopOff
<1>. QED  BY <1>1, <1>2, <1>3, <1>4, <1>5

LEMMA TracingStarts ==
  ASSUME NEW N, NEW E, TarjanStart(N, E)
  PROVE  Tracing'
<1>1. TarjanInv' /\ stack' = <<>> /\ calls' = <<>> /\ sccs' = <<>> /\ DOMAIN index' = {}
  BY TarjanStarts DEF TarjanStart
<1>2. Stacked' = {} /\ Assigned' = {} /\ DOMAIN calls' = {} /\ DOMAIN sccs' = {}
  BY <1>1 DEF Stacked, Assigned
<1>. QED  BY <1>1, <1>2 DEF Tracing, Visits, Paths, Lows, Classes

LEMMA TracingInit ==
  ASSUME TarjanInit, TarjanInv
  PROVE  Tracing
<1>1. stack = <<>> /\ calls = <<>> /\ sccs = <<>> /\ DOMAIN index = {} /\ graph.edge = {}
  BY DEF TarjanInit
<1>2. Stacked = {} /\ Assigned = {} /\ DOMAIN calls = {} /\ DOMAIN sccs = {}
  BY <1>1 DEF Stacked, Assigned
<1>. QED  BY <1>1, <1>2 DEF Tracing, Visits, Paths, Lows, Classes

\* When the loops have ended nothing is left on the stack.
LEMMA AllAssigned ==
  ASSUME Tracing, TarjanDone
  PROVE  Assigned = graph.node
<1>1. DOMAIN calls = {} /\ DOMAIN index = graph.node
  BY DEF TarjanDone
<1>2. Stacked = {}
  BY <1>1 DEF Tracing, Paths
<1>. QED  BY <1>1, <1>2 DEF Tracing, Visits

LEMMA TracingClasses == Tracing => ComponentsAreClasses
BY AllAssigned DEF Tracing, Classes, Assigned, ComponentsAreClasses

-----------------------------------------------------------------------------
(* Cycles. A state keeps a path inside the graph for ever iff the path     *)
(* leads into a component with an edge inside.                             *)

LEMMA TwoIn ==
  ASSUME NEW C, IsFiniteSet(C), NEW a \in C
  PROVE  Cardinality(C) > 1 <=> \E b \in C : b # a
<1>1. Cardinality(C) \in Nat /\ Cardinality(C) # 0
  BY FS_CardinalityType, FS_EmptySet
<1>2. Cardinality(C) = 1 <=> \E x : C = {x}
  BY FS_Singleton
<1>3. (\E x : C = {x}) <=> ~\E b \in C : b # a
  <2>1. (~\E b \in C : b # a) => C = {a}
    OBVIOUS
  <2>. QED  BY <2>1
<1>. QED  BY <1>1, <1>2, <1>3

\* The least of a set of numbers up to n.
LEMMA Least ==
  ASSUME NEW n \in Nat, NEW I, I \subseteq 1..n, I # {}
  PROVE  \E i \in I : \A j \in I : i <= j
<1>. DEFINE V == 1..n
            T == {1..i : i \in I}
<1>1. IsFiniteSet(V)
  BY FS_Interval
<1>2. \A i \in I : 1..i \in FiniteSubsetsOf(V)
  <2>. SUFFICES ASSUME NEW i \in I PROVE 1..i \in FiniteSubsetsOf(V)
    OBVIOUS
  <2>1. 1..i \subseteq V
    OBVIOUS
  <2>. QED  BY <1>1, <2>1, FS_Subset DEF FiniteSubsetsOf
<1>3. T # {} /\ T \subseteq FiniteSubsetsOf(V)
  BY <1>2
<1>4. PICK D \in T : \A F \in T : <<F, D>> \notin StrictSubsetOrdering(V)
  <2>. HIDE DEF T
  <2>. QED  BY <1>1, <1>3, FS_StrictSubsetOrderingWellFounded, WFMin
<1>5. PICK i \in I : D = 1..i
  BY <1>4
<1>6. ASSUME NEW j \in I, j < i PROVE FALSE
  <2>1. i \in 1..n /\ j \in 1..n
    OBVIOUS
  <2>2. 1..j \subseteq 1..i /\ i \in 1..i /\ i \notin 1..j
    BY <1>6, <2>1
  <2>3. <<1..j, 1..i>> \in StrictSubsetOrdering(V)
    BY <1>2, <2>2 DEF StrictSubsetOrdering, FiniteSubsetsOf
  <2>. QED  BY <1>4, <1>5, <2>3
<1>7. \A j \in I : i \in Int /\ j \in Int
  OBVIOUS
<1>. QED  BY <1>6, <1>7

\* In a component that is not trivial every node has a successor.
LEMMA CyclesGoOn ==
  ASSUME Tracing, NEW C \in NonTrivial, NEW v \in C
  PROVE  \E e \in graph.edge : e[1] = v /\ e[2] \in C
<1>1. PICK i \in DOMAIN sccs : C = sccs[i]
  BY DEF NonTrivial
<1>2. C = {w \in graph.node : Mutual(v, w)}
  BY <1>1 DEF Tracing, Classes
<1>3. IsFiniteSet(C)
  <2>1. IsFiniteSet(DOMAIN index) /\ C \subseteq DOMAIN index
    BY <1>1 DEF Tracing, TarjanInv, TarjanTypeOK
  <2>. QED  BY <2>1, FS_Subset
<1>4. Inside
  BY Basics DEF Tracing
<1>5. CASE \E w \in C : w # v
  <2>1. PICK w \in C : w # v
    BY <1>5
  <2>2. w \in ReachFrom(v) /\ v \in ReachFrom(w)
    BY <1>2 DEF Mutual
  <2>. DEFINE Out == {e \in graph.edge : e[1] = v}
              D == {v} \cup UNION {ReachFrom(e[2]) : e \in Out}
  <2>3. D \subseteq graph.node
    BY <1>2 DEF ReachFrom
  <2>4. ASSUME NEW e \in graph.edge, e[1] \in D
        PROVE  e[2] \in D
    <3>1. CASE e[1] = v
      <4>1. e[2] \in ReachFrom(e[2])
        BY <1>4, ReachSelf DEF Inside
      <4>. QED  BY <3>1, <4>1
    <3>2. CASE e[1] # v
      <4>1. PICK d \in Out : e[1] \in ReachFrom(d[2])
        BY <2>4, <3>2
      <4>2. e[2] \in ReachFrom(d[2])
        BY <1>4, <4>1, ReachEdge
      <4>. QED  BY <4>2
    <3>. QED  BY <3>1, <3>2
  <2>5. v \in D
    OBVIOUS
  <2>6. w \in D
    <3>. HIDE DEF D
    <3>. QED  BY <2>2, <2>3, <2>4, <2>5, ReachLeast
  <2>7. PICK e \in Out : w \in ReachFrom(e[2])
    BY <2>1, <2>6
  <2>8. e[2] \in ReachFrom(v)
    BY <1>2, <1>4, <2>7, ReachSelf, ReachEdge
  <2>9. v \in ReachFrom(e[2])
    BY <1>4, <2>2, <2>7, ReachTrans
  <2>10. e[2] \in C
    BY <1>2, <1>4, <2>8, <2>9 DEF Mutual, Inside
  <2>. QED  BY <2>7, <2>10
<1>6. CASE ~\E w \in C : w # v
  <2>1. ~(Cardinality(C) > 1)
    BY <1>3, <1>6, TwoIn
  <2>2. PICK u \in C : <<u, u>> \in graph.edge
    BY <2>1 DEF NonTrivial
  <2>. QED  BY <1>6, <2>2
<1>. QED  BY <1>5, <1>6

\* A set whose nodes all have a successor in it meets a component that is not
\* trivial: of those it meets, the first that was found.
LEMMA PathsEndInCycles ==
  ASSUME Tracing, TarjanDone, NEW Y \in SUBSET graph.node, Y # {},
         \A y \in Y : \E e \in graph.edge : e[1] = y /\ e[2] \in Y
  PROVE  Y \cap UNION NonTrivial # {}
<1>. DEFINE I == {i \in DOMAIN sccs : sccs[i] \cap Y # {}}
<1>1. DOMAIN sccs = 1..Len(sccs) /\ Len(sccs) \in Nat /\ sccs \in Seq(SUBSET DOMAIN index)
      /\ IsFiniteSet(DOMAIN index)
  BY DEF Tracing, TarjanInv, TarjanTypeOK
<1>2. I # {} /\ I \subseteq 1..Len(sccs)
  BY <1>1, AllAssigned DEF Assigned
<1>3. PICK i \in I : \A j \in I : i <= j
  <2>. HIDE DEF I
  <2>. QED  BY <1>1, <1>2, Least
<1>4. PICK y \in Y : y \in sccs[i]
  OBVIOUS
<1>5. PICK e \in graph.edge : e[1] = y /\ e[2] \in Y
  OBVIOUS
<1>6. PICK j \in 1..i : e[2] \in sccs[j]
  BY <1>4, <1>5 DEF Tracing, Classes
<1>7. j = i
  <2>1. j \in I
    BY <1>1, <1>5, <1>6
  <2>2. i <= j /\ i \in Int /\ j \in Int /\ j <= i
    BY <1>1, <1>3, <1>6, <2>1
  <2>. QED  BY <2>2
<1>8. IsFiniteSet(sccs[i])
  BY <1>1, FS_Subset
<1>9. sccs[i] \in NonTrivial
  <2>1. CASE e[2] = y
    <3>1. <<y, y>> \in graph.edge
      BY <1>5, <2>1, Basics DEF Tracing, Inside
    <3>. QED  BY <1>4, <3>1 DEF NonTrivial
  <2>2. CASE e[2] # y
    <3>1. Cardinality(sccs[i]) > 1
      BY <1>4, <1>6, <1>7, <1>8, <2>2, TwoIn
    <3>. QED  BY <3>1 DEF NonTrivial
  <2>. QED  BY <2>1, <2>2
<1>. QED  BY <1>4, <1>9

-----------------------------------------------------------------------------
(* The greatest and the least fixpoint: a state is outside A[a U b] if it  *)
(* can leave a before it reaches b, or can avoid b for ever.               *)

LEMMA UntilClosed ==
  ASSUME NEW N, NEW E, NEW a, NEW b \in SUBSET N,
         NEW e \in E, e[1] \in a, e[1] \in N, e[2] \in ExistsUntil(N, E, a, b)
  PROVE  e[1] \in ExistsUntil(N, E, a, b)
BY DEF ExistsUntil

LEMMA UntilSeeds ==
  ASSUME NEW N, NEW E, NEW a, NEW b \in SUBSET N
  PROVE  b \subseteq ExistsUntil(N, E, a, b)
BY DEF ExistsUntil

LEMMA UntilLeast ==
  ASSUME NEW N, NEW E, NEW a, NEW b, NEW C \in SUBSET N, b \subseteq C,
         \A e \in E : e[1] \in a /\ e[2] \in C => e[1] \in C
  PROVE  ExistsUntil(N, E, a, b) \subseteq C
BY DEF ExistsUntil

LEMMA Duality ==
  ASSUME NEW N, NEW E, \A e \in E : e[1] \in N /\ e[2] \in N,
         NEW a \in SUBSET N, NEW b \in SUBSET N
  PROVE  N \ (ExistsUntil(N, E, N \ b, (N \ a) \cap (N \ b)) \cup ExistsAlways(E, N \ b))
           = AllUntil(N, E, a, b)
<1>. DEFINE D == (N \ a) \cap (N \ b)
            X == ExistsUntil(N, E, N \ b, D)
            G == ExistsAlways(E, N \ b)
            C == N \ (X \cup G)
<1>1. D \in SUBSET N /\ D \subseteq X
  BY UntilSeeds
<1>2. ASSUME NEW e \in E, e[1] \notin b, e[2] \in X
      PROVE  e[1] \in X
  BY <1>1, <1>2, UntilClosed
<1>3. X \subseteq N \ b
  <2>1. N \ b \in SUBSET N /\ D \subseteq N \ b
    OBVIOUS
  <2>2. \A e \in E : e[1] \in N \ b /\ e[2] \in N \ b => e[1] \in N \ b
    OBVIOUS
  <2>. HIDE DEF D
  <2>. QED  BY <2>1, <2>2, UntilLeast
<1>4. ASSUME NEW Z \in SUBSET (N \ b), \A z \in Z : Post(E, {z}) \cap Z # {}
      PROVE  Z \subseteq G
  BY <1>4 DEF ExistsAlways
<1>5. ASSUME NEW s \in G  PROVE  s \in N \ b /\ Post(E, {s}) \cap G # {}
  <2>1. PICK Z \in SUBSET (N \ b) : s \in Z /\ \A z \in Z : Post(E, {z}) \cap Z # {}
    BY <1>5 DEF ExistsAlways
  <2>2. Z \subseteq G
    BY <1>4, <2>1
  <2>. HIDE DEF G
  <2>. QED  BY <2>1, <2>2
<1>. HIDE DEF X, G
<1>6. ASSUME NEW s \in C, NEW B \in SUBSET N, b \subseteq B,
             \A t \in a : Post(E, {t}) \subseteq B => t \in B
      PROVE  s \in B
  <2>1. SUFFICES ASSUME s \notin B PROVE FALSE
    OBVIOUS
  <2>. DEFINE Z == (N \ B) \ X
  <2>2. s \in Z /\ Z \in SUBSET (N \ b)
    BY <1>6, <2>1
  <2>3. ASSUME NEW z \in Z  PROVE Post(E, {z}) \cap Z # {}
    <3>1. z \in a /\ z \in N /\ z \notin B /\ z \notin b
      BY <1>1, <1>6, <2>3
    <3>2. PICK y \in Post(E, {z}) : y \notin B
      BY <1>6, <3>1
    <3>3. PICK e \in E : e[1] = z /\ e[2] = y
      BY <3>2 DEF Post
    <3>4. y \notin X
      BY <1>2, <2>3, <3>1, <3>3
    <3>. QED  BY <3>2, <3>3, <3>4
  <2>4. Z \subseteq G
    <3>. HIDE DEF Z
    <3>. QED  BY <1>4, <2>2, <2>3
  <2>. QED  BY <2>2, <2>4
<1>7. b \subseteq C
  BY <1>3, <1>5
<1>8. ASSUME NEW t \in a, Post(E, {t}) \subseteq C
      PROVE  t \in C
  <2>1. t \notin G
    BY <1>5, <1>8
  <2>2. ASSUME t \in X PROVE FALSE
    <3>. DEFINE Y == X \ {t}
    <3>1. D \subseteq Y /\ Y \in SUBSET N
      BY <1>1, <1>3
    <3>2. ASSUME NEW e \in E, e[1] \in N \ b, e[2] \in Y
          PROVE  e[1] \in Y
      <4>1. e[1] \in X
        BY <1>2, <3>2
      <4>2. e[1] # t
        <5>1. e[1] = t => e[2] \in Post(E, {t})
          BY DEF Post
        <5>. QED  BY <1>8, <3>2, <5>1
      <4>. QED  BY <4>1, <4>2
    <3>3. X \subseteq Y
      <4>. HIDE DEF Y, D
      <4>. QED  BY <3>1, <3>2, UntilLeast DEF X
    <3>. QED  BY <2>2, <3>3
  <2>. QED  BY <2>1, <2>2
<1>9. C \subseteq AllUntil(N, E, a, b)
  BY <1>6 DEF AllUntil
<1>10. AllUntil(N, E, a, b) \subseteq C
  <2>. HIDE DEF C
  <2>1. C \in SUBSET N
    BY DEF C
  <2>. QED  BY <1>7, <1>8, <2>1 DEF AllUntil
<1>. QED  BY <1>9, <1>10 DEF X, G

\* Everything can stay in a set without b when nothing has to leave it: AF.
LEMMA EventuallyDual ==
  ASSUME NEW N, NEW E, \A e \in E : e[1] \in N /\ e[2] \in N, NEW b \in SUBSET N
  PROVE  N \ ExistsAlways(E, N \ b) = AllUntil(N, E, N, b)
<1>. DEFINE X == ExistsUntil(N, E, N \ b, (N \ N) \cap (N \ b))
<1>1. X = {}
  BY UntilLeast
<1>2. N \ (X \cup ExistsAlways(E, N \ b)) = AllUntil(N, E, N, b)
  <2>1. N \in SUBSET N
    OBVIOUS
  <2>. QED  BY <2>1, Duality
<1>. QED  BY <1>1, <1>2

-----------------------------------------------------------------------------
(* The engine. Only StartEG, EndRound and FindComponents touch the graph   *)
(* and Tarjan's variables.                                                 *)

LEMMA TracingUntouched ==
  ASSUME Tracing, UNCHANGED tarjan
  PROVE  Tracing' /\ NonTrivial' = NonTrivial /\ TarjanDone' = TarjanDone
<1>. USE DEF tarjan
<1>1. TarjanInv'
  BY DEF Tracing, TarjanInv, TarjanTypeOK, InOrder, CallersOnStack, OnStack
<1>2. Stacked' = Stacked /\ Assigned' = Assigned
  BY DEF Stacked, Assigned
<1>3. Visits'
  BY <1>2 DEF Tracing, Visits, Gray, Successors
<1>4. Paths'
  BY <1>2 DEF Tracing, Paths, Gray, ReachFrom
<1>5. Lows'
  BY <1>2 DEF Tracing, Lows, Owns, Gray, ReachFrom
<1>6. Classes'
  BY DEF Tracing, Classes, Mutual, ReachFrom
<1>. QED  BY <1>1, <1>3, <1>4, <1>5, <1>6 DEF Tracing, NonTrivial, TarjanDone

LEMMA StartEGTraces ==
  ASSUME Tracing, NEW S, StartEG(S)
  PROVE  Tracing'
BY TracingStarts, TracingUntouched DEF StartEG

LEMMA NextTraces ==
  ASSUME Tracing, [Next]_vars
  PROVE  Tracing'
<1>1. CASE StartCycle
  BY <1>1, StartEGTraces DEF StartCycle
<1>2. CASE EndWorklist
  BY <1>2, StartEGTraces, TracingUntouched DEF EndWorklist
<1>3. CASE FindComponents
  BY <1>3, TarjanTraces DEF FindComponents
<1>4. CASE EndRound
  BY <1>4, TracingStarts, TracingUntouched DEF EndRound
<1>5. CASE UNCHANGED vars
  BY <1>5, TracingUntouched DEF vars, tarjan
<1>6. CASE \/ LabelAtOnce \/ StartWorklist \/ StartBack \/ EndBack
           \/ KeepReaching \/ NextOperator \/ Pass
           \/ (\E s \in Node : Pop(s) \/ Violation(s))
           \/ (\E F \in left : ApplyCondition(F))
  <2>1. UNCHANGED tarjan
    BY <1>6 DEF LabelAtOnce, StartWorklist, StartBack, EndBack, KeepReaching,
           NextOperator, Pass, Pop, Violation, ApplyCondition
  <2>. QED  BY <2>1, TracingUntouched
<1>. QED  BY <1>1, <1>2, <1>3, <1>4, <1>5, <1>6 DEF Next, Finished

\* On every graph and in every order of the loops the components that tarjan_sccs
\* hands out are the classes of mutually reachable nodes, sinks first, and when it
\* has ended every node is in one.
THEOREM ComponentsAreExact == Spec => []ComponentsAreClasses
<1>1. Init => Tracing
  BY InitTyped, TracingInit DEF Init, Typed
<1>2. Spec => []Tracing
  BY <1>1, NextTraces, PTL DEF Spec
<1>. QED  BY <1>2, TracingClasses, PTL

-----------------------------------------------------------------------------
(* The labels found by way of the components.                              *)

\* The states EG is labelled on, when no fairness applies.
CycleArg == IF Op = "EG" THEN arg ELSE Not(arg)

Leaves == ExistsUntil(Universe, Edges, Not(Right), Not(Left) \cap Not(Right))

\* eg_label: the states found are in or lead into a component that is not
\* trivial, and none that leads there from an expanded state is missing.
BackFound ==
  /\ within = graph.node /\ UNION NonTrivial \subseteq result /\ result \subseteq graph.node
  /\ \A e \in graph.edge : e[2] \in result \ work => e[1] \in result
  /\ \A s \in result : \/ s \in UNION NonTrivial
                       \/ \E e \in graph.edge : e[1] = s /\ e[2] \in result

OnCycle ==
  /\ pc \in {"fair", "reach"} => Conditions # {}
  /\ pc \in {"scc", "back"} => /\ graph.edge = Edges \cap (graph.node \X graph.node)
                               /\ Conditions = {} => graph.node = CycleArg
  /\ pc \in {"fair", "reach", "scc", "back"} /\ Op = "AU" => avoid = Leaves
  /\ pc = "back" => TarjanDone /\ BackFound

Cycling == Labelled /\ Tracing /\ OnCycle /\ CycleLabelIsExact

\* The nodes of the components that are not trivial are nodes of the graph.
LEMMA InGraph ==
  ASSUME Tracing
  PROVE  UNION NonTrivial \subseteq graph.node
<1>1. \A i \in DOMAIN sccs : sccs[i] \subseteq graph.node
  BY DEF Tracing, TarjanInv, TarjanTypeOK
<1>. QED  BY <1>1 DEF NonTrivial

\* An emptied worklist has found EG on the graph.
LEMMA BackIsExact ==
  ASSUME Tracing, TarjanDone, BackFound, work = {}, job \in Job,
         graph.edge = Edges \cap (graph.node \X graph.node)
  PROVE  result = ExistsAlways(Edges, graph.node)
<1>1. Inside /\ result \subseteq graph.node
  BY Basics DEF Tracing, BackFound
<1>2. ASSUME NEW e \in Edges, e[1] \in graph.node, e[2] \in graph.node
      PROVE  e \in graph.edge
  <2>1. e \in Node \X Node
    BY DEF Edges, Job
  <2>. QED  BY <1>2, <2>1
<1>3. ASSUME NEW s \in result
      PROVE  Post(Edges, {s}) \cap result # {}
  <2>1. \E e \in graph.edge : e[1] = s /\ e[2] \in result
    <3>1. CASE s \in UNION NonTrivial
      <4>1. PICK C \in NonTrivial : s \in C
        BY <3>1
      <4>2. PICK e \in graph.edge : e[1] = s /\ e[2] \in C
        BY <4>1, CyclesGoOn
      <4>. QED  BY <4>2 DEF BackFound
    <3>2. CASE s \notin UNION NonTrivial
      BY <3>2 DEF BackFound
    <3>. QED  BY <3>1, <3>2
  <2>2. PICK e \in graph.edge : e[1] = s /\ e[2] \in result
    BY <2>1
  <2>3. e \in Edges
    OBVIOUS
  <2>. QED  BY <2>2, <2>3 DEF Post
<1>4. result \subseteq ExistsAlways(Edges, graph.node)
  BY <1>1, <1>3 DEF ExistsAlways
<1>5. ASSUME NEW Z \in SUBSET graph.node, \A z \in Z : Post(Edges, {z}) \cap Z # {}
      PROVE  Z \subseteq result
  <2>. DEFINE Y == Z \ result
  <2>1. ASSUME NEW y \in Y
        PROVE  \E e \in graph.edge : e[1] = y /\ e[2] \in Y
    <3>1. PICK e \in Edges : e[1] = y /\ e[2] \in Z
      BY <1>5, <2>1 DEF Post
    <3>2. e \in graph.edge
      BY <1>2, <3>1
    <3>3. e[2] \notin result
      BY <2>1, <3>1, <3>2 DEF BackFound
    <3>. QED  BY <3>1, <3>2, <3>3
  <2>2. Y # {} => Y \cap UNION NonTrivial # {}
    <3>1. Y \in SUBSET graph.node
      OBVIOUS
    <3>. HIDE DEF Y
    <3>. QED  BY <2>1, <3>1, PathsEndInCycles
  <2>. QED  BY <2>2 DEF BackFound
<1>6. ExistsAlways(Edges, graph.node) \subseteq result
  BY <1>5 DEF ExistsAlways
<1>. QED  BY <1>4, <1>6

\* The label of EG, AF or AU is the fixpoint.
LEMMA EndBackIsExact ==
  ASSUME Cycling, EndBack, job' = job, Universe' = Universe, Edges' = Edges, Left' = Left
  PROVE  CycleLabelIsExact'
<1>. USE DEF Cycling
<1>1. /\ pc = "back" /\ work = {} /\ UNCHANGED <<rest, arg>> /\ Op \in {"EG", "AF", "AU"}
      /\ arg \subseteq Universe /\ job \in Job
  BY DEF EndBack, Labelled, Typed, Phase, TypeOK
<1>2. Op' = Op /\ Right' = Right /\ Conditions' = Conditions
  BY <1>1 DEF Op, Right, Conditions, Fair
<1>3. SUFFICES ASSUME Conditions = {}
               PROVE  sat' = Meaning(Op, Universe, Edges, Left, Right)
  BY <1>1, <1>2 DEF CycleLabelIsExact
<1>4. result = ExistsAlways(Edges, CycleArg)
  BY <1>1, <1>3, BackIsExact DEF OnCycle
<1>5. \A e \in Edges : e[1] \in Universe /\ e[2] \in Universe
  BY EdgesExplored
<1>6. CASE Op = "EG"
  BY <1>4, <1>6 DEF EndBack, Meaning, CycleArg, Right
<1>7. CASE Op = "AF"
  <2>1. sat' = Universe \ ExistsAlways(Edges, Universe \ Right)
    BY <1>4, <1>7 DEF EndBack, CycleArg, Not, Right
  <2>2. sat' = AllUntil(Universe, Edges, Universe, Right)
    BY <1>1, <1>5, <2>1, EventuallyDual DEF Right
  <2>. QED  BY <1>7, <2>2 DEF Meaning
<1>8. CASE Op = "AU"
  <2>1. sat' = Universe \ (Leaves \cup ExistsAlways(Edges, Universe \ Right))
    BY <1>1, <1>4, <1>8 DEF EndBack, CycleArg, Not, Right, OnCycle
  <2>2. Left \in SUBSET Universe /\ Right \in SUBSET Universe
    BY <1>1 DEF Left, Right
  <2>3. sat' = AllUntil(Universe, Edges, Left, Right)
    BY <1>5, <2>1, <2>2, Duality DEF Leaves, Not
  <2>. QED  BY <1>8, <2>3 DEF Meaning
<1>. QED  BY <1>1, <1>6, <1>7, <1>8

\* The components of the set that EG is labelled on.
LEMMA StartEGCycles ==
  ASSUME StartEG(CycleArg), UNCHANGED <<rest, arg>>, Op = "AU" => avoid' = Leaves,
         job' = job, Universe' = Universe, Edges' = Edges, Left' = Left
  PROVE  OnCycle' /\ pc' # "labelled"
<1>1. /\ Op' = Op /\ Conditions' = Conditions /\ CycleArg' = CycleArg /\ Leaves' = Leaves
  BY DEF Op, Conditions, Fair, CycleArg, Leaves, Not, Right
<1>2. CASE Conditions = {} \/ CycleArg = {}
  <2>1. TarjanStart(CycleArg, Edges) /\ pc' = "scc"
    BY <1>2 DEF StartEG
  <2>2. graph'.node = CycleArg /\ graph'.edge = Edges \cap (CycleArg \X CycleArg)
    BY <2>1 DEF TarjanStart
  <2>. QED  BY <1>1, <2>1, <2>2 DEF OnCycle
<1>3. CASE ~(Conditions = {} \/ CycleArg = {})
  <2>1. pc' = "fair"
    BY <1>3 DEF StartEG
  <2>. QED  BY <1>1, <1>3, <2>1 DEF OnCycle
<1>. QED  BY <1>2, <1>3

\* An iteration of the worklist of eg_label.
LEMMA PopBack ==
  ASSUME Tracing, BackFound, NEW s \in Node, Pop(s), pc = "back",
         graph.edge = Edges \cap (graph.node \X graph.node), job \in Job,
         work \subseteq result
  PROVE  BackFound'
<1>. DEFINE new == (Pred(s) \cap within) \ result
<1>1. /\ s \in work /\ UNCHANGED <<graph, sccs, within>>
      /\ result' = result \cup new /\ work' = (work \ {s}) \cup new
  BY DEF Pop, tarjan
<1>2. NonTrivial' = NonTrivial
  BY <1>1 DEF NonTrivial
<1>3. \A p \in Pred(s) : <<p, s>> \in Edges
  <2>1. \A e \in Edges : e \in Node \X Node
    BY DEF Edges, Job
  <2>. QED  BY <2>1 DEF Pred
<1>4. /\ within' = graph'.node /\ UNION NonTrivial' \subseteq result'
      /\ result' \subseteq graph'.node
  BY <1>1, <1>2 DEF BackFound
<1>5. ASSUME NEW e \in graph'.edge, e[2] \in result' \ work'
      PROVE  e[1] \in result'
  <2>1. e \in Edges /\ e \in graph.edge /\ e[1] \in within /\ e[2] \in result
    BY <1>1, <1>5, Basics DEF Tracing, Inside, BackFound
  <2>2. CASE e[2] = s
    BY <1>1, <2>1, <2>2 DEF Pred
  <2>3. CASE e[2] # s
    BY <1>1, <1>5, <2>1, <2>3 DEF BackFound
  <2>. QED  BY <2>2, <2>3
<1>6. ASSUME NEW v \in result'
      PROVE  v \in UNION NonTrivial \/ \E e \in graph.edge : e[1] = v /\ e[2] \in result'
  <2>1. CASE v \in result
    BY <1>1, <2>1 DEF BackFound
  <2>2. CASE v \in new
    <3>1. <<v, s>> \in graph.edge /\ s \in result
      BY <1>1, <1>3, <2>2 DEF BackFound
    <3>. QED  BY <1>1, <3>1
  <2>. QED  BY <1>1, <2>1, <2>2
<1>. QED  BY <1>1, <1>2, <1>4, <1>5, <1>6 DEF BackFound

LEMMA NextCycles == Cycling /\ [Next]_vars => Cycling'
<1>. SUFFICES ASSUME Cycling, [Next]_vars PROVE Cycling'
  OBVIOUS
<1>0. /\ job' = job /\ Universe' = Universe /\ Edges' = Edges /\ Fair' = Fair /\ Left' = Left
      /\ Labelled' /\ Tracing'
  BY JobIsFixed, NextLabelled, NextTraces DEF Cycling
<1>. SUFFICES OnCycle' /\ CycleLabelIsExact'
  BY <1>0 DEF Cycling
<1>. USE DEF Cycling
<1>1. CASE StartCycle
  <2>1. StartEG(CycleArg) /\ UNCHANGED <<rest, arg>> /\ Op # "AU"
    BY <1>1 DEF StartCycle, CycleArg
  <2>. QED  BY <1>0, <2>1, StartEGCycles DEF CycleLabelIsExact
<1>2. CASE EndWorklist
  <2>1. CASE Op = "AU"
    <3>1. /\ StartEG(CycleArg) /\ UNCHANGED <<rest, arg>> /\ avoid' = result
          /\ pc = "until" /\ work = {}
      BY <1>2, <2>1 DEF EndWorklist, CycleArg, Right
    <3>2. result = Leaves
      <4>1. within = Not(Right) /\ Seeds = Not(Left) \cap Not(Right)
        BY <2>1, <3>1 DEF Labelled, Found, Allowed, Seeds
      <4>. QED  BY <3>1, <4>1, EmptyWorklist DEF Labelled, Leaves
    <3>. QED  BY <1>0, <3>1, <3>2, StartEGCycles DEF CycleLabelIsExact
  <2>2. CASE Op # "AU"
    <3>1. pc' = "labelled" /\ Op' = Op /\ Op \in {"EF", "AG", "EU"}
      BY <1>2, <2>2 DEF EndWorklist, Op, Labelled, Typed, Phase
    <3>. QED  BY <3>1 DEF OnCycle, CycleLabelIsExact
  <2>. QED  BY <2>1, <2>2
<1>3. ASSUME UNCHANGED <<rest, arg>>
      PROVE  /\ Op' = Op /\ Conditions' = Conditions /\ CycleArg' = CycleArg
             /\ Leaves' = Leaves
  BY <1>0, <1>3 DEF Op, Conditions, CycleArg, Leaves, Not, Right
<1>4. ASSUME NEW s \in Node, Pop(s)  PROVE OnCycle' /\ CycleLabelIsExact'
  <2>1. /\ UNCHANGED <<tarjan, pc, rest, arg, within, avoid>> /\ graph' = graph
        /\ pc # "labelled" /\ TarjanDone' = TarjanDone
    BY <1>4, TracingUntouched DEF Pop, tarjan
  <2>2. pc = "back" => BackFound'
    BY <1>4, PopBack DEF OnCycle, Labelled, Typed, TypeOK
  <2>. QED  BY <1>0, <1>3, <2>1, <2>2 DEF OnCycle, CycleLabelIsExact
<1>5. CASE FindComponents
  <2>1. /\ pc = "scc" /\ UNCHANGED <<pc, rest, arg, avoid>> /\ graph' = graph
    BY <1>5, TarjanSteps DEF FindComponents, Tracing
  <2>. QED  BY <1>0, <1>3, <2>1 DEF OnCycle, CycleLabelIsExact
<1>6. CASE EndRound
  <2>1. pc = "fair" /\ UNCHANGED <<rest, arg, avoid>> /\ Conditions # {}
    BY <1>6 DEF EndRound, OnCycle
  <2>2. CASE kept = cand
    <3>1. TarjanStart(cand, Edges) /\ pc' = "scc"
      BY <1>6, <2>2 DEF EndRound
    <3>2. graph'.edge = Edges \cap (graph'.node \X graph'.node)
      BY <3>1 DEF TarjanStart
    <3>. QED  BY <1>0, <1>3, <2>1, <3>1, <3>2 DEF OnCycle, CycleLabelIsExact
  <2>3. CASE kept # cand
    <3>1. pc' = "fair"
      BY <1>6, <2>1, <2>3 DEF EndRound
    <3>. QED  BY <1>0, <1>3, <2>1, <3>1 DEF OnCycle, CycleLabelIsExact
  <2>. QED  BY <2>2, <2>3
<1>7. CASE KeepReaching \/ \E F \in left : ApplyCondition(F)
  <2>1. /\ pc \in {"fair", "reach"} /\ pc' \in {"fair", "reach"}
        /\ UNCHANGED <<rest, arg, avoid>>
    BY <1>7 DEF KeepReaching, ApplyCondition
  <2>. QED  BY <1>0, <1>3, <2>1 DEF OnCycle, CycleLabelIsExact
<1>8. CASE StartBack
  <2>1. /\ pc = "scc" /\ pc' = "back" /\ TarjanDone /\ UNCHANGED <<tarjan, rest, arg, avoid>>
        /\ result' = UNION NonTrivial /\ work' = result' /\ within' = graph.node
        /\ graph' = graph
    BY <1>8 DEF StartBack, Worklist, tarjan
  <2>2. NonTrivial' = NonTrivial /\ TarjanDone'
    BY <2>1, TracingUntouched
  <2>3. BackFound'
    BY <2>1, <2>2, InGraph DEF BackFound
  <2>. QED  BY <1>0, <1>3, <2>1, <2>2, <2>3 DEF OnCycle, CycleLabelIsExact
<1>9. CASE EndBack
  BY <1>0, <1>9, EndBackIsExact DEF EndBack, OnCycle
<1>10. CASE LabelAtOnce
  <2>1. pc' = "labelled" /\ Op' = Op /\ Op \in {"EX", "AX", "IMP"}
    BY <1>10 DEF LabelAtOnce, Op
  <2>. QED  BY <2>1 DEF OnCycle, CycleLabelIsExact
<1>11. CASE StartWorklist \/ NextOperator \/ Pass \/ \E s \in Node : Violation(s)
  <2>1. pc' \in {"until", "op", "done"}
    BY <1>11 DEF StartWorklist, NextOperator, Pass, Violation
  <2>. QED  BY <2>1 DEF OnCycle, CycleLabelIsExact
<1>12. CASE UNCHANGED vars
  <2>1. /\ UNCHANGED <<tarjan, pc, rest, arg, sat, result, work, within, avoid>>
        /\ graph' = graph
    BY <1>12 DEF vars, tarjan
  <2>2. NonTrivial' = NonTrivial /\ TarjanDone' = TarjanDone
    BY <2>1, TracingUntouched
  <2>3. BackFound' = BackFound
    BY <2>1, <2>2 DEF BackFound
  <2>4. Op' = Op /\ Right' = Right /\ Conditions' = Conditions /\ CycleArg' = CycleArg
        /\ Leaves' = Leaves
    BY <1>0, <1>3, <2>1 DEF Right
  <2>. QED  BY <1>0, <2>1, <2>2, <2>3, <2>4 DEF OnCycle, CycleLabelIsExact
<1>. QED  BY <1>1, <1>2, <1>4, <1>5, <1>6, <1>7, <1>8, <1>9, <1>10, <1>11, <1>12
          DEF Next, Finished

\* Where no fairness applies EG is labelled with the greatest fixpoint and AF and
\* AU, which are read off EG and E[~q U ~p /\ ~q], with the least one, on every
\* graph, in whatever order the components and the worklist go.
THEOREM CycleLabelExact == Spec => []CycleLabelIsExact
<1>1. Init => Cycling
  <2>. SUFFICES ASSUME Init PROVE Cycling
    OBVIOUS
  <2>1. pc = "op" /\ TarjanInit /\ Typed
    BY InitTyped DEF Init
  <2>2. Tracing
    BY <2>1, TracingInit DEF Typed
  <2>3. Labelled
    BY <2>1 DEF Labelled, Found, ReachLabelIsExact
  <2>. QED  BY <2>1, <2>2, <2>3 DEF Cycling, OnCycle, CycleLabelIsExact
<1>2. Spec => []Cycling
  BY <1>1, NextCycles, PTL DEF Spec
<1>3. Cycling => CycleLabelIsExact
  BY DEF Cycling
<1>. QED  BY <1>2, <1>3, PTL

-----------------------------------------------------------------------------
(* Fair paths. FairAlways is closed in itself: a path leads from each of   *)
(* its states through its states into a loop that meets every condition.   *)

LEMMA FairBasics ==
  ASSUME NEW N, NEW E, NEW a \in SUBSET N, NEW fair
  PROVE  /\ FairAlways(N, E, a, fair) \subseteq a
         /\ \A Z \in FairLoops(E, a, fair) : Z \subseteq FairAlways(N, E, a, fair)
<1>. DEFINE L == UNION FairLoops(E, a, fair)
            FA == ExistsUntil(N, E, a, L)
<1>1. L \in SUBSET N /\ L \subseteq a
  BY DEF FairLoops
<1>2. \A Z \in FairLoops(E, a, fair) : Z \subseteq L
  OBVIOUS
<1>3. FairAlways(N, E, a, fair) = FA
  BY DEF FairAlways
<1>. HIDE DEF L
<1>4. FA \subseteq a
  <2>1. \A e \in E : e[1] \in a /\ e[2] \in a => e[1] \in a
    OBVIOUS
  <2>. QED  BY <1>1, <2>1, UntilLeast
<1>5. L \subseteq FA
  BY <1>1, UntilSeeds
<1>. QED  BY <1>2, <1>3, <1>4, <1>5

LEMMA FairClosed ==
  ASSUME NEW N, NEW E, NEW a \in SUBSET N, NEW fair,
         NEW e \in E, e[1] \in a, e[2] \in FairAlways(N, E, a, fair)
  PROVE  e[1] \in FairAlways(N, E, a, fair)
<1>. DEFINE L == UNION FairLoops(E, a, fair)
<1>1. L \in SUBSET N
  BY DEF FairLoops
<1>. HIDE DEF L
<1>2. FairAlways(N, E, a, fair) = ExistsUntil(N, E, a, L)
  BY DEF FairAlways, L
<1>. QED  BY <1>1, <1>2, UntilClosed

\* Nothing smaller is closed.
LEMMA FairLeast ==
  ASSUME NEW N, NEW E, NEW a \in SUBSET N, NEW fair, NEW C \in SUBSET N,
         \A Z \in FairLoops(E, a, fair) : Z \subseteq C,
         \A e \in E : e[1] \in a /\ e[2] \in C => e[1] \in C
  PROVE  FairAlways(N, E, a, fair) \subseteq C
<1>. DEFINE L == UNION FairLoops(E, a, fair)
<1>1. L \subseteq C
  OBVIOUS
<1>. HIDE DEF L
<1>2. FairAlways(N, E, a, fair) = ExistsUntil(N, E, a, L)
  BY DEF FairAlways, L
<1>. QED  BY <1>1, <1>2, UntilLeast

\* A state on a fair path has a successor on one.
LEMMA FairGoesOn ==
  ASSUME NEW N, NEW E, NEW a \in SUBSET N, NEW fair, NEW s \in FairAlways(N, E, a, fair)
  PROVE  Post(E, {s}) \cap FairAlways(N, E, a, fair) # {}
<1>. DEFINE FA == FairAlways(N, E, a, fair)
<1>1. FA \subseteq a /\ \A Z \in FairLoops(E, a, fair) : Z \subseteq FA
  BY FairBasics
<1>2. CASE \E Z \in FairLoops(E, a, fair) : s \in Z
  <2>1. PICK Z \in FairLoops(E, a, fair) : s \in Z
    BY <1>2
  <2>2. Post(E, {s}) \cap ExistsUntil(Z, E, Z, {s}) # {}
    BY <2>1 DEF FairLoops
  <2>3. ExistsUntil(Z, E, Z, {s}) \subseteq Z
    BY DEF ExistsUntil
  <2>4. Post(E, {s}) \cap Z # {}
    BY <2>2, <2>3
  <2>. QED  BY <1>1, <2>4
<1>3. CASE ~\E Z \in FairLoops(E, a, fair) : s \in Z
  <2>. SUFFICES ASSUME Post(E, {s}) \cap FA = {} PROVE FALSE
    OBVIOUS
  <2>. DEFINE C == FA \ {s}
  <2>1. C \in SUBSET N /\ \A Z \in FairLoops(E, a, fair) : Z \subseteq C
    BY <1>1, <1>3
  <2>2. ASSUME NEW e \in E, e[1] \in a, e[2] \in C
        PROVE  e[1] \in C
    <3>1. e[1] \in FA
      BY <2>2, FairClosed
    <3>2. e[1] = s => e[2] \in Post(E, {s})
      BY DEF Post
    <3>. QED  BY <2>2, <3>1, <3>2
  <2>3. FA \subseteq C
    <3>. HIDE DEF C
    <3>. QED  BY <2>1, <2>2, FairLeast
  <2>. QED  BY <2>3
<1>. QED  BY <1>2, <1>3

\* From a state on a fair path every condition is reached along fair paths.
LEMMA FairReaches ==
  ASSUME NEW N, NEW E, NEW a \in SUBSET N, NEW fair, NEW F \in fair,
         NEW c \in SUBSET N, FairAlways(N, E, a, fair) \subseteq c
  PROVE  FairAlways(N, E, a, fair) \subseteq ExistsUntil(N, E, c, c \cap F)
<1>. DEFINE FA == FairAlways(N, E, a, fair)
            b == c \cap F
            R == ExistsUntil(N, E, c, b)
            C == FA \cap R
<1>1. FA \subseteq a /\ \A Z \in FairLoops(E, a, fair) : Z \subseteq FA
  BY FairBasics
<1>2. b \in SUBSET N /\ R \subseteq N
  BY DEF ExistsUntil
<1>. HIDE DEF b
<1>3. b \subseteq R
  BY <1>2, UntilSeeds
<1>4. ASSUME NEW e \in E, e[1] \in c, e[2] \in R
      PROVE  e[1] \in R
  BY <1>2, <1>4, UntilClosed
<1>. HIDE DEF FA, R
<1>5. ASSUME NEW Z \in FairLoops(E, a, fair)
      PROVE  Z \subseteq C
  <2>. SUFFICES ASSUME NEW z \in Z PROVE z \in R
    BY <1>1
  <2>1. Z \subseteq FA /\ Z \subseteq c
    BY <1>1 DEF FA
  <2>2. PICK w \in Z : w \in F
    BY DEF FairLoops
  <2>3. PICK y \in Post(E, {z}) : y \in ExistsUntil(Z, E, Z, {w})
    BY DEF FairLoops
  <2>4. ExistsUntil(Z, E, Z, {w}) \subseteq Z \cap R
    <3>. DEFINE D == Z \cap R
    <3>1. D \in SUBSET Z /\ {w} \subseteq D
      BY <1>3, <2>1, <2>2 DEF b
    <3>2. \A e \in E : e[1] \in Z /\ e[2] \in D => e[1] \in D
      BY <1>4, <2>1
    <3>. HIDE DEF D
    <3>3. ExistsUntil(Z, E, Z, {w}) \subseteq D
      BY <3>1, <3>2, UntilLeast
    <3>. QED  BY <3>3 DEF D
  <2>5. PICK e \in E : e[1] = z /\ e[2] = y
    BY <2>3 DEF Post
  <2>. QED  BY <1>4, <2>1, <2>3, <2>4, <2>5
<1>6. ASSUME NEW e \in E, e[1] \in a, e[2] \in C
      PROVE  e[1] \in C
  <2>1. e[1] \in FA
    BY <1>6, FairClosed DEF FA
  <2>. QED  BY <1>4, <1>6, <2>1 DEF FA
<1>7. FA \subseteq C
  <2>1. C \in SUBSET N
    BY <1>2
  <2>. HIDE DEF C
  <2>. QED  BY <1>5, <1>6, <2>1, FairLeast DEF FA
<1>. QED  BY <1>7 DEF FA, R, b

-----------------------------------------------------------------------------
(* The rounds of eg_fair.                                                  *)

FairSet == FairAlways(Universe, Edges, CycleArg, Fair)

\* The rounds of eg_fair never drop a state of a fair path: the worklist of a
\* condition will have found it, and it is a node of the graph of the components.
FairKept ==
  /\ pc \in {"fair", "reach"} => FairSet \subseteq cand /\ FairSet \subseteq kept
  /\ pc \in {"scc", "back"} => FairSet \subseteq graph.node
  /\ pc = "reach" =>
       /\ within = cand /\ \E F \in Fair : cand \cap F \subseteq result
       /\ \A e \in Edges : e[1] \in cand /\ e[2] \in result \ work => e[1] \in result

Keeping == Cycling /\ FairKept /\ FairPathsAreKept

\* A fair path stays in the set EG is labelled on.
LEMMA FairInside ==
  ASSUME Typed
  PROVE  FairSet \subseteq CycleArg /\ CycleArg \subseteq Universe
<1>1. CycleArg \in SUBSET Universe
  BY DEF Typed, TypeOK, CycleArg, Not
<1>. QED  BY <1>1, FairBasics DEF FairSet

\* What the operator and its argument fix.
LEMMA FairFixed ==
  ASSUME job' = job, Universe' = Universe, Edges' = Edges, Fair' = Fair,
         UNCHANGED <<rest, arg>>
  PROVE  Op' = Op /\ CycleArg' = CycleArg /\ FairSet' = FairSet
<1>1. Op' = Op /\ CycleArg' = CycleArg
  BY DEF Op, CycleArg, Not
<1>. QED  BY <1>1 DEF FairSet

LEMMA StartEGKeeps ==
  ASSUME Typed, StartEG(CycleArg), UNCHANGED <<rest, arg>>,
         job' = job, Universe' = Universe, Edges' = Edges, Fair' = Fair
  PROVE  FairKept' /\ FairPathsAreKept'
<1>1. FairSet' = FairSet /\ FairSet \subseteq CycleArg
  BY FairFixed, FairInside
<1>2. CASE Conditions = {} \/ CycleArg = {}
  <2>1. graph'.node = CycleArg /\ pc' = "scc"
    BY <1>2 DEF StartEG, TarjanStart
  <2>. QED  BY <1>1, <2>1 DEF FairKept, FairPathsAreKept
<1>3. CASE ~(Conditions = {} \/ CycleArg = {})
  <2>1. pc' = "fair" /\ cand' = CycleArg /\ kept' = CycleArg
    BY <1>3 DEF StartEG
  <2>. QED  BY <1>1, <2>1 DEF FairKept, FairPathsAreKept
<1>. QED  BY <1>2, <1>3

\* The worklist of a condition has found every state of a fair path.
LEMMA ReachKeeps ==
  ASSUME Keeping, pc = "reach", work = {}
  PROVE  FairSet \subseteq result
<1>1. /\ FairSet \subseteq cand /\ cand \in SUBSET Universe /\ result \in SUBSET Universe
      /\ \A e \in Edges : e[1] \in cand /\ e[2] \in result => e[1] \in result
  BY DEF Keeping, FairKept, Cycling, Labelled, Typed, TypeOK
<1>2. PICK F \in Fair : cand \cap F \subseteq result
  BY DEF Keeping, FairKept
<1>3. CycleArg \in SUBSET Universe
  BY FairInside DEF Keeping, Cycling, Labelled
<1>4. FairSet \subseteq ExistsUntil(Universe, Edges, cand, cand \cap F)
  BY <1>1, <1>3, FairReaches DEF FairSet
<1>5. ExistsUntil(Universe, Edges, cand, cand \cap F) \subseteq result
  BY <1>1, <1>2, UntilLeast
<1>. QED  BY <1>4, <1>5

\* The label that eg_label finds has every state of a fair path.
LEMMA EndBackKeeps ==
  ASSUME Keeping, EndBack, job' = job, Universe' = Universe, Edges' = Edges, Fair' = Fair
  PROVE  FairPathsAreKept'
<1>. USE DEF Keeping, Cycling
<1>1. /\ pc = "back" /\ work = {} /\ UNCHANGED <<rest, arg>>
      /\ arg \subseteq Universe /\ job \in Job
  BY DEF EndBack, Labelled, Typed, TypeOK
<1>2. Op' = Op /\ FairSet' = FairSet /\ Fair' = Fair
  BY <1>1, FairFixed
<1>3. result = ExistsAlways(Edges, graph.node)
  BY <1>1, BackIsExact DEF OnCycle
<1>4. FairSet \subseteq graph.node
  BY <1>1 DEF FairKept
<1>5. \A s \in FairSet : Post(Edges, {s}) \cap FairSet # {}
  <2>1. CycleArg \in SUBSET Universe
    BY FairInside DEF Labelled
  <2>. QED  BY <2>1, FairGoesOn DEF FairSet
<1>6. FairSet \subseteq result
  BY <1>3, <1>4, <1>5 DEF ExistsAlways
<1>7. CASE Op = "EG"
  <2>1. sat' = result
    BY <1>7 DEF EndBack
  <2>2. FairSet = FairAlways(Universe, Edges, arg, Fair)
    BY <1>7 DEF FairSet, CycleArg
  <2>. QED  BY <1>1, <1>2, <1>6, <1>7, <2>1, <2>2 DEF FairPathsAreKept
<1>8. CASE Op = "AF"
  <2>1. sat' = Not(result)
    BY <1>8 DEF EndBack
  <2>2. FairSet = FairAlways(Universe, Edges, Not(arg), Fair)
    BY <1>8 DEF FairSet, CycleArg
  <2>3. Not(arg)' = Not(arg)
    BY <1>1 DEF Not
  <2>4. FairSet \cap Not(result) = {}
    BY <1>6 DEF Not
  <2>. QED  BY <1>1, <1>2, <1>8, <2>1, <2>2, <2>3, <2>4 DEF FairPathsAreKept
<1>9. CASE Op \notin {"EG", "AF"}
  BY <1>2, <1>9 DEF FairPathsAreKept
<1>. QED  BY <1>7, <1>8, <1>9

LEMMA NextKeeps == Keeping /\ [Next]_vars => Keeping'
<1>. SUFFICES ASSUME Keeping, [Next]_vars PROVE Keeping'
  OBVIOUS
<1>0. /\ job' = job /\ Universe' = Universe /\ Edges' = Edges /\ Fair' = Fair
      /\ Cycling' /\ Typed
  BY JobIsFixed, NextCycles DEF Keeping, Cycling, Labelled
<1>. SUFFICES FairKept' /\ FairPathsAreKept'
  BY <1>0 DEF Keeping
<1>1. CASE StartCycle
  <2>1. StartEG(CycleArg) /\ UNCHANGED <<rest, arg>>
    BY <1>1 DEF StartCycle, CycleArg
  <2>. QED  BY <1>0, <2>1, StartEGKeeps
<1>2. CASE EndWorklist
  <2>1. CASE Op = "AU"
    <3>1. StartEG(CycleArg) /\ UNCHANGED <<rest, arg>>
      BY <1>2, <2>1 DEF EndWorklist, CycleArg, Right
    <3>. QED  BY <1>0, <3>1, StartEGKeeps
  <2>2. CASE Op # "AU"
    <3>1. pc' = "labelled" /\ Op' = Op /\ Op \in {"EF", "AG", "EU"}
      BY <1>0, <1>2, <2>2 DEF EndWorklist, Op, Typed, Phase
    <3>. QED  BY <3>1 DEF FairKept, FairPathsAreKept
  <2>. QED  BY <2>1, <2>2
<1>3. ASSUME NEW s \in Node, Pop(s)  PROVE FairKept' /\ FairPathsAreKept'
  <2>. DEFINE new == (Pred(s) \cap within) \ result
  <2>1. /\ UNCHANGED <<tarjan, pc, rest, arg, within, cand, kept>> /\ graph' = graph
        /\ pc # "labelled" /\ s \in work
        /\ result' = result \cup new /\ work' = (work \ {s}) \cup new
    BY <1>3 DEF Pop, tarjan, fairs
  <2>2. FairSet' = FairSet
    BY <1>0, <2>1, FairFixed
  <2>3. ASSUME pc = "reach", NEW e \in Edges, e[1] \in cand, e[2] \in result' \ work'
        PROVE  e[1] \in result'
    <3>1. e[2] \in result /\ within = cand
      BY <2>1, <2>3 DEF Keeping, FairKept
    <3>2. CASE e[2] = s
      BY <2>1, <2>3, <3>1, <3>2 DEF Pred
    <3>3. CASE e[2] # s
      BY <2>1, <2>3, <3>1, <3>3 DEF Keeping, FairKept
    <3>. QED  BY <3>2, <3>3
  <2>4. result \subseteq result'
    BY <2>1
  <2>. HIDE DEF new
  <2>. QED  BY <1>0, <2>1, <2>2, <2>3, <2>4 DEF Keeping, FairKept, FairPathsAreKept
<1>4. CASE FindComponents
  <2>1. /\ pc = "scc" /\ UNCHANGED <<pc, rest, arg>> /\ graph' = graph
    BY <1>4, TarjanSteps DEF FindComponents, Keeping, Cycling, Tracing
  <2>2. FairSet' = FairSet
    BY <1>0, <2>1, FairFixed
  <2>. QED  BY <2>1, <2>2 DEF Keeping, FairKept, FairPathsAreKept
<1>5. CASE EndRound
  <2>1. pc = "fair" /\ UNCHANGED <<rest, arg>>
    BY <1>5 DEF EndRound
  <2>2. FairSet' = FairSet /\ FairSet \subseteq cand /\ FairSet \subseteq kept
    BY <1>0, <2>1, FairFixed DEF Keeping, FairKept
  <2>3. CASE kept = cand
    <3>1. graph'.node = cand /\ pc' = "scc"
      BY <1>5, <2>3 DEF EndRound, TarjanStart
    <3>. QED  BY <2>2, <3>1 DEF FairKept, FairPathsAreKept
  <2>4. CASE kept # cand
    <3>1. cand' = kept /\ kept' = kept /\ pc' = "fair"
      BY <1>5, <2>1, <2>4 DEF EndRound
    <3>. QED  BY <2>2, <3>1 DEF FairKept, FairPathsAreKept
  <2>. QED  BY <2>3, <2>4
<1>6. CASE KeepReaching
  <2>1. /\ pc = "reach" /\ work = {} /\ pc' = "fair" /\ UNCHANGED <<rest, arg, cand>>
        /\ kept' = kept \cap result
    BY <1>6 DEF KeepReaching
  <2>2. FairSet' = FairSet /\ FairSet \subseteq result
    BY <1>0, <2>1, FairFixed, ReachKeeps
  <2>. QED  BY <2>1, <2>2 DEF Keeping, FairKept, FairPathsAreKept
<1>7. ASSUME NEW F \in left, ApplyCondition(F)  PROVE FairKept' /\ FairPathsAreKept'
  <2>1. /\ pc = "fair" /\ pc' = "reach" /\ UNCHANGED <<rest, arg, cand, kept>>
        /\ result' = cand \cap F /\ work' = result' /\ within' = cand
    BY <1>7 DEF ApplyCondition, Worklist
  <2>2. FairSet' = FairSet /\ F \in Fair
    BY <1>0, <2>1, FairFixed DEF Typed, TypeOK
  <2>. QED  BY <1>0, <2>1, <2>2 DEF Keeping, FairKept, FairPathsAreKept
<1>8. CASE StartBack
  <2>1. pc = "scc" /\ pc' = "back" /\ UNCHANGED <<rest, arg>> /\ graph' = graph
    BY <1>8 DEF StartBack, tarjan
  <2>2. FairSet' = FairSet
    BY <1>0, <2>1, FairFixed
  <2>. QED  BY <2>1, <2>2 DEF Keeping, FairKept, FairPathsAreKept
<1>9. CASE EndBack
  BY <1>0, <1>9, EndBackKeeps DEF EndBack, FairKept
<1>10. CASE LabelAtOnce
  <2>1. pc' = "labelled" /\ Op' = Op /\ Op \in {"EX", "AX", "IMP"}
    BY <1>10 DEF LabelAtOnce, Op
  <2>. QED  BY <2>1 DEF FairKept, FairPathsAreKept
<1>11. CASE StartWorklist \/ NextOperator \/ Pass \/ \E s \in Node : Violation(s)
  <2>1. pc' \in {"until", "op", "done"}
    BY <1>11 DEF StartWorklist, NextOperator, Pass, Violation
  <2>. QED  BY <2>1 DEF FairKept, FairPathsAreKept
<1>12. CASE UNCHANGED vars
  <2>1. /\ UNCHANGED <<pc, rest, arg, sat, result, work, within, cand, kept, graph>>
    BY <1>12 DEF vars
  <2>2. FairSet' = FairSet /\ Op' = Op /\ Not(arg)' = Not(arg)
    BY <1>0, <2>1, FairFixed DEF Not
  <2>. QED  BY <1>0, <2>1, <2>2 DEF Keeping, FairKept, FairPathsAreKept
<1>. QED  BY <1>1, <1>2, <1>3, <1>4, <1>5, <1>6, <1>7, <1>8, <1>9, <1>10, <1>11, <1>12
          DEF Next, Finished

\* However often and in whatever order eg_fair applies its conditions, a state with
\* a fair path on which the argument of EG holds for ever is labelled EG, and one
\* with a fair path that never meets the goal of AF is not labelled AF.
THEOREM FairPathsKept == Spec => []FairPathsAreKept
<1>1. Init => Keeping
  <2>. SUFFICES ASSUME Init PROVE Keeping
    OBVIOUS
  <2>1. pc = "op" /\ TarjanInit /\ Typed
    BY InitTyped DEF Init
  <2>2. Tracing
    BY <2>1, TracingInit DEF Typed
  <2>3. Cycling
    BY <2>1, <2>2 DEF Cycling, Labelled, Found, ReachLabelIsExact, OnCycle, CycleLabelIsExact
  <2>. QED  BY <2>1, <2>3 DEF Keeping, FairKept, FairPathsAreKept
<1>2. Spec => []Keeping
  BY <1>1, NextKeeps, PTL DEF Spec
<1>3. Keeping => FairPathsAreKept
  BY DEF Keeping
<1>. QED  BY <1>2, <1>3, PTL

(***************************************************************************)
(* The part and the whole. A search that a bound ended has recorded a part *)
(* of the graph. An existential operator found in the part holds in the    *)
(* whole, a universal one missed in the part fails in the whole, and on a  *)
(* part that no edge leaves every operator means what it means there.      *)
(***************************************************************************)

-----------------------------------------------------------------------------
(* The part and the whole: an operator on the explored graph D over U, and *)
(* on the whole graph E over N.                                            *)

\* The edges of a part of the graph are edges of the whole inside the part.
IsPart(U, D, N, E) == U \subseteq N /\ D \subseteq E /\ \A e \in D : e[1] \in U /\ e[2] \in U

\* The part has every edge that starts in it.
IsWhole(U, D, E) == \A e \in E : e[1] \in U => e \in D

LEMMA ExistsPart ==
  ASSUME NEW U, NEW D, NEW N, NEW E, NEW a, NEW b, IsPart(U, D, N, E)
  PROVE  ExistsUntil(U, D, a \cap U, b \cap U) \subseteq ExistsUntil(N, E, a, b)
<1>. SUFFICES ASSUME NEW s \in ExistsUntil(U, D, a \cap U, b \cap U), NEW C \in SUBSET N,
                     b \subseteq C, \A e \in E : e[1] \in a /\ e[2] \in C => e[1] \in C
              PROVE  s \in N /\ s \in C
  BY DEF ExistsUntil, IsPart
<1>1. C \cap U \in SUBSET U /\ b \cap U \subseteq C \cap U
  OBVIOUS
<1>2. \A e \in D : e[1] \in a \cap U /\ e[2] \in C \cap U => e[1] \in C \cap U
  BY DEF IsPart
<1>3. s \in U /\ s \in C \cap U
  BY <1>1, <1>2 DEF ExistsUntil
<1>. QED  BY <1>3 DEF IsPart

LEMMA ExistsWhole ==
  ASSUME NEW U, NEW D, NEW N, NEW E, NEW a, NEW b, b \subseteq N, a \subseteq N,
         IsPart(U, D, N, E), IsWhole(U, D, E)
  PROVE  ExistsUntil(N, E, a, b) \cap U \subseteq ExistsUntil(U, D, a \cap U, b \cap U)
<1>. SUFFICES ASSUME NEW s \in ExistsUntil(N, E, a, b), s \in U, NEW C \in SUBSET U,
                     b \cap U \subseteq C,
                     \A e \in D : e[1] \in a \cap U /\ e[2] \in C => e[1] \in C
              PROVE  s \in C
  BY DEF ExistsUntil
<1>. DEFINE B == C \cup (N \ U)
<1>1. B \in SUBSET N /\ b \subseteq B
  BY DEF IsPart
<1>2. ASSUME NEW e \in E, e[1] \in a, e[2] \in B
      PROVE  e[1] \in B
  <2>1. CASE e[1] \notin U
    BY <1>2, <2>1
  <2>2. CASE e[1] \in U
    <3>1. e \in D /\ e[2] \in U
      BY <2>2 DEF IsPart, IsWhole
    <3>. QED  BY <1>2, <2>2, <3>1
  <2>. QED  BY <2>1, <2>2
<1>3. s \in B
  <2>. HIDE DEF B
  <2>. QED  BY <1>1, <1>2 DEF ExistsUntil
<1>. QED  BY <1>3

LEMMA AllPart ==
  ASSUME NEW U, NEW D, NEW N, NEW E, NEW a, NEW b, b \subseteq N, a \subseteq N,
         IsPart(U, D, N, E)
  PROVE  AllUntil(N, E, a, b) \cap U \subseteq AllUntil(U, D, a \cap U, b \cap U)
<1>. SUFFICES ASSUME NEW s \in AllUntil(N, E, a, b), s \in U, NEW C \in SUBSET U,
                     b \cap U \subseteq C,
                     \A t \in a \cap U : Post(D, {t}) \subseteq C => t \in C
              PROVE  s \in C
  BY DEF AllUntil
<1>. DEFINE B == C \cup (N \ U)
<1>1. B \in SUBSET N /\ b \subseteq B
  BY DEF IsPart
<1>2. ASSUME NEW t \in a, Post(E, {t}) \subseteq B
      PROVE  t \in B
  <2>1. CASE t \notin U
    BY <2>1
  <2>2. CASE t \in U
    <3>1. Post(D, {t}) \subseteq C
      BY <1>2 DEF Post, IsPart
    <3>. QED  BY <2>2, <3>1
  <2>. QED  BY <2>1, <2>2
<1>3. s \in B
  <2>. HIDE DEF B
  <2>. QED  BY <1>1, <1>2 DEF AllUntil
<1>. QED  BY <1>3

LEMMA AllWhole ==
  ASSUME NEW U, NEW D, NEW N, NEW E, NEW a, NEW b,
         IsPart(U, D, N, E), IsWhole(U, D, E)
  PROVE  AllUntil(U, D, a \cap U, b \cap U) \subseteq AllUntil(N, E, a, b)
<1>. SUFFICES ASSUME NEW s \in AllUntil(U, D, a \cap U, b \cap U), NEW C \in SUBSET N,
                     b \subseteq C, \A t \in a : Post(E, {t}) \subseteq C => t \in C
              PROVE  s \in N /\ s \in C
  BY DEF AllUntil, IsPart
<1>1. C \cap U \in SUBSET U /\ b \cap U \subseteq C \cap U
  OBVIOUS
<1>2. ASSUME NEW t \in a \cap U, Post(D, {t}) \subseteq C \cap U
      PROVE  t \in C \cap U
  <2>1. Post(E, {t}) \subseteq C
    BY <1>2 DEF Post, IsWhole
  <2>. QED  BY <2>1
<1>3. s \in U /\ s \in C \cap U
  BY <1>1, <1>2 DEF AllUntil
<1>. QED  BY <1>3 DEF IsPart

LEMMA AlwaysPart ==
  ASSUME NEW U, NEW D, NEW N, NEW E, NEW b, IsPart(U, D, N, E)
  PROVE  ExistsAlways(D, b \cap U) \subseteq ExistsAlways(E, b)
<1>. SUFFICES ASSUME NEW Z \in SUBSET (b \cap U), \A z \in Z : Post(D, {z}) \cap Z # {},
                     NEW s \in Z
              PROVE  s \in ExistsAlways(E, b)
  BY DEF ExistsAlways
<1>1. \A z \in Z : Post(E, {z}) \cap Z # {}
  BY DEF Post, IsPart
<1>. QED  BY <1>1 DEF ExistsAlways

LEMMA AlwaysWhole ==
  ASSUME NEW U, NEW D, NEW N, NEW E, NEW b, IsPart(U, D, N, E), IsWhole(U, D, E)
  PROVE  ExistsAlways(E, b) \cap U \subseteq ExistsAlways(D, b \cap U)
<1>. SUFFICES ASSUME NEW Z \in SUBSET b, \A z \in Z : Post(E, {z}) \cap Z # {},
                     NEW s \in Z, s \in U
              PROVE  s \in ExistsAlways(D, b \cap U)
  BY DEF ExistsAlways
<1>1. ASSUME NEW z \in Z \cap U
      PROVE  Post(D, {z}) \cap (Z \cap U) # {}
  <2>1. PICK e \in E : e[1] = z /\ e[2] \in Z
    BY DEF Post
  <2>2. e \in D /\ e[2] \in U
    BY <2>1 DEF IsPart, IsWhole
  <2>. QED  BY <2>1, <2>2 DEF Post
<1>. QED  BY <1>1 DEF ExistsAlways

\* What an existential operator finds in a part holds in the whole.
LEMMA ExistsIsReal ==
  ASSUME NEW U, NEW D, NEW N, NEW E, NEW a, NEW b, a \subseteq N, b \subseteq N,
         IsPart(U, D, N, E), NEW op \in {"EX", "EF", "EU", "EG"}
  PROVE  Meaning(op, U, D, a \cap U, b \cap U) \subseteq Meaning(op, N, E, a, b)
<1>1. CASE op = "EX"
  BY <1>1 DEF Meaning, Post, IsPart
<1>2. CASE op = "EF"
  <2>1. N \cap U = U
    BY DEF IsPart
  <2>2. ExistsUntil(U, D, N \cap U, b \cap U) \subseteq ExistsUntil(N, E, N, b)
    BY ExistsPart
  <2>. QED  BY <1>2, <2>1, <2>2 DEF Meaning
<1>3. CASE op = "EU"
  BY <1>3, ExistsPart DEF Meaning
<1>4. CASE op = "EG"
  BY <1>4, AlwaysPart DEF Meaning
<1>. QED  BY <1>1, <1>2, <1>3, <1>4

\* What a universal operator misses in a part fails in the whole.
LEMMA AllIsReal ==
  ASSUME NEW U, NEW D, NEW N, NEW E, NEW a, NEW b, a \subseteq N, b \subseteq N,
         IsPart(U, D, N, E), NEW op \in {"AX", "AG", "AU", "AF"}
  PROVE  Meaning(op, N, E, a, b) \cap U \subseteq Meaning(op, U, D, a \cap U, b \cap U)
<1>0. N \cap U = U /\ (N \ b) \cap U = U \ (b \cap U)
  BY DEF IsPart
<1>1. CASE op = "AX"
  <2>1. \A s : Post(D, {s}) \subseteq Post(E, {s}) /\ Post(D, {s}) \subseteq U
    BY DEF Post, IsPart
  <2>. QED  BY <1>1, <2>1 DEF Meaning
<1>2. CASE op = "AG"
  <2>1. ExistsUntil(U, D, N \cap U, (N \ b) \cap U) \subseteq ExistsUntil(N, E, N, N \ b)
    BY ExistsPart
  <2>. QED  BY <1>0, <1>2, <2>1 DEF Meaning
<1>3. CASE op = "AU"
  BY <1>3, AllPart DEF Meaning
<1>4. CASE op = "AF"
  <2>1. AllUntil(N, E, N, b) \cap U \subseteq AllUntil(U, D, N \cap U, b \cap U)
    BY AllPart
  <2>. QED  BY <1>0, <1>4, <2>1 DEF Meaning
<1>. QED  BY <1>1, <1>2, <1>3, <1>4

\* On a part that no edge leaves, every operator means what it means on the whole.
LEMMA PartIsWhole ==
  ASSUME NEW U, NEW D, NEW N, NEW E, NEW a, NEW b, a \subseteq N, b \subseteq N,
         IsPart(U, D, N, E), IsWhole(U, D, E), NEW op \in Ops
  PROVE  Meaning(op, U, D, a \cap U, b \cap U) = Meaning(op, N, E, a, b) \cap U
<1>0. N \cap U = U /\ (N \ b) \cap U = U \ (b \cap U)
  BY DEF IsPart
<1>a. \A s \in U : Post(D, {s}) = Post(E, {s}) /\ Post(D, {s}) \subseteq U
  BY DEF Post, IsPart, IsWhole
<1>b. /\ \A x, y : ExistsUntil(U, D, x, y) \subseteq U
      /\ \A x, y : AllUntil(U, D, x, y) \subseteq U
      /\ \A y : ExistsAlways(D, y) \subseteq y
  BY DEF ExistsUntil, AllUntil, ExistsAlways
<1>1. CASE op \in {"EX", "AX"}
  BY <1>0, <1>1, <1>a DEF Meaning
<1>2. CASE op = "EF"
  <2>1. /\ ExistsUntil(U, D, N \cap U, b \cap U) \subseteq ExistsUntil(N, E, N, b)
        /\ ExistsUntil(N, E, N, b) \cap U \subseteq ExistsUntil(U, D, N \cap U, b \cap U)
    BY ExistsPart, ExistsWhole
  <2>. QED  BY <1>0, <1>b, <1>2, <2>1 DEF Meaning
<1>3. CASE op = "EU"
  <2>1. /\ ExistsUntil(U, D, a \cap U, b \cap U) \subseteq ExistsUntil(N, E, a, b)
        /\ ExistsUntil(N, E, a, b) \cap U \subseteq ExistsUntil(U, D, a \cap U, b \cap U)
    BY ExistsPart, ExistsWhole
  <2>. QED  BY <1>b, <1>3, <2>1 DEF Meaning
<1>4. CASE op = "AG"
  <2>. DEFINE X == ExistsUntil(U, D, N \cap U, (N \ b) \cap U)
              Y == ExistsUntil(N, E, N, N \ b)
  <2>1. X \subseteq Y /\ Y \cap U \subseteq X
    BY ExistsPart, ExistsWhole
  <2>2. Meaning(op, U, D, a \cap U, b \cap U) = U \ X
    BY <1>0, <1>4 DEF Meaning
  <2>3. Meaning(op, N, E, a, b) = N \ Y
    BY <1>4 DEF Meaning
  <2>. QED  BY <1>0, <2>1, <2>2, <2>3
<1>5. CASE op = "AU"
  <2>1. /\ AllUntil(U, D, a \cap U, b \cap U) \subseteq AllUntil(N, E, a, b)
        /\ AllUntil(N, E, a, b) \cap U \subseteq AllUntil(U, D, a \cap U, b \cap U)
    BY AllPart, AllWhole
  <2>. QED  BY <1>b, <1>5, <2>1 DEF Meaning
<1>6. CASE op = "AF"
  <2>1. /\ AllUntil(U, D, N \cap U, b \cap U) \subseteq AllUntil(N, E, N, b)
        /\ AllUntil(N, E, N, b) \cap U \subseteq AllUntil(U, D, N \cap U, b \cap U)
    BY AllPart, AllWhole
  <2>. QED  BY <1>0, <1>b, <1>6, <2>1 DEF Meaning
<1>7. CASE op = "EG"
  <2>1. /\ ExistsAlways(D, b \cap U) \subseteq ExistsAlways(E, b)
        /\ ExistsAlways(E, b) \cap U \subseteq ExistsAlways(D, b \cap U)
    BY AlwaysPart, AlwaysWhole
  <2>2. ExistsAlways(D, b \cap U) \subseteq U
    BY <1>b
  <2>. QED  BY <1>7, <2>1, <2>2 DEF Meaning
<1>8. CASE op = "IMP"
  BY <1>0, <1>8 DEF Meaning, IsPart
<1>. QED  BY <1>1, <1>2, <1>3, <1>4, <1>5, <1>6, <1>7, <1>8 DEF Ops

\* An operator describes states of the graph.
LEMMA MeaningTypes ==
  ASSUME NEW N, NEW E, NEW a, NEW b \in SUBSET N, NEW op \in Ops
  PROVE  Meaning(op, N, E, a, b) \subseteq N
BY DEF Meaning, ExistsUntil, AllUntil, ExistsAlways, Ops

-----------------------------------------------------------------------------
(* The recorded part of the graph.                                         *)

\* A set that contains 0 and, with a number below n, the next one contains all up to n.
LEMMA UpTo ==
  ASSUME NEW n \in Nat, NEW J, 0 \in J, \A j \in 1..n : j - 1 \in J => j \in J
  PROVE  0..n \subseteq J
<1>. DEFINE I == (1..n) \ J
<1>. SUFFICES ASSUME I # {} PROVE FALSE
  OBVIOUS
<1>1. PICK i \in I : \A j \in I : i <= j
  <2>. HIDE DEF I
  <2>1. I \subseteq 1..n
    BY DEF I
  <2>. QED  BY <2>1, Least
<1>2. i \in 1..n /\ (i - 1 = 0 \/ i - 1 \in 1..n) /\ ~(i <= i - 1)
  OBVIOUS
<1>3. i - 1 \in J
  BY <1>1, <1>2
<1>. QED  BY <1>2, <1>3

Layer(j, g, k) == IF k = 0 THEN j.initial ELSE g[k - 1] \cup Post(j.edges, g[k - 1])

IsLayered(j, n, g) == g = [k \in 0..n |-> Layer(j, g, k)]

\* The function that Explored is defined with exists.
LEMMA LayersExist ==
  ASSUME NEW j, NEW n \in Nat
  PROVE  \E g : IsLayered(j, n, g)
<1>. DEFINE J == {m \in 0..n : \E g : IsLayered(j, m, g)}
<1>1. 0 \in J
  <2>. DEFINE g == [k \in 0..0 |-> j.initial]
  <2>1. \A k \in 0..0 : Layer(j, g, k) = j.initial
    BY DEF Layer
  <2>2. IsLayered(j, 0, g)
    BY <2>1 DEF IsLayered
  <2>. QED  BY <2>2
<1>2. ASSUME NEW m \in 1..n, m - 1 \in J
      PROVE  m \in J
  <2>1. PICK g : IsLayered(j, m - 1, g)
    BY <1>2
  <2>. DEFINE h == [k \in 0..m |-> IF k = m THEN Layer(j, g, m) ELSE g[k]]
  <2>2. ASSUME NEW k \in 0..m
        PROVE  h[k] = Layer(j, h, k)
    <3>1. k # 0 => k - 1 \in 0..m /\ k - 1 # m
      OBVIOUS
    <3>2. k # 0 => h[k - 1] = g[k - 1]
      BY <3>1
    <3>3. Layer(j, h, k) = Layer(j, g, k)
      BY <3>2 DEF Layer
    <3>4. CASE k = m
      BY <3>3, <3>4
    <3>5. CASE k # m
      <4>1. k \in 0..(m - 1)
        BY <3>5
      <4>. QED  BY <2>1, <3>3, <3>5, <4>1 DEF IsLayered
    <3>. QED  BY <3>4, <3>5
  <2>3. h = [k \in 0..m |-> h[k]]
    OBVIOUS
  <2>. HIDE DEF h
  <2>4. IsLayered(j, m, h)
    BY <2>2, <2>3 DEF IsLayered
  <2>. QED  BY <2>4
<1>3. 0..n \subseteq J
  <2>. HIDE DEF J
  <2>. QED  BY <1>1, <1>2, UpTo
<1>. QED  BY <1>3

\* What such a function holds, whatever its domain.
LEMMA LayersAgree ==
  ASSUME NEW j, NEW n \in Nat, NEW g, IsLayered(j, n, g)
  PROVE  \A k \in 0..n : g[k] = Explored(j, k)
<1>. DEFINE J == {k \in 0..n : \A m \in Nat : \A h : k <= m /\ IsLayered(j, m, h) => h[k] = g[k]}
<1>1. \A m \in Nat : \A h : IsLayered(j, m, h) => \A k \in 0..m : h[k] = Layer(j, h, k)
  BY DEF IsLayered
<1>2. 0 \in J
  <2>1. \A m \in Nat : 0 \in 0..m
    OBVIOUS
  <2>2. \A m \in Nat : \A h : IsLayered(j, m, h) => h[0] = j.initial
    BY <1>1, <2>1 DEF Layer
  <2>. QED  BY <2>2
<1>3. ASSUME NEW i \in 1..n, i - 1 \in J
      PROVE  i \in J
  <2>. SUFFICES ASSUME NEW m \in Nat, NEW h, i <= m, IsLayered(j, m, h)
                PROVE  h[i] = g[i]
    OBVIOUS
  <2>1. i \in 0..m /\ i \in 0..n /\ i # 0 /\ i - 1 <= m
    OBVIOUS
  <2>2. h[i] = Layer(j, h, i) /\ g[i] = Layer(j, g, i)
    BY <1>1, <2>1
  <2>3. h[i - 1] = g[i - 1]
    BY <1>3, <2>1
  <2>. QED  BY <2>1, <2>2, <2>3 DEF Layer
<1>4. 0..n \subseteq J
  <2>. HIDE DEF J
  <2>. QED  BY <1>2, <1>3, UpTo
<1>5. ASSUME NEW k \in 0..n
      PROVE  g[k] = Explored(j, k)
  <2>. DEFINE W == CHOOSE h : IsLayered(j, k, h)
  <2>1. k \in Nat /\ k <= k
    OBVIOUS
  <2>2. IsLayered(j, k, W)
    BY <2>1, LayersExist
  <2>3. Explored(j, k) = W[k]
    BY DEF Explored, IsLayered, Layer
  <2>. HIDE DEF W
  <2>. QED  BY <1>4, <2>1, <2>2, <2>3
<1>. QED  BY <1>5

\* The states within no step and within one more step.
LEMMA ExploredSteps ==
  ASSUME NEW j, NEW n \in Nat
  PROVE  /\ Explored(j, 0) = j.initial
         /\ n # 0 => Explored(j, n) = Explored(j, n - 1) \cup Post(j.edges, Explored(j, n - 1))
<1>1. PICK g : IsLayered(j, n, g)
  BY LayersExist
<1>2. 0 \in 0..n /\ n \in 0..n /\ (n # 0 => n - 1 \in 0..n)
  OBVIOUS
<1>3. /\ g[0] = Explored(j, 0) /\ g[n] = Explored(j, n)
      /\ n # 0 => g[n - 1] = Explored(j, n - 1)
  BY <1>1, <1>2, LayersAgree
<1>4. g[0] = Layer(j, g, 0) /\ g[n] = Layer(j, g, n)
  BY <1>1, <1>2 DEF IsLayered
<1>. QED  BY <1>3, <1>4 DEF Layer

LEMMA ExploredTypes ==
  ASSUME NEW j \in Job, NEW n \in Nat
  PROVE  j.initial \subseteq Explored(j, n) /\ Explored(j, n) \subseteq Node
<1>. DEFINE J == {k \in 0..n : j.initial \subseteq Explored(j, k) /\ Explored(j, k) \subseteq Node}
<1>1. j.initial \subseteq Node /\ \A S : Post(j.edges, S) \subseteq Node
  BY DEF Job, Post
<1>2. 0 \in J
  BY <1>1, ExploredSteps
<1>3. \A i \in 1..n : i - 1 \in J => i \in J
  <2>1. \A i \in 1..n : i \in Nat /\ i # 0 /\ i \in 0..n
    OBVIOUS
  <2>2. \A i \in 1..n : Explored(j, i) = Explored(j, i - 1) \cup Post(j.edges, Explored(j, i - 1))
    BY <2>1, ExploredSteps
  <2>. QED  BY <1>1, <2>1, <2>2
<1>4. 0..n \subseteq J
  <2>. HIDE DEF J
  <2>. QED  BY <1>2, <1>3, UpTo
<1>. QED  BY <1>4

\* The recorded graph is a part of the model, and when no state is left on the
\* frontier no edge leaves it.
LEMMA RecordedPart ==
  ASSUME job \in Job
  PROVE  /\ job.initial \subseteq Universe
         /\ IsPart(Universe, Edges, Node, job.edges)
         /\ Exhaustive => IsWhole(Universe, Edges, job.edges)
<1>1. job.depth \in Nat
  BY DEF Job
<1>2. job.initial \subseteq Universe /\ Universe \subseteq Node
  BY <1>1, ExploredTypes DEF Universe
<1>3. IsPart(Universe, Edges, Node, job.edges)
  BY <1>2 DEF IsPart, Edges
<1>4. ASSUME Exhaustive, NEW e \in job.edges, e[1] \in Universe
      PROVE  e \in Edges
  <2>1. job.depth # 0 /\ Universe \subseteq Explored(job, job.depth - 1)
    BY <1>4 DEF Exhaustive, Frontier
  <2>2. Universe = Explored(job, job.depth - 1)
                   \cup Post(job.edges, Explored(job, job.depth - 1))
    BY <1>1, <2>1, ExploredSteps DEF Universe
  <2>3. e[2] \in Universe
    BY <1>4, <2>1, <2>2 DEF Post
  <2>. QED  BY <1>4, <2>3 DEF Edges, Exhaustive
<1>. QED  BY <1>2, <1>3, <1>4 DEF IsWhole

-----------------------------------------------------------------------------
(* The truth of a formula in the whole model.                              *)

Step(j, g, k) == IF k = 0 THEN j.p ELSE Meaning(j.ops[k], Node, j.edges, j.q, g[k - 1])

IsTruth(j, n, g) == g = [k \in 0..n |-> Step(j, g, k)]

LEMMA TruthsExist ==
  ASSUME NEW j, NEW n \in Nat
  PROVE  \E g : IsTruth(j, n, g)
<1>. DEFINE J == {m \in 0..n : \E g : IsTruth(j, m, g)}
<1>1. 0 \in J
  <2>. DEFINE g == [k \in 0..0 |-> j.p]
  <2>1. \A k \in 0..0 : Step(j, g, k) = j.p
    BY DEF Step
  <2>2. IsTruth(j, 0, g)
    BY <2>1 DEF IsTruth
  <2>. QED  BY <2>2
<1>2. ASSUME NEW m \in 1..n, m - 1 \in J
      PROVE  m \in J
  <2>1. PICK g : IsTruth(j, m - 1, g)
    BY <1>2
  <2>. DEFINE h == [k \in 0..m |-> IF k = m THEN Step(j, g, m) ELSE g[k]]
  <2>2. ASSUME NEW k \in 0..m
        PROVE  h[k] = Step(j, h, k)
    <3>1. k # 0 => k - 1 \in 0..m /\ k - 1 # m
      OBVIOUS
    <3>2. k # 0 => h[k - 1] = g[k - 1]
      BY <3>1
    <3>3. Step(j, h, k) = Step(j, g, k)
      BY <3>2 DEF Step
    <3>4. CASE k = m
      BY <3>3, <3>4
    <3>5. CASE k # m
      <4>1. k \in 0..(m - 1)
        BY <3>5
      <4>. QED  BY <2>1, <3>3, <3>5, <4>1 DEF IsTruth
    <3>. QED  BY <3>4, <3>5
  <2>3. h = [k \in 0..m |-> h[k]]
    OBVIOUS
  <2>. HIDE DEF h
  <2>4. IsTruth(j, m, h)
    BY <2>2, <2>3 DEF IsTruth
  <2>. QED  BY <2>4
<1>3. 0..n \subseteq J
  <2>. HIDE DEF J
  <2>. QED  BY <1>1, <1>2, UpTo
<1>. QED  BY <1>3

\* The innermost argument holds in p, and each operator makes of its argument what it means.
LEMMA TruthSteps ==
  ASSUME job \in Job
  PROVE  /\ Truth[0] = job.p
         /\ \A n \in 1..Len(job.ops) :
              Truth[n] = Meaning(job.ops[n], Node, job.edges, job.q, Truth[n - 1])
         /\ \A n \in 0..Len(job.ops) : Truth[n] \subseteq Node
<1>. DEFINE N == Len(job.ops)
            T == CHOOSE g : IsTruth(job, N, g)
<1>1. N \in Nat /\ job.p \subseteq Node /\ \A n \in 1..N : job.ops[n] \in Ops
  BY DEF Job
<1>2. Truth = T
  BY DEF Truth, IsTruth, Step
<1>3. IsTruth(job, N, T)
  BY <1>1, TruthsExist
<1>. HIDE DEF T
<1>4. \A n \in 0..N : T[n] = Step(job, T, n)
  BY <1>3 DEF IsTruth
<1>5. 0 \in 0..N /\ \A n \in 1..N : n \in 0..N /\ n # 0
  BY <1>1
<1>6. T[0] = job.p /\ \A n \in 1..N : T[n] = Meaning(job.ops[n], Node, job.edges, job.q, T[n - 1])
  BY <1>4, <1>5 DEF Step
<1>. DEFINE J == {n \in 0..N : T[n] \subseteq Node}
<1>7. 0 \in J /\ \A n \in 1..N : n - 1 \in J => n \in J
  BY <1>1, <1>5, <1>6, MeaningTypes
<1>8. 0..N \subseteq J
  <2>. HIDE DEF J, N
  <2>. QED  BY <1>1, <1>7, UpTo
<1>. QED  BY <1>2, <1>6, <1>8

-----------------------------------------------------------------------------
(* The verdict.                                                            *)

\* The operators still to label are the last ones of the formula, and the argument is
\* the part of the truth of the inner ones that was recorded.
Inner ==
  /\ Len(rest) <= Len(job.ops)
  /\ \A i \in 1..Len(rest) : rest[i] = job.ops[Len(job.ops) - Len(rest) + i]
  /\ Len(rest) = Len(job.ops) => arg = job.p \cap Universe
  /\ Exhaustive /\ job.fair = {} => arg = Truth[Len(job.ops) - Len(rest)] \cap Universe

\* Every label means its operator, those of EG, AF and AU where no fairness applies.
Exactly ==
  pc \in {"labelled", "done"} /\ job.fair = {} /\ rest # <<>>
    => sat = Meaning(Op, Universe, Edges, Left, Right)

Outcome ==
  pc = "done" =>
    /\ Len(rest) = 1
    /\ verdict.status \in {"verified", "verified-within-bounds"} <=> job.initial \subseteq sat

Judged == Cycling /\ Inner /\ Exactly /\ Outcome

LEMMA InitJudged == Init => Judged
<1>. SUFFICES ASSUME Init PROVE Judged
  OBVIOUS
<1>1. Typed /\ pc = "op" /\ rest = job.ops /\ arg = job.p \cap Universe /\ TarjanInit
  BY InitTyped DEF Init
<1>2. Tracing
  BY <1>1, TracingInit DEF Typed
<1>3. Cycling
  BY <1>1, <1>2 DEF Cycling, Labelled, Found, ReachLabelIsExact, OnCycle, CycleLabelIsExact
<1>4. Len(job.ops) \in Nat /\ job \in Job
  BY <1>1 DEF Typed, TypeOK, Job
<1>5. Len(job.ops) - Len(job.ops) = 0 /\ Truth[0] = job.p
  BY <1>4, TruthSteps
<1>6. \A i \in 1..Len(rest) : Len(job.ops) - Len(rest) + i = i
  BY <1>1, <1>4
<1>7. Inner
  BY <1>1, <1>4, <1>5, <1>6 DEF Inner
<1>. QED  BY <1>1, <1>3, <1>7 DEF Judged, Exactly, Outcome

\* What the engine knows of a job it keeps while the operator stays the same.
LEMMA SameOperator ==
  ASSUME Judged, job' = job, Universe' = Universe, Edges' = Edges, Exhaustive' = Exhaustive,
         UNCHANGED <<rest, arg>>
  PROVE  Inner'
<1>1. Truth' = Truth
  BY DEF Truth
<1>. QED  BY <1>1 DEF Judged, Inner

\* A state is labelled with the meaning of the operator, whatever the operator.
LEMMA LabelIsMeaning ==
  ASSUME Typed', ReachLabelIsExact', CycleLabelIsExact', pc' = "labelled", job'.fair = {},
         rest' # <<>>, Op' # "IMP"
  PROVE  sat' = Meaning(Op', Universe', Edges', Left', Right')
<1>1. Op' \in Ops
  BY DEF Typed, TypeOK, Op
<1>2. Conditions' = {}
  BY DEF Conditions, Fair
<1>. QED  BY <1>1, <1>2 DEF Ops, ReachLabelIsExact, CycleLabelIsExact

LEMMA NextJudged == Judged /\ [Next]_vars => Judged'
<1>. SUFFICES ASSUME Judged, [Next]_vars PROVE Judged'
  OBVIOUS
<1>0. /\ job' = job /\ Universe' = Universe /\ Edges' = Edges /\ Left' = Left
      /\ Cycling' /\ Typed /\ Typed'
  BY JobIsFixed, NextCycles, NextTyped DEF Judged, Cycling, Labelled
<1>a. Exhaustive' = Exhaustive /\ Truth' = Truth
  BY <1>0 DEF Exhaustive, Frontier, Truth
<1>b. ReachLabelIsExact' /\ CycleLabelIsExact'
  BY <1>0 DEF Cycling, Labelled
<1>. SUFFICES Inner' /\ Exactly' /\ Outcome'
  BY <1>0 DEF Judged
<1>1. CASE LabelAtOnce
  <2>1. UNCHANGED <<rest, arg>> /\ Op' = Op /\ Right' = Right /\ pc' = "labelled"
    BY <1>1 DEF LabelAtOnce, Op, Right
  <2>2. Op = "IMP" => sat' = Meaning(Op, Universe, Edges, Left, Right)
    BY <1>1 DEF LabelAtOnce, Meaning, Not, Right
  <2>3. Op # "IMP" /\ job.fair = {} /\ rest' # <<>> =>
          sat' = Meaning(Op', Universe', Edges', Left', Right')
    BY <1>0, <1>b, <2>1, LabelIsMeaning
  <2>4. Exactly'
    BY <1>0, <2>1, <2>2, <2>3 DEF Exactly
  <2>5. Inner'
    BY <1>0, <1>a, <2>1, SameOperator
  <2>. QED  BY <2>1, <2>4, <2>5 DEF Outcome
<1>2. CASE EndWorklist \/ EndBack
  <2>1. UNCHANGED <<rest, arg>> /\ Op' = Op /\ pc' # "done"
    BY <1>2 DEF EndWorklist, EndBack, StartEG, Op
  <2>2. pc' = "labelled" => Op # "IMP"
    BY <1>0, <1>2 DEF EndWorklist, EndBack, Typed, Phase
  <2>3. pc' = "labelled" /\ job.fair = {} /\ rest' # <<>> =>
          sat' = Meaning(Op', Universe', Edges', Left', Right')
    BY <1>0, <1>b, <2>1, <2>2, LabelIsMeaning
  <2>4. Exactly'
    BY <1>0, <2>1, <2>3 DEF Exactly
  <2>5. Inner'
    BY <1>0, <1>a, <2>1, SameOperator
  <2>. QED  BY <2>1, <2>4, <2>5 DEF Outcome
<1>3. CASE StartWorklist \/ StartCycle \/ FindComponents \/ StartBack \/ KeepReaching
           \/ EndRound \/ (\E F \in left : ApplyCondition(F)) \/ \E s \in Node : Pop(s)
  <2>1. UNCHANGED <<rest, arg>> /\ pc' \notin {"labelled", "done"}
    BY <1>3 DEF StartWorklist, StartCycle, StartEG, FindComponents, StartBack, KeepReaching,
                EndRound, ApplyCondition, Pop
  <2>2. Inner'
    BY <1>0, <1>a, <2>1, SameOperator
  <2>. QED  BY <2>1, <2>2 DEF Exactly, Outcome
<1>4. CASE NextOperator
  <2>1. /\ pc = "labelled" /\ Len(rest) > 1 /\ pc' = "op"
        /\ rest' = Tail(rest) /\ arg' = sat
    BY <1>4 DEF NextOperator
  <2>. DEFINE N == Len(job.ops)
              k == N - Len(rest) + 1
  <2>2. rest \in Seq(Ops) /\ job \in Job /\ N \in Nat /\ Len(rest) \in Nat
    BY <1>0 DEF Typed, TypeOK, Job
  <2>3. Len(rest') = Len(rest) - 1 /\ \A i \in 1..Len(rest') : rest'[i] = rest[i + 1]
    BY <2>1, <2>2
  <2>a. Len(rest) <= N
    BY DEF Judged, Inner
  <2>4. Len(rest') <= N /\ Len(rest') # N /\ k \in 1..N /\ k - 1 = N - Len(rest)
        /\ N - Len(rest') = k
    <3>1. \A l, m \in Nat : l > 1 /\ l <= m =>
            l - 1 <= m /\ l - 1 # m /\ m - l + 1 \in 1..m /\ (m - l + 1) - 1 = m - l
            /\ m - (l - 1) = m - l + 1
      OBVIOUS
    <3>2. Len(rest) \in Nat /\ N \in Nat /\ Len(rest) > 1 /\ Len(rest') = Len(rest) - 1
      BY <2>1, <2>2, <2>3
    <3>. HIDE DEF N
    <3>. QED  BY <3>1, <3>2, <2>a
  <2>5. \A i \in 1..Len(rest') : rest'[i] = job.ops[N - Len(rest') + i]
    <3>. SUFFICES ASSUME NEW i \in 1..Len(rest') PROVE rest'[i] = job.ops[N - Len(rest') + i]
      OBVIOUS
    <3>1. i + 1 \in 1..Len(rest) /\ N - Len(rest) + (i + 1) = N - Len(rest') + i
      <4>1. i \in 1..(Len(rest) - 1)
        BY <2>3
      <4>. HIDE DEF N
      <4>. QED  BY <2>2, <2>3, <4>1
    <3>. QED  BY <2>3, <3>1 DEF Judged, Inner
  <2>6. ASSUME Exhaustive, job.fair = {}
        PROVE  sat = Truth[k] \cap Universe
    <3>1. 1 \in 1..Len(rest) /\ rest # <<>> /\ N - Len(rest) + 1 = k
      BY <2>1, <2>2
    <3>2. Op = job.ops[k] /\ Op \in Ops
      BY <2>2, <3>1 DEF Op, Judged, Inner
    <3>3. sat = Meaning(Op, Universe, Edges, Left, arg)
      BY <2>1, <2>6, <3>1 DEF Judged, Exactly, Right
    <3>4. arg = Truth[k - 1] \cap Universe /\ Left = job.q \cap Universe
      BY <2>4, <2>6 DEF Judged, Inner, Left
    <3>5. Truth[k - 1] \subseteq Node /\ job.q \subseteq Node
          /\ Truth[k] = Meaning(Op, Node, job.edges, job.q, Truth[k - 1])
      <4>1. k - 1 \in 0..N
        BY <2>2, <2>4
      <4>. QED  BY <2>2, <2>4, <3>2, <4>1, TruthSteps DEF Job
    <3>6. IsPart(Universe, Edges, Node, job.edges) /\ IsWhole(Universe, Edges, job.edges)
      BY <2>2, <2>6, RecordedPart
    <3>. HIDE DEF k
    <3>. QED  BY <3>2, <3>3, <3>4, <3>5, <3>6, PartIsWhole
  <2>7. Inner'
    BY <1>0, <1>a, <2>1, <2>4, <2>5, <2>6 DEF Inner
  <2>. QED  BY <2>1, <2>7 DEF Exactly, Outcome
<1>5. CASE Pass \/ \E s \in Node : Violation(s)
  <2>1. UNCHANGED <<rest, arg, sat>> /\ Op' = Op /\ Right' = Right /\ pc = "labelled"
        /\ pc' = "done" /\ Len(rest) = 1
    BY <1>5 DEF Pass, Violation, Op, Right
  <2>2. verdict'.status \in {"verified", "verified-within-bounds"} <=> job.initial \subseteq sat
    <3>1. CASE Pass
      BY <3>1 DEF Pass
    <3>2. ASSUME NEW s \in Node, Violation(s)
          PROVE  ~(job.initial \subseteq sat)
                 /\ verdict'.status \notin {"verified", "verified-within-bounds"}
      <4>1. PICK e : verdict' = IF Op \in {"EF", "EX", "EG", "EU"}
                                THEN [status |-> "vacuous-warning", end |-> {}]
                                ELSE [status |-> "violated", end |-> {e}]
        BY <3>2 DEF Violation
      <4>2. s \in job.initial \ sat
        BY <3>2 DEF Violation
      <4>. QED  BY <4>1, <4>2
    <3>. QED  BY <1>5, <3>1, <3>2
  <2>3. Exactly'
    BY <1>0, <2>1 DEF Judged, Exactly
  <2>4. Inner'
    BY <1>0, <1>a, <2>1, SameOperator
  <2>. QED  BY <1>0, <2>1, <2>2, <2>3, <2>4 DEF Outcome
<1>6. CASE UNCHANGED vars
  <2>1. UNCHANGED <<pc, rest, arg, sat, verdict>> /\ Op' = Op /\ Right' = Right
    BY <1>6 DEF vars, Op, Right
  <2>2. Inner'
    BY <1>0, <1>a, <2>1, SameOperator
  <2>. QED  BY <1>0, <2>1, <2>2 DEF Judged, Exactly, Outcome
<1>. QED  BY <1>1, <1>2, <1>3, <1>4, <1>5, <1>6 DEF Next, Finished

\* What a violation or a pass that is read off the label says holds in the whole model.
LEMMA JudgedIsReal == Judged => VerdictIsReal
<1>. DEFINE N == Len(job.ops)
            holds == job.initial \subseteq Truth[N]
            passed == verdict.status \in {"verified", "verified-within-bounds"}
<1>. SUFFICES ASSUME Judged, pc = "done", job.fair = {}
              PROVE  /\ job.ops \in {<<"AX">>, <<"AG">>, <<"AF">>, <<"AU">>} /\ ~passed => ~holds
                     /\ job.ops \in {<<"EX">>, <<"EF">>, <<"EG">>, <<"EU">>} /\ passed => holds
                     /\ Exhaustive => (passed <=> holds)
  BY DEF VerdictIsReal
<1>1. Typed /\ rest \in Seq(Ops) /\ job \in Job /\ N \in Nat
  BY DEF Judged, Cycling, Labelled, Typed, TypeOK, Job
<1>2. Len(rest) = 1 /\ (passed <=> job.initial \subseteq sat)
  BY DEF Judged, Outcome
<1>3. rest # <<>> /\ 1 \in 1..Len(rest) /\ N >= 1 /\ N - Len(rest) + 1 = N
  <2>1. Len(rest) <= N
    BY DEF Judged, Inner
  <2>2. rest # <<>>
    BY <1>2
  <2>. HIDE DEF N
  <2>. QED  BY <1>1, <1>2, <2>1, <2>2
<1>4. Op = job.ops[N] /\ Op \in Ops
  BY <1>1, <1>3 DEF Judged, Inner, Op
<1>5. sat = Meaning(Op, Universe, Edges, job.q \cap Universe, arg)
  BY <1>3 DEF Judged, Exactly, Left, Right
<1>6. /\ job.initial \subseteq Universe
      /\ IsPart(Universe, Edges, Node, job.edges)
      /\ Exhaustive => IsWhole(Universe, Edges, job.edges)
  BY <1>1, RecordedPart
<1>7. /\ Truth[0] = job.p /\ Truth[N - 1] \subseteq Node
      /\ job.q \subseteq Node /\ job.p \subseteq Node
      /\ Truth[N] = Meaning(Op, Node, job.edges, job.q, Truth[N - 1])
  <2>1. N - 1 \in 0..N /\ N \in 1..N
    BY <1>1, <1>3
  <2>2. Truth[N] = Meaning(job.ops[N], Node, job.edges, job.q, Truth[N - 1])
        /\ Truth[0] = job.p /\ Truth[N - 1] \subseteq Node
    BY <1>1, <2>1, TruthSteps
  <2>. QED  BY <1>1, <1>4, <2>2 DEF Job
<1>8. ASSUME NEW op \in Ops, job.ops = <<op>>
      PROVE  /\ Op = op /\ Truth[N] = Meaning(op, Node, job.edges, job.q, job.p)
             /\ sat = Meaning(op, Universe, Edges, job.q \cap Universe, job.p \cap Universe)
  <2>1. N = 1 /\ job.ops[1] = op
    BY <1>8
  <2>2. arg = job.p \cap Universe
    BY <1>2, <2>1 DEF Judged, Inner
  <2>. QED  BY <1>4, <1>5, <1>7, <2>1, <2>2
<1>9. ASSUME job.ops \in {<<"AX">>, <<"AG">>, <<"AF">>, <<"AU">>}, ~passed
      PROVE  ~holds
  <2>1. PICK op \in {"AX", "AG", "AF", "AU"} : job.ops = <<op>>
    BY <1>9
  <2>2. op \in Ops
    BY DEF Ops
  <2>3. Truth[N] \cap Universe \subseteq sat
    <3>1. Meaning(op, Node, job.edges, job.q, job.p) \cap Universe
            \subseteq Meaning(op, Universe, Edges, job.q \cap Universe, job.p \cap Universe)
      BY <1>6, <1>7, AllIsReal
    <3>. HIDE DEF N
    <3>. QED  BY <1>8, <2>1, <2>2, <3>1
  <2>. QED  BY <1>2, <1>6, <1>9, <2>3
<1>10. ASSUME job.ops \in {<<"EX">>, <<"EF">>, <<"EG">>, <<"EU">>}, passed
       PROVE  holds
  <2>1. PICK op \in {"EX", "EF", "EG", "EU"} : job.ops = <<op>>
    BY <1>10
  <2>2. op \in Ops
    BY DEF Ops
  <2>3. sat \subseteq Truth[N]
    <3>1. Meaning(op, Universe, Edges, job.q \cap Universe, job.p \cap Universe)
            \subseteq Meaning(op, Node, job.edges, job.q, job.p)
      BY <1>6, <1>7, ExistsIsReal
    <3>. HIDE DEF N
    <3>. QED  BY <1>8, <2>1, <2>2, <3>1
  <2>. QED  BY <1>2, <1>10, <2>3
<1>11. ASSUME Exhaustive
       PROVE  passed <=> holds
  <2>1. arg = Truth[N - 1] \cap Universe
    BY <1>2, <1>11 DEF Judged, Inner
  <2>2. sat = Truth[N] \cap Universe
    <3>. HIDE DEF N
    <3>. QED  BY <1>4, <1>5, <1>6, <1>7, <1>11, <2>1, PartIsWhole
  <2>. QED  BY <1>2, <1>6, <2>2
<1>. QED  BY <1>9, <1>10, <1>11

\* However deep the model was explored, a violation of AX, AG, AF or AU and a verified
\* EX, EF, EG or EU hold in the whole model, and every verdict of an exhaustive search is
\* the truth, for formulas of any nesting over every model.
THEOREM VerdictsAreReal == Spec => []VerdictIsReal
<1>1. Spec => []Judged
  BY InitJudged, NextJudged, PTL DEF Spec
<1>. QED  BY <1>1, JudgedIsReal, PTL
===========================================================================
