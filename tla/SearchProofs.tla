--------------------------- MODULE SearchProofs ---------------------------
(***************************************************************************)
(* Proofs about Search for every finite set of states, every set of        *)
(* requests and every number of workers: the invariants of the parallel    *)
(* search, that it implements the sequential layered search, and that it   *)
(* finds states at their distance and counterexamples of least length.     *)
(***************************************************************************)
EXTENDS Search, FiniteSetTheorems, WellFoundedInduction, TLAPS

-----------------------------------------------------------------------------
(* Facts about requests and about the operators of the model.              *)

\* The fields of a request that the proofs use, with their types.
LEMMA RequestFields ==
  ASSUME NEW r \in Requests
  PROVE  /\ r.seeds \in Seq(State)
         /\ r.enabled \in [State -> SUBSET Transition]
         /\ r.posts \in [State \X Transition -> SeqUpTo(State, MaxPosts)]
         /\ r.steps \subseteq StepProp /\ r.always \subseteq AlwaysProp
         /\ r.stepBad \in [StepProp -> SUBSET (State \X Transition \X State)]
         /\ r.bad \in [AlwaysProp -> SUBSET State]
         /\ r.maxStates \in Option(Nat) /\ r.maxEdges \in Option(Nat)
         /\ r.maxFrontier \in Option(Nat)
         /\ r.maxDepth \in Nat
BY RequestAssumption DEF Request

\* A post is a state, and its position is at most MaxPosts.
LEMMA PostTypes ==
  ASSUME NEW r \in Requests, NEW s \in State, NEW t \in Transition,
         NEW b \in DOMAIN Posts(r, s, t)
  PROVE  Posts(r, s, t)[b] \in State /\ b \in 1..MaxPosts
<1>1. Posts(r, s, t) \in SeqUpTo(State, MaxPosts)
  BY RequestFields DEF Posts
<1>2. PICK k \in 0..MaxPosts : Posts(r, s, t) \in [1..k -> State]
  BY <1>1 DEF SeqUpTo
<1>. QED  BY <1>2, PostsAssumption

\* Initial states are states.
LEMMA SeedTypes ==
  ASSUME NEW r \in Requests
  PROVE  SeedStates(r) \subseteq State
BY RequestFields DEF SeedStates

\* What it is to be a successor.
LEMMA SuccEdge ==
  ASSUME NEW r \in Requests, NEW S \in SUBSET State, NEW s
  PROVE  s \in Succ(r, S) <=>
           \E p \in S, t \in Transition :
              t \in r.enabled[p] /\ \E b \in DOMAIN Posts(r, p, t) : Posts(r, p, t)[b] = s
<1>1. ASSUME s \in Succ(r, S)
      PROVE  \E p \in S, t \in Transition :
               t \in r.enabled[p] /\ \E b \in DOMAIN Posts(r, p, t) : Posts(r, p, t)[b] = s
  <2>1. PICK e \in EdgesFrom(r, S) : e[3] = s
    BY <1>1 DEF Succ
  <2>2. e[1] \in S /\ e[2] \in Transition
    BY DEF EdgesFrom
  <2>. QED  BY <2>1, <2>2 DEF EdgesFrom
<1>2. ASSUME NEW p \in S, NEW t \in Transition, t \in r.enabled[p],
             NEW b \in DOMAIN Posts(r, p, t), Posts(r, p, t)[b] = s
      PROVE  s \in Succ(r, S)
  <2>1. s \in State
    BY <1>2, PostTypes
  <2>2. <<p, t, s>> \in EdgesFrom(r, S)
    BY <1>2, <2>1 DEF EdgesFrom
  <2>. QED  BY <2>2 DEF Succ
<1>. QED  BY <1>1, <1>2

\* A successor of a reachable state is reachable, and so is every seed.
LEMMA ReachableClosed ==
  ASSUME NEW r \in Requests, NEW S \in SUBSET Reachable(r)
  PROVE  Succ(r, S) \subseteq Reachable(r) /\ SeedStates(r) \subseteq Reachable(r)
<1>1. S \subseteq State
  BY DEF Reachable
<1>2. ASSUME NEW s \in Succ(r, S), NEW C \in SUBSET State,
             SeedStates(r) \subseteq C, Succ(r, C) \subseteq C
      PROVE  s \in C
  <2>1. PICK p \in S, t \in Transition :
           t \in r.enabled[p] /\ \E b \in DOMAIN Posts(r, p, t) : Posts(r, p, t)[b] = s
    BY <1>1, SuccEdge
  <2>2. p \in C
    BY <1>2 DEF Reachable
  <2>3. s \in Succ(r, C)
    BY <2>1, <2>2, SuccEdge
  <2>. QED  BY <1>2, <2>3
<1>3. Succ(r, S) \subseteq State
  BY DEF Succ, EdgesFrom
<1>. QED  BY <1>2, <1>3, SeedTypes DEF Reachable

\* A closed set that holds the seeds holds every reachable state.
LEMMA ReachableLeast ==
  ASSUME NEW r \in Requests, NEW C \in SUBSET State,
         SeedStates(r) \subseteq C, Succ(r, C) \subseteq C
  PROVE  Reachable(r) \subseteq C
BY DEF Reachable

-----------------------------------------------------------------------------
(* Facts about limits, items and edges.                                    *)

LEMMA LimitTypes ==
  ASSUME NEW a, NEW b, NEW c
  PROVE  LimitReason(a, b, c) \in Reasons /\ Limit(a, b, c) \in Option(Reasons)
BY DEF LimitReason, Limit, Reasons, Option

\* A limit that is exceeded stays exceeded as the counters grow.
LEMMA LimitMonotone ==
  ASSUME req \in Requests, NEW a \in Nat, NEW b \in Nat, NEW c \in Nat, NEW d \in Nat,
         a <= c, b <= d, LimitExceeded(a, b, 0)
  PROVE  LimitExceeded(c, d, 0)
<1>1. /\ req.maxStates \subseteq Nat
      /\ req.maxEdges \subseteq Nat
  BY RequestFields DEF Option
<1>2. Over(req.maxStates, a) => Over(req.maxStates, c)
  BY <1>1 DEF Over
<1>3. Over(req.maxEdges, b) => Over(req.maxEdges, d)
  BY <1>1 DEF Over
<1>. QED  BY <1>2, <1>3 DEF LimitExceeded

\* An item of a layer is a step out of a frontier entry; an edge leads to a state.
LEMMA ItemTypes ==
  ASSUME req \in Requests, frontier \subseteq State \X Nat, NEW i \in Items(frontier)
  PROVE  /\ Entry(i) \in frontier /\ i[1] \in FrontierStates /\ i[1] \in State
         /\ i[2] \in Nat
         /\ i[3] \in Transition /\ i[3] \in req.enabled[i[1]] /\ i[4] \in Nat
         /\ i = <<i[1], i[2], i[3], i[4]>>
         /\ IsEdge(i) => /\ i[4] \in DOMAIN Posts(req, i[1], i[3])
                         /\ Post(i) \in State
                         /\ EdgeOf(i) \in EdgesFrom(req, FrontierStates)
<1>1. PICK e \in frontier, t \in Transition, b \in 0..MaxPosts : i = <<e[1], e[2], t, b>>
  BY DEF Items
<1>2. e = <<e[1], e[2]>> /\ e[1] \in State /\ e[2] \in Nat
  BY <1>1
<1>3. /\ i[3] \in req.enabled[i[1]]
      /\ i[4] \in {0} \cup DOMAIN Posts(req, i[1], i[3])
  BY DEF Items
<1>4. /\ Entry(i) \in frontier /\ i[1] \in FrontierStates /\ i[1] \in State
      /\ i[2] \in Nat /\ i[3] \in Transition /\ i[4] \in Nat
      /\ i = <<i[1], i[2], i[3], i[4]>>
  BY <1>1, <1>2, PostsAssumption DEF Entry, FrontierStates
<1>5. ASSUME IsEdge(i)
      PROVE  /\ i[4] \in DOMAIN Posts(req, i[1], i[3])
             /\ Post(i) \in State
             /\ EdgeOf(i) \in EdgesFrom(req, FrontierStates)
  <2>1. i[4] \in DOMAIN Posts(req, i[1], i[3])
    BY <1>3, <1>5 DEF IsEdge
  <2>2. Post(i) \in State
    BY <2>1, <1>4, PostTypes DEF Post
  <2>. QED  BY <2>1, <2>2, <1>3, <1>4 DEF EdgesFrom, EdgeOf, Post
<1>. QED  BY <1>3, <1>4, <1>5

\* Every successor of a frontier state is the post of an edge of the layer.
LEMMA SuccIsPost ==
  ASSUME req \in Requests, frontier \subseteq State \X Nat,
         NEW e \in EdgesFrom(req, FrontierStates)
  PROVE  \E i \in Items(frontier) : IsEdge(i) /\ EdgeOf(i) = e /\ Post(i) = e[3]
<1>1. /\ e[1] \in FrontierStates /\ e[2] \in Transition /\ e[3] \in State
      /\ e = <<e[1], e[2], e[3]>> /\ e[2] \in req.enabled[e[1]]
  BY DEF EdgesFrom
<1>2. PICK b \in DOMAIN Posts(req, e[1], e[2]) : Posts(req, e[1], e[2])[b] = e[3]
  BY DEF EdgesFrom
<1>3. PICK f \in frontier : f[1] = e[1]
  BY <1>1 DEF FrontierStates
<1>. DEFINE i == <<f[1], f[2], e[2], b>>
<1>4. e[1] \in State
  BY <1>3
<1>5. b \in 1..MaxPosts /\ b > 0
  BY <1>1, <1>2, <1>4, PostTypes, PostsAssumption
<1>6. i \in Items(frontier)
  BY <1>1, <1>2, <1>3, <1>5, PostsAssumption DEF Items
<1>7. IsEdge(i) /\ Post(i) = e[3]
  BY <1>2, <1>3, <1>5 DEF IsEdge, Post
<1>. QED  BY <1>1, <1>3, <1>6, <1>7 DEF EdgeOf

-----------------------------------------------------------------------------
(* The type invariant.                                                     *)

\* The edges of a layer are finitely many: a worker pushes them one by one.
Typed == TypeOK /\ IsFiniteSet(edges)

\* The frontier starts with one entry per seed, numbered among its copies.
LEMMA SeedFrontier ==
  ASSUME Init
  PROVE  frontier \subseteq State \X Nat /\ visited \subseteq State /\ FrontierStates = visited
<1>1. req \in Requests
  BY DEF Init
<1>2. req.seeds \in Seq(State) /\ DOMAIN req.seeds \subseteq Nat
  BY <1>1, RequestFields
<1>. DEFINE Copy(i) == Cardinality({j \in 1..i : req.seeds[j] = req.seeds[i]})
<1>2a. frontier = {<<req.seeds[i], Copy(i)>> : i \in DOMAIN req.seeds}
  BY DEF Init, SeedEntries
<1>2b. ASSUME NEW i \in DOMAIN req.seeds
      PROVE  Copy(i) \in Nat /\ req.seeds[i] \in State
  <2>1. IsFiniteSet(1..i)
    BY <1>2, FS_Interval
  <2>. QED  BY <2>1, <1>2, FS_Subset, FS_CardinalityType
<1>. HIDE DEF Copy
<1>3. frontier \subseteq State \X Nat
  BY <1>2a, <1>2b
<1>4. visited \subseteq State /\ FrontierStates = visited
  <2>1. visited = SeedStates(req) /\ visited \subseteq State
    BY <1>1, SeedTypes DEF Init
  <2>2. ASSUME NEW i \in DOMAIN req.seeds
        PROVE  req.seeds[i] \in FrontierStates
    <3>1. <<req.seeds[i], Copy(i)>> \in frontier
      BY <1>2a
    <3>. QED  BY <3>1 DEF FrontierStates
  <2>3. ASSUME NEW e \in frontier
        PROVE  e[1] \in SeedStates(req)
    BY <1>2a DEF SeedStates
  <2>. QED  BY <2>1, <2>2, <2>3 DEF SeedStates, FrontierStates
<1>. QED  BY <1>3, <1>4

LEMMA InitTyped == Init => Typed
<1>. SUFFICES ASSUME Init PROVE Typed
  OBVIOUS
<1>1. limit \in Option(Reasons) /\ found \in [req.steps -> Option(State \X Transition \X State)]
  BY DEF Init, Option
<1>2. IsFiniteSet(edges)
  BY FS_EmptySet DEF Init
<1>. QED  BY <1>1, <1>2, SeedFrontier DEF Init, Typed, TypeOK

\* A step of a worker keeps the types.
LEMMA WorkerTyped ==
  ASSUME Typed, NEW c \in DOMAIN wpc, Worker(c)
  PROVE  Typed'
<1>1. WorkerUnchanged /\ pc = "expand"
  BY DEF Worker, Exhaust, Abandon, Apply, CountEdge, StopOnEdge, DropEdge, PushEdge,
         CountCandidate
<1>2. /\ req' = req /\ frontier' = frontier /\ pc' = pc
      /\ Items(frontier)' = Items(frontier)
      /\ {i \in Items(frontier) : IsEdge(i)}' = {i \in Items(frontier) : IsEdge(i)}
  BY <1>1 DEF WorkerUnchanged, input, store, Items, Posts, IsEdge
<1>. DEFINE Local ==
       /\ wpc \in [DOMAIN wpc -> {"next", "counted", "candidate", "done"}]
       /\ mine \in [DOMAIN wpc -> Nat]
       /\ todo \subseteq Items(frontier)
       /\ edges \subseteq {i \in Items(frontier) : IsEdge(i)} /\ IsFiniteSet(edges)
       /\ genEdges \in Nat /\ genStates \in Nat /\ stop \in BOOLEAN
       /\ enabledIds \subseteq Transition
       /\ boundHits \subseteq {"cap", "maxDepth"} \X Transition
<1>3. Local
  BY <1>1 DEF Typed, TypeOK
<1>4. Local' => Typed'
  BY <1>1, <1>2 DEF Typed, TypeOK, WorkerUnchanged, input, store, FrontierStates
<1>5. ASSUME Exhaust(c) \/ Abandon(c) \/ DropEdge(c)
      PROVE  Local'
  BY <1>2, <1>3, <1>5 DEF Exhaust, Abandon, DropEdge, Quit, hits, budget
<1>6. ASSUME NEW i \in todo, Apply(c, i)
      PROVE  Local'
  <2>1. i[3] \in Transition
    BY <1>3, ItemTypes DEF Typed, TypeOK
  <2>. QED  BY <1>2, <1>3, <1>6, <2>1 DEF Apply, budget
<1>7. ASSUME NEW i \in todo, CountEdge(c, i)
      PROVE  Local'
  BY <1>2, <1>3, <1>7 DEF CountEdge, hits
<1>8. ASSUME StopOnEdge(c)
      PROVE  Local'
  BY <1>2, <1>3, <1>8 DEF StopOnEdge, hits
<1>9. ASSUME NEW i \in todo, PushEdge(c, i)
      PROVE  Local'
  <2>1. IsFiniteSet(edges')
    BY <1>3, <1>9, FS_AddElement DEF PushEdge
  <2>2. edges' \subseteq {j \in Items(frontier) : IsEdge(j)} /\ todo' \subseteq todo
    BY <1>3, <1>9 DEF PushEdge
  <2>3. wpc' \in [DOMAIN wpc' -> {"next", "counted", "candidate", "done"}]
        /\ DOMAIN wpc' = DOMAIN wpc
    BY <1>3, <1>9 DEF PushEdge
  <2>4. /\ mine' = mine /\ enabledIds' = enabledIds /\ boundHits' = boundHits
        /\ genEdges' = genEdges /\ genStates' = genStates /\ stop' = stop
    BY <1>9 DEF PushEdge, hits, budget
  <2>. QED  BY <1>2, <1>3, <2>1, <2>2, <2>3, <2>4
<1>10. ASSUME CountCandidate(c)
       PROVE  Local'
  <2>1. \/ wpc' = [wpc EXCEPT ![c] = "done"]
        \/ wpc' = [wpc EXCEPT ![c] = "next"]
    BY <1>10 DEF CountCandidate
  <2>2. \/ UNCHANGED <<genStates, stop>>
        \/ genStates' = genStates + 1 /\ (stop' = TRUE \/ stop' = stop)
    BY <1>10 DEF CountCandidate
  <2>3. UNCHANGED <<todo, mine, edges, genEdges, enabledIds, boundHits>>
    BY <1>10 DEF CountCandidate, hits
  <2>4. wpc' \in [DOMAIN wpc' -> {"next", "counted", "candidate", "done"}]
        /\ DOMAIN wpc' = DOMAIN wpc
    BY <1>3, <2>1
  <2>5. genStates' \in Nat
    BY <1>3, <2>2
  <2>6. stop' \in BOOLEAN
    BY <1>3, <2>2, Zenon
  <2>. QED  BY <1>2, <1>3, <2>3, <2>4, <2>5, <2>6
<1>. HIDE DEF Local
<1>. QED  BY <1>4, <1>5, <1>6, <1>7, <1>8, <1>9, <1>10 DEF Worker

LEMMA StartLayerTyped == Typed /\ StartLayer => Typed'
<1>. SUFFICES ASSUME Typed, StartLayer PROVE Typed'
  OBVIOUS
<1>1. UNCHANGED <<input, store, limit, found, enabledIds, boundHits, verdict>>
  BY DEF StartLayer
<1>2. FrontierStates' = FrontierStates /\ Items(frontier)' = Items(frontier)
  BY <1>1 DEF FrontierStates, Items, Posts, input, store
<1>3. todo' = Items(frontier) /\ edges' = {} /\ IsFiniteSet(edges')
  BY FS_EmptySet DEF StartLayer
<1>4. genEdges' = 0 /\ genStates' = 0 /\ stop' = FALSE /\ pc' = "expand"
  BY DEF StartLayer
<1>5. /\ wpc' \in [DOMAIN wpc' -> {"next", "counted", "candidate", "done"}]
      /\ mine' \in [DOMAIN wpc' -> Nat]
  BY DEF StartLayer
<1>. QED  BY <1>1, <1>2, <1>3, <1>4, <1>5 DEF Typed, TypeOK, input, store

\* The edge loop of a layer: what it observed is finite, what it found is an edge
\* out of the frontier that violates its property.
LEMMA FirstBadTypes ==
  ASSUME Typed, pc = "expand", NEW p \in req.steps, NEW S \in SUBSET edges
  PROVE  /\ FirstBad(p, S) \subseteq EdgesFrom(req, FrontierStates) \cap req.stepBad[p]
         /\ FirstBad(p, S) \in Option(State \X Transition \X State)
<1>1. ASSUME NEW e \in FirstBad(p, S)
      PROVE  e \in EdgesFrom(req, FrontierStates) /\ e \in req.stepBad[p]
  <2>1. PICK i \in S : e = EdgeOf(i) /\ e \in req.stepBad[p]
    BY DEF FirstBad, First
  <2>2. i \in Items(frontier) /\ IsEdge(i)
    BY DEF Typed, TypeOK
  <2>. QED  BY <2>1, <2>2, ItemTypes DEF Typed, TypeOK
<1>2. FrontierStates \subseteq State
  BY DEF Typed, TypeOK, FrontierStates
<1>3. FirstBad(p, S) \subseteq State \X Transition \X State
  BY <1>1, <1>2 DEF EdgesFrom
<1>4. ASSUME NEW e \in FirstBad(p, S), NEW f \in FirstBad(p, S)
      PROVE  e = f
  <2>1. ~SortKeyLess(e, f) /\ ~SortKeyLess(f, e)
    BY DEF FirstBad, First
  <2>2. /\ e[1] \in Nat /\ e[2] \in Nat /\ e[3] \in Nat /\ e = <<e[1], e[2], e[3]>>
        /\ f[1] \in Nat /\ f[2] \in Nat /\ f[3] \in Nat /\ f = <<f[1], f[2], f[3]>>
    BY <1>3, StateAssumption, TransitionAssumption
  <2>. QED  BY <2>1, <2>2 DEF SortKeyLess
<1>. QED  BY <1>1, <1>3, <1>4 DEF Option

LEMMA ObserveTyped == Typed /\ Observe => Typed'
<1>. SUFFICES ASSUME Typed, Observe PROVE Typed'
  OBVIOUS
<1>1. /\ UNCHANGED <<input, visited, parent, frontier, depth, work, enabledIds, boundHits,
                     verdict>>
      /\ pc = "expand" /\ pc' = "merge"
  BY DEF Observe
<1>2. /\ FrontierStates' = FrontierStates
      /\ {i \in Items(frontier) : IsEdge(i)}' = {i \in Items(frontier) : IsEdge(i)}
  BY <1>1 DEF FrontierStates, Items, Posts, IsEdge, input
<1>3. Observed \subseteq edges
  BY DEF Observed
<1>4. Cardinality(Observed) \in Nat
  BY <1>3, FS_Subset, FS_CardinalityType DEF Typed
<1>5. edgeCount' \in Nat
  BY <1>4 DEF Observe, Typed, TypeOK
<1>6. limit' \in Option(Reasons)
  BY LimitTypes DEF Observe, BudgetLimit, Option
<1>7. found' \in [req.steps -> Option(State \X Transition \X State)]
  <2>1. \A p \in req.steps : FirstBad(p, Observed) \in Option(State \X Transition \X State)
    BY <1>1, <1>3, FirstBadTypes
  <2>. QED  BY <2>1 DEF Observe, Recorded, Typed, TypeOK
<1>. QED  BY <1>1, <1>2, <1>5, <1>6, <1>7 DEF Typed, TypeOK, input, work

\* The states a merge inserts are states.
LEMMA InsertedTypes ==
  ASSUME Typed, pc = "merge"
  PROVE  /\ Inserted \subseteq NewStates
         /\ NewStates \subseteq Succ(req, FrontierStates) \cap State
<1>1. ASSUME NEW i \in edges
      PROVE  Post(i) \in Succ(req, FrontierStates) \cap State
  <2>1. i \in Items(frontier) /\ IsEdge(i)
    BY DEF Typed, TypeOK
  <2>2. EdgeOf(i) \in EdgesFrom(req, FrontierStates) /\ Post(i) \in State
    BY <2>1, ItemTypes DEF Typed, TypeOK
  <2>3. EdgeOf(i)[3] = Post(i)
    BY DEF EdgeOf
  <2>. QED  BY <2>2, <2>3 DEF Succ
<1>. QED  BY <1>1 DEF Inserted, NewStates

LEMMA MergeTyped == Typed /\ Merge => Typed'
<1>. SUFFICES ASSUME Typed, Merge PROVE Typed'
  OBVIOUS
<1>1. /\ UNCHANGED <<input, edgeCount, work, found, enabledIds, boundHits, verdict>>
      /\ pc = "merge" /\ pc' = "layer"
  BY DEF Merge
<1>2. Inserted \subseteq State
  BY <1>1, InsertedTypes
<1>3. visited' \subseteq State /\ frontier' \subseteq State \X Nat /\ FrontierStates' \subseteq visited'
  <2>1. visited' = visited \cup Inserted /\ frontier' = {<<s, 1>> : s \in Inserted}
    BY DEF Merge
  <2>. QED  BY <1>2, <2>1 DEF Typed, TypeOK, FrontierStates
<1>4. DOMAIN parent' \subseteq visited'
  BY DEF Merge, Typed, TypeOK
<1>5. limit' \in Option(Reasons)
  BY LimitTypes DEF Merge, BoundaryLimits, Option, Reasons
<1>6. depth' \in Nat
  BY DEF Merge, Typed, TypeOK
<1>. QED  BY <1>1, <1>3, <1>4, <1>5, <1>6 DEF Typed, TypeOK, input, work

\* The remaining steps of the coordinating thread keep the types.
LEMMA CoordinatorTyped ==
  ASSUME Typed, StopAtBoundary \/ CloseLayer \/ Report
  PROVE  Typed'
<1>1. CASE StopAtBoundary
  <2>1. limit' \in Option(Reasons)
    BY <1>1, LimitTypes DEF StopAtBoundary, BoundaryLimits, Option, Reasons
  <2>2. pc' = "layer"
    BY <1>1 DEF StopAtBoundary
  <2>. QED  BY <1>1, <2>1, <2>2 DEF StopAtBoundary, Typed, TypeOK, input, store, work, FrontierStates
<1>2. CASE CloseLayer
  <2>1. limit' \in Option(Reasons)
    BY <1>2, LimitTypes DEF CloseLayer, BoundaryLimits, Option, Reasons, Typed, TypeOK
  <2>2. frontier' = {} /\ FrontierStates' = {}
    BY <1>2 DEF CloseLayer, FrontierStates
  <2>3. depth' \in Nat /\ pc' = "layer"
    BY <1>2 DEF CloseLayer, Typed, TypeOK
  <2>. QED  BY <1>2, <2>1, <2>2, <2>3 DEF CloseLayer, Typed, TypeOK, input, work
<1>3. CASE Report
  <2>1. \A e \in frontier : req.enabled[e[1]] \subseteq Transition
    BY RequestFields DEF Typed, TypeOK
  <2>2. /\ boundHits' \subseteq {"cap", "maxDepth"} \X Transition
        /\ enabledIds' \subseteq Transition
    BY <1>3, <2>1 DEF Report, Typed, TypeOK
  <2>3. verdict' \in [req.steps \cup req.always ->
          {"none", "violated", "error", "verified", "verified-within-bounds"}]
    BY <1>3 DEF Report, Status
  <2>4. pc' = "done" /\ UNCHANGED <<input, store, work, limit, found>>
    BY <1>3 DEF Report
  <2>. QED  BY <2>1, <2>2, <2>3, <2>4 DEF Typed, TypeOK, input, store, work, FrontierStates
<1>. QED  BY <1>1, <1>2, <1>3

LEMMA StutterTyped == Typed /\ UNCHANGED vars => Typed'
<1>. SUFFICES ASSUME Typed, UNCHANGED vars PROVE Typed'
  OBVIOUS
<1>1. Items(frontier)' = Items(frontier)
      /\ {i \in Items(frontier) : IsEdge(i)}' = {i \in Items(frontier) : IsEdge(i)}
  BY DEF vars, Items, Posts, IsEdge
<1>. QED  BY <1>1 DEF vars, Typed, TypeOK, FrontierStates

LEMMA NextTyped == Typed /\ [Next]_vars => Typed'
<1>1. ASSUME Typed, NEW c \in DOMAIN wpc, Worker(c)
      PROVE  Typed'
  BY <1>1, WorkerTyped
<1>. QED  BY <1>1, StartLayerTyped, ObserveTyped, MergeTyped, CoordinatorTyped, StutterTyped
          DEF Next, Finished

\* Type correctness: the type invariant of Search holds for every request and
\* every number of workers.
THEOREM TypeCorrect == Spec => []TypeOK
<1>1. Typed => TypeOK
  BY DEF Typed
<1>. QED  BY <1>1, InitTyped, NextTyped, PTL DEF Spec

-----------------------------------------------------------------------------
(* No layer is cut short silently.                                         *)

\* The workers of a layer own all its items; a worker's last edge count is one
\* the counter has had; an edge that is not left to do has been pushed.
LayerInv ==
  pc = "expand" =>
    /\ DOMAIN wpc = Chunks
    /\ \A c \in DOMAIN wpc : mine[c] <= genEdges
    /\ \A i \in Items(frontier) : IsEdge(i) => i \in todo \cup edges

Budgeted == Typed /\ LayerInv /\ CutIsReported

LEMMA VisitedFinite == ASSUME TypeOK PROVE IsFiniteSet(visited) /\ States \in Nat
<1>1. IsFiniteSet(visited)
  BY StateAssumption, FS_Subset DEF TypeOK
<1>. QED  BY <1>1, FS_CardinalityType DEF States

\* What a step of a worker does to the budget: the counters grow, and stop is
\* stored only when the counters exceed a limit.
LEMMA WorkerBudget ==
  ASSUME Budgeted, NEW c \in DOMAIN wpc, Worker(c)
  PROVE  /\ genEdges' \in Nat /\ genStates' \in Nat
         /\ genEdges <= genEdges' /\ genStates <= genStates'
         /\ stop => stop'
         /\ stop' /\ ~stop => LimitExceeded(States + genStates', edgeCount + genEdges', 0)
<1>. DEFINE Goal ==
       /\ genEdges' \in Nat /\ genStates' \in Nat
       /\ genEdges <= genEdges' /\ genStates <= genStates'
       /\ stop => stop'
       /\ stop' /\ ~stop => LimitExceeded(States + genStates', edgeCount + genEdges', 0)
<1>0. /\ genEdges \in Nat /\ genStates \in Nat /\ edgeCount \in Nat /\ States \in Nat
      /\ mine[c] \in Nat /\ req \in Requests
  BY VisitedFinite DEF Budgeted, Typed, TypeOK
<1>1. ASSUME budget' = budget
      PROVE  Goal
  BY <1>0, <1>1 DEF budget
<1>2. ASSUME NEW i \in todo, CountEdge(c, i)
      PROVE  Goal
  <2>1. genEdges' = genEdges + 1 /\ genStates' = genStates /\ stop' = stop
    BY <1>2 DEF CountEdge
  <2>. QED  BY <1>0, <2>1
<1>3. ASSUME StopOnEdge(c)
      PROVE  Goal
  <2>1. genEdges' = genEdges /\ genStates' = genStates /\ stop' = TRUE
    BY <1>3 DEF StopOnEdge
  <2>2. PICK seen \in 0..genStates : LimitExceeded(States + seen, edgeCount + mine[c], 0)
    BY <1>3 DEF StopOnEdge
  <2>3. mine[c] <= genEdges
    BY <1>3 DEF StopOnEdge, Budgeted, LayerInv
  <2>4. LimitExceeded(States + genStates, edgeCount + genEdges, 0)
    <3>1. /\ States + seen \in Nat /\ States + genStates \in Nat
          /\ edgeCount + mine[c] \in Nat /\ edgeCount + genEdges \in Nat
          /\ States + seen <= States + genStates
          /\ edgeCount + mine[c] <= edgeCount + genEdges
      BY <1>0, <2>3
    <3>. QED  BY <1>0, <2>2, <3>1, LimitMonotone
  <2>. QED  BY <1>0, <2>1, <2>4
<1>4. ASSUME CountCandidate(c)
      PROVE  Goal
  <2>1. CASE UNCHANGED <<genStates, stop>>
    BY <1>0, <1>4, <2>1 DEF CountCandidate
  <2>2. CASE /\ genStates' = genStates + 1
             /\ Over(req.maxStates, States + genStates + 1)
             /\ stop' = TRUE
    <3>1. LimitExceeded(States + genStates', edgeCount + genEdges', 0)
      BY <1>0, <2>2 DEF LimitExceeded
    <3>. QED  BY <1>0, <1>4, <2>2, <3>1 DEF CountCandidate
  <2>3. CASE genStates' = genStates + 1 /\ stop' = stop
    BY <1>0, <1>4, <2>3 DEF CountCandidate
  <2>. QED  BY <1>4, <2>1, <2>2, <2>3 DEF CountCandidate
<1>. QED  BY <1>1, <1>2, <1>3, <1>4
          DEF Worker, Exhaust, Abandon, Apply, DropEdge, PushEdge, Quit

\* Nothing the chunks and the limits of a layer depend on changes in a worker's step.
LEMMA WorkerFrame ==
  ASSUME NEW c \in DOMAIN wpc, Worker(c)
  PROVE  /\ pc = "expand" /\ UNCHANGED <<req, pool, pc, visited, frontier, edgeCount>>
         /\ Chunks' = Chunks /\ Items(frontier)' = Items(frontier)
         /\ DOMAIN wpc' = DOMAIN wpc /\ DOMAIN mine' = DOMAIN mine
         /\ \A d \in DOMAIN wpc : d # c => wpc'[d] = wpc[d] /\ mine'[d] = mine[d]
         /\ todo' \subseteq todo
<1>1. WorkerUnchanged /\ pc = "expand"
  BY DEF Worker, Exhaust, Abandon, Apply, CountEdge, StopOnEdge, DropEdge, PushEdge,
         CountCandidate
<1>2. UNCHANGED <<req, pool, pc, visited, frontier, edgeCount>>
  BY <1>1 DEF WorkerUnchanged, input, store
<1>3. Chunks' = Chunks /\ Items(frontier)' = Items(frontier)
  BY <1>2 DEF Chunks, ChunkOf, ChunkSize, Position, Workers, Items, Posts
<1>. DEFINE Frame ==
       /\ DOMAIN wpc' = DOMAIN wpc /\ DOMAIN mine' = DOMAIN mine
       /\ \A d \in DOMAIN wpc : d # c => wpc'[d] = wpc[d] /\ mine'[d] = mine[d]
       /\ todo' \subseteq todo
<1>4. ASSUME Exhaust(c) \/ Abandon(c) \/ DropEdge(c) PROVE Frame
  BY <1>4 DEF Exhaust, Abandon, DropEdge, Quit
<1>5. ASSUME NEW i \in todo, Apply(c, i) PROVE Frame
  BY <1>5 DEF Apply
<1>6. ASSUME NEW i \in todo, CountEdge(c, i) PROVE Frame
  BY <1>6 DEF CountEdge
<1>7. ASSUME StopOnEdge(c) PROVE Frame
  BY <1>7 DEF StopOnEdge
<1>8. ASSUME NEW i \in todo, PushEdge(c, i) PROVE Frame
  BY <1>8 DEF PushEdge
<1>9. ASSUME CountCandidate(c) PROVE Frame
  BY <1>9 DEF CountCandidate
<1>. HIDE DEF Frame
<1>10. Frame
  BY <1>4, <1>5, <1>6, <1>7, <1>8, <1>9 DEF Worker
<1>. QED  BY <1>1, <1>2, <1>3, <1>10 DEF Frame

\* The three parts of LayerInv under a worker's step.
LEMMA WorkerLayer ==
  ASSUME Budgeted, NEW c \in DOMAIN wpc, Worker(c)
  PROVE  LayerInv'
<1>1. DOMAIN wpc' = Chunks'
  BY WorkerFrame DEF Budgeted, LayerInv
<1>2. ASSUME NEW d \in DOMAIN wpc
      PROVE  mine'[d] <= genEdges'
  <2>0. mine[d] <= genEdges /\ mine[d] \in Nat /\ genEdges \in Nat
    BY <1>2, WorkerFrame DEF Budgeted, LayerInv, Typed, TypeOK
  <2>1. genEdges <= genEdges' /\ genEdges' \in Nat
    BY WorkerBudget
  <2>2. CASE mine' = mine
    BY <2>0, <2>1, <2>2
  <2>3. CASE \E i \in todo : CountEdge(c, i)
    <3>1. mine' = [mine EXCEPT ![c] = genEdges + 1] /\ genEdges' = genEdges + 1
      BY <2>3 DEF CountEdge
    <3>2. DOMAIN mine = DOMAIN wpc
      BY DEF Budgeted, Typed, TypeOK
    <3>. QED  BY <2>0, <3>1, <3>2
  <2>. QED  BY <2>2, <2>3
            DEF Worker, Exhaust, Abandon, Apply, StopOnEdge, DropEdge, PushEdge, CountCandidate, Quit
<1>3. ASSUME NEW i \in Items(frontier), IsEdge(i)
      PROVE  i \in todo' \cup edges'
  <2>0. i \in todo \cup edges
    BY <1>3, WorkerFrame DEF Budgeted, LayerInv
  <2>1. CASE todo' = todo /\ edges' = edges
    BY <2>0, <2>1
  <2>2. ASSUME NEW j \in todo, Apply(c, j)
        PROVE  i \in todo' \cup edges'
    BY <1>3, <2>0, <2>2 DEF Apply
  <2>3. ASSUME NEW j \in todo, PushEdge(c, j)
        PROVE  i \in todo' \cup edges'
    BY <2>0, <2>3 DEF PushEdge
  <2>. QED  BY <2>1, <2>2, <2>3
            DEF Worker, Exhaust, Abandon, CountEdge, StopOnEdge, DropEdge, CountCandidate, Quit
<1>. QED  BY <1>1, <1>2, <1>3, WorkerFrame DEF LayerInv, IsEdge

\* A worker stops early only after stop has been stored.
LEMMA WorkerCut ==
  ASSUME Budgeted, NEW c \in DOMAIN wpc, Worker(c)
  PROVE  CutIsReported'
<1>0. /\ genEdges \in Nat /\ genStates \in Nat /\ edgeCount \in Nat /\ States \in Nat
      /\ req \in Requests
  BY VisitedFinite DEF Budgeted, Typed, TypeOK
<1>1. /\ pc = "expand" /\ UNCHANGED <<req, visited, edgeCount, frontier>> /\ States' = States
  BY WorkerFrame DEF States
<1>2. ASSUME stop'
      PROVE  BudgetLimit' # {}
  <2>1. LimitExceeded(States + genStates', edgeCount + genEdges', 0)
    <3>1. CASE stop
      <4>1. LimitExceeded(States + genStates, edgeCount + genEdges, 0)
        BY <1>1, <3>1 DEF Budgeted, CutIsReported, BudgetLimit, Limit
      <4>. QED  BY <1>0, <4>1, WorkerBudget, LimitMonotone
    <3>2. CASE ~stop
      BY <1>2, <3>2, WorkerBudget
    <3>. QED  BY <3>1, <3>2
  <2>2. LimitExceeded(States + genStates, edgeCount + genEdges, 0)'
    BY <1>1, <2>1 DEF LimitExceeded
  <2>. QED  BY <1>2, <2>2 DEF BudgetLimit, Limit
<1>3. ASSUME NEW d \in DOMAIN wpc', wpc'[d] = "done", Todo(d)' # {}
      PROVE  stop'
  <2>1. Todo(d)' \subseteq Todo(d) /\ d \in DOMAIN wpc
    BY <1>1, <1>3, WorkerFrame DEF Todo, ChunkOf, ChunkSize, Position, Workers
  <2>2. CASE d # c \/ wpc[d] = "done"
    <3>1. wpc[d] = "done"
      BY <1>3, <2>1, <2>2, WorkerFrame
    <3>. QED  BY <1>1, <1>3, <2>1, <3>1, WorkerBudget DEF Budgeted, CutIsReported
  <2>3. CASE d = c /\ wpc[d] # "done"
    <3>1. c \in DOMAIN wpc /\ Todo(c) # {} /\ wpc'[c] = "done" /\ wpc[c] # "done"
      BY <1>3, <2>1, <2>3
    <3>2. TRUE \in LoadStop => stop
      BY DEF LoadStop
    <3>3. ~Exhaust(c)
      BY <3>1 DEF Exhaust
    <3>4. CASE Abandon(c) \/ DropEdge(c)
      BY <3>2, <3>4, WorkerBudget DEF Abandon, DropEdge
    <3>5. CASE StopOnEdge(c)
      BY <3>5 DEF StopOnEdge
    <3>6. CASE CountCandidate(c)
      <4>1. TRUE \in LoadStop \/ stop' = TRUE
        BY <3>1, <3>6 DEF CountCandidate
      <4>. QED  BY <3>2, <4>1, WorkerBudget
    <3>7. ASSUME NEW i \in todo, Apply(c, i) \/ CountEdge(c, i) \/ PushEdge(c, i)
          PROVE  FALSE
      <4>1. \/ wpc' = wpc
            \/ wpc' = [wpc EXCEPT ![c] = "counted"] \/ wpc' = [wpc EXCEPT ![c] = "next"]
            \/ wpc' = [wpc EXCEPT ![c] = "candidate"]
        BY <3>7 DEF Apply, CountEdge, PushEdge
      <4>. QED  BY <3>1, <4>1
    <3>. QED  BY <3>3, <3>4, <3>5, <3>6, <3>7 DEF Worker
  <2>. QED  BY <2>2, <2>3
<1>. QED  BY <1>2, <1>3 DEF CutIsReported

LEMMA NextBudgeted == Budgeted /\ [Next]_vars => Budgeted'
<1>. SUFFICES ASSUME Budgeted, [Next]_vars PROVE Budgeted'
  OBVIOUS
<1>1. Typed'
  BY NextTyped DEF Budgeted
<1>2. ASSUME NEW c \in DOMAIN wpc, Worker(c)
      PROVE  Budgeted'
  BY <1>1, <1>2, WorkerLayer, WorkerCut DEF Budgeted
<1>3. CASE StartLayer
  <2>1. /\ Chunks' = Chunks /\ Items(frontier)' = Items(frontier)
    BY <1>3 DEF StartLayer, input, store, Chunks, ChunkOf, ChunkSize, Position, Workers, Items, Posts
  <2>2. DOMAIN wpc' = Chunks' /\ \A c \in DOMAIN wpc' : mine'[c] = 0 /\ wpc'[c] = "next"
    BY <1>3, <2>1 DEF StartLayer
  <2>3. todo' = Items(frontier)' /\ genEdges' = 0 /\ stop' = FALSE
    BY <1>3, <2>1 DEF StartLayer
  <2>. QED  BY <1>1, <2>2, <2>3 DEF Budgeted, LayerInv, CutIsReported
<1>4. CASE pc' # "expand"
  BY <1>1, <1>4 DEF Budgeted, LayerInv, CutIsReported
<1>5. CASE UNCHANGED vars
  <2>0. /\ pc' = pc /\ wpc' = wpc /\ mine' = mine /\ genEdges' = genEdges
        /\ todo' = todo /\ edges' = edges /\ frontier' = frontier /\ req' = req /\ pool' = pool
    BY <1>5 DEF vars
  <2>1. LayerInv'
    <3>1. Chunks' = Chunks
      BY <2>0 DEF Chunks, ChunkOf, ChunkSize, Position, Workers
    <3>2. Items(frontier)' = Items(frontier)
      BY <2>0 DEF Items, Posts
    <3>. QED  BY <2>0, <3>1, <3>2 DEF Budgeted, LayerInv, IsEdge
  <2>2. CutIsReported'
    BY <1>5 DEF vars, Budgeted, CutIsReported, BudgetLimit, Limit, LimitExceeded, LimitReason,
                States, Todo, ChunkOf, ChunkSize, Position, Workers
  <2>. QED  BY <1>1, <2>1, <2>2 DEF Budgeted
<1>6. StopAtBoundary \/ Observe \/ CloseLayer \/ Merge \/ Report => pc' # "expand"
  BY DEF StopAtBoundary, Observe, CloseLayer, Merge, Report
<1>. QED  BY <1>2, <1>3, <1>4, <1>5, <1>6 DEF Next, Finished

LEMMA InitBudgeted == Init => Budgeted
BY InitTyped DEF Init, Budgeted, LayerInv, CutIsReported

\* No layer is cut short silently: if a worker leaves work behind, stop is stored,
\* and then limit_hit names a limit, for any number of workers and any interleaving.
THEOREM CutReported == Spec => []CutIsReported
<1>1. Budgeted => CutIsReported
  BY DEF Budgeted
<1>. QED  BY <1>1, InitBudgeted, NextBudgeted, PTL DEF Spec

-----------------------------------------------------------------------------
(* What the search has explored.                                           *)

\* Among finitely many violating edges there is a first one to record.
LEMMA FirstBadExists ==
  ASSUME Typed, pc = "expand", NEW p \in req.steps, NEW S \in SUBSET edges,
         \E i \in S : EdgeOf(i) \in req.stepBad[p]
  PROVE  FirstBad(p, S) # {}
<1>. DEFINE V == {i \in S : EdgeOf(i) \in req.stepBad[p]}
            Before(i) == {j \in V : SortKeyLess(EdgeOf(j), EdgeOf(i))}
            T == {Before(i) : i \in V}
<1>1. \A i \in V : /\ EdgeOf(i)[1] \in Nat /\ EdgeOf(i)[2] \in Nat /\ EdgeOf(i)[3] \in Nat
  <2>1. ASSUME NEW i \in V
        PROVE  EdgeOf(i) \in State \X Transition \X State
    BY <2>1, ItemTypes DEF Typed, TypeOK, EdgesFrom, FrontierStates
  <2>. QED  BY <2>1, StateAssumption, TransitionAssumption
<1>2. \A i \in V : ~SortKeyLess(EdgeOf(i), EdgeOf(i))
  BY <1>1 DEF SortKeyLess
<1>3. \A i, j, k \in V : SortKeyLess(EdgeOf(i), EdgeOf(j)) /\ SortKeyLess(EdgeOf(j), EdgeOf(k))
                           => SortKeyLess(EdgeOf(i), EdgeOf(k))
  <2>. HIDE DEF V
  <2>. QED  BY <1>1 DEF SortKeyLess
<1>4. IsFiniteSet(V) /\ V # {}
  BY FS_Subset DEF Typed
<1>. HIDE DEF V
<1>5. T # {} /\ T \subseteq FiniteSubsetsOf(V)
  <2>1. ASSUME NEW i \in V
        PROVE  Before(i) \in FiniteSubsetsOf(V)
    <3>1. Before(i) \subseteq V
      OBVIOUS
    <3>. HIDE DEF Before
    <3>. QED  BY <1>4, <3>1, FS_Subset DEF FiniteSubsetsOf
  <2>. QED  BY <1>4, <2>1
<1>6. PICK D \in T : \A E \in T : <<E, D>> \notin StrictSubsetOrdering(V)
  <2>. HIDE DEF T
  <2>. QED  BY <1>5, FS_StrictSubsetOrderingWellFounded, WFMin
<1>7. PICK i \in V : D = Before(i)
  BY <1>6
<1>8. ASSUME NEW j \in V, SortKeyLess(EdgeOf(j), EdgeOf(i))
      PROVE  FALSE
  <2>1. Before(j) \subseteq Before(i)
    BY <1>3, <1>8
  <2>2. j \in Before(i) /\ j \notin Before(j)
    BY <1>2, <1>8
  <2>3. <<Before(j), Before(i)>> \in StrictSubsetOrdering(V)
    BY <2>1, <2>2 DEF StrictSubsetOrdering
  <2>. QED  BY <1>6, <1>7, <2>3
<1>9. EdgeOf(i) \in FirstBad(p, S)
  BY <1>8 DEF FirstBad, First, V
<1>. QED  BY <1>9

\* The search goes on only while no limit is hit and not all properties are decided.
Exploring == limit = {} /\ ~AllTerminal({})

\* Every state but those of the frontier has had its successors visited; between
\* the observation of a layer and its merge the pushed edges stand for them.
Explored ==
  /\ SeedStates(req) \subseteq visited
  /\ pc = "expand" => Exploring
  /\ Exploring => Succ(req, visited \ FrontierStates) \subseteq visited
  /\ pc = "merge" /\ Exploring => Succ(req, FrontierStates) \subseteq {Post(i) : i \in edges}
  /\ pc = "done" => \A a \in req.always :
       verdict[a] = "verified" => limit = {} /\ frontier = {} /\ visited \cap req.bad[a] = {}

Sound == Budgeted /\ Explored

\* A layer that ends without a limit has applied every effect and pushed every edge
\* out of its frontier.
LEMMA LayerComplete ==
  ASSUME Budgeted, Observe, BudgetLimit = {}
  PROVE  todo = {} /\ edges = {i \in Items(frontier) : IsEdge(i)}
<1>1. pc = "expand" /\ \A c \in Chunks : wpc[c] = "done"
  BY DEF Observe
<1>2. ~stop
  BY <1>1 DEF Budgeted, CutIsReported
<1>3. todo = {}
  <2>1. ASSUME NEW i \in todo
        PROVE  FALSE
    <3>1. Entry(i) \in frontier
      BY <1>1, ItemTypes DEF Budgeted, Typed, TypeOK
    <3>2. ChunkOf(Entry(i)) \in Chunks /\ i \in Todo(ChunkOf(Entry(i)))
      BY <3>1 DEF Chunks, Todo
    <3>. QED  BY <1>1, <1>2, <3>2 DEF Budgeted, LayerInv, CutIsReported
  <2>. QED  BY <2>1
<1>. QED  BY <1>1, <1>3 DEF Budgeted, LayerInv, Typed, TypeOK

LEMMA ObserveExplored == Sound /\ Observe => Explored'
<1>. SUFFICES ASSUME Sound, Observe PROVE Explored'
  OBVIOUS
<1>1. /\ UNCHANGED <<input, visited, parent, frontier, depth, work, enabledIds, boundHits,
                     verdict>>
      /\ pc = "expand" /\ pc' = "merge"
  BY DEF Observe
<1>2. /\ FrontierStates' = FrontierStates /\ {Post(i) : i \in edges}' = {Post(i) : i \in edges}
      /\ req' = req /\ visited' = visited
  BY <1>1 DEF FrontierStates, Post, Posts, input, work
<1>3. Exploring
  BY <1>1 DEF Sound, Explored
<1>4. Succ(req, visited \ FrontierStates)' \subseteq visited'
  BY <1>1, <1>2, <1>3 DEF Sound, Explored
<1>5. ASSUME Exploring', NEW s \in Succ(req, FrontierStates)
      PROVE  s \in {Post(i) : i \in edges}
  <2>1. BudgetLimit = {}
    BY <1>5 DEF Exploring, Observe
  <2>2. edges = {i \in Items(frontier) : IsEdge(i)}
    BY <2>1, LayerComplete DEF Sound
  <2>3. PICK e \in EdgesFrom(req, FrontierStates) : s = e[3]
    BY <1>5 DEF Succ
  <2>4. PICK i \in Items(frontier) : IsEdge(i) /\ Post(i) = e[3]
    BY SuccIsPost DEF Sound, Budgeted, Typed, TypeOK
  <2>. QED  BY <2>2, <2>3, <2>4
<1>6. SeedStates(req)' \subseteq visited'
  BY <1>2 DEF Sound, Explored
<1>7. (Exploring /\ pc = "merge")' => Succ(req, FrontierStates)' \subseteq {Post(i) : i \in edges}'
  BY <1>2, <1>5
<1>. QED  BY <1>1, <1>4, <1>6, <1>7 DEF Explored

LEMMA MergeExplored == Sound /\ Merge => Explored'
<1>. SUFFICES ASSUME Sound, Merge PROVE Explored'
  OBVIOUS
<1>1. /\ req' = req /\ pc = "merge" /\ pc' = "layer" /\ visited' = visited \cup Inserted
      /\ frontier' = {<<s, 1>> : s \in Inserted} /\ found' = found
  BY DEF Merge, input
<1>2. FrontierStates' = Inserted
  <2>1. \A s \in Inserted : <<s, 1>> \in frontier' /\ <<s, 1>>[1] = s
    BY <1>1
  <2>2. \A e \in frontier' : e[1] \in Inserted
    BY <1>1
  <2>. QED  BY <2>1, <2>2 DEF FrontierStates
<1>3. Exploring
  BY DEF Merge, Exploring
<1>4. SeedStates(req)' \subseteq visited'
  BY <1>1 DEF Sound, Explored
<1>5. ASSUME Exploring', NEW s \in Succ(req, visited' \ Inserted)
      PROVE  s \in visited'
  <2>1. Inserted = NewStates
    BY <1>5 DEF Merge, Exploring
  <2>2. visited' \ Inserted = visited
    BY <1>1 DEF Inserted, NewStates
  <2>3. visited \subseteq State /\ req \in Requests
    BY DEF Sound, Budgeted, Typed, TypeOK
  <2>4. PICK p \in visited, t \in Transition :
           t \in req.enabled[p] /\ \E b \in DOMAIN Posts(req, p, t) : Posts(req, p, t)[b] = s
    BY <1>5, <2>2, <2>3, SuccEdge
  <2>5. CASE p \in FrontierStates
    <3>1. s \in Succ(req, FrontierStates)
      BY <2>3, <2>4, <2>5, SuccEdge DEF Sound, Budgeted, Typed, TypeOK
    <3>2. s \in {Post(i) : i \in edges}
      BY <1>1, <1>3, <3>1 DEF Sound, Explored
    <3>. QED  BY <1>1, <2>1, <3>2 DEF NewStates
  <2>6. CASE p \notin FrontierStates
    <3>1. s \in Succ(req, visited \ FrontierStates)
      BY <2>3, <2>4, <2>6, SuccEdge
    <3>. QED  BY <1>1, <1>3, <3>1 DEF Sound, Explored
  <2>. QED  BY <2>5, <2>6
<1>. QED  BY <1>1, <1>2, <1>4, <1>5 DEF Explored

\* A step that leaves the store and the decisions alone keeps what is explored.
LEMMA FrameExplored ==
  ASSUME Sound, pc' # "merge",
         UNCHANGED <<req, visited, frontier, limit, found>>,
         pc' = "expand" => Exploring,
         pc' = "done" => \A a \in req.always :
           verdict'[a] = "verified" => limit = {} /\ frontier = {} /\ visited \cap req.bad[a] = {}
  PROVE  Explored'
BY DEF Sound, Explored, Exploring, AllTerminal, FrontierStates

LEMMA NextExplored == Sound /\ [Next]_vars => Sound'
<1>. SUFFICES ASSUME Sound, [Next]_vars PROVE Explored'
  BY NextBudgeted DEF Sound
<1>1. CASE StopAtBoundary
  BY <1>1 DEF StopAtBoundary, Sound, Explored, Exploring, input, store
<1>2. CASE StartLayer
  BY <1>2, FrameExplored DEF StartLayer, MayExplore, Exploring, input, store
<1>3. ASSUME NEW c \in DOMAIN wpc, Worker(c)
      PROVE  Explored'
  <2>1. WorkerUnchanged /\ pc = "expand"
    BY <1>3 DEF Worker, Exhaust, Abandon, Apply, CountEdge, StopOnEdge, DropEdge, PushEdge,
                CountCandidate
  <2>. QED  BY <2>1, FrameExplored DEF WorkerUnchanged, input, store, Sound, Explored
<1>4. CASE CloseLayer
  <2>1. ~Exploring'
    BY <1>4 DEF CloseLayer, Exploring, AllTerminal, input
  <2>. QED  BY <1>4, <2>1 DEF CloseLayer, Sound, Explored, input
<1>5. CASE Report
  <2>1. ASSUME NEW a \in req.always, verdict'[a] = "verified"
        PROVE  limit = {} /\ frontier = {} /\ visited \cap req.bad[a] = {}
    <3>1. a \notin req.steps
      BY RequestFields, PropertyAssumption DEF Sound, Budgeted, Typed, TypeOK
    <3>. QED  BY <1>5, <2>1, <3>1 DEF Report, Status
  <2>. QED  BY <1>5, <2>1, FrameExplored DEF Report, input, store
<1>6. CASE UNCHANGED vars
  BY <1>6 DEF vars, Sound, Explored, Exploring, AllTerminal, FrontierStates, Post, Posts
<1>. QED  BY <1>1, <1>2, <1>3, <1>4, <1>5, <1>6, ObserveExplored, MergeExplored
          DEF Next, Finished

LEMMA InitSound == Init => Sound
<1>. SUFFICES ASSUME Init PROVE Sound
  OBVIOUS
<1>1. Budgeted
  BY InitBudgeted
<1>2. FrontierStates = visited
  BY SeedFrontier
<1>3. Succ(req, visited \ FrontierStates) = {}
  BY <1>2 DEF Succ, EdgesFrom
<1>. QED  BY <1>1, <1>3 DEF Init, Sound, Explored

\* "verified" is sound: after the search reports that AG p is verified, no
\* reachable state violates p, whatever the workers, the limits and the order in
\* which candidates are merged.
THEOREM VerifiedSound == Spec => []VerifiedIsSound
<1>1. Sound => VerifiedIsSound
  <2>. SUFFICES ASSUME Sound, pc = "done", NEW a \in req.always, verdict[a] = "verified"
                PROVE  Reachable(req) \cap req.bad[a] = {}
    BY DEF VerifiedIsSound
  <2>1. limit = {} /\ frontier = {} /\ visited \cap req.bad[a] = {}
    BY DEF Sound, Explored
  <2>2. Exploring
    BY <2>1 DEF Exploring, AllTerminal
  <2>3. Succ(req, visited) \subseteq visited
    <3>1. visited \ FrontierStates = visited
      BY <2>1 DEF FrontierStates
    <3>. QED  BY <2>2, <3>1 DEF Sound, Explored
  <2>4. Reachable(req) \subseteq visited
    BY <2>3, ReachableLeast DEF Sound, Explored, Budgeted, Typed, TypeOK
  <2>. QED  BY <2>1, <2>4
<1>. QED  BY <1>1, InitSound, NextExplored, PTL DEF Spec

-----------------------------------------------------------------------------
(* What the search has observed.                                           *)

\* The states whose edges have all been observed.
Expanded == IF pc = "merge" THEN visited ELSE visited \ FrontierStates

Judged ==
  /\ visited \subseteq Reachable(req)
  /\ \A p \in req.steps : found[p] \subseteq EdgesFrom(req, visited) \cap req.stepBad[p]
  /\ limit = {} =>
       \A p \in req.steps : found[p] = {} => EdgesFrom(req, Expanded) \cap req.stepBad[p] = {}
  /\ pc = "done" => \A p \in req.steps :
       verdict[p] = "verified-within-bounds" => found[p] = {} /\ limit = {}

Correct == Sound /\ Judged

LEMMA EdgesMonotone ==
  ASSUME NEW r, NEW S, NEW T, S \subseteq T
  PROVE  EdgesFrom(r, S) \subseteq EdgesFrom(r, T)
BY DEF EdgesFrom

LEMMA ObserveJudged == Correct /\ Observe => Judged'
<1>. SUFFICES ASSUME Correct, Observe PROVE Judged'
  OBVIOUS
<1>0. Typed /\ FrontierStates \subseteq visited /\ frontier \subseteq State \X Nat /\ req \in Requests
  BY DEF Correct, Sound, Budgeted, Typed, TypeOK
<1>1. /\ pc = "expand" /\ pc' = "merge" /\ req' = req /\ visited' = visited
      /\ Observed \subseteq edges
      /\ found' = [p \in req.steps |-> IF found[p] # {} THEN found[p] ELSE FirstBad(p, Observed)]
  BY DEF Observe, Recorded, input, Observed
<1>2. ASSUME NEW p \in req.steps
      PROVE  found'[p] \subseteq EdgesFrom(req, visited) \cap req.stepBad[p]
  <2>1. FirstBad(p, Observed) \subseteq EdgesFrom(req, FrontierStates) \cap req.stepBad[p]
    BY <1>0, <1>1, FirstBadTypes
  <2>2. EdgesFrom(req, FrontierStates) \subseteq EdgesFrom(req, visited)
    BY <1>0, EdgesMonotone
  <2>. QED  BY <1>1, <2>1, <2>2 DEF Correct, Judged
<1>3. ASSUME limit' = {}, NEW p \in req.steps, found'[p] = {},
             NEW e \in EdgesFrom(req, visited), e \in req.stepBad[p]
      PROVE  FALSE
  <2>1. found[p] = {} /\ FirstBad(p, Observed) = {}
    BY <1>1, <1>3
  <2>2. BudgetLimit = {} /\ (Halting = {} \/ AllTerminal(Observed))
    BY <1>3 DEF Observe
  <2>3. \A i \in Observed : EdgeOf(i) \notin req.stepBad[p]
    BY <1>0, <1>1, <2>1, FirstBadExists
  <2>4. ~AllTerminal(Observed)
    BY <2>1, <2>3 DEF AllTerminal
  <2>5. Observed = edges
    BY <2>2, <2>4 DEF Observed
  <2>6. CASE e[1] \in FrontierStates
    <3>1. e \in EdgesFrom(req, FrontierStates)
      BY <2>6 DEF EdgesFrom
    <3>2. PICK i \in Items(frontier) : IsEdge(i) /\ EdgeOf(i) = e
      BY <1>0, <3>1, SuccIsPost
    <3>3. i \in edges
      BY <2>2, <3>2, LayerComplete DEF Correct, Sound
    <3>. QED  BY <1>3, <2>3, <2>5, <3>2, <3>3
  <2>7. CASE e[1] \notin FrontierStates
    <3>1. e \in EdgesFrom(req, visited \ FrontierStates)
      BY <2>7 DEF EdgesFrom
    <3>2. limit = {}
      BY <1>1 DEF Correct, Sound, Explored, Exploring
    <3>. QED  BY <1>1, <1>3, <2>1, <3>1, <3>2 DEF Correct, Judged, Expanded
  <2>. QED  BY <2>6, <2>7
<1>4. visited' \subseteq Reachable(req)
  BY <1>1 DEF Correct, Judged
<1>. QED  BY <1>1, <1>2, <1>3, <1>4 DEF Judged, Expanded

LEMMA MergeJudged == Correct /\ Merge => Judged'
<1>. SUFFICES ASSUME Correct, Merge PROVE Judged'
  OBVIOUS
<1>0. Typed /\ FrontierStates \subseteq visited /\ req \in Requests
  BY DEF Correct, Sound, Budgeted, Typed, TypeOK
<1>1. /\ req' = req /\ pc = "merge" /\ pc' = "layer" /\ visited' = visited \cup Inserted
      /\ frontier' = {<<s, 1>> : s \in Inserted} /\ found' = found /\ limit = {}
  BY DEF Merge, input
<1>2. visited' \subseteq Reachable(req)
  <2>1. FrontierStates \subseteq Reachable(req)
    BY <1>0 DEF Correct, Judged
  <2>2. Inserted \subseteq Reachable(req)
    BY <1>0, <1>1, <2>1, InsertedTypes, ReachableClosed
  <2>. QED  BY <1>1, <2>2 DEF Correct, Judged
<1>3. Expanded' \subseteq visited
  <2>1. \A s \in Inserted : <<s, 1>> \in frontier' /\ <<s, 1>>[1] = s
    BY <1>1
  <2>. QED  BY <1>1, <2>1 DEF Expanded, FrontierStates
<1>4. EdgesFrom(req, Expanded') \subseteq EdgesFrom(req, visited)
      /\ EdgesFrom(req, visited) \subseteq EdgesFrom(req, visited')
  BY <1>1, <1>3, EdgesMonotone
<1>5. \A p \in req.steps : found[p] = {} => EdgesFrom(req, visited) \cap req.stepBad[p] = {}
  BY <1>1 DEF Correct, Judged, Expanded
<1>. QED  BY <1>1, <1>2, <1>4, <1>5 DEF Judged, Correct

\* A step that neither expands nor decides anything keeps what is judged.
LEMMA FrameJudged ==
  ASSUME Correct, pc' # "merge",
         UNCHANGED <<req, visited, found>>, Expanded' = Expanded,
         limit' = {} => limit = {},
         pc' = "done" => \A p \in req.steps :
            verdict'[p] = "verified-within-bounds" => found[p] = {} /\ limit' = {}
  PROVE  Judged'
<1>1. limit' = {} =>
         \A p \in req.steps : found'[p] = {} => EdgesFrom(req, Expanded') \cap req.stepBad[p] = {}
  BY DEF Correct, Judged
<1>. QED  BY <1>1 DEF Correct, Judged

LEMMA NextCorrect == Correct /\ [Next]_vars => Correct'
<1>. SUFFICES ASSUME Correct, [Next]_vars PROVE Judged'
  BY NextExplored DEF Correct
<1>1. CASE StopAtBoundary
  <2>1. Expanded' = Expanded /\ limit' # {} /\ pc' = "layer" /\ pc = "layer"
    BY <1>1 DEF StopAtBoundary, Expanded, FrontierStates, store
  <2>. QED  BY <1>1, <2>1, FrameJudged DEF StopAtBoundary, input, store
<1>2. CASE StartLayer
  <2>1. Expanded' = Expanded /\ limit' = limit /\ pc' = "expand" /\ pc = "layer"
    BY <1>2 DEF StartLayer, Expanded, FrontierStates, store
  <2>. QED  BY <1>2, <2>1, FrameJudged DEF StartLayer, input, store
<1>3. ASSUME NEW c \in DOMAIN wpc, Worker(c)
      PROVE  Judged'
  <2>1. WorkerUnchanged /\ pc = "expand"
    BY <1>3 DEF Worker, Exhaust, Abandon, Apply, CountEdge, StopOnEdge, DropEdge, PushEdge,
                CountCandidate
  <2>2. Expanded' = Expanded
    BY <2>1 DEF WorkerUnchanged, store, Expanded, FrontierStates
  <2>. QED  BY <2>1, <2>2, FrameJudged DEF WorkerUnchanged, input, store
<1>4. CASE CloseLayer
  <2>1. Expanded' = Expanded /\ (limit' = {} => limit = {}) /\ pc' = "layer" /\ pc = "merge"
    BY <1>4 DEF CloseLayer, Expanded, FrontierStates
  <2>. QED  BY <1>4, <2>1, FrameJudged DEF CloseLayer, input
<1>5. CASE Report
  <2>1. Expanded' = Expanded /\ limit' = limit /\ pc' = "done" /\ pc = "layer"
    BY <1>5 DEF Report, Expanded, FrontierStates, store
  <2>2. \A p \in req.steps :
          verdict'[p] = "verified-within-bounds" => found[p] = {} /\ limit' = {}
    BY <1>5 DEF Report, Status
  <2>. QED  BY <1>5, <2>1, <2>2, FrameJudged DEF Report, input, store
<1>6. CASE UNCHANGED vars
  BY <1>6 DEF vars, Correct, Judged, Expanded, FrontierStates
<1>. QED  BY <1>1, <1>2, <1>3, <1>4, <1>5, <1>6, ObserveJudged, MergeJudged
          DEF Next, Finished

LEMMA InitCorrect == Init => Correct
<1>. SUFFICES ASSUME Init PROVE Correct
  OBVIOUS
<1>1. Sound
  BY InitSound
<1>2. visited \subseteq Reachable(req)
  BY <1>1, ReachableClosed DEF Init
<1>3. EdgesFrom(req, Expanded) = {}
  BY SeedFrontier DEF Expanded, EdgesFrom, Init
<1>. QED  BY <1>1, <1>2, <1>3 DEF Init, Correct, Judged

\* A violation is real: the search visits reachable states only, and the edge it
\* records for an alwaysStep property is an edge out of a visited state that
\* violates the property.
THEOREM ViolationReal == Spec => []ViolationIsReal
<1>1. Correct => ViolationIsReal
  BY DEF Correct, Judged, ViolationIsReal
<1>. QED  BY <1>1, InitCorrect, NextCorrect, PTL DEF Spec

\* A step property that passes after the frontier was drained holds on every edge
\* out of every reachable state.
THEOREM StepVerdictSound == Spec => []StepVerdictIsSound
<1>1. Correct => StepVerdictIsSound
  <2>. SUFFICES ASSUME Correct, pc = "done", NEW p \in req.steps,
                       verdict[p] = "verified-within-bounds", frontier = {}
                PROVE  EdgesFrom(req, Reachable(req)) \cap req.stepBad[p] = {}
    BY DEF StepVerdictIsSound
  <2>1. found[p] = {} /\ limit = {} /\ Expanded = visited
    BY DEF Correct, Judged, Expanded, FrontierStates
  <2>2. Exploring
    BY <2>1 DEF Exploring, AllTerminal
  <2>3. Succ(req, visited) \subseteq visited
    <3>1. visited \ FrontierStates = visited
      BY DEF FrontierStates
    <3>. QED  BY <2>2, <3>1 DEF Correct, Sound, Explored
  <2>4. Reachable(req) \subseteq visited
    BY <2>3, ReachableLeast DEF Correct, Sound, Explored, Budgeted, Typed, TypeOK
  <2>5. EdgesFrom(req, Reachable(req)) \subseteq EdgesFrom(req, visited)
    BY <2>4, EdgesMonotone
  <2>. QED  BY <2>1, <2>5 DEF Correct, Judged
<1>. QED  BY <1>1, InitCorrect, NextCorrect, PTL DEF Spec

-----------------------------------------------------------------------------
(* The bounds in the report.                                               *)

\* The caps of the effects applied in a set of states.
Caps(S) ==
  {<<"cap", t>> : t \in {t \in Transition : \E s \in S :
                          t \in req.enabled[s] /\ <<s, t>> \in req.capped}}

\* What the workers of a layer have applied so far.
Applied == {i \in Items(frontier) \ todo : ~IsEdge(i)}

Listed ==
  limit = {} =>
    /\ pc \in {"layer", "merge"} => boundHits = Caps(Expanded)
    /\ pc = "expand" =>
         boundHits = Caps(Expanded)
           \cup {<<"cap", i[3]>> : i \in {i \in Applied : <<i[1], i[3]>> \in req.capped}}
    /\ BoundsThatBitAreListed

LEMMA ApplyListed ==
  ASSUME Budgeted, Listed, NEW c \in DOMAIN wpc, NEW j \in todo, Apply(c, j)
  PROVE  Listed'
<1>. DEFINE C(A) == {<<"cap", i[3]>> : i \in {i \in A : <<i[1], i[3]>> \in req.capped}}
<1>1. /\ pc = "expand" /\ pc' = "expand" /\ ~IsEdge(j) /\ todo' = todo \ {j}
      /\ UNCHANGED <<req, visited, frontier, limit>>
      /\ boundHits' = IF <<j[1], j[3]>> \in req.capped
                      THEN boundHits \cup {<<"cap", j[3]>>} ELSE boundHits
  BY DEF Apply, WorkerUnchanged, input, store
<1>2. Expanded' = Expanded /\ Caps(Expanded)' = Caps(Expanded)
  BY <1>1 DEF Expanded, FrontierStates, Caps
<1>3. Applied' = Applied \cup {j}
  <2>1. j \in Items(frontier) /\ Items(frontier)' = Items(frontier)
    BY <1>1 DEF Budgeted, Typed, TypeOK, Items, Posts
  <2>. QED  BY <1>1, <2>1 DEF Applied, IsEdge
<1>4. C(Applied \cup {j}) = C(Applied) \cup (IF <<j[1], j[3]>> \in req.capped
                                             THEN {<<"cap", j[3]>>} ELSE {})
  OBVIOUS
<1>5. {<<"cap", i[3]>> : i \in {i \in Applied : <<i[1], i[3]>> \in req.capped}}' = C(Applied')
  BY <1>1
<1>. HIDE DEF C
<1>6. limit = {} => boundHits = Caps(Expanded) \cup C(Applied)
  BY <1>1 DEF Listed, C
<1>7. limit = {} => boundHits' = Caps(Expanded)' \cup C(Applied')
  BY <1>1, <1>2, <1>3, <1>4, <1>6
<1>. QED  BY <1>1, <1>5, <1>7 DEF Listed, BoundsThatBitAreListed

\* A step that applies no effect.
LEMMA WorkerListed ==
  ASSUME Budgeted, Listed, NEW c \in DOMAIN wpc, Worker(c)
  PROVE  Listed'
<1>1. CASE \E j \in todo : Apply(c, j)
  BY <1>1, ApplyListed
<1>2. CASE ~\E j \in todo : Apply(c, j)
  <2>1. /\ pc = "expand" /\ pc' = "expand" /\ UNCHANGED <<req, visited, frontier, limit, boundHits>>
        /\ todo' = todo \/ \E i \in todo : IsEdge(i) /\ todo' = todo \ {i}
    BY <1>2 DEF Worker, Exhaust, Abandon, CountEdge, StopOnEdge, DropEdge, PushEdge,
                CountCandidate, WorkerUnchanged, input, store, hits, Quit
  <2>2. Caps(Expanded)' = Caps(Expanded)
    BY <2>1 DEF Expanded, FrontierStates, Caps
  <2>3. Applied' = Applied
    <3>1. Items(frontier)' = Items(frontier)
      BY <2>1 DEF Items, Posts
    <3>2. Applied' = {i \in Items(frontier) \ todo' : ~IsEdge(i)}
      BY <3>1 DEF Applied, IsEdge
    <3>. QED  BY <2>1, <3>2 DEF Applied
  <2>. QED  BY <2>1, <2>2, <2>3 DEF Listed, BoundsThatBitAreListed
<1>. QED  BY <1>1, <1>2

\* When no worker was stopped, every effect of the layer has been applied.
LEMMA ObserveListed ==
  ASSUME Budgeted, Listed, Exploring, Observe
  PROVE  Listed'
<1>. SUFFICES ASSUME limit' = {} PROVE boundHits' = Caps(Expanded)'
  BY DEF Observe, Listed, BoundsThatBitAreListed
<1>1. /\ pc = "expand" /\ pc' = "merge" /\ limit = {} /\ BudgetLimit = {}
      /\ UNCHANGED <<req, visited, frontier, boundHits>>
      /\ frontier \subseteq State \X Nat /\ FrontierStates \subseteq visited /\ req \in Requests
  BY DEF Observe, Exploring, input, Budgeted, Typed, TypeOK
<1>2. todo = {}
  BY <1>1, LayerComplete
<1>3. {<<"cap", i[3]>> : i \in {i \in Applied : <<i[1], i[3]>> \in req.capped}}
        = Caps(FrontierStates)
  <2>1. ASSUME NEW i \in Applied, <<i[1], i[3]>> \in req.capped
        PROVE  <<"cap", i[3]>> \in Caps(FrontierStates)
    <3>1. i[1] \in FrontierStates /\ i[3] \in Transition /\ i[3] \in req.enabled[i[1]]
      BY <1>1, ItemTypes DEF Applied
    <3>. QED  BY <2>1, <3>1 DEF Caps
  <2>2. ASSUME NEW s \in FrontierStates, NEW t \in Transition,
               t \in req.enabled[s], <<s, t>> \in req.capped
        PROVE  \E i \in Applied : i[1] = s /\ i[3] = t
    <3>1. PICK e \in frontier : e[1] = s
      BY DEF FrontierStates
    <3>. DEFINE i == <<e[1], e[2], t, 0>>
    <3>2. i \in Items(frontier) /\ ~IsEdge(i)
      BY <2>2, <3>1, PostsAssumption DEF Items, IsEdge
    <3>. QED  BY <1>2, <3>1, <3>2 DEF Applied
  <2>3. ASSUME NEW x \in Caps(FrontierStates)
        PROVE  x \in {<<"cap", i[3]>> : i \in {i \in Applied : <<i[1], i[3]>> \in req.capped}}
    <3>1. PICK t \in Transition, s \in FrontierStates :
            x = <<"cap", t>> /\ t \in req.enabled[s] /\ <<s, t>> \in req.capped
      BY DEF Caps
    <3>2. PICK i \in Applied : i[1] = s /\ i[3] = t
      BY <2>2, <3>1
    <3>. QED  BY <3>1, <3>2
  <2>. QED  BY <2>1, <2>3
<1>4. Caps(visited \ FrontierStates) \cup Caps(FrontierStates) = Caps(visited)
  BY <1>1 DEF Caps
<1>5. Expanded = visited \ FrontierStates /\ Expanded' = visited
  BY <1>1 DEF Expanded
<1>6. Caps(visited)' = Caps(visited)
  BY <1>1 DEF Caps
<1>7. boundHits = Caps(visited)
  BY <1>1, <1>3, <1>4, <1>5 DEF Listed
<1>. QED  BY <1>1, <1>5, <1>6, <1>7 DEF Caps

LEMMA MergeListed ==
  ASSUME Listed, Merge
  PROVE  Listed'
<1>1. /\ pc = "merge" /\ pc' = "layer" /\ visited' = visited \cup Inserted
      /\ frontier' = {<<s, 1>> : s \in Inserted} /\ limit = {}
      /\ UNCHANGED <<req, boundHits>>
  BY DEF Merge, input
<1>2. FrontierStates' = Inserted
  <2>1. \A s \in Inserted : <<s, 1>> \in frontier' /\ <<s, 1>>[1] = s
    BY <1>1
  <2>2. \A e \in frontier' : e[1] \in Inserted
    BY <1>1
  <2>. QED  BY <2>1, <2>2 DEF FrontierStates
<1>3. Expanded' = visited /\ Expanded = visited
  BY <1>1, <1>2 DEF Expanded, Inserted, NewStates
<1>. QED  BY <1>1, <1>3 DEF Listed, BoundsThatBitAreListed, Caps

LEMMA ReportListed ==
  ASSUME Listed, Report
  PROVE  Listed'
<1>1. /\ pc = "layer" /\ pc' = "done"
      /\ UNCHANGED <<req, visited, frontier, limit>>
      /\ boundHits' = boundHits \cup {"maxDepth"} \X UNION {req.enabled[e[1]] : e \in frontier}
  BY DEF Report, input, store
<1>2. UNION {req.enabled[e[1]] : e \in frontier} = UNION {req.enabled[s] : s \in FrontierStates}
  BY DEF FrontierStates
<1>3. Expanded = visited \ FrontierStates
  BY <1>1 DEF Expanded
<1>4. FrontierStates' = FrontierStates
  BY <1>1 DEF FrontierStates
<1>5. ASSUME limit = {} PROVE BoundsThatBitAreListed'
  <2>1. boundHits = Caps(Expanded)
    BY <1>1, <1>5 DEF Listed
  <2>2. boundHits' = Caps(visited \ FrontierStates)
                       \cup {"maxDepth"} \X UNION {req.enabled[s] : s \in FrontierStates}
    BY <1>1, <1>2, <1>3, <2>1
  <2>3. boundHits' = Caps(visited \ FrontierStates)'
                       \cup {"maxDepth"} \X UNION {req'.enabled[s] : s \in FrontierStates'}
    BY <1>1, <1>4, <2>2 DEF Caps
  <2>. QED  BY <2>3 DEF BoundsThatBitAreListed, Caps
<1>6. limit' = {} => BoundsThatBitAreListed'
  BY <1>1, <1>5
<1>. QED  BY <1>1, <1>6 DEF Listed

LEMMA NextListed == Sound /\ Listed /\ [Next]_vars => Listed'
<1>. SUFFICES ASSUME Sound, Listed, [Next]_vars PROVE Listed'
  OBVIOUS
<1>1. CASE StopAtBoundary
  BY <1>1 DEF StopAtBoundary, Listed, BoundsThatBitAreListed
<1>2. CASE StartLayer
  <2>1. /\ pc = "layer" /\ pc' = "expand" /\ todo' = Items(frontier)
        /\ UNCHANGED <<req, visited, frontier, limit, boundHits>>
    BY <1>2 DEF StartLayer, input, store
  <2>2. Applied' = {} /\ Caps(Expanded)' = Caps(Expanded)
    BY <2>1 DEF Applied, Items, Posts, Expanded, FrontierStates, Caps
  <2>. QED  BY <2>1, <2>2 DEF Listed, BoundsThatBitAreListed
<1>3. CASE CloseLayer
  <2>1. /\ pc = "merge" /\ pc' = "layer" /\ frontier' = {}
        /\ UNCHANGED <<req, visited, boundHits>> /\ (limit # {} => limit' = limit)
    BY <1>3 DEF CloseLayer, input
  <2>2. Caps(Expanded)' = Caps(Expanded)
    BY <2>1 DEF Expanded, FrontierStates, Caps
  <2>. QED  BY <2>1, <2>2 DEF Listed, BoundsThatBitAreListed
<1>4. CASE UNCHANGED vars
  <2>1. Caps(Expanded)' = Caps(Expanded) /\ Applied' = Applied
    BY <1>4 DEF vars, Expanded, FrontierStates, Caps, Applied, Items, Posts, IsEdge
  <2>2. BoundsThatBitAreListed' <=> BoundsThatBitAreListed
    BY <1>4 DEF vars, BoundsThatBitAreListed, FrontierStates
  <2>. QED  BY <1>4, <2>1, <2>2 DEF vars, Listed
<1>5. CASE Observe
  BY <1>5, ObserveListed DEF Observe, Sound, Explored
<1>. QED  BY <1>1, <1>2, <1>3, <1>4, <1>5, WorkerListed, MergeListed, ReportListed
          DEF Next, Finished, Sound

LEMMA InitListed == Init => Listed
<1>. SUFFICES ASSUME Init PROVE Listed
  OBVIOUS
<1>1. Expanded = {}
  BY SeedFrontier DEF Expanded, Init
<1>. QED  BY <1>1 DEF Init, Listed, Caps, BoundsThatBitAreListed

\* The report lists the caps and the transitions behind the depth bound that
\* restricted what was explored, and no other: whichever worker met them.
THEOREM BoundsListed == Spec => []BoundsThatBitAreListed
<1>1. Listed => BoundsThatBitAreListed
  BY DEF Listed, BoundsThatBitAreListed
<1>. QED  BY <1>1, InitListed, InitSound, NextListed, NextExplored, PTL DEF Spec

(***************************************************************************)
(* The parallel search implements the sequential layered search: every     *)
(* step of Search is a step of LayeredBFS or leaves its variables alone,   *)
(* for every set of requests and every number of workers.                  *)
(*                                                                         *)
(* The layer happens when its edges are observed. Two facts carry the      *)
(* proof: the edges observed until the loop halts are closed under what    *)
(* comes before (so the first violation among them is the first of the     *)
(* layer), and the loop halts early only on a configured limit or when     *)
(* every property is decided.                                              *)
(***************************************************************************)

-----------------------------------------------------------------------------
(* The order in which the edges of a layer are observed.                   *)

\* An edge of the layer as four numbers, and what it leads to as three.
LEMMA EdgeTypes ==
  ASSUME Typed, pc = "expand", NEW i \in edges
  PROVE  /\ i[1] \in Nat /\ i[2] \in Nat /\ i[3] \in Nat /\ i[4] \in Nat
         /\ i \in Items(frontier) /\ IsEdge(i)
         /\ EdgeOf(i)[1] \in Nat /\ EdgeOf(i)[2] \in Nat /\ EdgeOf(i)[3] \in Nat
         /\ EdgeOf(i) \in EdgesFrom(req, FrontierStates)
<1>1. i \in Items(frontier) /\ IsEdge(i) /\ req \in Requests /\ frontier \subseteq State \X Nat
  BY DEF Typed, TypeOK
<1>2. /\ i[1] \in State /\ i[2] \in Nat /\ i[3] \in Transition /\ i[4] \in Nat
      /\ Post(i) \in State /\ EdgeOf(i) \in EdgesFrom(req, FrontierStates)
  BY <1>1, ItemTypes
<1>. QED  BY <1>1, <1>2, StateAssumption, TransitionAssumption DEF EdgeOf

\* Edges are compared by what they lead to, then by generation order.
LEMMA EdgeOrder ==
  ASSUME Typed, pc = "expand"
  PROVE  /\ \A i \in edges : ~EdgeLess(i, i)
         /\ \A i, j, k \in edges : EdgeLess(i, j) /\ EdgeLess(j, k) => EdgeLess(i, k)
<1>1. ASSUME NEW i \in edges
      PROVE  ~ItemLess(i, i) /\ ~SortKeyLess(EdgeOf(i), EdgeOf(i))
  BY EdgeTypes DEF ItemLess, EntryLess, Entry, SortKeyLess
<1>2. ASSUME NEW i \in edges, NEW j \in edges, NEW k \in edges
      PROVE  /\ ItemLess(i, j) /\ ItemLess(j, k) => ItemLess(i, k)
             /\ SortKeyLess(EdgeOf(i), EdgeOf(j)) /\ SortKeyLess(EdgeOf(j), EdgeOf(k))
                  => SortKeyLess(EdgeOf(i), EdgeOf(k))
  <2>1. /\ i[1] \in Nat /\ i[2] \in Nat /\ i[3] \in Nat /\ i[4] \in Nat
        /\ j[1] \in Nat /\ j[2] \in Nat /\ j[3] \in Nat /\ j[4] \in Nat
        /\ k[1] \in Nat /\ k[2] \in Nat /\ k[3] \in Nat /\ k[4] \in Nat
    BY EdgeTypes
  <2>2. ItemLess(i, j) /\ ItemLess(j, k) => ItemLess(i, k)
    BY <2>1 DEF ItemLess, EntryLess, Entry
  <2>. DEFINE a == EdgeOf(i)
              b == EdgeOf(j)
              c == EdgeOf(k)
  <2>3. /\ a[1] \in Nat /\ a[2] \in Nat /\ a[3] \in Nat
        /\ b[1] \in Nat /\ b[2] \in Nat /\ b[3] \in Nat
        /\ c[1] \in Nat /\ c[2] \in Nat /\ c[3] \in Nat
    BY EdgeTypes
  <2>. HIDE DEF a, b, c
  <2>4. SortKeyLess(a, b) /\ SortKeyLess(b, c) => SortKeyLess(a, c)
    BY <2>3 DEF SortKeyLess
  <2>. QED  BY <2>2, <2>4 DEF a, b, c
<1>. QED  BY <1>1, <1>2 DEF EdgeLess

\* What was observed when the loop halted: with an edge, every edge before it.
LEMMA ObservedIsPrefix ==
  ASSUME Typed, pc = "expand", NEW i \in Observed, NEW j \in edges, EdgeLess(j, i)
  PROVE  j \in Observed
<1>1. i \in edges /\ BudgetLimit = {} /\ \A h \in Halting : ~EdgeLess(h, i)
  BY DEF Observed
<1>2. \A h \in Halting : h \in edges /\ ~EdgeLess(h, j)
  BY <1>1, EdgeOrder DEF Halting
<1>. QED  BY <1>1, <1>2 DEF Observed

\* If some edge halts the loop, a first one does.
LEMMA FirstHalting ==
  ASSUME Typed, pc = "expand", Halting # {}, BudgetLimit = {}
  PROVE  \E h \in Halting : Upto(h) \subseteq Observed
<1>. DEFINE Before(i) == {j \in Halting : EdgeLess(j, i)}
            T == {Before(i) : i \in Halting}
<1>1. Halting \subseteq edges
  BY DEF Halting
<1>2. IsFiniteSet(Halting)
  BY <1>1, FS_Subset DEF Typed
<1>3. T # {} /\ T \subseteq FiniteSubsetsOf(Halting)
  <2>1. ASSUME NEW i \in Halting
        PROVE  Before(i) \in FiniteSubsetsOf(Halting)
    <3>1. Before(i) \subseteq Halting
      OBVIOUS
    <3>. HIDE DEF Before
    <3>. QED  BY <1>2, <3>1, FS_Subset DEF FiniteSubsetsOf
  <2>. QED  BY <2>1
<1>4. PICK D \in T : \A E \in T : <<E, D>> \notin StrictSubsetOrdering(Halting)
  <2>. HIDE DEF T
  <2>. QED  BY <1>2, <1>3, FS_StrictSubsetOrderingWellFounded, WFMin
<1>5. PICK h \in Halting : D = Before(h)
  BY <1>4
<1>6. ASSUME NEW j \in Halting, EdgeLess(j, h)
      PROVE  FALSE
  <2>1. Before(j) \subseteq Before(h)
    BY <1>1, <1>6, EdgeOrder
  <2>2. j \in Before(h) /\ j \notin Before(j)
    BY <1>1, <1>6, EdgeOrder
  <2>3. <<Before(j), Before(h)>> \in StrictSubsetOrdering(Halting)
    BY <2>1, <2>2 DEF StrictSubsetOrdering
  <2>. QED  BY <1>4, <1>5, <2>3
<1>7. ASSUME NEW j \in Upto(h)
      PROVE  j \in Observed
  <2>1. j \in edges /\ (j = h \/ EdgeLess(j, h)) /\ h \in edges
    BY <1>1, <1>7 DEF Upto
  <2>2. h \in Observed
    BY <1>6, <2>1 DEF Observed
  <2>. QED  BY <2>1, <2>2, ObservedIsPrefix
<1>. QED  BY <1>7

-----------------------------------------------------------------------------
(* What a layer observes.                                                  *)

\* A limit that is exceeded is configured.
LEMMA ExceededIsConfigured ==
  ASSUME NEW a, NEW b, NEW c, LimitExceeded(a, b, c)
  PROVE  Limited(req)
BY DEF LimitExceeded, Over, Limited

\* More edges decide more properties; decided properties need no edge.
LEMMA TerminalGrows ==
  ASSUME NEW S, NEW T, S \subseteq T, AllTerminal(S)
  PROVE  AllTerminal(T)
BY DEF AllTerminal

\* Only a configured limit ends the search while a layer is observed.
LEMMA ObserveLimit ==
  ASSUME Typed, Observe, limit' # {}
  PROVE  Limited(req)
<1>1. pc = "expand"
  BY DEF Observe
<1>2. CASE BudgetLimit # {}
  <2>1. LimitExceeded(States + genStates, edgeCount + genEdges, 0)
    BY <1>2 DEF BudgetLimit, Limit
  <2>. QED  BY <2>1, ExceededIsConfigured
<1>3. CASE BudgetLimit = {}
  <2>1. Halting # {} /\ ~AllTerminal(Observed)
    BY <1>3 DEF Observe
  <2>2. PICK h \in Halting : Upto(h) \subseteq Observed
    BY <1>1, <1>3, <2>1, FirstHalting
  <2>3. ~AllTerminal(Upto(h))
    BY <2>1, <2>2, TerminalGrows
  <2>4. LimitExceeded(States, edgeCount + Cardinality(Upto(h)), 0)
    BY <2>3 DEF Halting, Halts
  <2>. QED  BY <2>4, ExceededIsConfigured
<1>. QED  BY <1>2, <1>3

\* When the workers were not stopped, the pushed edges are those of the layer.
LEMMA LayerEdges ==
  ASSUME Budgeted, Observe, BudgetLimit = {}
  PROVE  /\ {EdgeOf(i) : i \in edges} = EdgesFrom(req, FrontierStates)
         /\ {Post(i) : i \in edges} = Succ(req, FrontierStates)
<1>1. /\ edges = {i \in Items(frontier) : IsEdge(i)}
      /\ req \in Requests /\ frontier \subseteq State \X Nat /\ Typed /\ pc = "expand"
  BY LayerComplete DEF Budgeted, Typed, TypeOK, Observe
<1>2. ASSUME NEW i \in edges
      PROVE  EdgeOf(i) \in EdgesFrom(req, FrontierStates) /\ EdgeOf(i)[3] = Post(i)
  BY <1>1, EdgeTypes DEF EdgeOf
<1>3. ASSUME NEW e \in EdgesFrom(req, FrontierStates)
      PROVE  \E i \in edges : EdgeOf(i) = e /\ Post(i) = e[3]
  BY <1>1, SuccIsPost
<1>4. {EdgeOf(i) : i \in edges} = EdgesFrom(req, FrontierStates)
  BY <1>2, <1>3
<1>5. {Post(i) : i \in edges} = Succ(req, FrontierStates)
  BY <1>2, <1>3 DEF Succ
<1>. QED  BY <1>4, <1>5

\* The first violation among the observed edges is the first of the layer.
LEMMA FirstOfLayer ==
  ASSUME Budgeted, Observe, BudgetLimit = {}, NEW p \in req.steps,
         Observed = edges \/ FirstBad(p, Observed) # {}
  PROVE  FirstBad(p, Observed) = First(EdgesFrom(req, FrontierStates) \cap req.stepBad[p])
<1>. DEFINE Bad == EdgesFrom(req, FrontierStates) \cap req.stepBad[p]
            Seen == {EdgeOf(i) : i \in Observed} \cap req.stepBad[p]
<1>1. /\ {EdgeOf(i) : i \in edges} = EdgesFrom(req, FrontierStates)
      /\ Typed /\ pc = "expand" /\ Observed \subseteq edges
  BY LayerEdges DEF Budgeted, Observe, Observed
<1>2. FirstBad(p, Observed) = First(Seen) /\ Seen \subseteq Bad
  BY <1>1 DEF FirstBad
<1>3. CASE Observed = edges
  BY <1>1, <1>2, <1>3
<1>4. CASE FirstBad(p, Observed) # {}
  <2>1. ASSUME NEW g \in Seen, NEW f \in Bad, SortKeyLess(f, g)
        PROVE  f \in Seen
    <3>1. PICK i \in Observed : g = EdgeOf(i)
      OBVIOUS
    <3>2. PICK j \in edges : f = EdgeOf(j)
      BY <1>1
    <3>3. EdgeLess(j, i)
      BY <2>1, <3>1, <3>2 DEF EdgeLess
    <3>4. j \in Observed
      BY <1>1, <3>3, ObservedIsPrefix
    <3>. QED  BY <3>2, <3>4
  <2>2. \A g \in Bad : g[1] \in Nat /\ g[2] \in Nat /\ g[3] \in Nat /\ g = <<g[1], g[2], g[3]>>
    <3>1. EdgesFrom(req, FrontierStates) \subseteq State \X Transition \X State
      BY <1>1 DEF EdgesFrom, Typed, TypeOK
    <3>. QED  BY <3>1, StateAssumption, TransitionAssumption
  <2>. HIDE DEF Bad, Seen
  <2>3. First(Seen) \subseteq First(Bad)
    BY <1>2, <2>1 DEF First
  <2>4. PICK e : e \in First(Seen)
    BY <1>2, <1>4
  <2>5. ASSUME NEW g \in First(Bad)
        PROVE  g = e
    <3>1. g \in Bad /\ e \in Bad /\ ~SortKeyLess(e, g) /\ ~SortKeyLess(g, e)
      BY <2>3, <2>4 DEF First
    <3>. QED  BY <2>2, <3>1 DEF SortKeyLess
  <2>6. First(Seen) = First(Bad)
    BY <2>3, <2>4, <2>5
  <2>. QED  BY <1>2, <2>6 DEF Bad
<1>. QED  BY <1>3, <1>4

-----------------------------------------------------------------------------
(* The steps of LayeredBFS, in the variables of Search.                    *)

AbsVisited == IF Merging THEN visited \cup Inserted ELSE visited
AbsFrontier == IF Merging THEN Inserted ELSE IF pc = "merge" THEN {} ELSE FrontierStates
AbsDepth == IF pc = "merge" THEN depth + 1 ELSE depth
AbsLimited == limit # {} \/ (Merging /\ Inserted # NewStates)
AbsStatus == IF pc = "done" THEN "done" ELSE "running"
absStore == <<AbsVisited, AbsFrontier, AbsDepth, found>>

AllFound(f) == req.always = {} /\ req.steps # {} /\ \A p \in req.steps : f[p] # {}

ObservedIn(E) ==
  [p \in req.steps |->
     IF found[p] # {} THEN found[p] ELSE First(E \cap req.stepBad[p])]

AbsRunning ==
  /\ AbsStatus = "running" /\ ~AbsLimited /\ ~AllFound(found)
  /\ AbsFrontier # {} /\ AbsDepth < req.maxDepth

\* LayeredBFS reads a request the way Search does.
LEMMA SameRequest ==
  ASSUME NEW r, NEW S
  PROVE  /\ Layered!First(S) = First(S)
         /\ Layered!EdgesFrom(r, S) = EdgesFrom(r, S)
         /\ Layered!Succ(r, S) = Succ(r, S)
         /\ Layered!Limited(r) <=> Limited(r)
         /\ Layered!SeedStates(r) = SeedStates(r)
<1>1. Layered!First(S) = First(S)
  BY DEF Layered!First, First, Layered!SortKeyLess, SortKeyLess
<1>2. Layered!EdgesFrom(r, S) = EdgesFrom(r, S)
  BY DEF Layered!EdgesFrom, EdgesFrom, Layered!Posts, Posts
<1>3. Layered!Succ(r, S) = Succ(r, S)
  BY <1>2 DEF Layered!Succ, Succ
<1>4. (Layered!Limited(r) <=> Limited(r)) /\ Layered!SeedStates(r) = SeedStates(r)
  BY DEF Layered!Limited, Limited, Layered!SeedStates, SeedStates
<1>. QED  BY <1>1, <1>2, <1>3, <1>4

LEMMA ObservedMapped ==
  ASSUME NEW E
  PROVE  Layered!Observed(E) = ObservedIn(E)
BY SameRequest DEF Layered!Observed, ObservedIn

LEMMA DecidedMapped ==
  ASSUME NEW f
  PROVE  Layered!Decided(f) <=> AllFound(f)
BY DEF Layered!Decided, AllFound

LEMMA RunningMapped == Layered!Running <=> AbsRunning
BY DEF Layered!Running, Layered!Decided, AbsRunning, AllFound, AbsStatus, AbsLimited,
       AbsFrontier, AbsDepth

LEMMA StutterStep ==
  ASSUME AbsLimited' <=> AbsLimited, UNCHANGED <<req, absStore, AbsStatus>>
  PROVE  UNCHANGED Layered!vars
BY DEF Layered!vars, absStore, AbsVisited, AbsFrontier, AbsDepth, AbsLimited, AbsStatus

LEMMA FinishStep ==
  ASSUME AbsStatus = "running", AbsStatus' = "done", ~AbsRunning,
         AbsLimited' <=> AbsLimited, UNCHANGED <<req, absStore>>
  PROVE  Layered!Next
<1>1. Layered!Finish
  BY RunningMapped
     DEF Layered!Finish, absStore, AbsVisited, AbsFrontier, AbsDepth, AbsLimited, AbsStatus
<1>. QED  BY <1>1 DEF Layered!Next

LEMMA CutStep ==
  ASSUME AbsStatus = "running", ~AbsLimited, AbsLimited', Limited(req),
         UNCHANGED <<req, absStore, AbsStatus>>
  PROVE  Layered!Next
<1>1. Layered!Cut
  BY SameRequest
     DEF Layered!Cut, absStore, AbsVisited, AbsFrontier, AbsDepth, AbsLimited, AbsStatus
<1>. QED  BY <1>1 DEF Layered!Next

\* A cut within a layer.
LEMMA CutLayerStep ==
  ASSUME AbsRunning, AbsLimited', Limited(req), UNCHANGED <<req, AbsStatus>>,
         AbsDepth' = AbsDepth + 1,
         NEW S \in SUBSET (Succ(req, AbsFrontier) \ AbsVisited),
         AbsVisited' = AbsVisited \cup S, AbsFrontier' = S,
         NEW E \in SUBSET EdgesFrom(req, AbsFrontier), found' = ObservedIn(E)
  PROVE  Layered!Next
<1>1. Layered!Cut
  <2>1. Layered!Running
    BY RunningMapped
  <2>2. found' = Layered!Observed(E)
    BY ObservedMapped
  <2>. QED
    BY <2>1, <2>2, SameRequest
       DEF Layered!Cut, AbsRunning, AbsVisited, AbsFrontier, AbsDepth, AbsLimited, AbsStatus
<1>. QED  BY <1>1 DEF Layered!Next

LEMMA LayerStep ==
  ASSUME AbsRunning, found' = ObservedIn(EdgesFrom(req, AbsFrontier)), ~AllFound(found'),
         AbsVisited' = AbsVisited \cup Succ(req, AbsFrontier),
         AbsFrontier' = Succ(req, AbsFrontier) \ AbsVisited,
         AbsDepth' = AbsDepth + 1, AbsLimited' <=> AbsLimited, UNCHANGED <<req, AbsStatus>>
  PROVE  Layered!Next
<1>1. Layered!Layer
  <2>1. Layered!Running
    BY RunningMapped
  <2>2. found' = Layered!Observed(EdgesFrom(req, AbsFrontier)) /\ ~Layered!Decided(found')
    BY ObservedMapped, DecidedMapped
  <2>. QED
    BY <2>1, <2>2, SameRequest
       DEF Layered!Layer, AbsVisited, AbsFrontier, AbsDepth, AbsLimited, AbsStatus
<1>. QED  BY <1>1 DEF Layered!Next

LEMMA LastLayerStep ==
  ASSUME AbsRunning, found' = ObservedIn(EdgesFrom(req, AbsFrontier)), AllFound(found'),
         AbsFrontier' = {}, AbsDepth' = AbsDepth + 1,
         AbsLimited' <=> AbsLimited, UNCHANGED <<req, AbsVisited, AbsStatus>>
  PROVE  Layered!Next
<1>1. Layered!LastLayer
  <2>1. Layered!Running
    BY RunningMapped
  <2>2. found' = Layered!Observed(EdgesFrom(req, AbsFrontier)) /\ Layered!Decided(found')
    BY ObservedMapped, DecidedMapped
  <2>. QED
    BY <2>1, <2>2, SameRequest
       DEF Layered!LastLayer, AbsVisited, AbsFrontier, AbsDepth, AbsLimited, AbsStatus
<1>. QED  BY <1>1 DEF Layered!Next

-----------------------------------------------------------------------------
(* The steps of Search.                                                    *)

\* A layer is only expanded while the search may explore.
Working == pc = "expand" => MayExplore

LEMMA NextWorking == Working /\ [Next]_vars => Working'
<1>. SUFFICES ASSUME Working, [Next]_vars, pc' = "expand" PROVE MayExplore'
  BY DEF Working
<1>1. MayExplore /\ UNCHANGED <<req, frontier, depth, limit, found>>
  <2>1. CASE StartLayer
    BY <2>1 DEF StartLayer, input, store
  <2>2. ASSUME NEW c \in DOMAIN wpc, Worker(c)
        PROVE  MayExplore /\ UNCHANGED <<req, frontier, depth, limit, found>>
    <3>1. WorkerUnchanged /\ pc = "expand"
      BY <2>2 DEF Worker, Exhaust, Abandon, Apply, CountEdge, StopOnEdge, DropEdge, PushEdge,
                  CountCandidate
    <3>. QED  BY <3>1 DEF WorkerUnchanged, input, store, Working
  <2>3. CASE UNCHANGED vars
    BY <2>3 DEF vars, Working
  <2>4. ~StopAtBoundary /\ ~Observe /\ ~CloseLayer /\ ~Merge /\ ~Report
    BY DEF StopAtBoundary, Observe, CloseLayer, Merge, Report
  <2>. QED  BY <2>1, <2>2, <2>3, <2>4 DEF Next, Finished
<1>. QED  BY <1>1 DEF MayExplore, AllTerminal

LEMMA TerminalMapped == AllTerminal({}) <=> AllFound(found)
BY DEF AllTerminal, AllFound

\* Between two layers.
LEMMA BoundaryAbs ==
  ASSUME pc \in {"layer", "expand"}
  PROVE  /\ ~Merging /\ AbsVisited = visited /\ AbsFrontier = FrontierStates
         /\ AbsDepth = depth /\ (AbsLimited <=> limit # {}) /\ AbsStatus = "running"
         /\ AbsRunning <=> MayExplore
<1>1. /\ ~Merging /\ AbsVisited = visited /\ AbsFrontier = FrontierStates
      /\ AbsDepth = depth /\ (AbsLimited <=> limit # {}) /\ AbsStatus = "running"
  BY DEF Merging, AbsVisited, AbsFrontier, AbsDepth, AbsLimited, AbsStatus
<1>2. FrontierStates # {} <=> frontier # {}
  BY DEF FrontierStates
<1>. QED  BY <1>1, <1>2, TerminalMapped DEF AbsRunning, MayExplore

\* The edges of a layer are observed: the layer happens, whole or cut.
LEMMA ObserveStep ==
  ASSUME Budgeted, Working, Observe
  PROVE  Layered!Next
<1>1. /\ pc = "expand" /\ pc' = "merge" /\ MayExplore /\ Typed
      /\ UNCHANGED <<req, visited, frontier, depth, edges>>
      /\ found' = [p \in req.steps |-> IF found[p] # {} THEN found[p] ELSE FirstBad(p, Observed)]
  BY DEF Observe, Recorded, input, work, Working, Budgeted
<1>2. /\ AbsVisited = visited /\ AbsFrontier = FrontierStates /\ AbsDepth = depth
      /\ ~AbsLimited /\ AbsStatus = "running" /\ AbsRunning
  BY <1>1, BoundaryAbs DEF MayExplore
<1>3. AbsDepth' = AbsDepth + 1 /\ AbsStatus' = "running" /\ FrontierStates' = FrontierStates
  BY <1>1, <1>2 DEF AbsDepth, AbsStatus, FrontierStates
<1>4. AllTerminal({})' <=> AllFound(found')
  BY <1>1 DEF AllTerminal, AllFound
<1>5. CASE limit' # {}
  <2>. DEFINE E == {EdgeOf(i) : i \in Observed}
  <2>1. E \in SUBSET EdgesFrom(req, AbsFrontier)
    <3>1. Observed \subseteq edges
      BY DEF Observed
    <3>. QED  BY <1>1, <1>2, <3>1, EdgeTypes
  <2>2. found' = ObservedIn(E)
    BY <1>1 DEF ObservedIn, FirstBad
  <2>3. /\ AbsVisited' = AbsVisited \cup {} /\ AbsFrontier' = {} /\ AbsLimited'
    BY <1>1, <1>2, <1>5 DEF AbsVisited, AbsFrontier, AbsLimited, Merging
  <2>4. Limited(req)
    BY <1>1, <1>5, ObserveLimit
  <2>5. {} \in SUBSET (Succ(req, AbsFrontier) \ AbsVisited)
    OBVIOUS
  <2>. HIDE DEF E
  <2>. QED  BY <1>1, <1>2, <1>3, <2>1, <2>2, <2>3, <2>4, <2>5, CutLayerStep
<1>6. CASE limit' = {} /\ AllFound(found')
  <2>1. BudgetLimit = {}
    BY <1>6 DEF Observe
  <2>2. ASSUME NEW p \in req.steps, found[p] = {}
        PROVE  FirstBad(p, Observed) = First(EdgesFrom(req, FrontierStates) \cap req.stepBad[p])
    <3>1. FirstBad(p, Observed) # {}
      BY <1>1, <1>6, <2>2 DEF AllFound
    <3>. QED  BY <2>1, <3>1, FirstOfLayer
  <2>3. found' = ObservedIn(EdgesFrom(req, AbsFrontier))
    BY <1>1, <1>2, <2>2 DEF ObservedIn
  <2>4. AbsVisited' = AbsVisited /\ AbsFrontier' = {} /\ ~AbsLimited'
    BY <1>1, <1>2, <1>4, <1>6 DEF AbsVisited, AbsFrontier, AbsLimited, Merging
  <2>. QED  BY <1>1, <1>2, <1>3, <1>6, <2>3, <2>4, LastLayerStep
<1>7. CASE limit' = {} /\ ~AllFound(found')
  <2>1. BudgetLimit = {} /\ (Halting = {} \/ AllTerminal(Observed))
    BY <1>7 DEF Observe
  <2>2. ~AllTerminal(Observed)
    <3>1. SUFFICES ASSUME AllTerminal(Observed) PROVE AllFound(found')
      BY <1>7
    <3>2. Observed \subseteq edges
      BY DEF Observed
    <3>3. ASSUME NEW p \in req.steps
          PROVE  found'[p] # {}
      BY <1>1, <3>1, <3>2, FirstBadExists DEF AllTerminal
    <3>. QED  BY <3>1, <3>3 DEF AllTerminal, AllFound
  <2>3. Observed = edges
    BY <2>1, <2>2 DEF Observed
  <2>4. found' = ObservedIn(EdgesFrom(req, AbsFrontier))
    <3>1. ASSUME NEW p \in req.steps
          PROVE  FirstBad(p, Observed) = First(EdgesFrom(req, FrontierStates) \cap req.stepBad[p])
      BY <2>1, <2>3, FirstOfLayer
    <3>. QED  BY <1>1, <1>2, <3>1 DEF ObservedIn
  <2>5. Merging'
    BY <1>1, <1>4, <1>7 DEF Merging
  <2>6. NewStates' = Succ(req, AbsFrontier) \ AbsVisited
    <3>1. {Post(i) : i \in edges}' = {Post(i) : i \in edges}
      BY <1>1 DEF Post, Posts
    <3>. QED  BY <1>1, <1>2, <2>1, <3>1, LayerEdges DEF NewStates
  <2>7. /\ AbsVisited' = AbsVisited \cup Inserted' /\ AbsFrontier' = Inserted'
        /\ AbsLimited' <=> Inserted' # NewStates'
    BY <1>1, <1>2, <1>7, <2>5 DEF AbsVisited, AbsFrontier, AbsLimited
  <2>8. CASE Inserted' = NewStates'
    <3>1. AbsVisited' = AbsVisited \cup Succ(req, AbsFrontier)
      BY <2>6, <2>7, <2>8
    <3>. QED  BY <1>1, <1>2, <1>3, <1>7, <2>4, <2>6, <2>7, <2>8, <3>1, LayerStep
  <2>9. CASE Inserted' # NewStates'
    <3>1. Inserted' \subseteq NewStates'
      BY DEF Inserted
    <3>2. PICK s \in NewStates' : LimitExceeded(States + Rank(s), edgeCount, Rank(s))'
      BY <2>9 DEF Inserted
    <3>3. Limited(req)
      BY <1>1, <3>2 DEF LimitExceeded, Over, Limited
    <3>4. PICK E \in SUBSET EdgesFrom(req, AbsFrontier) : found' = ObservedIn(E)
      BY <2>4
    <3>5. PICK S \in SUBSET (Succ(req, AbsFrontier) \ AbsVisited) : S = Inserted'
      BY <2>6, <3>1
    <3>6. AbsVisited' = AbsVisited \cup S /\ AbsFrontier' = S /\ AbsLimited'
      BY <2>7, <2>9, <3>5
    <3>. QED  BY <1>1, <1>2, <1>3, <3>3, <3>4, <3>5, <3>6, CutLayerStep
  <2>. QED  BY <2>8, <2>9
<1>. QED  BY <1>5, <1>6, <1>7

\* A limit found at a layer boundary is a cut of the layered search.
LEMMA BoundaryLimit ==
  ASSUME NEW a, NEW b, NEW c, NEW l \in BoundaryLimits(a, b, c), l # {}
  PROVE  Limited(req)
<1>1. CASE LimitExceeded(a, b, c)
  BY <1>1, ExceededIsConfigured
<1>2. CASE ~LimitExceeded(a, b, c)
  BY <1>2 DEF BoundaryLimits, Limited
<1>. QED  BY <1>1, <1>2

\* After a step back to the layer loop that kept the mapped variables: the limit
\* found there, if any, is a cut, and otherwise nothing has happened.
LEMMA BackToLayer ==
  ASSUME AbsStatus = "running", AbsStatus' = "running", UNCHANGED <<req, absStore>>,
         AbsLimited => AbsLimited', AbsLimited' /\ ~AbsLimited => Limited(req)
  PROVE  [Layered!Next]_Layered!vars
<1>1. CASE AbsLimited' <=> AbsLimited
  BY <1>1, StutterStep
<1>2. CASE AbsLimited' /\ ~AbsLimited
  BY <1>2, CutStep
<1>. QED  BY <1>1, <1>2

LEMMA CloseLayerStep ==
  ASSUME CloseLayer
  PROVE  [Layered!Next]_Layered!vars
<1>1. /\ pc = "merge" /\ pc' = "layer" /\ frontier' = {} /\ depth' = depth + 1
      /\ UNCHANGED <<req, visited, found>> /\ ~Merging /\ ~Merging'
      /\ limit # {} => limit' = limit
      /\ limit = {} => limit' \in BoundaryLimits(States, edgeCount, 0)
  BY DEF CloseLayer, Merging, input
<1>2. /\ AbsStatus = "running" /\ AbsStatus' = "running" /\ UNCHANGED absStore
      /\ (AbsLimited <=> limit # {}) /\ (AbsLimited' <=> limit' # {})
  BY <1>1 DEF AbsStatus, absStore, AbsVisited, AbsFrontier, AbsDepth, AbsLimited, FrontierStates
<1>. QED  BY <1>1, <1>2, BoundaryLimit, BackToLayer

LEMMA MergeStep ==
  ASSUME Merge
  PROVE  [Layered!Next]_Layered!vars
<1>1. /\ pc = "merge" /\ pc' = "layer" /\ visited' = visited \cup Inserted
      /\ frontier' = {<<s, 1>> : s \in Inserted} /\ depth' = depth + 1
      /\ UNCHANGED <<req, found>> /\ Merging /\ ~Merging' /\ limit = {}
      /\ Inserted # NewStates => limit' # {}
      /\ Inserted = NewStates =>
           limit' \in BoundaryLimits(States + Cardinality(Inserted), edgeCount,
                                     Cardinality(Inserted))
  BY DEF Merge, Merging, input
<1>2. FrontierStates' = Inserted
  <2>1. \A s \in Inserted : <<s, 1>> \in frontier' /\ <<s, 1>>[1] = s
    BY <1>1
  <2>2. \A e \in frontier' : e[1] \in Inserted
    BY <1>1
  <2>. QED  BY <2>1, <2>2 DEF FrontierStates
<1>3. /\ AbsStatus = "running" /\ AbsStatus' = "running" /\ UNCHANGED absStore
      /\ (AbsLimited <=> Inserted # NewStates) /\ (AbsLimited' <=> limit' # {})
  BY <1>1, <1>2 DEF AbsStatus, absStore, AbsVisited, AbsFrontier, AbsDepth, AbsLimited
<1>. QED  BY <1>1, <1>3, BoundaryLimit, BackToLayer

LEMMA ReportStep ==
  ASSUME Report
  PROVE  Layered!Next
<1>1. /\ pc = "layer" /\ pc' = "done" /\ ~MayExplore
      /\ UNCHANGED <<req, visited, frontier, depth, found, limit>> /\ ~Merging'
  BY DEF Report, Merging, input, store
<1>2. /\ ~AbsRunning /\ ~Merging /\ AbsStatus = "running" /\ (AbsLimited <=> limit # {})
      /\ AbsVisited = visited /\ AbsFrontier = FrontierStates /\ AbsDepth = depth
  BY <1>1, BoundaryAbs
<1>3. AbsStatus' = "done" /\ UNCHANGED absStore /\ (AbsLimited' <=> AbsLimited)
  BY <1>1, <1>2 DEF AbsStatus, absStore, AbsVisited, AbsFrontier, AbsDepth, AbsLimited,
                    FrontierStates
<1>. QED  BY <1>1, <1>2, <1>3, FinishStep

\* Starting a layer and the steps of its workers are invisible to LayeredBFS.
LEMMA InvisibleStep ==
  ASSUME pc \in {"layer", "expand"}, pc' \in {"layer", "expand"},
         UNCHANGED <<req, visited, frontier, depth, found, limit>>
  PROVE  UNCHANGED Layered!vars
<1>1. /\ ~Merging /\ ~Merging' /\ FrontierStates' = FrontierStates
  BY DEF Merging, FrontierStates
<1>2. UNCHANGED <<absStore, AbsStatus>> /\ (AbsLimited' <=> AbsLimited)
  BY <1>1 DEF AbsStatus, absStore, AbsVisited, AbsFrontier, AbsDepth, AbsLimited
<1>. QED  BY <1>2, StutterStep

LEMMA StopStep ==
  ASSUME StopAtBoundary
  PROVE  [Layered!Next]_Layered!vars
<1>1. /\ pc = "layer" /\ pc' = "layer" /\ limit = {} /\ limit' # {}
      /\ limit' \in BoundaryLimits(States, edgeCount, Cardinality(frontier))
      /\ UNCHANGED <<req, visited, frontier, depth, found>>
  BY DEF StopAtBoundary, MayExplore, input, store
<1>2. /\ ~Merging /\ ~Merging' /\ FrontierStates' = FrontierStates
  BY <1>1 DEF Merging, FrontierStates
<1>3. /\ AbsStatus = "running" /\ AbsStatus' = "running" /\ UNCHANGED absStore
      /\ ~AbsLimited /\ AbsLimited'
  BY <1>1, <1>2 DEF AbsStatus, absStore, AbsVisited, AbsFrontier, AbsDepth, AbsLimited
<1>. QED  BY <1>1, <1>3, BoundaryLimit, BackToLayer

LEMMA NextRefines ==
  ASSUME Budgeted, Working, [Next]_vars
  PROVE  [Layered!Next]_Layered!vars
<1>1. CASE StartLayer
  BY <1>1, InvisibleStep DEF StartLayer, input, store
<1>2. ASSUME NEW c \in DOMAIN wpc, Worker(c)
      PROVE  UNCHANGED Layered!vars
  <2>1. WorkerUnchanged /\ pc = "expand"
    BY <1>2 DEF Worker, Exhaust, Abandon, Apply, CountEdge, StopOnEdge, DropEdge, PushEdge,
                CountCandidate
  <2>. QED  BY <2>1, InvisibleStep DEF WorkerUnchanged, input, store
<1>3. CASE UNCHANGED vars
  <2>1. UNCHANGED <<req, absStore, AbsStatus>> /\ (AbsLimited' <=> AbsLimited)
    BY <1>3 DEF vars, absStore, AbsVisited, AbsFrontier, AbsDepth, AbsLimited, AbsStatus,
                Merging, AllTerminal, Inserted, NewStates, Rank, MergeLess, LimitExceeded,
                States, FrontierStates, Post, Posts
  <2>. QED  BY <2>1, StutterStep
<1>. QED  BY <1>1, <1>2, <1>3, StopStep, ObserveStep, CloseLayerStep, MergeStep, ReportStep
          DEF Next, Finished

LEMMA InitRefines == Init => Layered!Init
<1>. SUFFICES ASSUME Init PROVE Layered!Init
  OBVIOUS
<1>1. FrontierStates = visited /\ pc = "layer" /\ limit = {}
  BY SeedFrontier DEF Init
<1>2. ~Merging
  BY <1>1 DEF Merging
<1>. QED  BY <1>1, <1>2, SameRequest DEF Layered!Init, Init

\* The parallel search implements the sequential layered search: workers, budget,
\* chunking and merge order change nothing but the point where a limit cuts it.
THEOREM Refinement == Spec => ImplementsLayeredBFS
<1>1. Init => Working
  BY DEF Init, Working
<1>2. Budgeted /\ Working /\ [Next]_vars => Budgeted' /\ Working' /\ [Layered!Next]_Layered!vars
  BY NextBudgeted, NextWorking, NextRefines
<1>. QED
  BY <1>1, <1>2, InitBudgeted, InitRefines, PTL DEF Spec, ImplementsLayeredBFS, Layered!Spec

(***************************************************************************)
(* Distances. A layer is a sphere around the initial states: what was      *)
(* visited before it are the states that are nearer. So a search that no   *)
(* limit but the depth ended has visited every state within the bound, and *)
(* the trace to a violation, which runs backwards through the layers, is   *)
(* as short as a path to a violation can be.                               *)
(***************************************************************************)

-----------------------------------------------------------------------------
(* Numbers.                                                                *)

LEMMA LeastOf ==
  ASSUME NEW n \in Nat, NEW I, I \subseteq 0..n, I # {}
  PROVE  \E i \in I : \A j \in I : i <= j
<1>. DEFINE V == 0..n
            T == {0..i : i \in I}
<1>1. IsFiniteSet(V)
  BY FS_Interval
<1>2. \A i \in I : 0..i \in FiniteSubsetsOf(V)
  <2>. SUFFICES ASSUME NEW i \in I PROVE 0..i \in FiniteSubsetsOf(V)
    OBVIOUS
  <2>1. 0..i \subseteq V
    OBVIOUS
  <2>. QED  BY <1>1, <2>1, FS_Subset DEF FiniteSubsetsOf
<1>3. T # {} /\ T \subseteq FiniteSubsetsOf(V)
  BY <1>2
<1>4. PICK D \in T : \A F \in T : <<F, D>> \notin StrictSubsetOrdering(V)
  <2>. HIDE DEF T
  <2>. QED  BY <1>1, <1>3, FS_StrictSubsetOrderingWellFounded, WFMin
<1>5. PICK i \in I : D = 0..i
  BY <1>4
<1>6. ASSUME NEW j \in I, j < i PROVE FALSE
  <2>1. i \in 0..n /\ j \in 0..n
    OBVIOUS
  <2>2. 0..j \subseteq 0..i /\ i \in 0..i /\ i \notin 0..j
    BY <1>6, <2>1
  <2>3. <<0..j, 0..i>> \in StrictSubsetOrdering(V)
    BY <1>2, <2>2 DEF StrictSubsetOrdering, FiniteSubsetsOf
  <2>. QED  BY <1>4, <1>5, <2>3
<1>7. \A j \in I : i \in Int /\ j \in Int
  OBVIOUS
<1>. QED  BY <1>6, <1>7

\* A set that contains 0 and, with a number below n, the next one contains all up to n.
LEMMA UpTo ==
  ASSUME NEW n \in Nat, NEW J, 0 \in J, \A j \in 1..n : j - 1 \in J => j \in J
  PROVE  0..n \subseteq J
<1>. DEFINE I == (0..n) \ J
<1>. SUFFICES ASSUME I # {} PROVE FALSE
  OBVIOUS
<1>1. PICK i \in I : \A j \in I : i <= j
  <2>. HIDE DEF I
  <2>1. I \subseteq 0..n
    BY DEF I
  <2>. QED  BY <2>1, LeastOf
<1>2. i \in 1..n /\ i - 1 \in 0..n /\ ~(i <= i - 1)
  OBVIOUS
<1>3. i - 1 \in J
  BY <1>1, <1>2
<1>. QED  BY <1>2, <1>3

-----------------------------------------------------------------------------
(* Distances in the graph of a request.                                    *)

Level(r, g, k) == IF k = 0 THEN SeedStates(r) ELSE g[k - 1] \cup Succ(r, g[k - 1])

Levels(r, n, g) == g = [k \in 0..n |-> Level(r, g, k)]

\* The function that Within is defined with exists.
LEMMA LevelsExist ==
  ASSUME NEW r, NEW n \in Nat
  PROVE  \E g : Levels(r, n, g)
<1>. DEFINE J == {j \in 0..n : \E g : Levels(r, j, g)}
<1>1. 0 \in J
  <2>. DEFINE g == [k \in 0..0 |-> SeedStates(r)]
  <2>1. \A k \in 0..0 : Level(r, g, k) = SeedStates(r)
    BY DEF Level
  <2>2. Levels(r, 0, g)
    BY <2>1 DEF Levels
  <2>. QED  BY <2>2
<1>2. ASSUME NEW j \in 1..n, j - 1 \in J
      PROVE  j \in J
  <2>1. PICK g : Levels(r, j - 1, g)
    BY <1>2
  <2>. DEFINE h == [k \in 0..j |-> IF k = j THEN Level(r, g, j) ELSE g[k]]
  <2>2. ASSUME NEW k \in 0..j
        PROVE  h[k] = Level(r, h, k)
    <3>1. k # 0 => k - 1 \in 0..j /\ k - 1 # j
      OBVIOUS
    <3>2. k # 0 => h[k - 1] = g[k - 1]
      BY <3>1
    <3>3. Level(r, h, k) = Level(r, g, k)
      BY <3>2 DEF Level
    <3>4. CASE k = j
      BY <3>3, <3>4
    <3>5. CASE k # j
      <4>1. k \in 0..(j - 1)
        BY <3>5
      <4>. QED  BY <2>1, <3>3, <3>5, <4>1 DEF Levels
    <3>. QED  BY <3>4, <3>5
  <2>3. h = [k \in 0..j |-> h[k]]
    OBVIOUS
  <2>. HIDE DEF h
  <2>4. Levels(r, j, h)
    BY <2>2, <2>3 DEF Levels
  <2>. QED  BY <2>4
<1>3. 0..n \subseteq J
  <2>. HIDE DEF J
  <2>. QED  BY <1>1, <1>2, UpTo
<1>. QED  BY <1>3

\* What Within computes, level by level.
LEMMA WithinLevels ==
  ASSUME NEW r
  PROVE  LET N == Cardinality(State)
             W == Within(r)
         IN  /\ N \in Nat /\ DOMAIN W = 0..N
             /\ W[0] = SeedStates(r)
             /\ \A n \in 1..N : W[n] = W[n - 1] \cup Succ(r, W[n - 1])
<1>. DEFINE N == Cardinality(State)
            W == CHOOSE g : Levels(r, N, g)
<1>1. N \in Nat
  BY StateAssumption, FS_CardinalityType
<1>2. Within(r) = W
  BY DEF Within, Levels, Level
<1>3. Levels(r, N, W)
  BY <1>1, LevelsExist
<1>. HIDE DEF W
<1>4. DOMAIN W = 0..N /\ \A n \in 0..N : W[n] = Level(r, W, n)
  BY <1>3 DEF Levels
<1>5. 0 \in 0..N /\ \A n \in 1..N : n \in 0..N /\ n # 0
  BY <1>1
<1>. QED  BY <1>1, <1>2, <1>4, <1>5 DEF Level

\* A level holds states only, the seeds among them, and the levels below.
LEMMA LevelTypes ==
  ASSUME NEW r \in Requests, NEW n \in 0..Cardinality(State)
  PROVE  /\ Within(r)[n] \subseteq State /\ SeedStates(r) \subseteq Within(r)[n]
         /\ Within(r)[n] \subseteq Reachable(r)
<1>. DEFINE N == Cardinality(State)
            W == Within(r)
            J == {k \in 0..N : SeedStates(r) \subseteq W[k] /\ W[k] \subseteq Reachable(r)}
<1>1. /\ N \in Nat /\ W[0] = SeedStates(r)
      /\ \A k \in 1..N : W[k] = W[k - 1] \cup Succ(r, W[k - 1])
  BY WithinLevels
<1>. HIDE DEF N, W
<1>2. 0 \in J
  BY <1>1, ReachableClosed
<1>3. ASSUME NEW k \in 1..N, k - 1 \in J
      PROVE  k \in J
  BY <1>1, <1>3, ReachableClosed
<1>4. 0..N \subseteq J
  <2>. HIDE DEF J
  <2>. QED  BY <1>1, <1>2, <1>3, UpTo
<1>5. Reachable(r) \subseteq State
  BY DEF Reachable
<1>. QED  BY <1>4, <1>5 DEF N, W

\* As many levels as there are states reach every reachable state: a level that adds
\* nothing is closed, and the others add a state each.
LEMMA LevelsReachAll ==
  ASSUME NEW r \in Requests, NEW s \in Reachable(r)
  PROVE  \E n \in 0..Cardinality(State) : s \in Within(r)[n]
<1>. DEFINE N == Cardinality(State)
            W == Within(r)
<1>1. /\ N \in Nat /\ W[0] = SeedStates(r)
      /\ \A k \in 1..N : W[k] = W[k - 1] \cup Succ(r, W[k - 1])
  BY WithinLevels
<1>2. \A k \in 0..N : W[k] \subseteq State /\ SeedStates(r) \subseteq W[k]
  BY LevelTypes
<1>. HIDE DEF N, W
<1>3. ASSUME NEW k \in 0..N, Succ(r, W[k]) \subseteq W[k]
      PROVE  s \in W[k]
  BY <1>2, <1>3, ReachableLeast
<1>4. ASSUME \A k \in 0..N : ~(Succ(r, W[k]) \subseteq W[k])
      PROVE  FALSE
  <2>. DEFINE J == {k \in 0..N : Cardinality(W[k]) >= k}
  <2>1. \A k \in 0..N : IsFiniteSet(W[k]) /\ Cardinality(W[k]) \in Nat
    BY <1>2, StateAssumption, FS_Subset, FS_CardinalityType
  <2>2. 0 \in J
    BY <1>1, <2>1
  <2>3. ASSUME NEW k \in 1..N, k - 1 \in J
        PROVE  k \in J
    <3>1. k - 1 \in 0..N /\ k \in 0..N /\ k \in Nat
      BY <1>1
    <3>2. W[k - 1] \subseteq W[k] /\ W[k - 1] # W[k]
      BY <1>1, <1>4, <3>1
    <3>3. Cardinality(W[k - 1]) < Cardinality(W[k])
      BY <2>1, <3>1, <3>2, FS_Subset
    <3>4. Cardinality(W[k - 1]) >= k - 1
      BY <2>3
    <3>5. Cardinality(W[k]) \in Nat /\ Cardinality(W[k - 1]) \in Nat
      BY <2>1, <3>1
    <3>6. Cardinality(W[k]) >= k
      BY <3>1, <3>3, <3>4, <3>5
    <3>. QED  BY <3>1, <3>6
  <2>4. N \in J
    <3>1. 0..N \subseteq J
      <4>. HIDE DEF J
      <4>. QED  BY <1>1, <2>2, <2>3, UpTo
    <3>. QED  BY <1>1, <3>1
  <2>5. W[N] = State
    <3>1. N \in 0..N
      BY <1>1
    <3>2. Cardinality(W[N]) >= Cardinality(State) /\ W[N] \subseteq State
      BY <1>2, <2>4, <3>1 DEF N
    <3>. QED  BY <2>1, <3>1, <3>2, StateAssumption, FS_Subset, FS_CardinalityType
  <2>6. Succ(r, W[N]) \subseteq State
    BY DEF Succ, EdgesFrom
  <2>7. N \in 0..N
    BY <1>1
  <2>. QED  BY <1>4, <2>5, <2>6, <2>7
<1>. QED  BY <1>3, <1>4 DEF N, W

\* The distance of a reachable state is the first level that it is on.
LEMMA DistanceLevel ==
  ASSUME NEW r \in Requests, NEW s \in Reachable(r)
  PROVE  /\ Distance(r, s) \in 0..Cardinality(State)
         /\ s \in Within(r)[Distance(r, s)]
         /\ \A m \in 0..Cardinality(State) : m < Distance(r, s) => s \notin Within(r)[m]
<1>. DEFINE N == Cardinality(State)
            W == Within(r)
            I == {n \in 0..N : s \in W[n]}
<1>1. N \in Nat /\ DOMAIN W = 0..N
  BY WithinLevels
<1>2. I # {}
  BY LevelsReachAll
<1>3. PICK i \in I : \A j \in I : i <= j
  <2>1. I \subseteq 0..N
    OBVIOUS
  <2>. HIDE DEF I, N
  <2>. QED  BY <1>1, <1>2, <2>1, LeastOf
<1>. HIDE DEF N
<1>4. i \in 0..N /\ s \in W[i] /\ \A m \in 0..N : m < i => s \notin W[m]
  BY <1>1, <1>3
<1>5. Distance(r, s) = CHOOSE n \in 0..N : s \in W[n] /\ \A m \in 0..N : m < n => s \notin W[m]
  BY <1>1 DEF Distance
<1>. HIDE DEF W, I
<1>6. /\ Distance(r, s) \in 0..N /\ s \in W[Distance(r, s)]
      /\ \A m \in 0..N : m < Distance(r, s) => s \notin W[m]
  BY <1>4, <1>5
<1>. QED  BY <1>6 DEF N, W

\* Seeds are at distance 0, and no other reachable states are.
LEMMA DistanceOfSeeds ==
  ASSUME NEW r \in Requests, NEW s \in Reachable(r)
  PROVE  Distance(r, s) \in Nat /\ (Distance(r, s) = 0 <=> s \in SeedStates(r))
<1>1. /\ Cardinality(State) \in Nat /\ Within(r)[0] = SeedStates(r)
      /\ 0 \in 0..Cardinality(State)
  BY WithinLevels
<1>. QED  BY <1>1, DistanceLevel

\* An edge leads one step further at most.
LEMMA DistanceOfSucc ==
  ASSUME NEW r \in Requests, NEW e \in EdgesFrom(r, Reachable(r))
  PROVE  /\ e[1] \in Reachable(r) /\ e[3] \in Reachable(r)
         /\ Distance(r, e[3]) <= Distance(r, e[1]) + 1
<1>. DEFINE N == Cardinality(State)
            W == Within(r)
            n == Distance(r, e[1])
<1>1. e[1] \in Reachable(r) /\ e[3] \in Succ(r, Reachable(r))
  BY DEF EdgesFrom, Succ
<1>2. e[3] \in Reachable(r)
  BY <1>1, ReachableClosed
<1>3. N \in Nat /\ n \in 0..N /\ e[1] \in W[n]
  BY <1>1, WithinLevels, DistanceLevel
<1>4. Distance(r, e[3]) \in 0..N /\ \A m \in 0..N : m < Distance(r, e[3]) => e[3] \notin W[m]
  BY <1>2, DistanceLevel
<1>. HIDE DEF N, n
<1>5. CASE n = N
  BY <1>1, <1>2, <1>3, <1>4, <1>5 DEF n
<1>6. CASE n # N
  <2>1. n + 1 \in 1..N /\ n + 1 \in 0..N /\ (n + 1) - 1 = n
    BY <1>3, <1>6
  <2>2. W[n + 1] = W[n] \cup Succ(r, W[n])
    BY <2>1, WithinLevels DEF N
  <2>3. e[3] \in Succ(r, W[n])
    BY <1>3 DEF EdgesFrom, Succ
  <2>4. ~(n + 1 < Distance(r, e[3]))
    BY <1>4, <2>1, <2>2, <2>3
  <2>. QED  BY <1>1, <1>2, <1>3, <1>4, <2>4 DEF n
<1>. QED  BY <1>5, <1>6

\* A state that is not a seed has a predecessor one step nearer.
LEMMA DistanceOfPred ==
  ASSUME NEW r \in Requests, NEW s \in Reachable(r), s \notin SeedStates(r)
  PROVE  \E e \in EdgesFrom(r, Reachable(r)) :
           e[3] = s /\ Distance(r, e[1]) + 1 = Distance(r, s)
<1>. DEFINE N == Cardinality(State)
            W == Within(r)
            n == Distance(r, s)
<1>1. /\ N \in Nat /\ n \in 0..N /\ s \in W[n]
      /\ \A m \in 0..N : m < n => s \notin W[m]
  BY WithinLevels, DistanceLevel
<1>2. n # 0
  BY DistanceOfSeeds
<1>. HIDE DEF N, n
<1>3. n \in 1..N /\ n - 1 \in 0..N /\ n - 1 < n
  BY <1>1, <1>2
<1>4. s \in Succ(r, W[n - 1])
  BY <1>1, <1>3, WithinLevels DEF N
<1>5. PICK e \in EdgesFrom(r, W[n - 1]) : e[3] = s
  BY <1>4 DEF Succ
<1>6. W[n - 1] \subseteq Reachable(r)
  BY <1>3, LevelTypes DEF N
<1>7. e \in EdgesFrom(r, Reachable(r)) /\ e[1] \in W[n - 1] /\ e[1] \in Reachable(r)
  BY <1>6, EdgesMonotone DEF EdgesFrom
<1>8. Distance(r, s) <= Distance(r, e[1]) + 1
  BY <1>5, <1>7, DistanceOfSucc
<1>9. Distance(r, e[1]) \in 0..N /\ ~(n - 1 < Distance(r, e[1]))
  BY <1>3, <1>7, DistanceLevel DEF N
<1>10. Distance(r, e[1]) + 1 = n
  BY <1>1, <1>3, <1>8, <1>9 DEF n
<1>. QED  BY <1>5, <1>7, <1>10 DEF n

-----------------------------------------------------------------------------
(* The layers of the search are the levels of the graph.                   *)

\* While the search goes on it has visited the states up to its depth, and the
\* frontier is what is at that depth.
OnLevel ==
  Exploring => \A s \in Reachable(req) :
    /\ s \in visited <=> Distance(req, s) <= depth
    /\ s \in FrontierStates <=> Distance(req, s) = depth

\* A parent is one step nearer to the seeds, and the child is a post of it.
Parented ==
  \A s \in visited :
    /\ s \notin DOMAIN parent => Distance(req, s) = 0
    /\ s \in DOMAIN parent =>
         /\ Distance(req, s) = 1 + Distance(req, parent[s][1])
         /\ <<parent[s][1], parent[s][2], s>> \in EdgesFrom(req, visited)

\* No violating edge is nearer than the one that was recorded.
FoundNearest ==
  \A p \in req.steps : \A e \in found[p] :
    \A f \in EdgesFrom(req, Reachable(req)) \cap req.stepBad[p] :
      Distance(req, e[1]) <= Distance(req, f[1])

Nearest == Correct /\ OnLevel /\ Parented /\ FoundNearest

LEMMA CorrectTypes ==
  ASSUME Correct
  PROVE  /\ Typed /\ req \in Requests /\ frontier \subseteq State \X Nat /\ depth \in Nat
         /\ visited \subseteq Reachable(req) /\ FrontierStates \subseteq visited
         /\ \A s \in Reachable(req) : Distance(req, s) \in Nat
<1>1. /\ Typed /\ req \in Requests /\ frontier \subseteq State \X Nat /\ depth \in Nat
      /\ visited \subseteq Reachable(req) /\ FrontierStates \subseteq visited
  BY DEF Correct, Sound, Budgeted, Typed, TypeOK, Judged
<1>. QED  BY <1>1, DistanceOfSeeds

\* Items have a generation order, so a set of edges has a first one.
LEMMA FirstItem ==
  ASSUME Typed, pc \in {"expand", "merge"}, NEW E \in SUBSET edges, E # {}
  PROVE  \E i \in E : \A j \in E : j = i \/ ItemLess(i, j)
<1>. DEFINE Before(i) == {j \in E : ItemLess(j, i)}
            T == {Before(i) : i \in E}
<1>1. IsFiniteSet(E)
  BY FS_Subset DEF Typed
<1>2. \A i \in E : /\ i = <<i[1], i[2], i[3], i[4]>>
                   /\ i[1] \in Nat /\ i[2] \in Nat /\ i[3] \in Nat /\ i[4] \in Nat
  <2>. SUFFICES ASSUME NEW i \in E
                PROVE  /\ i = <<i[1], i[2], i[3], i[4]>>
                       /\ i[1] \in Nat /\ i[2] \in Nat /\ i[3] \in Nat /\ i[4] \in Nat
    OBVIOUS
  <2>1. i \in Items(frontier) /\ req \in Requests /\ frontier \subseteq State \X Nat
    BY DEF Typed, TypeOK
  <2>. QED  BY <2>1, ItemTypes, StateAssumption, TransitionAssumption
<1>3. \A i, j \in E : j = i \/ ItemLess(i, j) \/ ItemLess(j, i)
  BY <1>2 DEF ItemLess, EntryLess, Entry
<1>4. /\ \A i \in E : ~ItemLess(i, i)
      /\ \A i, j, k \in E : ItemLess(i, j) /\ ItemLess(j, k) => ItemLess(i, k)
  BY <1>2 DEF ItemLess, EntryLess, Entry
<1>5. T # {} /\ T \subseteq FiniteSubsetsOf(E)
  <2>1. ASSUME NEW i \in E
        PROVE  Before(i) \in FiniteSubsetsOf(E)
    <3>1. Before(i) \subseteq E
      OBVIOUS
    <3>. HIDE DEF Before
    <3>. QED  BY <1>1, <3>1, FS_Subset DEF FiniteSubsetsOf
  <2>. QED  BY <2>1
<1>6. PICK D \in T : \A F \in T : <<F, D>> \notin StrictSubsetOrdering(E)
  <2>. HIDE DEF T
  <2>. QED  BY <1>1, <1>5, FS_StrictSubsetOrderingWellFounded, WFMin
<1>7. PICK i \in E : D = Before(i)
  BY <1>6
<1>8. ASSUME NEW j \in E, ItemLess(j, i)
      PROVE  FALSE
  <2>1. Before(j) \subseteq Before(i) /\ j \in Before(i) /\ j \notin Before(j)
    BY <1>4, <1>8
  <2>2. <<Before(j), Before(i)>> \in StrictSubsetOrdering(E)
    BY <2>1 DEF StrictSubsetOrdering
  <2>. QED  BY <1>6, <1>7, <2>2
<1>. QED  BY <1>3, <1>8

\* An inserted state becomes the child of a frontier state that leads to it.
LEMMA OriginLeadsTo ==
  ASSUME Typed, pc = "merge", NEW s \in NewStates
  PROVE  /\ <<Origin(s)[1], Origin(s)[2], s>> \in EdgesFrom(req, FrontierStates)
         /\ Origin(s)[1] \in FrontierStates
<1>. DEFINE into == {i \in edges : Post(i) = s}
            first == CHOOSE i \in into : \A j \in into : j = i \/ ItemLess(i, j)
<1>1. into \subseteq edges /\ into # {}
  BY DEF NewStates
<1>2. first \in into
  <2>. HIDE DEF into
  <2>1. \E i \in into : \A j \in into : j = i \/ ItemLess(i, j)
    BY <1>1, FirstItem
  <2>. QED  BY <2>1
<1>3. first \in Items(frontier) /\ IsEdge(first) /\ Post(first) = s
  BY <1>2 DEF Typed, TypeOK
<1>4. /\ EdgeOf(first) \in EdgesFrom(req, FrontierStates)
      /\ first[1] \in FrontierStates
  BY <1>3, ItemTypes DEF Typed, TypeOK
<1>5. Origin(s) = <<first[1], first[3]>>
  BY DEF Origin
<1>. HIDE DEF first
<1>. QED  BY <1>3, <1>4, <1>5 DEF EdgeOf

LEMMA MergeNearest == Nearest /\ Merge => (OnLevel /\ Parented /\ FoundNearest)'
<1>. SUFFICES ASSUME Nearest, Merge PROVE (OnLevel /\ Parented /\ FoundNearest)'
  OBVIOUS
<1>0. /\ Typed /\ req \in Requests /\ frontier \subseteq State \X Nat /\ depth \in Nat
      /\ visited \subseteq Reachable(req) /\ FrontierStates \subseteq visited
      /\ \A s \in Reachable(req) : Distance(req, s) \in Nat
  BY CorrectTypes DEF Nearest
<1>1. /\ pc = "merge" /\ UNCHANGED <<req, found>> /\ visited' = visited \cup Inserted
      /\ frontier' = {<<s, 1>> : s \in Inserted} /\ depth' = depth + 1
      /\ parent' = [s \in DOMAIN parent \cup Inserted |->
                      IF s \in DOMAIN parent THEN parent[s] ELSE Origin(s)]
      /\ Exploring /\ (limit' = {} => Inserted = NewStates)
  BY DEF Merge, input, Exploring
<1>2. FrontierStates' = Inserted
  <2>1. \A s \in Inserted : <<s, 1>> \in frontier' /\ <<s, 1>>[1] = s
    BY <1>1
  <2>2. \A e \in frontier' : e[1] \in Inserted
    BY <1>1
  <2>. QED  BY <2>1, <2>2 DEF FrontierStates
<1>3. \A s \in Reachable(req) : /\ s \in visited <=> Distance(req, s) <= depth
                                /\ s \in FrontierStates <=> Distance(req, s) = depth
  BY <1>1 DEF Nearest, OnLevel
<1>4. ASSUME NEW s \in NewStates
      PROVE  /\ s \in Reachable(req) /\ Distance(req, s) = depth + 1
             /\ <<Origin(s)[1], Origin(s)[2], s>> \in EdgesFrom(req, FrontierStates)
             /\ Origin(s)[1] \in FrontierStates /\ s \notin visited
  <2>1. /\ <<Origin(s)[1], Origin(s)[2], s>> \in EdgesFrom(req, FrontierStates)
        /\ Origin(s)[1] \in FrontierStates
    BY <1>0, <1>1, OriginLeadsTo
  <2>2. <<Origin(s)[1], Origin(s)[2], s>> \in EdgesFrom(req, Reachable(req))
    BY <1>0, <2>1, EdgesMonotone
  <2>3. s \in Reachable(req) /\ Distance(req, s) <= Distance(req, Origin(s)[1]) + 1
    BY <1>0, <2>2, DistanceOfSucc
  <2>4. s \notin visited
    BY DEF NewStates
  <2>5. Distance(req, Origin(s)[1]) = depth
    BY <1>0, <1>3, <2>1
  <2>. QED  BY <1>0, <1>3, <2>1, <2>3, <2>4, <2>5
<1>5. Inserted \subseteq NewStates
  BY DEF Inserted
<1>6. OnLevel'
  <2>. SUFFICES ASSUME Exploring', NEW s \in Reachable(req)
                PROVE  /\ s \in visited' <=> Distance(req, s) <= depth'
                       /\ s \in FrontierStates' <=> Distance(req, s) = depth'
    BY <1>1 DEF OnLevel
  <2>1. Inserted = NewStates
    BY <1>1 DEF Exploring
  <2>2. ASSUME Distance(req, s) = depth + 1
        PROVE  s \in NewStates
    <3>1. s \notin SeedStates(req)
      BY <1>0, <2>2, DistanceOfSeeds
    <3>2. PICK e \in EdgesFrom(req, Reachable(req)) :
             e[3] = s /\ Distance(req, e[1]) + 1 = Distance(req, s)
      BY <1>0, <3>1, DistanceOfPred
    <3>3. e[1] \in Reachable(req) /\ Distance(req, e[1]) \in Nat
      BY <1>0, <3>2 DEF EdgesFrom
    <3>4. e[1] \in FrontierStates
      BY <1>0, <1>3, <2>2, <3>2, <3>3
    <3>5. s \in Succ(req, FrontierStates)
      BY <3>2, <3>4 DEF EdgesFrom, Succ
    <3>6. s \in {Post(i) : i \in edges}
      BY <1>1, <3>5 DEF Nearest, Correct, Sound, Explored
    <3>7. s \notin visited
      BY <1>0, <1>3, <2>2
    <3>. QED  BY <3>6, <3>7 DEF NewStates
  <2>3. Distance(req, s) \in Nat
    BY <1>0
  <2>4. s \in NewStates <=> Distance(req, s) = depth + 1
    BY <1>4, <2>2
  <2>. QED  BY <1>0, <1>1, <1>2, <1>3, <2>1, <2>3, <2>4
<1>7. Parented'
  <2>. SUFFICES ASSUME NEW s \in visited'
                PROVE  /\ s \notin DOMAIN parent' => Distance(req, s) = 0
                       /\ s \in DOMAIN parent' =>
                            /\ Distance(req, s) = 1 + Distance(req, parent'[s][1])
                            /\ <<parent'[s][1], parent'[s][2], s>> \in EdgesFrom(req, visited')
    BY <1>1 DEF Parented
  <2>0. EdgesFrom(req, visited) \subseteq EdgesFrom(req, visited')
        /\ EdgesFrom(req, FrontierStates) \subseteq EdgesFrom(req, visited')
    BY <1>0, <1>1, EdgesMonotone
  <2>1. CASE s \in visited
    <3>1. s \notin Inserted
      BY <1>5, <2>1 DEF NewStates
    <3>2. s \in DOMAIN parent' <=> s \in DOMAIN parent
      BY <1>1, <3>1
    <3>3. s \in DOMAIN parent => parent'[s] = parent[s]
      BY <1>1
    <3>. QED  BY <2>0, <2>1, <3>2, <3>3 DEF Nearest, Parented
  <2>2. CASE s \in Inserted
    <3>1. s \in NewStates /\ s \notin visited
      BY <1>5, <2>2 DEF NewStates
    <3>2. s \notin DOMAIN parent
      BY <1>0, <3>1 DEF Typed, TypeOK
    <3>3. s \in DOMAIN parent' /\ parent'[s] = Origin(s)
      BY <1>1, <2>2, <3>2
    <3>4. Distance(req, Origin(s)[1]) = depth
      BY <1>0, <1>3, <1>4, <3>1
    <3>. QED  BY <1>0, <1>4, <2>0, <3>1, <3>3, <3>4
  <2>. QED  BY <1>1, <2>1, <2>2
<1>8. FoundNearest'
  BY <1>1 DEF Nearest, FoundNearest
<1>. QED  BY <1>6, <1>7, <1>8

LEMMA ObserveNearest == Nearest /\ Observe => (OnLevel /\ Parented /\ FoundNearest)'
<1>. SUFFICES ASSUME Nearest, Observe PROVE (OnLevel /\ Parented /\ FoundNearest)'
  OBVIOUS
<1>0. /\ Typed /\ req \in Requests /\ depth \in Nat
      /\ visited \subseteq Reachable(req) /\ FrontierStates \subseteq visited
      /\ \A s \in Reachable(req) : Distance(req, s) \in Nat
  BY CorrectTypes DEF Nearest
<1>1. /\ pc = "expand" /\ UNCHANGED <<req, visited, parent, frontier, depth>>
      /\ found' = [p \in req.steps |-> IF found[p] # {} THEN found[p] ELSE FirstBad(p, Observed)]
      /\ Observed \subseteq edges
  BY DEF Observe, Recorded, input, Observed
<1>2. FrontierStates' = FrontierStates /\ Exploring
  BY <1>1 DEF FrontierStates, Nearest, Correct, Sound, Explored
<1>3. \A s \in Reachable(req) : /\ s \in visited <=> Distance(req, s) <= depth
                                /\ s \in FrontierStates <=> Distance(req, s) = depth
  BY <1>2 DEF Nearest, OnLevel
<1>4. OnLevel' /\ Parented'
  BY <1>1, <1>2, <1>3 DEF OnLevel, Nearest, Parented
<1>5. ASSUME NEW p \in req.steps, NEW e \in found'[p],
             NEW f \in EdgesFrom(req, Reachable(req)), f \in req.stepBad[p]
      PROVE  Distance(req, e[1]) <= Distance(req, f[1])
  <2>1. CASE found[p] # {}
    BY <1>1, <1>5, <2>1 DEF Nearest, FoundNearest
  <2>2. CASE found[p] = {}
    <3>1. e \in EdgesFrom(req, FrontierStates)
      BY <1>0, <1>1, <1>5, <2>2, FirstBadTypes
    <3>2. e[1] \in FrontierStates /\ f[1] \in Reachable(req)
      BY <3>1 DEF EdgesFrom
    <3>3. Distance(req, e[1]) = depth
      BY <1>0, <1>3, <3>2
    <3>4. f \notin EdgesFrom(req, visited \ FrontierStates)
      BY <1>1, <1>2, <1>5, <2>2 DEF Nearest, Correct, Judged, Expanded, Exploring
    <3>5. f[1] \notin visited \ FrontierStates
      BY <3>4 DEF EdgesFrom
    <3>6. ~(Distance(req, f[1]) < depth)
      BY <1>0, <1>3, <3>2, <3>5
    <3>. QED  BY <1>0, <3>2, <3>3, <3>6
  <2>. QED  BY <2>1, <2>2
<1>6. FoundNearest'
  BY <1>1, <1>5 DEF FoundNearest
<1>. QED  BY <1>4, <1>6

\* A step that leaves the store and the verdicts alone, or ends the exploration.
LEMMA FrameNearest ==
  ASSUME Nearest, UNCHANGED <<req, visited, parent, found>>,
         Exploring' => Exploring /\ UNCHANGED <<frontier, depth>>
  PROVE  (OnLevel /\ Parented /\ FoundNearest)'
<1>1. OnLevel'
  BY DEF Nearest, OnLevel, FrontierStates
<1>. QED  BY <1>1 DEF Nearest, Parented, FoundNearest

LEMMA NextNearest == Nearest /\ [Next]_vars => Nearest'
<1>. SUFFICES ASSUME Nearest, [Next]_vars PROVE (OnLevel /\ Parented /\ FoundNearest)'
  BY NextCorrect DEF Nearest
<1>1. CASE StopAtBoundary
  BY <1>1, FrameNearest DEF StopAtBoundary, Exploring, input, store
<1>2. CASE StartLayer
  BY <1>2, FrameNearest DEF StartLayer, Exploring, AllTerminal, input, store
<1>3. ASSUME NEW c \in DOMAIN wpc, Worker(c)
      PROVE  (OnLevel /\ Parented /\ FoundNearest)'
  <2>1. WorkerUnchanged
    BY <1>3 DEF Worker, Exhaust, Abandon, Apply, CountEdge, StopOnEdge, DropEdge, PushEdge,
                CountCandidate
  <2>. QED  BY <2>1, FrameNearest DEF WorkerUnchanged, Exploring, AllTerminal, input, store
<1>4. CASE CloseLayer
  <2>1. ~Exploring'
    BY <1>4 DEF CloseLayer, Exploring, AllTerminal, input
  <2>. QED  BY <1>4, <2>1, FrameNearest DEF CloseLayer, input
<1>5. CASE Report
  BY <1>5, FrameNearest DEF Report, Exploring, AllTerminal, input, store
<1>6. CASE UNCHANGED vars
  BY <1>6, FrameNearest DEF vars, Exploring, AllTerminal
<1>. QED  BY <1>1, <1>2, <1>3, <1>4, <1>5, <1>6, ObserveNearest, MergeNearest DEF Next, Finished

LEMMA InitNearest == Init => Nearest
<1>. SUFFICES ASSUME Init PROVE Nearest
  OBVIOUS
<1>1. Correct /\ FrontierStates = visited /\ visited = SeedStates(req) /\ depth = 0
      /\ DOMAIN parent = {} /\ found = [p \in req.steps |-> {}]
  BY InitCorrect, SeedFrontier DEF Init
<1>2. \A s \in Reachable(req) : /\ Distance(req, s) \in Nat
                                /\ Distance(req, s) = 0 <=> s \in visited
  BY <1>1, CorrectTypes, DistanceOfSeeds
<1>3. visited \subseteq Reachable(req)
  BY <1>1, CorrectTypes
<1>4. OnLevel
  BY <1>1, <1>2 DEF OnLevel
<1>. QED  BY <1>1, <1>2, <1>3, <1>4 DEF Nearest, Parented, FoundNearest

-----------------------------------------------------------------------------
(* What the layers mean for the report.                                    *)

\* The search only ends when there is nothing left that it may explore.
Ended == pc = "done" => ~MayExplore

LEMMA NextEnded == Ended /\ [Next]_vars => Ended'
<1>. SUFFICES ASSUME Ended, [Next]_vars, pc' = "done" PROVE ~MayExplore'
  BY DEF Ended
<1>1. ~MayExplore /\ UNCHANGED <<req, frontier, depth, limit, found>>
  <2>1. CASE Report
    BY <2>1 DEF Report, input, store
  <2>2. CASE UNCHANGED vars
    BY <2>2 DEF vars, Ended
  <2>3. ASSUME NEW c \in DOMAIN wpc, Worker(c)
        PROVE  FALSE
    <3>1. WorkerUnchanged /\ pc = "expand"
      BY <2>3 DEF Worker, Exhaust, Abandon, Apply, CountEdge, StopOnEdge, DropEdge, PushEdge,
                  CountCandidate
    <3>. QED  BY <3>1 DEF WorkerUnchanged
  <2>4. ~StopAtBoundary /\ ~StartLayer /\ ~Observe /\ ~CloseLayer /\ ~Merge
    BY DEF StopAtBoundary, StartLayer, Observe, CloseLayer, Merge
  <2>. QED  BY <2>1, <2>2, <2>3, <2>4 DEF Next, Finished
<1>. QED  BY <1>1 DEF MayExplore, AllTerminal

\* A pass within the depth bound is about every edge at less than that depth,
\* however the layers were shared out among the workers.
THEOREM BoundedPassCovers == Spec => []BoundedPassCoversTheBound
<1>1. Nearest /\ Ended => BoundedPassCoversTheBound
  <2>. SUFFICES ASSUME Nearest, Ended, pc = "done", NEW p \in req.steps,
                       verdict[p] = "verified-within-bounds",
                       NEW e \in EdgesFrom(req, Reachable(req)),
                       Distance(req, e[1]) < req.maxDepth
                PROVE  e \notin req.stepBad[p]
    BY DEF BoundedPassCoversTheBound
  <2>0. /\ req \in Requests /\ depth \in Nat /\ e[1] \in Reachable(req)
        /\ Distance(req, e[1]) \in Nat /\ req.maxDepth \in Nat
    BY CorrectTypes, RequestFields DEF Nearest, EdgesFrom
  <2>1. found[p] = {} /\ limit = {} /\ Expanded = visited \ FrontierStates
    BY DEF Nearest, Correct, Judged, Expanded
  <2>2. Exploring
    BY <2>1 DEF Exploring, AllTerminal
  <2>3. frontier = {} \/ ~(depth < req.maxDepth)
    BY <2>2 DEF Ended, MayExplore, Exploring
  <2>4. e[1] \in visited \ FrontierStates
    <3>1. CASE frontier = {}
      <4>1. FrontierStates = {} /\ visited \ FrontierStates = visited
        BY <3>1 DEF FrontierStates
      <4>2. Succ(req, visited) \subseteq visited /\ SeedStates(req) \subseteq visited
        BY <2>2, <4>1 DEF Nearest, Correct, Sound, Explored
      <4>3. visited \subseteq State
        BY DEF Nearest, Correct, Sound, Budgeted, Typed, TypeOK
      <4>. QED  BY <2>0, <4>1, <4>2, <4>3, ReachableLeast
    <3>2. CASE ~(depth < req.maxDepth)
      <4>1. Distance(req, e[1]) < depth
        BY <2>0, <3>2
      <4>. QED  BY <2>0, <2>2, <4>1 DEF Nearest, OnLevel
    <3>. QED  BY <2>3, <3>1, <3>2
  <2>5. e \in EdgesFrom(req, Expanded)
    BY <2>1, <2>4 DEF EdgesFrom
  <2>. QED  BY <2>1, <2>5 DEF Nearest, Correct, Judged
<1>2. Init => Ended
  BY DEF Init, Ended
<1>. QED  BY <1>1, <1>2, InitNearest, NextNearest, NextEnded, PTL DEF Spec

\* The length of the walk back to a seed is the distance: the distances solve the
\* equation that TraceLength is defined with, and nothing else does.
LEMMA TraceIsDistance ==
  ASSUME Nearest, NEW s \in visited
  PROVE  TraceLength[s] = Distance(req, s)
<1>. DEFINE Walk(g) == g = [x \in visited |->
                              IF x \in DOMAIN parent THEN 1 + g[parent[x][1]] ELSE 0]
            d == [x \in visited |-> Distance(req, x)]
            len == CHOOSE g : Walk(g)
            n == Distance(req, s)
            J == {k \in 0..n : \A x \in visited : Distance(req, x) = k => len[x] = k}
<1>0. /\ \A x \in visited : Distance(req, x) \in Nat
      /\ \A x \in visited : x \in DOMAIN parent => parent[x][1] \in visited
      /\ \A x \in visited : /\ x \notin DOMAIN parent => Distance(req, x) = 0
                            /\ x \in DOMAIN parent =>
                                 Distance(req, x) = 1 + Distance(req, parent[x][1])
  BY CorrectTypes DEF Nearest, Parented, EdgesFrom
<1>1. Walk(d)
  BY <1>0
<1>2. Walk(len)
  <2>. HIDE DEF Walk, d
  <2>. QED  BY <1>1
<1>3. TraceLength = len
  BY DEF TraceLength
<1>. HIDE DEF len, d
<1>4. \A x \in visited : len[x] = IF x \in DOMAIN parent THEN 1 + len[parent[x][1]] ELSE 0
  BY <1>2
<1>. HIDE DEF Walk
<1>5. n \in Nat
  BY <1>0
<1>6. 0 \in J
  <2>1. ASSUME NEW x \in visited, Distance(req, x) = 0
        PROVE  len[x] = 0
    <3>1. x \notin DOMAIN parent
      BY <1>0, <2>1
    <3>. QED  BY <1>4, <3>1
  <2>. QED  BY <1>5, <2>1
<1>7. ASSUME NEW k \in 1..n, k - 1 \in J
      PROVE  k \in J
  <2>1. ASSUME NEW x \in visited, Distance(req, x) = k
        PROVE  len[x] = k
    <3>1. x \in DOMAIN parent
      BY <1>0, <2>1
    <3>2. parent[x][1] \in visited /\ Distance(req, parent[x][1]) = k - 1
      BY <1>0, <2>1, <3>1
    <3>3. len[parent[x][1]] = k - 1
      BY <1>7, <3>2
    <3>. QED  BY <1>4, <3>1, <3>3
  <2>. QED  BY <1>5, <2>1
<1>8. n \in J
  <2>1. 0..n \subseteq J
    <3>. HIDE DEF J, n
    <3>. QED  BY <1>5, <1>6, <1>7, UpTo
  <2>. QED  BY <1>5, <2>1
<1>. QED  BY <1>3, <1>8

\* Traces are shortest paths of the model and no violating edge is nearer than the
\* one that is recorded, whatever the workers' interleaving.
THEOREM TracesAreShortest == Spec => []ShortestTraces
<1>1. Nearest => ShortestTraces
  BY TraceIsDistance DEF Nearest, Parented, FoundNearest, ShortestTraces
<1>. QED  BY <1>1, InitNearest, NextNearest, PTL DEF Spec
===========================================================================
