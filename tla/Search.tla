------------------------------- MODULE Search -------------------------------
(***************************************************************************)
(* The layered breadth-first search of the native checker                  *)
(* (crates/checker/src/search.rs): a pool of workers expands the frontier  *)
(* in parallel under a shared expansion budget of relaxed atomics, then    *)
(* one thread observes the generated edges and merges the new states.      *)
(*                                                                         *)
(* What an effect and its stabilisation produce is data here: a request    *)
(* lists, for each state and enabled transition, the stabilised posts in   *)
(* generation order.                                                       *)
(***************************************************************************)
EXTENDS CheckRequest

CONSTANTS
  Requests,     \* the requests the search may be started on
  Pools         \* the worker counts rayon may run with

ASSUME RequestAssumption == Requests \subseteq Request
ASSUME PoolAssumption == Pools \subseteq Nat \ {0}

VARIABLES
  req,        \* the request being checked
  pool,       \* rayon::current_num_threads()
  pc,         \* where the coordinating thread stands
  visited,    \* keys of VisitedSet::canon_to_id
  parent,     \* VisitedSet::parents_by_canon of the states that have one
  frontier,   \* set of <<state, copy>>: seeds may occur more than once
  depth,
  edgeCount,
  wpc,        \* chunk -> where the worker that expands it stands
  todo,       \* items of this layer no worker has finished
  mine,       \* chunk -> the edge count its last fetch_add returned
  edges,      \* items pushed by the workers of this layer
  genEdges, genStates, stop,     \* ExpansionBudget
  limit,      \* limit_hit: {} or the reason
  found,      \* alwaysStep verdicts: {} or the violating edge
  enabledIds, \* enabled_transition_ids
  boundHits,  \* <<"cap", t>> or <<"maxDepth", t>> for a transition t
  verdict     \* status of each property, once reported

budget == <<genEdges, genStates, stop>>
work   == <<wpc, todo, mine, edges, genEdges, genStates, stop>>
hits   == <<enabledIds, boundHits>>
store  == <<visited, parent, frontier, depth, edgeCount>>
input  == <<req, pool>>
vars == <<req, pool, pc, visited, parent, frontier, depth, edgeCount, wpc, todo,
          mine, edges, genEdges, genStates, stop, limit, found, enabledIds,
          boundHits, verdict>>

-----------------------------------------------------------------------------
(* Search limits: check_search_limits. Every comparison is >=.             *)

Over(max, n) == \E m \in max : n >= m

LimitExceeded(states, edgeTotal, width) ==
  \/ Over(req.maxStates, states)
  \/ Over(req.maxEdges, edgeTotal)
  \/ Over(req.maxFrontier, width)

LimitReason(states, edgeTotal, width) ==
  IF Over(req.maxStates, states) THEN "maxStates"
  ELSE IF Over(req.maxEdges, edgeTotal) THEN "maxEdges"
  ELSE "maxFrontier"

Limit(states, edgeTotal, width) ==
  IF LimitExceeded(states, edgeTotal, width)
  THEN {LimitReason(states, edgeTotal, width)} ELSE {}

States == Cardinality(visited)

-----------------------------------------------------------------------------
(* The work of a layer. An item <<s, k, t, b>> is one step of the loop of  *)
(* expand_chunk over the k-th copy of frontier state s: b = 0 applies the  *)
(* effect of transition t, b > 0 emits its b-th stabilised post.           *)

\* mutant: the guard of the transition is not evaluated
ItemsOfDisabled(F) ==
  {i \in {<<e[1], e[2], t, b>> : e \in F, t \in Transition, b \in 0..MaxPosts} :
      i[4] \in {0} \cup DOMAIN Posts(req, i[1], i[3])}

Items(F) ==
  {i \in {<<e[1], e[2], t, b>> : e \in F, t \in Transition, b \in 0..MaxPosts} :
      /\ i[3] \in req.enabled[i[1]]
      /\ i[4] \in {0} \cup DOMAIN Posts(req, i[1], i[3])}

Entry(i) == <<i[1], i[2]>>
Post(i)  == Posts(req, i[1], i[3])[i[4]]
IsEdge(i) == i[4] > 0

EntryLess(e, f) == e[1] < f[1] \/ (e[1] = f[1] /\ e[2] < f[2])

\* generation order within a chunk: frontier position, transition, post
ItemLess(i, j) ==
  \/ EntryLess(Entry(i), Entry(j))
  \/ Entry(i) = Entry(j) /\ (i[3] < j[3] \/ (i[3] = j[3] /\ i[4] < j[4]))

\* chunk_frontier: contiguous chunks of the sorted frontier
Position(e) == Cardinality({f \in frontier : EntryLess(f, e)})
Workers     == IF pool < Cardinality(frontier) THEN pool ELSE Cardinality(frontier)
ChunkSize   == (Cardinality(frontier) + Workers - 1) \div Workers
ChunkOf(e)  == Position(e) \div ChunkSize
Chunks      == {ChunkOf(e) : e \in frontier}

Todo(c) == {i \in todo : ChunkOf(Entry(i)) = c}

\* the item the worker of chunk c takes next
IsNext(c, i) == i \in Todo(c) /\ \A j \in Todo(c) : j = i \/ ItemLess(i, j)

-----------------------------------------------------------------------------
(* The workers: expand_chunk and ExpansionBudget. All atomics are Relaxed, *)
(* so a load of stop may return FALSE although another worker has stored   *)
(* TRUE, and a load of genStates may return any value it has had.          *)

\* The result of should_stop().
LoadStop == IF stop THEN BOOLEAN ELSE {FALSE}

Quit(c) == /\ wpc' = [wpc EXCEPT ![c] = "done"]
           /\ UNCHANGED <<todo, mine, edges, hits, budget>>

WorkerUnchanged == UNCHANGED <<input, pc, store, limit, found, verdict>>

\* The chunk is exhausted.
Exhaust(c) ==
  /\ pc = "expand" /\ wpc[c] = "next" /\ Todo(c) = {}
  /\ Quit(c)
  /\ WorkerUnchanged

\* should_stop() read TRUE before the next state, transition or post.
Abandon(c) ==
  /\ pc = "expand" /\ wpc[c] = "next" /\ Todo(c) # {}
  /\ TRUE \in LoadStop
  /\ Quit(c)
  /\ WorkerUnchanged

\* mutant: a cap is only reported when it leaves the effect without a post
ApplySaturated(c, i) ==
  /\ pc = "expand" /\ wpc[c] = "next" /\ IsNext(c, i) /\ ~IsEdge(i)
  /\ FALSE \in LoadStop
  /\ enabledIds' = enabledIds \cup {i[3]}
  /\ boundHits' = IF <<i[1], i[3]>> \in req.capped /\ Posts(req, i[1], i[3]) = <<>>
                  THEN boundHits \cup {<<"cap", i[3]>>} ELSE boundHits
  /\ todo' = todo \ {i}
  /\ UNCHANGED <<wpc, mine, edges, budget>>
  /\ WorkerUnchanged

\* apply_effect of an enabled transition, which turns every error into no post;
\* a cap that was hit on the way is noted.
Apply(c, i) ==
  /\ pc = "expand" /\ wpc[c] = "next" /\ IsNext(c, i) /\ ~IsEdge(i)
  /\ FALSE \in LoadStop
  /\ enabledIds' = enabledIds \cup {i[3]}
  /\ boundHits' = IF <<i[1], i[3]>> \in req.capped
                  THEN boundHits \cup {<<"cap", i[3]>>} ELSE boundHits
  /\ todo' = todo \ {i}
  /\ UNCHANGED <<wpc, mine, edges, budget>>
  /\ WorkerUnchanged

\* note_generated_edge: fetch_add on generated_edges.
CountEdge(c, i) ==
  /\ pc = "expand" /\ wpc[c] = "next" /\ IsNext(c, i) /\ IsEdge(i)
  /\ FALSE \in LoadStop
  /\ genEdges' = genEdges + 1
  /\ mine' = [mine EXCEPT ![c] = genEdges + 1]
  /\ wpc' = [wpc EXCEPT ![c] = "counted"]
  /\ UNCHANGED <<todo, edges, genStates, stop, hits>>
  /\ WorkerUnchanged

\* note_generated_edge: the limits are exceeded, stop is stored and read back.
StopOnEdge(c) ==
  /\ pc = "expand" /\ wpc[c] = "counted"
  /\ \E seen \in 0..genStates : LimitExceeded(States + seen, edgeCount + mine[c], 0)
  /\ stop' = TRUE
  /\ wpc' = [wpc EXCEPT ![c] = "done"]
  /\ UNCHANGED <<todo, mine, edges, genEdges, genStates, hits>>
  /\ WorkerUnchanged

\* note_generated_edge: within the limits, but should_stop() reads TRUE after it.
DropEdge(c) ==
  /\ pc = "expand" /\ wpc[c] = "counted"
  /\ \E seen \in 0..genStates : ~LimitExceeded(States + seen, edgeCount + mine[c], 0)
  /\ TRUE \in LoadStop
  /\ Quit(c)
  /\ WorkerUnchanged

\* The edge is pushed; a post that is not visited is also a merge candidate.
PushEdge(c, i) ==
  /\ pc = "expand" /\ wpc[c] = "counted" /\ IsNext(c, i) /\ IsEdge(i)
  /\ \E seen \in 0..genStates : ~LimitExceeded(States + seen, edgeCount + mine[c], 0)
  /\ FALSE \in LoadStop
  /\ edges' = edges \cup {i}
  /\ todo' = todo \ {i}
  /\ wpc' = [wpc EXCEPT ![c] = IF Post(i) \in visited THEN "next" ELSE "candidate"]
  /\ UNCHANGED <<mine, hits, budget>>
  /\ WorkerUnchanged

\* note_new_state_candidate: every unvisited post counts, also one that
\* another edge of the layer has already produced.
CountCandidate(c) ==
  /\ pc = "expand" /\ wpc[c] = "candidate"
  /\ \/ /\ TRUE \in LoadStop
        /\ wpc' = [wpc EXCEPT ![c] = "done"]
        /\ UNCHANGED <<genStates, stop>>
     \/ /\ FALSE \in LoadStop
        /\ genStates' = genStates + 1
        /\ IF Over(req.maxStates, States + genStates + 1)
           THEN stop' = TRUE /\ wpc' = [wpc EXCEPT ![c] = "done"]
           ELSE UNCHANGED stop /\ wpc' = [wpc EXCEPT ![c] = "next"]
  /\ UNCHANGED <<todo, mine, edges, genEdges, hits>>
  /\ WorkerUnchanged

Worker(c) ==
  \/ Exhaust(c)
  \/ Abandon(c)
  \/ \E i \in todo : Apply(c, i) \/ CountEdge(c, i) \/ PushEdge(c, i)
  \/ StopOnEdge(c)
  \/ DropEdge(c)
  \/ CountCandidate(c)

-----------------------------------------------------------------------------
(* The coordinating thread.                                                *)

\* all_properties_terminal: temporal properties are never terminal before
\* the search ends, and no property at all is not "all terminal".
EdgeOf(i) == <<i[1], i[3], Post(i)>>

AllTerminal(S) ==
  /\ req.always = {} /\ req.steps # {}
  /\ \A p \in req.steps : found[p] # {} \/ \E i \in S : EdgeOf(i) \in req.stepBad[p]

\* check_search_limits at a layer boundary, or the memory guard.
BoundaryLimits(states, edgeTotal, width) ==
  IF LimitExceeded(states, edgeTotal, width)
  THEN {Limit(states, edgeTotal, width)}
  ELSE {{}} \cup (IF req.memoryGuard THEN {{"memoryGuardBytes"}} ELSE {})

\* mutant: the last layer within the bound is not expanded
MayExploreLess ==
  /\ frontier # {} /\ depth + 1 < req.maxDepth
  /\ limit = {} /\ ~AllTerminal({})

MayExplore ==
  /\ frontier # {} /\ depth < req.maxDepth
  /\ limit = {} /\ ~AllTerminal({})

\* mutant: the limit found at a layer boundary is not recorded
StopWithoutReason ==
  /\ pc = "layer" /\ MayExplore
  /\ \E l \in BoundaryLimits(States, edgeCount, Cardinality(frontier)) : l # {}
  /\ UNCHANGED vars

StopAtBoundary ==
  /\ pc = "layer" /\ MayExplore
  /\ \E l \in BoundaryLimits(States, edgeCount, Cardinality(frontier)) :
        l # {} /\ limit' = l
  /\ UNCHANGED <<input, pc, store, work, found, enabledIds, boundHits, verdict>>

StartLayer ==
  /\ pc = "layer" /\ MayExplore
  /\ {} \in BoundaryLimits(States, edgeCount, Cardinality(frontier))
  /\ pc' = "expand"
  /\ wpc' = [c \in Chunks |-> "next"]
  /\ mine' = [c \in Chunks |-> 0]
  /\ todo' = Items(frontier)
  /\ edges' = {}
  /\ genEdges' = 0 /\ genStates' = 0 /\ stop' = FALSE
  /\ UNCHANGED <<input, store, limit, found, enabledIds, boundHits, verdict>>

\* The edges in the order of their sort_key, generation order breaking ties.
EdgeLess(i, j) == \/ SortKeyLess(EdgeOf(i), EdgeOf(j))
                  \/ EdgeOf(i) = EdgeOf(j) /\ ItemLess(i, j)

Upto(i) == {j \in edges : j = i \/ EdgeLess(j, i)}

\* after edge i every property is decided, or the edge-recording limit is hit
Halts(i) == \/ AllTerminal(Upto(i))
            \/ LimitExceeded(States, edgeCount + Cardinality(Upto(i)), 0)

\* mutant: only edges that lead to new states are observed
FirstBadNew(p, S) ==
  First({EdgeOf(i) : i \in {i \in S : Post(i) \notin visited}} \cap req.stepBad[p])

\* observe_edge keeps the first edge that violates p
FirstBad(p, S) == First({EdgeOf(i) : i \in S} \cap req.stepBad[p])

\* mutant: limit_hit forgets the states the workers generated
BudgetLimitOfEdges == IF stop THEN Limit(States, edgeCount + genEdges, 0) ELSE {}

\* ExpansionBudget::limit_hit
BudgetLimit == IF stop THEN Limit(States + genStates, edgeCount + genEdges, 0) ELSE {}

\* The sorted edges are recorded and observed until one of them halts the loop.
Halting  == {i \in edges : Halts(i)}

\* mutant: the edges of a layer that was cut are observed as well
ObservedOfCut == {i \in edges : \A j \in Halting : ~EdgeLess(j, i)}

Observed == IF BudgetLimit # {} THEN {}
            ELSE {i \in edges : \A j \in Halting : ~EdgeLess(j, i)}

Recorded(p) == IF found[p] # {} THEN found[p] ELSE FirstBad(p, Observed)

Observe ==
  /\ pc = "expand" /\ \A c \in Chunks : wpc[c] = "done"
  /\ found' = [p \in req.steps |-> Recorded(p)]
  /\ edgeCount' = edgeCount + Cardinality(Observed)
  /\ limit' = IF BudgetLimit # {} THEN BudgetLimit
              ELSE IF Halting = {} \/ AllTerminal(Observed) THEN {}
              ELSE {LimitReason(States, edgeCount + Cardinality(Observed), 0)}
  /\ pc' = "merge"
  /\ UNCHANGED <<input, visited, parent, frontier, depth, work, enabledIds,
                 boundHits, verdict>>

\* sort_merge_candidates: by shard of the canonical hash, then by identity.
MergeLess(s, t) == \/ req.shard[s] < req.shard[t]
                   \/ req.shard[s] = req.shard[t] /\ s < t

\* mutant: only the current frontier counts as visited
NewToFrontier == {Post(i) : i \in edges} \ {e[1] : e \in frontier}

NewStates == {Post(i) : i \in edges} \ visited
Rank(s) == Cardinality({t \in NewStates : MergeLess(t, s)})
Inserted == {s \in NewStates : ~LimitExceeded(States + Rank(s), edgeCount, Rank(s))}

\* mutant: the parent is that of the first candidate of the whole layer
OriginOfLayer(s) ==
  LET first == CHOOSE i \in edges : \A j \in edges : j = i \/ ItemLess(i, j)
  IN  <<first[1], first[3]>>

\* insert_child: the first candidate in generation order becomes the parent.
Origin(s) ==
  LET into == {i \in edges : Post(i) = s}
      first == CHOOSE i \in into : \A j \in into : j = i \/ ItemLess(i, j)
  IN  <<first[1], first[3]>>

\* The layer brought no new frontier: a limit was hit or all is decided.
CloseLayer ==
  /\ pc = "merge" /\ (limit # {} \/ AllTerminal({}))
  /\ frontier' = {}
  /\ depth' = depth + 1
  /\ IF limit # {} THEN UNCHANGED limit
     ELSE limit' \in BoundaryLimits(States, edgeCount, 0)
  /\ pc' = "layer"
  /\ UNCHANGED <<input, visited, parent, edgeCount, work, found, enabledIds,
                 boundHits, verdict>>

\* mutant: the new states reach the frontier but not the visited set
MergeUnvisited ==
  /\ pc = "merge" /\ limit = {} /\ ~AllTerminal({})
  /\ frontier' = {<<s, 1>> : s \in Inserted}
  /\ depth' = depth + 1
  /\ limit' \in BoundaryLimits(States, edgeCount, Cardinality(Inserted))
  /\ pc' = "layer"
  /\ UNCHANGED <<input, visited, parent, edgeCount, work, found, enabledIds, boundHits,
                 verdict>>

\* The new states are inserted, each after a candidate-merge limit check.
Merge ==
  /\ pc = "merge" /\ limit = {} /\ ~AllTerminal({})
  /\ visited' = visited \cup Inserted
  /\ parent' = [s \in DOMAIN parent \cup Inserted |->
                  IF s \in DOMAIN parent THEN parent[s] ELSE Origin(s)]
  /\ frontier' = {<<s, 1>> : s \in Inserted}
  /\ depth' = depth + 1
  /\ LET n == Cardinality(Inserted)
     IN  IF Inserted # NewStates
         THEN limit' = {LimitReason(States + n, edgeCount, n)}
         ELSE limit' \in BoundaryLimits(States + n, edgeCount, n)
  /\ pc' = "layer"
  /\ UNCHANGED <<input, edgeCount, work, found, enabledIds, boundHits, verdict>>

\* mutant: the verdicts are finalized although a limit ended the search
StatusDespiteLimit(q) ==
  IF q \in req.steps
  THEN IF found[q] # {} THEN "violated" ELSE "verified-within-bounds"
  ELSE IF visited \cap req.bad[q] # {} THEN "violated"
       ELSE IF frontier = {} THEN "verified" ELSE "verified-within-bounds"

\* apply_search_limit_verdicts, finalize_properties and build_check_result.
Status(q) ==
  IF q \in req.steps
  THEN IF found[q] # {} THEN "violated"
       ELSE IF limit # {} THEN "error" ELSE "verified-within-bounds"
  ELSE IF limit # {} THEN "error"
       ELSE IF visited \cap req.bad[q] # {} THEN "violated"
       ELSE IF frontier = {} THEN "verified" ELSE "verified-within-bounds"

\* record_max_depth_bound_hits, then the verdicts.
Report ==
  /\ pc = "layer" /\ ~MayExplore
  /\ LET blocked == UNION {req.enabled[e[1]] : e \in frontier}
     IN  /\ boundHits' = boundHits \cup {"maxDepth"} \X blocked
         /\ enabledIds' = enabledIds \cup blocked
  /\ verdict' = [q \in req.steps \cup req.always |-> Status(q)]
  /\ pc' = "done"
  /\ UNCHANGED <<input, store, work, limit, found>>

Finished == pc = "done" /\ UNCHANGED vars

-----------------------------------------------------------------------------
\* seed_frontier: insert_seed returns the existing id of a repeated seed, and
\* the id is pushed onto the frontier once more.
SeedEntries(r) ==
  {<<r.seeds[i], Cardinality({j \in 1..i : r.seeds[j] = r.seeds[i]})>> :
      i \in DOMAIN r.seeds}

Init ==
  /\ req \in Requests /\ pool \in Pools
  /\ pc = "layer"
  /\ visited = SeedStates(req) /\ frontier = SeedEntries(req)
  /\ parent = [s \in {} |-> <<>>]
  /\ depth = 0 /\ edgeCount = 0
  /\ wpc = [c \in {} |-> "done"] /\ mine = [c \in {} |-> 0]
  /\ todo = {} /\ edges = {}
  /\ genEdges = 0 /\ genStates = 0 /\ stop = FALSE
  /\ limit = {} /\ found = [p \in req.steps |-> {}]
  /\ enabledIds = {} /\ boundHits = {}
  /\ verdict = [q \in req.steps \cup req.always |-> "none"]

Next ==
  \/ StopAtBoundary \/ StartLayer
  \/ \E c \in DOMAIN wpc : Worker(c)
  \/ Observe \/ CloseLayer \/ Merge
  \/ Report \/ Finished

\* rayon keeps running the tasks of par_iter and the coordinating thread waits
\* for them, so the search as a whole never stops taking steps.
Spec == Init /\ [][Next]_vars /\ WF_vars(Next)

-----------------------------------------------------------------------------
(* Properties.                                                             *)

FrontierStates == {e[1] : e \in frontier}

Reasons == {"maxStates", "maxEdges", "maxFrontier", "memoryGuardBytes"}

TypeOK ==
  /\ req \in Requests /\ pool \in Pools
  /\ pc \in {"layer", "expand", "merge", "done"}
  /\ visited \subseteq State
  /\ frontier \subseteq State \X Nat /\ FrontierStates \subseteq visited
  /\ DOMAIN parent \subseteq visited
  /\ depth \in Nat /\ edgeCount \in Nat
  /\ wpc \in [DOMAIN wpc -> {"next", "counted", "candidate", "done"}]
  /\ mine \in [DOMAIN wpc -> Nat]
  /\ pc = "expand" => todo \subseteq Items(frontier)
  /\ pc \in {"expand", "merge"} => edges \subseteq {i \in Items(frontier) : IsEdge(i)}
  /\ genEdges \in Nat /\ genStates \in Nat /\ stop \in BOOLEAN
  /\ limit \in Option(Reasons)
  /\ found \in [req.steps -> Option(State \X Transition \X State)]
  /\ enabledIds \subseteq Transition /\ boundHits \subseteq {"cap", "maxDepth"} \X Transition
  /\ verdict \in [req.steps \cup req.always ->
        {"none", "violated", "error", "verified", "verified-within-bounds"}]

\* A worker only leaves items of its chunk behind because the budget has been
\* used up, and then the coordinating thread finds a limit to report: a layer
\* is never cut short silently (ExpansionBudget::limit_hit cannot answer None
\* after a worker has stored stop).
CutIsReported ==
  pc = "expand" =>
    /\ stop => BudgetLimit # {}
    /\ \A c \in DOMAIN wpc : wpc[c] = "done" /\ Todo(c) # {} => stop

\* "verified" for AG p is a verdict about everything the model can reach: no
\* reachable state violates p (finalize_properties with exhaustive = true).
VerifiedIsSound ==
  pc = "done" => \A a \in req.always :
    verdict[a] = "verified" => Reachable(req) \cap req.bad[a] = {}

\* An alwaysStep property that passes after the frontier was drained holds on
\* every edge out of every reachable state, edges into visited states and
\* edges between visited states included (observe_edge).
StepVerdictIsSound ==
  pc = "done" => \A p \in req.steps :
    verdict[p] = "verified-within-bounds" /\ frontier = {}
      => EdgesFrom(req, Reachable(req)) \cap req.stepBad[p] = {}

\* Within the depth bound a pass is about all edges at less than that depth.
BoundedPassCoversTheBound ==
  pc = "done" => \A p \in req.steps :
    verdict[p] = "verified-within-bounds"
      => \A e \in EdgesFrom(req, Reachable(req)) :
            Distance(req, e[1]) < req.maxDepth => e \notin req.stepBad[p]

\* A bound that restricted what was explored is in the report, and no other: each
\* cap an effect ran into, whichever worker applied it, and each transition that the
\* depth bound left untried (unless a limit ended the run, which is reported instead).
BoundsThatBitAreListed ==
  pc = "done" /\ limit = {} =>
    boundHits =
      {<<"cap", t>> : t \in {t \in Transition : \E s \in visited \ FrontierStates :
                              t \in req.enabled[s] /\ <<s, t>> \in req.capped}}
      \cup {"maxDepth"} \X UNION {req.enabled[s] : s \in FrontierStates}

\* A violation is never an artefact: the recorded edge is an edge of the
\* model out of a reachable state, and the state of an AG violation is reachable.
ViolationIsReal ==
  /\ pc = "layer" => visited \subseteq Reachable(req)
  /\ \A p \in req.steps :
       found[p] \subseteq EdgesFrom(req, visited) \cap req.stepBad[p]

\* Walking the parent map from a visited state back to a seed (trace_to) gives a
\* shortest path of the model, whatever the workers' interleaving; and the edge recorded
\* as an alwaysStep counterexample leaves a state at minimal distance among all
\* violating edges. So no counterexample has a shorter one.
TraceLength ==
  LET len[s \in visited] == IF s \in DOMAIN parent THEN 1 + len[parent[s][1]] ELSE 0
  IN  len

ShortestTraces ==
  /\ pc = "layer" => \A s \in visited :
       /\ TraceLength[s] = Distance(req, s)
       /\ s \in DOMAIN parent => <<parent[s][1], parent[s][2], s>> \in EdgesFrom(req, visited)
  /\ \A p \in req.steps : \A e \in found[p] :
       \A f \in EdgesFrom(req, Reachable(req)) \cap req.stepBad[p] :
          Distance(req, e[1]) <= Distance(req, f[1])

\* The layered search of LayeredBFS: the step that observes the edges of a layer
\* is its step, so the states the next step inserts count as visited already.
Merging == pc = "merge" /\ limit = {} /\ ~AllTerminal({})

Layered == INSTANCE LayeredBFS WITH
  visited  <- IF Merging THEN visited \cup Inserted ELSE visited,
  frontier <- IF Merging THEN Inserted ELSE IF pc = "merge" THEN {} ELSE FrontierStates,
  depth    <- IF pc = "merge" THEN depth + 1 ELSE depth,
  limited  <- limit # {} \/ (Merging /\ Inserted # NewStates),
  status   <- IF pc = "done" THEN "done" ELSE "running"

\* Workers, budget, chunking and merge order change nothing but the point where
\* a limit cuts the search: what it visits, observes and decides layer by layer
\* is what the sequential layered search visits, observes and decides.
ImplementsLayeredBFS == Layered!Spec

\* The search ends: every layer either runs to its end or is cut, and the
\* number of layers is bounded by maxDepth.
Termination == <>(pc = "done")
=============================================================================
