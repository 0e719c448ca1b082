---------------------------- MODULE SearchTwice ----------------------------
(***************************************************************************)
(* Two checks of the same request one after the other, each with its own   *)
(* worker pool and interleaving: what of the result is reproducible.       *)
(***************************************************************************)
EXTENDS Search

VARIABLE first    \* {} during the first run, then its results

\* What build_check_result and apply_search_limit_verdicts report of a run.
Results ==
  [verdict |-> verdict, found |-> found, visited |-> visited, edgeCount |-> edgeCount,
   limit |-> limit, enabledIds |-> enabledIds, boundHits |-> boundHits]

\* The same request is checked again.
Again ==
  /\ pc = "done" /\ first = {}
  /\ first' = {Results}
  /\ req' = req /\ pool' \in Pools
  /\ pc' = "layer"
  /\ visited' = SeedStates(req) /\ frontier' = SeedEntries(req)
  /\ parent' = [s \in {} |-> <<>>]
  /\ depth' = 0 /\ edgeCount' = 0
  /\ wpc' = [c \in {} |-> "done"] /\ mine' = [c \in {} |-> 0]
  /\ todo' = {} /\ edges' = {}
  /\ genEdges' = 0 /\ genStates' = 0 /\ stop' = FALSE
  /\ limit' = {} /\ found' = [p \in req.steps |-> {}]
  /\ enabledIds' = {} /\ boundHits' = {}
  /\ verdict' = [q \in req.steps \cup req.always |-> "none"]

TwiceInit == Init /\ first = {}
TwiceNext == (Next /\ UNCHANGED first) \/ Again
TwiceSpec == TwiceInit /\ [][TwiceNext]_<<vars, first>> /\ WF_vars(Next)

-----------------------------------------------------------------------------
\* Two runs that both come to an end give every property the same status and the
\* same counterexample, from the same visited states and observed edges: the
\* interleaving and the number of workers only matter for what is cut off. (The
\* memory guard reads the memory of the machine and is left out.)
SameVerdicts ==
  pc = "done" /\ ~req.memoryGuard => \A r \in first :
    /\ r.verdict = verdict /\ r.found = found
    /\ r.visited = visited /\ r.edgeCount = edgeCount
    /\ (r.limit = {}) <=> (limit = {})
    /\ limit = {} => r.enabledIds = enabledIds /\ r.boundHits = boundHits

\* docs/architecture/checker.md, "Determinism": two runs on the same model produce
\* identical results.
IdenticalResults ==
  pc = "done" /\ ~req.memoryGuard => \A r \in first : r = Results
=============================================================================
