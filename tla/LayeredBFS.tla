----------------------------- MODULE LayeredBFS -----------------------------
(***************************************************************************)
(* What the search promises, without workers, budgets or merge order: the  *)
(* layered breadth-first search of docs/architecture/checker.md. A layer   *)
(* is one atomic step that visits every successor of the frontier and      *)
(* observes every edge out of it. A configured limit may end the search in *)
(* any layer, and then what was visited and observed is still real. Once   *)
(* the search has ended, the same request may be checked again.            *)
(***************************************************************************)
EXTENDS CheckRequest

CONSTANT Requests

VARIABLES
  req,
  visited,
  frontier,   \* set of states
  depth,
  limited,    \* a limit ended the search
  found,      \* alwaysStep property -> {} or the violating edge
  status      \* "running" or "done"

vars == <<req, visited, frontier, depth, limited, found, status>>

Init ==
  /\ req \in Requests
  /\ visited = SeedStates(req) /\ frontier = SeedStates(req)
  /\ depth = 0 /\ limited = FALSE
  /\ found = [p \in req.steps |-> {}]
  /\ status = "running"

\* The first violating edge of the layer is recorded.
Observed(edges) ==
  [p \in req.steps |->
     IF found[p] # {} THEN found[p] ELSE First(edges \cap req.stepBad[p])]

Decided(verdicts) ==
  req.always = {} /\ req.steps # {} /\ \A p \in req.steps : verdicts[p] # {}

Running ==
  /\ status = "running" /\ ~limited /\ ~Decided(found)
  /\ frontier # {} /\ depth < req.maxDepth

\* Every successor of the frontier is visited, every edge out of it observed.
Layer ==
  /\ Running
  /\ found' = Observed(EdgesFrom(req, frontier))
  /\ ~Decided(found')
  /\ visited' = visited \cup Succ(req, frontier)
  /\ frontier' = Succ(req, frontier) \ visited
  /\ depth' = depth + 1
  /\ UNCHANGED <<req, limited, status>>

\* The layer decides the last property: nothing of it needs to be visited.
LastLayer ==
  /\ Running
  /\ found' = Observed(EdgesFrom(req, frontier))
  /\ Decided(found')
  /\ frontier' = {}
  /\ depth' = depth + 1
  /\ UNCHANGED <<req, visited, limited, status>>

\* A limit ends the search before, within or after a layer.
Cut ==
  /\ status = "running" /\ ~limited /\ Limited(req)
  /\ limited' = TRUE
  /\ \/ UNCHANGED <<visited, frontier, depth, found>>
     \/ /\ Running
        /\ depth' = depth + 1
        /\ \E S \in SUBSET (Succ(req, frontier) \ visited) :
             visited' = visited \cup S /\ frontier' = S
        /\ \E E \in SUBSET EdgesFrom(req, frontier) : found' = Observed(E)
  /\ UNCHANGED <<req, status>>

Finish ==
  /\ status = "running" /\ ~Running
  /\ status' = "done"
  /\ UNCHANGED <<req, visited, frontier, depth, limited, found>>

Again == status = "done" /\ UNCHANGED req /\ Init'

Next == Layer \/ LastLayer \/ Cut \/ Finish \/ Again

Spec == Init /\ [][Next]_vars
=============================================================================
