--------------------------- MODULE MCSearchTwice ---------------------------
(***************************************************************************)
(* Instances of SearchTwice: the graph and the requests of MCSearch, whose *)
(* second layer has two states to expand; some limits bite in the middle   *)
(* of it.                                                                  *)
(***************************************************************************)
EXTENDS MCSearch, SearchTwice

\* limits that are hit while several workers expand a layer
TwiceRequests ==
  {[Graph EXCEPT !.maxStates = {4}], [Graph EXCEPT !.maxEdges = {3}],
   [Graph EXCEPT !.maxEdges = {5}],
   [Graph EXCEPT !.maxStates = {5}, !.maxEdges = {4}],
   [Graph EXCEPT !.maxStates = {6}, !.maxEdges = {5}]}

AllRequests == MCRequests \cup TwiceRequests
=============================================================================
