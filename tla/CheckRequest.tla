---------------------------- MODULE CheckRequest ----------------------------
(***************************************************************************)
(* The input of the native checker as the search sees it: a finite graph   *)
(* of stabilised states given by initial states, enabled transitions and   *)
(* stabilised posts, with the properties and the options of the request    *)
(* (crates/checker/src/model.rs). States are canonical identities          *)
(* (canon.rs), numbered in the order of their canonical bytes; transitions *)
(* are the indices of the non-internal transitions.                        *)
(***************************************************************************)
EXTENDS Naturals, FiniteSets, Sequences

CONSTANTS
  State,        \* canonical identities, numbered in canonical order
  Transition,   \* transition indices
  StepProp,     \* names for alwaysStep properties
  AlwaysProp,   \* names for temporal properties of the form AG p
  MaxPosts      \* bound on the posts of one transition from one state

Option(S) == {x \in SUBSET S : \A a, b \in x : a = b}    \* Rust's Option<S>

SeqUpTo(S, n) == UNION {[1..k -> S] : k \in 0..n}

Request ==
  [seeds   : Seq(State),                   \* stabilised initial states
   enabled : [State -> SUBSET Transition],
   posts   : [State \X Transition -> SeqUpTo(State, MaxPosts)],
   capped  : SUBSET (State \X Transition), \* the effect reports a cap that it hit
   steps   : SUBSET StepProp,              \* the properties to check, and
   always  : SUBSET AlwaysProp,            \* the edges and states violating them
   stepBad : [StepProp -> SUBSET (State \X Transition \X State)],
   bad     : [AlwaysProp -> SUBSET State],
   shard   : [State -> Nat],               \* high bits of the canonical hash
   maxDepth    : Nat,
   maxStates   : Option(Nat),
   maxEdges    : Option(Nat),
   maxFrontier : Option(Nat),
   memoryGuard : BOOLEAN]                  \* memoryGuardBytes is given

ASSUME StateAssumption == State \subseteq Nat /\ IsFiniteSet(State)
ASSUME TransitionAssumption == Transition \subseteq Nat
ASSUME PostsAssumption == MaxPosts \in Nat
ASSUME PropertyAssumption == StepProp \cap AlwaysProp = {}

-----------------------------------------------------------------------------
SeedStates(r) == {r.seeds[i] : i \in DOMAIN r.seeds}

Posts(r, s, t) == r.posts[<<s, t>>]

\* The edges <<pre, transition, post>> out of a set of states.
EdgesFrom(r, S) ==
  {e \in S \X Transition \X State :
      /\ e[2] \in r.enabled[e[1]]
      /\ \E b \in DOMAIN Posts(r, e[1], e[2]) : Posts(r, e[1], e[2])[b] = e[3]}

\* sort_key: edges are ordered by pre state, transition and post state.
SortKeyLess(e, f) ==
  \/ e[1] < f[1]
  \/ e[1] = f[1] /\ e[2] < f[2]
  \/ e[1] = f[1] /\ e[2] = f[2] /\ e[3] < f[3]

First(E) == {e \in E : \A f \in E : ~SortKeyLess(f, e)}

Succ(r, S) == {e[3] : e \in EdgesFrom(r, S)}

\* The stabilised states a request can reach: the least closed set of states.
Reachable(r) ==
  {s \in State : \A C \in SUBSET State :
      SeedStates(r) \subseteq C /\ Succ(r, C) \subseteq C => s \in C}

\* The states reachable in at most n steps, and the distance of a state.
Within(r) ==
  LET W[n \in 0..Cardinality(State)] ==
        IF n = 0 THEN SeedStates(r) ELSE W[n - 1] \cup Succ(r, W[n - 1])
  IN  W

Distance(r, s) ==
  LET W == Within(r)
  IN  CHOOSE n \in DOMAIN W : s \in W[n] /\ \A m \in DOMAIN W : m < n => s \notin W[m]

\* Some search limit is configured.
Limited(r) ==
  r.maxStates # {} \/ r.maxEdges # {} \/ r.maxFrontier # {} \/ r.memoryGuard
=============================================================================
