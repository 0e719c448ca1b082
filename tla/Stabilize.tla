----------------------------- MODULE Stabilize -----------------------------
(***************************************************************************)
(* Macro-steps of the native checker: an event, the reset of mount-local   *)
(* variables (crates/checker/src/mount.rs), then the internal transitions  *)
(* (effects of React components) in rounds until a round finds none to run *)
(* (crates/checker/src/stabilize.rs).                                      *)
(*                                                                         *)
(* Guards and effects are data: the states in which a transition is        *)
(* enabled, and the posts of its effect. A candidate is a state with the   *)
(* variables that changed in the round that produced it.                   *)
(***************************************************************************)
EXTENDS Naturals, FiniteSets, Sequences

CONSTANTS
  NumVars,     \* variables are numbered in the order of their declarations
  Value,
  Unmounted,
  Internal,    \* internal transitions, numbered in the order of their ids
  Systems      \* name -> system

Var   == 1..NumVars
State == [Var -> Value \cup {Unmounted}]

Option(S) == {x \in SUBSET S : \A a, b \in x : a = b}

Changed(s, t) == {x \in Var : s[x] # t[x]}

System ==
  [initial : [Var -> SUBSET Value],      \* initial values
   event   : [State -> SUBSET State],    \* posts of the other transitions' effects
   enabled : [Internal -> SUBSET State], \* the guard holds and the locals are mounted
   trigger : [Internal -> SUBSET Var],   \* triggeredBy, {} if there is none
   effect  : [Internal -> [State \X State -> SUBSET State]],  \* by <<pre-state, state>>
   reads   : [Internal -> SUBSET Var],   \* by guard, effect and mount guards
   writes  : [Internal -> SUBSET Var],
   phase   : [Internal -> Option(Nat)],
   local   : SUBSET Var,                 \* the mount-local variables,
   when    : [Var -> SUBSET State],      \* the states in which they are mounted
   whenReads : [Var -> SUBSET Var],      \* and what their mount guards read
   maxInternalSteps : Nat]

\* Effects change what they declare, which the validation of the IR makes sure of.
WritesDeclared(S) ==
  \A t \in Internal, pre, s \in State : \A post \in S.effect[t][<<pre, s>>] :
    Changed(s, post) \subseteq S.writes[t]

\* A mount guard depends on what it reads, what is written to a local is a value,
\* and an internal transition that writes a local is not enabled unless the local
\* is mounted (transition_locals_mounted).
LocalsDeclared(S) ==
  \A x \in S.local :
    /\ \A s, t \in State :
         (\A y \in S.whenReads[x] : s[y] = t[y]) => (s \in S.when[x] <=> t \in S.when[x])
    /\ \A s \in State : \A post \in S.event[s] : post[x] = Unmounted => s[x] = Unmounted
    /\ \A t \in Internal : x \in S.writes[t] =>
         \A s \in S.enabled[t] :
           /\ s \in S.when[x]
           /\ \A pre \in State : \A post \in S.effect[t][<<pre, s>>] :
                post[x] = Unmounted => s[x] = Unmounted

Agree(X, s, t) == \A x \in X : s[x] = t[x]

\* What the guard and the effect of a transition do depends on what it reads: from
\* states that agree on it each post has its like, where a variable has been given
\* the same value or has been left alone both times.
DependsOn(X, guard, effect) ==
  \A s, u \in State : Agree(X, s, u) =>
    /\ s \in guard <=> u \in guard
    /\ \A p, q \in State : Agree(X, p, q) =>
         \A post \in effect[<<p, s>>] : \E like \in effect[<<q, u>>] :
           \A x \in Var : like[x] = post[x] \/ (post[x] = s[x] /\ like[x] = u[x])

ASSUME VarAssumption == NumVars \in Nat
ASSUME InternalAssumption == Internal \subseteq Nat /\ IsFiniteSet(Internal)
ASSUME ValueAssumption == Unmounted \notin Value
ASSUME SystemAssumption ==
  \A name \in DOMAIN Systems : /\ Systems[name] \in System
                             /\ WritesDeclared(Systems[name]) /\ LocalsDeclared(Systems[name])
ASSUME ReadsAssumption ==
  \A rule \in {<<Systems[name].reads[t], Systems[name].enabled[t], Systems[name].effect[t]>> :
               name \in DOMAIN Systems, t \in Internal} :
    DependsOn(rule[1], rule[2], rule[3])

VARIABLES
  sys,
  pc,
  origin,   \* the settled state the macro-step began in, {} for an initial state
  locals,   \* mount-local variables not yet looked at in this reset
  cands,    \* the candidates
  rounds,   \* rounds done
  work      \* the round's branches: a candidate, what is left to run, the state now

vars == <<sys, pc, origin, locals, cands, rounds, work>>

S == Systems[sys]

Candidate == [state : State, changed : SUBSET Var]
Branch    == [cand : Candidate, rest : Seq(Internal), now : State]

-----------------------------------------------------------------------------
(* One round: the internal transitions a candidate triggers, the orders in *)
(* which they are tried, and what each order makes of the state.           *)

Triggered(t, changed) == S.trigger[t] = {} \/ S.trigger[t] \cap changed # {}

Runnable(c) == {t \in Internal : c.state \in S.enabled[t] /\ Triggered(t, c.changed)}

\* Mutant: only neighbours are compared.
ConflictOfNeighbours(t, u) == u = t + 1 /\ S.writes[t] \cap S.writes[u] # {}

Conflict(t, u) == t # u /\ S.writes[t] \cap S.writes[u] # {}

\* A transition without a phase comes after all that have one.
Earlier(t, u) ==
  \/ S.phase[t] # {} /\ S.phase[u] = {}
  \/ \E m \in S.phase[t], n \in S.phase[u] : m < n

Orders(T) ==
  {o \in [1..Cardinality(T) -> T] : \A i, j \in DOMAIN o : o[i] = o[j] => i = j}

ById(o) == \A i, j \in DOMAIN o : i < j => o[i] < o[j]

ByPhase(o) == \A i, j \in DOMAIN o : i < j => ~Earlier(o[j], o[i])

\* Without a write conflict one order is enough, else all that respect phases.
Sequences(T) ==
  IF \E t, u \in T : Conflict(t, u)
  THEN {o \in Orders(T) : ByPhase(o)}
  ELSE {o \in Orders(T) : ById(o)}

Branches(c) == {[cand |-> c, rest |-> o, now |-> c.state] : o \in Sequences(Runnable(c))}

\* The guard is evaluated again before each transition; the effect sees the
\* state the round began with as its pre-state, so it resets no mount-local.
Applied(w) ==
  IF w.rest = <<>> THEN {w}
  ELSE LET t == Head(w.rest) IN
       {[w EXCEPT !.rest = Tail(@), !.now = post] :
          post \in IF w.now \in S.enabled[t] THEN S.effect[t][<<w.cand.state, w.now>>]
                   ELSE {w.now}}

\* Mutant: the changes of earlier rounds are kept.
ResultAccumulated(w) ==
  IF Runnable(w.cand) = {} THEN w.cand
  ELSE [state |-> w.now, changed |-> w.cand.changed \cup Changed(w.cand.state, w.now)]

\* A candidate with nothing to run stays as it is.
Result(w) ==
  IF Runnable(w.cand) = {} THEN w.cand
  ELSE [state |-> w.now, changed |-> Changed(w.cand.state, w.now)]

\* Of the candidates with the same state only the first one is kept; which one
\* that is depends on ids and on the order of domains, so it may be any.
Deduplicated(C) ==
  {K \in SUBSET C : /\ \A c, d \in K : c.state = d.state => c = d
                    /\ \A c \in C : \E k \in K : k.state = c.state}

Busy == \E c \in cands : Runnable(c) # {}

-----------------------------------------------------------------------------
(* Mount-local variables: reset_mount_locals looks at them in declaration  *)
(* order, and evaluates each guard on what has become of the state so far. *)

\* Mutant: what is mounted is read off the state before the event.
RenewedStale(s, x) ==
  IF origin \cap S.when[x] = {} /\ s \notin S.when[x] THEN {[s EXCEPT ![x] = Unmounted]}
  ELSE IF origin = {} \/ origin \cap S.when[x] # {} THEN {s}
  ELSE {[s EXCEPT ![x] = v] : v \in S.initial[x]}

\* In initial states a mounted local keeps its value; later on only if it was
\* mounted before the event.
Renewed(s, x) ==
  IF s \notin S.when[x] THEN {[s EXCEPT ![x] = Unmounted]}
  ELSE IF origin = {} \/ origin \cap S.when[x] # {} THEN {s}
  ELSE {[s EXCEPT ![x] = v] : v \in S.initial[x]}

Begin(s) ==
  /\ pc' = "mount"
  /\ cands' = {[state |-> s, changed |-> {}]}
  /\ locals' = S.local

ResetLocal ==
  /\ pc = "mount" /\ locals # {}
  /\ \E x \in locals : \E c \in cands :
       /\ \A y \in locals : x <= y
       /\ \E s \in Renewed(c.state, x) : cands' = {[c EXCEPT !.state = s]}
       /\ locals' = locals \ {x}
  /\ UNCHANGED <<sys, pc, origin, rounds, work>>

\* Mutant: nothing counts as changed in an initial state.
MountedUnchanged ==
  /\ pc = "mount" /\ locals = {}
  /\ cands' = {[c EXCEPT !.changed = UNION {Changed(s, c.state) : s \in origin}] : c \in cands}
  /\ pc' = "round" /\ rounds' = 0
  /\ UNCHANGED <<sys, origin, locals, work>>

\* Everything counts as changed in an initial state.
Mounted ==
  /\ pc = "mount" /\ locals = {}
  /\ cands' = {[c EXCEPT !.changed = IF origin = {} THEN Var
                                     ELSE UNION {Changed(s, c.state) : s \in origin}] :
                 c \in cands}
  /\ pc' = "round" /\ rounds' = 0
  /\ UNCHANGED <<sys, origin, locals, work>>

-----------------------------------------------------------------------------
\* Mutant: one round too many.
BeginRoundOnceMore ==
  /\ pc = "round" /\ rounds <= S.maxInternalSteps
  /\ work' = UNION {Branches(c) : c \in cands}
  /\ pc' = "run"
  /\ UNCHANGED <<sys, origin, locals, cands, rounds>>

BeginRound ==
  /\ pc = "round" /\ rounds < S.maxInternalSteps
  /\ work' = UNION {Branches(c) : c \in cands}
  /\ pc' = "run"
  /\ UNCHANGED <<sys, origin, locals, cands, rounds>>

RunNext ==
  /\ pc = "run" /\ \E w \in work : w.rest # <<>>
  /\ work' = UNION {Applied(w) : w \in work}
  /\ UNCHANGED <<sys, pc, origin, locals, cands, rounds>>

EndRound ==
  /\ pc = "run" /\ \A w \in work : w.rest = <<>>
  /\ cands' \in Deduplicated({Result(w) : w \in work})
  /\ rounds' = rounds + 1
  /\ pc' = IF Busy THEN "round" ELSE "stable"
  /\ work' = {}
  /\ UNCHANGED <<sys, origin, locals>>

\* stabilize returns an error, and its callers take that for no state at all.
GiveUp ==
  /\ pc = "round" /\ rounds >= S.maxInternalSteps
  /\ cands' = {} /\ pc' = "stable"
  /\ UNCHANGED <<sys, origin, locals, rounds, work>>

\* The search goes on from each of the states, or from the state the event
\* happened in if there are none.
Settle ==
  /\ pc = "stable"
  /\ \/ \E c \in cands : origin' = {c.state}
     \/ cands = {} /\ origin' = origin
  /\ cands' = {} /\ rounds' = 0 /\ pc' = "settled"
  /\ UNCHANGED <<sys, locals, work>>

Event ==
  /\ pc = "settled"
  /\ \E s \in origin : \E raw \in S.event[s] : Begin(raw)
  /\ UNCHANGED <<sys, origin, rounds, work>>

Init ==
  /\ sys \in DOMAIN Systems
  /\ pc = "mount" /\ origin = {} /\ locals = S.local
  /\ \E s \in State : /\ \A x \in Var : s[x] \in S.initial[x]
                      /\ cands = {[state |-> s, changed |-> {}]}
  /\ rounds = 0 /\ work = {}

Next ==
  ResetLocal \/ Mounted \/ BeginRound \/ RunNext \/ EndRound \/ GiveUp \/ Settle \/ Event

Spec == Init /\ [][Next]_vars

-----------------------------------------------------------------------------
(* Properties.                                                             *)

\* Types, and no macro-step goes on for more rounds than it may.
TypeOK ==
  /\ sys \in DOMAIN Systems
  /\ pc \in {"mount", "round", "run", "stable", "settled"}
  /\ origin \in Option(State)
  /\ locals \subseteq S.local
  /\ cands \subseteq Candidate
  /\ rounds \in 0..S.maxInternalSteps
  /\ work \subseteq Branch

\* Ranks of transitions that grow along chains of transitions that trigger each
\* other, and are small enough for the last one to be run in the last round but
\* one: the last round finds that nothing is left.
Rankings ==
  {rank \in [Internal -> {n \in 0..S.maxInternalSteps : n + 2 <= S.maxInternalSteps}] :
     \A t, u \in Internal : S.writes[t] \cap S.trigger[u] # {} => rank[t] < rank[u]}

Acyclic ==
  /\ S.maxInternalSteps > 0
  /\ \A t \in Internal : S.trigger[t] # {}
  /\ Rankings # {}

\* Transitions that do not trigger each other in a circle always stabilize: the
\* error of stabilize is never their fault, if maxInternalSteps exceeds the
\* length of the longest chain (stabilize.rs, the loop and its error).
AcyclicSettles == Acyclic /\ pc = "round" => rounds < S.maxInternalSteps

\* The states in which a run in the order o may end.
RunInOrder(o, pre) ==
  LET R[n \in 0..Len(o)] ==
        IF n = 0 THEN {pre}
        ELSE UNION {IF s \in S.enabled[o[n]] THEN S.effect[o[n]][<<pre, s>>] ELSE {s} :
                      s \in R[n - 1]}
  IN  R[Len(o)]

\* The orders React may commit the effects in: phases decide between conflicting ones.
Admissible(T) ==
  {o \in Orders(T) :
     \A i, j \in DOMAIN o : i < j /\ Conflict(o[i], o[j]) => ~Earlier(o[j], o[i])}

Independent(T) == \A t, u \in T : t = u \/ S.reads[t] \cap S.writes[u] = {}

\* A round has the results of all the orders React may commit the effects in,
\* and no others, though it tries only one order if there is no write conflict
\* and no order against the phases if there is one; as long as no transition
\* reads what another one writes (stabilizing_sequences).
EveryOrderIsCovered ==
  pc = "run" /\ (\A w \in work : w.rest = <<>>) =>
    \A c \in cands : Runnable(c) # {} /\ Independent(Runnable(c)) =>
      {w.now : w \in {b \in work : b.cand = c}}
        = UNION {RunInOrder(o, c.state) : o \in Admissible(Runnable(c))}

\* A transition that keeps variables of its own up to date with those it is
\* triggered by, which no two internal transitions fight over.
Derives(t) ==
  /\ S.reads[t] \subseteq S.trigger[t]
  /\ S.writes[t] \cap S.trigger[t] = {}
  /\ (S.writes[t] \cup S.trigger[t]) \cap S.local = {}
  /\ \A u \in Internal \ {t} : S.writes[u] \cap S.writes[t] = {}
  /\ \A u, v \in Internal : u # v => S.writes[u] \cap S.writes[v] \cap S.trigger[t] = {}
  /\ \A s \in State : /\ \A post \in S.event[s] : Changed(s, post) \cap S.writes[t] = {}
                      /\ \E post \in State : S.effect[t][<<s, s>>] = {post}

\* Derived state is up to date in every state that is handed out: to run its
\* transition again would change nothing. A round that dropped a trigger, in an
\* initial state, between rounds or between branches, would leave it stale
\* (internal_triggered, apply_internal_sequence, unique_stabilizing_states).
DerivedStateIsUpToDate ==
  pc = "stable" => \A c \in cands, t \in Internal :
    Derives(t) /\ c.state \in S.enabled[t] => S.effect[t][<<c.state, c.state>>] = {c.state}

FollowsMount(s) == \A x \in S.local : s[x] = Unmounted <=> s \notin S.when[x]

\* Only events, not internal transitions, write what mount guards read, and
\* no guard reads a local declared later.
EventsDecideMounting ==
  \A x \in S.local : /\ \A t \in Internal : S.writes[t] \cap S.whenReads[x] = {}
                     /\ \A y \in S.whenReads[x] \cap S.local : y < x

\* In every state that is handed out exactly the mounted locals have a value, if
\* only events decide what is mounted (reset_mount_locals, transition_locals_mounted).
LocalsFollowMount ==
  EventsDecideMounting /\ pc = "stable" => \A c \in cands : FollowsMount(c.state)

\* The same of all systems, as docs/_specs/01-ir.md:77 has it.
LocalsAlwaysFollowMount == pc = "stable" => \A c \in cands : FollowsMount(c.state)
=============================================================================
