---------------------------- MODULE MCStabilize ----------------------------
(***************************************************************************)
(* Stabilize with three variables and three internal transitions, each of  *)
(* them any of a few assignments: in a model without mount-local variables *)
(* that write to and trigger each other in all ways, and in models in which *)
(* the first variable is the location that mounts the last one, or both    *)
(* others one inside the other.                                            *)
(***************************************************************************)
EXTENDS Stabilize

MCNumVars  == 3
MCValue    == {0, 1}
MCInternal == 1..3

\* An internal transition triggered by the variables X that assigns y a value of
\* choice[<<pre-state, state>>].
Assign(X, guard, y, choice) ==
  [trigger |-> X, reads |-> X, writes |-> {y}, enabled |-> guard,
   effect |-> [p \in State \X State |-> {[p[2] EXCEPT ![y] = v] : v \in choice[p]}]]

Copy(x, y)    == Assign({x}, State, y, [p \in State \X State |-> {p[2][x]}])
CopyPre(x, y) == Assign({x}, State, y, [p \in State \X State |-> {p[1][x]}])
Choose(x, y)  == Assign({x}, State, y, [p \in State \X State |-> {0, 1}])
Set(x, v, y, w) == Assign({x}, {s \in State : s[x] = v}, y, [p \in State \X State |-> {w}])
Both(x, z, y) ==
  Assign({x, z}, State, y, [p \in State \X State |-> {IF p[2][x] = p[2][z] THEN 1 ELSE 0}])
Flip(y) ==
  [Assign({y}, State, y, [p \in State \X State |-> {IF p[2][y] = 0 THEN 1 ELSE 0}])
     EXCEPT !.trigger = {}]

Global == <<Copy(1, 2), Copy(2, 3), CopyPre(1, 3), Both(1, 2, 3), Choose(1, 3), Set(1, 1, 2, 0),
            Set(2, 1, 1, 0), Flip(2)>>
Local  == <<Set(1, 1, 2, 1), Set(1, 0, 3, 0), Set(2, 1, 3, 1), Choose(2, 3)>>

Free == [local     |-> {},
         when      |-> [x \in Var |-> State],
         whenReads |-> [x \in Var |-> {}]]
Page == [local     |-> {3},
         when      |-> [x \in Var |-> IF x = 3 THEN {s \in State : s[1] = 0} ELSE State],
         whenReads |-> [x \in Var |-> IF x = 3 THEN {1} ELSE {}]]
Tab  == [local     |-> {2, 3},
         when      |-> [x \in Var |-> IF x = 1 THEN State
                                      ELSE {s \in State : s[1] = 0 /\ (x = 3 => s[2] = 1)}],
         whenReads |-> [x \in Var |-> 1..(x - 1)]]

\* What one cannot write while it is not mounted, and the new values.
Writable(m, s, x) == x \notin m.local \/ s \in m.when[x]

Build(m, rules, writable, phases, max) ==
  LET used(t) == (rules[t].reads \cup rules[t].writes) \cap m.local IN
  [initial   |-> [x \in Var |-> IF x = 1 THEN {0, 1} ELSE {0}],
   event     |-> [s \in State |-> UNION {{[s EXCEPT ![x] = v] : v \in Value \ {s[x]}} :
                                           x \in {y \in writable : Writable(m, s, y)}}],
   enabled   |-> [t \in Internal |-> {s \in rules[t].enabled : \A x \in used(t) : s \in m.when[x]}],
   trigger   |-> [t \in Internal |-> rules[t].trigger],
   effect    |-> [t \in Internal |-> rules[t].effect],
   reads     |-> [t \in Internal |-> rules[t].reads \cup UNION {m.whenReads[x] : x \in used(t)}],
   writes    |-> [t \in Internal |-> rules[t].writes],
   phase     |-> phases,
   local     |-> m.local,
   when      |-> m.when,
   whenReads |-> m.whenReads,
   maxInternalSteps |-> max]

NoPhases == [t \in Internal |-> {}]
Reversed == [t \in Internal |-> IF t = 1 THEN {} ELSE {3 - t}]

FreeSystems ==
  [n \in [Internal -> DOMAIN Global] \X {<<NoPhases, 2>>, <<NoPhases, 3>>, <<Reversed, 3>>} |->
     Build(Free, [t \in Internal |-> Global[n[1][t]]], {1}, n[2][1], n[2][2])]
LocalSystems(m) ==
  [n \in [Internal -> DOMAIN Local] |->
     Build(m, [t \in Internal |-> Local[n[t]]], Var, NoPhases, 3)]

MCSystems ==
  [n \in ({"free"} \X DOMAIN FreeSystems) \cup ({"page", "tab"} \X [Internal -> DOMAIN Local]) |->
     IF n[1] = "free" THEN FreeSystems[n[2]]
     ELSE LocalSystems(IF n[1] = "page" THEN Page ELSE Tab)[n[2]]]

\* A page that the user is sent back to.
RedirectSystems ==
  [n \in {"redirect"} |->
     Build(Page, [t \in Internal |-> IF t = 1 THEN Set(1, 1, 1, 0) ELSE Set(2, 1, 2, 0)], {1},
           NoPhases, 3)]
=============================================================================
