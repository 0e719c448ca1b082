------------------------------ MODULE Slicing ------------------------------
(***************************************************************************)
(* checkModel with slicing: for every property the model is reduced to the *)
(* variables and transitions its verdict is thought to depend on, the       *)
(* properties with the same slice are checked together, and the verdicts    *)
(* of the groups are merged.                                                *)
(*                                                                         *)
(* A behaviour slices the properties of one request one after the other:    *)
(* Request seeds the closure, ExpandMounts and Visit are the passes of      *)
(* reachVarsThroughTransitions, Finish builds the slice and puts the        *)
(* property into its group, CheckGroup and Merge end the request.           *)
(*                                                                         *)
(* The models that are sliced are given as data: guards are conjunctions of *)
(* comparisons of a variable with a value, effects are sequences of         *)
(* statements on one variable, each under an optional condition.  The       *)
(* value of a pending queue is its length.                                  *)
(***************************************************************************)
EXTENDS Naturals, Integers, Sequences, FiniteSets, Functions

CONSTANTS Vars,        \* ids of the variables of the model
          Queue,       \* the pending-queue variable, one of them
          Mount,       \* mount-local variable -> atom it is mounted under
          Dom,         \* variable -> its values, a set of naturals
          MaxPending,  \* bounds.maxPending
          Requests,    \* the <<transitions, properties>> that are checked
          Depth        \* bound: longest path the reference search follows

ASSUME SlicingAssumption ==
    /\ Queue \in Vars /\ DOMAIN Mount \subseteq Vars \ {Queue}
    /\ \A v \in DOMAIN Mount : Mount[v].var \in Vars \ DOMAIN Mount
    /\ Dom \in [Vars -> SUBSET Nat] /\ MaxPending \in Nat /\ Depth \in Nat

VARIABLES model,       \* the transitions of the model, in its order
          props,       \* the properties of the request
          at,          \* index of the property being sliced
          needed,      \* neededVars, or executionVars of a targeted step
          kept,        \* neededTransitions
          next,        \* transition the pass looks at, 0 = mount guards
          changed,     \* the pass added something
          slices,      \* property -> its slice, for those sliced
          groups,      \* sequence of [slice, members]
          checked,     \* groups that were checked
          merged,      \* name -> first verdict given under it
          verdicts,    \* property -> verdict, at the end
          pc
vars == <<model, props, at, needed, kept, next, changed, slices, groups,
          checked, merged, verdicts, pc>>

Unmounted == -1
Missing == -2          \* what reading a variable the model lacks gives
NoTarget == 0          \* a step property without transitionId
NoSlice == [vars |-> {}, trans |-> {}, mode |-> "none"]

AtomVars(atoms) == {a.var : a \in atoms}
StatementReads(st) ==
    AtomVars(st.cond) \union (IF st.src.kind = "read" THEN {st.src.var} ELSE {})
EffectReads(effect) == UNION {StatementReads(effect[i]) : i \in DOMAIN effect}
EffectWrites(effect) == {effect[i].var : i \in DOMAIN effect}
Ops == {"enqueue", "dequeue"}
Ids == {model[i].id : i \in DOMAIN model}
ById(id) == CHOOSE t \in {model[i] : i \in DOMAIN model} : t.id = id
(* Variables readPre takes from the state before the event.                    *)
PreReads(effect) ==
    {effect[i].src.var : i \in {j \in DOMAIN effect : effect[j].src.kind = "pre"}}
(* What the extraction declares.  dequeue reads the queue in addition.        *)
Reads(t) == AtomVars(t.guard) \union EffectReads(t.effect) \union PreReads(t.effect)
Writes(t) == EffectWrites(t.effect)

(* What the IR has to be (validateModel): ids are unique, and guards, effects  *)
(* and properties are about variables there are.                              *)
IsAtom(a) == a.var \in Vars /\ a.op \in {"eq", "neq", "gte"}
IsStatement(st) ==
    /\ st.op \in Ops \union {"assign", "havoc"} /\ st.var \in Vars
    /\ st.op \in Ops => st.var = Queue
    /\ st.src.kind \in {"lit", "read", "pre"} /\ (st.src.kind # "lit" => st.src.var \in Vars)
    /\ \A a \in st.cond : IsAtom(a)
IsTransition(t) ==
    /\ \A a \in t.guard : IsAtom(a)
    /\ t.effect \in Seq(Range(t.effect)) /\ \A st \in Range(t.effect) : IsStatement(st)
IsProperty(p) ==
    /\ p.kind \in {"AG", "EF", "step", "leads"} /\ p.changed \subseteq Vars
    /\ \A a \in p.atoms \union p.pre : IsAtom(a)
    /\ p.kind = "leads" => p.budget \in Nat

ASSUME RequestsAssumption ==
    \A r \in Requests :
       /\ r[1] \in Seq(Range(r[1])) /\ \A i \in DOMAIN r[1] : IsTransition(r[1][i])
       /\ \A i, j \in DOMAIN r[1] : r[1][i].id = r[1][j].id => i = j
       /\ r[2] \in Seq(Range(r[2])) /\ \A k \in DOMAIN r[2] : IsProperty(r[2][k])

-----------------------------------------------------------------------------
(* What a property depends on.                                                *)

StateReads(p) ==
    AtomVars(p.atoms) \union AtomVars(p.pre) \union p.changed

HasKnownDependencies(p) == StateReads(p) # {} \/ p.observed # {}
(* A property about every step that depends on nothing has the full model.     *)
Mode(p) == CASE p.kind = "step" /\ p.target # NoTarget ->
                    IF p.negate THEN "targetedStep" ELSE "full"
             [] p.kind = "step" /\ p.target = NoTarget /\ ~HasKnownDependencies(p) -> "full"
             [] OTHER -> "state"

MountReads(vs) == {Mount[v].var : v \in vs \intersect DOMAIN Mount}
ObservedVars(ids) ==
    LET read == UNION {AtomVars(ById(id).guard) : id \in ids \intersect Ids}
    IN  read \union MountReads(read)

(* Transitions a property observes: those it asks to be enabled, and the one     *)
(* that triggers a leadsToWithin property.                                    *)
ObservedBy(p) ==
    p.observed \union (IF p.kind = "leads" /\ p.target # NoTarget THEN {p.target} ELSE {})

(* A predicate all of whose conjuncts compare a variable (not an entry of a     *)
(* queue) with a literal by = or #.                                           *)
Simple(atoms) ==
    atoms # {} /\ \A a \in atoms : a.op \in {"eq", "neq"} /\ a.var # Queue
Directional(p) == p.kind = "EF" /\ p.observed = {} /\ Simple(p.atoms)

GuardEnabledAtInitial(t) ==
    \A a \in t.guard : CASE a.op = "eq" -> a.val = 0
                         [] a.op = "neq" -> a.val # 0
                         [] OTHER -> a.val <= 0

(* What a targeted step runs on: its own reads, and of its writes those its    *)
(* postcondition mentions (which are reads of the property already).          *)
TargetSeed(t) ==
    Reads(t) \union (IF \E i \in DOMAIN t.effect : t.effect[i].op = "dequeue"
                     THEN {Queue} ELSE {})
Target(p) == ById(p.target)
HasTarget(p) == p.target \in Ids
Seed(p) ==
    IF Mode(p) = "targetedStep"
    THEN StateReads(p) \union (IF HasTarget(p) THEN TargetSeed(Target(p)) ELSE {})
    ELSE StateReads(p) \union ObservedVars(ObservedBy(p))
(* goalVars and seedVars: taken before the reads of the target are added.     *)
GoalVars(p) ==
    IF Mode(p) = "targetedStep" THEN StateReads(p) ELSE Seed(p)

(* The clauses the direction of a write is judged by; {} means any direction.  *)
Clauses(p) ==
    IF Mode(p) = "targetedStep"
    THEN IF HasTarget(p) THEN Target(p).guard ELSE {}
    ELSE IF Directional(p) THEN p.atoms ELSE {}
(* A targeted step looks for writers only if its guard does not hold at first  *)
(* and is simple, and then for writers of the guard alone.                    *)
LooksForWriters(p) ==
    CASE Mode(p) = "full" -> FALSE
      [] Mode(p) = "targetedStep" ->
           HasTarget(p) /\ ~GuardEnabledAtInitial(Target(p)) /\ Simple(Target(p).guard)
      [] OTHER -> TRUE

-----------------------------------------------------------------------------
(* The closure.                                                               *)

(* The elements of a sequence that are good, in order: SelectSeq, which the    *)
(* provers know nothing of.                                                   *)
Only(seq, good) ==
    LET upTo[n \in 0..Len(seq)] ==
          IF n = 0 THEN <<>>
          ELSE IF seq[n] \in good THEN Append(upTo[n - 1], seq[n]) ELSE upTo[n - 1]
    IN  upTo[Len(seq)]

(* Mutant: a kept statement loses the condition it is under.                  *)
ProjectWithoutCond(effect, vs) ==
    LET kept1 == Only(effect, {st \in Range(effect) : st.op \in Ops \/ st.var \in vs})
    IN  [i \in DOMAIN kept1 |-> [kept1[i] EXCEPT !.cond = {}]]
ProjectToVars(effect, vs) ==
    Only(effect, {st \in Range(effect) : st.op \in Ops \/ st.var \in vs})

OnlyHavocs(effect, v) ==
    /\ effect # <<>>
    /\ \A i \in DOMAIN effect :
         effect[i].op = "havoc" /\ effect[i].var = v /\ effect[i].cond = {}

(* shouldSkipUnrelatedHavocTransition                                         *)
SkipsHavoc(t, writes, p) ==
    /\ Mode(p) = "targetedStep" \/ t.id \notin ObservedBy(p)
    /\ writes \intersect GoalVars(p) = {}
    /\ \A v \in writes : OnlyHavocs(t.effect, v)
    /\ Reads(t) \intersect GoalVars(p) = {}

(* isTransitionDirectionallyRelevant                                          *)
Contributes(a, val) == IF a.op = "eq" THEN a.val = val ELSE a.val # val
WritesToward(t, v, clauses) ==
    LET about == {a \in clauses : a.var = v}
        unsupported == \E i \in DOMAIN t.effect :
              \/ t.effect[i].op = "havoc" \/ t.effect[i].cond # {}
              \/ t.effect[i].op = "assign" /\ t.effect[i].var = v
                                           /\ t.effect[i].src.kind # "lit"
    IN  \/ about = {} \/ unsupported
        \/ \E i \in DOMAIN t.effect :
              /\ t.effect[i].op = "assign" /\ t.effect[i].var = v
              /\ \E a \in about : Contributes(a, t.effect[i].src.val)
Relevant(t, writes, p) ==
    Clauses(p) = {} \/ \E v \in writes : WritesToward(t, v, Clauses(p))

NeededWrites(t, p) ==
    {v \in Writes(t) \intersect needed :
        Mode(p) = "targetedStep" => v \in AtomVars(Clauses(p))}

(* addRetainedTransitionInputs: a queue is added by a read, not by a write.    *)
(* Mutant: the guard of a kept transition is not read.                        *)
InputsWithoutGuard(t) ==
    LET projected == ProjectToVars(t.effect, needed)
    IN  EffectReads(projected) \union (EffectWrites(projected) \ {Queue})
Inputs(t) ==
    LET projected == ProjectToVars(t.effect, needed)
    IN  AtomVars(t.guard) \union EffectReads(projected)
          \union (EffectWrites(projected) \ {Queue})

(* Another pass is due.  Mutant: only to look at mount guards again.          *)
AddsNothing(t) == FALSE
Adds(t) == t.id \notin kept \/ ~(Inputs(t) \subseteq needed)
(* Mutant: the pass goes on behind the last transition.                       *)
FollowPast(n) == n + 1
Follow(n) == IF n = Len(model) THEN 0 ELSE n + 1

P == props[at]

(* Start the next property.                                                   *)
Request ==
    /\ pc = "request" /\ at <= Len(props)
    /\ needed' = Seed(P)
    /\ kept' = IF Mode(P) = "targetedStep" THEN {P.target} ELSE {}
    /\ next' = 0 /\ changed' = FALSE
    /\ pc' = IF Mode(P) = "full" THEN "finish" ELSE "closure"
    /\ UNCHANGED <<model, props, at, slices, groups, checked, merged, verdicts>>

(* A pass begins with the mount guards.  A targeted step that looks for no     *)
(* writers has only this to repeat.                                           *)
ExpandMounts ==
    /\ pc = "closure" /\ next = 0
    /\ needed' = needed \union MountReads(needed)
    /\ changed' = (needed' # needed)
    /\ IF LooksForWriters(P) /\ model # <<>>
       THEN next' = 1 /\ pc' = pc
       ELSE /\ next' = 0
            /\ pc' = IF changed' THEN pc ELSE "finish"
    /\ UNCHANGED <<model, props, at, kept, slices, groups, checked, merged, verdicts>>

Visit ==
    /\ pc = "closure" /\ next > 0
    /\ LET t == model[next]
           writes == NeededWrites(t, P)
           keeps == writes # {} /\ ~SkipsHavoc(t, writes, P) /\ Relevant(t, writes, P)
           more == changed \/ (keeps /\ Adds(t))
       IN  /\ kept' = IF keeps THEN kept \union {t.id} ELSE kept
           /\ needed' = IF keeps THEN needed \union Inputs(t) ELSE needed
           /\ changed' = more
           /\ next' = Follow(next)
           /\ pc' = IF next = Len(model) /\ ~more THEN "finish" ELSE pc
    /\ UNCHANGED <<model, props, at, slices, groups, checked, merged, verdicts>>

-----------------------------------------------------------------------------
(* The slice of the closure.                                                  *)

(* Observed transitions keep their guard only, whatever they write.           *)
ObservationOnly(p) == IF Mode(p) = "targetedStep" THEN p.observed \ {p.target}
                                                  ELSE ObservedBy(p)
StripOps(effect) == Only(effect, {st \in Range(effect) : st.op \notin Ops})

Finalized(t, vs, p) ==
    LET stripped == IF Queue \in vs THEN t.effect ELSE StripOps(t.effect)
        effect == ProjectToVars(stripped, vs)
    IN  IF t.id \in ObservationOnly(p)
        THEN [id |-> t.id, guard |-> t.guard, effect |-> <<>>,
              reads |-> AtomVars(t.guard), writes |-> {}]
        ELSE [id |-> t.id, guard |-> t.guard, effect |-> effect,
              reads |-> Reads(t) \intersect vs, writes |-> Writes(t) \intersect vs]

Whole(t) == [id |-> t.id, guard |-> t.guard, effect |-> t.effect,
             reads |-> Reads(t), writes |-> Writes(t)]
FullModel == [vars |-> Vars, mode |-> "full",
              trans |-> {Whole(t) : t \in Range(model)}]

SliceOf(p) ==
    IF Mode(p) = "full" THEN FullModel
    ELSE LET vs == needed \union ObservedVars(ObservationOnly(p))
             ids == kept \union ObservationOnly(p)
             all == {Finalized(t, vs, p) : t \in {u \in Range(model) : u.id \in ids}}
         IN  [vars |-> vs, mode |-> Mode(p),
              trans |-> {t \in all : \/ t.id \in ObservationOnly(p)
                                    \/ t.writes # {} \/ t.effect # <<>>}]

(* Mutant: the transitions of the slice are not part of the key.              *)
KeyOfVars(s) == s.vars
Key(s) == <<s.vars, {t.id : t \in s.trans}, s.mode>>

Finish ==
    /\ pc = "finish"
    /\ LET s == SliceOf(P)
           same == {g \in DOMAIN groups : Key(groups[g].slice) = Key(s)}
       IN  /\ slices' = [slices EXCEPT ![at] = s]
           /\ groups' = IF same = {}
                        THEN Append(groups, [slice |-> s, members |-> <<at>>])
                        ELSE [g \in DOMAIN groups |->
                                IF g \in same
                                THEN [groups[g] EXCEPT !.members = Append(@, at)]
                                ELSE groups[g]]
    /\ at' = at + 1
    /\ pc' = IF at = Len(props) THEN "check" ELSE "request"
    /\ UNCHANGED <<model, props, needed, kept, next, changed, checked, merged, verdicts>>

-----------------------------------------------------------------------------
(* What the engine makes of a model: the reference the slices are held to.    *)

Value(s, v) == IF v \in DOMAIN s THEN s[v] ELSE Missing
Holds(a, s) ==
    LET val == Value(s, a.var)
    IN  CASE a.op = "eq" -> val = a.val
          [] a.op = "neq" -> val # a.val
          [] OTHER -> val >= a.val
All(atoms, s) == \A a \in atoms : Holds(a, s)

Evaluate(src, s, before) == CASE src.kind = "lit" -> src.val
                              [] src.kind = "read" -> Value(s, src.var)
                              [] OTHER -> Value(before, src.var)

(* A full queue leaves no successor.                                          *)
After(st, s, before) ==
    IF ~All(st.cond, s) THEN {s}
    ELSE CASE st.op = "assign" -> {[s EXCEPT ![st.var] = Evaluate(st.src, s, before)]}
           [] st.op = "havoc" -> {[s EXCEPT ![st.var] = d] : d \in Dom[st.var]}
           [] st.op = "enqueue" -> IF s[Queue] >= MaxPending THEN {}
                                   ELSE {[s EXCEPT ![Queue] = @ + 1]}
           [] st.op = "dequeue" -> {[s EXCEPT ![Queue] = IF @ = 0 THEN 0 ELSE @ - 1]}

RunEffect(effect, s) ==
    LET run[n \in 0..Len(effect)] ==
          IF n = 0 THEN {s} ELSE UNION {After(effect[n], u, s) : u \in run[n - 1]}
    IN  run[Len(effect)]

ResetLocals(s, u) ==
    [v \in DOMAIN u |->
       IF v \notin DOMAIN Mount THEN u[v]
       ELSE IF ~Holds(Mount[v], u) THEN Unmounted
       ELSE IF Holds(Mount[v], s) THEN u[v] ELSE 0]

IsEnabled(t, s) ==
    /\ \A v \in (t.reads \union t.writes) \intersect DOMAIN Mount : Holds(Mount[v], s)
    /\ All(t.guard, s)
Post(t, s) == IF IsEnabled(t, s) THEN {ResetLocals(s, u) : u \in RunEffect(t.effect, s)}
              ELSE {}

Start(m) == LET zero == [v \in m.vars |-> 0] IN ResetLocals(zero, zero)
Reached(m) ==
    LET upTo[n \in 0..Depth] ==
          IF n = 0 THEN {Start(m)}
          ELSE LET old == upTo[n - 1]
               IN  old \union UNION {Post(t, s) : t \in m.trans, s \in old}
    IN  upTo[Depth]

(* compile refuses guards over variables the model does not have.             *)
Compiles(p, m) ==
    /\ StateReads(p) \subseteq m.vars
    /\ MountReads(m.vars) \subseteq m.vars
    /\ \A t \in m.trans : AtomVars(t.guard) \subseteq m.vars

Observes(p, s, m) ==
    \A id \in p.observed : \E t \in m.trans : t.id = id /\ IsEnabled(t, s)
Matches(p, t, s, u) ==
    /\ p.target # NoTarget => t.id = p.target
    /\ \A v \in p.changed : s[v] # u[v]
    /\ All(p.pre, s) /\ All(p.atoms, u)
(* leadsToWithin: n steps may miss the goal, or it is never reached for want of   *)
(* a step.  Every transition counts as one of the environment's.              *)
CanMiss(p, m, n) ==
    LET reach == Reached(m)
        Away == {s \in reach : ~All(p.atoms, s)}
        Onward(s) == UNION {Post(t, s) : t \in m.trans}
        missing[k \in 0..n] ==
          IF k = 0 THEN Away
          ELSE {s \in Away : Onward(s) = {} \/ Onward(s) \intersect missing[k - 1] # {}}
    IN  missing[n]
Triggered(p, m) ==
    UNION {{u \in Post(t, s) : /\ p.target \in {NoTarget, t.id}
                               /\ \A v \in p.changed : s[v] # u[v]} :
             s \in Reached(m), t \in m.trans}

Verdict(p, m) ==
    IF Compiles(p, m) /\ p.kind = "leads"
    THEN CASE Triggered(p, m) = {} -> "vacuous"
           [] Triggered(p, m) \intersect CanMiss(p, m, p.budget) # {} -> "violated"
           [] OTHER -> "verified"
    ELSE
    LET reach == Reached(m)
        found == CASE p.kind = "step" ->
                        \E s \in reach, t \in m.trans : \E u \in Post(t, s) :
                           Matches(p, t, s, u) = p.negate
                   [] OTHER -> \E s \in reach : All(p.atoms, s) /\ Observes(p, s, m)
    IN  IF ~Compiles(p, m) THEN "error"
        ELSE IF found = (p.kind = "EF") THEN "verified" ELSE "violated"

-----------------------------------------------------------------------------
Init ==
    /\ \E r \in Requests : model = r[1] /\ props = r[2]
    /\ at = 1 /\ needed = {} /\ kept = {} /\ next = 0 /\ changed = FALSE
    /\ slices = [k \in DOMAIN props |-> NoSlice] /\ groups = <<>>
    /\ checked = 0
    /\ merged = [k \in {p.name : p \in {props[i] : i \in DOMAIN props}} |-> "none"]
    /\ verdicts = <<>>
    /\ pc = "request"

(* Groups in the order of their first property; the verdicts of a group are    *)
(* looked up by name, and the first one found under a name stays.             *)
CheckGroup ==
    /\ pc = "check" /\ checked < Len(groups)
    /\ LET g == groups[checked + 1]
           named(n) == {i \in DOMAIN g.members : props[g.members[i]].name = n}
           First(S) == CHOOSE i \in S : \A j \in S : i <= j
       IN  merged' = [n \in DOMAIN merged |->
                        IF merged[n] # "none" \/ named(n) = {} THEN merged[n]
                        ELSE Verdict(props[g.members[First(named(n))]], g.slice)]
    /\ checked' = checked + 1
    /\ UNCHANGED <<model, props, at, needed, kept, next, changed, slices, groups, verdicts, pc>>

(* A property without a verdict counts as verified.                           *)
Merge ==
    /\ pc = "check" /\ checked = Len(groups)
    /\ verdicts' = [k \in DOMAIN props |->
                      IF merged[props[k].name] = "none" THEN "verified"
                      ELSE merged[props[k].name]]
    /\ pc' = "done"
    /\ UNCHANGED <<model, props, at, needed, kept, next, changed, slices, groups,
                   checked, merged>>

Next == Request \/ ExpandMounts \/ Visit \/ Finish \/ CheckGroup \/ Merge
Spec == Init /\ [][Next]_vars

-----------------------------------------------------------------------------
TypeOK ==
    /\ at \in 1..Len(props) + 1 /\ needed \subseteq Vars
    /\ kept \subseteq Ids \union {props[i].target : i \in DOMAIN props}
    /\ next \in 0..Len(model) /\ changed \in BOOLEAN
    /\ \A k \in DOMAIN slices : slices[k].vars \subseteq Vars
    /\ checked \in 0..Len(groups)
    /\ pc \in {"request", "closure", "finish", "check", "done"}

(* projectEffectToVars drops statements and relies on the closure for the rest *)
(* ("the slice closure is responsible for ensuring every variable read by a    *)
(* kept statement is itself retained", effect-projection.ts): the engine can  *)
(* compile every slice, and no kept statement reads a variable that is gone.  *)
SlicesCompile ==
    \A k \in DOMAIN slices : slices[k] # NoSlice =>
       /\ Compiles(props[k], slices[k])
       /\ \A t \in slices[k].trans : EffectReads(t.effect) \subseteq slices[k].vars

(* What the slicing does not take into account, as far as the properties below *)
(* have to exclude it: snapshots of variables, and transitions whose guard     *)
(* holds but which a full queue or an unmounted local blocks.                 *)
NoSnapshots == \A i \in DOMAIN model : PreReads(model[i].effect) = {}
NothingBlocked ==
    \A s \in Reached(FullModel), t \in FullModel.trans :
       All(t.guard, s) => IsEnabled(t, s) /\ RunEffect(t.effect, s) # {}
Observing(k) ==
    \E j \in DOMAIN props : Key(slices[j]) = Key(slices[k]) /\ ObservedBy(props[j]) \intersect Ids # {}

(* Grouping by the ids of variables and transitions gives every property the   *)
(* verdict of its own slice and leaves none to the default, "verified"         *)
(* (check-model.ts:98 and :220).  An observed transition has the id of the     *)
(* whole one: a group with one is left out.                                   *)
OwnVerdicts ==
    pc = "done" => \A k \in DOMAIN props :
       ~Observing(k) => verdicts[k] = Verdict(props[k], slices[k])

(* Slicing on and off agree ("slicing on vs off produces identical per-property *)
(* verdicts", docs/soundness/checker-correctness.md:48) where no shortcut is    *)
(* taken: not for directional, targeted and observing properties, and not in   *)
(* models with transitions that only havoc.  Nor for leadsToWithin, whose      *)
(* budget the transitions that are sliced away use up as well.                *)
FullConeAgrees ==
    pc = "done" /\ NoSnapshots /\ NothingBlocked
      /\ (\A i \in DOMAIN model, v \in Vars : ~OnlyHavocs(model[i].effect, v)) =>
         \A k \in DOMAIN props :
            Mode(props[k]) # "targetedStep" /\ ~Directional(props[k]) /\ ~Observing(k)
                 /\ props[k].kind # "leads"
              => verdicts[k] = Verdict(props[k], FullModel)

(* With every shortcut: what a slice shows, a state that is reached or an edge *)
(* that violates, or steps that miss a goal, is there in the full model.  The  *)
(* shortcuts lose behaviour, they add none, but for the trigger of a           *)
(* leadsToWithin property: it is observed, and so it changes nothing.         *)
WitnessesAreReal ==
    pc = "done" /\ NoSnapshots /\ NothingBlocked =>
       \A k \in DOMAIN props :
          ~(props[k].kind = "leads" /\ Observing(k)) /\
          verdicts[k] = (IF props[k].kind = "EF" THEN "verified" ELSE "violated")
            => Verdict(props[k], FullModel) = verdicts[k]
=============================================================================
