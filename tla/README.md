# A TLA+ model of the modality-ts checker

modality-ts extracts a finite transition model from React and TypeScript code,
checks properties of it with a native Rust checker, and turns counterexamples
into tests. Its promise rests on the checker: when it says "verified", nothing
reachable may violate the property; when it says "violated", the trace must be
real. This directory models the checker in TLA+, with what surrounds it where
order and failure matter: the slicing in front of it, the queue of answers in the
models it is given, and the pool of threads it is run by. TLC model-checks the
modules on small instances, and TLAPS proves the central claims.

Paths are relative to the root of the repository.

## The system

    TypeScript source
       | extract (src/extract): plugins, lowering, templates
       v
    IR model: variables with finite domains, guarded transitions, bounds
       | check (src/check): slicing, grouping of properties
       v
    native checker (crates/checker): stabilize, search, properties, CTL
       |
       v
    verdicts and traces --> replay, conform, ci (src/cli), runtime assertions

| Component | State it keeps | Operations | What is hard about it |
| --- | --- | --- | --- |
| search (`search.rs`, `visited.rs`, `frontier.rs`) | visited set with parents, frontier, depth, edge count, the limit that was hit; shared by the workers: two counters and a stop flag, all relaxed atomics | expand a layer in parallel, observe its edges in order, merge its new states, report | workers interleave, a limit cuts a layer anywhere, duplicates, ties, the depth bound |
| temporal engine (`ctl.rs`, `graph.rs`) | labels, worklists, fair candidates | label each operator innermost first, read the verdict off the initial states | the graph is cut at the depth bound, worklists run in any order, nesting, fairness |
| components (`scc.rs`) | indices, lowlinks, stack | Tarjan's algorithm | lowlinks, stack discipline |
| stabilization (`stabilize.rs`, `mount.rs`) | a set of candidates with changed variables | rounds of internal transitions until quiet | conflicting writes, order, divergence, mount-locals |
| effects (`effect.rs`, `expr.rs`, `domain.rs`) | none | posts of an effect | caps, tokens, overflow policy, saved pre-state |
| leadsToWithin (`property.rs`) | triggers, the calls of a depth-first search, a memo of what it has seen to succeed | sub-search under a step budget | budget, memo, stuck states, a goal that cannot be evaluated |
| step predicates (`step.rs`) | none | facts about an edge | repeated operations |
| canonical identities (`canon.rs`) | none | bytes of a state up to token renaming | collisions, symmetry |
| slicing and merging (`src/check`) | needed variables and kept transitions of a slice, groups of properties, merged verdicts | closure, projection, grouping by key, one native run per group, merge by name | a slice too small, shortcuts, a verdict lost in the merge |
| command pool (`src/cli/concurrency/pool.ts`, the reporters, `cli.ts`) | workers with their listeners, queue, started and settled tasks | run, message, error, dispose, exit | a worker that dies, answers without a job id, disposal with jobs in flight |
| library templates (SWR, TanStack Query, route loaders and actions, TanStack Router's cache) and asynchronous handlers (`async.ts`, `callback-effects.ts`, `use-transition.ts`) | the variables of each part, `sys:pending` | request, answer, mutate, invalidate, revalidate, join | late answers, duplicates, a queue at its limit, parts with the same operation |
| extraction, validation, CLI features, codegen | files | compile and print | syntax, not state |

The components meet as follows. The TypeScript side serializes a model, the
properties of one slice and the options into a request. `check_model_compiled`
seeds the search with the stabilised initial states. For each state of the
frontier and each enabled transition a worker calls `apply_effect` and
`stabilize`, and produces edges. The coordinating thread feeds the edges to
`observe_edge` (alwaysStep properties, triggers of leadsTo) and to the recorded
graph, and merges the new states. When the search is over, `finalize_properties`
runs the temporal engine on the recorded graph and the leadsTo sub-searches on
the recorded triggers. The TypeScript side merges the results of the slices.

What would make each part wrong:

* search: a layer cut without a reported limit, a reachable violation missed by
  a verdict that says verified, an edge recorded that is not in the model, a
  trace that is not shortest, a bound that restricted the search and is not
  listed, a run that never ends, results that differ between runs;
* temporal engine: a label that is not the fixpoint of its operator, a verdict
  about a cut graph that claims something of the whole model, a trace that does
  not show the violation;
* components: a component split or merged, a stack that runs dry;
* stabilization: an order of internal transitions that is not tried, derived
  state that is out of date when it is handed out, a chain of effects taken for a
  divergence, a local that does not follow what is mounted;
* leadsTo: a failing suffix missed, a success within the budget called a failure;
* slicing: a verdict that differs from that of the unsliced model, a property that
  is given the verdict of another one;
* pool: a job that never settles, an answer taken for that of another job, an exit
  code that says less than the results;
* templates and handlers: a part that shows that it waits and never stops, a view
  that contradicts its data, an answer that blocks the ones behind it.

## Modules

| Module | Models | Kind |
| --- | --- | --- |
| `CheckRequest` | the input of the search: graph, properties, options | definitions |
| `Search` | `search.rs` with `visited.rs`, `frontier.rs`, the parts of `property.rs`, `diagnostics.rs`, `report.rs` it calls | state machine |
| `LayeredBFS` | what the search promises: a sequential layered search with an optional early end, and then perhaps another one | abstract specification |
| `SearchTwice` | two runs of the search on one request, one after the other | composition, checked by `search` |
| `Scc` | `scc.rs` | state machine, used by `Ctl` |
| `Ctl` | `ctl.rs` on the graph a search left behind | state machine, composed with `Scc` |
| `LeadsTo` | the leadsToWithin part of `property.rs` | state machine |
| `Finalize` | `finalize_properties`: `Ctl` and `LeadsTo` on what a search left behind | composition |
| `Stabilize` | `stabilize.rs`, `mount.rs` and what `search.rs`, `effect.rs` make of them | state machine |
| `Slicing` | `src/check/slicing`, `check-model.ts` | state machine, with a reference checker |
| `CommandPool` | `pool.ts`, `command-worker.ts`, the reporters, `main` of `cli.ts` | state machine |
| `AppQueue` | the transitions of the templates and of asynchronous handlers, over `sys:pending` | state machine |
| `SearchProofs`, `SearchTwiceProofs`, `CtlProofs`, `LeadsToProofs`, `StabilizeProofs`, `SlicingProofs`, `CommandPoolProofs`, `AppQueueProofs` | theorems and proofs | proofs |
| `MCSearch`, `MCSearchTwice`, `MCCtl`, `MCFinalize`, `MCStabilize`, `MCSlicing`, `MCCommandPool`, `MCAppQueue` | instances for TLC | model checking |

### Search

A request gives the graph of stabilised states: `enabled`, the list of `posts`
of each transition in generation order (after effect and stabilisation), the
pairs whose effect reports a cap (`capped`), and the states and edges that
violate each property. States are canonical identities numbered in the order
of their bytes, so the model's `<` is the order of `sort_key` and of the merge.

The frontier is cut into contiguous chunks, one per worker at most. A worker's
program counter `wpc` walks through the loop of `expand_chunk`: `Apply` (the
effect of a transition), `CountEdge` (the fetch_add of `note_generated_edge`),
`StopOnEdge`, `DropEdge` or `PushEdge` (the limit test that follows it and the
push), `CountCandidate` (`note_new_state_candidate`), `Abandon` and `Exhaust`.
Relaxed atomics are modelled by what a load may return: `stop` may be read as
FALSE after another worker has stored TRUE, and the state counter as any value
it has had. A worker that has read TRUE never works on, since a location does
not go backwards for one thread.

The coordinating thread has `StartLayer`, `StopAtBoundary`, `Observe` (edges in
`sort_key` order until all is decided or the edge limit is hit; none if the
layer was cut), `Merge` or `CloseLayer`, and `Report`. `Observe` and `Merge` are
single steps because the workers have all returned by then.

`posts` may be empty: an effect without a post, a saturated queue and a
stabilisation that failed all look the same to the search. `apply_effect` never
returns an error, so the `?` after it in `expand_chunk` is not a path.

### Scc and Ctl

The recursion of `strongconnect` is the sequence `calls` of active calls, each
with the successors its loop has still to look at; `Root`, `Descend`, `LookAt`
and `Return` are the four things the code does. Roots and successors are taken
in any order. `Ctl` starts it through `TarjanStart` and waits for `TarjanDone`.

A job of `Ctl` is a model with the depth it was explored to. A formula is a
chain of operators over two atoms, so nesting is modelled and Boolean structure
only as far as implication (`and` and `or` are pointwise). Every worklist loop
of `ctl.rs` has the same body, `Pop`, which takes any state of the worklist;
AU runs a worklist and then components, fair EG runs rounds of worklists and
then components. `Pass` and `Violation` are `check_temporal` and
`make_violation_verdict`; only the state a trace ends in is kept of a trace.

### Stabilize

`Stabilize` is one level below the search: a macro-step of it is what `Search`
has as one of the `posts` of a transition. A system gives, for each internal
transition, the states it is enabled in, the posts of its effect by pre-state
and state, what it reads, writes and is triggered by, and its phase; and for
each mount-local variable the states in which it is mounted. The search around it
is an `Event` from the state that was settled last.

`Mounted` and `ResetLocal` are `reset_mount_locals` after an event, or the
normalization of an initial state. A round begins with the branches of
`apply_internal_sequence`, one for each candidate and sequence; `RunNext` advances
every branch by one transition (branches do not see each other, so their order
is of no consequence), and `EndRound` merges them. `unique_stabilizing_states`
keeps the first of two equal states; which one comes first depends on the names
of transitions and values, so the model lets it be either. `GiveUp` is the error
of `stabilize`, which both callers turn into no state at all.

### LeadsTo and Finalize

`query` is a property with its model, its budget and the edges that triggered it.
The recursion of `visit` is the sequence `path` of active calls, each with the
posts its loop has still to look at, so the length of `path` is the depth. `Try` is
`failing_suffix_within` for one trigger, with an empty memo; `Follow` is the loop
going on to a post, `Backtrack` its end, which caches a `None`; `Visit` is the body of
`visit` with its early returns in their order: error, goal, cached, failure, loop.
The first failure ends everything, so no failure is ever read from the memo and
the model does not keep any. Triggers and posts are taken in any order. The steps are
those of the model and not the recorded ones: the sub-search calls the macro-step
itself and goes past the depth bound. In `Finalize` the steps and triggers come from
a job of `Ctl` once it is done, the triggers only from edges within the bound.

### Slicing

A behaviour slices the properties of one request in turn. `Request` seeds the
closure, `ExpandMounts` and `Visit` are the passes of
`reachVarsThroughTransitions` over the mount guards and over the transitions in the order of
the model, `Finish` makes the slice and puts the property into its group,
`CheckGroup` gives a group its verdicts and `Merge` collects them by name. Transitions
are data: a guard is a conjunction of comparisons, an effect a sequence of
statements (assign a literal, a variable or a variable's value before the event,
havoc, enqueue, dequeue, each under a condition). `Verdict` is a reference checker
for such models: it explores all states, which is what the search is proved to do,
and decides leadsToWithin as `LeadsTo` is proved to, with every step the environment's.

### CommandPool

`pool` is the state of `createCommandPool`; `RunJob`, `Dispatch`, `DrainQueue` and `Free` are
its functions. The main thread is event driven, so an action is one event with
its listener and the continuations that run before the next event: `OnMessage`,
`OnError` and `InlineSettles` settle promises, let the reporter start the next task or
`main` end the process. `StartTask` is the synchronous start of the first tasks,
as many as the reporter does not wait for. Threads are `Answer` and `Die`; a job
posted to a dead thread is not received. `Exit` awaits `dispose`.

### AppQueue

An application is a set of parts: an SWR key, a query, a mutation, a route loader
or action, a loader cache, a handler that awaits, a callback handler, a chain of
awaits with a `Promise.all`, a `useTransition`. Every operator of the form
`QueryFetch` is one transition of a template (or several with the same guard and
effect), with the guard and the effects the template writes; `Step` has those of
the user, the library and the environment's own accord, `Resolve` those that answer the
head of `sys:pending`. The guard of an answer compares the operation at the head
and not the continuation, so parts with the same operation take each other's
answers. An effect with one enqueue too many has no successor (`effect.rs:152`). A handler
may navigate when its call has succeeded: `Arrive` is the first navigation after the
`await` (`async.ts:293`), which is taken after all other effects of the answer. The history is left out, so
a push, which stays when the history is full, and a step back, which stays when it is empty, may stay.

## Runs

| Run | Question | Result |
| --- | --- | --- |
| `search` | soundness, bounds, traces, termination and refinement of the parallel search, and what two runs on the same request agree on | passes |
| `search_identical` | whether two runs give identical results, as the documentation says | violated |
| `finalize` | labels, components and verdicts of the temporal engine, and leadsToWithin | passes |
| `ctl_ag_trace` | whether the trace of an AG violation ends in a violating state | violated |
| `ctl_fair_eg` | whether fair EG is what its comment says | violated |
| `ctl_fair_nested` | whether fairness reaches nested operators | violated |
| `stabilize` | orders, settling, derived state and mount-locals in macro-steps | passes |
| `stabilize_mount` | whether mount-locals follow internal changes of the location | violated |
| `slicing` | what a verdict on a slice says about the model | passes |
| `command_pool` | whether every job settles and the exit code is true | passes |
| `app_queue` | what answers, mutations and full queues make of an application | passes |
| `app_any_order` | whether operations in flight are answered in every order, as the documentation says | violated |

`search` uses five states in a graph with a diamond, a self loop, duplicate
discovery, two transitions and effects that hit a cap; there are two seeds,
one of them twice. The depth is 2 or 4; the limits are at values that cut a
layer in the middle (`maxStates` 4 to 6, `maxEdges` 3 to 8, `maxFrontier` 2 and
4, the memory guard), alone and in pairs; there are one to three workers. Three workers
are enough for a load that is stale with respect to a third party; five states
give two layers that are wider than one chunk.
Properties:

* `CutIsReported`: a layer cut short always leaves a limit to report.
* `VerifiedIsSound`, `StepVerdictIsSound`, `BoundedPassCoversTheBound`: what a
  pass is a statement about (everything reachable; all edges out of it; all
  edges out of states nearer than the bound).
* `ViolationIsReal`: counterexamples are edges of the model.
* `BoundsThatBitAreListed`: exactly the caps and depth bounds that restricted
  the search are reported.
* `ShortestTraces`: parents give shortest paths, and the edge reported for an
  alwaysStep property leaves a nearest state.
* `ImplementsLayeredBFS`: refinement of `LayeredBFS`.
* `Termination` under weak fairness of `Next`.
* `SameVerdicts`: two runs of a request agree on statuses, counterexamples, visited states and
  edge counts, and on the rest of the report when no limit ended them.

The run follows `TwiceSpec`: a behaviour of `Spec`, and then perhaps another one for the same
request with any number of workers. So every property is checked of both, and `LayeredBFS`
allows a second search. The theorems of `SearchProofs` are about `Spec`, one run.
`search_identical` has the requests with a limit that bites in the middle of a layer.

The refinement lets a configured limit end the search at any layer: no property says that the
limit was reached by what it is said to count, and for `maxStates` it is not
(see "Where code and documentation disagree").

`finalize` uses every graph over three states that one initial state reaches, up to
renaming: every formula with one operator and every argument, on the whole graph
and cut at depth 1; EU and AU for disjoint arguments; `AG(q => EF p)`; and EG,
AF, AG EG under one fairness condition. Three states have every shape the
algorithms tell apart: a cycle with and without an exit, a self loop, two
components one after the other, a state at the depth bound.

* `ReachLabelIsExact`, `CycleLabelIsExact`: labels are the fixpoints of their operators.
* `FairPathsAreKept`: fair EG loses no fair path.
* `VerdictIsReal`: a verdict on a cut graph claims nothing the whole graph refutes.
* `ComponentsAreClasses`, `CallersOnStack`: Tarjan's components are the classes of
  mutual reachability, a component before those that lead into it, and the pop loop
  never runs dry.

For leadsToWithin it uses every graph without self loops over those three states
and a fourth one, d, from which two edges lead to them and to which they may lead back; the two
edges trigger the property, d is the goal, and the search was cut at depth 1, so
the sub-search leaves what it recorded. The budget is 0 to 3; a step of one state may be
the user's, with and without `allowUserEvents`; the goal may be an error in one
state; and a property may have no trigger. Three states besides the goal are
needed for a state that is reached at two depths, for which the memo has to tell them apart.

* `SuffixMisses`: a counterexample is a run of the model from a trigger on, outside the
  goal, that uses the budget up or gets stuck.
* `PassMissesNothing`: if the property passes there is no such run, for any trigger.

`stabilize` uses three variables over two values and three internal
transitions. Without mount-locals every transition is one of eight (copies of
a variable or of its value before the round, a choice, assignments under a
condition, one with two triggers, one without a trigger that never settles),
with no phases or with phases against the order of ids, and two or three rounds. With
mount-locals it is one of four, on a page with one local and on a page with a
local inside another one. Three transitions are the smallest number with a third one
between two that conflict, and with a chain longer than one.

* `EveryOrderIsCovered`: a round has exactly the results of the orders React may
  commit the effects in, unless one effect reads what another one writes.
* `AcyclicSettles`: effects that do not trigger each other in a circle settle, if
  `maxInternalSteps` exceeds the longest chain; with `maxInternalSteps` equal to its
  length the code gives up, since the round that finds nothing counts.
* `DerivedStateIsUpToDate`: in every settled state an effect that derives state
  from its triggers has nothing left to do. It needs that each trigger has one
  writer among the internal transitions. With two, TLC finds a round in which the
  effect runs between them and the second one restores the old value: the net
  change is none, the effect is not triggered again, and the derived state is stale.
* `LocalsFollowMount`: exactly the mounted locals have a value, if only events
  decide what is mounted; `stabilize_mount` shows that this condition is needed.

`stabilize` and `stabilize_mount` do not check deadlock: a system whose initial
states all diverge has no state to go on from, and a settled state may have no event.

`slicing` takes every model of one to three transitions out of a pool of sixteen,
over six variables, a queue and a mount-local among them, and one request with fourteen properties of
every kind, in two orders: the pool has chains of writes, co-written variables,
conditions, havocs, snapshots, redirects that unmount, and queues at their limit.
Three transitions make a dependency that a pass in model order finds only when it is repeated.
`Depth`, the longest path of the reference checker, is above the number of steps
after which nothing new is reached.

* `SlicesCompile`: no slice refers to a variable it does not have.
* `OwnVerdicts`: grouping gives a property the verdict of its own slice.
* `FullConeAgrees`: without shortcuts slicing changes no verdict, but that of leadsToWithin.
* `WitnessesAreReal`: with every shortcut a slice invents no counterexample and no
  witness, unless a transition is the trigger of leadsToWithin.

The last two exclude models with snapshots, and with transitions whose guard
holds but which a full queue or an unmounted local blocks; what happens there
is listed below. Deadlock is not checked: a request ends.

`command_pool` uses four targets, all three reporters, `--concurrency` 1 (inline) to 3, and up to
two threads that die. Four targets are one more than there are threads, so the queue fills
and is drained, and there is a job to be handed to a slot whose thread is dead.

* `AnswersMatch`: a task settles with the answer to its own job, though answers
  carry no id.
* `NoIdleWhileQueued`: no worker idles while an entry waits.
* `NoJobStranded`: as long as the process lives every started task has somebody to settle it.
* `ExitIsHonest`: the exit code is true of all targets.
* `Terminates`: the process ends.

`app_queue` uses fourteen applications of two or three parts: every kind of part with another
one, parts that share an operation, a call nobody waits for, requests that ask
for more than there is room for. The queue holds up to three operations, enough for
an operation before and behind the one in question and for a Promise.all of two
behind another one; there are two routes and two payloads, one to be overwritten by the other.

* `ViewIsConsistent`: a part that shows that it waits has an operation in the queue
  (a loader may also be stale, to be fetched), and status, data and error of a
  part agree, whatever is answered, mutated, removed or cancelled in whatever order.
* `NoneIsLost`: only an answer takes operations out of the queue, no more than it
  answers, and the others keep their order. It does not say which operation may be answered:
  `AnyOrder` does, that any may be that somebody waits for, and the run `app_any_order` refutes
  it with two handlers that await one call each.
* `EveryAnswerArrives`: a wait ends, unless the head of the queue is `Blocked`: no part can
  answer it. Nobody waits for it, there is no room for what its answer asks for, or of a
  Promise.all an operation is gone.

`SpinnerHasAnOp` and `EveryAnswerArrives` are about parts whose operations are their own
(`Alone`); the parts that share one take part in the runs and disturb the others.

Fairness. `Search` assumes `WF_vars(Next)`: the coordinating thread blocks in
rayon's `par_iter`, which runs every task it was given on some thread, so the
search as a whole always takes another step. No fairness among the workers is
needed, since each has finitely many items. `CommandPool` assumes weak fairness of
each event and of each command: Node delivers the messages and errors that have
arrived, and a command ends or its thread dies; a thread need not die. `AppQueue`
assumes that some answer to the head of the queue comes if one is possible. This is no
promise of the code but the assumption about the environment under which the
question makes sense, of the kind a property states with `fairlyOften`
(`docs/reference/property-api.md:72`); nothing is assumed of the user or of the library. The other specifications have
no liveness property and no fairness.

## Proofs

TLAPS proves, for every value of the constants (any finite graph, any number of
workers, any limits):

* `SearchProofs`: `TypeCorrect`, `CutReported`, `VerifiedSound`, `ViolationReal`,
  `StepVerdictSound`, `BoundsListed`, `BoundedPassCovers`, `TracesAreShortest`,
  `Refinement` (the parallel search implements `LayeredBFS`);
* `SearchTwiceProofs`: `VerdictsAreReproducible` (any two runs of a request agree);
* `CtlProofs`: `TypeCorrect`, `CallersStay`, `ReachLabelExact`, `ComponentsAreExact`,
  `CycleLabelExact`, `FairPathsKept`, `VerdictsAreReal`;
* `LeadsToProofs`: `LeadsTypeCorrect`, `SuffixesMiss`, `PassesAreExact`;
* `StabilizeProofs`: `TypeCorrect`, `AcyclicSystemsSettle`, `LocalsStayRight`,
  `DerivedStateStaysFresh`, `RoundsCoverEveryOrder`;
* `SlicingProofs`: `TypeCorrect`, `EverySliceCompiles` (unless a property of a targeted step
  observes other transitions), `VerdictsAreOwn` (where properties have different names),
  `WitnessesHold` and `FullConesAgree` (under the hypotheses given below);
* `CommandPoolProofs`: `TypeCorrect`, `OwnAnswers`, `WorkersStayBusy`, `NothingStranded`, `HonestExit`;
* `AppQueueProofs`: `TypeCorrect`, `ViewsConsistent`, `NothingIsLost`, and `AnswersKeepOrder`, which says
  what holds instead of `AnyOrder`: every step takes its answer from the head of the queue.

Assumptions: those of the modules (`StateAssumption`: the states are a finite set
of numbers, so that sets of them can be counted; `Requests` and `Jobs` are sets
of well-formed records; a pool has at least one worker; `PartAssumption` says of the parts of an application what the
extraction guarantees: a chain goes on after its first answer, callbacks have no outcome but
success and error, and a revalidation has a name of its own, `routeRevalidationOpId`; `RequestsAssumption` says
of a model to be sliced what `validateModel` enforces: ids are unique, and only declared
variables are used, `validator.ts:36`, and that the budget of leadsToWithin is a natural number,
`model.rs:434`). `LeadsToProofs` assumes
nothing: the states may be any set, and the steps any relation on it.

Search. That a cut layer is reported is not inductive alone: the invariant adds
that the counters never go down, that what a worker saw of the counters when it
stored `stop` is at most what they are now, and that limits are monotone in
both counts, so `limit_hit` repeats the comparison with larger numbers. For
soundness the invariant says that, with no limit recorded, every edge out of a
visited state that is not in the frontier leads to a visited state and has been
observed; during a layer the same holds of the items that are done. With the
frontier empty the visited set is closed under edges and contains the seeds, and
`Reachable` is the least such set. For `BoundsListed` the invariant (`Listed`) says that
between layers the bound hits are the caps of the states that have been expanded, and
during a layer also those of the effects that have been applied; the depth bound adds its own at the end.

Distances. The invariant (`Nearest`) says that while the search goes on it has
visited exactly the states up to its depth and the frontier is what is at that depth, that a parent is one
step nearer to the seeds than its child, and that no violating edge starts nearer than
the one recorded. The distance of a state is the first of the levels on which it is found; as
many levels as there are states reach everything reachable, since a level that adds
nothing is closed (`LevelsReachAll`).

Two runs. What two runs agree on is the sequence of layers of their request (`IsTrail`), a
function of the request alone: what is observed, found and inserted in each, and
whether a limit cuts it. Each run stands at one of its layers (`OnTrail`). The one hard
fact is that the workers do not decide which layer is cut: some worker stores `stop` if and only if
the edges of the layer exceed a limit (`Exceeds`). For this `Counted` and `Checked` follow the
counters through every interleaving: what is pushed has been counted and nothing is counted
twice, and while `stop` is not stored every check has passed but that of the edge counted last. So both
runs end at the same layer and report what it says, except which limit ended them.

Refinement. The layer of `LayeredBFS` happens when the coordinating thread observes the
edges the workers pushed; what the workers do before and the merge after it
stutter. The proof rests on two facts: what is observed until the loop halts is closed under
what comes before it (`ObservedIsPrefix`), so the first violation among it is the
first of the layer; and the loop halts early only on a configured limit or when every
step property has its counterexample. The rest are the invariants of `SearchProofs`.

Ctl. For the label of EF, AG and EU the invariant says that the worklist result
contains its seeds, lies inside every closed set that contains them, and is
closed under allowed predecessors except for the states still to expand; when
the worklist is empty it is the least fixpoint. For `CallersOnStack` the
invariant (`TarjanInv`) says that indices are distinct, that the nodes on the
stack and the active callers are both in increasing order of index (`InOrder`),
and that every caller is on the stack; a pop down to a root takes only nodes of
larger index, which no other caller has. Lowlinks play no part in that, and the set
of nodes may be infinite.

Components. Call a node gray while its call is active. The invariant (`Tracing`) says:
an edge to a node that is not visited has still to be examined by an active call
(`Visits`); a node on the stack is reached by every gray node before it and reaches
some gray node before it (`Paths`); a lowlink is the index of a node on the stack that
is reached, and the lowlink of a gray node is no larger than the index of any node to
which an examined edge leads from the nodes visited since its call began and before the
next call did (`Lows`). So when a call returns with its lowlink unchanged, no edge
leads from its segment of the stack to below it (`EdgesAbove`), everything in the segment reaches the
root (`PathsAbove`) and is reached by it: the segment is a whole class
(`PoppedIsClass`), and its edges to the outside end in components found before.
Reachability is used only through `ReachFrom`, the least closed set.

Cycles. A set whose states all have a successor in it meets a component that is not trivial:
of the components it meets take the one found first; a successor inside the set
cannot be in an earlier one (`PathsEndInCycles`). Conversely every state of such a
component has a successor in it (`CyclesGoOn`). So what the last worklist of
`eg_label` finds is the greatest fixpoint (`BackIsExact`), and `Duality` turns EG and
E[~q U ~p /\ ~q] into the least fixpoint of AU, and of AF. For fairness, the set of states with a
fair path leads through itself into loops that meet every condition; so it
survives every worklist of `eg_fair` whatever has been dropped around it
(`FairReaches`), and each of its states has a successor in it (`FairGoesOn`).

Verdicts. The recorded graph is a part of the model (`IsPart`), and all of it that can be
reached if the frontier is empty. An existential operator that is found in a part holds in the
whole, a universal one that is missed in a part fails in the whole, and on a part that no
edge leaves each operator means what it means on the whole. The label of each operator of
a nested formula is its meaning on what was recorded (`Exactly`, from the invariants of the labels
above), and in an exhaustive search the argument of the next one is the truth of those that
are done (`Inner`); the verdict is read off the outermost label (`Outcome`).

LeadsTo. The invariant (`Searching`) says that the active calls are a run through
states outside the goal within the budget, that whatever their loops have taken
out is the goal, is cached or is the call above, and that the memo is closed
(`Closed`): a cached `None` at depth n rests on goals and on `None`s cached at
depth n + 1, and was not at the end of the budget. That a cached state cannot miss the goal
(`CachedIsNotMissed`) is shown without a measure on the memo: along an alleged suffix take the
least index whose state is not cached at its depth; the state before it is cached, so
this one is a goal. So when the sub-search of a trigger returns to its root there is no
failing suffix from it, and `PassMissesNothing` follows when all have returned. A
violation needs only that the calls are a run that starts at the trigger.

CommandPool. The invariant says that exactly the busy slots have listeners, for
one task each (`Paired`), that the queue is only used while no slot is idle, and
that what a thread holds or has sent is the task its slot listens for, and not both
(`Threads`). `WorkersStayBusy` needs in addition that the reporters that wait
never have more tasks in flight than there are slots: at most `started` slots are busy,
and a reporter other than JsonReporter starts a task only when one has settled.
A second invariant (`Kept`), for as long as the process lives, says that every dead
thread has its error event still to come (the first one delivered ends the process),
that no task was rejected, and that a job with a listener is held, answered or on a
dead thread (`Tended`). No operation of the pool loses a job (`RunJobGrows`,
`FreeGrows`), so `NothingStranded` follows, and `HonestExit` with it: when main
disposes of the pool every task was answered and none was rejected.

AppQueue. Every step but a navigation is that of one part, and has the same shape (`Moves`): it takes
some operations of its own from the head of the queue, appends operations of the
application, writes its own view and at most marks others stale; and if it waits afterwards it
has just asked, or had asked before and took nothing it waits for. One lemma per kind
of part shows this for its transitions; one lemma shows that any such step keeps the
invariant, one that it keeps the order. A part whose operations are its own loses none of
them to the others, so it never waits for nothing. An action needs more: it may be
invoked again while the revalidation of its last success is in the queue, so the
invariant says that what it waits for is its operation and not the revalidation
(`Awaited`). A join removes its positions from the last to the first with a fold; that this leaves what is
behind them (`JoinTakes`) needs that the function a fold is defined with exists (`FoldExists`).

Stabilize. Give every internal transition a rank that grows along chains of
transitions that trigger each other. In a round that follows k others only
transitions of rank k or more can run (`Layered`): something they are triggered
by was changed in the round before, hence written by a transition that ran in it,
of rank k - 1 or more. To know that a round changes only what its transitions
write, the invariant follows the branches while they run (`InProgress`). Ranks are
bounded, so a round comes that finds nothing to run before the bound does.
For `LocalsStayRight` the reset passes the locals in the order of their declaration and a
mount guard reads earlier ones only, so behind the reset they are right (`Resetting`); an event whose
reset has ended and internal transitions keep them right, the latter because they write only
locals that are mounted and nothing a mount guard reads (`AppliedRight`).
`SystemAssumption` says that effects change only what they declare to write,
which the validation of the IR enforces (`docs/_specs/01-ir.md:91`); that a mount guard
depends on no more than it reads; and that what is written to a local is a value and an
internal transition that writes a local is only enabled when it is mounted
(`transition_locals_mounted` in `mount.rs`). `ReadsAssumption` says that guard and effect of an
internal transition depend on no more than the transition reads: from states that agree on
that, each result has its like. The validation has every read of an expression declared.

For `DerivedStateStaysFresh` the invariant (`Deriving`) says that in every branch the derived variables
are fresh, or a trigger differs from its value at the beginning of the round, in which case the next
round runs the transition; what has been changed stays changed because each trigger has one writer.
For `RoundsCoverEveryOrder`: two neighbours in an order that read nothing of each other and
write different variables may change places (`StepsCommute`). As long as an admissible order
is not the one the code tries, two neighbours stand the wrong way round, and to swap them leaves one such pair
less (`SwapSorts`). A second invariant (`Rounding`) says that the branches are the stages of the runs
in the orders that are tried.

Slicing. The invariant (`UnderWay`) says that the closure has its seed, that what is kept is kept for a
reason that more variables do not take away (`KeepsOn`), and that in a pass that has added nothing so
far all kept transitions before the next one have their inputs; so the closure is closed when a
pass ends that added nothing. `EverySliceCompiles` excludes requests with a step property
about one transition that observes another transition of the model: the variables of the
guard of that one are added when the closure is over (`dependency-graph.ts:234`), so a
statement that writes one of them comes into the slice and what it reads does not (see
below). For `VerdictsAreOwn` the invariant says that a group holds properties with the key of its
slice, that this is the slice of one of them (`IsGroup`), and that a name has the verdict of the
first group its property is in (`Told`). Slices without observed transitions that have the same key are
the same, since a transition is cut down to the variables of the key in one way (`SameKeySameSlice`).
Registration does not enforce that properties have different names; with
two of one name one of them is given the verdict of the other, so the theorem has it as a hypothesis.

`WitnessesHold` and `FullConesAgree` rest on a simulation. A state of a slice is a state of the model
restricted to the variables of the slice. What is left of an effect, run on what is left of a
state, gives what is left of the states the effect gives (`RunProjects`), and so with the reset of the
mount-locals (`ResetProjects`, `PostProjects`). So a step of the slice is a step of the model, or one of a
transition stripped to its guard, which changes nothing (`StepLifts`); level by level, what the slice reaches
is what the model reaches, seen through its variables (`ReachedLifts`), and a state or an edge that
decides a property on the slice decides it on the model (`WitnessLifts`). This needs of a slice only that it has
the variables it reads, so every shortcut is allowed. For the converse a second invariant of the
closure (`Sought`) says that in a pass that has added nothing so far every transition that is to be
kept is kept; so a slice without shortcuts has each writer of its variables (`SliceCompletes`), any other
step leaves what the slice sees alone (`PostDropped`), and the slice reaches all the model does
(`ReachedProjects`). For leadsToWithin a way to miss the goal on the slice is followed on the model
step by step; where the slice is stuck, the model can go on only with steps that change nothing the
slice sees, or with a transition that only havocs and may leave its variable as it is, so it misses
the goal as well (`MissesLift`).

The hypotheses of the two theorems are where the proof would not go through without them:

* `DistinctNames`, as for `VerdictsAreOwn`;
* `NoBranchBlocked`: `NothingBlocked` only says that some branch of an effect survives, but the statement that
  blocks a branch may be one that the slice drops, and then the branch exists in the slice alone;
* `StepsAreOwn` (for `WitnessesHold`): a step property shares its slice with no property that observes a
  transition, or it is of the form "no step changes v and ...". The key of a group does not tell a
  stripped transition from the whole one (`check-model.ts:98`); if the group was opened by the
  observing property, a property such as "no step stays at x = 1" is checked on steps that do nothing
  and violated there alone, or under the id of a transition whose effect is gone;
* `StepsChange` (for `FullConesAgree`): a step property that is about every transition is of that form; a step
  of a dropped transition may violate any other (the third case below);
* `SearchIsWhole` (for `WitnessesHold`, when there is a leadsToWithin property): the reference search of the
  model is as deep as it has to be, and the values of variables are in their domains. The bound
  `Depth` is one of the reference and not of the code.

None of them is empty: in the run `slicing` they all hold whenever the models are such that
`NothingBlocked` and `NoSnapshots` hold, that is wherever the two properties say anything, with the
shortcuts, observed transitions and leadsToWithin properties among its requests.

Only model-checked are the liveness properties `Termination`, `Terminates` and `EveryAnswerArrives`:
liveness under fairness is out of the prover's reach. So are the library's
induction theorems that take an operator; where an induction is needed the proofs
use the well-foundedness of strict inclusion of finite sets instead.

## Where code and documentation disagree

* `search_identical`: after a cut by a limit the enabled transitions, bound hits
  and vacuity warnings depend on scheduling, while
  `docs/architecture/checker.md` promises identical results. `SearchTwice`
  shows that verdicts and counterexamples do agree (`SameVerdicts`).
* `ctl_ag_trace`: the trace of an AG violation found by the temporal engine is
  empty, since the initial state is itself in the complement of the label.
* `ctl_fair_eg`: `eg_fair` does not ask for a cycle through every condition.
* `ctl_fair_nested`: below EX, AX, EF and AG fairness is dropped.
* `stabilize_mount`: `stabilize` applies effects with a pre-state, and then
  `apply_effect` does not reset mount-locals (`effect.rs:20`); a redirect leads to
  a page whose locals stay unmounted. `docs/_specs/01-ir.md:77` has the reset on
  stabilization as well.
* `app_any_order`: only the head of the queue can be answered (`AnswersKeepOrder`), while
  `docs/concepts/transitions.md:110` promises that the checker explores all orderings of
  outstanding operations. Races between the answers of two calls are not found.

Further disagreements, which no run is made for; the properties of the passing
runs state what holds instead.

Slicing. `docs/soundness/checker-correctness.md:48` promises identical verdicts with slicing
on and off. TLC finds small models that refute it for each of these cases,
which is why `FullConeAgrees` excludes the shortcuts and its request has no
property of the third kind:

* directional slicing of `reachable` properties (`predicate-relevance.ts:21`) keeps only
  writers of the value asked for, and drops the writers of a value on the way to it;
* a step property about one transition (`dependency-graph.ts:200`) keeps no writers of the
  variables in its pre- and postcondition when the guard of the transition holds
  initially or is not simple: what can only be violated later is verified;
* a step property without a transition and without `changed` is checked on every edge, but its slice
  keeps only writers of the variables it reads (`slice-model.ts:332`; the full model is taken only
  when it reads none, `slice-model.ts:402`): the edge of a dropped transition leaves
  these variables alone and may be the very step that violates the property;
* a transition that is only havoc is dropped (`dependency-graph.ts:448`) even if
  what it havocs is read on the way;
* a transition in an `enabled` test is stripped to its guard even if it writes a
  variable of the slice (`slice-model.ts:941`), and the key of a group
  (`check-model.ts:98`) does not tell the stripped one from the whole one: after a property that
  observes the transition setting x from 1 to 2, "no step stays at x = 1" is reported as violated;
* `readPre` is not a read (`validator.ts:198`);
* a stripped enqueue or a write to an unmounted local no longer blocks its transition, so a
  slice may also show behaviour the model does not have.

leadsToWithin is sliced like a state property, where `docs/_specs/03-checker.md:60`
has the full model. So the transitions outside the slice no longer use up the
budget. And a transition that is its trigger counts as one that is only observed
(`slice-model.ts:272`): it is stripped to its guard, and the property is decided as if the
trigger changed nothing. With one transition that sets y to 1, "after it y is 0
again within two steps" is verified on the slice and violated in the model.

A step property about one transition that observes another one has variables added to its slice
after the closure (`dependency-graph.ts:234`), where the comment in `effect-projection.ts:23` relies
on the closure for every variable a kept statement reads. With a transition that sets y, which the
guard of the target asks for, and copies page to w, and an observed transition with a guard on w, the slice
has the statement `w := page` and not the variable page.

Two properties with one name share the first verdict.

leadsToWithin. `docs/_specs/03-checker.md:94` and `docs/concepts/properties.md` describe a budget
by class of step; the code counts every macro-step against one number. The memo is one per
trigger and not one per property (`03-checker.md:95`), and a suffix is the first
one the depth-first search finds, not a minimal one (`03-checker.md:108`). An error in
the evaluation of a trigger counts as no trigger.

Answers. `docs/concepts/transitions.md:107` says that an answer runs the matching
continuation. A guard compares the operation and not the continuation:
every TanStack Router loader shares the operation `LOADER pattern` with its
cache (`route-execution.ts:22`, `cache.ts:179`), so a cache may stay "refreshing". A call without
callbacks is never answered and blocks the queue, and so does an answer that asks for more
than there is room for, which shows only as a bound hit on `maxPending`. Mutate, cancel
and remove leave the operation in the queue, so a late answer overwrites what they wrote.
The success of a query does not clear `invalidated`, and remove does not reset the failure count.

Pool. The slot of a dead worker is marked idle and would swallow the next job; no
job is lost only because the first rejection reaches `main().catch`, which ends the
process before the next event. Exit code 1 abandons the commands that are still
running. With `--concurrency 1` JsonReporter runs all targets at once, since the
inline pool has no queue. The error of an idle worker has no listener and is an
uncaught exception of the main thread.

Covered by hazards only:

* The error of `stabilize` becomes an event without a successor (`search.rs:733`, and `:497` for
  initial states), so a property is verified on what is left.
  `docs/concepts/stabilization.md:57` promises a modeling error with a trace and no verdict.
  `GiveUp` does what the code does; no property claims that a divergence is reported.
* `note_new_state_candidate` counts an edge to a state that is not visited yet as a
  state, each time (`search.rs:429`); `docs/guides/diagnostics-and-search-limits.md:17` says
  "the number of distinct states reaches `n`". In the graph of `MCSearch` one worker reaches
  `maxStates` 6 after it has met four states.
* A trigger whose value is restored within a round is forgotten (`stabilize.rs:149`).

## Plan

Done, in this order: `CheckRequest`, `Search`, `LayeredBFS`, `SearchTwice`, `Scc`,
`Ctl`; `Stabilize`; `CommandPool`; `Slicing`; `AppQueue`; `LeadsTo` and `Finalize`; and the proofs of
`SearchProofs`, `SearchTwiceProofs`, `CtlProofs`, `StabilizeProofs`,
`CommandPoolProofs`, `LeadsToProofs`, `AppQueueProofs`, `SlicingProofs`.

What is left, the most useful first:

1. `Slicing` with classes of transitions, and the narrowing of record domains.
2. Step predicates on the pending queue (`step.rs:160`), with a queue that repeats an operation.
3. Tokens in effects and canonical identities, with a model of symmetry between tokens.

## Not modelled

* Step predicates (`step.rs`): pure functions of an edge; the search takes which edges
  violate a property as data.
* Canonical identities (`canon.rs`), expressions, domains and the compilation of the IR:
  pure functions, tested against a second implementation by
  `tools/phase7-differential.ts`. The states of the models are the identities.
* Tokens, `choose` and the arguments of operations in effects: data of `Search` and
  `Stabilize`; `AppQueue` has the queue of operations.
* Partial order reduction: always reported as skipped, so it never changes what is explored.
* The native bridge, the CLI features, the replay harness and the runtime assertions: input
  and output around the other parts. A command is an outcome in `CommandPool`.
* The properties API, validation and overlays: builders and static checks of records.
* Extraction, navigation lowering, state, type, framework and effect plugins: compilers over
  unbounded syntax. What their transitions do at run time is in `AppQueue` where an answer is
  awaited; timers and websockets have no pending operation.
* Of the templates: the SWR key window, which no plugin uses; the Next cache, whose refresh
  has the shape of TanStack Router's; suspense and deferred values and views computed from
  other variables, which are internal transitions and so belong to `Stabilize`.
* A worker thread that exits without an `error` event, as a module that a command imports can make
  it do with `process.exit`: `pool.ts` has no listener for it, and what the thread held never settles.
* Of asynchronous handlers: the history, snapshots of variables in arguments, and confirm dialogs.
* Repository tools: benchmarks and test drivers.
