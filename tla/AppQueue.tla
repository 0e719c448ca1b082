------------------------------ MODULE AppQueue ------------------------------
(***************************************************************************)
(* The transitions the extraction writes for code that waits for an        *)
(* answer: the templates of SWR, TanStack Query, TanStack Router and the   *)
(* route loaders and actions, and the handlers of the application itself   *)
(* (await, await in sequence, Promise.all, onSuccess callbacks,            *)
(* useTransition).  All of them share one queue of operations in flight,   *)
(* sys:pending: a request enqueues its operation, and a transition of the  *)
(* environment whose guard finds that operation at the head of the queue   *)
(* is its answer.  A behaviour is one application of such parts, as the    *)
(* checker explores it.                                                    *)
(*                                                                         *)
(* An answer is matched by its operation alone: the continuation is kept   *)
(* in the entry, and no guard of these templates reads it.  The arguments  *)
(* of an operation and the effects of user code on its own variables are   *)
(* left out, except for one status variable per handler.                   *)
(***************************************************************************)
EXTENDS Integers, SequencesExt, FiniteSetsExt

CONSTANTS
    Part,         \* every part an application may have, by name: its kind and options
    Apps,         \* the applications: sets of names of parts
    Routes,       \* the route patterns
    Payload,      \* the values of a payload domain
    None,         \* null
    MaxPending    \* bounds.maxPending

ASSUME MaxPendingAssumption == MaxPending \in Nat
ASSUME NoneAssumption == None \notin Payload

VARIABLES
    app,          \* the parts of this application
    route,        \* sys:route
    pending,      \* sys:pending
    view          \* the variables of each part

vars == <<app, route, pending, view>>

Kinds == {"swr", "query", "mutation", "loader", "action", "cache",
          "handler", "callback", "chain", "transition"}

\* A chain goes on after its first answer; an action revalidates under a name of its own.
ASSUME PartAssumption ==
    \A p \in DOMAIN Part :
        /\ Part[p].kind \in Kinds
        /\ Part[p].initialData \in Payload \cup {None}
        /\ Part[p].next \in Seq(ToSet(Part[p].next))
        /\ Part[p].kind = "chain" => Part[p].next # <<>>
        /\ Part[p].kind = "action" => Part[p].revalidateOp # Part[p].op
        /\ Part[p].outcomes \subseteq {"success", "error"}
        /\ Part[p].navigates \subseteq Routes
        /\ Part[p].revalidates \in Seq(DOMAIN Part)

ASSUME AppsAssumption == \A a \in Apps : a \subseteq DOMAIN Part

\* The parts of each kind, of each application.
PartsOf == [a \in Apps |-> [kind \in Kinds |-> {p \in a : Part[p].kind = kind}]]

Of(kind) == PartsOf[app][kind]

-----------------------------------------------------------------------------
(* The queue.                                                              *)

Entry(p, op) == [op |-> op, continuation |-> p]

PendingIsAt(i, op) == i < Len(pending) /\ pending[i + 1].op = op

PendingIs(op) == PendingIsAt(0, op)

\* An index past the end leaves the queue alone.
Dequeue(q, index) == IF index < Len(q) THEN RemoveAt(q, index + 1) ELSE q

EnqueueWithoutBound(q, entries) == pending' = q \o entries

\* An effect with one enqueue too many has no successor state at all.
Enqueue(q, entries) ==
    /\ Len(q) + Len(entries) <= MaxPending
    /\ pending' = q \o entries

Ask(p) == Enqueue(pending, <<Entry(p, Part[p].op)>>)

Answer(op) == PendingIs(op) /\ pending' = Dequeue(pending, 0)

Show(p, v) == view' = [view EXCEPT ![p] = v]

\* activeWhen: the condition of a conditional key, here a condition on the route.
Active(p) == Part[p].enabled /\ Part[p].route \in {"any", route}

Navigate == \E r \in Routes \ {route} : route' = r /\ UNCHANGED <<pending, view>>

Blank == [data |-> None, status |-> "idle", fetching |-> FALSE, stale |-> FALSE,
          invalidated |-> FALSE, error |-> FALSE, failures |-> "0"]

-----------------------------------------------------------------------------
(* SWR: fetching is isValidating.                                          *)

SwrVars == Blank

\* On mount or on focus, whether or not a fetch is in flight.
SwrFetch(p) ==
    /\ Active(p)
    /\ Ask(p)
    /\ Show(p, [view[p] EXCEPT !.fetching = TRUE])

\* A bound mutate takes no notice of the answers still to come.
SwrMutate(p) ==
    /\ Part[p].mutate
    /\ Active(p)
    /\ \E d \in Payload :
         Show(p, [view[p] EXCEPT !.data = d, !.fetching = FALSE, !.error = FALSE])
    /\ UNCHANGED pending

SwrSuccess(p) ==
    /\ Answer(Part[p].op)
    /\ \E d \in Payload :
         Show(p, [view[p] EXCEPT !.data = d, !.fetching = FALSE, !.error = FALSE])

SwrError(p) ==
    /\ Answer(Part[p].op)
    /\ Show(p, [view[p] EXCEPT !.fetching = FALSE, !.error = TRUE])

-----------------------------------------------------------------------------
(* TanStack Query: fetching is fetchStatus = "fetching".                   *)

NeverStale(p) == Part[p].staleTime \in {"infinity", "static"}

QueryVars(p) ==
    LET initial == Part[p].initialData
    IN  [Blank EXCEPT !.data = initial,
                      !.status = IF initial # None THEN "success" ELSE "pending",
                      !.stale = initial # None /\ ~NeverStale(p)]

\* The fetch on mount and the manual refetch have the same guard and effect.
QueryFetch(p) ==
    /\ Active(p)
    /\ Ask(p)
    /\ Show(p, [view[p] EXCEPT !.fetching = TRUE])

\* The events that refetch a stale query.
QueryTriggers(p) ==
    {t \in Part[p].refetchOn : t = "interval" \/ Part[p].staleTime # "infinity"}

QueryRefetch(p) ==
    /\ QueryTriggers(p) # {}
    /\ Active(p)
    /\ view[p].stale
    /\ Ask(p)
    /\ Show(p, [view[p] EXCEPT !.fetching = TRUE])

\* The flag "invalidated" is left as it is.
QuerySuccess(p) ==
    /\ Answer(Part[p].op)
    /\ \E d \in Payload :
         Show(p, [view[p] EXCEPT !.data = d, !.status = "success", !.fetching = FALSE,
                                 !.stale = ~NeverStale(p), !.failures = "0"])

QueryError(p) ==
    /\ Answer(Part[p].op)
    /\ Show(p, [view[p] EXCEPT !.status = "error", !.fetching = FALSE,
                               !.failures = IF Part[p].retry THEN "1" ELSE "max"])

QueryStale(p) ==
    /\ Part[p].staleTime = "default"
    /\ Show(p, [view[p] EXCEPT !.stale = TRUE])
    /\ UNCHANGED pending

QueryInvalidate(p) ==
    /\ Ask(p)
    /\ Show(p, [view[p] EXCEPT !.stale = TRUE, !.invalidated = TRUE, !.fetching = TRUE])

QuerySetData(p) ==
    /\ \E d \in Payload :
         Show(p, [view[p] EXCEPT !.data = d, !.status = "success",
                                 !.stale = FALSE, !.invalidated = FALSE])
    /\ UNCHANGED pending

QueryRemoveKeepsData(p) ==
    /\ Show(p, [view[p] EXCEPT !.status = "pending", !.fetching = FALSE,
                               !.stale = FALSE, !.invalidated = FALSE])
    /\ UNCHANGED pending

\* Remove and cancel leave the operation in the queue: its answer still comes.
QueryRemove(p) ==
    /\ Show(p, [view[p] EXCEPT !.data = None, !.status = "pending", !.fetching = FALSE,
                               !.stale = FALSE, !.invalidated = FALSE])
    /\ UNCHANGED pending

QueryReset(p) ==
    /\ Ask(p)
    /\ Show(p, [Blank EXCEPT !.status = "pending", !.fetching = TRUE])

QueryCancel(p) ==
    /\ Show(p, [view[p] EXCEPT !.fetching = FALSE])
    /\ UNCHANGED pending

-----------------------------------------------------------------------------
(* TanStack Query's mutations.                                             *)

Mutate(p) ==
    /\ Ask(p)
    /\ Show(p, [view[p] EXCEPT !.status = "pending", !.error = FALSE])

MutationSuccess(p) ==
    /\ Answer(Part[p].op)
    /\ \E d \in Payload :
         Show(p, [view[p] EXCEPT !.data = d, !.status = "success",
                                 !.error = FALSE, !.failures = "0"])

MutationError(p) ==
    /\ Answer(Part[p].op)
    /\ Show(p, [view[p] EXCEPT !.status = "error", !.error = TRUE, !.failures = "1"])

MutationReset(p) ==
    /\ Show(p, [view[p] EXCEPT !.status = "idle", !.data = None,
                               !.error = FALSE, !.failures = "0"])
    /\ UNCHANGED pending

-----------------------------------------------------------------------------
(* Route loaders and actions, and TanStack Router's loader cache.          *)

LoaderVars == [Blank EXCEPT !.status = "pending", !.stale = TRUE]

\* A stale loader of the current route is fetched as often as there is room.
LoaderFetch(p) ==
    /\ Part[p].route = route
    /\ view[p].stale
    /\ Ask(p)
    /\ Show(p, [view[p] EXCEPT !.status = "pending"])

LoaderSuccess(p) ==
    /\ Answer(Part[p].op)
    /\ \E d \in Payload \cup (IF Part[p].gated THEN {None} ELSE {}) :
         Show(p, [view[p] EXCEPT !.data = d, !.status = "success", !.stale = FALSE])

LoaderError(p) ==
    /\ Answer(Part[p].op)
    /\ Show(p, [view[p] EXCEPT !.status = "error", !.stale = FALSE])

ActionInvoke(p) ==
    /\ view[p].status # "pending"
    /\ Ask(p)
    /\ Show(p, [view[p] EXCEPT !.status = "pending"])

\* The answer is followed by an operation of its own, which revalidates the
\* loaders; the resources it may write are read by no transition.
ActionSuccess(p) ==
    /\ PendingIs(Part[p].op)
    /\ Enqueue(Dequeue(pending, 0), <<Entry(p, Part[p].revalidateOp)>>)
    /\ Show(p, [view[p] EXCEPT !.status = "success"])

ActionError(p) ==
    /\ Answer(Part[p].op)
    /\ Show(p, [view[p] EXCEPT !.status = "error"])

\* The loaders of this application among those the action revalidates.
IfPresent(found, l) == IF l \in app THEN Append(found, l) ELSE found

RevalidatedLoaders(p) == FoldLeft(IfPresent, <<>>, Part[p].revalidates)

\* Each loader is marked stale and asked for in the same step.
Revalidate(p) ==
    LET loaders == RevalidatedLoaders(p)
    IN  /\ PendingIs(Part[p].revalidateOp)
        /\ Enqueue(Dequeue(pending, 0),
                   [i \in DOMAIN loaders |-> Entry(loaders[i], Part[loaders[i]].op)])
        /\ view' = [q \in app |-> IF q \in ToSet(loaders)
                                  THEN [view[q] EXCEPT !.stale = TRUE] ELSE view[q]]

CacheVars == [Blank EXCEPT !.status = "empty"]

CacheSuccess(p) == Answer(Part[p].op) /\ Show(p, [view[p] EXCEPT !.status = "fresh"])

CacheError(p) == Answer(Part[p].op) /\ Show(p, [view[p] EXCEPT !.status = "error"])

CacheStale(p) ==
    /\ view[p].status = "fresh"
    /\ Show(p, [view[p] EXCEPT !.status = "stale"])
    /\ UNCHANGED pending

CacheRevalidate(p) ==
    /\ view[p].status = "stale"
    /\ Ask(p)
    /\ Show(p, [view[p] EXCEPT !.status = "refreshing"])

-----------------------------------------------------------------------------
(* Handlers of the application.  The effects before the call set a status  *)
(* to "pending", those after it to "success", those of a catch to "error". *)

\* A peeled guard: the handler returns early while it is pending.
Peeled(p) == Part[p].guarded => view[p].status # "pending"

\* async () => { pre; await op; success } catch { error }
HandlerStart(p) ==
    /\ Peeled(p)
    /\ Ask(p)
    /\ Show(p, [view[p] EXCEPT !.status = "pending"])

\* The first navigation after the call is taken once all effects have been: to
\* the page it names, or back.  A push with a full history and a step back with
\* an empty one stay; the history itself is left out.
Arrive(p) == route' \in {route} \cup Part[p].navigates

HandlerSuccess(p) ==
    /\ Answer(Part[p].op)
    /\ Show(p, [view[p] EXCEPT !.status = "success"])
    /\ Arrive(p)

\* Without a catch a rejection is only a warning of the extraction.
HandlerError(p) ==
    /\ "error" \in Part[p].outcomes
    /\ Answer(Part[p].op)
    /\ Show(p, [view[p] EXCEPT !.status = "error"])

\* () => { pre; op({onSuccess, onError}) }
CallbackStart(p) ==
    /\ Peeled(p)
    /\ Ask(p)
    /\ Show(p, [view[p] EXCEPT !.status = "pending"])

\* A callback without effects has no transition: the call is then never answered.
CallbackAnswer(p) ==
    \E outcome \in Part[p].outcomes :
        /\ Answer(Part[p].op)
        /\ Show(p, [view[p] EXCEPT !.status = outcome])

\* async () => { pre; await op; await Promise.all(next); tail }, or one more
\* await instead of the Promise.all.
ChainStart(p) ==
    /\ Ask(p)
    /\ Show(p, [view[p] EXCEPT !.status = "pending"])

ChainNext(p) ==
    LET next == Part[p].next
    IN  /\ PendingIs(Part[p].op)
        /\ Enqueue(Dequeue(pending, 0), [i \in DOMAIN next |-> Entry(p, next[i])])
        /\ UNCHANGED view

JoinGuardFromOne(p) == \A i \in DOMAIN Part[p].next : PendingIsAt(i, Part[p].next[i])

JoinGuard(p) == \A i \in DOMAIN Part[p].next : PendingIsAt(i - 1, Part[p].next[i])

JoinOrderAscending(p) == [i \in DOMAIN Part[p].next |-> i - 1]

\* The positions from the last to the first, so that none shifts before its turn.
JoinOrder(p) == [i \in DOMAIN Part[p].next |-> Len(Part[p].next) - i]

ChainJoin(p) ==
    /\ JoinGuard(p)
    /\ pending' = FoldLeft(Dequeue, pending, JoinOrder(p))
    /\ Show(p, [view[p] EXCEPT !.status = "success"])

\* startTransition: fetching is isPending.
TransitionStart(p) == Ask(p) /\ Show(p, [view[p] EXCEPT !.fetching = TRUE])

TransitionCommit(p) == Answer(Part[p].op) /\ Show(p, [view[p] EXCEPT !.fetching = FALSE])

-----------------------------------------------------------------------------
InitialView(p) ==
    CASE Part[p].kind = "swr"    -> SwrVars
      [] Part[p].kind = "query"  -> QueryVars(p)
      [] Part[p].kind = "loader" -> LoaderVars
      [] Part[p].kind = "cache"  -> CacheVars
      [] OTHER                   -> Blank

Init ==
    /\ app \in Apps
    /\ route \in Routes
    /\ pending = <<>>
    /\ view = [p \in app |-> InitialView(p)]

\* What the user, the library and the environment do of their own accord.
Step ==
    \/ Navigate
    \/ /\ UNCHANGED route
       /\ \/ \E p \in Of("swr") : SwrFetch(p) \/ SwrMutate(p)
          \/ \E p \in Of("query") :
                \/ QueryFetch(p) \/ QueryRefetch(p) \/ QueryStale(p) \/ QueryInvalidate(p)
                \/ QuerySetData(p) \/ QueryRemove(p) \/ QueryReset(p) \/ QueryCancel(p)
          \/ \E p \in Of("mutation") : Mutate(p) \/ MutationReset(p)
          \/ \E p \in Of("loader") : LoaderFetch(p)
          \/ \E p \in Of("action") : ActionInvoke(p)
          \/ \E p \in Of("cache") : CacheStale(p) \/ CacheRevalidate(p)
          \/ \E p \in Of("handler") : HandlerStart(p)
          \/ \E p \in Of("callback") : CallbackStart(p)
          \/ \E p \in Of("chain") : ChainStart(p)
          \/ \E p \in Of("transition") : TransitionStart(p)

\* The transitions that wait for an operation at the head of the queue.
Resolve ==
    \/ \E p \in Of("handler") : HandlerSuccess(p)
    \/ /\ UNCHANGED route
       /\ \/ \E p \in Of("swr") : SwrSuccess(p) \/ SwrError(p)
          \/ \E p \in Of("query") : QuerySuccess(p) \/ QueryError(p)
          \/ \E p \in Of("mutation") : MutationSuccess(p) \/ MutationError(p)
          \/ \E p \in Of("loader") : LoaderSuccess(p) \/ LoaderError(p)
          \/ \E p \in Of("action") : ActionSuccess(p) \/ ActionError(p) \/ Revalidate(p)
          \/ \E p \in Of("cache") : CacheSuccess(p) \/ CacheError(p)
          \/ \E p \in Of("handler") : HandlerError(p)
          \/ \E p \in Of("callback") : CallbackAnswer(p)
          \/ \E p \in Of("chain") : ChainNext(p) \/ ChainJoin(p)
          \/ \E p \in Of("transition") : TransitionCommit(p)

Next == UNCHANGED app /\ (Step \/ Resolve)

\* The only assumption: some answer to the head of the queue comes in the end.
Spec == Init /\ [][Next]_vars /\ WF_vars(UNCHANGED app /\ Resolve)

-----------------------------------------------------------------------------
(* Properties.                                                             *)

\* The operations each part has in the queue, and those its transitions answer.
Ops ==
    [p \in DOMAIN Part |->
        {Part[p].op} \cup ToSet(Part[p].next)
          \cup (IF Part[p].kind = "action" THEN {Part[p].revalidateOp} ELSE {})]

Listens(p) == IF Part[p].kind = "callback" /\ Part[p].outcomes = {} THEN {} ELSE Ops[p]

\* The parts of each application that share no operation with another part of it.
Alone == [a \in Apps |-> {p \in a : \A q \in a \ {p} : Ops[p] \cap Ops[q] = {}}]

Asked(p) == \E i \in DOMAIN pending : pending[i].op \in Ops[p]

\* What the part shows while it waits.
Spinning(p) ==
    \/ view[p].fetching
    \/ view[p].status \in {"pending", "refreshing"} /\ Part[p].kind # "query"

\* The queue only holds operations of the application, never more than
\* maxPending of them, and every variable has a value of its domain.
TypeOK ==
    /\ app \in Apps /\ route \in Routes
    /\ pending \in Seq([op : UNION {Ops[p] : p \in app}, continuation : app])
    /\ Len(pending) <= MaxPending
    /\ view \in [app -> [data : Payload \cup {None},
                         status : {"idle", "pending", "success", "error", "empty",
                                   "fresh", "stale", "refreshing"},
                         fetching : BOOLEAN, stale : BOOLEAN, invalidated : BOOLEAN,
                         error : BOOLEAN, failures : {"0", "1", "max"}]]

\* A part whose operations are its own never shows that it waits while nothing
\* of it is in the queue, except for a loader that is stale and so will be
\* fetched again: no mutate, remove, cancel or reset loses the answer that
\* ends the wait.
SpinnerHasAnOp ==
    \A p \in Alone[app] : Spinning(p) =>
        Asked(p) \/ (Part[p].kind = "loader" /\ view[p].stale)

\* The fields of a view never contradict each other, however late an answer
\* arrives: success comes with data, a query without data is not a success and
\* a pending one has none, a mutation shows an error exactly in status error
\* and no data when idle, a loader that has not failed or answered is stale.
StatusTellsData ==
    \A p \in app :
        LET v == view[p]
            kind == Part[p].kind
        IN  /\ kind \in {"query", "mutation"} /\ v.status = "success" => v.data # None
            /\ kind = "query" /\ v.status = "pending" => v.data = None
            /\ kind = "mutation" => (v.error <=> v.status = "error")
            /\ kind = "mutation" /\ v.status = "idle" => v.data = None
            /\ kind = "loader" /\ v.status = "pending" => v.stale
            /\ kind = "loader" /\ v.status = "success" /\ ~Part[p].gated => v.data # None

\* What an application reads of its libraries is consistent in every order of
\* requests, answers, mutations and resets.
ViewIsConsistent == SpinnerHasAnOp /\ StatusTellsData

\* One answer takes what is at the positions j to k: nothing, one operation that
\* somebody waits for, or all those of one Promise.all.  They are matched by
\* operation, and need not be those it asked for itself.
OneAnswer(j, k) ==
    \/ k < j
    \/ k = j /\ \E p \in app : pending[j].op \in Listens(p)
    \/ \E p \in Of("chain") :
         /\ k - j + 1 = Len(Part[p].next)
         /\ \A i \in DOMAIN Part[p].next : pending[j + i - 1].op = Part[p].next[i]

\* No answer is lost and none is given twice: only an answer takes operations
\* out of the queue, and no more than it answers; all others keep their order, and
\* what a step asks for comes behind them.  An operation nobody waits for stays.
NoneIsLost ==
    [][\E j \in 1..Len(pending) + 1, k \in 0..Len(pending) :
           /\ OneAnswer(j, k) /\ j <= k + 1
           /\ IsPrefix(SubSeq(pending, 1, j - 1) \o SubSeq(pending, k + 1, Len(pending)),
                       pending')]_vars

\* The answer to the operation at position i, while the others go on waiting.
AnswerTo(i) == UNCHANGED app /\ Resolve /\ IsPrefix(RemoveAt(pending, i), pending')

\* Operations in flight are answered in every order: any of them that somebody
\* waits for may be the next one to be answered.  docs/concepts/transitions.md:110 says so of the
\* checker, but every guard asks for the head of the queue.
AnyOrder ==
    \A i \in DOMAIN pending :
        (\E p \in app : pending[i].op \in Listens(p)) => ENABLED AnswerTo(i)

\* Whether part p has an answer to the head of the queue: it waits for it, it
\* has room for what its answer asks for, and of a Promise.all all operations
\* are there.
RoomFor(n) == Len(pending) - 1 + n <= MaxPending

CanAnswer(p) ==
    LET op == Head(pending).op
        next == Part[p].next
    IN  CASE Part[p].kind = "chain" ->
                 \/ op = Part[p].op /\ RoomFor(Len(next))
                 \/ \A i \in DOMAIN next : i <= Len(pending) /\ pending[i].op = next[i]
          [] Part[p].kind = "action" ->
                 \/ op = Part[p].op
                 \/ op = Part[p].revalidateOp /\ RoomFor(Len(RevalidatedLoaders(p)))
          [] OTHER -> op \in Listens(p)

\* The head of the queue stays unanswered for ever.
Blocked == pending # <<>> /\ \A p \in app : ~CanAnswer(p)

Waiting(p) == p \in Alone[app] /\ Spinning(p) /\ Asked(p)

\* The parts of each application in some order.
Nth == [a \in Apps |-> SetToSeq(a)]

WaitingAt(i) == i <= Len(Nth[app]) /\ Waiting(Nth[app][i])

\* Whoever waits for an operation of its own sees the wait end, whatever else
\* the application does, unless the head of the queue is blocked: nobody waits
\* for it, there is no room to go on, or the partner of a Promise.all is gone.
\* That blocks every answer behind it.
EveryAnswerArrives ==
    \A i \in 1..Max({Len(Nth[a]) : a \in Apps}) : WaitingAt(i) ~> (~WaitingAt(i) \/ Blocked)
=============================================================================
