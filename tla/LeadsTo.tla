------------------------------ MODULE LeadsTo -------------------------------
(***************************************************************************)
(* leadsToWithin (crates/checker/src/property.rs): when the search is      *)
(* over, a depth-first sub-search from every edge that triggered the       *)
(* property looks for a way of missing the goal within the budget.         *)
(*                                                                         *)
(* The sub-search takes the macro-steps of the model and not the recorded  *)
(* edges, so it goes past the depth bound of the search. A step that does  *)
(* not stabilise is not among them.                                        *)
(***************************************************************************)
EXTENDS Integers, Sequences

CONSTANT State   \* the states of the models

\* A property with its model and with what the search recorded.
Query ==
  [step      : SUBSET (State \X State),  \* the macro-steps of the model
   user      : SUBSET (State \X State),  \* those only transitions of class user or nav make
   allowUser : BOOLEAN,                  \* allowUserEvents
   trigger   : SUBSET (State \X State),  \* the recorded edges that triggered the property
   goal      : SUBSET State,
   broken    : SUBSET State,             \* where evaluating the goal is an error
   budget    : Nat]                      \* max_steps

VARIABLES
  query,     \* the property being answered
  untried,   \* its triggering edges that are still to come
  start,     \* the triggering edge of the current sub-search
  path,      \* the active calls of visit, outermost first: a state each, and the
             \* posts its loop has still to look at
  memo,      \* the pairs of a state and a depth with a cached None
  answer

leads == <<query, untried, start, path, memo, answer>>

-----------------------------------------------------------------------------
\* mutant: user events are always allowed
Unconstrained(q) == q.step

\* scheduler_allows
Admitted(q) == IF q.allowUser THEN q.step ELSE q.step \ q.user

After(q, s) == {t \in State : <<s, t>> \in Admitted(q)}

Call(s, posts) == [state |-> s, posts |-> posts]

\* mutant: the depth is not part of the key
KeyOfState(s, depth) == <<s, 0>>

Key(s, depth) == <<s, depth>>

Depth(calls) == Len(calls)

\* visit(s), called with the calls below still active.  The first failure ends
\* the whole sub-search, so a cached failure is never read.
Visit(s, calls, cached) ==
  LET last == Depth(calls) >= query.budget \/ After(query, s) = {}
  IN  \/ /\ s \in query.broken
         /\ answer' = "error" /\ path' = calls
      \/ /\ s \in query.goal \ query.broken
         /\ path' = calls /\ UNCHANGED answer
      \/ /\ s \notin query.goal \cup query.broken
         /\ Key(s, Depth(calls)) \in cached
         /\ path' = calls /\ UNCHANGED answer
      \/ /\ s \notin query.goal \cup query.broken
         /\ Key(s, Depth(calls)) \notin cached
         /\ last
         /\ path' = Append(calls, Call(s, {})) /\ answer' = "violated"
      \/ /\ s \notin query.goal \cup query.broken
         /\ Key(s, Depth(calls)) \notin cached
         /\ ~last
         /\ path' = Append(calls, Call(s, After(query, s))) /\ UNCHANGED answer

-----------------------------------------------------------------------------
(* finalize_leads_to.                                                      *)

Ask(q) ==
  /\ answer = "none"
  /\ query' = q
  /\ untried' = q.trigger
  /\ answer' = IF q.trigger = {} THEN "vacuous-warning" ELSE "searching"
  /\ UNCHANGED <<start, path, memo>>

\* failing_suffix_within for the next triggering edge, with a memo of its own.
Try(e) ==
  /\ answer = "searching" /\ path = <<>>
  /\ e \in untried
  /\ start' = e
  /\ untried' = untried \ {e}
  /\ memo' = {}
  /\ Visit(e[2], <<>>, {})
  /\ UNCHANGED query

Top   == path[Len(path)]
Below == SubSeq(path, 1, Len(path) - 1)

\* The loop of visit goes on to a post; their order is that of ids and canonical bytes.
Follow(t) ==
  /\ answer = "searching" /\ path # <<>>
  /\ t \in Top.posts
  /\ Visit(t, Append(Below, Call(Top.state, Top.posts \ {t})), memo)
  /\ UNCHANGED <<query, untried, start, memo>>

\* The end of the loop: every post reaches the goal within the budget.
Backtrack ==
  /\ answer = "searching" /\ path # <<>>
  /\ Top.posts = {}
  /\ memo' = memo \cup {Key(Top.state, Depth(Below))}
  /\ path' = Below
  /\ UNCHANGED <<query, untried, start, answer>>

\* No verdict is reported as the one of build_check_result.
NoneFails ==
  /\ answer = "searching" /\ path = <<>>
  /\ untried = {}
  /\ answer' = "verified-within-bounds"
  /\ UNCHANGED <<query, untried, start, path, memo>>

LeadsStep ==
  \/ \E e \in untried : Try(e)
  \/ \E t \in State : Follow(t)
  \/ Backtrack
  \/ NoneFails

Answered == answer \notin {"none", "searching"}

-----------------------------------------------------------------------------
NoQuery == [step |-> {}, user |-> {}, allowUser |-> FALSE, trigger |-> {},
            goal |-> {}, broken |-> {}, budget |-> 0]

LeadsInit ==
  /\ query = NoQuery
  /\ untried = {} /\ start = <<>> /\ path = <<>> /\ memo = {}
  /\ answer = "none"

LeadsNext ==
  \/ \E q \in Query : Ask(q)
  \/ LeadsStep

LeadsSpec == LeadsInit /\ [][LeadsNext]_leads

-----------------------------------------------------------------------------
(* Properties.                                                             *)

LeadsTypeOK ==
  /\ query \in Query
  /\ untried \subseteq query.trigger
  /\ start \in {<<>>} \cup query.trigger
  /\ path \in Seq([state : State, posts : SUBSET State])
  /\ memo \subseteq State \X Nat
  /\ answer \in {"none", "searching", "error", "violated", "vacuous-warning",
                 "verified-within-bounds"}

\* What may happen after s without the user, unless the property lets him interfere.
Continuations(q, s) ==
  {t \in State : <<s, t>> \in q.step /\ (<<s, t>> \in q.user => q.allowUser)}

\* f misses the goal from s: a run through states outside the goal that uses the
\* budget up or ends where nothing may happen.
Misses(q, s, f) ==
  /\ Len(f) \in 1..(q.budget + 1)
  /\ f[1] = s
  /\ \A i \in 1..Len(f) : f[i] \notin q.goal
  /\ \A i \in 1..(Len(f) - 1) : f[i + 1] \in Continuations(q, f[i])
  /\ Len(f) = q.budget + 1 \/ Continuations(q, f[Len(f)]) = {}

\* The suffix of the counterexample is that of finalize_leads_to: it starts where a
\* triggering edge ends and misses the goal.
SuffixMisses ==
  answer = "violated" =>
    /\ start \in query.trigger
    /\ Misses(query, start[2], [i \in 1..Len(path) |-> path[i].state])

\* A pass is a statement about the model: after none of the triggering edges can the
\* goal be missed, whatever the memo made the sub-searches skip.
PassMissesNothing ==
  answer = "verified-within-bounds" =>
    \A e \in query.trigger : \A n \in 1..(query.budget + 1) :
      ~ \E f \in [1..n -> State] : Misses(query, e[2], f)
=============================================================================
