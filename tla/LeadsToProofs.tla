--------------------------- MODULE LeadsToProofs ---------------------------
(***************************************************************************)
(* Proofs about LeadsTo, for every model, property and set of triggers: a  *)
(* violation is shown by a real suffix, and a pass means that there is     *)
(* none.                                                                   *)
(***************************************************************************)
EXTENDS LeadsTo, SequenceTheorems, FiniteSetTheorems, WellFoundedInduction, TLAPS

Calls == [state : State, posts : SUBSET State]

-----------------------------------------------------------------------------
(* The invariant.                                                          *)

\* The active calls are a run through states outside the goal.
Runs(q, calls) ==
  /\ \A i \in 1..Len(calls) : calls[i].state \notin q.goal
  /\ \A i \in 1..(Len(calls) - 1) : calls[i + 1].state \in After(q, calls[i].state)

\* The loops that are still active, within the budget.
Open(q, calls) ==
  /\ Len(calls) <= q.budget
  /\ \A i \in 1..Len(calls) :
       /\ After(q, calls[i].state) # {}
       /\ calls[i].posts \subseteq After(q, calls[i].state)

Resolved(q, t, depth, cached) == t \in q.goal \/ <<t, depth>> \in cached

\* What the loop of the i-th call has taken out is resolved, but for the call above it.
Looked(q, calls, cached) ==
  \A i \in 1..(Len(calls) - 1) : \A t \in After(q, calls[i].state) \ calls[i].posts :
    Resolved(q, t, i, cached) \/ t = calls[i + 1].state

LookedTop(q, calls, cached, except) ==
  calls # <<>> =>
    \A t \in After(q, calls[Len(calls)].state) \ calls[Len(calls)].posts :
      Resolved(q, t, Len(calls), cached) \/ t \in except

\* A cached None rests on others, one step later, and the budget is not used up.
Closed(q, cached) ==
  \A s \in State, n \in Nat : <<s, n>> \in cached =>
    /\ n < q.budget /\ After(q, s) # {}
    /\ \A t \in After(q, s) : Resolved(q, t, n + 1, cached)

\* No way of missing the goal leads from s.
NoMiss(q, s) == \A n \in 1..(q.budget + 1) : ~ \E f \in [1..n -> State] : Misses(q, s, f)

Searching ==
  /\ path # <<>> => start \in query.trigger /\ path[1].state = start[2]
  /\ Runs(query, path) /\ Open(query, path)
  /\ Looked(query, path, memo) /\ LookedTop(query, path, memo, {})
  /\ Closed(query, memo)
  /\ \A e \in query.trigger \ untried : NoMiss(query, e[2]) \/ (path # <<>> /\ e = start)

Violated ==
  /\ path # <<>> /\ start \in query.trigger /\ path[1].state = start[2]
  /\ Runs(query, path)
  /\ \/ Len(path) = query.budget + 1
     \/ Len(path) <= query.budget /\ After(query, path[Len(path)].state) = {}

LInv ==
  /\ LeadsTypeOK
  /\ answer = "none" => path = <<>> /\ memo = {} /\ start = <<>>
  /\ answer = "searching" => Searching
  /\ answer = "violated" => Violated
  /\ answer = "verified-within-bounds" => \A e \in query.trigger : NoMiss(query, e[2])

-----------------------------------------------------------------------------
(* What is admitted is what may happen.                                    *)
LEMMA AfterIsContinuations ==
  ASSUME NEW q \in Query, NEW s \in State
  PROVE  After(q, s) = Continuations(q, s) /\ After(q, s) \subseteq State
BY DEF After, Continuations, Admitted, Query

(* A goal resolves the state it holds in.                                  *)
LEMMA GoalIsNotMissed ==
  ASSUME NEW q \in Query, NEW s \in State, s \in q.goal
  PROVE  NoMiss(q, s)
<1>. SUFFICES ASSUME NEW n \in 1..(q.budget + 1), NEW f \in [1..n -> State], Misses(q, s, f)
              PROVE  FALSE
  BY DEF NoMiss
<1>1. Len(f) \in 1..(q.budget + 1) /\ f[1] = s /\ \A i \in 1..Len(f) : f[i] \notin q.goal
  BY DEF Misses
<1>2. 1 \in 1..Len(f)
  BY <1>1 DEF Query
<1>. QED  BY <1>1, <1>2

(* A cached None says that no failing suffix leads on from there: along a  *)
(* suffix every state would be cached, up to the last one, which cannot be. *)
(* The least index that is not cached is the least of the sets 1..i.       *)
LEMMA CachedIsNotMissed ==
  ASSUME NEW q \in Query, NEW cached, Closed(q, cached),
         NEW s \in State, <<s, 0>> \in cached
  PROVE  NoMiss(q, s)
<1>. SUFFICES ASSUME NEW n \in 1..(q.budget + 1), NEW f \in [1..n -> State], Misses(q, s, f)
              PROVE  FALSE
  BY DEF NoMiss
<1>0. q.budget \in Nat /\ n \in Nat
  BY DEF Query
<1>1. Len(f) = n
  BY <1>0
<1>2. /\ f[1] = s
      /\ \A i \in 1..n : f[i] \notin q.goal
      /\ \A i \in 1..(n - 1) : f[i + 1] \in Continuations(q, f[i])
      /\ n = q.budget + 1 \/ Continuations(q, f[n]) = {}
  BY <1>1 DEF Misses
<1>3. \A i \in 1..n : f[i] \in State
  OBVIOUS
<1>4. \A i \in 1..(n - 1) : <<f[i], i - 1>> \in cached => <<f[i + 1], i>> \in cached
  <2>. SUFFICES ASSUME NEW i \in 1..(n - 1), <<f[i], i - 1>> \in cached
                PROVE  <<f[i + 1], i>> \in cached
    OBVIOUS
  <2>1. i \in 1..n /\ i + 1 \in 1..n /\ i - 1 \in Nat /\ (i - 1) + 1 = i
    BY <1>0
  <2>2. f[i + 1] \in After(q, f[i])
    BY <1>2, <1>3, <2>1, AfterIsContinuations
  <2>3. Resolved(q, f[i + 1], (i - 1) + 1, cached)
    BY <1>3, <2>1, <2>2 DEF Closed
  <2>. QED  BY <1>2, <2>1, <2>3 DEF Resolved
<1>5. <<f[n], n - 1>> \notin cached
  <2>1. n \in 1..n /\ n - 1 \in Nat
    BY <1>0
  <2>2. CASE n = q.budget + 1
    BY <1>0, <1>3, <2>1, <2>2 DEF Closed
  <2>3. CASE Continuations(q, f[n]) = {}
    BY <1>3, <2>1, <2>3, AfterIsContinuations DEF Closed
  <2>. QED  BY <1>2, <2>2, <2>3
<1>. DEFINE V == 1..n
            Bad == {i \in V : <<f[i], i - 1>> \notin cached}
            T == {1..i : i \in Bad}
<1>6. IsFiniteSet(V)
  BY <1>0, FS_Interval
<1>7. T # {} /\ T \subseteq FiniteSubsetsOf(V)
  <2>1. n \in Bad
    BY <1>0, <1>5
  <2>2. ASSUME NEW i \in Bad
        PROVE  1..i \in FiniteSubsetsOf(V)
    <3>1. 1..i \subseteq V
      BY <1>0
    <3>. QED  BY <1>6, <3>1, FS_Subset DEF FiniteSubsetsOf
  <2>. QED  BY <2>1, <2>2
<1>8. PICK D \in T : \A E \in T : <<E, D>> \notin StrictSubsetOrdering(V)
  <2>. HIDE DEF T
  <2>. QED  BY <1>7, FS_StrictSubsetOrderingWellFounded, WFMin
<1>9. PICK i \in Bad : D = 1..i
  BY <1>8
<1>10. i # 1
  <2>1. <<f[1], 1 - 1>> = <<s, 0>>
    BY <1>2
  <2>2. <<f[1], 1 - 1>> \in cached
    BY <2>1
  <2>. QED  BY <1>9, <2>2
<1>11. i - 1 \in 1..(n - 1) /\ i - 1 \in V
  BY <1>0, <1>9, <1>10
<1>12. i - 1 \in Bad
  <2>1. (i - 1) + 1 = i
    BY <1>0, <1>11
  <2>. QED  BY <1>4, <1>9, <1>11, <2>1
<1>13. <<1..(i - 1), 1..i>> \in StrictSubsetOrdering(V)
  <2>1. 1..(i - 1) \subseteq V /\ 1..i \subseteq V
    BY <1>0, <1>9, <1>11
  <2>2. 1..(i - 1) \subseteq 1..i /\ i \in 1..i /\ i \notin 1..(i - 1)
    BY <1>0, <1>9, <1>11
  <2>. QED  BY <2>1, <2>2 DEF StrictSubsetOrdering
<1>. QED  BY <1>8, <1>9, <1>12, <1>13

-----------------------------------------------------------------------------
(* The steps.                                                              *)

(* A new call on top of the others.                                        *)
LEMMA PushFacts ==
  ASSUME NEW calls \in Seq(Calls), NEW c \in Calls
  PROVE  /\ Append(calls, c) \in Seq(Calls) /\ Append(calls, c) # <<>>
         /\ Len(Append(calls, c)) = Len(calls) + 1 /\ Len(calls) \in Nat
         /\ \A i \in 1..Len(calls) : Append(calls, c)[i] = calls[i] /\ calls[i] \in Calls
         /\ Append(calls, c)[Len(calls) + 1] = c
BY AppendProperties

(* visit(s) on top of calls whose loops are resolved but for s: either s is *)
(* resolved, or the search ends, or the new call has all its posts to look  *)
(* at.                                                                      *)
LEMMA VisitKeeps ==
  ASSUME query \in Query, answer = "searching",
         NEW s \in State, NEW calls \in Seq(Calls), NEW cached,
         Runs(query, calls), Open(query, calls),
         Looked(query, calls, cached), LookedTop(query, calls, cached, {s}),
         calls # <<>> => s \in After(query, calls[Len(calls)].state),
         Visit(s, calls, cached)
  PROVE  /\ path' \in Seq(Calls)
         /\ answer' \in {"searching", "violated", "error"}
         /\ calls # <<>> => path' # <<>> /\ path'[1] = calls[1]
         /\ calls = <<>> /\ path' # <<>> => path'[1].state = s
         /\ answer' = "searching" =>
              /\ Runs(query, path') /\ Open(query, path')
              /\ Looked(query, path', cached) /\ LookedTop(query, path', cached, {})
              /\ calls = <<>> /\ path' = <<>> => s \in query.goal \/ <<s, 0>> \in cached
         /\ answer' = "violated" =>
              /\ path' # <<>> /\ Runs(query, path')
              /\ \/ Len(path') = query.budget + 1
                 \/ Len(path') <= query.budget /\ After(query, path'[Len(path')].state) = {}
<1>. DEFINE c(posts) == Call(s, posts)
<1>0. query.budget \in Nat /\ Len(calls) \in Nat /\ Len(calls) <= query.budget
  BY DEF Query, Open
<1>1. ASSUME NEW posts \in SUBSET State, s \notin query.goal
      PROVE  /\ Append(calls, c(posts)) \in Seq(Calls)
             /\ Append(calls, c(posts)) # <<>>
             /\ Len(Append(calls, c(posts))) = Len(calls) + 1
             /\ Append(calls, c(posts))[Len(calls) + 1] = Call(s, posts)
             /\ \A i \in 1..Len(calls) : Append(calls, c(posts))[i] = calls[i]
             /\ calls # <<>> => Append(calls, c(posts))[1] = calls[1]
             /\ calls = <<>> => Append(calls, c(posts))[1].state = s
             /\ Runs(query, Append(calls, c(posts)))
  <2>1. c(posts) \in Calls /\ c(posts).state = s
    BY DEF Call, Calls
  <2>. DEFINE p == Append(calls, c(posts))
  <2>2. /\ p \in Seq(Calls) /\ p # <<>> /\ Len(p) = Len(calls) + 1
        /\ \A i \in 1..Len(calls) : p[i] = calls[i]
        /\ p[Len(calls) + 1] = c(posts)
    BY <2>1, PushFacts
  <2>. HIDE DEF p, c
  <2>3. calls # <<>> => 1 \in 1..Len(calls)
    BY <1>0
  <2>4. calls = <<>> => Len(calls) = 0
    OBVIOUS
  <2>5. Runs(query, p)
    <3>1. ASSUME NEW i \in 1..Len(p)
          PROVE  p[i].state \notin query.goal
      BY <1>0, <1>1, <2>1, <2>2 DEF Runs
    <3>2. ASSUME NEW i \in 1..(Len(p) - 1)
          PROVE  p[i + 1].state \in After(query, p[i].state)
      <4>1. CASE i = Len(calls)
        BY <1>0, <2>1, <2>2, <4>1
      <4>2. CASE i # Len(calls)
        BY <1>0, <2>2, <4>2 DEF Runs
      <4>. QED  BY <4>1, <4>2
    <3>. QED  BY <3>1, <3>2 DEF Runs
  <2>. QED  BY <1>0, <2>1, <2>2, <2>3, <2>4, <2>5 DEF p, c
<1>2. CASE s \in query.broken /\ answer' = "error" /\ path' = calls
  BY <1>2
<1>3. CASE /\ path' = calls /\ answer' = answer
           /\ s \in query.goal \/ Key(s, Depth(calls)) \in cached
  <2>1. Resolved(query, s, Len(calls), cached)
    BY <1>3 DEF Resolved, Key, Depth
  <2>2. LookedTop(query, calls, cached, {})
    BY <2>1 DEF LookedTop
  <2>3. calls = <<>> => s \in query.goal \/ <<s, 0>> \in cached
    BY <2>1 DEF Resolved
  <2>. QED  BY <1>3, <2>2, <2>3
<1>4. CASE /\ s \notin query.goal
           /\ Depth(calls) >= query.budget \/ After(query, s) = {}
           /\ path' = Append(calls, Call(s, {})) /\ answer' = "violated"
  <2>1. /\ path' \in Seq(Calls) /\ path' # <<>> /\ Len(path') = Len(calls) + 1
        /\ path'[Len(path')] = Call(s, {})
        /\ calls # <<>> => path'[1] = calls[1]
        /\ calls = <<>> => path'[1].state = s
        /\ Runs(query, path')
    BY <1>1, <1>4
  <2>2. Call(s, {}).state = s
    BY DEF Call
  <2>3. \/ Len(path') = query.budget + 1
        \/ Len(path') <= query.budget /\ After(query, path'[Len(path')].state) = {}
    BY <1>0, <1>4, <2>1, <2>2 DEF Depth
  <2>. QED  BY <1>4, <2>1, <2>3
<1>5. CASE /\ s \notin query.goal
           /\ ~(Depth(calls) >= query.budget \/ After(query, s) = {})
           /\ path' = Append(calls, Call(s, After(query, s))) /\ answer' = answer
  <2>1. After(query, s) \in SUBSET State
    BY DEF After
  <2>2. /\ path' \in Seq(Calls) /\ path' # <<>> /\ Len(path') = Len(calls) + 1
        /\ path'[Len(calls) + 1] = Call(s, After(query, s))
        /\ \A i \in 1..Len(calls) : path'[i] = calls[i]
        /\ calls # <<>> => path'[1] = calls[1]
        /\ calls = <<>> => path'[1].state = s
        /\ Runs(query, path')
    BY <1>1, <1>5, <2>1
  <2>3. /\ Call(s, After(query, s)).state = s
        /\ Call(s, After(query, s)).posts = After(query, s)
    BY DEF Call
  <2>4. Open(query, path')
    <3>1. Len(path') <= query.budget
      BY <1>0, <1>5, <2>2 DEF Depth
    <3>2. ASSUME NEW i \in 1..Len(path')
          PROVE  /\ After(query, path'[i].state) # {}
                 /\ path'[i].posts \subseteq After(query, path'[i].state)
      <4>1. CASE i \in 1..Len(calls)
        BY <2>2, <4>1 DEF Open
      <4>2. CASE i = Len(calls) + 1
        BY <1>5, <2>2, <2>3, <4>2
      <4>. QED  BY <1>0, <2>2, <4>1, <4>2
    <3>. QED  BY <3>1, <3>2 DEF Open
  <2>5. Looked(query, path', cached)
    <3>. SUFFICES ASSUME NEW i \in 1..(Len(path') - 1),
                         NEW t \in After(query, path'[i].state) \ path'[i].posts
                  PROVE  Resolved(query, t, i, cached) \/ t = path'[i + 1].state
      BY DEF Looked
    <3>1. i \in 1..Len(calls) /\ path'[i] = calls[i]
      BY <1>0, <2>2
    <3>2. CASE i = Len(calls)
      <4>1. calls # <<>>
        BY <3>1
      <4>2. Resolved(query, t, i, cached) \/ t = s
        BY <3>1, <3>2, <4>1 DEF LookedTop
      <4>. QED  BY <2>2, <2>3, <3>2, <4>2
    <3>3. CASE i # Len(calls)
      <4>1. i \in 1..(Len(calls) - 1) /\ i + 1 \in 1..Len(calls)
        BY <1>0, <3>1, <3>3
      <4>. QED  BY <2>2, <3>1, <4>1 DEF Looked
    <3>. QED  BY <3>2, <3>3
  <2>6. LookedTop(query, path', cached, {})
    BY <1>0, <2>2, <2>3 DEF LookedTop
  <2>. QED  BY <1>5, <2>2, <2>4, <2>5, <2>6
<1>6. \/ s \in query.broken /\ answer' = "error" /\ path' = calls
      \/ /\ path' = calls /\ answer' = answer
         /\ s \in query.goal \/ Key(s, Depth(calls)) \in cached
      \/ /\ s \notin query.goal
         /\ Depth(calls) >= query.budget \/ After(query, s) = {}
         /\ path' = Append(calls, Call(s, {})) /\ answer' = "violated"
      \/ /\ s \notin query.goal
         /\ ~(Depth(calls) >= query.budget \/ After(query, s) = {})
         /\ path' = Append(calls, Call(s, After(query, s))) /\ answer' = answer
  BY DEF Visit
<1>. QED  BY <1>2, <1>3, <1>4, <1>5, <1>6

LEMMA InitInv == LeadsInit => LInv
<1>. SUFFICES ASSUME LeadsInit PROVE LInv
  OBVIOUS
<1>1. NoQuery \in Query
  BY DEF NoQuery, Query
<1>. QED  BY <1>1 DEF LeadsInit, LInv, LeadsTypeOK, NoQuery

LEMMA AskInv == ASSUME LInv, NEW q \in Query, Ask(q) PROVE LInv'
<1>1. /\ query' = q /\ untried' = q.trigger /\ path = <<>> /\ memo = {} /\ start = <<>>
      /\ UNCHANGED <<start, path, memo>>
      /\ answer' = IF q.trigger = {} THEN "vacuous-warning" ELSE "searching"
  BY DEF Ask, LInv
<1>2. LeadsTypeOK'
  BY <1>1 DEF LInv, LeadsTypeOK
<1>3. Searching'
  BY <1>1, <1>2 DEF Searching, Runs, Open, Looked, LookedTop, Closed, LeadsTypeOK, Query
<1>. QED  BY <1>1, <1>2, <1>3 DEF LInv

LEMMA TryInv == ASSUME LInv, NEW e \in untried, Try(e) PROVE LInv'
<1>1. /\ query \in Query /\ e \in query.trigger /\ e[2] \in State /\ Searching
      /\ query.budget \in Nat /\ answer = "searching" /\ path = <<>>
  BY DEF LInv, LeadsTypeOK, Query, Try
<1>2. /\ start' = e /\ untried' = untried \ {e} /\ memo' = {} /\ query' = query
      /\ Visit(e[2], <<>>, {})
  BY DEF Try
<1>3. /\ <<>> \in Seq(Calls) /\ Len(<<>>) = 0
      /\ Runs(query, <<>>) /\ Open(query, <<>>)
      /\ Looked(query, <<>>, {}) /\ LookedTop(query, <<>>, {}, {e[2]})
  BY <1>1 DEF Runs, Open, Looked, LookedTop
<1>4. /\ path' \in Seq(Calls)
      /\ answer' \in {"searching", "violated", "error"}
      /\ path' # <<>> => path'[1].state = e[2]
      /\ answer' = "searching" =>
           /\ Runs(query, path') /\ Open(query, path')
           /\ Looked(query, path', {}) /\ LookedTop(query, path', {}, {})
           /\ path' = <<>> => e[2] \in query.goal
      /\ answer' = "violated" =>
           /\ path' # <<>> /\ Runs(query, path')
           /\ \/ Len(path') = query.budget + 1
              \/ Len(path') <= query.budget /\ After(query, path'[Len(path')].state) = {}
  <2>. DEFINE calls == <<>>
              cached == {}
  <2>1. /\ calls \in Seq(Calls) /\ Runs(query, calls) /\ Open(query, calls)
        /\ Looked(query, calls, cached) /\ LookedTop(query, calls, cached, {e[2]})
        /\ calls # <<>> => e[2] \in After(query, calls[Len(calls)].state)
        /\ Visit(e[2], calls, cached)
    BY <1>2, <1>3
  <2>2. calls = <<>> /\ <<e[2], 0>> \notin cached
    OBVIOUS
  <2>. HIDE DEF calls, cached
  <2>3. /\ path' \in Seq(Calls)
        /\ answer' \in {"searching", "violated", "error"}
        /\ calls = <<>> /\ path' # <<>> => path'[1].state = e[2]
        /\ answer' = "searching" =>
              /\ Runs(query, path') /\ Open(query, path')
              /\ Looked(query, path', cached) /\ LookedTop(query, path', cached, {})
              /\ calls = <<>> /\ path' = <<>> => e[2] \in query.goal \/ <<e[2], 0>> \in cached
        /\ answer' = "violated" =>
              /\ path' # <<>> /\ Runs(query, path')
              /\ \/ Len(path') = query.budget + 1
                 \/ Len(path') <= query.budget /\ After(query, path'[Len(path')].state) = {}
    BY <1>1, <2>1, VisitKeeps
  <2>. QED  BY <2>2, <2>3 DEF cached
<1>5. LeadsTypeOK'
  BY <1>1, <1>2, <1>4 DEF LInv, LeadsTypeOK, Calls
<1>6. ASSUME answer' = "searching"
      PROVE  Searching'
  <2>1. \A x \in query.trigger \ (untried \ {e}) :
          NoMiss(query, x[2]) \/ (path' # <<>> /\ x = e)
    <3>1. path' = <<>> => NoMiss(query, e[2])
      BY <1>1, <1>4, <1>6, GoalIsNotMissed
    <3>2. \A x \in query.trigger \ untried : NoMiss(query, x[2])
      BY <1>1 DEF Searching
    <3>. QED  BY <3>1, <3>2, <1>4
  <2>2. Closed(query, {})
    BY DEF Closed
  <2>3. /\ (path' # <<>> => e \in query.trigger /\ path'[1].state = e[2])
        /\ Runs(query, path') /\ Open(query, path')
        /\ Looked(query, path', {}) /\ LookedTop(query, path', {}, {})
    BY <1>1, <1>4, <1>6
  <2>. QED  BY <1>2, <2>1, <2>2, <2>3 DEF Searching
<1>7. ASSUME answer' = "violated"
      PROVE  Violated'
  BY <1>1, <1>2, <1>4, <1>7 DEF Violated
<1>. QED  BY <1>4, <1>5, <1>6, <1>7 DEF LInv

(* The calls below the top one, and the loop of the top one without t.     *)
LEMMA BelowFacts ==
  ASSUME LInv, path # <<>>
  PROVE  /\ Len(path) \in Nat \ {0} /\ Top \in Calls
         /\ Below \in Seq(Calls) /\ Len(Below) = Len(path) - 1
         /\ \A i \in 1..(Len(path) - 1) : Below[i] = path[i]
<1>1. path \in Seq(Calls) /\ Len(path) \in Nat /\ Len(path) # 0
  BY DEF LInv, LeadsTypeOK, Calls
<1>2. \A i \in 1..(Len(path) - 1) : path[i] \in Calls
  BY <1>1
<1>3. Len(path) - 1 \in Int /\ 1 \in Int
  BY <1>1
<1>4. /\ SubSeq(path, 1, Len(path) - 1) \in Seq(Calls)
      /\ Len(SubSeq(path, 1, Len(path) - 1))
            = IF 1 <= Len(path) - 1 THEN (Len(path) - 1) - 1 + 1 ELSE 0
      /\ \A i \in 1..((Len(path) - 1) - 1 + 1) : SubSeq(path, 1, Len(path) - 1)[i] = path[1 + i - 1]
  BY <1>2, <1>3, SubSeqProperties
<1>5. path[Len(path)] \in Calls
  BY <1>1
<1>6. (Len(path) - 1) - 1 + 1 = Len(path) - 1 /\ \A i \in Int : 1 + i - 1 = i
  BY <1>1
<1>7. /\ Len(Below) = Len(path) - 1
      /\ \A i \in 1..(Len(path) - 1) : Below[i] = path[i]
  BY <1>1, <1>4, <1>6 DEF Below
<1>. QED  BY <1>1, <1>4, <1>5, <1>7 DEF Top, Below

LEMMA FollowInv == ASSUME LInv, NEW t \in State, Follow(t) PROVE LInv'
<1>. DEFINE calls == Append(Below, Call(Top.state, Top.posts \ {t}))
            top == Len(path)
<1>1. /\ query \in Query /\ query.budget \in Nat /\ answer = "searching" /\ path # <<>>
      /\ t \in Top.posts /\ Searching /\ UNCHANGED <<query, untried, start, memo>>
      /\ Visit(t, calls, memo)
  BY DEF LInv, LeadsTypeOK, Query, Follow
<1>2. /\ top \in Nat \ {0} /\ Top \in Calls /\ Top = path[top]
      /\ Below \in Seq(Calls) /\ Len(Below) = top - 1
      /\ \A i \in 1..(top - 1) : Below[i] = path[i]
  BY <1>1, BelowFacts DEF Top
<1>3. /\ Call(Top.state, Top.posts \ {t}) \in Calls
      /\ Call(Top.state, Top.posts \ {t}).state = path[top].state
      /\ Call(Top.state, Top.posts \ {t}).posts = path[top].posts \ {t}
  BY <1>2 DEF Call, Calls
<1>4. /\ calls \in Seq(Calls) /\ calls # <<>> /\ Len(calls) = top
      /\ \A i \in 1..(top - 1) : calls[i] = path[i]
      /\ calls[top] = Call(Top.state, Top.posts \ {t})
  BY <1>2, <1>3, PushFacts
<1>. HIDE DEF calls
<1>5. \A i \in 1..top : calls[i].state = path[i].state /\ calls[i].posts \subseteq path[i].posts
  <2>. SUFFICES ASSUME NEW i \in 1..top
                PROVE  calls[i].state = path[i].state /\ calls[i].posts \subseteq path[i].posts
    OBVIOUS
  <2>1. CASE i = top
    BY <1>3, <1>4, <2>1
  <2>2. CASE i # top
    BY <1>2, <1>4, <2>2
  <2>. QED  BY <2>1, <2>2
<1>6. Runs(query, calls)
  <2>1. \A i \in 1..(top - 1) : i \in 1..top /\ i + 1 \in 1..top
    BY <1>2
  <2>. QED  BY <1>1, <1>4, <1>5, <2>1 DEF Searching, Runs
<1>7. Open(query, calls)
  <2>1. \A i \in 1..top : /\ After(query, path[i].state) # {}
                          /\ path[i].posts \subseteq After(query, path[i].state)
    BY <1>1 DEF Searching, Open
  <2>2. top <= query.budget
    BY <1>1 DEF Searching, Open
  <2>. QED  BY <1>4, <1>5, <2>1, <2>2 DEF Open
<1>8. Looked(query, calls, memo)
  <2>1. \A i \in 1..(top - 1) : i + 1 \in 1..top
    BY <1>2
  <2>. QED  BY <1>1, <1>4, <1>5, <2>1 DEF Searching, Looked
<1>9. LookedTop(query, calls, memo, {t})
  <2>1. \A x \in After(query, path[top].state) \ path[top].posts :
          Resolved(query, x, top, memo) \/ x \in {}
    BY <1>1 DEF Searching, LookedTop
  <2>2. calls[Len(calls)].state = path[top].state /\ calls[Len(calls)].posts = path[top].posts \ {t}
    BY <1>3, <1>4
  <2>. QED  BY <1>4, <2>1, <2>2 DEF LookedTop
<1>10. t \in After(query, calls[Len(calls)].state)
  <2>1. top \in 1..Len(path)
    BY <1>2
  <2>. QED  BY <1>1, <1>2, <1>4, <1>5, <2>1 DEF Searching, Open
<1>11. /\ path' \in Seq(Calls)
       /\ answer' \in {"searching", "violated", "error"}
       /\ path' # <<>> /\ path'[1] = calls[1]
       /\ answer' = "searching" =>
            /\ Runs(query, path') /\ Open(query, path')
            /\ Looked(query, path', memo) /\ LookedTop(query, path', memo, {})
       /\ answer' = "violated" =>
            /\ path' # <<>> /\ Runs(query, path')
            /\ \/ Len(path') = query.budget + 1
               \/ Len(path') <= query.budget /\ After(query, path'[Len(path')].state) = {}
  BY <1>1, <1>4, <1>6, <1>7, <1>8, <1>9, <1>10, VisitKeeps
<1>12. path'[1].state = start[2] /\ start \in query.trigger
  <2>1. 1 \in 1..top
    BY <1>2
  <2>. QED  BY <1>1, <1>5, <1>11, <2>1 DEF Searching
<1>13. LeadsTypeOK'
  BY <1>1, <1>11 DEF LInv, LeadsTypeOK, Calls
<1>14. ASSUME answer' = "searching"
       PROVE  Searching'
  <2>1. \A e \in query.trigger \ untried : NoMiss(query, e[2]) \/ e = start
    BY <1>1 DEF Searching
  <2>2. Closed(query, memo)
    BY <1>1 DEF Searching
  <2>. QED  BY <1>1, <1>11, <1>12, <1>14, <2>1, <2>2 DEF Searching
<1>15. ASSUME answer' = "violated"
       PROVE  Violated'
  BY <1>1, <1>11, <1>12, <1>15 DEF Violated
<1>. QED  BY <1>11, <1>13, <1>14, <1>15 DEF LInv

LEMMA BacktrackInv == ASSUME LInv, Backtrack PROVE LInv'
<1>. DEFINE top == Len(path)
            new == <<Top.state, top - 1>>
<1>1. /\ query \in Query /\ query.budget \in Nat /\ answer = "searching" /\ path # <<>>
      /\ Top.posts = {} /\ Searching /\ UNCHANGED <<query, untried, start, answer>>
      /\ path' = Below /\ memo' = memo \cup {Key(Top.state, Depth(Below))}
  BY DEF LInv, LeadsTypeOK, Query, Backtrack
<1>2. /\ top \in Nat \ {0} /\ Top \in Calls /\ Top = path[top]
      /\ Below \in Seq(Calls) /\ Len(Below) = top - 1
      /\ \A i \in 1..(top - 1) : Below[i] = path[i]
  BY <1>1, BelowFacts DEF Top
<1>3. memo' = memo \cup {new} /\ Top.state \in State /\ top - 1 \in Nat
  BY <1>1, <1>2 DEF Key, Depth, Calls
<1>4. \A x, i : Resolved(query, x, i, memo) => Resolved(query, x, i, memo')
  BY <1>3 DEF Resolved
<1>5. LeadsTypeOK'
  BY <1>1, <1>2, <1>3 DEF LInv, LeadsTypeOK, Calls
<1>6. Runs(query, Below) /\ Open(query, Below)
  <2>1. \A i \in 1..(top - 1) : i \in 1..top
    BY <1>2
  <2>2. \A i \in 1..(top - 1 - 1) : i \in 1..(top - 1) /\ i + 1 \in 1..(top - 1)
    BY <1>2
  <2>3. top - 1 <= query.budget
    BY <1>1, <1>2 DEF Searching, Open
  <2>. QED  BY <1>1, <1>2, <2>1, <2>2, <2>3 DEF Searching, Runs, Open
<1>7. Looked(query, Below, memo')
  <2>1. \A i \in 1..(top - 1 - 1) : i \in 1..(top - 1) /\ i + 1 \in 1..(top - 1)
    BY <1>2
  <2>. QED  BY <1>1, <1>2, <1>4, <2>1 DEF Searching, Looked
<1>8. LookedTop(query, Below, memo', {})
  <2>. SUFFICES ASSUME Below # <<>>,
                       NEW x \in After(query, Below[top - 1].state) \ Below[top - 1].posts
                PROVE  Resolved(query, x, top - 1, memo')
    BY <1>2 DEF LookedTop
  <2>1. top - 1 \in 1..(top - 1) /\ (top - 1) + 1 = top
    BY <1>2
  <2>2. Resolved(query, x, top - 1, memo) \/ x = path[top].state
    BY <1>1, <1>2, <2>1 DEF Searching, Looked
  <2>. QED  BY <1>2, <1>3, <1>4, <2>2 DEF Resolved
<1>9. Closed(query, memo')
  <2>. SUFFICES ASSUME NEW s \in State, NEW n \in Nat, <<s, n>> \in memo'
                PROVE  /\ n < query.budget /\ After(query, s) # {}
                       /\ \A x \in After(query, s) : Resolved(query, x, n + 1, memo')
    BY DEF Closed
  <2>1. CASE <<s, n>> \in memo
    BY <1>1, <1>4, <2>1 DEF Searching, Closed
  <2>2. CASE s = Top.state /\ n = top - 1
    <3>1. top \in 1..Len(path) /\ n + 1 = top
      BY <1>2, <2>2
    <3>2. top <= query.budget /\ After(query, s) # {}
      BY <1>1, <1>2, <2>2, <3>1 DEF Searching, Open
    <3>3. \A x \in After(query, s) : Resolved(query, x, top, memo)
      BY <1>1, <1>2, <2>2 DEF Searching, LookedTop
    <3>4. \A x \in After(query, s) : Resolved(query, x, n + 1, memo')
      BY <1>4, <3>1, <3>3
    <3>5. n < query.budget
      BY <1>1, <1>2, <2>2, <3>2
    <3>. QED  BY <3>2, <3>4, <3>5
  <2>. QED  BY <1>3, <2>1, <2>2
<1>10. Below # <<>> => start \in query.trigger /\ Below[1].state = start[2]
  <2>1. Below # <<>> => 1 \in 1..(top - 1)
    BY <1>2
  <2>. QED  BY <1>1, <1>2, <2>1 DEF Searching
<1>11. \A e \in query.trigger \ untried : NoMiss(query, e[2]) \/ (Below # <<>> /\ e = start)
  <2>. SUFFICES ASSUME Below = <<>>
                PROVE  NoMiss(query, start[2])
    BY <1>1 DEF Searching
  <2>1. top = 1
    BY <1>2
  <2>2. start[2] = Top.state
    BY <1>1, <1>2, <2>1 DEF Searching
  <2>3. <<start[2], 0>> \in memo'
    BY <1>3, <2>1, <2>2
  <2>. QED  BY <1>1, <1>3, <1>9, <2>2, <2>3, CachedIsNotMissed
<1>12. Searching'
  BY <1>1, <1>6, <1>7, <1>8, <1>9, <1>10, <1>11 DEF Searching
<1>. QED  BY <1>1, <1>5, <1>12 DEF LInv

LEMMA NoneFailsInv == ASSUME LInv, NoneFails PROVE LInv'
BY DEF LInv, LeadsTypeOK, NoneFails, Searching

THEOREM Invariance == LeadsSpec => []LInv
<1>1. ASSUME LInv, [LeadsNext]_leads
      PROVE  LInv'
  <2>1. ASSUME NEW q \in Query, Ask(q) PROVE LInv'
    BY <1>1, <2>1, AskInv
  <2>2. ASSUME NEW e \in untried, Try(e) PROVE LInv'
    BY <1>1, <2>2, TryInv
  <2>3. ASSUME NEW t \in State, Follow(t) PROVE LInv'
    BY <1>1, <2>3, FollowInv
  <2>4. CASE Backtrack
    BY <1>1, <2>4, BacktrackInv
  <2>5. CASE NoneFails
    BY <1>1, <2>5, NoneFailsInv
  <2>6. CASE UNCHANGED leads
    BY <1>1, <2>6 DEF leads, LInv, LeadsTypeOK, Searching, Violated, Runs, Open, Looked,
                      LookedTop, Closed, NoMiss
  <2>. QED  BY <1>1, <2>1, <2>2, <2>3, <2>4, <2>5, <2>6 DEF LeadsNext, LeadsStep
<1>. QED  BY <1>1, InitInv, PTL DEF LeadsSpec

-----------------------------------------------------------------------------
(* The theorems.                                                           *)

(* Type correctness of the sub-searches.                                   *)
THEOREM LeadsTypeCorrect == LeadsSpec => []LeadsTypeOK
<1>1. LInv => LeadsTypeOK
  BY DEF LInv
<1>. QED  BY <1>1, Invariance, PTL

(* Every suffix a leadsToWithin counterexample shows starts at a triggering *)
(* edge and misses the goal: failing_suffix_within returns no other one.   *)
THEOREM SuffixesMiss == LeadsSpec => []SuffixMisses
<1>1. ASSUME LInv
      PROVE  SuffixMisses
  <2>. SUFFICES ASSUME answer = "violated"
                PROVE  /\ start \in query.trigger
                       /\ Misses(query, start[2], [i \in 1..Len(path) |-> path[i].state])
    BY DEF SuffixMisses
  <2>. DEFINE f == [i \in 1..Len(path) |-> path[i].state]
  <2>1. /\ query \in Query /\ query.budget \in Nat /\ Violated
        /\ path \in Seq(Calls) /\ Len(path) \in Nat \ {0}
    BY <1>1 DEF LInv, LeadsTypeOK, Query, Calls, Violated
  <2>2. \A i \in 1..Len(path) : path[i].state \in State /\ f[i] = path[i].state
    <3>1. \A i \in 1..Len(path) : path[i] \in Calls
      BY <2>1
    <3>2. \A c \in Calls : c.state \in State
      BY DEF Calls
    <3>. QED  BY <3>1, <3>2
  <2>3. Len(f) = Len(path) /\ Len(path) \in 1..(query.budget + 1)
    BY <2>1 DEF Violated
  <2>. HIDE DEF f
  <2>4. 1 \in 1..Len(path) /\ Len(path) \in 1..Len(path)
        /\ \A i \in 1..(Len(path) - 1) : i \in 1..Len(path) /\ i + 1 \in 1..Len(path)
    BY <2>1
  <2>5. f[1] = start[2] /\ \A i \in 1..Len(f) : f[i] \notin query.goal
    BY <2>1, <2>2, <2>3, <2>4 DEF Violated, Runs
  <2>6. \A i \in 1..(Len(f) - 1) : f[i + 1] \in Continuations(query, f[i])
    <3>1. \A i \in 1..(Len(path) - 1) : path[i + 1].state \in After(query, path[i].state)
      BY <2>1 DEF Violated, Runs
    <3>2. \A i \in 1..(Len(path) - 1) :
            path[i + 1].state \in Continuations(query, path[i].state)
      BY <2>1, <2>2, <2>4, <3>1, AfterIsContinuations
    <3>. QED  BY <2>2, <2>3, <2>4, <3>2
  <2>7. Len(f) = query.budget + 1 \/ Continuations(query, f[Len(f)]) = {}
    BY <2>1, <2>2, <2>3, <2>4, AfterIsContinuations DEF Violated
  <2>8. Misses(query, start[2], f)
    BY <2>3, <2>5, <2>6, <2>7 DEF Misses
  <2>. QED  BY <2>1, <2>8 DEF Violated, f
<1>. QED  BY <1>1, Invariance, PTL

(* A leadsToWithin property that passes is true: the memo makes no         *)
(* sub-search skip a way of missing the goal.                              *)
THEOREM PassesAreExact == LeadsSpec => []PassMissesNothing
<1>1. LInv => PassMissesNothing
  BY DEF LInv, PassMissesNothing, NoMiss
<1>. QED  BY <1>1, Invariance, PTL
=============================================================================
