-------------------------- MODULE StabilizeProofs --------------------------
(***************************************************************************)
(* Proofs about Stabilize, for every set of systems: any number of         *)
(* variables and of internal transitions, any effects.                     *)
(*                                                                         *)
(* TypeCorrect   types, and the bound on rounds                            *)
(* AcyclicSystemsSettle                                                    *)
(*               effects that do not trigger each other in a circle settle *)
(* LocalsStayRight                                                         *)
(*               exactly the mounted locals have a value                   *)
(* DerivedStateStaysFresh                                                  *)
(*               derived state is up to date where it is handed out        *)
(* RoundsCoverEveryOrder                                                   *)
(*               the orders a round tries are as good as all admissible    *)
(***************************************************************************)
EXTENDS Stabilize, FiniteSetTheorems, WellFoundedInduction, TLAPS

-----------------------------------------------------------------------------
(* Types.                                                                  *)

\* A round is only begun while there is one left.
Typed ==
  /\ TypeOK
  /\ pc = "run" => rounds < S.maxInternalSteps

LEMMA SystemTyped ==
  ASSUME sys \in DOMAIN Systems
  PROVE  S \in System /\ WritesDeclared(S) /\ LocalsDeclared(S)
BY SystemAssumption DEF S

LEMMA RunnableFinite ==
  ASSUME NEW c
  PROVE  /\ Runnable(c) \subseteq Internal /\ IsFiniteSet(Runnable(c))
         /\ Cardinality(Runnable(c)) \in Nat
<1>1. Runnable(c) \subseteq Internal
  BY DEF Runnable
<1>. QED  BY <1>1, InternalAssumption, FS_Subset, FS_CardinalityType

LEMMA OrderIsSequence ==
  ASSUME NEW c, NEW o \in Sequences(Runnable(c))
  PROVE  o \in Seq(Internal) /\ \A i \in DOMAIN o : o[i] \in Runnable(c)
<1>1. o \in [1..Cardinality(Runnable(c)) -> Runnable(c)]
  BY DEF Sequences, Orders
<1>2. o \in Seq(Runnable(c))
  BY <1>1, RunnableFinite
<1>. QED  BY <1>1, <1>2, RunnableFinite

\* One transition of a branch: types, what is left, and what has changed.
LEMMA AppliedTyped ==
  ASSUME sys \in DOMAIN Systems, NEW w \in Branch, NEW v \in Applied(w)
  PROVE  /\ v \in Branch /\ v.cand = w.cand
         /\ v = w \/ /\ w.rest # <<>> /\ v.rest = Tail(w.rest)
                     /\ Changed(w.now, v.now) \subseteq S.writes[Head(w.rest)]
<1>. DEFINE t == Head(w.rest)
<1>1. CASE w.rest = <<>>
  BY <1>1 DEF Applied
<1>2. CASE w.rest # <<>>
  <2>1. /\ w.cand \in Candidate /\ w.cand.state \in State /\ w.now \in State
        /\ w.rest \in Seq(Internal)
    BY DEF Branch, Candidate
  <2>2. t \in Internal /\ Tail(w.rest) \in Seq(Internal)
    BY <1>2, <2>1
  <2>3. PICK post \in IF w.now \in S.enabled[t] THEN S.effect[t][<<w.cand.state, w.now>>]
                      ELSE {w.now} :
          v = [w EXCEPT !.rest = Tail(w.rest), !.now = post]
    BY <1>2 DEF Applied
  <2>4. post \in State /\ Changed(w.now, post) \subseteq S.writes[t]
    <3>1. CASE w.now \in S.enabled[t]
      <4>1. S.effect[t] \in [State \X State -> SUBSET State]
        BY <2>2, SystemTyped DEF System
      <4>. QED  BY <2>1, <2>2, <2>3, <3>1, <4>1, SystemTyped DEF WritesDeclared
    <3>2. CASE w.now \notin S.enabled[t]
      BY <2>1, <2>3, <3>2 DEF Changed
    <3>. QED  BY <3>1, <3>2
  <2>. QED  BY <1>2, <2>1, <2>2, <2>3, <2>4 DEF Branch
<1>. QED  BY <1>1, <1>2

LEMMA ResultTyped ==
  ASSUME NEW w \in Branch
  PROVE  Result(w) \in Candidate
BY DEF Result, Branch, Candidate, Changed

LEMMA RenewedTyped ==
  ASSUME sys \in DOMAIN Systems, NEW s \in State, NEW x \in Var
  PROVE  Renewed(s, x) \subseteq State
<1>1. S.initial[x] \subseteq Value
  BY SystemTyped DEF System
<1>. QED  BY <1>1 DEF Renewed, State

LEMMA InitTyped == Init => Typed
<1>. SUFFICES ASSUME Init PROVE Typed
  OBVIOUS
<1>1. S \in System
  BY SystemTyped DEF Init
<1>2. S.maxInternalSteps \in Nat
  BY <1>1 DEF System
<1>. QED  BY <1>2 DEF Init, Typed, TypeOK, Option, Candidate

LEMMA NextTyped == Typed /\ [Next]_vars => Typed'
<1>. SUFFICES ASSUME Typed, [Next]_vars PROVE Typed'
  OBVIOUS
<1>1. /\ sys \in DOMAIN Systems /\ S \in System /\ WritesDeclared(S)
      /\ S.maxInternalSteps \in Nat /\ rounds \in Nat /\ S.local \subseteq Var
  <2>1. sys \in DOMAIN Systems /\ rounds \in 0..S.maxInternalSteps
    BY DEF Typed, TypeOK
  <2>2. S \in System /\ WritesDeclared(S)
    BY <2>1, SystemTyped
  <2>3. S.maxInternalSteps \in Nat /\ S.local \subseteq Var
    BY <2>2 DEF System
  <2>. QED  BY <2>1, <2>2, <2>3
<1>2. sys' = sys /\ S' = S
  BY DEF Next, ResetLocal, Mounted, BeginRound, RunNext, EndRound, GiveUp, Settle, Event, vars, S
<1>3. CASE ResetLocal
  <2>1. PICK x \in locals, c \in cands :
          \E s \in Renewed(c.state, x) : cands' = {[c EXCEPT !.state = s]} /\ locals' = locals \ {x}
    BY <1>3 DEF ResetLocal
  <2>2. PICK s \in Renewed(c.state, x) : cands' = {[c EXCEPT !.state = s]}
    BY <2>1
  <2>3. s \in State
    BY <1>1, <2>1, <2>2, RenewedTyped DEF Typed, TypeOK, Candidate
  <2>. QED  BY <1>1, <1>2, <1>3, <2>1, <2>2, <2>3 DEF ResetLocal, Typed, TypeOK, Candidate
<1>4. CASE Mounted
  <2>1. ASSUME NEW c \in cands
        PROVE  [c EXCEPT !.changed = IF origin = {} THEN Var
                         ELSE UNION {Changed(s, c.state) : s \in origin}] \in Candidate
    BY DEF Typed, TypeOK, Candidate, Changed
  <2>2. cands' \subseteq Candidate
    BY <1>4, <2>1 DEF Mounted
  <2>. QED  BY <1>1, <1>2, <1>4, <2>2 DEF Mounted, Typed, TypeOK
<1>5. CASE BeginRound
  <2>1. ASSUME NEW c \in cands
        PROVE  Branches(c) \subseteq Branch
    BY OrderIsSequence DEF Branches, Branch, Typed, TypeOK, Candidate
  <2>2. work' \subseteq Branch
    BY <1>5, <2>1 DEF BeginRound
  <2>. QED  BY <1>1, <1>2, <1>5, <2>2 DEF BeginRound, Typed, TypeOK
<1>6. CASE RunNext
  <2>1. work' \subseteq Branch
    BY <1>1, <1>6, AppliedTyped DEF RunNext, Typed, TypeOK
  <2>. QED  BY <1>1, <1>2, <1>6, <2>1 DEF RunNext, Typed, TypeOK
<1>7. CASE EndRound
  <2>1. cands' \subseteq {Result(w) : w \in work}
    BY <1>7 DEF EndRound, Deduplicated
  <2>2. cands' \subseteq Candidate
    BY <2>1, ResultTyped DEF Typed, TypeOK
  <2>. QED  BY <1>1, <1>2, <1>7, <2>2 DEF EndRound, Typed, TypeOK
<1>8. CASE GiveUp
  BY <1>1, <1>2, <1>8 DEF GiveUp, Typed, TypeOK
<1>9. CASE Settle
  <2>1. origin' \in Option(State)
    BY <1>9 DEF Settle, Typed, TypeOK, Option, Candidate
  <2>. QED  BY <1>1, <1>2, <1>9, <2>1 DEF Settle, Typed, TypeOK
<1>10. CASE Event
  <2>1. PICK s \in origin : \E post \in S.event[s] : Begin(post)
    BY <1>10 DEF Event
  <2>2. PICK raw \in S.event[s] : Begin(raw)
    BY <2>1
  <2>3. raw \in State
    BY <1>1, <2>1, <2>2 DEF Typed, TypeOK, Option, System
  <2>4. cands' \subseteq Candidate /\ pc' = "mount" /\ locals' = S.local
    BY <2>2, <2>3 DEF Begin, Candidate
  <2>5. origin' = origin /\ rounds' = rounds /\ work' = work
    BY <1>10 DEF Event
  <2>. QED  BY <1>1, <1>2, <2>4, <2>5 DEF Typed, TypeOK
<1>11. CASE UNCHANGED vars
  <2>1. /\ pc' = pc /\ origin' = origin /\ locals' = locals /\ cands' = cands
        /\ rounds' = rounds /\ work' = work
    BY <1>11 DEF vars
  <2>2. TypeOK'
    BY <1>2, <2>1 DEF Typed, TypeOK
  <2>. QED  BY <1>2, <2>1, <2>2 DEF Typed
<1>. QED  BY <1>3, <1>4, <1>5, <1>6, <1>7, <1>8, <1>9, <1>10, <1>11 DEF Next

\* States, candidates and branches are well-formed, and no macro-step takes more
\* than maxInternalSteps rounds.
THEOREM TypeCorrect == Spec => []TypeOK
<1>1. Typed => TypeOK
  BY DEF Typed
<1>. QED  BY <1>1, InitTyped, NextTyped, PTL DEF Spec

-----------------------------------------------------------------------------
(* Acyclic systems settle. In a round that follows k others only            *)
(* transitions of rank k or more can run: something they are triggered by  *)
(* was changed in the round before, by a transition of rank k - 1 or more. *)

\* What the transitions of rank n - 1 and above write.
Late(rank, n) == UNION {S.writes[t] : t \in {u \in Internal : n <= rank[u] + 1}}

Written(c) == UNION {S.writes[t] : t \in Runnable(c)}

\* Candidates that are not quiet changed through transitions of high rank only.
Layered ==
  pc \in {"round", "run"} /\ rounds > 0 =>
    \A rank \in Rankings, c \in cands :
      Runnable(c) = {} \/ c.changed \subseteq Late(rank, rounds)

\* Branches run what their candidate triggered, and change what that writes.
InProgress ==
  pc = "run" => \A w \in work :
    /\ w.cand \in cands
    /\ \A i \in DOMAIN w.rest : w.rest[i] \in Runnable(w.cand)
    /\ Changed(w.cand.state, w.now) \subseteq Written(w.cand)

\* There is another round only if the last one had something to run.
GoesOn ==
  pc = "round" /\ rounds > 0 =>
    \A rank \in Rankings : \E t \in Internal : rounds <= rank[t] + 1

Settling == Typed /\ (Acyclic => Layered /\ GoesOn) /\ InProgress

LEMMA RankOfRunnable ==
  ASSUME Settling, Acyclic, pc \in {"round", "run"},
         NEW rank \in Rankings, NEW c \in cands, NEW t \in Runnable(c)
  PROVE  rounds <= rank[t]
<1>1. /\ t \in Internal /\ rank \in [Internal -> Nat]
      /\ rounds \in Nat
  <2>1. rank \in [Internal -> {n \in 0..S.maxInternalSteps : n + 2 <= S.maxInternalSteps}]
    BY DEF Rankings
  <2>. QED  BY <2>1 DEF Runnable, Settling, Typed, TypeOK
<1>2. CASE rounds = 0
  BY <1>1, <1>2
<1>3. CASE rounds > 0
  <2>1. c.changed \subseteq Late(rank, rounds)
    BY <1>3 DEF Settling, Layered
  <2>2. PICK x \in S.trigger[t] : x \in c.changed
    BY <1>1 DEF Runnable, Triggered, Acyclic
  <2>3. PICK u \in Internal : rounds <= rank[u] + 1 /\ x \in S.writes[u]
    BY <2>1, <2>2 DEF Late
  <2>4. rank[u] < rank[t]
    BY <1>1, <2>2, <2>3 DEF Rankings
  <2>. QED  BY <1>1, <2>3, <2>4
<1>. QED  BY <1>1, <1>2, <1>3

LEMMA ChangedTriangle ==
  ASSUME NEW r, NEW s, NEW t
  PROVE  Changed(r, t) \subseteq Changed(r, s) \cup Changed(s, t)
BY DEF Changed

LEMMA SettlingSettles == Settling => AcyclicSettles
<1>. SUFFICES ASSUME Settling, Acyclic, pc = "round" PROVE rounds < S.maxInternalSteps
  BY DEF AcyclicSettles
<1>1. rounds \in Nat /\ S.maxInternalSteps \in Nat
  BY SystemTyped DEF Settling, Typed, TypeOK, System
<1>2. CASE rounds = 0
  BY <1>1, <1>2 DEF Acyclic
<1>3. CASE rounds > 0
  <2>1. PICK rank \in Rankings : TRUE
    BY DEF Acyclic
  <2>2. PICK t \in Internal : rounds <= rank[t] + 1
    BY <1>3 DEF Settling, GoesOn
  <2>3. rank[t] \in Nat /\ rank[t] + 2 <= S.maxInternalSteps
    BY DEF Rankings
  <2>. QED  BY <1>1, <2>2, <2>3
<1>. QED  BY <1>1, <1>2, <1>3

LEMMA InitSettling == Init => Settling
BY InitTyped DEF Init, Settling, Layered, InProgress, GoesOn

LEMMA NextSettling == Settling /\ [Next]_vars => Settling'
<1>. SUFFICES ASSUME Settling, [Next]_vars PROVE Settling'
  OBVIOUS
<1>1. Typed /\ Typed'
  BY NextTyped DEF Settling
<1>2. sys' = sys /\ S' = S
  BY DEF Next, ResetLocal, Mounted, BeginRound, RunNext, EndRound, GiveUp, Settle, Event, vars, S
<1>3. /\ Rankings' = Rankings /\ Acyclic' = Acyclic
      /\ \A c : Runnable(c)' = Runnable(c)
      /\ \A c : Written(c)' = Written(c)
      /\ \A rank, n : Late(rank, n)' = Late(rank, n)
  BY <1>2 DEF Rankings, Acyclic, Runnable, Triggered, Written, Late
<1>4. CASE pc' \notin {"round", "run"}
  BY <1>1, <1>4 DEF Settling, Layered, InProgress, GoesOn
<1>5. CASE Mounted
  BY <1>1, <1>5 DEF Mounted, Settling, Layered, InProgress, GoesOn
<1>6. CASE BeginRound
  <2>1. InProgress'
    <3>1. ASSUME NEW c \in cands, NEW w \in Branches(c)
          PROVE  /\ w.cand = c /\ w.now = c.state
                 /\ \A i \in DOMAIN w.rest : w.rest[i] \in Runnable(c)
      BY OrderIsSequence DEF Branches
    <3>2. \A c : Changed(c.state, c.state) = {}
      BY DEF Changed
    <3>. QED  BY <1>3, <1>6, <3>1, <3>2 DEF BeginRound, InProgress
  <2>2. Layered' = Layered
    BY <1>3, <1>6 DEF BeginRound, Layered
  <2>. QED  BY <1>1, <1>3, <1>6, <2>1, <2>2 DEF BeginRound, Settling, GoesOn
<1>7. CASE RunNext
  <2>1. ASSUME NEW w \in work, NEW v \in Applied(w)
        PROVE  /\ v.cand \in cands
               /\ \A i \in DOMAIN v.rest : v.rest[i] \in Runnable(v.cand)
               /\ Changed(v.cand.state, v.now) \subseteq Written(v.cand)
    <3>1. /\ w \in Branch /\ w.cand \in cands /\ w.rest \in Seq(Internal)
          /\ \A i \in DOMAIN w.rest : w.rest[i] \in Runnable(w.cand)
          /\ Changed(w.cand.state, w.now) \subseteq Written(w.cand)
      BY <1>7 DEF RunNext, Settling, InProgress, Typed, TypeOK, Branch
    <3>2. v.cand = w.cand
      BY <3>1, AppliedTyped DEF Settling, Typed, TypeOK
    <3>3. CASE v = w
      BY <3>1, <3>3
    <3>4. CASE v # w
      <4>1. /\ w.rest # <<>> /\ v.rest = Tail(w.rest)
            /\ Changed(w.now, v.now) \subseteq S.writes[Head(w.rest)]
        BY <3>1, <3>4, AppliedTyped DEF Settling, Typed, TypeOK
      <4>2. /\ Head(w.rest) \in Runnable(w.cand)
            /\ \A i \in DOMAIN v.rest : v.rest[i] \in Runnable(w.cand)
        BY <3>1, <4>1
      <4>3. S.writes[Head(w.rest)] \subseteq Written(w.cand)
        BY <4>2 DEF Written
      <4>. QED  BY <3>1, <3>2, <4>1, <4>2, <4>3, ChangedTriangle
    <3>. QED  BY <3>3, <3>4
  <2>2. InProgress'
    BY <1>3, <1>7, <2>1 DEF RunNext, InProgress
  <2>3. Layered' = Layered
    BY <1>3, <1>7 DEF RunNext, Layered
  <2>. QED  BY <1>1, <1>3, <1>7, <2>2, <2>3 DEF RunNext, Settling, GoesOn
<1>8. CASE EndRound
  <2>1. ASSUME Acyclic, pc' = "round", NEW rank \in Rankings, NEW d \in cands', Runnable(d) # {}
        PROVE  d.changed \subseteq Late(rank, rounds + 1)
    <3>1. PICK w \in work : d = Result(w)
      BY <1>8, <2>1 DEF EndRound, Deduplicated
    <3>2. /\ w.cand \in cands
          /\ Changed(w.cand.state, w.now) \subseteq Written(w.cand)
      BY <1>8 DEF EndRound, Settling, InProgress
    <3>3. Runnable(w.cand) # {} /\ d.changed = Changed(w.cand.state, w.now)
      BY <2>1, <3>1 DEF Result
    <3>4. ASSUME NEW t \in Runnable(w.cand)
          PROVE  t \in Internal /\ rounds + 1 <= rank[t] + 1
      <4>1. t \in Internal /\ rank[t] \in Nat /\ rounds \in Nat
        BY DEF Runnable, Rankings, Settling, Typed, TypeOK
      <4>2. rounds <= rank[t]
        BY <1>8, <2>1, <3>2, RankOfRunnable DEF EndRound
      <4>. QED  BY <4>1, <4>2
    <3>5. Written(w.cand) \subseteq Late(rank, rounds + 1)
      BY <3>4 DEF Written, Late
    <3>. QED  BY <3>2, <3>3, <3>5
  <2>2. Acyclic' => Layered'
    BY <1>3, <1>8, <2>1 DEF EndRound, Layered
  <2>3. ASSUME Acyclic, pc' = "round", NEW rank \in Rankings
        PROVE  \E t \in Internal : rounds + 1 <= rank[t] + 1
    <3>1. PICK c \in cands, t \in Internal : t \in Runnable(c)
      BY <1>8, <2>3 DEF EndRound, Busy, Runnable
    <3>2. rounds <= rank[t]
      BY <1>8, <2>3, <3>1, RankOfRunnable DEF EndRound
    <3>3. rank[t] \in Nat /\ rounds \in Nat
      BY DEF Rankings, Settling, Typed, TypeOK
    <3>. QED  BY <3>2, <3>3
  <2>4. Acyclic' => GoesOn'
    BY <1>3, <1>8, <2>3 DEF EndRound, GoesOn
  <2>. QED  BY <1>1, <1>8, <2>2, <2>4 DEF EndRound, Settling, InProgress
<1>9. CASE UNCHANGED vars
  BY <1>1, <1>2, <1>3, <1>9 DEF vars, Settling, Layered, InProgress, GoesOn
<1>. QED  BY <1>4, <1>5, <1>6, <1>7, <1>8, <1>9
          DEF Next, ResetLocal, GiveUp, Settle, Event, Begin
\* The internal transitions of a system in which they do not trigger each other in
\* a circle settle within maxInternalSteps rounds, whatever the other transitions
\* do and whatever branches the effects have.
THEOREM AcyclicSystemsSettle == Spec => []AcyclicSettles
<1>. QED  BY InitSettling, NextSettling, SettlingSettles, PTL DEF Spec

-----------------------------------------------------------------------------
(* Mount-local variables. The reset gives every local its due in turn, and *)
(* a local that it has passed stays right, since no guard reads a later    *)
(* one. Afterwards only mounted locals are written, and only to values.    *)

Right(s, x) == s[x] = Unmounted <=> s \notin S.when[x]

\* What an event may do to a local it has not been looked at yet: one that was
\* mounted, or belongs to an initial state, has a value.
Pending(s, x) ==
  (origin = {} \/ origin \cap S.when[x] # {}) => s[x] # Unmounted

Resetting ==
  pc = "mount" =>
    /\ \A x \in S.local \ locals, y \in locals : x < y
    /\ \A c \in cands : \A x \in S.local \ locals : Right(c.state, x)
    /\ \A c \in cands : \A x \in locals : Pending(c.state, x)

Following ==
  /\ pc \in {"round", "run", "stable"} => \A c \in cands : FollowsMount(c.state)
  /\ pc = "run" => \A w \in work : FollowsMount(w.now)
  /\ \A s \in origin : FollowsMount(s)

Mounting == Settling /\ (EventsDecideMounting => Resetting /\ Following)

\* Only what a mount guard reads can change it.
LEMMA GuardKept ==
  ASSUME Typed, NEW x \in S.local, NEW s \in State, NEW t \in State,
         Changed(s, t) \cap S.whenReads[x] = {}
  PROVE  s \in S.when[x] <=> t \in S.when[x]
<1>1. S \in System /\ LocalsDeclared(S)
  BY SystemTyped DEF Typed, TypeOK
<1>2. S.whenReads[x] \subseteq Var
  BY <1>1 DEF System
<1>3. \A y \in S.whenReads[x] : s[y] = t[y]
  BY <1>2 DEF Changed
<1>. QED  BY <1>1, <1>3 DEF LocalsDeclared

\* The reset of one local.
LEMMA RenewedRight ==
  ASSUME Typed, EventsDecideMounting, NEW s \in State, NEW x \in S.local, Pending(s, x),
         NEW r \in Renewed(s, x)
  PROVE  /\ r \in State /\ Right(r, x)
         /\ \A y \in S.local \ {x} : r[y] = s[y]
         /\ \A y \in S.local : y < x => (r \in S.when[y] <=> s \in S.when[y])
<1>1. /\ S \in System /\ x \in Var /\ S.local \subseteq Var
      /\ S.initial[x] \subseteq Value /\ S.whenReads \in [Var -> SUBSET Var]
  BY SystemTyped DEF Typed, TypeOK, System
<1>2. r \in State
  BY <1>1, RenewedTyped DEF Typed, TypeOK
<1>3. Changed(s, r) \subseteq {x}
  BY <1>1 DEF Renewed, Changed, State
<1>4. \A y \in S.local \ {x} : r[y] = s[y]
  BY <1>1, <1>3 DEF Changed
<1>5. x \notin S.whenReads[x]
  BY <1>1, VarAssumption DEF EventsDecideMounting, Var
<1>6. r \in S.when[x] <=> s \in S.when[x]
  BY <1>2, <1>3, <1>5, GuardKept
<1>7. s \in S.when[x] => r[x] # Unmounted
  BY <1>1, ValueAssumption DEF Renewed, Pending, State
<1>8. s \notin S.when[x] => r[x] = Unmounted
  BY <1>1 DEF Renewed, State
<1>9. ASSUME NEW y \in S.local, y < x
      PROVE  r \in S.when[y] <=> s \in S.when[y]
  <2>1. x \notin S.whenReads[y]
    BY <1>1, <1>9, VarAssumption DEF EventsDecideMounting, Var
  <2>. QED  BY <1>2, <1>3, <2>1, GuardKept
<1>. QED  BY <1>2, <1>4, <1>6, <1>7, <1>8, <1>9 DEF Right

\* An internal transition that runs leaves every local right.
LEMMA EffectRight ==
  ASSUME Typed, EventsDecideMounting, NEW t \in Internal, NEW pre \in State, NEW s \in State,
         s \in S.enabled[t], FollowsMount(s), NEW post \in S.effect[t][<<pre, s>>]
  PROVE  FollowsMount(post)
<1>. SUFFICES ASSUME NEW x \in S.local PROVE Right(post, x)
  BY DEF FollowsMount, Right
<1>1. /\ S \in System /\ WritesDeclared(S) /\ LocalsDeclared(S) /\ x \in Var
      /\ S.effect[t] \in [State \X State -> SUBSET State]
  BY SystemTyped DEF Typed, TypeOK, System
<1>2. post \in State /\ Changed(s, post) \subseteq S.writes[t]
  BY <1>1 DEF WritesDeclared
<1>3. s \in S.when[x] <=> post \in S.when[x]
  BY <1>2, GuardKept DEF EventsDecideMounting
<1>4. Right(s, x)
  BY DEF FollowsMount, Right
<1>5. CASE post[x] = s[x]
  BY <1>3, <1>4, <1>5 DEF Right
<1>6. CASE post[x] # s[x]
  <2>1. x \in S.writes[t]
    BY <1>1, <1>2, <1>6 DEF Changed
  <2>2. s \in S.when[x] /\ (post[x] = Unmounted => s[x] = Unmounted)
    BY <1>1, <2>1 DEF LocalsDeclared
  <2>. QED  BY <1>3, <1>4, <2>2 DEF Right
<1>. QED  BY <1>5, <1>6

LEMMA InitMounting == Init => Mounting
<1>. SUFFICES ASSUME Init PROVE Mounting
  OBVIOUS
<1>1. S \in System /\ S.local \subseteq Var /\ S.initial \in [Var -> SUBSET Value]
  BY SystemTyped DEF Init, System
<1>2. \A c \in cands : \A x \in locals : Pending(c.state, x)
  BY <1>1, ValueAssumption DEF Init, Pending
<1>. QED  BY <1>2, InitSettling DEF Init, Mounting, Resetting, Following

LEMMA ResetLocalMounting ==
  ASSUME Typed, EventsDecideMounting, Resetting, Following, ResetLocal, S' = S
  PROVE  Resetting' /\ Following'
<1>1. PICK x \in locals, c \in cands :
        /\ \A y \in locals : x <= y
        /\ \E s \in Renewed(c.state, x) : cands' = {[c EXCEPT !.state = s]}
        /\ locals' = locals \ {x}
  BY DEF ResetLocal
<1>2. PICK r \in Renewed(c.state, x) : cands' = {[c EXCEPT !.state = r]}
  BY <1>1
<1>3. /\ pc = "mount" /\ pc' = "mount" /\ origin' = origin
      /\ c \in Candidate /\ c.state \in State /\ x \in S.local /\ locals \subseteq S.local
  BY DEF ResetLocal, Typed, TypeOK, Candidate
<1>4. S.local \subseteq Nat
  BY SystemTyped, VarAssumption DEF Typed, TypeOK, System, Var
<1>5. /\ r \in State /\ Right(r, x)
      /\ \A y \in S.local \ {x} : r[y] = c.state[y]
      /\ \A y \in S.local : y < x => (r \in S.when[y] <=> c.state \in S.when[y])
  BY <1>1, <1>3, RenewedRight DEF Resetting
<1>6. \A d \in cands' : d.state = r
  BY <1>2, <1>3 DEF Candidate
<1>7. \A y \in S.local \ locals', z \in locals' : y < z
  BY <1>1, <1>3, <1>4 DEF Resetting
<1>8. ASSUME NEW y \in S.local \ locals'
      PROVE  Right(r, y)
  <2>1. CASE y = x
    BY <1>5, <2>1
  <2>2. CASE y # x
    <3>1. y < x /\ Right(c.state, y)
      BY <1>1, <1>3, <2>2 DEF Resetting
    <3>. QED  BY <1>5, <2>2, <3>1 DEF Right
  <2>. QED  BY <2>1, <2>2
<1>9. \A y \in locals' : Pending(r, y)
  BY <1>1, <1>3, <1>5 DEF Resetting, Pending
<1>10. Resetting'
  BY <1>3, <1>6, <1>7, <1>8, <1>9 DEF Resetting, Right, Pending
<1>. QED  BY <1>3, <1>10 DEF Following, FollowsMount

\* A branch that runs its next transition, or has none, stays right.
LEMMA AppliedRight ==
  ASSUME Typed, EventsDecideMounting, NEW w \in work, FollowsMount(w.now), NEW v \in Applied(w)
  PROVE  FollowsMount(v.now)
<1>1. /\ w \in Branch /\ w.cand.state \in State /\ w.now \in State /\ w.rest \in Seq(Internal)
  BY DEF Typed, TypeOK, Branch, Candidate
<1>2. CASE w.rest = <<>>
  BY <1>2 DEF Applied
<1>3. CASE w.rest # <<>>
  <2>. DEFINE t == Head(w.rest)
  <2>1. t \in Internal
    BY <1>1, <1>3
  <2>2. PICK post \in IF w.now \in S.enabled[t] THEN S.effect[t][<<w.cand.state, w.now>>]
                      ELSE {w.now} :
          v = [w EXCEPT !.rest = Tail(w.rest), !.now = post]
    BY <1>3 DEF Applied
  <2>3. v.now = post
    BY <1>1, <2>2 DEF Branch
  <2>4. CASE w.now \in S.enabled[t]
    BY <1>1, <2>1, <2>2, <2>3, <2>4, EffectRight
  <2>5. CASE w.now \notin S.enabled[t]
    BY <2>2, <2>3, <2>5
  <2>. QED  BY <2>4, <2>5
<1>. QED  BY <1>2, <1>3

\* An event: what it does to a mounted local is a value.
LEMMA EventMounting ==
  ASSUME Typed, EventsDecideMounting, Following, Event, S' = S
  PROVE  Resetting' /\ Following'
<1>1. PICK s \in origin : \E post \in S.event[s] : Begin(post)
  BY DEF Event
<1>2. PICK raw \in S.event[s] : Begin(raw)
  BY <1>1
<1>3. /\ origin = {s} /\ s \in State /\ FollowsMount(s) /\ S \in System /\ LocalsDeclared(S)
  BY SystemTyped DEF Typed, TypeOK, Option, Following
<1>4. /\ pc' = "mount" /\ cands' = {[state |-> raw, changed |-> {}]}
      /\ locals' = S.local /\ origin' = origin
  BY <1>2 DEF Begin, Event
<1>5. ASSUME NEW x \in S.local
      PROVE  Pending(raw, x)
  BY <1>2, <1>3 DEF Pending, LocalsDeclared, FollowsMount
<1>6. Resetting'
  BY <1>4, <1>5 DEF Resetting, Pending
<1>. QED  BY <1>4, <1>6 DEF Following, FollowsMount

LEMMA NextMounting == Mounting /\ [Next]_vars => Mounting'
<1>. SUFFICES ASSUME Mounting, [Next]_vars PROVE Mounting'
  OBVIOUS
<1>1. Settling /\ Settling' /\ Typed
  BY NextSettling DEF Mounting, Settling
<1>2. sys' = sys /\ S' = S
  BY DEF Next, ResetLocal, Mounted, BeginRound, RunNext, EndRound, GiveUp, Settle, Event, vars, S
<1>3. EventsDecideMounting' = EventsDecideMounting
  BY <1>2 DEF EventsDecideMounting
<1>. SUFFICES ASSUME EventsDecideMounting, Resetting, Following PROVE Resetting' /\ Following'
  BY <1>1, <1>3 DEF Mounting
<1>4. CASE ResetLocal
  BY <1>1, <1>2, <1>4, ResetLocalMounting
<1>5. CASE Mounted
  <2>1. \A c \in cands : FollowsMount(c.state)
    BY <1>5 DEF Mounted, Resetting, FollowsMount, Right
  <2>2. \A d \in cands' : \E c \in cands : d.state = c.state
    BY <1>1, <1>5 DEF Mounted, Typed, TypeOK, Candidate
  <2>. QED  BY <1>2, <1>5, <2>1, <2>2 DEF Mounted, Resetting, Following, FollowsMount
<1>6. CASE BeginRound
  <2>1. \A w \in work' : \E c \in cands : w.now = c.state
    BY <1>6 DEF BeginRound, Branches
  <2>. QED  BY <1>2, <1>6, <2>1 DEF BeginRound, Resetting, Following, FollowsMount
<1>7. CASE RunNext
  <2>1. \A v \in work' : FollowsMount(v.now)
    BY <1>1, <1>7, AppliedRight DEF RunNext, Following
  <2>. QED  BY <1>2, <1>7, <2>1 DEF RunNext, Resetting, Following, FollowsMount
<1>8. CASE EndRound
  <2>1. ASSUME NEW d \in cands' PROVE FollowsMount(d.state)
    <3>1. PICK w \in work : d = Result(w)
      BY <1>8 DEF EndRound, Deduplicated
    <3>2. w.cand \in cands /\ FollowsMount(w.now)
      BY <1>1, <1>8 DEF EndRound, Following, Settling, InProgress
    <3>. QED  BY <1>8, <3>1, <3>2 DEF EndRound, Result, Following
  <2>. QED  BY <1>2, <1>8, <2>1 DEF EndRound, Resetting, Following, FollowsMount
<1>9. CASE GiveUp
  BY <1>2, <1>9 DEF GiveUp, Resetting, Following, FollowsMount
<1>10. CASE Settle
  BY <1>2, <1>10 DEF Settle, Resetting, Following, FollowsMount
<1>11. CASE Event
  BY <1>1, <1>2, <1>11, EventMounting
<1>12. CASE UNCHANGED vars
  BY <1>2, <1>12 DEF vars, Resetting, Following, FollowsMount, Right, Pending
<1>. QED  BY <1>4, <1>5, <1>6, <1>7, <1>8, <1>9, <1>10, <1>11, <1>12 DEF Next

\* In every state that is handed out exactly the mounted locals have a value, in
\* systems in which only events decide what is mounted: whatever order internal
\* transitions run in and however many locals are mounted inside each other.
THEOREM LocalsStayRight == Spec => []LocalsFollowMount
<1>1. Mounting => LocalsFollowMount
  BY DEF Mounting, Following, LocalsFollowMount
<1>. QED  BY <1>1, InitMounting, NextMounting, PTL DEF Spec

-----------------------------------------------------------------------------
(* Derived state. A transition that derives its variables from those it is *)
(* triggered by has left them up to date unless one of the latter has      *)
(* changed since the round began, and what has changed stays changed.      *)

Fresh(t, s) == s \in S.enabled[t] => S.effect[t][<<s, s>>] = {s}

ToRun(t, w) == \E i \in DOMAIN w.rest : w.rest[i] = t

Upkeep(t, w) ==
  /\ w.cand \in cands
  /\ \A i, j \in DOMAIN w.rest : w.rest[i] = w.rest[j] => i = j
  /\ ~ToRun(t, w) /\ Agree(S.trigger[t], w.cand.state, w.now) => Fresh(t, w.now)
  /\ \A x \in S.trigger[t] : w.now[x] # w.cand.state[x] =>
       \A i \in DOMAIN w.rest : x \notin S.writes[w.rest[i]]

KeptUp(t) ==
  /\ \A s \in origin : Fresh(t, s)
  /\ pc = "mount" => \A c \in cands : \A s \in origin : Agree(S.writes[t], s, c.state)
  /\ pc \in {"round", "run"} => \A c \in cands : ~Triggered(t, c.changed) => Fresh(t, c.state)
  /\ pc = "run" => \A w \in work : Upkeep(t, w)
  /\ pc = "stable" => \A c \in cands : Fresh(t, c.state)

Deriving == \A t \in Internal : Derives(t) => KeptUp(t)

LEMMA RuleTypes ==
  ASSUME Typed, NEW t \in Internal
  PROVE  /\ S.reads[t] \subseteq Var /\ S.writes[t] \subseteq Var /\ S.trigger[t] \subseteq Var
         /\ S.effect[t] \in [State \X State -> SUBSET State]
         /\ S.enabled[t] \subseteq State /\ S.local \subseteq Var
         /\ DependsOn(S.reads[t], S.enabled[t], S.effect[t])
<1>1. S \in System /\ sys \in DOMAIN Systems
  BY SystemTyped DEF Typed, TypeOK
<1>2. DependsOn(S.reads[t], S.enabled[t], S.effect[t])
  <2>. DEFINE rule == <<S.reads[t], S.enabled[t], S.effect[t]>>
  <2>1. rule \in {<<Systems[name].reads[u], Systems[name].enabled[u], Systems[name].effect[u]>> :
                    name \in DOMAIN Systems, u \in Internal}
    BY <1>1 DEF S
  <2>2. DependsOn(rule[1], rule[2], rule[3])
    <3>. HIDE DEF rule
    <3>. QED  BY <2>1, ReadsAssumption
  <2>. QED  BY <2>2
<1>. QED  BY <1>1, <1>2 DEF System

\* What a transition does, from states that agree on what it reads.
LEMMA LikePost ==
  ASSUME NEW X, NEW guard, NEW effect, DependsOn(X, guard, effect),
         NEW s \in State, NEW u \in State, NEW p \in State, NEW q \in State,
         Agree(X, s, u), Agree(X, p, q)
  PROVE  /\ s \in guard <=> u \in guard
         /\ \A post \in effect[<<p, s>>] : \E like \in effect[<<q, u>>] :
              \A x \in Var : like[x] = post[x] \/ (post[x] = s[x] /\ like[x] = u[x])
<1>1. \A a, b \in State : Agree(X, a, b) => 
    /\ a \in guard <=> b \in guard
    /\ \A c, d \in State : Agree(X, c, d) =>
         \A post \in effect[<<c, a>>] : \E like \in effect[<<d, b>>] :
           \A x \in Var : like[x] = post[x] \/ (post[x] = a[x] /\ like[x] = b[x])
  BY DEF DependsOn
<1>. QED  BY <1>1

Alike(t, s, u, p, q) ==
  /\ s \in S.enabled[t] <=> u \in S.enabled[t]
  /\ \A post \in S.effect[t][<<p, s>>] : \E like \in S.effect[t][<<q, u>>] :
       \A x \in Var : like[x] = post[x] \/ (post[x] = s[x] /\ like[x] = u[x])

LEMMA RulePost ==
  ASSUME Typed, NEW t \in Internal,
         NEW s \in State, NEW u \in State, NEW p \in State, NEW q \in State,
         Agree(S.reads[t], s, u), Agree(S.reads[t], p, q)
  PROVE  Alike(t, s, u, p, q)
<1>. DEFINE X == S.reads[t]
            guard == S.enabled[t]
            effect == S.effect[t]
<1>1. DependsOn(X, guard, effect) /\ Agree(X, s, u) /\ Agree(X, p, q)
  BY RuleTypes
<1>. HIDE DEF X, guard, effect
<1>2. /\ s \in guard <=> u \in guard
      /\ \A post \in effect[<<p, s>>] : \E like \in effect[<<q, u>>] :
           \A x \in Var : like[x] = post[x] \/ (post[x] = s[x] /\ like[x] = u[x])
  BY <1>1, LikePost
<1>. QED  BY <1>2 DEF guard, effect, Alike

\* A post of the effect leads to a fresh state if the triggers are as they were.
LEMMA EffectFresh ==
  ASSUME Typed, NEW t \in Internal, Derives(t), NEW pre \in State, NEW s \in State,
         NEW post \in S.effect[t][<<pre, s>>], post \in State, Changed(s, post) \subseteq S.writes[t],
         Agree(S.trigger[t], pre, post)
  PROVE  Fresh(t, post)
<1>1. Agree(S.reads[t], s, post) /\ Agree(S.reads[t], pre, post)
  BY RuleTypes DEF Agree, Derives, Changed
<1>2. PICK p \in State : S.effect[t][<<post, post>>] = {p}
  BY DEF Derives
<1>3. \A x \in Var : p[x] = post[x] \/ (post[x] = s[x] /\ p[x] = post[x])
  <2>1. \A a \in S.effect[t][<<pre, s>>] : \E like \in S.effect[t][<<post, post>>] :
          \A x \in Var : like[x] = a[x] \/ (a[x] = s[x] /\ like[x] = post[x])
    <3>1. Alike(t, s, post, pre, post)
      BY <1>1, RulePost
    <3>. QED  BY <3>1 DEF Alike
  <2>2. \E like \in S.effect[t][<<post, post>>] :
          \A x \in Var : like[x] = post[x] \/ (post[x] = s[x] /\ like[x] = post[x])
    BY <2>1
  <2>. QED  BY <1>2, <2>2
<1>4. p = post
  BY <1>2, <1>3 DEF State
<1>. QED  BY <1>2, <1>4 DEF Fresh

\* A fresh state stays fresh as long as the triggers and what is written stay.
LEMMA FreshStays ==
  ASSUME Typed, NEW t \in Internal, Derives(t), NEW s \in State, NEW u \in State,
         Agree(S.trigger[t], s, u), Agree(S.writes[t], s, u), Fresh(t, s)
  PROVE  Fresh(t, u)
<1>. SUFFICES ASSUME u \in S.enabled[t] PROVE S.effect[t][<<u, u>>] = {u}
  BY DEF Fresh
<1>1. Agree(S.reads[t], s, u) /\ Agree(S.reads[t], u, s)
  BY DEF Agree, Derives
<1>2. S.effect[t][<<s, s>>] = {s}
  <2>1. Alike(t, s, u, s, u)
    BY <1>1, RulePost
  <2>. QED  BY <2>1 DEF Fresh, Alike
<1>3. PICK p \in State : S.effect[t][<<u, u>>] = {p}
  BY DEF Derives
<1>4. \A x \in Var : p[x] = s[x] \/ p[x] = u[x]
  <2>1. \A a \in S.effect[t][<<s, s>>] : \E like \in S.effect[t][<<u, u>>] :
          \A x \in Var : like[x] = a[x] \/ (a[x] = s[x] /\ like[x] = u[x])
    <3>1. Alike(t, s, u, s, u)
      BY <1>1, RulePost
    <3>. QED  BY <3>1 DEF Alike
  <2>2. \E like \in S.effect[t][<<u, u>>] :
          \A x \in Var : like[x] = s[x] \/ (s[x] = s[x] /\ like[x] = u[x])
    BY <1>2, <2>1
  <2>. QED  BY <1>3, <2>2
<1>5. \A x \in S.writes[t] : p[x] = u[x]
  BY <1>4, RuleTypes DEF Agree
<1>6. Changed(u, p) \subseteq S.writes[t]
  BY <1>3, SystemTyped DEF WritesDeclared, Typed, TypeOK
<1>7. p = u
  BY <1>3, <1>5, <1>6 DEF Changed, State
<1>. QED  BY <1>3, <1>7

\* Whatever is runnable is in each order, once.
LEMMA OrderIsWhole ==
  ASSUME NEW c, NEW o \in Sequences(Runnable(c))
  PROVE  /\ \A i, j \in DOMAIN o : o[i] = o[j] => i = j
         /\ \A t \in Runnable(c) : \E i \in DOMAIN o : o[i] = t
<1>. DEFINE T == Runnable(c)
            n == Cardinality(T)
<1>1. o \in [1..n -> T] /\ \A i, j \in DOMAIN o : o[i] = o[j] => i = j
  BY DEF Sequences, Orders
<1>2. IsFiniteSet(T) /\ n \in Nat
  BY RunnableFinite
<1>3. IsFiniteSet(1..n) /\ Cardinality(1..n) = n
  BY <1>2, FS_Interval
<1>. HIDE DEF T
<1>4. o \in Injection(1..n, T)
  BY <1>1 DEF Injection, IsInjective
<1>5. o \in Surjection(1..n, T)
  BY <1>2, <1>3, <1>4, FS_Injection
<1>6. \A t \in T : \E i \in 1..n : o[i] = t
  BY <1>5 DEF Surjection
<1>. QED  BY <1>1, <1>6 DEF T

\* One transition of a branch.
LEMMA AppliedUpkeep ==
  ASSUME Typed, NEW t \in Internal, Derives(t), NEW w \in Branch, Upkeep(t, w),
         NEW v \in Applied(w)
  PROVE  Upkeep(t, v)
<1>0. /\ v \in Branch /\ v.cand = w.cand
      /\ v = w \/ /\ w.rest # <<>> /\ v.rest = Tail(w.rest)
                  /\ Changed(w.now, v.now) \subseteq S.writes[Head(w.rest)]
  BY AppliedTyped DEF Typed, TypeOK
<1>. SUFFICES ASSUME v # w, w.rest # <<>> PROVE Upkeep(t, v)
  BY <1>0
<1>. DEFINE u == w.rest[1]
            pre == w.cand.state
            m == w.now
            post == v.now
<1>1. /\ w.rest \in Seq(Internal) /\ pre \in State /\ m \in State /\ post \in State
      /\ Head(w.rest) = u /\ u \in Internal
  BY <1>0 DEF Branch, Candidate
<1>2. /\ v.rest = Tail(w.rest) /\ Changed(m, post) \subseteq S.writes[u]
      /\ post \in IF m \in S.enabled[u] THEN S.effect[u][<<pre, m>>] ELSE {m}
  <2>1. PICK q \in IF m \in S.enabled[u] THEN S.effect[u][<<pre, m>>] ELSE {m} :
          v = [w EXCEPT !.rest = Tail(w.rest), !.now = q]
    BY <1>1 DEF Applied
  <2>2. v.now = q
    BY <2>1 DEF Branch
  <2>. QED  BY <1>0, <1>1, <2>1, <2>2
<1>3. /\ DOMAIN v.rest = 1..(Len(w.rest) - 1) /\ Len(w.rest) \in Nat /\ Len(w.rest) > 0
      /\ \A i \in DOMAIN v.rest : v.rest[i] = w.rest[i + 1] /\ i + 1 \in DOMAIN w.rest /\ i + 1 # 1
      /\ 1 \in DOMAIN w.rest
      /\ \A i \in DOMAIN w.rest : i = 1 \/ (i - 1 \in DOMAIN v.rest /\ v.rest[i - 1] = w.rest[i])
  BY <1>1, <1>2
<1>. HIDE DEF u, pre, m, post
<1>4. \A i, j \in DOMAIN v.rest : v.rest[i] = v.rest[j] => i = j
  BY <1>3 DEF Upkeep
<1>5. \A i \in DOMAIN v.rest : v.rest[i] # u /\ v.rest[i] \in Internal
  BY <1>1, <1>3 DEF Upkeep, u
<1>6. ASSUME NEW x \in S.trigger[t], post[x] # pre[x], NEW i \in DOMAIN v.rest
      PROVE  x \notin S.writes[v.rest[i]]
  <2>1. x \in Var
    BY RuleTypes
  <2>2. CASE m[x] # pre[x]
    <3>1. \A k \in DOMAIN w.rest : x \notin S.writes[w.rest[k]]
      BY <2>2 DEF Upkeep, m, pre
    <3>2. v.rest[i] = w.rest[i + 1] /\ i + 1 \in DOMAIN w.rest
      BY <1>3
    <3>. QED  BY <3>1, <3>2
  <2>3. CASE m[x] = pre[x]
    <3>1. x \in S.writes[u]
      BY <1>2, <1>6, <2>1, <2>3 DEF Changed
    <3>2. \A a, b \in Internal : a # b => S.writes[a] \cap S.writes[b] \cap S.trigger[t] = {}
      BY DEF Derives
    <3>3. v.rest[i] # u /\ v.rest[i] \in Internal /\ u \in Internal
      BY <1>1, <1>5
    <3>4. S.writes[u] \cap S.writes[v.rest[i]] \cap S.trigger[t] = {}
      BY <3>2, <3>3
    <3>. QED  BY <3>1, <3>4
  <2>. QED  BY <2>2, <2>3
<1>7. ASSUME ~ToRun(t, v), Agree(S.trigger[t], pre, post)
      PROVE  Fresh(t, post)
  <2>1. CASE u = t /\ m \in S.enabled[t]
    BY <1>1, <1>2, <1>7, <2>1, EffectFresh
  <2>2. CASE u = t /\ m \notin S.enabled[t]
    BY <1>2, <2>2 DEF Fresh
  <2>3. CASE u # t
    <3>1. ~ToRun(t, w)
      BY <1>3, <1>7, <2>3 DEF ToRun, u
    <3>2. \A x \in S.trigger[t] : m[x] = post[x]
      <4>. SUFFICES ASSUME NEW x \in S.trigger[t], m[x] # post[x] PROVE FALSE
        OBVIOUS
      <4>1. x \in S.writes[u]
        BY <1>2, RuleTypes DEF Changed
      <4>2. m[x] # pre[x]
        BY <1>7 DEF Agree
      <4>. QED  BY <1>3, <4>1, <4>2 DEF Upkeep, m, pre, u
    <3>3. Agree(S.writes[t], m, post)
      BY <1>1, <1>2, <2>3, RuleTypes DEF Agree, Derives, Changed
    <3>4. Agree(S.trigger[t], pre, m)
      BY <1>7, <3>2 DEF Agree
    <3>5. Fresh(t, m)
      BY <3>1, <3>4 DEF Upkeep, m, pre
    <3>. QED  BY <1>1, <3>2, <3>3, <3>5, FreshStays DEF Agree
  <2>. QED  BY <2>1, <2>2, <2>3
<1>. QED  BY <1>0, <1>4, <1>6, <1>7 DEF Upkeep, post, pre

LEMMA ResetKeepsUp ==
  ASSUME Typed, NEW t \in Internal, Derives(t), KeptUp(t), ResetLocal, S' = S
  PROVE  KeptUp(t)'
<1>0. PICK x \in locals, c \in cands :
        \E q \in Renewed(c.state, x) : cands' = {[c EXCEPT !.state = q]}
  BY DEF ResetLocal
<1>1. PICK r \in Renewed(c.state, x) : cands' = {[c EXCEPT !.state = r]}
  BY <1>0
<1>2. x \in S.local /\ c \in Candidate /\ x \notin S.writes[t] /\ S.writes[t] \subseteq Var
  BY RuleTypes DEF Typed, TypeOK, Derives
<1>3. \A y \in S.writes[t] : r[y] = c.state[y]
  BY <1>1, <1>2 DEF Renewed, Candidate, State
<1>4. \A d \in cands' : d.state = r
  BY <1>1, <1>2 DEF Candidate
<1>5. /\ pc = "mount" /\ pc' = "mount" /\ origin' = origin
  BY DEF ResetLocal
<1>6. \A s \in origin : Agree(S.writes[t], s, c.state)
  BY <1>5 DEF KeptUp
<1>7. \A d \in cands' : \A s \in origin : Agree(S.writes[t], s, d.state)
  BY <1>3, <1>4, <1>6 DEF Agree
<1>. QED  BY <1>5, <1>7 DEF KeptUp, Fresh, Agree

LEMMA MountedKeepsUp ==
  ASSUME Typed, NEW t \in Internal, Derives(t), KeptUp(t), Mounted, S' = S
  PROVE  KeptUp(t)'
<1>. DEFINE changed(c) == IF origin = {} THEN Var
                          ELSE UNION {Changed(s, c.state) : s \in origin}
<1>1. /\ pc = "mount" /\ pc' = "round" /\ origin' = origin
      /\ cands' = {[c EXCEPT !.changed = changed(c)] : c \in cands}
  BY DEF Mounted
<1>2. ASSUME NEW c \in cands, ~Triggered(t, changed(c)) PROVE Fresh(t, c.state)
  <2>1. S.trigger[t] # {} /\ S.trigger[t] \cap changed(c) = {} /\ S.trigger[t] \subseteq Var
    BY <1>2, RuleTypes DEF Triggered
  <2>2. PICK s \in origin : TRUE
    BY <2>1
  <2>3. S.trigger[t] \cap Changed(s, c.state) = {}
    BY <2>1, <2>2
  <2>4. Agree(S.trigger[t], s, c.state)
    BY <2>1, <2>3 DEF Agree, Changed
  <2>5. Agree(S.writes[t], s, c.state) /\ Fresh(t, s)
    BY <1>1 DEF KeptUp
  <2>6. s \in State /\ c.state \in State
    BY DEF Typed, TypeOK, Option, Candidate
  <2>. QED  BY <2>4, <2>5, <2>6, FreshStays
<1>3. ASSUME NEW d \in cands', ~Triggered(t, d.changed) PROVE Fresh(t, d.state)
  <2>1. PICK c \in cands : d = [c EXCEPT !.changed = changed(c)]
    BY <1>1
  <2>2. d.changed = changed(c) /\ d.state = c.state
    BY <2>1 DEF Typed, TypeOK, Candidate
  <2>. HIDE DEF changed
  <2>. QED  BY <1>2, <1>3, <2>2
<1>. HIDE DEF changed
<1>4. \A d \in cands' : Triggered(t, d.changed)' <=> Triggered(t, d.changed)
  BY DEF Triggered
<1>5. \A d \in cands' : ~Triggered(t, d.changed)' => Fresh(t, d.state)'
  BY <1>3 DEF Triggered, Fresh
<1>. QED  BY <1>1, <1>5 DEF KeptUp, Fresh, Triggered

LEMMA BeginKeepsUp ==
  ASSUME Typed, NEW t \in Internal, Derives(t), KeptUp(t), BeginRound, S' = S
  PROVE  KeptUp(t)'
<1>1. /\ pc = "round" /\ pc' = "run" /\ origin' = origin /\ cands' = cands
      /\ work' = UNION {Branches(c) : c \in cands}
  BY DEF BeginRound
<1>2. ASSUME NEW w \in work' PROVE Upkeep(t, w)
  <2>1. PICK c \in cands : w \in Branches(c)
    BY <1>1
  <2>2. PICK o \in Sequences(Runnable(c)) : w = [cand |-> c, rest |-> o, now |-> c.state]
    BY <2>1 DEF Branches
  <2>3. w.cand = c /\ w.rest = o /\ w.now = c.state
    BY <2>2
  <2>4. ASSUME ~ToRun(t, w) PROVE Fresh(t, w.now)
    <3>1. t \notin Runnable(c)
      BY <2>3, <2>4, OrderIsWhole DEF ToRun
    <3>2. c.state \notin S.enabled[t] \/ ~Triggered(t, c.changed)
      BY <3>1 DEF Runnable
    <3>3. ~Triggered(t, c.changed) => Fresh(t, c.state)
      BY <1>1 DEF KeptUp
    <3>. QED  BY <2>3, <3>2, <3>3 DEF Fresh
  <2>5. \A i, j \in DOMAIN o : o[i] = o[j] => i = j
    BY OrderIsWhole
  <2>. QED  BY <2>3, <2>4, <2>5 DEF Upkeep
<1>. QED  BY <1>1, <1>2 DEF KeptUp, Upkeep, Fresh, Triggered, ToRun

LEMMA RunKeepsUp ==
  ASSUME Typed, NEW t \in Internal, Derives(t), KeptUp(t), RunNext, S' = S
  PROVE  KeptUp(t)'
<1>1. /\ pc = "run" /\ pc' = "run" /\ origin' = origin /\ cands' = cands
      /\ work' = UNION {Applied(w) : w \in work}
  BY DEF RunNext
<1>2. ASSUME NEW v \in work' PROVE Upkeep(t, v)
  <2>1. PICK w \in work : v \in Applied(w)
    BY <1>1
  <2>2. w \in Branch /\ Upkeep(t, w)
    BY <1>1 DEF KeptUp, Typed, TypeOK
  <2>. QED  BY <2>1, <2>2, AppliedUpkeep
<1>. QED  BY <1>1, <1>2 DEF KeptUp, Upkeep, Fresh, Triggered, ToRun

LEMMA EndKeepsUp ==
  ASSUME Typed, NEW t \in Internal, Derives(t), KeptUp(t), EndRound, S' = S
  PROVE  KeptUp(t)'
<1>1. /\ pc = "run" /\ pc' \in {"round", "stable"} /\ origin' = origin
      /\ pc' = "stable" => ~Busy
      /\ cands' \in Deduplicated({Result(w) : w \in work})
      /\ \A w \in work : w.rest = <<>>
  BY DEF EndRound
<1>2. ASSUME NEW d \in cands', pc' = "stable" \/ ~Triggered(t, d.changed) PROVE Fresh(t, d.state)
  <2>1. PICK w \in work : d = Result(w)
    BY <1>1 DEF Deduplicated
  <2>2. w.cand \in cands /\ (Agree(S.trigger[t], w.cand.state, w.now) => Fresh(t, w.now))
    BY <1>1 DEF KeptUp, Upkeep, ToRun
  <2>3. CASE Runnable(w.cand) = {}
    <3>1. ~Triggered(t, w.cand.changed) => Fresh(t, w.cand.state)
      BY <1>1, <2>2 DEF KeptUp
    <3>2. w.cand.state \notin S.enabled[t] \/ ~Triggered(t, w.cand.changed)
      BY <2>3 DEF Runnable
    <3>. QED  BY <2>1, <2>3, <3>1, <3>2 DEF Result, Fresh
  <2>4. CASE Runnable(w.cand) # {}
    <3>1. pc' # "stable"
      BY <1>1, <2>2, <2>4 DEF Busy
    <3>2. d.state = w.now /\ d.changed = Changed(w.cand.state, w.now)
      BY <2>1, <2>4 DEF Result
    <3>3. S.trigger[t] \cap Changed(w.cand.state, w.now) = {} /\ S.trigger[t] \subseteq Var
      BY <1>2, <3>1, <3>2, RuleTypes DEF Triggered
    <3>4. Agree(S.trigger[t], w.cand.state, w.now)
      BY <3>3 DEF Agree, Changed
    <3>. QED  BY <2>2, <3>2, <3>4
  <2>. QED  BY <2>3, <2>4
<1>. QED  BY <1>1, <1>2 DEF KeptUp, Fresh, Triggered

LEMMA EventKeepsUp ==
  ASSUME Typed, NEW t \in Internal, Derives(t), KeptUp(t), Event, S' = S
  PROVE  KeptUp(t)'
<1>0. PICK s \in origin : \E post \in S.event[s] : Begin(post)
  BY DEF Event
<1>1. PICK raw \in S.event[s] : Begin(raw)
  BY <1>0
<1>2. /\ origin = {s} /\ s \in State /\ S.writes[t] \subseteq Var
  BY RuleTypes DEF Typed, TypeOK, Option
<1>3. /\ pc' = "mount" /\ cands' = {[state |-> raw, changed |-> {}]} /\ origin' = origin
  BY <1>1 DEF Begin, Event
<1>4. Agree(S.writes[t], s, raw)
  BY <1>1, <1>2 DEF Derives, Changed, Agree
<1>5. \A d \in cands' : \A q \in origin : Agree(S.writes[t], q, d.state)
  BY <1>2, <1>3, <1>4
<1>. QED  BY <1>3, <1>5 DEF KeptUp, Fresh, Agree

LEMMA InitKeepsUp == Init => Deriving
BY DEF Init, Deriving, KeptUp

LEMMA NextKeepsUp == Typed /\ Deriving /\ [Next]_vars => Deriving'
<1>. SUFFICES ASSUME Typed, Deriving, [Next]_vars PROVE Deriving'
  OBVIOUS
<1>1. sys' = sys /\ S' = S
  BY DEF Next, ResetLocal, Mounted, BeginRound, RunNext, EndRound, GiveUp, Settle, Event, vars, S
<1>2. \A t \in Internal : Derives(t)' <=> Derives(t)
  BY <1>1 DEF Derives
<1>. SUFFICES ASSUME NEW t \in Internal, Derives(t) PROVE KeptUp(t)'
  BY <1>2 DEF Deriving
<1>3. KeptUp(t)
  BY DEF Deriving
<1>4. CASE GiveUp
  BY <1>1, <1>3, <1>4 DEF GiveUp, KeptUp, Fresh
<1>5. CASE Settle
  BY <1>1, <1>3, <1>5 DEF Settle, KeptUp, Fresh
<1>6. CASE UNCHANGED vars
  BY <1>1, <1>3, <1>6 DEF vars, KeptUp, Fresh, Upkeep, ToRun, Triggered
<1>. QED
  BY <1>1, <1>3, <1>4, <1>5, <1>6, ResetKeepsUp, MountedKeepsUp, BeginKeepsUp, RunKeepsUp,
     EndKeepsUp, EventKeepsUp DEF Next

\* In every state that is handed out, to run again a transition that derives its own
\* variables from what it is triggered by changes nothing: whatever the other
\* transitions do, in whatever order and in however many rounds.
THEOREM DerivedStateStaysFresh == Spec => []DerivedStateIsUpToDate
<1>1. Deriving => DerivedStateIsUpToDate
  BY DEF Deriving, KeptUp, Fresh, DerivedStateIsUpToDate
<1>. QED  BY <1>1, InitTyped, NextTyped, InitKeepsUp, NextKeepsUp, PTL DEF Spec

-----------------------------------------------------------------------------
(* The orders of a round. What the transitions of a round do does not      *)
(* depend on the order of two neighbours that read nothing of each other   *)
(* and write different variables, so each admissible order can be sorted,  *)
(* by phases or by ids, without a change of what it results in.            *)

\* What a transition makes of a state, and the stages of a run.
Taken(enabled, effect, t, pre, s) == IF s \in enabled[t] THEN effect[t][<<pre, s>>] ELSE {s}

Stage(enabled, effect, o, pre, g, k) ==
  IF k = 0 THEN {pre} ELSE UNION {Taken(enabled, effect, o[k], pre, s) : s \in g[k - 1]}

IsRun(enabled, effect, o, pre, n, g) ==
  g = [k \in 0..n |-> Stage(enabled, effect, o, pre, g, k)]

Run(enabled, effect, o, pre) == CHOOSE g : IsRun(enabled, effect, o, pre, Len(o), g)

Step(t, pre, s) == Taken(S.enabled, S.effect, t, pre, s)

Stages(o, pre) == Run(S.enabled, S.effect, o, pre)

\* A set of numbers has a least element.
LEMMA LeastOf ==
  ASSUME NEW n \in Nat, NEW I, I \subseteq 0..n, I # {}
  PROVE  \E i \in I : \A j \in I : i <= j
<1>. DEFINE V == 0..n
            T == {0..i : i \in I}
<1>1. IsFiniteSet(V)
  BY FS_Interval
<1>2. \A i \in I : 0..i \in FiniteSubsetsOf(V)
  <2>. SUFFICES ASSUME NEW i \in I PROVE 0..i \in FiniteSubsetsOf(V)
    OBVIOUS
  <2>1. 0..i \subseteq V
    OBVIOUS
  <2>. QED  BY <1>1, <2>1, FS_Subset DEF FiniteSubsetsOf
<1>3. T # {} /\ T \subseteq FiniteSubsetsOf(V)
  BY <1>2
<1>4. PICK D \in T : \A F \in T : <<F, D>> \notin StrictSubsetOrdering(V)
  <2>. HIDE DEF T
  <2>. QED  BY <1>1, <1>3, FS_StrictSubsetOrderingWellFounded, WFMin
<1>5. PICK i \in I : D = 0..i
  BY <1>4
<1>6. ASSUME NEW j \in I, j < i PROVE FALSE
  <2>1. i \in 0..n /\ j \in 0..n
    OBVIOUS
  <2>2. 0..j \subseteq 0..i /\ i \in 0..i /\ i \notin 0..j
    BY <1>6, <2>1
  <2>3. <<0..j, 0..i>> \in StrictSubsetOrdering(V)
    BY <1>2, <2>2 DEF StrictSubsetOrdering, FiniteSubsetsOf
  <2>. QED  BY <1>4, <1>5, <2>3
<1>7. \A j \in I : i \in Int /\ j \in Int
  OBVIOUS
<1>. QED  BY <1>6, <1>7

\* A set that contains 0 and, with a number below n, the next one contains all up to n.
LEMMA UpTo ==
  ASSUME NEW n \in Nat, NEW J, 0 \in J, \A j \in 1..n : j - 1 \in J => j \in J
  PROVE  0..n \subseteq J
<1>. DEFINE I == (0..n) \ J
<1>. SUFFICES ASSUME I # {} PROVE FALSE
  OBVIOUS
<1>1. PICK i \in I : \A j \in I : i <= j
  <2>. HIDE DEF I
  <2>1. I \subseteq 0..n
    BY DEF I
  <2>. QED  BY <2>1, LeastOf
<1>2. i \in 1..n /\ i - 1 \in 0..n /\ ~(i <= i - 1)
  OBVIOUS
<1>3. i - 1 \in J
  BY <1>1, <1>2
<1>. QED  BY <1>2, <1>3

LEMMA RunsExist ==
  ASSUME NEW enabled, NEW effect, NEW o, NEW pre, NEW n \in Nat
  PROVE  \E g : IsRun(enabled, effect, o, pre, n, g)
<1>. DEFINE J == {j \in 0..n : \E g : IsRun(enabled, effect, o, pre, j, g)}
<1>1. 0 \in J
  <2>. DEFINE g == [k \in 0..0 |-> {pre}]
  <2>1. \A k \in 0..0 : Stage(enabled, effect, o, pre, g, k) = {pre}
    BY DEF Stage
  <2>2. IsRun(enabled, effect, o, pre, 0, g)
    BY <2>1 DEF IsRun
  <2>. QED  BY <2>2
<1>2. ASSUME NEW j \in 1..n, j - 1 \in J
      PROVE  j \in J
  <2>1. PICK g : IsRun(enabled, effect, o, pre, j - 1, g)
    BY <1>2
  <2>. DEFINE h == [k \in 0..j |-> IF k = j THEN Stage(enabled, effect, o, pre, g, j) ELSE g[k]]
  <2>2. ASSUME NEW k \in 0..j
        PROVE  h[k] = Stage(enabled, effect, o, pre, h, k)
    <3>1. k # 0 => k - 1 \in 0..j /\ k - 1 # j
      OBVIOUS
    <3>2. k # 0 => h[k - 1] = g[k - 1]
      BY <3>1
    <3>3. Stage(enabled, effect, o, pre, h, k) = Stage(enabled, effect, o, pre, g, k)
      BY <3>2 DEF Stage
    <3>4. CASE k = j
      BY <3>3, <3>4
    <3>5. CASE k # j
      <4>1. k \in 0..(j - 1)
        BY <3>5
      <4>. QED  BY <2>1, <3>3, <3>5, <4>1 DEF IsRun
    <3>. QED  BY <3>4, <3>5
  <2>3. h = [k \in 0..j |-> h[k]]
    OBVIOUS
  <2>. HIDE DEF h
  <2>4. IsRun(enabled, effect, o, pre, j, h)
    BY <2>2, <2>3 DEF IsRun
  <2>. QED  BY <2>4
<1>3. 0..n \subseteq J
  <2>. HIDE DEF J
  <2>. QED  BY <1>1, <1>2, UpTo
<1>. QED  BY <1>3

\* What RunInOrder computes, stage by stage.
LEMMA RunSteps ==
  ASSUME NEW o, NEW pre, Len(o) \in Nat
  PROVE  /\ Stages(o, pre)[0] = {pre}
         /\ \A k \in 1..Len(o) : Stages(o, pre)[k] = UNION {Step(o[k], pre, s) : s \in Stages(o, pre)[k - 1]}
         /\ RunInOrder(o, pre) = Stages(o, pre)[Len(o)]
<1>. DEFINE n == Len(o)
            R == CHOOSE g : IsRun(S.enabled, S.effect, o, pre, n, g)
<1>1. RunInOrder(o, pre) = R[n]
  BY DEF RunInOrder, IsRun, Stage, Taken
<1>2. IsRun(S.enabled, S.effect, o, pre, n, R)
  BY RunsExist
<1>3. Stages(o, pre) = R
  BY DEF Stages, Run
<1>. HIDE DEF R
<1>4. \A k \in 0..n : R[k] = Stage(S.enabled, S.effect, o, pre, R, k)
  BY <1>2 DEF IsRun
<1>5. 0 \in 0..n /\ \A k \in 1..n : k \in 0..n /\ k # 0
  OBVIOUS
<1>. QED  BY <1>1, <1>3, <1>4, <1>5 DEF Stage, Step

LEMMA StepTyped ==
  ASSUME Typed, NEW t \in Internal, NEW pre \in State, NEW s \in State, NEW m \in Step(t, pre, s)
  PROVE  m \in State /\ Changed(s, m) \subseteq S.writes[t]
<1>1. WritesDeclared(S) /\ S.effect[t] \in [State \X State -> SUBSET State]
  BY SystemTyped, RuleTypes DEF Typed, TypeOK
<1>2. CASE s \in S.enabled[t]
  <2>1. m \in S.effect[t][<<pre, s>>]
    BY <1>2 DEF Step, Taken
  <2>. QED  BY <1>1, <2>1 DEF WritesDeclared
<1>3. CASE s \notin S.enabled[t]
  BY <1>3 DEF Step, Taken, Changed
<1>. QED  BY <1>2, <1>3

LEMMA StagesTyped ==
  ASSUME Typed, NEW o \in Seq(Internal), NEW pre \in State, NEW k \in 0..Len(o)
  PROVE  Stages(o, pre)[k] \subseteq State
<1>. DEFINE n == Len(o)
            R == Stages(o, pre)
            J == {j \in 0..n : R[j] \subseteq State}
<1>1. /\ n \in Nat /\ R[0] = {pre} /\ \A j \in 1..n : o[j] \in Internal
      /\ \A j \in 1..n : R[j] = UNION {Step(o[j], pre, s) : s \in R[j - 1]}
  BY RunSteps
<1>. HIDE DEF n, R
<1>2. 0 \in J
  BY <1>1
<1>3. ASSUME NEW j \in 1..n, j - 1 \in J PROVE j \in J
  BY <1>1, <1>3, StepTyped
<1>4. 0..n \subseteq J
  <2>. HIDE DEF J
  <2>. QED  BY <1>1, <1>2, <1>3, UpTo
<1>. QED  BY <1>4 DEF n, R

Apart(t, u) ==
  /\ S.reads[t] \cap S.writes[u] = {} /\ S.reads[u] \cap S.writes[t] = {}
  /\ S.writes[t] \cap S.writes[u] = {}

\* Transitions apart from each other may change places.
LEMMA StepsCommute ==
  ASSUME Typed, NEW t \in Internal, NEW u \in Internal, Apart(t, u),
         NEW pre \in State, NEW s \in State, NEW m \in Step(t, pre, s), NEW q \in Step(u, pre, m)
  PROVE  \E r \in Step(u, pre, s) : q \in Step(t, pre, r)
<1>1. m \in State /\ Changed(s, m) \subseteq S.writes[t]
  BY StepTyped
<1>2. q \in State /\ Changed(m, q) \subseteq S.writes[u]
  BY <1>1, StepTyped
<1>3. /\ Agree(S.reads[u], s, m) /\ Agree(S.reads[u], m, s)
      /\ \A x \in S.reads[t] : x \in Var /\ x \notin S.writes[u]
      /\ Agree(S.reads[u], pre, pre) /\ Agree(S.reads[t], pre, pre)
  BY <1>1, RuleTypes DEF Apart, Agree, Changed
<1>4. /\ m \in S.enabled[u] <=> s \in S.enabled[u]
      /\ Alike(u, m, s, pre, pre)
  <2>1. Alike(u, m, s, pre, pre)
    BY <1>1, <1>3, RulePost
  <2>. QED  BY <2>1 DEF Alike
<1>5. CASE s \notin S.enabled[t]
  <2>1. m = s
    BY <1>5 DEF Step, Taken
  <2>2. Agree(S.reads[t], s, q)
    BY <1>2, <1>3, <2>1 DEF Agree, Changed
  <2>3. Alike(t, s, q, pre, pre)
    BY <1>2, <1>3, <2>2, RulePost
  <2>4. q \in Step(t, pre, q)
    BY <1>5, <2>3 DEF Alike, Step, Taken
  <2>. QED  BY <2>1, <2>4
<1>6. CASE m \notin S.enabled[u]
  <2>1. q = m /\ s \in Step(u, pre, s)
    BY <1>4, <1>6 DEF Step, Taken
  <2>. QED  BY <2>1
<1>7. CASE s \in S.enabled[t] /\ m \in S.enabled[u]
  <2>1. q \in S.effect[u][<<pre, m>>] /\ m \in S.effect[t][<<pre, s>>] /\ s \in S.enabled[u]
    BY <1>4, <1>7 DEF Step, Taken
  <2>2. PICK r \in S.effect[u][<<pre, s>>] :
          \A x \in Var : r[x] = q[x] \/ (q[x] = m[x] /\ r[x] = s[x])
    BY <1>4, <2>1 DEF Alike
  <2>3. r \in Step(u, pre, s)
    BY <2>1 DEF Step, Taken
  <2>4. r \in State /\ Changed(s, r) \subseteq S.writes[u]
    BY <2>3, StepTyped
  <2>5. Agree(S.reads[t], s, r)
    BY <1>3, <2>4 DEF Agree, Changed
  <2>6. Alike(t, s, r, pre, pre)
    BY <1>3, <2>4, <2>5, RulePost
  <2>7. PICK p \in S.effect[t][<<pre, r>>] :
          \A x \in Var : p[x] = m[x] \/ (m[x] = s[x] /\ p[x] = r[x])
    BY <2>1, <2>6 DEF Alike
  <2>8. p \in Step(t, pre, r)
    BY <1>7, <2>6 DEF Step, Taken, Alike
  <2>9. p \in State /\ Changed(r, p) \subseteq S.writes[t]
    BY <2>4, <2>8, StepTyped
  <2>10. ASSUME NEW x \in Var PROVE p[x] = q[x]
    <3>1. x \notin S.writes[t] => m[x] = s[x] /\ p[x] = r[x]
      BY <1>1, <2>9 DEF Changed
    <3>2. x \notin S.writes[u] => q[x] = m[x] /\ r[x] = s[x]
      BY <1>2, <2>4 DEF Changed
    <3>3. x \notin S.writes[t] \/ x \notin S.writes[u]
      BY DEF Apart
    <3>4. r[x] = q[x] \/ (q[x] = m[x] /\ r[x] = s[x])
      BY <2>2
    <3>5. p[x] = m[x] \/ (m[x] = s[x] /\ p[x] = r[x])
      BY <2>7
    <3>. QED  BY <3>1, <3>2, <3>3, <3>4, <3>5
  <2>11. p = q
    BY <1>2, <2>9, <2>10 DEF State
  <2>. QED  BY <2>3, <2>8, <2>11
<1>. QED  BY <1>5, <1>6, <1>7

-----------------------------------------------------------------------------
Swapped(o, p, i) ==
  /\ p[i] = o[i + 1] /\ p[i + 1] = o[i]
  /\ \A k \in DOMAIN o : k # i /\ k # i + 1 => p[k] = o[k]

LEMMA SwapKeepsRun ==
  ASSUME Typed, NEW o \in Seq(Internal), NEW p \in Seq(Internal), Len(p) = Len(o),
         NEW i \in 1..Len(o), i + 1 <= Len(o), Swapped(o, p, i), Apart(o[i], o[i + 1]),
         NEW pre \in State
  PROVE  RunInOrder(p, pre) = RunInOrder(o, pre)
<1>. DEFINE n == Len(o)
            R == Stages(o, pre)
            Q == Stages(p, pre)
            J == {k \in 0..n : \A j \in 0..k : j # i => R[j] = Q[j]}
<1>1. /\ n \in Nat /\ R[0] = {pre} /\ Q[0] = {pre}
      /\ \A k \in 1..n : o[k] \in Internal
      /\ \A k \in 1..n : R[k] = UNION {Step(o[k], pre, s) : s \in R[k - 1]}
      /\ \A k \in 1..n : Q[k] = UNION {Step(p[k], pre, s) : s \in Q[k - 1]}
      /\ RunInOrder(o, pre) = R[n] /\ RunInOrder(p, pre) = Q[n]
  BY RunSteps
<1>2. /\ \A k \in 0..n : R[k] \subseteq State
      /\ i \in 1..n /\ i - 1 \in 0..n /\ i + 1 \in 1..n /\ (i + 1) - 1 = i
  BY <1>1, StagesTyped
<1>3. p[i] = o[i + 1] /\ p[i + 1] = o[i] /\ \A k \in 1..n : k # i /\ k # i + 1 => p[k] = o[k]
  BY <1>1, <1>2 DEF Swapped
<1>. DEFINE t == o[i]
            u == o[i + 1]
<1>4. t \in Internal /\ u \in Internal /\ Apart(t, u) /\ Apart(u, t)
  BY <1>1, <1>2 DEF Apart
<1>. HIDE DEF n, R, Q, t, u
<1>5. 0 \in J
  <2>1. 0 \in 0..n /\ \A j \in 0..0 : j = 0
    BY <1>1
  <2>2. R[0] = Q[0]
    BY <1>1
  <2>. QED  BY <2>1, <2>2
<1>6. ASSUME NEW k \in 1..n, k - 1 \in J
      PROVE  k \in J
  <2>1. \A j \in 0..k : j = k \/ j \in 0..(k - 1)
    OBVIOUS
  <2>. SUFFICES ASSUME k # i PROVE R[k] = Q[k]
    BY <1>6, <2>1
  <2>2. CASE k # i + 1
    <3>1. k - 1 # i /\ k - 1 \in 0..(k - 1)
      BY <1>2, <2>2
    <3>2. R[k - 1] = Q[k - 1] /\ p[k] = o[k]
      BY <1>3, <1>6, <2>2, <3>1
    <3>3. /\ R[k] = UNION {Step(o[k], pre, s) : s \in R[k - 1]}
          /\ Q[k] = UNION {Step(p[k], pre, s) : s \in Q[k - 1]}
      BY <1>1
    <3>. QED  BY <3>2, <3>3
  <2>3. CASE k = i + 1
    <3>1. i - 1 # i /\ i - 1 \in 0..(k - 1) /\ k - 1 = i
      BY <1>2, <2>3
    <3>2. R[i - 1] = Q[i - 1] /\ R[i - 1] \subseteq State
      BY <1>2, <1>6, <3>1
    <3>3. /\ R[i] = UNION {Step(t, pre, s) : s \in R[i - 1]}
          /\ R[k] = UNION {Step(u, pre, m) : m \in R[i]}
          /\ Q[i] = UNION {Step(u, pre, s) : s \in R[i - 1]}
          /\ Q[k] = UNION {Step(t, pre, m) : m \in Q[i]}
      BY <1>1, <1>2, <1>3, <2>3, <3>1, <3>2 DEF t, u
    <3>4. ASSUME NEW q \in R[k] PROVE q \in Q[k]
      <4>1. PICK m \in R[i] : q \in Step(u, pre, m)
        BY <3>3
      <4>2. PICK s \in R[i - 1] : m \in Step(t, pre, s)
        BY <3>3
      <4>3. \E r \in Step(u, pre, s) : q \in Step(t, pre, r)
        BY <1>4, <3>2, <4>1, <4>2, StepsCommute
      <4>. QED  BY <3>3, <4>2, <4>3
    <3>5. ASSUME NEW q \in Q[k] PROVE q \in R[k]
      <4>1. PICK m \in Q[i] : q \in Step(t, pre, m)
        BY <3>3
      <4>2. PICK s \in R[i - 1] : m \in Step(u, pre, s)
        BY <3>3
      <4>3. \E r \in Step(t, pre, s) : q \in Step(u, pre, r)
        BY <1>4, <3>2, <4>1, <4>2, StepsCommute
      <4>. QED  BY <3>3, <4>2, <4>3
    <3>. QED  BY <3>4, <3>5
  <2>. QED  BY <2>2, <2>3
<1>7. 0..n \subseteq J
  <2>. HIDE DEF J
  <2>. QED  BY <1>1, <1>5, <1>6, UpTo
<1>8. n \in 0..n /\ n # i
  BY <1>1, <1>2
<1>. QED  BY <1>1, <1>7, <1>8

-----------------------------------------------------------------------------
\* Pairs of transitions that an order has the wrong way round.
Inversions(T, L, o) ==
  {p \in T \X T : p \in L /\ \E i, j \in DOMAIN o : i < j /\ o[i] = p[2] /\ o[j] = p[1]}

LEMMA OrderTyped ==
  ASSUME NEW T, T \subseteq Internal, NEW o \in Orders(T)
  PROVE  /\ IsFiniteSet(T) /\ Cardinality(T) \in Nat /\ o \in Seq(Internal)
         /\ Len(o) = Cardinality(T) /\ DOMAIN o = 1..Cardinality(T)
         /\ \A i \in DOMAIN o : o[i] \in T
         /\ \A i, j \in DOMAIN o : o[i] = o[j] => i = j
<1>1. IsFiniteSet(T) /\ Cardinality(T) \in Nat
  BY InternalAssumption, FS_Subset, FS_CardinalityType
<1>. DEFINE n == Cardinality(T)
<1>. HIDE DEF n
<1>2. n \in Nat /\ o \in [1..n -> T] /\ \A i, j \in DOMAIN o : o[i] = o[j] => i = j
  BY <1>1 DEF Orders, n
<1>3. o \in Seq(Internal) /\ Len(o) = n
  BY <1>2
<1>. QED  BY <1>1, <1>2, <1>3 DEF n

\* To swap two neighbours that are the wrong way round leaves one pair less that is.
LEMMA SwapSorts ==
  ASSUME NEW T, T \subseteq Internal, NEW o \in Orders(T), NEW L, NEW i \in 1..Cardinality(T),
         i + 1 <= Cardinality(T), <<o[i + 1], o[i]>> \in L,
         \A a, b \in T : <<a, b>> \in L => <<b, a>> \notin L
  PROVE  \E p \in Orders(T) :
           /\ Swapped(o, p, i)
           /\ \A k, l \in DOMAIN o : k < l /\ (k # i \/ l # i + 1) =>
                \E a, b \in DOMAIN p : a < b /\ p[a] = o[k] /\ p[b] = o[l]
           /\ \A k, l \in DOMAIN p : k < l /\ (k # i \/ l # i + 1) =>
                \E a, b \in DOMAIN o : a < b /\ o[a] = p[k] /\ o[b] = p[l] /\ (a # i \/ b # i + 1)
           /\ Inversions(T, L, p) \subseteq Inversions(T, L, o)
           /\ Inversions(T, L, p) # Inversions(T, L, o)
<1>. DEFINE n == Cardinality(T)
            to(k) == IF k = i THEN i + 1 ELSE IF k = i + 1 THEN i ELSE k
            p == [k \in 1..n |-> o[to(k)]]
<1>1. /\ n \in Nat /\ DOMAIN o = 1..n /\ \A k \in 1..n : o[k] \in T
      /\ \A k, l \in 1..n : o[k] = o[l] => k = l
      /\ o \in [1..n -> T]
  BY OrderTyped DEF Orders
<1>. HIDE DEF n
<1>2. /\ i \in 1..n /\ i + 1 \in 1..n
      /\ \A k \in 1..n : to(k) \in 1..n /\ to(to(k)) = k
      /\ \A k, l \in 1..n : to(k) = to(l) => k = l
      /\ \A k, l \in 1..n : k < l /\ (k # i \/ l # i + 1) => to(k) < to(l)
      /\ \A k, l \in 1..n : k < l /\ (k # i \/ l # i + 1) => (to(k) # i \/ to(l) # i + 1)
  BY <1>1 DEF n
<1>3. p \in [1..n -> T] /\ \A k, l \in DOMAIN p : p[k] = p[l] => k = l
  BY <1>1, <1>2
<1>4. p \in Orders(T)
  BY <1>3 DEF Orders, n
<1>5. Swapped(o, p, i)
  BY <1>1, <1>2 DEF Swapped
<1>6. \A k \in 1..n : p[to(k)] = o[k] /\ p[k] = o[to(k)]
  BY <1>2
<1>. HIDE DEF p, to
<1>7. DOMAIN p = 1..n
  BY <1>3
<1>8. ASSUME NEW k \in DOMAIN o, NEW l \in DOMAIN o, k < l, k # i \/ l # i + 1
      PROVE  \E a, b \in DOMAIN p : a < b /\ p[a] = o[k] /\ p[b] = o[l]
  <2>1. to(k) \in 1..n /\ to(l) \in 1..n /\ to(k) < to(l) /\ p[to(k)] = o[k] /\ p[to(l)] = o[l]
    BY <1>1, <1>2, <1>6, <1>8
  <2>. QED  BY <1>7, <2>1
<1>9. ASSUME NEW k \in DOMAIN p, NEW l \in DOMAIN p, k < l, k # i \/ l # i + 1
      PROVE  \E a, b \in DOMAIN o : a < b /\ o[a] = p[k] /\ o[b] = p[l] /\ (a # i \/ b # i + 1)
  <2>1. to(k) \in 1..n /\ to(l) \in 1..n /\ to(k) < to(l) /\ o[to(k)] = p[k] /\ o[to(l)] = p[l]
        /\ (to(k) # i \/ to(l) # i + 1)
    BY <1>2, <1>6, <1>7, <1>9
  <2>. QED  BY <1>1, <2>1
<1>10. /\ p[i] = o[i + 1] /\ p[i + 1] = o[i] /\ <<p[i + 1], p[i]>> \notin L
  <2>1. p[i] = o[i + 1] /\ p[i + 1] = o[i]
    BY <1>5 DEF Swapped
  <2>. QED  BY <1>1, <1>2, <2>1
<1>11. ASSUME NEW e \in Inversions(T, L, p)
       PROVE  e \in Inversions(T, L, o)
  <2>1. e \in T \X T /\ e \in L
    BY DEF Inversions
  <2>2. PICK k \in DOMAIN p, l \in DOMAIN p : k < l /\ p[k] = e[2] /\ p[l] = e[1]
    BY DEF Inversions
  <2>3. k # i \/ l # i + 1
    <3>1. e = <<p[l], p[k]>>
      BY <2>1, <2>2
    <3>. QED  BY <1>10, <2>1, <3>1
  <2>4. \E a, b \in DOMAIN o : a < b /\ o[a] = p[k] /\ o[b] = p[l]
    BY <1>9, <2>2, <2>3
  <2>. QED  BY <2>1, <2>2, <2>4 DEF Inversions
<1>12. <<o[i + 1], o[i]>> \in Inversions(T, L, o) \ Inversions(T, L, p)
  <2>1. o[i + 1] \in T /\ o[i] \in T /\ i < i + 1
    BY <1>1, <1>2
  <2>2. <<o[i + 1], o[i]>> \in Inversions(T, L, o)
    BY <1>1, <1>2, <2>1 DEF Inversions
  <2>3. ASSUME NEW k \in DOMAIN p, NEW l \in DOMAIN p, k < l, p[k] = o[i], p[l] = o[i + 1]
        PROVE  FALSE
    <3>1. p[k] = p[i + 1] /\ p[l] = p[i] /\ i \in DOMAIN p /\ i + 1 \in DOMAIN p
      BY <1>2, <1>7, <1>10, <2>3
    <3>2. k = i + 1 /\ l = i
      BY <1>3, <3>1
    <3>. QED  BY <1>2, <2>3, <3>2
  <2>4. <<o[i + 1], o[i]>> \notin Inversions(T, L, p)
    BY <2>3 DEF Inversions
  <2>. QED  BY <2>2, <2>4
<1>13. \A k, l \in DOMAIN o : k < l /\ (k # i \/ l # i + 1) =>
         \E a, b \in DOMAIN p : a < b /\ p[a] = o[k] /\ p[b] = o[l]
  BY <1>8
<1>14. \A k, l \in DOMAIN p : k < l /\ (k # i \/ l # i + 1) =>
         \E a, b \in DOMAIN o : a < b /\ o[a] = p[k] /\ o[b] = p[l] /\ (a # i \/ b # i + 1)
  BY <1>9
<1>. QED  BY <1>4, <1>5, <1>11, <1>12, <1>13, <1>14

\* Orders in which neighbours are the right way round are sorted.
LEMMA NeighboursSort ==
  ASSUME NEW T, T \subseteq Internal, NEW o \in Orders(T), NEW L,
         \A a \in T : <<a, a>> \notin L,
         \A a, b, c \in T : <<a, b>> \notin L /\ <<b, c>> \notin L => <<a, c>> \notin L,
         \A i \in 1..Cardinality(T) : i + 1 <= Cardinality(T) => <<o[i + 1], o[i]>> \notin L
  PROVE  \A i, j \in DOMAIN o : i < j => <<o[j], o[i]>> \notin L
<1>. DEFINE n == Cardinality(T)
<1>1. n \in Nat /\ DOMAIN o = 1..n /\ \A k \in 1..n : o[k] \in T
  BY OrderTyped
<1>. SUFFICES ASSUME NEW i \in 1..n PROVE \A j \in 1..n : i < j => <<o[j], o[i]>> \notin L
  BY <1>1
<1>. DEFINE J == {j \in 0..n : i <= j => <<o[j], o[i]>> \notin L}
<1>2. \A k \in 1..n : k + 1 <= n => <<o[k + 1], o[k]>> \notin L
  OBVIOUS
<1>. HIDE DEF n
<1>3. 0 \in J
  BY <1>1
<1>4. ASSUME NEW j \in 1..n, j - 1 \in J PROVE j \in J
  <2>1. CASE i <= j - 1
    <3>1. j - 1 \in 1..n /\ (j - 1) + 1 = j /\ (j - 1) + 1 <= n
      BY <1>1, <2>1
    <3>2. <<o[j], o[j - 1]>> \notin L /\ <<o[j - 1], o[i]>> \notin L
      BY <1>2, <1>4, <2>1, <3>1
    <3>3. o[j] \in T /\ o[j - 1] \in T /\ o[i] \in T
      BY <1>1, <3>1
    <3>4. <<o[j], o[i]>> \notin L
      BY <3>2, <3>3
    <3>. QED  BY <3>4
  <2>2. CASE i = j
    BY <1>1, <2>2
  <2>3. CASE j < i
    BY <2>3
  <2>. QED  BY <2>1, <2>2, <2>3
<1>5. 0..n \subseteq J
  <2>. HIDE DEF J
  <2>. QED  BY <1>1, <1>3, <1>4, UpTo
<1>. QED  BY <1>5

\* Each admissible order of transitions that read nothing of each other can be sorted,
\* as far as conflicting ones agree, and a run in the sorted order ends in the same states.
LEMMA SortedRun ==
  ASSUME Typed, NEW T, T \subseteq Internal, Independent(T), NEW o \in Admissible(T),
         NEW pre \in State, NEW L,
         \A a, b \in T : <<a, b>> \in L => <<b, a>> \notin L,
         \A a, b, c \in T : <<a, b>> \notin L /\ <<b, c>> \notin L => <<a, c>> \notin L,
         \A a, b \in T : Conflict(a, b) /\ <<a, b>> \in L => Earlier(a, b)
  PROVE  \E p \in Orders(T) : /\ RunInOrder(p, pre) = RunInOrder(o, pre)
                              /\ \A i, j \in DOMAIN p : i < j => <<p[j], p[i]>> \notin L
<1>. DEFINE n == Cardinality(T)
            P == {p \in Admissible(T) : RunInOrder(p, pre) = RunInOrder(o, pre)}
            inv(p) == Inversions(T, L, p)
            I == {Cardinality(inv(p)) : p \in P}
<1>1. IsFiniteSet(T) /\ n \in Nat
  BY InternalAssumption, FS_Subset, FS_CardinalityType
<1>2. IsFiniteSet(T \X T)
  BY <1>1, FS_Product
<1>3. \A p : inv(p) \subseteq T \X T /\ IsFiniteSet(inv(p)) /\ Cardinality(inv(p)) \in Nat
             /\ Cardinality(inv(p)) <= Cardinality(T \X T)
  <2>. SUFFICES ASSUME NEW p
                PROVE  inv(p) \subseteq T \X T /\ IsFiniteSet(inv(p)) /\ Cardinality(inv(p)) \in Nat
                       /\ Cardinality(inv(p)) <= Cardinality(T \X T)
    OBVIOUS
  <2>1. inv(p) \subseteq T \X T
    BY DEF Inversions
  <2>. HIDE DEF inv
  <2>. QED  BY <1>2, <2>1, FS_Subset, FS_CardinalityType
<1>4. PICK p \in P : \A q \in P : Cardinality(inv(p)) <= Cardinality(inv(q))
  <2>. DEFINE top == Cardinality(T \X T)
  <2>1. o \in P
    OBVIOUS
  <2>2. top \in Nat
    BY <1>2, FS_CardinalityType
  <2>. HIDE DEF P, inv, top
  <2>3. I # {} /\ I \subseteq 0..top
    BY <1>3, <2>1, <2>2 DEF top
  <2>4. PICK i \in I : \A j \in I : i <= j
    <3>. HIDE DEF I
    <3>. QED  BY <2>2, <2>3, LeastOf
  <2>. QED  BY <2>4
<1>5. p \in Orders(T) /\ p \in Admissible(T) /\ RunInOrder(p, pre) = RunInOrder(o, pre)
  BY <1>4 DEF Admissible
<1>6. /\ p \in Seq(Internal) /\ Len(p) = n /\ DOMAIN p = 1..n /\ \A i \in 1..n : p[i] \in T
      /\ \A i, j \in DOMAIN p : p[i] = p[j] => i = j
  BY <1>5, OrderTyped
<1>7. ASSUME NEW i \in 1..n, i + 1 <= n, <<p[i + 1], p[i]>> \in L
      PROVE  FALSE
  <2>1. i + 1 \in 1..n /\ i < i + 1 /\ i # i + 1
    BY <1>1, <1>7
  <2>2. /\ p[i] \in T /\ p[i + 1] \in T /\ p[i] # p[i + 1]
        /\ p[i] \in Internal /\ p[i + 1] \in Internal
    BY <1>6, <2>1
  <2>3. ~Conflict(p[i], p[i + 1]) /\ ~Conflict(p[i + 1], p[i])
    <3>1. Conflict(p[i], p[i + 1]) <=> Conflict(p[i + 1], p[i])
      BY DEF Conflict
    <3>2. Conflict(p[i], p[i + 1]) => ~Earlier(p[i + 1], p[i])
      BY <1>5, <1>6, <2>1 DEF Admissible
    <3>3. Conflict(p[i + 1], p[i]) => Earlier(p[i + 1], p[i])
      BY <1>7, <2>2
    <3>. QED  BY <3>1, <3>2, <3>3
  <2>4. Apart(p[i], p[i + 1])
    BY <2>2, <2>3 DEF Apart, Conflict, Independent
  <2>5. PICK q \in Orders(T) :
          /\ Swapped(p, q, i)
          /\ \A k, l \in DOMAIN q : k < l /\ (k # i \/ l # i + 1) =>
                \E a, b \in DOMAIN p : a < b /\ p[a] = q[k] /\ p[b] = q[l] /\ (a # i \/ b # i + 1)
          /\ inv(q) \subseteq inv(p) /\ inv(q) # inv(p)
    <3>1. \A a, b \in T : <<a, b>> \in L => <<b, a>> \notin L
      OBVIOUS
    <3>. QED  BY <1>5, <1>7, <3>1, SwapSorts
  <2>6. q \in Seq(Internal) /\ Len(q) = n /\ DOMAIN q = 1..n
    BY <2>5, OrderTyped
  <2>7. q \in Admissible(T)
    <3>. SUFFICES ASSUME NEW k \in DOMAIN q, NEW l \in DOMAIN q, k < l, Conflict(q[k], q[l])
                  PROVE  ~Earlier(q[l], q[k])
      BY <2>5 DEF Admissible
    <3>1. k # i \/ l # i + 1
      <4>1. q[i] = p[i + 1] /\ q[i + 1] = p[i]
        BY <2>5 DEF Swapped
      <4>. QED  BY <2>3, <4>1
    <3>2. PICK a \in DOMAIN p, b \in DOMAIN p : a < b /\ p[a] = q[k] /\ p[b] = q[l]
      BY <2>5, <3>1
    <3>. QED  BY <1>5, <3>2 DEF Admissible
  <2>8. RunInOrder(q, pre) = RunInOrder(p, pre)
    BY <1>6, <2>1, <2>4, <2>5, <2>6, SwapKeepsRun
  <2>9. q \in P
    BY <1>5, <2>7, <2>8
  <2>10. Cardinality(inv(q)) < Cardinality(inv(p))
    <3>. HIDE DEF inv
    <3>. QED  BY <1>3, <2>5, FS_Subset
  <2>11. Cardinality(inv(p)) <= Cardinality(inv(q))
    BY <1>4, <2>9
  <2>. HIDE DEF inv
  <2>. QED  BY <1>3, <2>10, <2>11
<1>8. \A i, j \in DOMAIN p : i < j => <<p[j], p[i]>> \notin L
  <2>1. \A a \in T : <<a, a>> \notin L
    OBVIOUS
  <2>2. \A i \in 1..Cardinality(T) : i + 1 <= Cardinality(T) => <<p[i + 1], p[i]>> \notin L
    BY <1>7
  <2>3. \A a, b, c \in T : <<a, b>> \notin L /\ <<b, c>> \notin L => <<a, c>> \notin L
    OBVIOUS
  <2>. QED  BY <1>5, <2>1, <2>2, <2>3, NeighboursSort
<1>. QED  BY <1>5, <1>8

\* The orders a round tries are as good as all admissible ones.
LEMMA SequencesCover ==
  ASSUME Typed, NEW c \in Candidate, Independent(Runnable(c))
  PROVE  /\ Sequences(Runnable(c)) \subseteq Admissible(Runnable(c))
         /\ \A o \in Admissible(Runnable(c)) : \E p \in Sequences(Runnable(c)) :
              RunInOrder(p, c.state) = RunInOrder(o, c.state)
<1>. DEFINE T == Runnable(c)
<1>1. T \subseteq Internal /\ c.state \in State
  BY DEF Runnable, Candidate
<1>2. S.phase \in [Internal -> Option(Nat)]
  BY SystemTyped DEF Typed, TypeOK, System
<1>. HIDE DEF T
<1>3. Independent(T)
  BY DEF T
<1>4. Sequences(T) \subseteq Admissible(T)
  <2>. SUFFICES ASSUME NEW o \in Sequences(T) PROVE o \in Admissible(T)
    OBVIOUS
  <2>1. o \in Orders(T)
    BY DEF Sequences
  <2>2. \A i \in DOMAIN o : o[i] \in T
    BY <1>1, <2>1, OrderTyped
  <2>3. CASE \E t, u \in T : Conflict(t, u)
    <3>1. ByPhase(o)
      BY <2>3 DEF Sequences
    <3>. QED  BY <2>1, <3>1 DEF Admissible, ByPhase
  <2>4. CASE ~\E t, u \in T : Conflict(t, u)
    BY <2>1, <2>2, <2>4 DEF Admissible
  <2>. QED  BY <2>3, <2>4
<1>5. ASSUME NEW o \in Admissible(T)
      PROVE  \E p \in Sequences(T) : RunInOrder(p, c.state) = RunInOrder(o, c.state)
  <2>1. CASE \E t, u \in T : Conflict(t, u)
    <3>. DEFINE L == {e \in T \X T : Earlier(e[1], e[2])}
    <3>1. \A a, b \in T : <<a, b>> \in L <=> Earlier(a, b)
      OBVIOUS
    <3>. HIDE DEF L
    <3>2. \A a, b \in T : <<a, b>> \in L => <<b, a>> \notin L
      <4>. SUFFICES ASSUME NEW a \in T, NEW b \in T, Earlier(a, b), Earlier(b, a) PROVE FALSE
        BY <3>1
      <4>1. /\ S.phase[a] \subseteq Nat /\ S.phase[b] \subseteq Nat
            /\ \A k, l \in S.phase[a] : k = l
            /\ \A k, l \in S.phase[b] : k = l
        BY <1>1, <1>2 DEF Option
      <4>. QED  BY <4>1 DEF Earlier
    <3>3. \A a, b, d \in T : <<a, b>> \notin L /\ <<b, d>> \notin L => <<a, d>> \notin L
      <4>. SUFFICES ASSUME NEW a \in T, NEW b \in T, NEW d \in T,
                           ~Earlier(a, b), ~Earlier(b, d), Earlier(a, d)
                    PROVE  FALSE
        BY <3>1
      <4>1. /\ S.phase[a] \subseteq Nat /\ S.phase[b] \subseteq Nat /\ S.phase[d] \subseteq Nat
        BY <1>1, <1>2 DEF Option
      <4>. QED  BY <4>1 DEF Earlier
    <3>4. \A a, b \in T : Conflict(a, b) /\ <<a, b>> \in L => Earlier(a, b)
      BY <3>1
    <3>5. PICK p \in Orders(T) : /\ RunInOrder(p, c.state) = RunInOrder(o, c.state)
                                 /\ \A i, j \in DOMAIN p : i < j => <<p[j], p[i]>> \notin L
      BY <1>1, <1>3, <3>2, <3>3, <3>4, SortedRun
    <3>6. \A i \in DOMAIN p : p[i] \in T
      BY <1>1, OrderTyped
    <3>7. ByPhase(p)
      BY <3>1, <3>5, <3>6 DEF ByPhase
    <3>. QED  BY <2>1, <3>5, <3>7 DEF Sequences
  <2>2. CASE ~\E t, u \in T : Conflict(t, u)
    <3>. DEFINE L == {e \in T \X T : e[1] < e[2]}
    <3>1. \A a, b \in T : <<a, b>> \in L <=> a < b
      OBVIOUS
    <3>. HIDE DEF L
    <3>0. \A a \in T : a \in Nat
      BY <1>1, InternalAssumption
    <3>2. \A a, b \in T : <<a, b>> \in L => <<b, a>> \notin L
      BY <3>0, <3>1
    <3>3. \A a, b, d \in T : <<a, b>> \notin L /\ <<b, d>> \notin L => <<a, d>> \notin L
      BY <3>0, <3>1
    <3>4. \A a, b \in T : Conflict(a, b) /\ <<a, b>> \in L => Earlier(a, b)
      BY <2>2
    <3>5. PICK p \in Orders(T) : /\ RunInOrder(p, c.state) = RunInOrder(o, c.state)
                                 /\ \A i, j \in DOMAIN p : i < j => <<p[j], p[i]>> \notin L
      BY <1>1, <1>3, <3>2, <3>3, <3>4, SortedRun
    <3>6. \A i \in DOMAIN p : p[i] \in T
      BY <1>1, OrderTyped
    <3>7. ById(p)
      <4>. SUFFICES ASSUME NEW i \in DOMAIN p, NEW j \in DOMAIN p, i < j PROVE p[i] < p[j]
        BY DEF ById
      <4>1. ~(p[j] < p[i]) /\ p[i] \in Nat /\ p[j] \in Nat
        BY <3>0, <3>1, <3>5, <3>6
      <4>2. i # j /\ \A k, l \in DOMAIN p : p[k] = p[l] => k = l
        BY <1>1, OrderTyped
      <4>. QED  BY <4>1, <4>2
    <3>. QED  BY <2>2, <3>5, <3>7 DEF Sequences
  <2>. QED  BY <2>1, <2>2
<1>. QED  BY <1>4, <1>5 DEF T

-----------------------------------------------------------------------------
(* The branches of a round: each order of each candidate has come to a     *)
(* stage of its run, and each state of the stage is the one of a branch.   *)

\* What is left of the order o after k steps.
Left(rest, o, k) ==
  /\ k \in 0..Len(o) /\ Len(rest) = Len(o) - k
  /\ \A i \in 1..Len(rest) : rest[i] = o[k + i]

Somewhere(w) ==
  /\ w.cand \in cands
  /\ \E o \in Sequences(Runnable(w.cand)) : \E k \in 0..Len(o) :
       Left(w.rest, o, k) /\ w.now \in Stages(o, w.cand.state)[k]

Underway(c, o) ==
  \E k \in 0..Len(o) : \A s \in Stages(o, c.state)[k] :
    \E w \in work : w.cand = c /\ w.now = s /\ Left(w.rest, o, k)

Rounding ==
  pc = "run" =>
    /\ \A w \in work : Somewhere(w)
    /\ \A c \in cands : \A o \in Sequences(Runnable(c)) : Underway(c, o)

LEMMA LeftTail ==
  ASSUME NEW r \in Seq(Internal), r # <<>>, NEW o \in Seq(Internal), NEW k \in 0..Len(o), Left(r, o, k)
  PROVE  /\ k + 1 \in 1..Len(o) /\ (k + 1) - 1 = k /\ Head(r) = o[k + 1] /\ Left(Tail(r), o, k + 1)
<1>1. Len(r) \in Nat /\ Len(r) > 0 /\ Len(o) \in Nat /\ k \in Nat
  OBVIOUS
<1>2. Len(r) = Len(o) - k
  BY DEF Left
<1>3. k + 1 \in 1..Len(o) /\ k + 1 \in 0..Len(o) /\ (k + 1) - 1 = k
  BY <1>1, <1>2
<1>4. Head(r) = r[1] /\ Len(Tail(r)) = Len(r) - 1 /\ \A i \in 1..Len(Tail(r)) : Tail(r)[i] = r[i + 1]
  BY <1>1
<1>5. Head(r) = o[k + 1]
  BY <1>1, <1>4 DEF Left
<1>6. Len(Tail(r)) = Len(o) - (k + 1)
  BY <1>1, <1>2, <1>4
<1>7. ASSUME NEW i \in 1..Len(Tail(r))
      PROVE  Tail(r)[i] = o[(k + 1) + i]
  <2>1. i + 1 \in 1..Len(r) /\ k + (i + 1) = (k + 1) + i
    BY <1>1, <1>4
  <2>. QED  BY <1>4, <2>1 DEF Left
<1>. QED  BY <1>3, <1>5, <1>6, <1>7 DEF Left

\* The transitions Applied takes are those of the run.
LEMMA AppliedSteps ==
  ASSUME Typed, NEW w \in Branch
  PROVE  IF w.rest = <<>> THEN Applied(w) = {w}
         ELSE /\ w.rest \in Seq(Internal) /\ w.now \in State /\ w.cand.state \in State
              /\ \A v \in Applied(w) : /\ v.cand = w.cand /\ v.rest = Tail(w.rest)
                                       /\ v.now \in Step(Head(w.rest), w.cand.state, w.now)
              /\ \A q \in Step(Head(w.rest), w.cand.state, w.now) :
                   \E v \in Applied(w) : v.cand = w.cand /\ v.rest = Tail(w.rest) /\ v.now = q
<1>1. CASE w.rest = <<>>
  BY <1>1 DEF Applied
<1>2. CASE w.rest # <<>>
  <2>1. /\ w.rest \in Seq(Internal) /\ w.now \in State /\ w.cand.state \in State
        /\ w = [cand |-> w.cand, rest |-> w.rest, now |-> w.now]
    BY DEF Branch, Candidate
  <2>. DEFINE Z == Step(Head(w.rest), w.cand.state, w.now)
              after(q) == [w EXCEPT !.rest = Tail(w.rest), !.now = q]
  <2>2. \A q : after(q).cand = w.cand /\ after(q).rest = Tail(w.rest) /\ after(q).now = q
    BY DEF Branch
  <2>3. Applied(w) = {after(q) : q \in Z}
    BY <1>2 DEF Applied, Step, Taken
  <2>. HIDE DEF Z, after
  <2>4. /\ \A v \in Applied(w) : v.cand = w.cand /\ v.rest = Tail(w.rest) /\ v.now \in Z
        /\ \A q \in Z : \E v \in Applied(w) : v.cand = w.cand /\ v.rest = Tail(w.rest) /\ v.now = q
    BY <2>2, <2>3
  <2>. QED  BY <1>2, <2>1, <2>4 DEF Z
<1>. QED  BY <1>1, <1>2

LEMMA Unmoved ==
  ASSUME S' = S
  PROVE  /\ \A c : Sequences(Runnable(c))' = Sequences(Runnable(c))
         /\ \A o, pre : Stages(o, pre)' = Stages(o, pre)
<1>1. \A c : Runnable(c)' = Runnable(c)
  BY DEF Runnable, Triggered
<1>2. \A T : Sequences(T)' = Sequences(T)
  BY DEF Sequences, Conflict, ByPhase, Earlier
<1>3. \A o, pre : Stages(o, pre)' = Stages(o, pre)
  BY DEF Stages
<1>. QED  BY <1>1, <1>2, <1>3

\* What is to be shown of the branches after a step.
LEMMA RoundingNext ==
  ASSUME S' = S, cands' = cands, \A w \in work' : Somewhere(w),
         \A c \in cands : \A o \in Sequences(Runnable(c)) :
           \E k \in 0..Len(o) : \A s \in Stages(o, c.state)[k] :
             \E w \in work' : w.cand = c /\ w.now = s /\ Left(w.rest, o, k)
  PROVE  Rounding'
<1>1. \A w \in work' : Somewhere(w)'
  <2>. SUFFICES ASSUME NEW w \in work' PROVE Somewhere(w)'
    OBVIOUS
  <2>1. Somewhere(w) /\ w.cand \in cands'
    BY DEF Somewhere
  <2>2. Sequences(Runnable(w.cand))' = Sequences(Runnable(w.cand))
    BY Unmoved
  <2>3. \A o : Stages(o, w.cand.state)' = Stages(o, w.cand.state)
    BY Unmoved
  <2>. QED  BY <2>1, <2>2, <2>3 DEF Somewhere
<1>2. \A c \in cands' : \A o \in Sequences(Runnable(c))' : Underway(c, o)'
  <2>. SUFFICES ASSUME NEW c \in cands', NEW o \in Sequences(Runnable(c))' PROVE Underway(c, o)'
    OBVIOUS
  <2>1. c \in cands /\ o \in Sequences(Runnable(c))
    BY Unmoved
  <2>2. Stages(o, c.state)' = Stages(o, c.state)
    BY Unmoved
  <2>. QED  BY <2>1, <2>2 DEF Underway
<1>. QED  BY <1>1, <1>2 DEF Rounding

LEMMA BeginRounds ==
  ASSUME Typed, BeginRound, S' = S
  PROVE  Rounding'
<1>1. cands' = cands /\ work' = UNION {Branches(c) : c \in cands}
  BY DEF BeginRound
<1>2. ASSUME NEW c \in cands, NEW o \in Sequences(Runnable(c))
      PROVE  /\ Left(o, o, 0) /\ 0 \in 0..Len(o) /\ Stages(o, c.state)[0] = {c.state}
             /\ \E w \in work' : w.cand = c /\ w.rest = o /\ w.now = c.state
  <2>1. o \in Seq(Internal)
    BY OrderIsSequence
  <2>2. Len(o) \in Nat /\ 0 \in 0..Len(o) /\ Len(o) = Len(o) - 0 /\ \A i \in 1..Len(o) : 0 + i = i
    BY <2>1
  <2>3. Left(o, o, 0)
    BY <2>2 DEF Left
  <2>4. Stages(o, c.state)[0] = {c.state}
    BY <2>2, RunSteps
  <2>5. [cand |-> c, rest |-> o, now |-> c.state] \in work'
    BY <1>1 DEF Branches
  <2>. QED  BY <2>2, <2>3, <2>4, <2>5
<1>3. ASSUME NEW w \in work'
      PROVE  \E c \in cands : \E o \in Sequences(Runnable(c)) : w.cand = c /\ w.rest = o /\ w.now = c.state
  BY <1>1 DEF Branches
<1>4. ASSUME NEW w \in work' PROVE Somewhere(w)
  <2>0. PICK c \in cands : \E o \in Sequences(Runnable(c)) : w.cand = c /\ w.rest = o /\ w.now = c.state
    BY <1>3
  <2>1. PICK o \in Sequences(Runnable(c)) : w.cand = c /\ w.rest = o /\ w.now = c.state
    BY <2>0
  <2>2. Left(w.rest, o, 0) /\ 0 \in 0..Len(o) /\ w.now \in Stages(o, w.cand.state)[0]
    BY <1>2, <2>1
  <2>. QED  BY <2>1, <2>2 DEF Somewhere
<1>5. ASSUME NEW c \in cands, NEW o \in Sequences(Runnable(c))
      PROVE  \E k \in 0..Len(o) : \A s \in Stages(o, c.state)[k] :
               \E w \in work' : w.cand = c /\ w.now = s /\ Left(w.rest, o, k)
  BY <1>2
<1>. QED  BY <1>1, <1>4, <1>5, RoundingNext

LEMMA RunRounds ==
  ASSUME Typed, Rounding, RunNext, S' = S
  PROVE  Rounding'
<1>1. cands' = cands /\ work' = UNION {Applied(w) : w \in work} /\ pc = "run"
  BY DEF RunNext
<1>0. \A w \in work : w \in Branch
  BY DEF Typed, TypeOK
<1>2. ASSUME NEW c \in cands, NEW o \in Sequences(Runnable(c)), NEW k \in 0..Len(o), k + 1 \in 1..Len(o),
             NEW q
      PROVE  q \in Stages(o, c.state)[k + 1] <=> \E s \in Stages(o, c.state)[k] : q \in Step(o[k + 1], c.state, s)
  <2>1. o \in Seq(Internal) /\ Len(o) \in Nat
    BY OrderIsSequence
  <2>. DEFINE j == k + 1
  <2>2. j \in 1..Len(o) /\ j - 1 = k
    BY <1>2, <2>1
  <2>. HIDE DEF j
  <2>3. Stages(o, c.state)[j] = UNION {Step(o[j], c.state, s) : s \in Stages(o, c.state)[k]}
    BY <2>1, <2>2, RunSteps
  <2>4. q \in Stages(o, c.state)[j] <=> \E s \in Stages(o, c.state)[k] : q \in Step(o[j], c.state, s)
    BY <2>3
  <2>. QED  BY <2>4 DEF j
<1>3. ASSUME NEW v \in work' PROVE Somewhere(v)
  <2>1. PICK w \in work : v \in Applied(w)
    BY <1>1
  <2>2. w \in Branch /\ Somewhere(w)
    BY <1>0, <1>1 DEF Rounding
  <2>3. CASE w.rest = <<>>
    BY <2>1, <2>2, <2>3, AppliedSteps
  <2>4. CASE w.rest # <<>>
    <3>1. PICK o \in Sequences(Runnable(w.cand)) : \E k \in 0..Len(o) :
            Left(w.rest, o, k) /\ w.now \in Stages(o, w.cand.state)[k]
      BY <2>2 DEF Somewhere
    <3>2. PICK k \in 0..Len(o) : Left(w.rest, o, k) /\ w.now \in Stages(o, w.cand.state)[k]
      BY <3>1
    <3>3. w.rest \in Seq(Internal) /\ o \in Seq(Internal) /\ w.cand \in cands
      BY <2>2, <2>4, AppliedSteps, OrderIsSequence DEF Somewhere
    <3>4. /\ k + 1 \in 1..Len(o) /\ (k + 1) - 1 = k /\ Head(w.rest) = o[k + 1]
          /\ Left(Tail(w.rest), o, k + 1)
      BY <2>4, <3>2, <3>3, LeftTail
    <3>5. /\ v.cand = w.cand /\ v.rest = Tail(w.rest)
          /\ v.now \in Step(o[k + 1], w.cand.state, w.now)
      BY <2>1, <2>2, <2>4, <3>4, AppliedSteps
    <3>6. v.now \in Stages(o, w.cand.state)[k + 1]
      <4>1. k + 1 \in 1..Len(o) /\ w.cand \in cands
        BY <3>3, <3>4
      <4>. QED  BY <1>2, <3>2, <3>5, <4>1
    <3>7. k + 1 \in 0..Len(o)
      BY <3>4
    <3>. QED  BY <3>3, <3>4, <3>5, <3>6, <3>7 DEF Somewhere
  <2>. QED  BY <2>3, <2>4
<1>4. ASSUME NEW c \in cands, NEW o \in Sequences(Runnable(c))
      PROVE  \E k \in 0..Len(o) : \A s \in Stages(o, c.state)[k] :
               \E w \in work' : w.cand = c /\ w.now = s /\ Left(w.rest, o, k)
  <2>1. PICK k \in 0..Len(o) : \A s \in Stages(o, c.state)[k] :
          \E w \in work : w.cand = c /\ w.now = s /\ Left(w.rest, o, k)
    BY <1>1 DEF Rounding, Underway
  <2>2. o \in Seq(Internal) /\ Len(o) \in Nat
    BY OrderIsSequence
  <2>3. CASE k = Len(o)
    <3>1. ASSUME NEW s \in Stages(o, c.state)[k]
          PROVE  \E w \in work' : w.cand = c /\ w.now = s /\ Left(w.rest, o, k)
      <4>1. PICK w \in work : w.cand = c /\ w.now = s /\ Left(w.rest, o, k)
        BY <2>1
      <4>2. w.rest = <<>>
        <5>1. w.rest \in Seq(Internal) /\ Len(w.rest) = 0
          BY <1>0, <2>2, <2>3, <4>1 DEF Left, Branch
        <5>. QED  BY <5>1
      <4>3. w \in work'
        BY <1>0, <1>1, <4>2, AppliedSteps
      <4>. QED  BY <4>1, <4>3
    <3>. QED  BY <3>1
  <2>4. CASE k # Len(o)
    <3>0. k + 1 \in 1..Len(o) /\ k + 1 \in 0..Len(o) /\ (k + 1) - 1 = k
      BY <2>2, <2>4
    <3>1. ASSUME NEW q \in Stages(o, c.state)[k + 1]
          PROVE  \E v \in work' : v.cand = c /\ v.now = q /\ Left(v.rest, o, k + 1)
      <4>1. PICK s \in Stages(o, c.state)[k] : q \in Step(o[k + 1], c.state, s)
        BY <1>2, <3>0
      <4>2. PICK w \in work : w.cand = c /\ w.now = s /\ Left(w.rest, o, k)
        BY <2>1
      <4>3. w.rest # <<>>
        <5>1. Len(w.rest) = Len(o) - k
          BY <4>2 DEF Left
        <5>2. Len(w.rest) > 0
          BY <2>2, <2>4, <5>1
        <5>. QED  BY <5>2
      <4>4. w \in Branch /\ w.rest \in Seq(Internal)
        BY <1>0, <4>3, AppliedSteps
      <4>5. Head(w.rest) = o[k + 1] /\ Left(Tail(w.rest), o, k + 1)
        BY <2>2, <4>2, <4>3, <4>4, LeftTail
      <4>6. PICK v \in Applied(w) : v.cand = w.cand /\ v.rest = Tail(w.rest) /\ v.now = q
        BY <4>1, <4>2, <4>3, <4>4, <4>5, AppliedSteps
      <4>. QED  BY <1>1, <4>2, <4>5, <4>6
    <3>. QED  BY <3>0, <3>1
  <2>. QED  BY <2>3, <2>4
<1>. QED  BY <1>1, <1>3, <1>4, RoundingNext

LEMMA InitRounds == Init => Rounding
BY DEF Init, Rounding

LEMMA NextRounds == Typed /\ Rounding /\ [Next]_vars => Rounding'
<1>. SUFFICES ASSUME Typed, Rounding, [Next]_vars PROVE Rounding'
  OBVIOUS
<1>1. sys' = sys /\ S' = S
  BY DEF Next, ResetLocal, Mounted, BeginRound, RunNext, EndRound, GiveUp, Settle, Event, vars, S
<1>2. CASE pc' # "run"
  BY <1>2 DEF Rounding
<1>3. CASE BeginRound
  BY <1>1, <1>3, BeginRounds
<1>4. CASE RunNext
  BY <1>1, <1>4, RunRounds
<1>5. CASE UNCHANGED vars /\ pc = "run"
  <2>1. /\ cands' = cands /\ work' = work /\ \A w \in work : Somewhere(w)
        /\ \A c \in cands : \A o \in Sequences(Runnable(c)) : Underway(c, o)
    BY <1>5 DEF vars, Rounding
  <2>2. \A c \in cands : \A o \in Sequences(Runnable(c)) :
          \E k \in 0..Len(o) : \A s \in Stages(o, c.state)[k] :
            \E w \in work' : w.cand = c /\ w.now = s /\ Left(w.rest, o, k)
    BY <2>1 DEF Underway
  <2>. QED  BY <1>1, <2>1, <2>2, RoundingNext
<1>. QED
  BY <1>2, <1>3, <1>4, <1>5
  DEF Next, ResetLocal, Mounted, EndRound, GiveUp, Settle, Event, Begin, vars

\* A stage without a state is followed by none.
LEMMA EmptyStages ==
  ASSUME NEW o, NEW pre, Len(o) \in Nat, NEW k \in 0..Len(o), Stages(o, pre)[k] = {}
  PROVE  RunInOrder(o, pre) = {}
<1>. DEFINE n == Len(o)
            R == Stages(o, pre)
            J == {j \in 0..n : k <= j => R[j] = {}}
<1>1. /\ n \in Nat /\ k \in 0..n /\ R[k] = {} /\ RunInOrder(o, pre) = R[n]
      /\ \A j \in 1..n : R[j] = UNION {Step(o[j], pre, s) : s \in R[j - 1]}
  BY RunSteps
<1>. HIDE DEF n, R
<1>2. 0 \in J
  BY <1>1
<1>3. ASSUME NEW j \in 1..n, j - 1 \in J PROVE j \in J
  <2>1. CASE k <= j - 1
    BY <1>1, <1>3, <2>1
  <2>2. CASE j = k
    BY <1>1, <2>2
  <2>3. CASE j < k
    BY <1>1, <2>3
  <2>. QED  BY <1>1, <2>1, <2>2, <2>3
<1>4. 0..n \subseteq J
  <2>. HIDE DEF J
  <2>. QED  BY <1>1, <1>2, <1>3, UpTo
<1>. QED  BY <1>1, <1>4

LEMMA RoundingCovers == Typed /\ Rounding => EveryOrderIsCovered
<1>. SUFFICES ASSUME Typed, Rounding, pc = "run", \A w \in work : w.rest = <<>>,
                     NEW c \in cands, Independent(Runnable(c))
              PROVE  {w.now : w \in {b \in work : b.cand = c}}
                       = UNION {RunInOrder(o, c.state) : o \in Admissible(Runnable(c))}
  BY DEF EveryOrderIsCovered
<1>1. c \in Candidate
  BY DEF Typed, TypeOK
<1>2. ASSUME NEW w \in work, w.cand = c
      PROVE  \E o \in Admissible(Runnable(c)) : w.now \in RunInOrder(o, c.state)
  <2>1. PICK o \in Sequences(Runnable(c)) : \E k \in 0..Len(o) :
          Left(w.rest, o, k) /\ w.now \in Stages(o, c.state)[k]
    BY <1>2 DEF Rounding, Somewhere
  <2>2. PICK k \in 0..Len(o) : Left(w.rest, o, k) /\ w.now \in Stages(o, c.state)[k]
    BY <2>1
  <2>3. Len(o) \in Nat
    BY OrderIsSequence
  <2>4. k = Len(o)
    <3>1. w.rest = <<>> /\ Len(<<>>) = 0
      OBVIOUS
    <3>. QED  BY <2>2, <2>3, <3>1 DEF Left
  <2>5. w.now \in RunInOrder(o, c.state)
    BY <2>2, <2>3, <2>4, RunSteps
  <2>. QED  BY <1>1, <2>5, SequencesCover
<1>3. ASSUME NEW o \in Admissible(Runnable(c)), NEW s \in RunInOrder(o, c.state)
      PROVE  \E w \in work : w.cand = c /\ w.now = s
  <2>1. PICK p \in Sequences(Runnable(c)) : RunInOrder(p, c.state) = RunInOrder(o, c.state)
    BY <1>1, SequencesCover
  <2>2. PICK k \in 0..Len(p) : \A q \in Stages(p, c.state)[k] :
          \E w \in work : w.cand = c /\ w.now = q /\ Left(w.rest, p, k)
    BY DEF Rounding, Underway
  <2>3. Len(p) \in Nat /\ RunInOrder(p, c.state) = Stages(p, c.state)[Len(p)]
    BY OrderIsSequence, RunSteps
  <2>4. Stages(p, c.state)[k] # {}
    BY <1>3, <2>1, <2>3, EmptyStages
  <2>5. PICK w \in work : Left(w.rest, p, k)
    BY <2>2, <2>4
  <2>6. k = Len(p)
    <3>1. w.rest = <<>> /\ Len(<<>>) = 0
      OBVIOUS
    <3>. QED  BY <2>3, <2>5, <3>1 DEF Left
  <2>. QED  BY <1>3, <2>1, <2>2, <2>3, <2>6
<1>. QED  BY <1>2, <1>3

\* A round has the results of all orders in which the effects may be committed, though
\* it tries only some: whatever the transitions write, as long as none reads what
\* another one of the round writes.
THEOREM RoundsCoverEveryOrder == Spec => []EveryOrderIsCovered
<1>. QED  BY RoundingCovers, InitTyped, NextTyped, InitRounds, NextRounds, PTL DEF Spec
=============================================================================
