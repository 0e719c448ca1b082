--------------------------- MODULE AppQueueProofs ---------------------------
(***************************************************************************)
(* Proofs about AppQueue for every application made of any number of its   *)
(* parts, every payload and every bound on the queue: answers come in the  *)
(* order of the requests, and what a part shows is consistent.             *)
(***************************************************************************)
EXTENDS AppQueue, FiniteSetTheorems, SequenceTheorems, WellFoundedInduction, TLAPS

-----------------------------------------------------------------------------
(* Folds of a sequence: what FoldLeft computes for 1..n is built up from   *)
(* what it computes for 1..n-1.                                            *)

\* The least of a set of numbers up to n.
LEMMA LeastOf ==
  ASSUME NEW n \in Nat, NEW I, I \subseteq 0..n, I # {}
  PROVE  \E i \in I : \A j \in I : i <= j
<1>. DEFINE V == 0..n
            T == {0..i : i \in I}
<1>1. IsFiniteSet(V)
  BY FS_Interval
<1>2. \A i \in I : 0..i \in FiniteSubsetsOf(V)
  <2>. SUFFICES ASSUME NEW i \in I PROVE 0..i \in FiniteSubsetsOf(V)
    OBVIOUS
  <2>1. 0..i \subseteq V
    OBVIOUS
  <2>. QED  BY <1>1, <2>1, FS_Subset DEF FiniteSubsetsOf
<1>3. T # {} /\ T \subseteq FiniteSubsetsOf(V)
  BY <1>2
<1>4. PICK D \in T : \A F \in T : <<F, D>> \notin StrictSubsetOrdering(V)
  <2>. HIDE DEF T
  <2>. QED  BY <1>1, <1>3, FS_StrictSubsetOrderingWellFounded, WFMin
<1>5. PICK i \in I : D = 0..i
  BY <1>4
<1>6. ASSUME NEW j \in I, j < i PROVE FALSE
  <2>1. i \in 0..n /\ j \in 0..n
    OBVIOUS
  <2>2. 0..j \subseteq 0..i /\ i \in 0..i /\ i \notin 0..j
    BY <1>6, <2>1
  <2>3. <<0..j, 0..i>> \in StrictSubsetOrdering(V)
    BY <1>2, <2>2 DEF StrictSubsetOrdering, FiniteSubsetsOf
  <2>. QED  BY <1>4, <1>5, <2>3
<1>7. \A j \in I : i \in Int /\ j \in Int
  OBVIOUS
<1>. QED  BY <1>6, <1>7

\* A set that contains 0 and, with a number below n, the next one contains all up to n.
LEMMA UpTo ==
  ASSUME NEW n \in Nat, NEW J, 0 \in J, \A j \in 1..n : j - 1 \in J => j \in J
  PROVE  0..n \subseteq J
<1>. DEFINE I == (0..n) \ J
<1>. SUFFICES ASSUME I # {} PROVE FALSE
  OBVIOUS
<1>1. PICK i \in I : \A j \in I : i <= j
  <2>. HIDE DEF I
  <2>1. I \subseteq 0..n
    BY DEF I
  <2>. QED  BY <2>1, LeastOf
<1>2. i \in 1..n /\ i - 1 \in 0..n /\ ~(i <= i - 1)
  OBVIOUS
<1>3. i - 1 \in J
  BY <1>1, <1>2
<1>. QED  BY <1>2, <1>3

LEMMA MaxUpTo ==
  ASSUME NEW j \in Nat, NEW s, s \subseteq 1..j, j \in s
  PROVE  Max(s) = j
<1>1. \A y \in s : j >= y
  OBVIOUS
<1>2. \A x \in s : (\A y \in s : x >= y) => x = j
  OBVIOUS
<1>. QED  BY <1>1, <1>2 DEF Max

\* A set of numbers has a greatest element.
LEMMA MaxIn ==
  ASSUME NEW n \in Nat, NEW s, s \subseteq 1..n, s # {}
  PROVE  Max(s) \in s
<1>. DEFINE I == {n - y : y \in s}
<1>1. PICK i \in I : \A j \in I : i <= j
  <2>1. \A y \in s : n - y \in 0..n
    OBVIOUS
  <2>2. I \subseteq 0..n /\ I # {}
    BY <2>1
  <2>. HIDE DEF I
  <2>. QED  BY <2>2, LeastOf
<1>2. PICK x \in s : i = n - x
  OBVIOUS
<1>3. \A y \in s : x >= y
  <2>. SUFFICES ASSUME NEW y \in s PROVE x >= y
    OBVIOUS
  <2>1. n - x <= n - y /\ x \in 1..n /\ y \in 1..n
    BY <1>1, <1>2
  <2>. QED  BY <2>1
<1>. QED  BY <1>3 DEF Max

-----------------------------------------------------------------------------
(* The two folds of the model: the answer of a Promise.all, which dequeues  *)
(* several positions, and the loaders an action revalidates.               *)

Applied(which, x, y) == IF which = "dequeue" THEN Dequeue(x, y) ELSE IfPresent(x, y)

Folded(which, base, order, s, iter) ==
    IF s = {} THEN base ELSE Applied(which, iter[s \ {Max(s)}], order[Max(s)])

IsFold(which, base, order, n, iter) ==
    iter = [s \in SUBSET (1..n) |-> Folded(which, base, order, s, iter)]

\* The function that FoldLeft is defined with exists.
LEMMA FoldExists ==
  ASSUME NEW which, NEW base, NEW order, NEW n \in Nat
  PROVE  \E iter : IsFold(which, base, order, n, iter)
<1>. DEFINE J == {j \in 0..n : \E g : IsFold(which, base, order, j, g)}
<1>1. 0 \in J
  <2>1. \A s \in SUBSET (1..0) : s = {}
    OBVIOUS
  <2>2. IsFold(which, base, order, 0, [s \in SUBSET (1..0) |-> base])
    BY <2>1 DEF IsFold, Folded
  <2>. QED  BY <2>2
<1>2. ASSUME NEW j \in 1..n, j - 1 \in J
      PROVE  j \in J
  <2>1. PICK g : IsFold(which, base, order, j - 1, g)
    BY <1>2
  <2>. DEFINE h == [s \in SUBSET (1..j) |->
                      IF j \notin s THEN g[s] ELSE Applied(which, g[s \ {j}], order[j])]
  <2>2. ASSUME NEW s \in SUBSET (1..j)
        PROVE  h[s] = Folded(which, base, order, s, h)
    <3>1. CASE j \in s
      <4>1. j \in Nat /\ s \subseteq 1..j
        OBVIOUS
      <4>2. Max(s) = j
        BY <3>1, <4>1, MaxUpTo
      <4>3. h[s \ {j}] = g[s \ {j}]
        OBVIOUS
      <4>. QED  BY <3>1, <4>2, <4>3 DEF Folded
    <3>2. CASE j \notin s
      <4>1. s \in SUBSET (1..(j - 1))
        BY <3>2
      <4>2. g[s] = Folded(which, base, order, s, g) /\ h[s] = g[s]
        BY <2>1, <3>2, <4>1 DEF IsFold
      <4>3. h[s \ {Max(s)}] = g[s \ {Max(s)}]
        BY <3>2
      <4>. QED  BY <4>2, <4>3 DEF Folded
    <3>. QED  BY <3>1, <3>2
  <2>3. h = [s \in SUBSET (1..j) |-> h[s]]
    OBVIOUS
  <2>. HIDE DEF h
  <2>4. IsFold(which, base, order, j, h)
    BY <2>2, <2>3 DEF IsFold
  <2>. QED  BY <2>4
<1>3. 0..n \subseteq J
  <2>. HIDE DEF J
  <2>. QED  BY <1>1, <1>2, UpTo
<1>. QED  BY <1>3

\* What FoldLeft computes is what that function has for the whole domain.
LEMMA DequeueFold ==
  ASSUME NEW q, NEW order, NEW n \in Nat, DOMAIN order = 1..n
  PROVE  \E iter : /\ IsFold("dequeue", q, order, n, iter)
                   /\ FoldLeft(Dequeue, q, order) = iter[1..n]
<1>. DEFINE iter == CHOOSE g : IsFold("dequeue", q, order, n, g)
<1>1. FoldLeft(Dequeue, q, order) = iter[1..n]
  BY DEF FoldLeft, MapThenFoldSet, IsFold, Folded, Applied
<1>2. IsFold("dequeue", q, order, n, iter)
  BY FoldExists
<1>. HIDE DEF iter
<1>. QED  BY <1>1, <1>2

LEMMA IfPresentFold ==
  ASSUME NEW base, NEW order, NEW n \in Nat, DOMAIN order = 1..n
  PROVE  \E iter : /\ IsFold("present", base, order, n, iter)
                   /\ FoldLeft(IfPresent, base, order) = iter[1..n]
<1>. DEFINE iter == CHOOSE g : IsFold("present", base, order, n, g)
<1>1. FoldLeft(IfPresent, base, order) = iter[1..n]
  BY DEF FoldLeft, MapThenFoldSet, IsFold, Folded, Applied
<1>2. IsFold("present", base, order, n, iter)
  BY FoldExists
<1>. HIDE DEF iter
<1>. QED  BY <1>1, <1>2

\* The loaders an action revalidates are parts of the application.
LEMMA RevalidatedArePresent ==
  ASSUME NEW p \in DOMAIN Part
  PROVE  RevalidatedLoaders(p) \in Seq(app)
<1>. DEFINE order == Part[p].revalidates
            n == Len(order)
<1>1. n \in Nat /\ DOMAIN order = 1..n
  BY PartAssumption
<1>. HIDE DEF order, n
<1>2. PICK iter : /\ IsFold("present", <<>>, order, n, iter)
                  /\ FoldLeft(IfPresent, <<>>, order) = iter[1..n]
  BY <1>1, IfPresentFold
<1>. DEFINE J == {i \in 0..n : iter[1..i] \in Seq(app)}
<1>3. 0 \in J
  <2>1. iter[{}] = <<>> /\ 1..0 = {}
    BY <1>2 DEF IsFold, Folded
  <2>2. 0 \in 0..n
    BY <1>1
  <2>3. iter[1..0] = <<>>
    BY <2>1
  <2>4. <<>> \in Seq(app)
    OBVIOUS
  <2>. QED  BY <2>2, <2>3, <2>4
<1>4. ASSUME NEW i \in 1..n, i - 1 \in J
      PROVE  i \in J
  <2>1. /\ 1..i \in SUBSET (1..n) /\ 1..i # {} /\ (1..i) \ {i} = 1..(i - 1)
        /\ i \in Nat /\ i \in 1..i /\ 1..i \subseteq 1..i /\ i \in 0..n
    BY <1>1
  <2>2. Max(1..i) = i
    BY <2>1, MaxUpTo
  <2>3. iter[1..i] = IfPresent(iter[1..(i - 1)], order[i])
    BY <1>2, <2>1, <2>2 DEF IsFold, Folded, Applied
  <2>4. iter[1..(i - 1)] \in Seq(app)
    BY <1>4
  <2>5. iter[1..i] \in Seq(app)
    BY <2>3, <2>4 DEF IfPresent
  <2>. QED  BY <2>1, <2>5
<1>5. 0..n \subseteq J
  <2>. HIDE DEF J
  <2>. QED  BY <1>1, <1>3, <1>4, UpTo
<1>6. iter[1..n] \in Seq(app)
  BY <1>1, <1>5
<1>. QED  BY <1>2, <1>6 DEF RevalidatedLoaders, order

\* Dequeue takes one element out of the middle.
LEMMA DequeueMiddle ==
  ASSUME NEW E, NEW a \in Seq(E), NEW e \in E, NEW b \in Seq(E)
  PROVE  Dequeue(Append(a, e) \o b, Len(a)) = a \o b
<1>. DEFINE r == Append(a, e) \o b
            n == Len(a)
<1>1. r \in Seq(E) /\ Len(r) = n + 1 + Len(b) /\ n \in Nat /\ Len(b) \in Nat
  OBVIOUS
<1>2. /\ \A i \in 1..n : r[i] = a[i]
      /\ \A i \in 1..Len(b) : r[n + 1 + i] = b[i]
  OBVIOUS
<1>. HIDE DEF r
<1>3. SubSeq(r, 1, n) = a
  <2>1. SubSeq(r, 1, n) \in Seq(E) /\ Len(SubSeq(r, 1, n)) = n
        /\ \A i \in 1..n : SubSeq(r, 1, n)[i] = r[i]
    BY <1>1
  <2>. QED  BY <1>2, <2>1, SeqEqual
<1>4. SubSeq(r, n + 2, Len(r)) = b
  <2>. DEFINE t == SubSeq(r, n + 2, Len(r))
  <2>1. t \in Seq(E) /\ Len(t) = Len(b) /\ \A i \in 1..Len(b) : t[i] = r[n + 1 + i]
    BY <1>1
  <2>. HIDE DEF t
  <2>2. t = b
    BY <1>2, <2>1, SeqEqual
  <2>. QED  BY <2>2 DEF t
<1>. HIDE DEF n
<1>5. n < Len(r) /\ n + 1 - 1 = n /\ n + 1 + 1 = n + 2
  BY <1>1
<1>6. Dequeue(r, n) = SubSeq(r, 1, n) \o SubSeq(r, n + 2, Len(r))
  <2>1. PICK m : m = n + 1
    OBVIOUS
  <2>2. RemoveAt(r, m) = SubSeq(r, 1, m - 1) \o SubSeq(r, m + 1, Len(r))
    BY DEF RemoveAt
  <2>3. Dequeue(r, n) = RemoveAt(r, m)
    BY <1>5, <2>1 DEF Dequeue
  <2>4. m - 1 = n /\ m + 1 = n + 2
    BY <1>1, <2>1
  <2>. QED  BY <2>2, <2>3, <2>4
<1>. QED  BY <1>3, <1>4, <1>6 DEF r, n

\* Removing the positions from the last to the first leaves what is behind them.
LEMMA JoinTakes ==
  ASSUME NEW E, NEW q \in Seq(E), NEW k \in Nat, k <= Len(q)
  PROVE  FoldLeft(Dequeue, q, [i \in 1..k |-> k - i]) = SubSeq(q, k + 1, Len(q))
<1>. DEFINE order == [i \in 1..k |-> k - i]
            b == SubSeq(q, k + 1, Len(q))
            Ahead(i) == SubSeq(q, 1, k - i)
<1>1. PICK iter : /\ IsFold("dequeue", q, order, k, iter)
                  /\ FoldLeft(Dequeue, q, order) = iter[1..k]
  BY DequeueFold
<1>2. b \in Seq(E) /\ \A i \in 0..k : Ahead(i) \in Seq(E) /\ Len(Ahead(i)) = k - i
  OBVIOUS
<1>. DEFINE J == {i \in 0..k : iter[1..i] = Ahead(i) \o b}
<1>3. 0 \in J
  <2>1. iter[{}] = q
    BY <1>1 DEF IsFold, Folded
  <2>2. Ahead(0) \o b = q
    <3>1. /\ 1 \in 1..(Len(q) + 1) /\ k - 0 = k
          /\ k \in (1 - 1)..Len(q) /\ Len(q) \in k..Len(q)
      OBVIOUS
    <3>2. SubSeq(q, 1, k) \o SubSeq(q, k + 1, Len(q)) = SubSeq(q, 1, Len(q))
      BY <3>1, ConcatAdjacentSubSeq
    <3>. QED  BY <3>1, <3>2, SubSeqFull
  <2>3. 1..0 = {} /\ 0 \in 0..k
    OBVIOUS
  <2>. HIDE DEF Ahead, b
  <2>4. iter[1..0] = Ahead(0) \o b
    BY <2>1, <2>2, <2>3
  <2>. QED  BY <2>3, <2>4
<1>4. ASSUME NEW i \in 1..k, i - 1 \in J
      PROVE  i \in J
  <2>1. /\ 1..i \in SUBSET (1..k) /\ 1..i # {} /\ (1..i) \ {i} = 1..(i - 1)
        /\ i \in Nat /\ i \in 1..i /\ 1..i \subseteq 1..i
    OBVIOUS
  <2>2. Max(1..i) = i
    BY <2>1, MaxUpTo
  <2>3. iter[1..i] = Dequeue(iter[1..(i - 1)], k - i)
    BY <1>1, <2>1, <2>2 DEF IsFold, Folded, Applied
  <2>4. Ahead(i - 1) = Append(Ahead(i), q[k - i + 1]) /\ q[k - i + 1] \in E
    <3>. DEFINE m == k - i + 1
    <3>1. /\ 1 \in 1..Len(q) /\ m \in 1..Len(q) /\ k - (i - 1) = m /\ k - i = m - 1
          /\ q[m] \in E /\ Ahead(i) \in Seq(E)
      OBVIOUS
    <3>2. SubSeq(q, 1, m) = SubSeq(q, 1, m - 1) \o <<q[m]>>
      BY <3>1, SubSeqRecursiveSecond
    <3>3. Ahead(i - 1) = Ahead(i) \o <<q[m]>>
      BY <3>1, <3>2
    <3>. QED  BY <3>1, <3>3, AppendIsConcat
  <2>5. iter[1..(i - 1)] = Ahead(i - 1) \o b
    BY <1>4
  <2>6. Ahead(i) \in Seq(E) /\ Len(Ahead(i)) = k - i
    BY <1>2
  <2>. HIDE DEF Ahead, b
  <2>7. Dequeue(Append(Ahead(i), q[k - i + 1]) \o b, Len(Ahead(i))) = Ahead(i) \o b
    BY <1>2, <2>4, <2>6, DequeueMiddle
  <2>8. iter[1..i] = Ahead(i) \o b
    BY <2>3, <2>4, <2>5, <2>6, <2>7
  <2>. QED  BY <2>8
<1>5. 0..k \subseteq J
  <2>. HIDE DEF J
  <2>. QED  BY <1>3, <1>4, UpTo
<1>6. iter[1..k] = Ahead(k) \o b
  <2>1. k \in 0..k
    OBVIOUS
  <2>. HIDE DEF Ahead, b
  <2>. QED  BY <1>5, <2>1
<1>7. Ahead(k) = <<>>
  OBVIOUS
<1>8. Ahead(k) \o b = b
  BY <1>2, <1>7
<1>. QED  BY <1>1, <1>6, <1>8

-----------------------------------------------------------------------------
(* The invariant.  Besides what TypeOK and ViewIsConsistent say, each kind *)
(* of part only uses the fields it has, and an action that waits has its   *)
(* own operation in the queue, not only the revalidation of an earlier one.*)

Entries == [op : UNION {Ops[p] : p \in app}, continuation : app]

Views == [data : Payload \cup {None},
          status : {"idle", "pending", "success", "error", "empty", "fresh", "stale",
                    "refreshing"},
          fetching : BOOLEAN, stale : BOOLEAN, invalidated : BOOLEAN,
          error : BOOLEAN, failures : {"0", "1", "max"}]

Spins(p, v) ==
    \/ v.fetching
    \/ v.status \in {"pending", "refreshing"} /\ Part[p].kind # "query"

\* The operations whose answer ends the wait of a part.
Awaited(p) == IF Part[p].kind = "action" THEN {Part[p].op} ELSE Ops[p]

AskedFor(p, q) == \E i \in DOMAIN q : q[i].op \in Awaited(p)

StaleLoader(p, v) == Part[p].kind = "loader" /\ v.stale

Consistent(p, v) ==
    LET kind == Part[p].kind
    IN  /\ kind \in {"query", "mutation"} /\ v.status = "success" => v.data # None
        /\ kind = "query" /\ v.status = "pending" => v.data = None
        /\ kind = "mutation" => (v.error <=> v.status = "error")
        /\ kind = "mutation" /\ v.status = "idle" => v.data = None
        /\ kind = "loader" /\ v.status = "pending" => v.stale
        /\ kind = "loader" /\ v.status = "success" /\ ~Part[p].gated => v.data # None

Shaped(p, v) ==
    /\ Part[p].kind \notin {"swr", "query", "transition"} => ~v.fetching
    /\ Part[p].kind \in {"swr", "transition"} => v.status = "idle"

Good(p, v) == v \in Views /\ Consistent(p, v) /\ Shaped(p, v)

Inv ==
    /\ app \in Apps /\ route \in Routes
    /\ pending \in Seq(Entries)
    /\ Len(pending) <= MaxPending
    /\ view \in [app -> Views]
    /\ \A p \in app : Good(p, view[p])
    /\ \A p \in Alone[app] :
         Spins(p, view[p]) => AskedFor(p, pending) \/ StaleLoader(p, view[p])

\* What a step of part p does to the queue: it takes its first k operations and
\* appends new ones.
Takes(p, k, new) ==
    /\ k \in 0..Len(pending)
    /\ \A i \in 1..k : pending[i].op \in Ops[p]
    /\ OneAnswer(1, k)
    /\ new \in Seq(Entries)
    /\ pending' = SubSeq(pending, k + 1, Len(pending)) \o new
    /\ Len(pending') <= MaxPending

\* And to the variables: its own become v, others are at most marked stale.
Shows(p, v) ==
    /\ Good(p, v)
    /\ view' \in [app -> Views]
    /\ view'[p] = v
    /\ \A q \in app \ {p} : \/ view'[q] = view[q]
                            \/ view'[q] = [view[q] EXCEPT !.stale = TRUE]

\* A part that waits afterwards has just asked, or still has what it waits for.
StillAsked(p, k, new, v) ==
    Spins(p, v) =>
        \/ StaleLoader(p, v)
        \/ AskedFor(p, new)
        \/ /\ Spins(p, view[p])
           /\ StaleLoader(p, view[p]) => StaleLoader(p, v)
           /\ \A i \in 1..k : pending[i].op \notin Awaited(p)

Moves(p, k, new, v) == Takes(p, k, new) /\ Shows(p, v) /\ StillAsked(p, k, new, v)

MovesSomehow(p) == \E k, new, v : Moves(p, k, new, v)

LEMMA InvImpliesProperties ==
  ASSUME Inv
  PROVE  TypeOK /\ ViewIsConsistent
<1>1. TypeOK
  BY DEF Inv, TypeOK, Entries, Views
<1>2. StatusTellsData
  BY DEF Inv, Good, Consistent, StatusTellsData
<1>3. SpinnerHasAnOp
  <2>1. Alone[app] \subseteq app /\ app \subseteq DOMAIN Part
    BY AppsAssumption DEF Inv, Alone
  <2>2. \A p \in Alone[app] : Awaited(p) \subseteq Ops[p]
    BY <2>1 DEF Awaited, Ops
  <2>3. ASSUME NEW p \in Alone[app], Spinning(p)
        PROVE  Asked(p) \/ (Part[p].kind = "loader" /\ view[p].stale)
    <3>1. Spins(p, view[p])
      BY <2>3 DEF Spinning, Spins
    <3>2. AskedFor(p, pending) \/ StaleLoader(p, view[p])
      BY <3>1 DEF Inv
    <3>. QED  BY <2>2, <3>2 DEF AskedFor, Asked, StaleLoader
  <2>. QED  BY <2>3 DEF SpinnerHasAnOp
<1>. QED  BY <1>1, <1>2, <1>3 DEF ViewIsConsistent

\* An empty queue and the initial variables.
LEMMA InvInit ==
  ASSUME Init
  PROVE  Inv
<1>. USE DEF Init
<1>1. app \subseteq DOMAIN Part /\ Alone[app] \subseteq app
  BY AppsAssumption DEF Alone
<1>2. <<>> \in Seq(Entries) /\ Len(<<>>) <= MaxPending
  BY MaxPendingAssumption
<1>3. ASSUME NEW p \in app
      PROVE  /\ Good(p, InitialView(p))
             /\ Spins(p, InitialView(p)) => StaleLoader(p, InitialView(p))
  <2>. DEFINE kind == Part[p].kind
  <2>1. kind \in Kinds /\ Part[p].initialData \in Payload \cup {None}
    BY <1>1, PartAssumption
  <2>2. Blank \in Views
    BY DEF Blank, Views
  <2>3. CASE kind = "swr"
    <3>1. InitialView(p) = Blank
      BY <2>3 DEF InitialView, SwrVars
    <3>. QED  BY <2>2, <2>3, <3>1 DEF Good, Consistent, Shaped, Spins, Blank
  <2>4. CASE kind = "query"
    <3>1. InitialView(p) = QueryVars(p)
      BY <2>4 DEF InitialView
    <3>. QED  BY <2>1, <2>4, <3>1
         DEF Good, Consistent, Shaped, Spins, Blank, QueryVars, Views, NeverStale
  <2>5. CASE kind = "loader"
    <3>1. InitialView(p) = LoaderVars
      BY <2>5 DEF InitialView
    <3>. QED  BY <2>5, <3>1
         DEF Good, Consistent, Shaped, Spins, StaleLoader, Blank, LoaderVars, Views
  <2>6. CASE kind = "cache"
    <3>1. InitialView(p) = CacheVars
      BY <2>6 DEF InitialView
    <3>. QED  BY <2>6, <3>1 DEF Good, Consistent, Shaped, Spins, Blank, CacheVars, Views
  <2>7. CASE kind \notin {"swr", "query", "loader", "cache"}
    <3>1. InitialView(p) = Blank
      BY <2>7 DEF InitialView
    <3>2. ~Spins(p, Blank)
      BY DEF Spins, Blank
    <3>3. Consistent(p, Blank)
      BY <2>7 DEF Consistent, Blank
    <3>4. Shaped(p, Blank)
      BY DEF Shaped, Blank
    <3>. QED  BY <2>2, <3>1, <3>2, <3>3, <3>4 DEF Good
  <2>. QED  BY <2>1, <2>3, <2>4, <2>5, <2>6, <2>7
<1>4. view \in [app -> Views] /\ \A p \in app : view[p] = InitialView(p)
  BY <1>3 DEF Good
<1>. QED  BY <1>1, <1>2, <1>3, <1>4 DEF Inv

-----------------------------------------------------------------------------
(* What every such step does.                                              *)

\* r has the elements of q from position m on.
Has(r, q, m) == \A i \in m..Len(q) : \E j \in DOMAIN r : r[j] = q[i]

\* The rest of the queue, in its order, with what the step asks behind it.
LEMMA QueueMoves ==
  ASSUME NEW E, NEW q \in Seq(E), NEW k \in 0..Len(q), NEW new \in Seq(E), NEW r,
         r = SubSeq(q, k + 1, Len(q)) \o new
  PROVE  /\ r \in Seq(E)
         /\ IsPrefix(SubSeq(q, k + 1, Len(q)), r)
         /\ Has(r, q, k + 1)
         /\ Has(r, new, 1)
<1>. DEFINE rest == SubSeq(q, k + 1, Len(q))
            t == rest \o new
            n == Len(q) - k
<1>1. /\ rest \in Seq(E) /\ Len(rest) = n /\ n \in Nat /\ Len(new) \in Nat
      /\ \A i \in (k + 1)..Len(q) : i - k \in 1..n /\ rest[i - k] = q[i]
  OBVIOUS
<1>. HIDE DEF rest, n
<1>2. /\ t \in Seq(E) /\ Len(t) = n + Len(new)
      /\ \A i \in 1..n : t[i] = rest[i]
      /\ \A i \in 1..Len(new) : t[n + i] = new[i]
  <2>1. /\ t \in Seq(E) /\ Len(t) = Len(rest) + Len(new)
        /\ \A i \in 1..(Len(rest) + Len(new)) :
             t[i] = IF i <= Len(rest) THEN rest[i] ELSE new[i - Len(rest)]
    BY <1>1, ConcatProperties
  <2>. HIDE DEF t
  <2>2. t \in Seq(E) /\ Len(t) = n + Len(new)
    BY <1>1, <2>1
  <2>3. ASSUME NEW i \in 1..n PROVE t[i] = rest[i]
    <3>1. i \in 1..(n + Len(new)) /\ i <= n
      BY <1>1
    <3>. QED  BY <1>1, <2>1, <3>1
  <2>4. ASSUME NEW i \in 1..Len(new) PROVE t[n + i] = new[i]
    <3>1. PICK j : j = n + i
      OBVIOUS
    <3>2. j \in 1..(n + Len(new)) /\ ~(j <= n) /\ j - n = i
      BY <1>1, <3>1
    <3>3. t[j] = new[j - n]
      BY <1>1, <2>1, <3>2
    <3>. QED  BY <3>1, <3>2, <3>3
  <2>. QED  BY <2>2, <2>3, <2>4
<1>. HIDE DEF t
<1>3. IsPrefix(rest, t)
  <2>1. SubSeq(rest, 1, n) \in Seq(E) /\ SubSeq(t, 1, n) \in Seq(E)
        /\ Len(SubSeq(rest, 1, n)) = n /\ Len(SubSeq(t, 1, n)) = n
        /\ \A i \in 1..n : SubSeq(rest, 1, n)[i] = rest[i] /\ SubSeq(t, 1, n)[i] = t[i]
    <3>1. rest \in Seq(E) /\ n \in 0..Len(rest)
      BY <1>1
    <3>2. t \in Seq(E) /\ n \in 0..Len(t)
      BY <1>1, <1>2
    <3>3. /\ SubSeq(rest, 1, n) \in Seq(E) /\ Len(SubSeq(rest, 1, n)) = n
          /\ \A i \in 1..n : SubSeq(rest, 1, n)[i] = rest[i]
      BY <3>1
    <3>4. /\ SubSeq(t, 1, n) \in Seq(E) /\ Len(SubSeq(t, 1, n)) = n
          /\ \A i \in 1..n : SubSeq(t, 1, n)[i] = t[i]
      BY <3>2
    <3>. QED  BY <3>3, <3>4
  <2>2. SubSeq(rest, 1, n) = SubSeq(t, 1, n)
    <3>1. PICK a, b : a = SubSeq(rest, 1, n) /\ b = SubSeq(t, 1, n)
      OBVIOUS
    <3>2. a \in Seq(E) /\ b \in Seq(E) /\ Len(a) = Len(b) /\ \A i \in 1..Len(a) : a[i] = b[i]
      BY <1>2, <2>1, <3>1
    <3>3. a = b
      BY <3>2, SeqEqual
    <3>. QED  BY <3>1, <3>3
  <2>3. Len(rest) <= Len(t)
    BY <1>1, <1>2
  <2>. QED  BY <1>1, <2>2, <2>3 DEF IsPrefix
<1>4. DOMAIN t = 1..(n + Len(new)) /\ DOMAIN new = 1..Len(new)
  BY <1>2
<1>5. \A i \in (k + 1)..Len(q) : \E j \in DOMAIN t : t[j] = q[i]
  <2>. TAKE i \in (k + 1)..Len(q)
  <2>1. i - k \in 1..n /\ rest[i - k] = q[i]
    BY <1>1
  <2>2. i - k \in DOMAIN t
    BY <1>1, <1>4, <2>1
  <2>. QED  BY <1>2, <2>1, <2>2
<1>6. \A i \in DOMAIN new : \E j \in DOMAIN t : t[j] = new[i]
  <2>. TAKE i \in DOMAIN new
  <2>1. i \in 1..Len(new) /\ t[n + i] = new[i]
    BY <1>2, <1>4
  <2>2. n + i \in DOMAIN t
    BY <1>1, <1>4, <2>1
  <2>. QED  BY <2>1, <2>2
<1>7. r = t /\ rest = SubSeq(q, k + 1, Len(q))
  BY DEF t, rest
<1>8. Has(t, q, k + 1) /\ Has(t, new, 1)
  BY <1>4, <1>5, <1>6 DEF Has
<1>. QED  BY <1>2, <1>3, <1>7, <1>8

LEMMA MoveInOrder ==
  ASSUME Inv, NEW p \in app, MovesSomehow(p)
  PROVE  \E k \in 0..Len(pending) :
           /\ OneAnswer(1, k)
           /\ IsPrefix(SubSeq(pending, k + 1, Len(pending)), pending')
<1>1. PICK k, new, v : Moves(p, k, new, v)
  BY DEF MovesSomehow
<1>2. /\ k \in 0..Len(pending) /\ OneAnswer(1, k) /\ new \in Seq(Entries)
      /\ pending' = SubSeq(pending, k + 1, Len(pending)) \o new
      /\ pending \in Seq(Entries)
  BY <1>1 DEF Moves, Takes, Inv
<1>3. IsPrefix(SubSeq(pending, k + 1, Len(pending)), pending')
  BY <1>2, QueueMoves
<1>. QED  BY <1>2, <1>3

\* Being marked stale contradicts nothing and ends no wait.
LEMMA StaleIsHarmless ==
  ASSUME NEW q, NEW v, Good(q, v)
  PROVE  LET w == [v EXCEPT !.stale = TRUE]
         IN  /\ Good(q, w)
             /\ Spins(q, w) <=> Spins(q, v)
             /\ StaleLoader(q, v) => StaleLoader(q, w)
<1>. DEFINE w == [v EXCEPT !.stale = TRUE]
<1>1. v \in Views
  BY DEF Good
<1>2. /\ w \in Views /\ w.data = v.data /\ w.status = v.status /\ w.fetching = v.fetching
      /\ w.stale = TRUE /\ w.error = v.error
  BY <1>1 DEF Views
<1>. HIDE DEF w
<1>3. Consistent(q, w) /\ Shaped(q, w)
  BY <1>2 DEF Good, Consistent, Shaped
<1>4. Good(q, w)
  BY <1>2, <1>3 DEF Good
<1>5. (Spins(q, w) <=> Spins(q, v)) /\ (StaleLoader(q, v) => StaleLoader(q, w))
  BY <1>2 DEF Spins, StaleLoader
<1>. QED  BY <1>4, <1>5 DEF w

LEMMA MoveKeepsInv ==
  ASSUME Inv, NEW p \in app, MovesSomehow(p), app' = app, route' \in Routes
  PROVE  Inv'
<1>1. PICK k, new, v : Moves(p, k, new, v)
  BY DEF MovesSomehow
<1>2. app \in Apps /\ pending \in Seq(Entries) /\ Entries' = Entries
  BY DEF Inv, Entries
<1>3. /\ k \in 0..Len(pending) /\ new \in Seq(Entries)
      /\ pending' = SubSeq(pending, k + 1, Len(pending)) \o new
      /\ \A i \in 1..k : pending[i].op \in Ops[p]
      /\ Len(pending') <= MaxPending
  BY <1>1 DEF Moves, Takes
<1>4. /\ pending' \in Seq(Entries)
      /\ \A i \in (k + 1)..Len(pending) :
           \E j \in DOMAIN pending' : pending'[j] = pending[i]
      /\ \A i \in DOMAIN new : \E j \in DOMAIN pending' : pending'[j] = new[i]
  <2>1. pending' \in Seq(Entries) /\ Has(pending', pending, k + 1) /\ Has(pending', new, 1)
    BY <1>2, <1>3, QueueMoves
  <2>2. DOMAIN new = 1..Len(new)
    BY <1>3
  <2>. QED  BY <2>1, <2>2 DEF Has
<1>5. /\ Good(p, v) /\ view' \in [app -> Views] /\ view'[p] = v
      /\ \A q \in app \ {p} : \/ view'[q] = view[q]
                              \/ view'[q] = [view[q] EXCEPT !.stale = TRUE]
  BY <1>1 DEF Moves, Shows
<1>6. \A q \in app \ {p} : /\ Good(q, view[q]) /\ Good(q, view'[q])
                           /\ Spins(q, view'[q]) <=> Spins(q, view[q])
                           /\ StaleLoader(q, view[q]) => StaleLoader(q, view'[q])
  <2>. TAKE q \in app \ {p}
  <2>1. Good(q, view[q])
    BY DEF Inv
  <2>. QED  BY <1>5, <2>1, StaleIsHarmless
<1>7. Alone[app] \subseteq app /\ app \subseteq DOMAIN Part
      /\ \A q \in Alone[app] \ {p} : Ops[q] \cap Ops[p] = {}
  BY <1>2, AppsAssumption DEF Alone
<1>8. \A q \in Alone[app] : Awaited(q) \subseteq Ops[q]
  BY <1>7 DEF Awaited, Ops
<1>9. DOMAIN pending = 1..Len(pending)
  BY <1>2
<1>10. ASSUME NEW q \in Alone[app], Spins(q, view'[q])
       PROVE  AskedFor(q, pending') \/ StaleLoader(q, view'[q])
  <2>1. CASE q # p
    <3>1. Spins(q, view[q]) /\ (StaleLoader(q, view[q]) => StaleLoader(q, view'[q]))
      BY <1>6, <1>7, <1>10, <2>1
    <3>2. AskedFor(q, pending) \/ StaleLoader(q, view[q])
      BY <3>1 DEF Inv
    <3>3. ASSUME AskedFor(q, pending) PROVE AskedFor(q, pending')
      <4>1. PICK i \in 1..Len(pending) : pending[i].op \in Awaited(q)
        BY <1>9, <3>3 DEF AskedFor
      <4>2. pending[i].op \notin Ops[p]
        BY <1>7, <1>8, <2>1, <4>1
      <4>3. i \in (k + 1)..Len(pending)
        BY <1>3, <4>2
      <4>. QED  BY <1>4, <4>1, <4>3 DEF AskedFor
    <3>. QED  BY <3>1, <3>2, <3>3
  <2>2. CASE q = p
    <3>1. StillAsked(p, k, new, v) /\ Spins(p, v)
      BY <1>1, <1>5, <1>10, <2>2 DEF Moves
    <3>2. CASE StaleLoader(p, v)
      BY <1>5, <2>2, <3>2
    <3>3. CASE AskedFor(p, new)
      BY <1>4, <2>2, <3>3 DEF AskedFor
    <3>4. CASE /\ Spins(p, view[p])
               /\ StaleLoader(p, view[p]) => StaleLoader(p, v)
               /\ \A i \in 1..k : pending[i].op \notin Awaited(p)
      <4>1. AskedFor(p, pending) \/ StaleLoader(p, view[p])
        BY <2>2, <3>4 DEF Inv
      <4>2. ASSUME AskedFor(p, pending) PROVE AskedFor(p, pending')
        <5>1. PICK i \in 1..Len(pending) : pending[i].op \in Awaited(p)
          BY <1>9, <4>2 DEF AskedFor
        <5>2. i \in (k + 1)..Len(pending)
          BY <1>3, <3>4, <5>1
        <5>. QED  BY <1>4, <5>1, <5>2 DEF AskedFor
      <4>. QED  BY <1>5, <2>2, <3>4, <4>1, <4>2
    <3>. QED  BY <3>1, <3>2, <3>3, <3>4 DEF StillAsked
  <2>. QED  BY <2>1, <2>2
<1>11. \A q \in app : Good(q, view'[q])
  BY <1>5, <1>6
<1>12. /\ app' \in Apps /\ pending' \in Seq(Entries') /\ view' \in [app' -> Views]
       /\ \A q \in app' : Good(q, view'[q])
  BY <1>2, <1>4, <1>5, <1>11
<1>13. \A q \in Alone[app'] :
         Spins(q, view'[q]) => AskedFor(q, pending') \/ StaleLoader(q, view'[q])
  BY <1>10
<1>. QED  BY <1>3, <1>12, <1>13 DEF Inv

-----------------------------------------------------------------------------
(* The four ways a step moves the queue.                                   *)

LEMMA PartFacts ==
  ASSUME Inv, NEW kind \in Kinds, NEW p \in Of(kind)
  PROVE  /\ p \in app /\ p \in DOMAIN Part /\ Part[p].kind = kind
         /\ Good(p, view[p]) /\ view[p] \in Views
<1>1. p \in app /\ Part[p].kind = kind
  BY DEF Inv, Of, PartsOf
<1>. QED  BY <1>1, AppsAssumption DEF Inv, Good

LEMMA ShowsIt ==
  ASSUME Inv, NEW p \in app, NEW v, Show(p, v), Good(p, v)
  PROVE  Shows(p, v)
BY DEF Inv, Show, Shows, Good

LEMMA OwnEntry ==
  ASSUME Inv, NEW p \in app, NEW op \in Ops[p]
  PROVE  Entry(p, op) \in Entries
BY DEF Entry, Entries

\* A guard that finds its operation at the head, and the queue without it.
LEMMA HeadTaken ==
  ASSUME Inv, NEW op, PendingIs(op)
  PROVE  /\ 1 \in 0..Len(pending) /\ pending[1].op = op
         /\ Dequeue(pending, 0) = SubSeq(pending, 1 + 1, Len(pending))
         /\ Dequeue(pending, 0) \in Seq(Entries)
         /\ Len(Dequeue(pending, 0)) = Len(pending) - 1
<1>1. pending \in Seq(Entries) /\ 0 < Len(pending) /\ pending[1].op = op
  BY DEF Inv, PendingIs, PendingIsAt
<1>2. Dequeue(pending, 0) = SubSeq(pending, 1, 0) \o SubSeq(pending, 2, Len(pending))
  <2>1. PICK m : m = 1
    OBVIOUS
  <2>2. RemoveAt(pending, m) = SubSeq(pending, 1, m - 1) \o SubSeq(pending, m + 1, Len(pending))
    BY DEF RemoveAt
  <2>3. Dequeue(pending, 0) = RemoveAt(pending, m) /\ m - 1 = 0 /\ m + 1 = 2
    BY <1>1, <2>1 DEF Dequeue
  <2>. QED  BY <2>2, <2>3
<1>3. /\ SubSeq(pending, 1, 0) = <<>> /\ SubSeq(pending, 2, Len(pending)) \in Seq(Entries)
      /\ Len(SubSeq(pending, 2, Len(pending))) = Len(pending) - 1
  <2>1. SubSeq(pending, 1, 0) = <<>>
    BY SubSeqEmpty
  <2>2. pending # <<>>
    BY <1>1
  <2>3. Tail(pending) = SubSeq(pending, 2, Len(pending))
    BY <1>1, <2>2, TailIsSubSeq
  <2>4. Tail(pending) \in Seq(Entries) /\ Len(Tail(pending)) = Len(pending) - 1
    BY <1>1, <2>2, HeadTailProperties
  <2>. QED  BY <2>1, <2>3, <2>4
<1>4. Dequeue(pending, 0) = SubSeq(pending, 2, Len(pending))
  BY <1>2, <1>3, ConcatEmptySeq
<1>5. 1 \in 0..Len(pending) /\ 1 + 1 = 2
  BY <1>1
<1>. QED  BY <1>1, <1>3, <1>4, <1>5

\* A request.
LEMMA AskMoves ==
  ASSUME Inv, NEW p \in app, p \in DOMAIN Part, NEW v, Ask(p), Show(p, v), Good(p, v)
  PROVE  MovesSomehow(p)
<1>. DEFINE new == <<Entry(p, Part[p].op)>>
<1>1. Part[p].op \in Ops[p] /\ Part[p].op \in Awaited(p)
  BY DEF Ops, Awaited
<1>2. Entry(p, Part[p].op) \in Entries /\ Entry(p, Part[p].op).op = Part[p].op
  BY <1>1, OwnEntry DEF Entry
<1>3. new \in Seq(Entries) /\ Len(new) = 1 /\ DOMAIN new = {1} /\ new[1] = Entry(p, Part[p].op)
  BY <1>2
<1>4. pending' = pending \o new /\ Len(pending) + Len(new) <= MaxPending
  BY DEF Ask, Enqueue
<1>. HIDE DEF new
<1>5. pending \in Seq(Entries) /\ 0 \in 0..Len(pending)
      /\ SubSeq(pending, 0 + 1, Len(pending)) = pending
  BY SubSeqFull DEF Inv
<1>6. Len(pending') = Len(pending) + Len(new)
  <2>1. pending \in Seq(Entries) /\ new \in Seq(Entries)
    BY <1>3, <1>5
  <2>2. Len(pending \o new) = Len(pending) + Len(new)
    BY <2>1, ConcatProperties
  <2>. QED  BY <1>4, <2>2
<1>7. Takes(p, 0, new)
  BY <1>3, <1>4, <1>5, <1>6 DEF Takes, OneAnswer
<1>8. StillAsked(p, 0, new, v)
  BY <1>1, <1>2, <1>3 DEF StillAsked, AskedFor
<1>. QED  BY <1>7, <1>8, ShowsIt DEF MovesSomehow, Moves

\* A step that leaves the queue alone and starts no wait.
LEMMA StayMoves ==
  ASSUME Inv, NEW p \in app, NEW v, UNCHANGED pending, Show(p, v), Good(p, v),
         Spins(p, v) => Spins(p, view[p]) /\ Part[p].kind # "loader"
  PROVE  MovesSomehow(p)
<1>1. pending \in Seq(Entries) /\ 0 \in 0..Len(pending)
      /\ SubSeq(pending, 0 + 1, Len(pending)) = pending
  BY SubSeqFull DEF Inv
<1>2. pending' = pending \o <<>> /\ <<>> \in Seq(Entries)
  BY <1>1, ConcatEmptySeq
<1>3. Takes(p, 0, <<>>)
  BY <1>1, <1>2 DEF Takes, OneAnswer, Inv
<1>4. StillAsked(p, 0, <<>>, v)
  BY DEF StillAsked, StaleLoader
<1>. QED  BY <1>3, <1>4, ShowsIt DEF MovesSomehow, Moves

\* An answer that ends the wait.
LEMMA AnswerMoves ==
  ASSUME Inv, NEW p \in app, p \in DOMAIN Part, NEW v, Answer(Part[p].op), Show(p, v),
         Good(p, v), ~Spins(p, v), Part[p].kind # "callback" \/ Part[p].outcomes # {}
  PROVE  MovesSomehow(p)
<1>1. Part[p].op \in Ops[p] /\ Part[p].op \in Listens(p)
  BY DEF Ops, Listens
<1>2. /\ 1 \in 0..Len(pending) /\ pending[1].op = Part[p].op
      /\ pending' = SubSeq(pending, 1 + 1, Len(pending))
      /\ pending' \in Seq(Entries) /\ Len(pending') = Len(pending) - 1
  BY HeadTaken DEF Answer
<1>3. Len(pending) \in Nat /\ Len(pending) <= MaxPending
  BY DEF Inv
<1>4. <<>> \in Seq(Entries)
  OBVIOUS
<1>5. pending' = SubSeq(pending, 1 + 1, Len(pending)) \o <<>>
  BY <1>2, ConcatEmptySeq
<1>6. Len(pending') <= MaxPending /\ \A i \in 1..1 : i = 1
  BY <1>2, <1>3, MaxPendingAssumption
<1>7. Takes(p, 1, <<>>)
  BY <1>1, <1>2, <1>4, <1>5, <1>6 DEF Takes, OneAnswer
<1>8. StillAsked(p, 1, <<>>, v)
  BY DEF StillAsked
<1>. QED  BY <1>7, <1>8, ShowsIt DEF MovesSomehow, Moves

\* An answer that asks for more.
LEMMA GoOnTakes ==
  ASSUME Inv, NEW p \in app, p \in DOMAIN Part, NEW op \in Ops[p], NEW new \in Seq(Entries),
         PendingIs(op), Enqueue(Dequeue(pending, 0), new), Part[p].kind # "callback"
  PROVE  Takes(p, 1, new) /\ pending[1].op = op
<1>1. /\ 1 \in 0..Len(pending) /\ pending[1].op = op
      /\ Dequeue(pending, 0) = SubSeq(pending, 1 + 1, Len(pending))
      /\ Dequeue(pending, 0) \in Seq(Entries)
  BY HeadTaken
<1>4. /\ pending' = Dequeue(pending, 0) \o new
      /\ Len(Dequeue(pending, 0)) + Len(new) <= MaxPending
  BY DEF Enqueue
<1>5. Len(pending') <= MaxPending
  BY <1>1, <1>4, ConcatProperties
<1>6. \A i \in 1..1 : i = 1
  OBVIOUS
<1>7. pending' = SubSeq(pending, 1 + 1, Len(pending)) \o new
  BY <1>1, <1>4
<1>8. pending[1].op \in Ops[p] /\ pending[1].op \in Listens(p)
  BY <1>1 DEF Listens
<1>. QED  BY <1>1, <1>5, <1>6, <1>7, <1>8 DEF Takes, OneAnswer

-----------------------------------------------------------------------------
(* One lemma per kind of part, one step per transition.                    *)

\* SWR: every answer and every mutate ends the validation.
LEMMA SwrMoves ==
  ASSUME Inv, NEW p \in Of("swr"),
         \/ SwrFetch(p)
         \/ SwrMutate(p)
         \/ SwrSuccess(p)
         \/ SwrError(p)
  PROVE  MovesSomehow(p)
<1>. DEFINE old == view[p]
<1>1. /\ p \in app /\ p \in DOMAIN Part /\ Part[p].kind = "swr"
      /\ Good(p, old) /\ old \in Views
  BY PartFacts DEF Kinds
<1>2. CASE SwrFetch(p)
  <2>. DEFINE v == [old EXCEPT !.fetching = TRUE]
  <2>1. Ask(p) /\ Show(p, v)
    BY <1>2 DEF SwrFetch
  <2>2. Good(p, v)
    BY <1>1, NoneAssumption
       DEF Good, Views, Consistent, Shaped
  <2>. HIDE DEF v
  <2>. QED  BY <1>1, <2>1, <2>2, AskMoves
<1>3. CASE SwrMutate(p)
  <2>. DEFINE v(d) == [old EXCEPT !.data = d, !.fetching = FALSE, !.error = FALSE]
  <2>1. UNCHANGED pending /\ \E d \in Payload : Show(p, v(d))
    BY <1>3 DEF SwrMutate
  <2>2. PICK d \in Payload : Show(p, v(d))
    BY <2>1
  <2>3. Good(p, v(d)) /\ (Spins(p, v(d)) => Spins(p, old))
    BY <1>1, NoneAssumption
       DEF Good, Views, Consistent, Shaped, Spins
  <2>. HIDE DEF v
  <2>. QED  BY <1>1, <2>1, <2>2, <2>3, StayMoves
<1>4. CASE SwrSuccess(p)
  <2>. DEFINE v(d) == [old EXCEPT !.data = d, !.fetching = FALSE, !.error = FALSE]
  <2>1. Answer(Part[p].op) /\ \E d \in Payload : Show(p, v(d))
    BY <1>4 DEF SwrSuccess
  <2>2. PICK d \in Payload : Show(p, v(d))
    BY <2>1
  <2>3. Good(p, v(d)) /\ ~Spins(p, v(d))
    BY <1>1, NoneAssumption
       DEF Good, Views, Consistent, Shaped, Spins
  <2>. HIDE DEF v
  <2>. QED  BY <1>1, <2>1, <2>2, <2>3, AnswerMoves
<1>5. CASE SwrError(p)
  <2>. DEFINE v == [old EXCEPT !.fetching = FALSE, !.error = TRUE]
  <2>1. Answer(Part[p].op) /\ Show(p, v)
    BY <1>5 DEF SwrError
  <2>2. Good(p, v) /\ ~Spins(p, v)
    BY <1>1, NoneAssumption
       DEF Good, Views, Consistent, Shaped, Spins
  <2>. HIDE DEF v
  <2>. QED  BY <1>1, <2>1, <2>2, AnswerMoves
<1>. QED  BY <1>2, <1>3, <1>4, <1>5

\* Queries: only fetchStatus says that they wait.
LEMMA QueryMoves ==
  ASSUME Inv, NEW p \in Of("query"),
         \/ QueryFetch(p)
         \/ QueryRefetch(p)
         \/ QueryStale(p)
         \/ QueryInvalidate(p)
         \/ QuerySetData(p)
         \/ QueryRemove(p)
         \/ QueryReset(p)
         \/ QueryCancel(p)
         \/ QuerySuccess(p)
         \/ QueryError(p)
  PROVE  MovesSomehow(p)
<1>. DEFINE old == view[p]
<1>1. /\ p \in app /\ p \in DOMAIN Part /\ Part[p].kind = "query"
      /\ Good(p, old) /\ old \in Views
  BY PartFacts DEF Kinds
<1>2. CASE QueryFetch(p)
  <2>. DEFINE v == [old EXCEPT !.fetching = TRUE]
  <2>1. Ask(p) /\ Show(p, v)
    BY <1>2 DEF QueryFetch
  <2>2. Good(p, v)
    BY <1>1, NoneAssumption
       DEF Good, Views, Consistent, Shaped
  <2>. HIDE DEF v
  <2>. QED  BY <1>1, <2>1, <2>2, AskMoves
<1>3. CASE QueryRefetch(p)
  <2>. DEFINE v == [old EXCEPT !.fetching = TRUE]
  <2>1. Ask(p) /\ Show(p, v)
    BY <1>3 DEF QueryRefetch
  <2>2. Good(p, v)
    BY <1>1, NoneAssumption
       DEF Good, Views, Consistent, Shaped
  <2>. HIDE DEF v
  <2>. QED  BY <1>1, <2>1, <2>2, AskMoves
<1>4. CASE QueryStale(p)
  <2>. DEFINE v == [old EXCEPT !.stale = TRUE]
  <2>1. UNCHANGED pending /\ Show(p, v)
    BY <1>4 DEF QueryStale
  <2>2. Good(p, v) /\ (Spins(p, v) => Spins(p, old))
    BY <1>1, NoneAssumption
       DEF Good, Views, Consistent, Shaped, Spins
  <2>. HIDE DEF v
  <2>. QED  BY <1>1, <2>1, <2>2, StayMoves
<1>5. CASE QueryInvalidate(p)
  <2>. DEFINE v == [old EXCEPT !.stale = TRUE, !.invalidated = TRUE, !.fetching = TRUE]
  <2>1. Ask(p) /\ Show(p, v)
    BY <1>5 DEF QueryInvalidate
  <2>2. Good(p, v)
    BY <1>1, NoneAssumption
       DEF Good, Views, Consistent, Shaped
  <2>. HIDE DEF v
  <2>. QED  BY <1>1, <2>1, <2>2, AskMoves
<1>6. CASE QuerySetData(p)
  <2>. DEFINE v(d) == [old EXCEPT !.data = d, !.status = "success", !.stale = FALSE,
                                  !.invalidated = FALSE]
  <2>1. UNCHANGED pending /\ \E d \in Payload : Show(p, v(d))
    BY <1>6 DEF QuerySetData
  <2>2. PICK d \in Payload : Show(p, v(d))
    BY <2>1
  <2>3. Good(p, v(d)) /\ (Spins(p, v(d)) => Spins(p, old))
    BY <1>1, NoneAssumption
       DEF Good, Views, Consistent, Shaped, Spins
  <2>. HIDE DEF v
  <2>. QED  BY <1>1, <2>1, <2>2, <2>3, StayMoves
<1>7. CASE QueryRemove(p)
  <2>. DEFINE v == [old EXCEPT !.data = None, !.status = "pending", !.fetching = FALSE,
                               !.stale = FALSE, !.invalidated = FALSE]
  <2>1. UNCHANGED pending /\ Show(p, v)
    BY <1>7 DEF QueryRemove
  <2>2. Good(p, v) /\ (Spins(p, v) => Spins(p, old))
    BY <1>1, NoneAssumption
       DEF Good, Views, Consistent, Shaped, Spins
  <2>. HIDE DEF v
  <2>. QED  BY <1>1, <2>1, <2>2, StayMoves
<1>8. CASE QueryReset(p)
  <2>. DEFINE v == [Blank EXCEPT !.status = "pending", !.fetching = TRUE]
  <2>1. Ask(p) /\ Show(p, v)
    BY <1>8 DEF QueryReset
  <2>2. Good(p, v)
    BY <1>1, NoneAssumption
       DEF Good, Views, Consistent, Shaped, Blank
  <2>. HIDE DEF v
  <2>. QED  BY <1>1, <2>1, <2>2, AskMoves
<1>9. CASE QueryCancel(p)
  <2>. DEFINE v == [old EXCEPT !.fetching = FALSE]
  <2>1. UNCHANGED pending /\ Show(p, v)
    BY <1>9 DEF QueryCancel
  <2>2. Good(p, v) /\ (Spins(p, v) => Spins(p, old))
    BY <1>1, NoneAssumption
       DEF Good, Views, Consistent, Shaped, Spins
  <2>. HIDE DEF v
  <2>. QED  BY <1>1, <2>1, <2>2, StayMoves
<1>10. CASE QuerySuccess(p)
  <2>. DEFINE v(d) == [old EXCEPT !.data = d, !.status = "success", !.fetching = FALSE,
                                  !.stale = ~NeverStale(p), !.failures = "0"]
  <2>1. Answer(Part[p].op) /\ \E d \in Payload : Show(p, v(d))
    BY <1>10 DEF QuerySuccess
  <2>2. PICK d \in Payload : Show(p, v(d))
    BY <2>1
  <2>3. Good(p, v(d)) /\ ~Spins(p, v(d))
    BY <1>1, NoneAssumption
       DEF Good, Views, Consistent, Shaped, Spins, NeverStale
  <2>. HIDE DEF v
  <2>. QED  BY <1>1, <2>1, <2>2, <2>3, AnswerMoves
<1>11. CASE QueryError(p)
  <2>. DEFINE v == [old EXCEPT !.status = "error", !.fetching = FALSE,
                               !.failures = IF Part[p].retry THEN "1" ELSE "max"]
  <2>1. Answer(Part[p].op) /\ Show(p, v)
    BY <1>11 DEF QueryError
  <2>2. Good(p, v) /\ ~Spins(p, v)
    BY <1>1, NoneAssumption
       DEF Good, Views, Consistent, Shaped, Spins
  <2>. HIDE DEF v
  <2>. QED  BY <1>1, <2>1, <2>2, AnswerMoves
<1>. QED  BY <1>2, <1>3, <1>4, <1>5, <1>6, <1>7, <1>8, <1>9, <1>10, <1>11

\* Mutations: the error flag follows the status, and reset takes the data away.
LEMMA MutationMoves ==
  ASSUME Inv, NEW p \in Of("mutation"),
         \/ Mutate(p)
         \/ MutationReset(p)
         \/ MutationSuccess(p)
         \/ MutationError(p)
  PROVE  MovesSomehow(p)
<1>. DEFINE old == view[p]
<1>1. /\ p \in app /\ p \in DOMAIN Part /\ Part[p].kind = "mutation"
      /\ Good(p, old) /\ old \in Views
  BY PartFacts DEF Kinds
<1>2. CASE Mutate(p)
  <2>. DEFINE v == [old EXCEPT !.status = "pending", !.error = FALSE]
  <2>1. Ask(p) /\ Show(p, v)
    BY <1>2 DEF Mutate
  <2>2. Good(p, v)
    BY <1>1, NoneAssumption
       DEF Good, Views, Consistent, Shaped
  <2>. HIDE DEF v
  <2>. QED  BY <1>1, <2>1, <2>2, AskMoves
<1>3. CASE MutationReset(p)
  <2>. DEFINE v == [old EXCEPT !.status = "idle", !.data = None, !.error = FALSE,
                               !.failures = "0"]
  <2>1. UNCHANGED pending /\ Show(p, v)
    BY <1>3 DEF MutationReset
  <2>2. Good(p, v) /\ (Spins(p, v) => Spins(p, old))
    BY <1>1, NoneAssumption
       DEF Good, Views, Consistent, Shaped, Spins
  <2>. HIDE DEF v
  <2>. QED  BY <1>1, <2>1, <2>2, StayMoves
<1>4. CASE MutationSuccess(p)
  <2>. DEFINE v(d) == [old EXCEPT !.data = d, !.status = "success", !.error = FALSE,
                                  !.failures = "0"]
  <2>1. Answer(Part[p].op) /\ \E d \in Payload : Show(p, v(d))
    BY <1>4 DEF MutationSuccess
  <2>2. PICK d \in Payload : Show(p, v(d))
    BY <2>1
  <2>3. Good(p, v(d)) /\ ~Spins(p, v(d))
    BY <1>1, NoneAssumption
       DEF Good, Views, Consistent, Shaped, Spins
  <2>. HIDE DEF v
  <2>. QED  BY <1>1, <2>1, <2>2, <2>3, AnswerMoves
<1>5. CASE MutationError(p)
  <2>. DEFINE v == [old EXCEPT !.status = "error", !.error = TRUE, !.failures = "1"]
  <2>1. Answer(Part[p].op) /\ Show(p, v)
    BY <1>5 DEF MutationError
  <2>2. Good(p, v) /\ ~Spins(p, v)
    BY <1>1, NoneAssumption
       DEF Good, Views, Consistent, Shaped, Spins
  <2>. HIDE DEF v
  <2>. QED  BY <1>1, <2>1, <2>2, AnswerMoves
<1>. QED  BY <1>2, <1>3, <1>4, <1>5

\* Loaders: only a stale one is fetched, and every answer makes it fresh.
LEMMA LoaderMoves ==
  ASSUME Inv, NEW p \in Of("loader"),
         \/ LoaderFetch(p)
         \/ LoaderSuccess(p)
         \/ LoaderError(p)
  PROVE  MovesSomehow(p)
<1>. DEFINE old == view[p]
<1>1. /\ p \in app /\ p \in DOMAIN Part /\ Part[p].kind = "loader"
      /\ Good(p, old) /\ old \in Views
  BY PartFacts DEF Kinds
<1>2. CASE LoaderFetch(p)
  <2>. DEFINE v == [old EXCEPT !.status = "pending"]
  <2>1. Ask(p) /\ Show(p, v)
    BY <1>2 DEF LoaderFetch
  <2>2. Good(p, v)
    BY <1>1, NoneAssumption, <1>2
       DEF Good, Views, Consistent, Shaped, LoaderFetch
  <2>. HIDE DEF v
  <2>. QED  BY <1>1, <2>1, <2>2, AskMoves
<1>3. CASE LoaderSuccess(p)
  <2>. DEFINE v(d) == [old EXCEPT !.data = d, !.status = "success", !.stale = FALSE]
  <2>1. /\ Answer(Part[p].op)
        /\ \E d \in Payload \cup (IF Part[p].gated THEN {None} ELSE {}) : Show(p, v(d))
    BY <1>3 DEF LoaderSuccess
  <2>2. PICK d \in Payload \cup (IF Part[p].gated THEN {None} ELSE {}) : Show(p, v(d))
    BY <2>1
  <2>3. Good(p, v(d)) /\ ~Spins(p, v(d))
    BY <1>1, NoneAssumption
       DEF Good, Views, Consistent, Shaped, Spins
  <2>. HIDE DEF v
  <2>. QED  BY <1>1, <2>1, <2>2, <2>3, AnswerMoves
<1>4. CASE LoaderError(p)
  <2>. DEFINE v == [old EXCEPT !.status = "error", !.stale = FALSE]
  <2>1. Answer(Part[p].op) /\ Show(p, v)
    BY <1>4 DEF LoaderError
  <2>2. Good(p, v) /\ ~Spins(p, v)
    BY <1>1, NoneAssumption
       DEF Good, Views, Consistent, Shaped, Spins
  <2>. HIDE DEF v
  <2>. QED  BY <1>1, <2>1, <2>2, AnswerMoves
<1>. QED  BY <1>2, <1>3, <1>4

\* Loader caches.
LEMMA CacheMoves ==
  ASSUME Inv, NEW p \in Of("cache"),
         \/ CacheStale(p)
         \/ CacheRevalidate(p)
         \/ CacheSuccess(p)
         \/ CacheError(p)
  PROVE  MovesSomehow(p)
<1>. DEFINE old == view[p]
<1>1. /\ p \in app /\ p \in DOMAIN Part /\ Part[p].kind = "cache"
      /\ Good(p, old) /\ old \in Views
  BY PartFacts DEF Kinds
<1>2. CASE CacheStale(p)
  <2>. DEFINE v == [old EXCEPT !.status = "stale"]
  <2>1. UNCHANGED pending /\ Show(p, v)
    BY <1>2 DEF CacheStale
  <2>2. Good(p, v) /\ (Spins(p, v) => Spins(p, old))
    BY <1>1, NoneAssumption
       DEF Good, Views, Consistent, Shaped, Spins
  <2>. HIDE DEF v
  <2>. QED  BY <1>1, <2>1, <2>2, StayMoves
<1>3. CASE CacheRevalidate(p)
  <2>. DEFINE v == [old EXCEPT !.status = "refreshing"]
  <2>1. Ask(p) /\ Show(p, v)
    BY <1>3 DEF CacheRevalidate
  <2>2. Good(p, v)
    BY <1>1, NoneAssumption
       DEF Good, Views, Consistent, Shaped
  <2>. HIDE DEF v
  <2>. QED  BY <1>1, <2>1, <2>2, AskMoves
<1>4. CASE CacheSuccess(p)
  <2>. DEFINE v == [old EXCEPT !.status = "fresh"]
  <2>1. Answer(Part[p].op) /\ Show(p, v)
    BY <1>4 DEF CacheSuccess
  <2>2. Good(p, v) /\ ~Spins(p, v)
    BY <1>1, NoneAssumption
       DEF Good, Views, Consistent, Shaped, Spins
  <2>. HIDE DEF v
  <2>. QED  BY <1>1, <2>1, <2>2, AnswerMoves
<1>5. CASE CacheError(p)
  <2>. DEFINE v == [old EXCEPT !.status = "error"]
  <2>1. Answer(Part[p].op) /\ Show(p, v)
    BY <1>5 DEF CacheError
  <2>2. Good(p, v) /\ ~Spins(p, v)
    BY <1>1, NoneAssumption
       DEF Good, Views, Consistent, Shaped, Spins
  <2>. HIDE DEF v
  <2>. QED  BY <1>1, <2>1, <2>2, AnswerMoves
<1>. QED  BY <1>2, <1>3, <1>4, <1>5

\* Handlers that await.
LEMMA HandlerMoves ==
  ASSUME Inv, NEW p \in Of("handler"),
         \/ HandlerStart(p)
         \/ HandlerSuccess(p)
         \/ HandlerError(p)
  PROVE  MovesSomehow(p)
<1>. DEFINE old == view[p]
<1>1. /\ p \in app /\ p \in DOMAIN Part /\ Part[p].kind = "handler"
      /\ Good(p, old) /\ old \in Views
  BY PartFacts DEF Kinds
<1>2. CASE HandlerStart(p)
  <2>. DEFINE v == [old EXCEPT !.status = "pending"]
  <2>1. Ask(p) /\ Show(p, v)
    BY <1>2 DEF HandlerStart
  <2>2. Good(p, v)
    BY <1>1, NoneAssumption
       DEF Good, Views, Consistent, Shaped
  <2>. HIDE DEF v
  <2>. QED  BY <1>1, <2>1, <2>2, AskMoves
<1>3. CASE HandlerSuccess(p)
  <2>. DEFINE v == [old EXCEPT !.status = "success"]
  <2>1. Answer(Part[p].op) /\ Show(p, v)
    BY <1>3 DEF HandlerSuccess
  <2>2. Good(p, v) /\ ~Spins(p, v)
    BY <1>1, NoneAssumption
       DEF Good, Views, Consistent, Shaped, Spins
  <2>. HIDE DEF v
  <2>. QED  BY <1>1, <2>1, <2>2, AnswerMoves
<1>4. CASE HandlerError(p)
  <2>. DEFINE v == [old EXCEPT !.status = "error"]
  <2>1. Answer(Part[p].op) /\ Show(p, v)
    BY <1>4 DEF HandlerError
  <2>2. Good(p, v) /\ ~Spins(p, v)
    BY <1>1, NoneAssumption
       DEF Good, Views, Consistent, Shaped, Spins
  <2>. HIDE DEF v
  <2>. QED  BY <1>1, <2>1, <2>2, AnswerMoves
<1>. QED  BY <1>2, <1>3, <1>4

\* useTransition.
LEMMA TransitionMoves ==
  ASSUME Inv, NEW p \in Of("transition"),
         \/ TransitionStart(p)
         \/ TransitionCommit(p)
  PROVE  MovesSomehow(p)
<1>. DEFINE old == view[p]
<1>1. /\ p \in app /\ p \in DOMAIN Part /\ Part[p].kind = "transition"
      /\ Good(p, old) /\ old \in Views
  BY PartFacts DEF Kinds
<1>2. CASE TransitionStart(p)
  <2>. DEFINE v == [old EXCEPT !.fetching = TRUE]
  <2>1. Ask(p) /\ Show(p, v)
    BY <1>2 DEF TransitionStart
  <2>2. Good(p, v)
    BY <1>1, NoneAssumption
       DEF Good, Views, Consistent, Shaped
  <2>. HIDE DEF v
  <2>. QED  BY <1>1, <2>1, <2>2, AskMoves
<1>3. CASE TransitionCommit(p)
  <2>. DEFINE v == [old EXCEPT !.fetching = FALSE]
  <2>1. Answer(Part[p].op) /\ Show(p, v)
    BY <1>3 DEF TransitionCommit
  <2>2. Good(p, v) /\ ~Spins(p, v)
    BY <1>1, NoneAssumption
       DEF Good, Views, Consistent, Shaped, Spins
  <2>. HIDE DEF v
  <2>. QED  BY <1>1, <2>1, <2>2, AnswerMoves
<1>. QED  BY <1>2, <1>3

\* Callbacks: one transition per callback that has effects.
LEMMA CallbackMoves ==
  ASSUME Inv, NEW p \in Of("callback"), CallbackStart(p) \/ CallbackAnswer(p)
  PROVE  MovesSomehow(p)
<1>. DEFINE old == view[p]
<1>1. /\ p \in app /\ p \in DOMAIN Part /\ Part[p].kind = "callback"
      /\ Good(p, old) /\ old \in Views
  BY PartFacts DEF Kinds
<1>2. CASE CallbackStart(p)
  <2>. DEFINE v == [old EXCEPT !.status = "pending"]
  <2>1. Ask(p) /\ Show(p, v)
    BY <1>2 DEF CallbackStart
  <2>2. Good(p, v)
    BY <1>1 DEF Good, Views, Consistent, Shaped
  <2>. HIDE DEF v
  <2>. QED  BY <1>1, <2>1, <2>2, AskMoves
<1>3. CASE CallbackAnswer(p)
  <2>. DEFINE v(outcome) == [old EXCEPT !.status = outcome]
  <2>1. PICK outcome \in Part[p].outcomes : Answer(Part[p].op) /\ Show(p, v(outcome))
    BY <1>3 DEF CallbackAnswer
  <2>2. outcome \in {"success", "error"}
    BY <1>1, PartAssumption
  <2>3. Good(p, v(outcome)) /\ ~Spins(p, v(outcome))
    BY <1>1, <2>2 DEF Good, Views, Consistent, Shaped, Spins
  <2>. HIDE DEF v
  <2>. QED  BY <1>1, <2>1, <2>3, AnswerMoves
<1>. QED  BY <1>2, <1>3

\* Actions: revalidating takes an operation of another name than the one the
\* action waits for, and leaves its status alone.
LEMMA ActionMoves ==
  ASSUME Inv, NEW p \in Of("action"),
         \/ ActionInvoke(p)
         \/ ActionSuccess(p)
         \/ ActionError(p)
         \/ Revalidate(p)
  PROVE  MovesSomehow(p)
<1>. DEFINE old == view[p]
<1>1. /\ p \in app /\ p \in DOMAIN Part /\ Part[p].kind = "action"
      /\ Good(p, old) /\ old \in Views
  BY PartFacts DEF Kinds
<1>2. CASE ActionInvoke(p)
  <2>. DEFINE v == [old EXCEPT !.status = "pending"]
  <2>1. Ask(p) /\ Show(p, v)
    BY <1>2 DEF ActionInvoke
  <2>2. Good(p, v)
    BY <1>1 DEF Good, Views, Consistent, Shaped
  <2>. HIDE DEF v
  <2>. QED  BY <1>1, <2>1, <2>2, AskMoves
<1>3. CASE ActionSuccess(p)
  <2>. DEFINE v == [old EXCEPT !.status = "success"]
              new == <<Entry(p, Part[p].revalidateOp)>>
  <2>1. /\ PendingIs(Part[p].op) /\ Enqueue(Dequeue(pending, 0), new) /\ Show(p, v)
    BY <1>3 DEF ActionSuccess
  <2>2. Good(p, v) /\ ~Spins(p, v)
    BY <1>1 DEF Good, Views, Consistent, Shaped, Spins
  <2>3. Part[p].op \in Ops[p] /\ Part[p].revalidateOp \in Ops[p]
    BY <1>1 DEF Ops
  <2>4. new \in Seq(Entries)
    BY <1>1, <2>3, OwnEntry
  <2>. HIDE DEF v, new
  <2>5. Takes(p, 1, new)
    BY <1>1, <2>1, <2>3, <2>4, GoOnTakes
  <2>6. StillAsked(p, 1, new, v)
    BY <2>2 DEF StillAsked
  <2>. QED  BY <1>1, <2>1, <2>2, <2>5, <2>6, ShowsIt DEF MovesSomehow, Moves
<1>4. CASE ActionError(p)
  <2>. DEFINE v == [old EXCEPT !.status = "error"]
  <2>1. Answer(Part[p].op) /\ Show(p, v)
    BY <1>4 DEF ActionError
  <2>2. Good(p, v) /\ ~Spins(p, v)
    BY <1>1 DEF Good, Views, Consistent, Shaped, Spins
  <2>. HIDE DEF v
  <2>. QED  BY <1>1, <2>1, <2>2, AnswerMoves
<1>5. CASE Revalidate(p)
  <2>. DEFINE loaders == RevalidatedLoaders(p)
              new == [i \in DOMAIN loaders |-> Entry(loaders[i], Part[loaders[i]].op)]
              v == view'[p]
  <2>1. /\ PendingIs(Part[p].revalidateOp)
        /\ Enqueue(Dequeue(pending, 0), new)
        /\ view' = [q \in app |-> IF q \in ToSet(loaders)
                                  THEN [view[q] EXCEPT !.stale = TRUE] ELSE view[q]]
    BY <1>5 DEF Revalidate
  <2>2. loaders \in Seq(app)
    BY <1>1, RevalidatedArePresent
  <2>3. app \subseteq DOMAIN Part
    BY AppsAssumption DEF Inv
  <2>. HIDE DEF loaders
  <2>4. \A l \in app : Entry(l, Part[l].op) \in Entries
    <3>. TAKE l \in app
    <3>1. Part[l].op \in Ops[l]
      BY <2>3 DEF Ops
    <3>. QED  BY <3>1, OwnEntry
  <2>5. new \in Seq(Entries)
    BY <2>2, <2>4
  <2>6. Part[p].revalidateOp \in Ops[p]
        /\ Awaited(p) = {Part[p].op} /\ Part[p].revalidateOp # Part[p].op
    BY <1>1, PartAssumption DEF Ops, Awaited
  <2>. HIDE DEF new
  <2>7. Takes(p, 1, new) /\ pending[1].op = Part[p].revalidateOp
    BY <1>1, <2>1, <2>5, <2>6, GoOnTakes
  <2>8. \A q \in app : /\ view'[q] = view[q] \/ view'[q] = [view[q] EXCEPT !.stale = TRUE]
                       /\ Good(q, view[q]) /\ Good(q, view'[q])
                       /\ Spins(q, view'[q]) <=> Spins(q, view[q])
                       /\ StaleLoader(q, view[q]) => StaleLoader(q, view'[q])
    <3>. TAKE q \in app
    <3>1. view'[q] = view[q] \/ view'[q] = [view[q] EXCEPT !.stale = TRUE]
      BY <2>1
    <3>2. Good(q, view[q])
      BY DEF Inv
    <3>. QED  BY <3>1, <3>2, StaleIsHarmless
  <2>9. view' \in [app -> Views]
    <3>1. \A q \in app : view'[q] \in Views
      BY <2>8 DEF Good
    <3>. QED  BY <2>1, <3>1
  <2>10. Shows(p, v)
    BY <1>1, <2>8, <2>9 DEF Shows
  <2>11. StillAsked(p, 1, new, v)
    <3>1. \A i \in 1..1 : i = 1
      OBVIOUS
    <3>. QED  BY <1>1, <2>6, <2>7, <2>8, <3>1 DEF StillAsked
  <2>. HIDE DEF v
  <2>. QED  BY <2>7, <2>10, <2>11 DEF MovesSomehow, Moves
<1>. QED  BY <1>2, <1>3, <1>4, <1>5

\* Chains: going on asks for at least one more operation, and the join takes
\* all of them at once.
LEMMA ChainMoves ==
  ASSUME Inv, NEW p \in Of("chain"), ChainStart(p) \/ ChainNext(p) \/ ChainJoin(p)
  PROVE  MovesSomehow(p)
<1>. DEFINE old == view[p]
            next == Part[p].next
            k == Len(next)
<1>1. /\ p \in app /\ p \in DOMAIN Part /\ Part[p].kind = "chain"
      /\ Good(p, old) /\ old \in Views
  BY PartFacts DEF Kinds
<1>2. /\ next \in Seq(ToSet(next)) /\ next # <<>> /\ ToSet(next) \subseteq Ops[p]
      /\ Part[p].op \in Ops[p] /\ Awaited(p) = Ops[p]
  BY <1>1, PartAssumption DEF Ops, Awaited
<1>. HIDE DEF next
<1>3. /\ k \in Nat \ {0} /\ DOMAIN next = 1..k
      /\ \A i \in 1..k : next[i] \in Ops[p]
  BY <1>2
<1>4. CASE ChainStart(p)
  <2>. DEFINE v == [old EXCEPT !.status = "pending"]
  <2>1. Ask(p) /\ Show(p, v)
    BY <1>4 DEF ChainStart
  <2>2. Good(p, v)
    BY <1>1 DEF Good, Views, Consistent, Shaped
  <2>. HIDE DEF v
  <2>. QED  BY <1>1, <2>1, <2>2, AskMoves
<1>5. CASE ChainNext(p)
  <2>. DEFINE new == [i \in DOMAIN next |-> Entry(p, next[i])]
  <2>1. PendingIs(Part[p].op) /\ Enqueue(Dequeue(pending, 0), new) /\ UNCHANGED view
    BY <1>5 DEF ChainNext, next
  <2>2. \A i \in 1..k : Entry(p, next[i]) \in Entries
    BY <1>1, <1>3, OwnEntry
  <2>3. new \in Seq(Entries)
    BY <1>3, <2>2
  <2>4. 1 \in DOMAIN new /\ new[1].op \in Awaited(p)
    BY <1>2, <1>3 DEF Entry
  <2>. HIDE DEF new
  <2>5. Takes(p, 1, new)
    BY <1>1, <1>2, <2>1, <2>3, GoOnTakes
  <2>6. StillAsked(p, 1, new, old)
    BY <2>4 DEF StillAsked, AskedFor
  <2>7. Shows(p, old)
    BY <1>1, <2>1 DEF Shows, Inv
  <2>. QED  BY <2>5, <2>6, <2>7 DEF MovesSomehow, Moves
<1>6. CASE ChainJoin(p)
  <2>. DEFINE v == [old EXCEPT !.status = "success"]
  <2>1. /\ \A i \in 1..k : PendingIsAt(i - 1, next[i])
        /\ pending' = FoldLeft(Dequeue, pending, [i \in 1..k |-> k - i])
        /\ Show(p, v)
    BY <1>3, <1>6 DEF ChainJoin, JoinGuard, JoinOrder, next
  <2>2. Good(p, v) /\ ~Spins(p, v)
    BY <1>1 DEF Good, Views, Consistent, Shaped, Spins
  <2>. HIDE DEF v
  <2>3. pending \in Seq(Entries) /\ Len(pending) \in Nat /\ Len(pending) <= MaxPending
    BY DEF Inv
  <2>4. \A i \in 1..k : i <= Len(pending) /\ pending[i].op = next[i]
    <3>. TAKE i \in 1..k
    <3>1. i - 1 < Len(pending) /\ pending[i - 1 + 1].op = next[i]
      BY <2>1 DEF PendingIsAt
    <3>2. i - 1 + 1 = i /\ i \in Nat
      OBVIOUS
    <3>. QED  BY <2>3, <3>1, <3>2
  <2>5. k <= Len(pending) /\ k \in 0..Len(pending)
    BY <1>3, <2>3, <2>4
  <2>6. pending' = SubSeq(pending, k + 1, Len(pending))
    BY <1>3, <2>1, <2>3, <2>5, JoinTakes
  <2>7. /\ pending' \in Seq(Entries) /\ Len(pending') <= MaxPending
        /\ pending' = SubSeq(pending, k + 1, Len(pending)) \o <<>>
    <3>1. pending' \in Seq(Entries) /\ Len(pending') = Len(pending) - k
      BY <2>3, <2>5, <2>6
    <3>. QED  BY <1>3, <2>3, <2>6, <3>1, MaxPendingAssumption, ConcatEmptySeq
  <2>8. OneAnswer(1, k)
    <3>1. p \in Of("chain") /\ k - 1 + 1 = Len(next)
      BY <1>3
    <3>2. \A i \in DOMAIN next : 1 + i - 1 = i /\ pending[i].op = next[i]
      BY <1>3, <2>4
    <3>3. \A i \in DOMAIN next : pending[1 + i - 1].op = next[i]
      BY <3>2
    <3>. QED  BY <3>1, <3>3 DEF OneAnswer, next
  <2>9. <<>> \in Seq(Entries)
    OBVIOUS
  <2>10. Takes(p, k, <<>>)
    BY <1>3, <2>4, <2>5, <2>7, <2>8, <2>9 DEF Takes
  <2>11. StillAsked(p, k, <<>>, v)
    BY <2>2 DEF StillAsked
  <2>. QED  BY <1>1, <2>1, <2>2, <2>10, <2>11, ShowsIt DEF MovesSomehow, Moves
<1>. QED  BY <1>4, <1>5, <1>6

-----------------------------------------------------------------------------
(* The theorems.                                                           *)

\* Whatever happens, it is the step of one part, or a navigation.
LEMMA NextMoves ==
  ASSUME Inv, Next
  PROVE  /\ app' = app /\ route' \in Routes
         /\ UNCHANGED <<pending, view>> \/ \E p \in app : MovesSomehow(p)
<1>1. app' = app /\ route \in Routes /\ (Step \/ Resolve)
  BY DEF Inv, Next
<1>2. CASE Navigate
  BY <1>1, <1>2 DEF Navigate
<1>3. ASSUME NEW kind \in Kinds, NEW p \in Of(kind) PROVE p \in app
  BY <1>3, PartFacts
<1>. USE DEF Kinds
<1>4. CASE Step /\ ~Navigate
  <2>1. route' = route
    BY <1>4 DEF Step
  <2>2. CASE \E p \in Of("swr") : SwrFetch(p) \/ SwrMutate(p)
    BY <1>1, <1>3, <2>1, <2>2, SwrMoves
  <2>3. CASE \E p \in Of("query") :
               \/ QueryFetch(p) \/ QueryRefetch(p) \/ QueryStale(p) \/ QueryInvalidate(p)
               \/ QuerySetData(p) \/ QueryRemove(p) \/ QueryReset(p) \/ QueryCancel(p)
    BY <1>1, <1>3, <2>1, <2>3, QueryMoves
  <2>4. CASE \E p \in Of("mutation") : Mutate(p) \/ MutationReset(p)
    BY <1>1, <1>3, <2>1, <2>4, MutationMoves
  <2>5. CASE \E p \in Of("loader") : LoaderFetch(p)
    BY <1>1, <1>3, <2>1, <2>5, LoaderMoves
  <2>6. CASE \E p \in Of("action") : ActionInvoke(p)
    BY <1>1, <1>3, <2>1, <2>6, ActionMoves
  <2>7. CASE \E p \in Of("cache") : CacheStale(p) \/ CacheRevalidate(p)
    BY <1>1, <1>3, <2>1, <2>7, CacheMoves
  <2>8. CASE \E p \in Of("handler") : HandlerStart(p)
    BY <1>1, <1>3, <2>1, <2>8, HandlerMoves
  <2>9. CASE \E p \in Of("callback") : CallbackStart(p)
    BY <1>1, <1>3, <2>1, <2>9, CallbackMoves
  <2>10. CASE \E p \in Of("chain") : ChainStart(p)
    BY <1>1, <1>3, <2>1, <2>10, ChainMoves
  <2>11. CASE \E p \in Of("transition") : TransitionStart(p)
    BY <1>1, <1>3, <2>1, <2>11, TransitionMoves
  <2>. QED  BY <1>4, <2>2, <2>3, <2>4, <2>5, <2>6, <2>7, <2>8, <2>9, <2>10, <2>11 DEF Step
<1>5. CASE Resolve
  <2>1. CASE \E p \in Of("handler") : HandlerSuccess(p)
    <3>1. PICK p \in Of("handler") : HandlerSuccess(p)
      BY <2>1
    <3>2. p \in app /\ p \in DOMAIN Part
      BY <1>1, PartFacts
    <3>3. route' \in Routes
      BY <1>1, <3>1, <3>2, PartAssumption DEF HandlerSuccess, Arrive
    <3>. QED  BY <1>1, <3>1, <3>2, <3>3, HandlerMoves
  <2>. SUFFICES ASSUME ~\E p \in Of("handler") : HandlerSuccess(p)
                PROVE  /\ app' = app /\ route' \in Routes
                       /\ UNCHANGED <<pending, view>> \/ \E p \in app : MovesSomehow(p)
    BY <2>1
  <2>0. route' = route
    BY <1>5 DEF Resolve
  <2>2. CASE \E p \in Of("swr") : SwrSuccess(p) \/ SwrError(p)
    BY <1>1, <1>3, <2>0, <2>2, SwrMoves
  <2>3. CASE \E p \in Of("query") : QuerySuccess(p) \/ QueryError(p)
    BY <1>1, <1>3, <2>0, <2>3, QueryMoves
  <2>4. CASE \E p \in Of("mutation") : MutationSuccess(p) \/ MutationError(p)
    BY <1>1, <1>3, <2>0, <2>4, MutationMoves
  <2>5. CASE \E p \in Of("loader") : LoaderSuccess(p) \/ LoaderError(p)
    BY <1>1, <1>3, <2>0, <2>5, LoaderMoves
  <2>6. CASE \E p \in Of("action") : ActionSuccess(p) \/ ActionError(p) \/ Revalidate(p)
    BY <1>1, <1>3, <2>0, <2>6, ActionMoves
  <2>7. CASE \E p \in Of("cache") : CacheSuccess(p) \/ CacheError(p)
    BY <1>1, <1>3, <2>0, <2>7, CacheMoves
  <2>8. CASE \E p \in Of("handler") : HandlerError(p)
    BY <1>1, <1>3, <2>0, <2>8, HandlerMoves
  <2>9. CASE \E p \in Of("callback") : CallbackAnswer(p)
    BY <1>1, <1>3, <2>0, <2>9, CallbackMoves
  <2>10. CASE \E p \in Of("chain") : ChainNext(p) \/ ChainJoin(p)
    BY <1>1, <1>3, <2>0, <2>10, ChainMoves
  <2>11. CASE \E p \in Of("transition") : TransitionCommit(p)
    BY <1>1, <1>3, <2>0, <2>11, TransitionMoves
  <2>. QED  BY <1>5, <2>2, <2>3, <2>4, <2>5, <2>6, <2>7, <2>8, <2>9, <2>10, <2>11
       DEF Resolve
<1>. QED  BY <1>1, <1>2, <1>4, <1>5

LEMMA NextInOrder ==
  ASSUME Inv, Next
  PROVE  \E k \in 0..Len(pending) :
           /\ OneAnswer(1, k)
           /\ IsPrefix(SubSeq(pending, k + 1, Len(pending)), pending')
<1>1. CASE UNCHANGED <<pending, view>>
  <2>1. pending \in Seq(Entries) /\ 0 \in 0..Len(pending) /\ <<>> \in Seq(Entries)
    BY DEF Inv
  <2>2. pending' = SubSeq(pending, 0 + 1, Len(pending)) \o <<>>
    BY <1>1, <2>1, SubSeqFull, ConcatEmptySeq
  <2>3. IsPrefix(SubSeq(pending, 0 + 1, Len(pending)), pending')
    BY <2>1, <2>2, QueueMoves
  <2>. QED  BY <2>1, <2>3 DEF OneAnswer
<1>2. CASE \E p \in app : MovesSomehow(p)
  BY <1>2, MoveInOrder
<1>. QED  BY <1>1, <1>2, NextMoves

LEMMA InvNext ==
  ASSUME Inv, [Next]_vars
  PROVE  Inv'
<1>1. CASE UNCHANGED vars
  BY <1>1 DEF vars, Inv, Entries, AskedFor
<1>2. CASE Next
  <2>1. app' = app /\ route' \in Routes
    BY <1>2, NextMoves
  <2>2. CASE UNCHANGED <<pending, view>>
    BY <2>1, <2>2 DEF Inv, Entries, AskedFor
  <2>3. CASE \E p \in app : MovesSomehow(p)
    BY <2>1, <2>3, MoveKeepsInv
  <2>. QED  BY <1>2, <2>2, <2>3, NextMoves
<1>. QED  BY <1>1, <1>2

LEMMA InvAlways == Spec => []Inv
<1>1. Init => Inv
  BY InvInit
<1>2. Inv /\ [Next]_vars => Inv'
  BY InvNext
<1>. QED  BY <1>1, <1>2, PTL DEF Spec

\* The queue never holds more than maxPending operations, all of the application.
THEOREM TypeCorrect == Spec => []TypeOK
<1>1. Inv => TypeOK
  BY InvImpliesProperties
<1>. QED  BY <1>1, InvAlways, PTL

\* What an application shows is consistent in every order of requests, answers,
\* mutations and resets, for any combination of parts.
THEOREM ViewsConsistent == Spec => []ViewIsConsistent
<1>1. Inv => ViewIsConsistent
  BY InvImpliesProperties
<1>. QED  BY <1>1, InvAlways, PTL

\* Operations are answered strictly in the order they were asked: a step takes
\* its answer from the head of the queue.
AnswersInOrder ==
    [][\E k \in 0..Len(pending) :
           /\ OneAnswer(1, k)
           /\ IsPrefix(SubSeq(pending, k + 1, Len(pending)), pending')]_vars

THEOREM AnswersKeepOrder == Spec => AnswersInOrder
<1>. DEFINE InOrder == \E k \in 0..Len(pending) :
                         /\ OneAnswer(1, k)
                         /\ IsPrefix(SubSeq(pending, k + 1, Len(pending)), pending')
<1>1. Inv /\ [Next]_vars => [InOrder]_vars
  BY NextInOrder
<1>2. Spec => [][InOrder]_vars
  BY <1>1, InvAlways, PTL DEF Spec
<1>. QED  BY <1>2 DEF AnswersInOrder

\* Only an answer takes operations out of the queue, no more than it answers, and
\* the others keep their order.
THEOREM NothingIsLost == Spec => NoneIsLost
<1>. DEFINE Kept == \E j \in 1..Len(pending) + 1, k \in 0..Len(pending) :
                      /\ OneAnswer(j, k) /\ j <= k + 1
                      /\ IsPrefix(SubSeq(pending, 1, j - 1) \o SubSeq(pending, k + 1, Len(pending)),
                                  pending')
<1>1. ASSUME Inv, Next PROVE Kept
  <2>1. PICK k \in 0..Len(pending) :
               OneAnswer(1, k) /\ IsPrefix(SubSeq(pending, k + 1, Len(pending)), pending')
    BY <1>1, NextInOrder
  <2>2. pending \in Seq(Entries) /\ 1 \in 1..Len(pending) + 1 /\ 1 <= k + 1
    BY <1>1 DEF Inv
  <2>3. PICK j : j = 1
    OBVIOUS
  <2>4. SubSeq(pending, 1, j - 1) = <<>>
    BY <2>3, SubSeqEmpty
  <2>5. SubSeq(pending, k + 1, Len(pending)) \in Seq(Entries)
    BY <2>2
  <2>6. SubSeq(pending, 1, j - 1) \o SubSeq(pending, k + 1, Len(pending))
          = SubSeq(pending, k + 1, Len(pending))
    BY <2>4, <2>5, ConcatEmptySeq
  <2>. QED  BY <2>1, <2>2, <2>3, <2>6
<1>2. Inv /\ [Next]_vars => [Kept]_vars
  BY <1>1
<1>3. Spec => [][Kept]_vars
  BY <1>2, InvAlways, PTL DEF Spec
<1>. QED  BY <1>3 DEF NoneIsLost
=============================================================================
