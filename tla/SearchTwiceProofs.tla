------------------------ MODULE SearchTwiceProofs -------------------------
(***************************************************************************)
(* Two runs of the search, of the same request and with any numbers of     *)
(* workers, give the same verdicts.                                        *)
(*                                                                         *)
(* The workers decide who stops when a limit is near, so the runs may stop *)
(* in different layers and with different edges. What they agree on is the *)
(* sequence of layers of the request: a run that stands at layer n has     *)
(* visited and decided what the layers before n say, and only a layer that *)
(* exceeds a limit, which both runs see in the same way, ends it early.    *)
(***************************************************************************)
EXTENDS SearchTwice, SearchProofs

-----------------------------------------------------------------------------
(* How the budget of a layer is used up. A worker stores stop only when the *)
(* edges of the layer exceed a limit, and if none does they do not.         *)

\* The next items of the chunks whose workers stand at a place in W, if they are edges.
NextOf(W) ==
  {i \in todo : IsEdge(i) /\ IsNext(ChunkOf(Entry(i)), i) /\ wpc[ChunkOf(Entry(i))] \in W}

Candidates(S) == {i \in S : Post(i) \notin visited}

Pending == {c \in DOMAIN wpc : wpc[c] = "candidate"}

\* Some edges of the layer exceed a limit.
Exceeds(E) ==
  \E S \in SUBSET E :
    /\ IsFiniteSet(S)
    /\ LimitExceeded(States + Cardinality(Candidates(S)), edgeCount + Cardinality(S), 0)

LayerOf(F) == {i \in Items(F) : IsEdge(i)}

\* The edges that have been pushed and those that are counted and not yet pushed have been
\* counted, and nothing else but an edge that a worker counted before it quit.
Counted ==
  pc = "expand" =>
    /\ todo \cap edges = {} /\ IsFiniteSet(frontier)
    /\ \A c \in DOMAIN wpc : wpc[c] = "counted" => \E i \in todo : IsEdge(i) /\ IsNext(c, i)
    /\ Cardinality(edges \cup NextOf({"counted"})) <= genEdges
    /\ genEdges <= Cardinality(edges \cup NextOf({"counted", "done"}))
    /\ genStates + Cardinality(Pending) <= Cardinality(Candidates(edges))
    /\ ~stop => genStates + Cardinality(Pending) = Cardinality(Candidates(edges))

\* While stop is not stored no check has failed, and only the last edge counted may still
\* have its check ahead.
Checked ==
  pc = "expand" =>
    /\ stop => Exceeds(LayerOf(frontier))
    /\ ~stop => /\ ~Over(req.maxStates, States + genStates)
                /\ ~Over(req.maxFrontier, 0)
                /\ Over(req.maxEdges, edgeCount + genEdges) =>
                     \E c \in DOMAIN wpc : wpc[c] = "counted" /\ mine[c] = genEdges

\* Items are ordered.
LEMMA ItemOrder ==
  ASSUME Typed, pc = "expand", NEW i \in todo, NEW j \in todo
  PROVE  ~(ItemLess(i, j) /\ ItemLess(j, i)) /\ ~ItemLess(i, i)
<1>1. /\ req \in Requests /\ frontier \subseteq State \X Nat
      /\ i \in Items(frontier) /\ j \in Items(frontier)
  BY DEF Typed, TypeOK
<1>2. /\ i[1] \in Nat /\ i[2] \in Nat /\ i[3] \in Nat /\ i[4] \in Nat
      /\ j[1] \in Nat /\ j[2] \in Nat /\ j[3] \in Nat /\ j[4] \in Nat
  BY <1>1, ItemTypes, StateAssumption, TransitionAssumption
<1>. QED  BY <1>2 DEF ItemLess, EntryLess, Entry

LEMMA OneNext ==
  ASSUME Typed, pc = "expand", NEW c, NEW i, NEW j, IsNext(c, i), IsNext(c, j)
  PROVE  i = j
BY ItemOrder DEF IsNext, Todo

LEMMA ImageFinite ==
  ASSUME NEW S, IsFiniteSet(S), NEW f, DOMAIN f = S
  PROVE  IsFiniteSet({f[x] : x \in S})
<1>. DEFINE T == {f[x] : x \in S}
            g == [x \in S |-> f[x]]
<1>1. g \in Surjection(S, T)
  BY DEF Surjection
<1>. QED  BY <1>1, FS_Surjection

\* The chunks are finitely many, and with them the items that are next.
LEMMA NextFinite ==
  ASSUME Budgeted, pc = "expand", IsFiniteSet(frontier), NEW W
  PROVE  IsFiniteSet(DOMAIN wpc) /\ IsFiniteSet(NextOf(W))
<1>1. DOMAIN wpc = Chunks
  BY DEF Budgeted, LayerInv
<1>2. IsFiniteSet(Chunks)
  <2>. DEFINE f == [e \in frontier |-> ChunkOf(e)]
  <2>1. DOMAIN f = frontier /\ {f[e] : e \in frontier} = Chunks
    BY DEF Chunks
  <2>. HIDE DEF f
  <2>. QED  BY <2>1, ImageFinite
<1>3. ASSUME NEW i \in todo
      PROVE  ChunkOf(Entry(i)) \in Chunks
  <2>1. i \in Items(frontier) /\ req \in Requests /\ frontier \subseteq State \X Nat
    BY DEF Budgeted, Typed, TypeOK
  <2>. QED  BY <2>1, ItemTypes DEF Chunks
<1>. DEFINE f == [i \in NextOf(W) |-> ChunkOf(Entry(i))]
<1>4. f \in Injection(NextOf(W), Chunks)
  <2>1. f \in [NextOf(W) -> Chunks]
    BY <1>3 DEF NextOf
  <2>2. ASSUME NEW i \in NextOf(W), NEW j \in NextOf(W), f[i] = f[j]
        PROVE  i = j
    BY <2>2, OneNext DEF NextOf, Budgeted
  <2>. QED  BY <2>1, <2>2 DEF Injection, IsInjective
<1>5. IsFiniteSet(NextOf(W))
  BY <1>2, <1>4, FS_Injection
<1>. QED  BY <1>1, <1>2, <1>5

\* A worker leaves the items of the other chunks alone.
LEMMA WorkerItems ==
  ASSUME Budgeted, NEW c \in DOMAIN wpc, Worker(c)
  PROVE  /\ \A e : ChunkOf(e)' = ChunkOf(e)
         /\ \A d : d # c => Todo(d)' = Todo(d)
         /\ todo' = todo \/ \E i \in todo : IsNext(c, i) /\ todo' = todo \ {i}
<1>1. UNCHANGED <<frontier, pool>>
  BY WorkerFrame
<1>2. \A e : ChunkOf(e)' = ChunkOf(e)
  BY <1>1 DEF ChunkOf, ChunkSize, Position, Workers
<1>3. todo' = todo \/ \E i \in todo : IsNext(c, i) /\ todo' = todo \ {i}
  BY DEF Worker, Exhaust, Abandon, Apply, CountEdge, StopOnEdge, DropEdge, PushEdge,
         CountCandidate, Quit
<1>4. \A d : d # c => Todo(d)' = Todo(d)
  <2>1. \A d : Todo(d)' = {i \in todo' : ChunkOf(Entry(i)) = d}
    BY <1>2 DEF Todo, Entry
  <2>. QED  BY <1>3, <2>1 DEF Todo, IsNext
<1>. QED  BY <1>2, <1>3, <1>4

\* Of the next items those of chunk c are at stake in a step of its worker.
LEMMA NextElsewhere ==
  ASSUME Budgeted, NEW c \in DOMAIN wpc, Worker(c), NEW W, NEW i, ChunkOf(Entry(i)) # c
  PROVE  i \in NextOf(W)' <=> i \in NextOf(W)
<1>. DEFINE d == ChunkOf(Entry(i))
<1>1. Todo(d)' = Todo(d) /\ ChunkOf(Entry(i))' = d
  BY WorkerItems DEF Entry
<1>2. i \in todo' <=> i \in todo
  BY WorkerItems DEF IsNext, Todo
<1>3. i \in todo => d \in DOMAIN wpc
  <2>1. /\ pc = "expand" /\ DOMAIN wpc = Chunks
        /\ todo \subseteq Items(frontier) /\ req \in Requests /\ frontier \subseteq State \X Nat
    BY WorkerFrame DEF Budgeted, LayerInv, Typed, TypeOK
  <2>. QED  BY <2>1, ItemTypes DEF Chunks
<1>4. i \in todo => wpc'[d] = wpc[d]
  BY <1>3, WorkerFrame
<1>5. IsNext(d, i)' <=> IsNext(d, i)
  BY <1>1 DEF IsNext, ItemLess, Entry, EntryLess
<1>. HIDE DEF d
<1>6. i \in NextOf(W) <=> i \in todo /\ IsEdge(i) /\ IsNext(d, i) /\ wpc[d] \in W
  BY DEF NextOf, d
<1>7. i \in NextOf(W)' <=> i \in todo' /\ IsEdge(i) /\ IsNext(d, i)' /\ wpc'[d] \in W
  BY <1>1 DEF NextOf, IsEdge, d
<1>. QED  BY <1>2, <1>4, <1>5, <1>6, <1>7

\* What is next in a chunk counts where its worker stands.
LEMMA NextHere ==
  ASSUME NEW c, NEW W, NEW i, ChunkOf(Entry(i)) = c
  PROVE  i \in NextOf(W) <=> i \in todo /\ IsEdge(i) /\ IsNext(c, i) /\ wpc[c] \in W
BY DEF NextOf

\* A worker counts an edge that was not counted before, or counts none.
NewlyCounted(c) ==
  \E i \in todo :
    /\ CountEdge(c, i) /\ i \notin edges \cup NextOf({"counted", "done"}) \cup NextOf({"counted"})
    /\ NextOf({"counted"})' \subseteq NextOf({"counted"}) \cup {i}
    /\ NextOf({"counted", "done"}) \cup {i} \subseteq NextOf({"counted", "done"})'

NoneCounted ==
  /\ genEdges' = genEdges
  /\ edges' \cup NextOf({"counted"})' \subseteq edges \cup NextOf({"counted"})
  /\ edges \cup NextOf({"counted", "done"}) \subseteq edges' \cup NextOf({"counted", "done"})'

LEMMA NextMoves ==
  ASSUME Budgeted, todo \cap edges = {}, NEW c \in DOMAIN wpc, Worker(c)
  PROVE  NewlyCounted(c) \/ NoneCounted
<1>. DEFINE One == {"counted"}
            Two == {"counted", "done"}
            Here(i) == ChunkOf(Entry(i)) = c
<1>0. /\ pc = "expand" /\ DOMAIN wpc' = DOMAIN wpc /\ Typed
      /\ wpc \in [DOMAIN wpc -> {"next", "counted", "candidate", "done"}]
  BY WorkerFrame DEF Budgeted, Typed, TypeOK
<1>1. \A i : ChunkOf(Entry(i))' = ChunkOf(Entry(i))
  BY WorkerItems DEF Entry
<1>2. \A W, i : ~Here(i) => (i \in NextOf(W)' <=> i \in NextOf(W))
  BY NextElsewhere
<1>3. \A W, i : Here(i) => (i \in NextOf(W) <=> i \in todo /\ IsEdge(i) /\ IsNext(c, i) /\ wpc[c] \in W)
  BY NextHere
<1>4. \A W, i : Here(i) =>
        (i \in NextOf(W)' <=> i \in todo' /\ IsEdge(i) /\ IsNext(c, i)' /\ wpc'[c] \in W)
  BY <1>1 DEF NextOf, IsEdge
<1>. HIDE DEF Here
<1>a. ASSUME genEdges' = genEdges, edges' = edges,
             wpc[c] \notin Two, wpc'[c] # "counted"
      PROVE  NoneCounted
  <2>1. \A i \in NextOf(One)' : i \in NextOf(One)
    BY <1>2, <1>4, <1>a
  <2>2. \A i \in NextOf(Two) : i \in NextOf(Two)'
    BY <1>2, <1>3, <1>a
  <2>. QED  BY <1>a, <2>1, <2>2 DEF NoneCounted
<1>5. CASE Exhaust(c) \/ Abandon(c)
  <2>1. wpc[c] = "next" /\ wpc'[c] = "done" /\ genEdges' = genEdges /\ edges' = edges
    BY <1>5 DEF Exhaust, Abandon, Quit, budget
  <2>. QED  BY <1>a, <2>1
<1>6. ASSUME NEW i \in todo, Apply(c, i)
      PROVE  NoneCounted
  <2>1. wpc[c] = "next" /\ wpc'[c] = "next" /\ genEdges' = genEdges /\ edges' = edges
    BY <1>6 DEF Apply, budget
  <2>. QED  BY <1>a, <2>1
<1>7. CASE CountCandidate(c)
  <2>1. /\ wpc[c] = "candidate" /\ wpc'[c] \in {"next", "done"}
        /\ genEdges' = genEdges /\ edges' = edges
    BY <1>0, <1>7 DEF CountCandidate
  <2>. QED  BY <1>a, <2>1
<1>8. CASE StopOnEdge(c) \/ DropEdge(c)
  <2>1. /\ wpc[c] = "counted" /\ wpc'[c] = "done" /\ todo' = todo
        /\ genEdges' = genEdges /\ edges' = edges
    BY <1>0, <1>8 DEF StopOnEdge, DropEdge, Quit, budget
  <2>2. \A i : IsNext(c, i)' <=> IsNext(c, i)
    <3>1. Todo(c)' = Todo(c)
      BY <1>1, <2>1 DEF Todo
    <3>. QED  BY <3>1 DEF IsNext, ItemLess, Entry, EntryLess
  <2>3. \A i \in NextOf(One)' : i \in NextOf(One)
    BY <1>2, <1>4, <2>1
  <2>4. \A i \in NextOf(Two) : i \in NextOf(Two)'
    BY <1>2, <1>3, <1>4, <2>1, <2>2
  <2>. QED  BY <2>1, <2>3, <2>4 DEF NoneCounted
<1>9. ASSUME NEW i \in todo, PushEdge(c, i)
      PROVE  NoneCounted
  <2>1. /\ wpc[c] = "counted" /\ wpc'[c] \in {"next", "candidate"}
        /\ genEdges' = genEdges /\ edges' = edges \cup {i} /\ IsNext(c, i) /\ IsEdge(i)
    BY <1>0, <1>9 DEF PushEdge, budget
  <2>2. i \in NextOf(One)
    BY <1>3, <2>1 DEF IsNext, Todo, Here
  <2>3. \A j \in NextOf(One)' : j \in NextOf(One)
    BY <1>2, <1>4, <2>1
  <2>4. \A j \in NextOf(Two) : Here(j) => j = i
    BY <1>0, <1>3, <2>1, OneNext
  <2>5. \A j \in NextOf(Two) : j = i \/ j \in NextOf(Two)'
    BY <1>2, <2>4
  <2>. QED  BY <2>1, <2>2, <2>3, <2>5 DEF NoneCounted
<1>10. ASSUME NEW i \in todo, CountEdge(c, i)
       PROVE  NewlyCounted(c)
  <2>1. /\ wpc[c] = "next" /\ wpc'[c] = "counted" /\ todo' = todo
        /\ edges' = edges /\ IsNext(c, i) /\ IsEdge(i) /\ Here(i)
    BY <1>0, <1>10 DEF CountEdge, IsNext, Todo, Here
  <2>2. \A j : IsNext(c, j)' <=> IsNext(c, j)
    <3>1. Todo(c)' = Todo(c)
      BY <1>1, <2>1 DEF Todo
    <3>. QED  BY <3>1 DEF IsNext, ItemLess, Entry, EntryLess
  <2>3. i \notin edges /\ i \notin NextOf(One) /\ i \notin NextOf(Two)
    BY <1>3, <2>1
  <2>4. \A j \in NextOf(One)' : j \in NextOf(One) \/ j = i
    BY <1>0, <1>2, <1>4, <2>1, <2>2, OneNext
  <2>5. \A j \in NextOf(Two) \cup {i} : j \in NextOf(Two)'
    BY <1>2, <1>3, <1>4, <2>1, <2>2
  <2>. QED  BY <1>10, <2>3, <2>4, <2>5 DEF NewlyCounted
<1>. QED  BY <1>5, <1>6, <1>7, <1>8, <1>9, <1>10 DEF Worker

\* The two bounds on the edges counted.
LEMMA WorkerCounts ==
  ASSUME Budgeted, Budgeted', Counted, NEW c \in DOMAIN wpc, Worker(c)
  PROVE  /\ Cardinality(edges' \cup NextOf({"counted"})') <= genEdges'
         /\ genEdges' <= Cardinality(edges' \cup NextOf({"counted", "done"})')
<1>. DEFINE A == edges \cup NextOf({"counted"})
            B == edges \cup NextOf({"counted", "done"})
<1>1. /\ pc = "expand" /\ pc' = "expand" /\ frontier' = frontier /\ IsFiniteSet(frontier)
      /\ todo \cap edges = {} /\ genEdges \in Nat
      /\ Cardinality(A) <= genEdges /\ genEdges <= Cardinality(B)
  BY WorkerFrame DEF Counted, Budgeted, Typed, TypeOK
<1>2. /\ IsFiniteSet(edges) /\ IsFiniteSet(edges')
      /\ IsFiniteSet(NextOf({"counted"})) /\ IsFiniteSet(NextOf({"counted", "done"}))
  BY <1>1, NextFinite DEF Budgeted, Typed
<1>3. IsFiniteSet(NextOf({"counted"})') /\ IsFiniteSet(NextOf({"counted", "done"})')
  <2>. DEFINE One == {"counted"}
              Two == {"counted", "done"}
  <2>. SUFFICES IsFiniteSet(NextOf(One)') /\ IsFiniteSet(NextOf(Two)')
    OBVIOUS
  <2>1. DOMAIN wpc' = DOMAIN wpc /\ IsFiniteSet(DOMAIN wpc)
    BY <1>1, WorkerFrame, NextFinite
  <2>2. \A W : \A i \in NextOf(W)' : i \in NextOf(W) \/ (i \in NextOf(W)' /\ ChunkOf(Entry(i)) = c)
    BY NextElsewhere
  <2>3. \A W : \A i, j \in NextOf(W)' : ChunkOf(Entry(i)) = c /\ ChunkOf(Entry(j)) = c => i = j
    <3>1. \A i \in todo' : i \in todo
      BY WorkerFrame
    <3>2. \A i : ChunkOf(Entry(i))' = ChunkOf(Entry(i))
      BY WorkerItems DEF Entry
    <3>3. \A W : \A i \in NextOf(W)' : ChunkOf(Entry(i)) = c => i \in todo /\ IsNext(c, i)'
      BY <3>1, <3>2 DEF NextOf
    <3>4. \A i, j \in todo : IsNext(c, i)' /\ IsNext(c, j)' => i = j
      BY <1>1, ItemOrder DEF IsNext, ItemLess, Entry, EntryLess, Todo, Budgeted
    <3>. QED  BY <3>3, <3>4
  <2>4. ASSUME NEW W, IsFiniteSet(NextOf(W))
        PROVE  IsFiniteSet(NextOf(W)')
    <3>1. PICK x : \A i \in NextOf(W)' : ChunkOf(Entry(i)) = c => i = x
      BY <2>3
    <3>2. NextOf(W)' \subseteq NextOf(W) \cup {x}
      BY <2>2, <3>1
    <3>3. IsFiniteSet(NextOf(W) \cup {x})
      BY <2>4, FS_AddElement
    <3>. QED  BY <3>2, <3>3, FS_Subset
  <2>. QED  BY <1>2, <2>4
<1>. DEFINE C == edges' \cup NextOf({"counted"})'
            D == edges' \cup NextOf({"counted", "done"})'
<1>4. IsFiniteSet(A) /\ IsFiniteSet(B) /\ IsFiniteSet(C) /\ IsFiniteSet(D)
  BY <1>2, <1>3, FS_Union
<1>5. Cardinality(A) \in Nat /\ Cardinality(B) \in Nat
  BY <1>4, FS_CardinalityType
<1>5a. Cardinality(C) \in Nat /\ Cardinality(D) \in Nat
  BY <1>4, FS_CardinalityType
<1>6. CASE NoneCounted
  <2>1. C \subseteq A /\ B \subseteq D /\ genEdges' = genEdges
    BY <1>6 DEF NoneCounted
  <2>. HIDE DEF A, B, C, D
  <2>2. Cardinality(C) <= Cardinality(A) /\ Cardinality(B) <= Cardinality(D)
    BY <1>4, <2>1, FS_Subset
  <2>3. Cardinality(C) <= genEdges' /\ genEdges' <= Cardinality(D)
    BY <1>1, <1>5, <1>5a, <2>1, <2>2
  <2>. QED  BY <2>3 DEF C, D
<1>7. CASE NewlyCounted(c)
  <2>1. PICK i \in todo :
          /\ CountEdge(c, i) /\ i \notin A /\ i \notin B
          /\ C \subseteq A \cup {i} /\ B \cup {i} \subseteq D
    BY <1>7 DEF NewlyCounted, CountEdge
  <2>2. genEdges' = genEdges + 1
    BY <2>1 DEF CountEdge
  <2>. HIDE DEF A, B, C, D
  <2>3. /\ IsFiniteSet(A \cup {i}) /\ Cardinality(A \cup {i}) = Cardinality(A) + 1
        /\ Cardinality(B \cup {i}) = Cardinality(B) + 1
    BY <1>4, <2>1, FS_AddElement
  <2>4. Cardinality(C) <= Cardinality(A \cup {i}) /\ Cardinality(B \cup {i}) <= Cardinality(D)
    BY <1>4, <2>1, <2>3, FS_Subset
  <2>5. Cardinality(C) <= genEdges' /\ genEdges' <= Cardinality(D)
    BY <1>1, <1>5, <1>5a, <2>2, <2>3, <2>4
  <2>. QED  BY <2>5 DEF C, D
<1>. QED  BY <1>1, <1>6, <1>7, NextMoves DEF C, D

\* The candidates counted and those a worker has still to count are the pushed edges into
\* states that are not visited, unless a worker dropped some because of stop.
LEMMA WorkerPending ==
  ASSUME Budgeted, Budgeted', Counted, NEW c \in DOMAIN wpc, Worker(c)
  PROVE  /\ genStates' + Cardinality(Pending') <= Cardinality(Candidates(edges)')
         /\ ~stop' => genStates' + Cardinality(Pending') = Cardinality(Candidates(edges)')
<1>1. /\ pc = "expand" /\ visited' = visited /\ req' = req /\ DOMAIN wpc' = DOMAIN wpc
      /\ \A d \in DOMAIN wpc : d # c => wpc'[d] = wpc[d]
      /\ todo \cap edges = {} /\ genStates \in Nat /\ stop \in BOOLEAN
      /\ wpc \in [DOMAIN wpc -> {"next", "counted", "candidate", "done"}]
  BY WorkerFrame DEF Counted, Budgeted, Typed, TypeOK
<1>2. /\ genStates + Cardinality(Pending) <= Cardinality(Candidates(edges))
      /\ ~stop => genStates + Cardinality(Pending) = Cardinality(Candidates(edges))
  BY <1>1 DEF Counted
<1>3. IsFiniteSet(Pending) /\ IsFiniteSet(Candidates(edges)) /\ IsFiniteSet(edges)
  <2>1. IsFiniteSet(DOMAIN wpc) /\ IsFiniteSet(edges)
    BY <1>1, NextFinite DEF Counted, Budgeted, Typed
  <2>. QED  BY <2>1, FS_Subset DEF Pending, Candidates
<1>4. Cardinality(Pending) \in Nat /\ Cardinality(Candidates(edges)) \in Nat
  BY <1>3, FS_CardinalityType
<1>5. Candidates(edges)' = Candidates(edges')
  BY <1>1 DEF Candidates, Post, Posts
<1>6. ASSUME genStates' = genStates, edges' = edges, stop' = stop \/ stop' = TRUE,
             wpc[c] # "candidate", wpc'[c] # "candidate"
      PROVE  /\ genStates' + Cardinality(Pending') <= Cardinality(Candidates(edges'))
             /\ ~stop' => genStates' + Cardinality(Pending') = Cardinality(Candidates(edges'))
  <2>1. Pending' = Pending
    BY <1>1, <1>6 DEF Pending
  <2>. QED  BY <1>2, <1>6, <2>1
<1>7. CASE Exhaust(c) \/ Abandon(c) \/ StopOnEdge(c) \/ DropEdge(c)
  <2>1. /\ wpc[c] \in {"next", "counted"} /\ wpc'[c] = "done" /\ genStates' = genStates
        /\ edges' = edges /\ (stop' = stop \/ stop' = TRUE)
    BY <1>7 DEF Exhaust, Abandon, StopOnEdge, DropEdge, Quit, budget
  <2>. QED  BY <1>5, <1>6, <2>1
<1>8. ASSUME NEW i \in todo, Apply(c, i) \/ CountEdge(c, i)
      PROVE  /\ genStates' + Cardinality(Pending') <= Cardinality(Candidates(edges'))
             /\ ~stop' => genStates' + Cardinality(Pending') = Cardinality(Candidates(edges'))
  <2>1. /\ wpc[c] = "next" /\ wpc'[c] \in {"next", "counted"} /\ genStates' = genStates
        /\ edges' = edges /\ stop' = stop
    BY <1>8 DEF Apply, CountEdge, budget
  <2>. QED  BY <1>6, <2>1
<1>9. ASSUME NEW i \in todo, PushEdge(c, i)
      PROVE  /\ genStates' + Cardinality(Pending') <= Cardinality(Candidates(edges'))
             /\ ~stop' => genStates' + Cardinality(Pending') = Cardinality(Candidates(edges'))
  <2>1. /\ wpc[c] = "counted" /\ genStates' = genStates /\ stop' = stop
        /\ edges' = edges \cup {i}
        /\ wpc' = [wpc EXCEPT ![c] = IF Post(i) \in visited THEN "next" ELSE "candidate"]
    BY <1>9 DEF PushEdge, budget
  <2>2. CASE Post(i) \in visited
    <3>1. Pending' = Pending
      BY <1>1, <2>1, <2>2 DEF Pending
    <3>2. Candidates(edges') = Candidates(edges)
      BY <2>1, <2>2 DEF Candidates
    <3>. QED  BY <1>2, <2>1, <3>1, <3>2
  <2>3. CASE Post(i) \notin visited
    <3>1. Pending' = Pending \cup {c} /\ c \notin Pending
      BY <1>1, <2>1, <2>3 DEF Pending
    <3>2. Candidates(edges') = Candidates(edges) \cup {i} /\ i \notin Candidates(edges)
      BY <1>1, <2>1, <2>3 DEF Candidates
    <3>3. /\ Cardinality(Pending') = Cardinality(Pending) + 1
          /\ Cardinality(Candidates(edges')) = Cardinality(Candidates(edges)) + 1
      BY <1>3, <3>1, <3>2, FS_AddElement
    <3>. QED  BY <1>1, <1>2, <1>4, <2>1, <3>3
  <2>. QED  BY <2>2, <2>3
<1>10. CASE CountCandidate(c)
  <2>1. /\ wpc[c] = "candidate" /\ edges' = edges /\ wpc'[c] # "candidate"
        /\ \/ genStates' = genStates /\ stop' = stop /\ stop
           \/ genStates' = genStates + 1 /\ (stop' = stop \/ stop' = TRUE)
    BY <1>1, <1>10 DEF CountCandidate, LoadStop
  <2>2. Pending' = Pending \ {c} /\ c \in Pending
    BY <1>1, <2>1 DEF Pending
  <2>3. Cardinality(Pending') = Cardinality(Pending) - 1
    BY <1>3, <2>2, FS_RemoveElement
  <2>. QED  BY <1>1, <1>2, <1>4, <1>5, <2>1, <2>3
<1>. QED  BY <1>5, <1>7, <1>8, <1>9, <1>10 DEF Worker

\* Counters that exceed a limit and are within what the layer has.
LEMMA ExceedsAt ==
  ASSUME Budgeted, Counted, pc = "expand", NEW a \in Nat, NEW b \in Nat,
         a <= Cardinality(Candidates(edges)),
         b <= Cardinality(edges \cup NextOf({"counted", "done"})),
         LimitExceeded(States + a, edgeCount + b, 0)
  PROVE  Exceeds(LayerOf(frontier))
<1>. DEFINE S == edges \cup NextOf({"counted", "done"})
<1>1. /\ req \in Requests /\ States \in Nat /\ edgeCount \in Nat /\ IsFiniteSet(edges)
      /\ IsFiniteSet(frontier)
  BY VisitedFinite DEF Budgeted, Typed, TypeOK, Counted
<1>2. IsFiniteSet(S)
  BY <1>1, NextFinite, FS_Union
<1>3. S \in SUBSET LayerOf(frontier)
  <2>1. edges \subseteq LayerOf(frontier) /\ todo \subseteq Items(frontier)
    BY DEF Budgeted, Typed, TypeOK, LayerOf
  <2>. QED  BY <2>1 DEF NextOf, LayerOf
<1>4. Candidates(edges) \subseteq Candidates(S) /\ IsFiniteSet(Candidates(S))
  BY <1>2, FS_Subset DEF Candidates
<1>5. Cardinality(Candidates(edges)) <= Cardinality(Candidates(S))
  BY <1>4, FS_Subset
<1>6. Cardinality(Candidates(S)) \in Nat /\ Cardinality(S) \in Nat
      /\ Cardinality(Candidates(edges)) \in Nat
  BY <1>1, <1>2, <1>4, FS_CardinalityType, FS_Subset
<1>7. /\ States + a \in Nat /\ edgeCount + b \in Nat
      /\ States + Cardinality(Candidates(S)) \in Nat /\ edgeCount + Cardinality(S) \in Nat
      /\ States + a <= States + Cardinality(Candidates(S))
      /\ edgeCount + b <= edgeCount + Cardinality(S)
  <2>. HIDE DEF S
  <2>1. b <= Cardinality(S)
    BY DEF S
  <2>. QED  BY <1>1, <1>5, <1>6, <2>1
<1>8. LimitExceeded(States + Cardinality(Candidates(S)), edgeCount + Cardinality(S), 0)
  BY <1>1, <1>7, LimitMonotone
<1>. HIDE DEF S
<1>. QED  BY <1>2, <1>3, <1>8 DEF Exceeds

LEMMA WorkerChecked ==
  ASSUME Budgeted, Counted, Checked, NEW c \in DOMAIN wpc, Worker(c)
  PROVE  Checked'
<1>1. /\ pc = "expand" /\ UNCHANGED <<req, visited, frontier, edgeCount>>
      /\ DOMAIN wpc' = DOMAIN wpc
      /\ \A d \in DOMAIN wpc : d # c => wpc'[d] = wpc[d] /\ mine'[d] = mine[d]
  BY WorkerFrame
<1>2. /\ wpc \in [DOMAIN wpc -> {"next", "counted", "candidate", "done"}]
      /\ mine \in [DOMAIN wpc -> Nat] /\ genEdges \in Nat /\ genStates \in Nat
      /\ edgeCount \in Nat /\ States \in Nat /\ stop \in BOOLEAN /\ req \in Requests
      /\ mine[c] \in Nat /\ mine[c] <= genEdges
  BY <1>1, VisitedFinite DEF Budgeted, Typed, TypeOK, LayerInv
<1>3. stop => stop'
  BY WorkerBudget
<1>4. Exceeds(LayerOf(frontier))' <=> Exceeds(LayerOf(frontier))
  BY <1>1 DEF Exceeds, LayerOf, Items, IsEdge, Posts, Candidates, Post, States, LimitExceeded, Over
<1>5. ASSUME ~stop, stop'
      PROVE  Exceeds(LayerOf(frontier))
  <2>1. Cardinality(Pending) \in Nat /\ Cardinality(Candidates(edges)) \in Nat
        /\ IsFiniteSet(Pending)
    <3>1. IsFiniteSet(Pending) /\ IsFiniteSet(Candidates(edges))
      <4>1. IsFiniteSet(DOMAIN wpc) /\ IsFiniteSet(edges)
        BY <1>1, NextFinite DEF Counted, Budgeted, Typed
      <4>. QED  BY <4>1, FS_Subset DEF Pending, Candidates
    <3>. QED  BY <3>1, FS_CardinalityType
  <2>2. /\ genStates + Cardinality(Pending) <= Cardinality(Candidates(edges))
        /\ genEdges <= Cardinality(edges \cup NextOf({"counted", "done"}))
    BY <1>1 DEF Counted
  <2>3. Cardinality(edges \cup NextOf({"counted", "done"})) \in Nat
    <3>1. IsFiniteSet(edges \cup NextOf({"counted", "done"}))
      BY <1>1, NextFinite, FS_Union DEF Counted, Budgeted, Typed
    <3>. QED  BY <3>1, FS_CardinalityType
  <2>4. CASE StopOnEdge(c)
    <3>1. PICK seen \in 0..genStates : LimitExceeded(States + seen, edgeCount + mine[c], 0)
      BY <2>4 DEF StopOnEdge
    <3>2. seen \in Nat /\ seen <= Cardinality(Candidates(edges))
      BY <1>2, <2>1, <2>2
    <3>3. mine[c] <= Cardinality(edges \cup NextOf({"counted", "done"}))
      BY <1>2, <2>2, <2>3
    <3>. QED  BY <1>1, <1>2, <3>1, <3>2, <3>3, ExceedsAt
  <2>5. CASE CountCandidate(c)
    <3>1. wpc[c] = "candidate" /\ Over(req.maxStates, States + genStates + 1)
      BY <1>5, <2>5 DEF CountCandidate, LoadStop
    <3>2. c \in Pending
      BY <3>1 DEF Pending
    <3>3. Cardinality(Pending) # 0
      BY <2>1, <3>2, FS_EmptySet
    <3>4. genStates + 1 \in Nat /\ genStates + 1 <= Cardinality(Candidates(edges))
          /\ States + (genStates + 1) = States + genStates + 1
      BY <1>2, <2>1, <2>2, <3>3
    <3>5. LimitExceeded(States + (genStates + 1), edgeCount + 0, 0)
      BY <3>1, <3>4 DEF LimitExceeded
    <3>6. 0 <= Cardinality(edges \cup NextOf({"counted", "done"}))
      BY <2>3
    <3>. QED  BY <1>1, <3>4, <3>5, <3>6, ExceedsAt
  <2>6. ASSUME stop' = stop
        PROVE  FALSE
    BY <1>5, <2>6
  <2>. QED  BY <2>4, <2>5, <2>6
            DEF Worker, Exhaust, Abandon, Apply, CountEdge, DropEdge, PushEdge, Quit, budget
<1>6. ASSUME ~stop'
      PROVE  /\ ~Over(req.maxStates, States + genStates')
             /\ ~Over(req.maxFrontier, 0)
             /\ Over(req.maxEdges, edgeCount + genEdges') =>
                  \E d \in DOMAIN wpc : wpc'[d] = "counted" /\ mine'[d] = genEdges'
  <2>0. /\ ~stop /\ ~Over(req.maxStates, States + genStates) /\ ~Over(req.maxFrontier, 0)
        /\ Over(req.maxEdges, edgeCount + genEdges) =>
             \E d \in DOMAIN wpc : wpc[d] = "counted" /\ mine[d] = genEdges
        /\ TRUE \notin LoadStop
    BY <1>1, <1>3, <1>6 DEF Checked, LoadStop
  <2>1. CASE genStates' = genStates /\ genEdges' = genEdges /\ wpc[c] # "counted" /\ mine' = mine
    BY <1>1, <2>0, <2>1
  <2>2. CASE Exhaust(c) \/ Abandon(c) \/ StopOnEdge(c) \/ DropEdge(c)
    <3>1. genStates' = genStates /\ genEdges' = genEdges /\ wpc[c] = "next" /\ mine' = mine
      BY <1>6, <2>0, <2>2 DEF Exhaust, Abandon, StopOnEdge, DropEdge, Quit, budget
    <3>. QED  BY <2>1, <3>1
  <2>3. ASSUME NEW i \in todo, Apply(c, i)
        PROVE  genStates' = genStates /\ genEdges' = genEdges /\ wpc[c] = "next" /\ mine' = mine
    BY <2>3 DEF Apply, budget
  <2>4. ASSUME NEW i \in todo, CountEdge(c, i)
        PROVE  genStates' = genStates /\ wpc'[c] = "counted" /\ mine'[c] = genEdges'
    BY <1>2, <2>4 DEF CountEdge
  <2>5. CASE CountCandidate(c)
    <3>1. /\ wpc[c] = "candidate" /\ genEdges' = genEdges /\ mine' = mine
          /\ genStates' = genStates + 1
          /\ ~Over(req.maxStates, States + genStates + 1)
      BY <1>6, <2>0, <2>5 DEF CountCandidate
    <3>2. ~Over(req.maxStates, States + genStates')
      <4>1. States + genStates' = States + genStates + 1
        BY <1>2, <3>1
      <4>. QED  BY <3>1, <4>1
    <3>. QED  BY <1>1, <2>0, <3>1, <3>2
  <2>6. ASSUME NEW i \in todo, PushEdge(c, i)
        PROVE  /\ genStates' = genStates
               /\ Over(req.maxEdges, edgeCount + genEdges') =>
                    \E d \in DOMAIN wpc : wpc'[d] = "counted" /\ mine'[d] = genEdges'
    <3>1. /\ genStates' = genStates /\ genEdges' = genEdges /\ mine' = mine
          /\ ~Over(req.maxEdges, edgeCount + mine[c])
      BY <2>6 DEF PushEdge, budget, LimitExceeded
    <3>. QED  BY <1>1, <2>0, <3>1
  <2>. QED  BY <2>0, <2>1, <2>2, <2>3, <2>4, <2>5, <2>6 DEF Worker
<1>7. stop' => Exceeds(LayerOf(frontier))
  BY <1>1, <1>5 DEF Checked
<1>8. stop' => Exceeds(LayerOf(frontier))'
  BY <1>4, <1>7
<1>9. req' = req /\ States' = States /\ edgeCount' = edgeCount /\ DOMAIN wpc' = DOMAIN wpc
  BY <1>1 DEF States
<1>10. ~stop' => /\ ~Over(req'.maxStates, States' + genStates')
                 /\ ~Over(req'.maxFrontier, 0)
                 /\ Over(req'.maxEdges, edgeCount' + genEdges') =>
                      \E d \in DOMAIN wpc' : wpc'[d] = "counted" /\ mine'[d] = genEdges'
  BY <1>6, <1>9
<1>. QED  BY <1>8, <1>10 DEF Checked

Tally == Budgeted /\ IsFiniteSet(frontier) /\ Counted /\ Checked

LEMMA StartTally ==
  ASSUME Budgeted, IsFiniteSet(frontier), StartLayer
  PROVE  Counted' /\ Checked'
<1>1. /\ UNCHANGED <<req, visited, frontier, edgeCount>> /\ edges' = {}
      /\ wpc' = [c \in Chunks |-> "next"]
      /\ genEdges' = 0 /\ genStates' = 0 /\ stop' = FALSE
      /\ {} \in BoundaryLimits(States, edgeCount, Cardinality(frontier))
  BY DEF StartLayer, input, store
<1>2. NextOf({"counted"})' = {} /\ NextOf({"counted", "done"})' = {} /\ Pending' = {}
  <2>. DEFINE One == {"counted"}
              Two == {"counted", "done"}
  <2>1. \A W : {"next"} \cap W = {} => NextOf(W)' = {}
    <3>. SUFFICES ASSUME NEW W, NEW i \in NextOf(W)', "next" \notin W PROVE FALSE
      OBVIOUS
    <3>1. i \in Items(frontier) /\ ChunkOf(Entry(i))' = ChunkOf(Entry(i))
      BY <1>1 DEF NextOf, StartLayer, input, ChunkOf, ChunkSize, Position, Workers, Entry
    <3>2. ChunkOf(Entry(i)) \in Chunks
      BY <3>1, ItemTypes DEF Chunks, Budgeted, Typed, TypeOK
    <3>. QED  BY <1>1, <3>1, <3>2 DEF NextOf
  <2>2. NextOf(One)' = {} /\ NextOf(Two)' = {}
    BY <2>1
  <2>. QED  BY <1>1, <2>2 DEF Pending
<1>3. Candidates(edges)' = {}
  BY <1>1 DEF Candidates
<1>4. Counted'
  <2>1. \A c \in DOMAIN wpc' : wpc'[c] # "counted"
    BY <1>1
  <2>2. Cardinality({}) = 0 /\ {} \cup {} = {}
    BY FS_EmptySet
  <2>. QED  BY <1>1, <1>2, <1>3, <2>1, <2>2 DEF Counted
<1>5. ~LimitExceeded(States, edgeCount, Cardinality(frontier))
  BY <1>1 DEF BoundaryLimits, Limit
<1>6. /\ States \in Nat /\ edgeCount \in Nat /\ Cardinality(frontier) \in Nat
      /\ req.maxFrontier \subseteq Nat
  BY VisitedFinite, FS_CardinalityType, RequestFields DEF Budgeted, Typed, TypeOK, Option
<1>7. ~Over(req.maxStates, States) /\ ~Over(req.maxEdges, edgeCount) /\ ~Over(req.maxFrontier, 0)
  BY <1>5, <1>6 DEF LimitExceeded, Over
<1>8. States' = States /\ States + 0 = States /\ edgeCount + 0 = edgeCount
  BY <1>1, <1>6 DEF States
<1>. QED  BY <1>1, <1>4, <1>7, <1>8 DEF Checked

\* The frontier is finite: the seeds are a sequence and the new states are states.
LEMMA FrontierStaysFinite ==
  ASSUME Budgeted, IsFiniteSet(frontier), [Next]_vars
  PROVE  IsFiniteSet(frontier')
<1>1. CASE Merge
  <2>. DEFINE f == [s \in Inserted |-> <<s, 1>>]
  <2>1. frontier' = {f[s] : s \in Inserted} /\ DOMAIN f = Inserted
    BY <1>1 DEF Merge
  <2>2. IsFiniteSet(Inserted)
    <3>1. Inserted \subseteq State
      BY <1>1, InsertedTypes DEF Budgeted, Merge
    <3>. QED  BY <3>1, StateAssumption, FS_Subset
  <2>. HIDE DEF f
  <2>. QED  BY <2>1, <2>2, ImageFinite
<1>2. CASE CloseLayer
  BY <1>2, FS_EmptySet DEF CloseLayer
<1>3. CASE frontier' = frontier
  BY <1>3
<1>. QED  BY <1>1, <1>2, <1>3, WorkerFrame
          DEF Next, Finished, vars, store, StopAtBoundary, StartLayer, Observe, Report

LEMMA NextTally == Tally /\ [Next]_vars => Tally'
<1>. SUFFICES ASSUME Tally, [Next]_vars PROVE Tally'
  OBVIOUS
<1>0. Budgeted' /\ IsFiniteSet(frontier')
  BY NextBudgeted, FrontierStaysFinite DEF Tally
<1>1. ASSUME NEW c \in DOMAIN wpc, Worker(c)
      PROVE  Counted' /\ Checked'
  <2>1. pc = "expand" /\ todo \cap edges = {}
    BY <1>1, WorkerFrame DEF Tally, Counted
  <2>2. /\ Cardinality(edges' \cup NextOf({"counted"})') <= genEdges'
        /\ genEdges' <= Cardinality(edges' \cup NextOf({"counted", "done"})')
        /\ genStates' + Cardinality(Pending') <= Cardinality(Candidates(edges)')
        /\ ~stop' => genStates' + Cardinality(Pending') = Cardinality(Candidates(edges)')
        /\ Checked'
    BY <1>0, <1>1, WorkerCounts, WorkerPending, WorkerChecked DEF Tally
  <2>3. todo' \cap edges' = {}
    <3>1. CASE \E i \in todo : PushEdge(c, i)
      BY <2>1, <3>1 DEF PushEdge
    <3>2. CASE ~\E i \in todo : PushEdge(c, i)
      <4>1. todo' \subseteq todo /\ edges' = edges
        BY <1>1, <3>2, WorkerFrame DEF Worker, Exhaust, Abandon, Apply, CountEdge, StopOnEdge,
                                       DropEdge, CountCandidate, Quit
      <4>. QED  BY <2>1, <4>1
    <3>. QED  BY <3>1, <3>2
  <2>4. ASSUME NEW d \in DOMAIN wpc', wpc'[d] = "counted"
        PROVE  \E i \in todo' : IsEdge(i) /\ IsNext(d, i)'
    <3>0. d \in DOMAIN wpc /\ (d # c => wpc'[d] = wpc[d])
          /\ wpc \in [DOMAIN wpc -> {"next", "counted", "candidate", "done"}]
      BY <1>1, WorkerFrame DEF Tally, Budgeted, Typed, TypeOK
    <3>1. CASE d # c
      <4>1. PICK i \in todo : IsEdge(i) /\ IsNext(d, i)
        BY <2>1, <2>4, <3>0, <3>1 DEF Tally, Counted
      <4>2. Todo(d)' = Todo(d)
        BY <1>1, <3>1, WorkerItems DEF Tally
      <4>3. IsNext(d, i)'
        BY <4>1, <4>2 DEF IsNext, ItemLess, Entry, EntryLess
      <4>. QED  BY <4>1, <4>3 DEF IsNext, Todo
    <3>2. CASE d = c
      <4>1. \E i \in todo : CountEdge(c, i)
        BY <1>1, <2>4, <3>0, <3>2 DEF Worker, Exhaust, Abandon, Apply, StopOnEdge, DropEdge, PushEdge,
                                      CountCandidate, Quit
      <4>2. PICK i \in todo : IsEdge(i) /\ IsNext(c, i) /\ todo' = todo
        BY <4>1 DEF CountEdge
      <4>3. Todo(c)' = Todo(c)
        <5>1. \A e : ChunkOf(e)' = ChunkOf(e)
          BY <1>1, WorkerItems DEF Tally
        <5>. QED  BY <4>2, <5>1 DEF Todo, Entry
      <4>4. IsNext(c, i)'
        BY <4>2, <4>3 DEF IsNext, ItemLess, Entry, EntryLess
      <4>. QED  BY <3>2, <4>2, <4>4
    <3>. QED  BY <3>1, <3>2
  <2>5. \A i : IsEdge(i)' = IsEdge(i)
    BY DEF IsEdge
  <2>. QED  BY <1>0, <2>2, <2>3, <2>4, <2>5 DEF Counted
<1>2. CASE StartLayer
  BY <1>0, <1>2, StartTally DEF Tally
<1>3. CASE pc' # "expand"
  BY <1>0, <1>3 DEF Tally, Counted, Checked
<1>4. CASE UNCHANGED vars
  <2>0. UNCHANGED <<req, pool, pc, visited, frontier, edgeCount, wpc, todo, mine, edges, genEdges,
                    genStates, stop>>
    BY <1>4 DEF vars
  <2>1. \A c, i : IsNext(c, i)' <=> IsNext(c, i)
    BY <2>0 DEF IsNext, Todo, ChunkOf, ChunkSize, Position, Workers, Entry, ItemLess, EntryLess
  <2>2. /\ NextOf({"counted"})' = NextOf({"counted"})
        /\ NextOf({"counted", "done"})' = NextOf({"counted", "done"})
    <3>. DEFINE One == {"counted"}
                Two == {"counted", "done"}
    <3>1. \A e : ChunkOf(e)' = ChunkOf(e)
      BY <2>0 DEF ChunkOf, ChunkSize, Position, Workers
    <3>2. \A W : NextOf(W)' = NextOf(W)
      BY <2>0, <2>1, <3>1 DEF NextOf, IsEdge, Entry
    <3>3. NextOf(One)' = NextOf(One) /\ NextOf(Two)' = NextOf(Two)
      BY <3>2
    <3>. QED  BY <3>3
  <2>3. Pending' = Pending /\ Candidates(edges)' = Candidates(edges) /\ States' = States
    BY <2>0 DEF Pending, Candidates, Post, Posts, States
  <2>4. Counted'
    BY <2>0, <2>1, <2>2, <2>3 DEF Tally, Counted, IsEdge
  <2>5. Exceeds(LayerOf(frontier))' <=> Exceeds(LayerOf(frontier))
    BY <2>0 DEF Exceeds, LayerOf, Items, IsEdge, Posts, Candidates, Post, States, LimitExceeded, Over
  <2>6. Checked'
    BY <2>0, <2>3, <2>5 DEF Tally, Checked
  <2>. QED  BY <1>0, <2>4, <2>6 DEF Tally
<1>5. StopAtBoundary \/ Observe \/ CloseLayer \/ Merge \/ Report => pc' # "expand"
  BY DEF StopAtBoundary, Observe, CloseLayer, Merge, Report
<1>6. ASSUME NEW c \in DOMAIN wpc, Worker(c)
      PROVE  Tally'
  BY <1>0, <1>1, <1>6 DEF Tally
<1>. QED  BY <1>2, <1>3, <1>4, <1>5, <1>6 DEF Next, Finished

LEMMA InitTally == Init => Tally
<1>. SUFFICES ASSUME Init PROVE Tally
  OBVIOUS
<1>1. Budgeted /\ pc # "expand"
  BY InitBudgeted DEF Init
<1>2. IsFiniteSet(frontier)
  <2>. DEFINE n == Len(req.seeds)
              f == [i \in 1..n |-> <<req.seeds[i], Cardinality({j \in 1..i : req.seeds[j] = req.seeds[i]})>>]
  <2>1. req.seeds \in Seq(State) /\ n \in Nat /\ DOMAIN req.seeds = 1..n
    BY RequestFields DEF Init
  <2>2. frontier = {f[i] : i \in 1..n} /\ DOMAIN f = 1..n
    BY <2>1 DEF Init, SeedEntries
  <2>3. IsFiniteSet(1..n)
    BY <2>1, FS_Interval
  <2>. HIDE DEF f
  <2>. QED  BY <2>2, <2>3, ImageFinite
<1>. QED  BY <1>1, <1>2 DEF Tally, Counted, Checked

\* When all workers are done, a limit is reported iff some edges of the layer exceed it.
LEMMA CutIffExceeds ==
  ASSUME Tally, Observe
  PROVE  /\ BudgetLimit # {} <=> Exceeds(LayerOf(frontier))
         /\ BudgetLimit = {} => edges = LayerOf(frontier)
<1>1. /\ pc = "expand" /\ \A c \in DOMAIN wpc : wpc[c] = "done"
      /\ stop \in BOOLEAN /\ genEdges \in Nat /\ genStates \in Nat
      /\ edgeCount \in Nat /\ States \in Nat /\ req \in Requests /\ IsFiniteSet(edges)
  BY VisitedFinite DEF Observe, Tally, Budgeted, Typed, TypeOK, LayerInv
<1>2. stop <=> BudgetLimit # {}
  BY <1>1 DEF Tally, Budgeted, CutIsReported, BudgetLimit
<1>3. stop => Exceeds(LayerOf(frontier))
  BY <1>1 DEF Tally, Checked
<1>4. BudgetLimit = {} => edges = LayerOf(frontier)
  BY LayerComplete DEF Tally, LayerOf
<1>5. ASSUME ~stop, Exceeds(LayerOf(frontier))
      PROVE  FALSE
  <2>1. PICK S \in SUBSET edges :
          LimitExceeded(States + Cardinality(Candidates(S)), edgeCount + Cardinality(S), 0)
    BY <1>2, <1>4, <1>5 DEF Exceeds
  <2>2. Candidates(S) \subseteq Candidates(edges) /\ IsFiniteSet(Candidates(edges)) /\ IsFiniteSet(S)
    BY <1>1, FS_Subset DEF Candidates
  <2>3. /\ Cardinality(Candidates(S)) <= Cardinality(Candidates(edges))
        /\ Cardinality(S) <= Cardinality(edges)
    BY <1>1, <2>2, FS_Subset
  <2>4. /\ Cardinality(Candidates(S)) \in Nat /\ Cardinality(S) \in Nat
        /\ Cardinality(Candidates(edges)) \in Nat /\ Cardinality(edges) \in Nat
    BY <1>1, <2>2, FS_CardinalityType, FS_Subset
  <2>5. genStates = Cardinality(Candidates(edges))
    <3>1. Pending = {} /\ Cardinality({}) = 0
      BY <1>1, FS_EmptySet DEF Pending
    <3>. QED  BY <1>1, <1>5, <2>4, <3>1 DEF Tally, Counted
  <2>6. Cardinality(edges) <= genEdges
    <3>1. NextOf({"counted"}) = {}
      <4>1. todo = {}
        BY <1>2, <1>5, LayerComplete DEF Tally
      <4>. QED  BY <4>1 DEF NextOf
    <3>2. edges \cup {} = edges
      OBVIOUS
    <3>. QED  BY <1>1, <3>1, <3>2 DEF Tally, Counted
  <2>7. LimitExceeded(States + genStates, edgeCount + genEdges, 0)
    <3>1. /\ States + Cardinality(Candidates(S)) \in Nat /\ States + genStates \in Nat
          /\ edgeCount + Cardinality(S) \in Nat /\ edgeCount + genEdges \in Nat
          /\ States + Cardinality(Candidates(S)) <= States + genStates
          /\ edgeCount + Cardinality(S) <= edgeCount + genEdges
      BY <1>1, <2>3, <2>4, <2>5, <2>6
    <3>. QED  BY <1>1, <2>1, <3>1, LimitMonotone
  <2>8. ~LimitExceeded(States + genStates, edgeCount + genEdges, 0)
    BY <1>1, <1>5 DEF Tally, Checked, LimitExceeded
  <2>. QED  BY <2>7, <2>8
<1>. QED  BY <1>1, <1>2, <1>3, <1>4, <1>5

-----------------------------------------------------------------------------
(* The layers of a request. What a layer leaves behind depends on what it  *)
(* found and on nothing the workers decide.                                *)

DecidedWith(x, S) ==
  /\ req.always = {} /\ req.steps # {}
  /\ \A p \in req.steps : x[p] # {} \/ \E i \in S : EdgeOf(i) \in req.stepBad[p]

\* The search goes on from layer L, the k-th one.
Going(L, k) == L.frontier # {} /\ k < req.maxDepth /\ ~L.cut /\ ~AllFound(L.found)

\* Some edges of the layer exceed a limit.
ExceedsIn(L) ==
  \E S \in SUBSET LayerOf(L.frontier) :
    /\ IsFiniteSet(S)
    /\ LimitExceeded(Cardinality(L.visited) + Cardinality({i \in S : Post(i) \notin L.visited}),
                     L.edgeCount + Cardinality(S), 0)

UptoIn(E, i) == {j \in E : j = i \/ EdgeLess(j, i)}

HaltingIn(L) ==
  {i \in LayerOf(L.frontier) :
     \/ DecidedWith(L.found, UptoIn(LayerOf(L.frontier), i))
     \/ LimitExceeded(Cardinality(L.visited),
                      L.edgeCount + Cardinality(UptoIn(LayerOf(L.frontier), i)), 0)}

\* What is observed of the layer.
ObservedOf(L) ==
  IF ExceedsIn(L) THEN {}
  ELSE {i \in LayerOf(L.frontier) : \A j \in HaltingIn(L) : ~EdgeLess(j, i)}

FoundOf(L) ==
  [p \in req.steps |-> IF L.found[p] # {} THEN L.found[p] ELSE FirstBad(p, ObservedOf(L))]

CountOf(L) == L.edgeCount + Cardinality(ObservedOf(L))

CutOf(L) == ExceedsIn(L) \/ (HaltingIn(L) # {} /\ ~DecidedWith(L.found, ObservedOf(L)))

\* What is inserted of the new states.
NewOf(L) == {Post(i) : i \in LayerOf(L.frontier)} \ L.visited

RankOf(L, s) == Cardinality({t \in NewOf(L) : MergeLess(t, s)})

InsertedOf(L) ==
  {s \in NewOf(L) : ~LimitExceeded(Cardinality(L.visited) + RankOf(L, s), CountOf(L), RankOf(L, s))}

\* The layer after L.
Closed(L) ==
  [visited |-> L.visited, frontier |-> {}, edgeCount |-> CountOf(L), found |-> FoundOf(L),
   cut |-> CutOf(L) \/ LimitExceeded(Cardinality(L.visited), CountOf(L), 0)]

Merged(L) ==
  LET n == Cardinality(InsertedOf(L))
  IN  [visited |-> L.visited \cup InsertedOf(L), frontier |-> {<<s, 1>> : s \in InsertedOf(L)},
       edgeCount |-> CountOf(L), found |-> FoundOf(L),
       cut |-> InsertedOf(L) # NewOf(L) \/ LimitExceeded(Cardinality(L.visited) + n, CountOf(L), n)]

After(L) == IF CutOf(L) \/ AllFound(FoundOf(L)) THEN Closed(L) ELSE Merged(L)

\* The seeds, and whether a limit is exceeded before the first layer.
SeedLayer ==
  LET none == [p \in req.steps |-> {}]
  IN  [visited |-> SeedStates(req), frontier |-> SeedEntries(req), edgeCount |-> 0,
       found |-> none,
       cut |-> /\ SeedEntries(req) # {} /\ 0 < req.maxDepth /\ ~AllFound(none)
               /\ LimitExceeded(Cardinality(SeedStates(req)), 0, Cardinality(SeedEntries(req)))]

\* The first n layers after the seeds, none of them the last but perhaps the n-th.
LayerAt(t, k) == IF k = 0 THEN SeedLayer ELSE After(t[k - 1])

IsTrail(n, t) ==
  /\ t = [k \in 0..n |-> LayerAt(t, k)]
  /\ \A k \in 0..n : k < n => Going(t[k], k)

\* The layers are those of the request.
LEMMA Frozen ==
  ASSUME req' = req
  PROVE  /\ SeedLayer' = SeedLayer
         /\ \A L : After(L)' = After(L)
         /\ \A L, k : Going(L, k)' <=> Going(L, k)
         /\ \A F : LayerOf(F)' = LayerOf(F)
         /\ \A L : FoundOf(L)' = FoundOf(L) /\ CountOf(L)' = CountOf(L) /\ (CutOf(L)' <=> CutOf(L))
<1>1. /\ \A F : LayerOf(F)' = LayerOf(F)
      /\ \A i : Post(i)' = Post(i) /\ EdgeOf(i)' = EdgeOf(i)
  BY DEF LayerOf, Items, IsEdge, Post, Posts, EdgeOf
<1>2. \A a, b, c : LimitExceeded(a, b, c)' <=> LimitExceeded(a, b, c)
  BY DEF LimitExceeded, Over
<1>3. \A x : AllFound(x)' <=> AllFound(x)
  BY DEF AllFound
<1>4. \A x, S : DecidedWith(x, S)' <=> DecidedWith(x, S)
  BY <1>1 DEF DecidedWith
<1>5. \A i, j : EdgeLess(i, j)' <=> EdgeLess(i, j)
  BY <1>1 DEF EdgeLess, ItemLess, Entry, EntryLess, SortKeyLess
<1>6. \A s, t : MergeLess(s, t)' <=> MergeLess(s, t)
  BY DEF MergeLess
<1>7. \A p, S : FirstBad(p, S)' = FirstBad(p, S)
  BY <1>1 DEF FirstBad, First, SortKeyLess
<1>8. \A L : ExceedsIn(L)' <=> ExceedsIn(L)
  <2>. SUFFICES ASSUME NEW L PROVE ExceedsIn(L)' <=> ExceedsIn(L)
    OBVIOUS
  <2>1. \A S : {i \in S : Post(i)' \notin L.visited} = {i \in S : Post(i) \notin L.visited}
    BY <1>1
  <2>. QED  BY <1>1, <1>2, <2>1 DEF ExceedsIn
<1>9. \A E, i : UptoIn(E, i)' = UptoIn(E, i)
  BY <1>5 DEF UptoIn
<1>10. \A L : HaltingIn(L)' = HaltingIn(L)
  BY <1>1, <1>2, <1>4, <1>9 DEF HaltingIn
<1>11. \A L : ObservedOf(L)' = ObservedOf(L)
  BY <1>1, <1>5, <1>8, <1>10 DEF ObservedOf
<1>12. \A L : FoundOf(L)' = FoundOf(L) /\ CountOf(L)' = CountOf(L) /\ (CutOf(L)' <=> CutOf(L))
  BY <1>4, <1>7, <1>8, <1>10, <1>11 DEF FoundOf, CountOf, CutOf
<1>13. \A L : NewOf(L)' = NewOf(L)
  BY <1>1 DEF NewOf
<1>14. \A L : \A s : RankOf(L, s)' = RankOf(L, s)
  BY <1>6, <1>13 DEF RankOf
<1>15. \A L : InsertedOf(L)' = InsertedOf(L)
  BY <1>2, <1>12, <1>13, <1>14 DEF InsertedOf
<1>16. \A L : Closed(L)' = Closed(L) /\ Merged(L)' = Merged(L)
  BY <1>2, <1>12, <1>13, <1>15 DEF Closed, Merged
<1>17. \A L : After(L)' = After(L)
  BY <1>3, <1>12, <1>16 DEF After
<1>18. SeedLayer' = SeedLayer
  BY <1>2, <1>3 DEF SeedLayer
<1>. QED  BY <1>1, <1>3, <1>12, <1>17, <1>18 DEF Going

LEMMA TrailsStay ==
  ASSUME req' = req, NEW n, NEW t
  PROVE  IsTrail(n, t)' <=> IsTrail(n, t)
<1>1. \A k : LayerAt(t, k)' = LayerAt(t, k)
  BY Frozen DEF LayerAt
<1>. QED  BY <1>1, Frozen DEF IsTrail

\* One layer more.
LEMMA TrailGrows ==
  ASSUME NEW n \in Nat, NEW t, IsTrail(n, t), Going(t[n], n)
  PROVE  \E u : IsTrail(n + 1, u) /\ u[n + 1] = After(t[n])
<1>. DEFINE u == [k \in 0..n + 1 |-> IF k = n + 1 THEN After(t[n]) ELSE t[k]]
<1>1. \A k \in 0..n : u[k] = t[k] /\ t[k] = LayerAt(t, k)
  BY DEF IsTrail
<1>2. \A k \in 0..n + 1 : k # 0 => k - 1 \in 0..n
  OBVIOUS
<1>3. n + 1 # 0 /\ (n + 1) - 1 = n /\ n + 1 \in 0..n + 1 /\ u[n + 1] = After(t[n])
  OBVIOUS
<1>4. \A k \in 0..n + 1 : k = n + 1 \/ k \in 0..n
  OBVIOUS
<1>5. DOMAIN u = 0..n + 1
  OBVIOUS
<1>6. u = [k \in 0..n + 1 |-> u[k]]
  OBVIOUS
<1>. HIDE DEF u
<1>7. ASSUME NEW k \in 0..n + 1
      PROVE  u[k] = LayerAt(u, k)
  <2>1. k # 0 => u[k - 1] = t[k - 1]
    BY <1>1, <1>2
  <2>2. LayerAt(u, k) = LayerAt(t, k)
    BY <2>1 DEF LayerAt
  <2>3. CASE k = n + 1
    BY <1>3, <2>2, <2>3 DEF LayerAt
  <2>4. CASE k \in 0..n
    BY <1>1, <2>2, <2>4
  <2>. QED  BY <1>4, <2>3, <2>4
<1>8. ASSUME NEW k \in 0..n + 1, k < n + 1
      PROVE  Going(u[k], k)
  <2>1. k \in 0..n /\ (k = n \/ k < n)
    BY <1>8
  <2>. QED  BY <1>1, <2>1 DEF IsTrail
<1>9. IsTrail(n + 1, u)
  BY <1>6, <1>7, <1>8 DEF IsTrail
<1>. QED  BY <1>3, <1>9

\* Two trails to a last layer end in the same one.
LEMMA TrailsAgree ==
  ASSUME NEW n \in Nat, NEW t, IsTrail(n, t), ~Going(t[n], n),
         NEW m \in Nat, NEW u, IsTrail(m, u), ~Going(u[m], m)
  PROVE  n = m /\ t[n] = u[m]
<1>. DEFINE J == {k \in 0..n : k <= m => t[k] = u[k]}
<1>1. /\ \A k \in 0..n : t[k] = LayerAt(t, k) /\ (k < n => Going(t[k], k))
      /\ \A k \in 0..m : u[k] = LayerAt(u, k) /\ (k < m => Going(u[k], k))
  BY DEF IsTrail
<1>2. 0 \in J
  <2>1. 0 \in 0..n /\ 0 \in 0..m
    OBVIOUS
  <2>. QED  BY <1>1, <2>1 DEF LayerAt
<1>3. ASSUME NEW k \in 1..n, k - 1 \in J
      PROVE  k \in J
  <2>1. k \in 0..n /\ k # 0
    OBVIOUS
  <2>2. CASE k <= m
    <3>1. k - 1 <= m /\ k \in 0..m
      BY <2>2
    <3>2. t[k - 1] = u[k - 1]
      BY <1>3, <3>1
    <3>. QED  BY <1>1, <2>1, <3>1, <3>2 DEF LayerAt
  <2>3. CASE ~(k <= m)
    BY <2>1, <2>3
  <2>. QED  BY <2>2, <2>3
<1>4. 0..n \subseteq J
  <2>. HIDE DEF J
  <2>. QED  BY <1>2, <1>3, UpTo
<1>5. n \in 0..n /\ m \in 0..m /\ (n <= m => n \in 0..m) /\ (m <= n => m \in 0..n)
  OBVIOUS
<1>6. CASE n < m
  <2>1. t[n] = u[n] /\ Going(u[n], n)
    BY <1>1, <1>4, <1>5, <1>6
  <2>. QED  BY <2>1
<1>7. CASE m < n
  <2>1. t[m] = u[m] /\ Going(t[m], m)
    BY <1>1, <1>4, <1>5, <1>7
  <2>. QED  BY <2>1
<1>8. CASE n = m
  BY <1>4, <1>5, <1>8
<1>. QED  BY <1>6, <1>7, <1>8

-----------------------------------------------------------------------------
(* A run follows the layers of its request.                                *)

\* The search stands at layer L: before it, in it, behind its edges, or at its end.
Stands(L) ==
  /\ L.visited = visited /\ L.frontier = frontier
  /\ pc # "merge" => L.edgeCount = edgeCount /\ L.found = found
  /\ pc = "layer" =>
       (L.cut <=> \/ limit # {}
                  \/ MayExplore /\ LimitExceeded(States, edgeCount, Cardinality(frontier)))
  /\ pc = "expand" => Going(L, depth)
  /\ pc = "merge" =>
       /\ Going(L, depth) /\ edgeCount = CountOf(L) /\ found = FoundOf(L)
       /\ limit # {} <=> CutOf(L)
       /\ limit = {} => edges = LayerOf(frontier)
  /\ pc = "done" => ~Going(L, depth) /\ (L.cut <=> limit # {})

OnTrail == ~req.memoryGuard => \E t, L : IsTrail(depth, t) /\ L = t[depth] /\ Stands(L)

\* Without the memory guard a boundary is a limit iff one is exceeded.
LEMMA BoundaryExact ==
  ASSUME ~req.memoryGuard, NEW a, NEW b, NEW c, NEW l \in BoundaryLimits(a, b, c)
  PROVE  l # {} <=> LimitExceeded(a, b, c)
BY DEF BoundaryLimits, Limit

LEMMA TerminalIsFound == \A S : AllTerminal(S) <=> DecidedWith(found, S)
BY DEF AllTerminal, DecidedWith

\* What the coordinating thread observes of the layer.
LEMMA ObserveLayer ==
  ASSUME Tally, Observe, NEW L, Stands(L)
  PROVE  /\ Observed = ObservedOf(L) /\ (limit' # {} <=> CutOf(L))
         /\ found' = FoundOf(L) /\ edgeCount' = CountOf(L)
         /\ limit' = {} => edges = LayerOf(frontier)
<1>1. pc = "expand"
  BY DEF Observe
<1>2. L.visited = visited /\ L.frontier = frontier /\ L.edgeCount = edgeCount /\ L.found = found
  BY <1>1 DEF Stands
<1>3. BudgetLimit # {} <=> ExceedsIn(L)
  <2>1. Exceeds(LayerOf(frontier)) <=> ExceedsIn(L)
    BY <1>2 DEF Exceeds, ExceedsIn, Candidates, States
  <2>. QED  BY <2>1, CutIffExceeds
<1>4. ASSUME BudgetLimit = {}
      PROVE  edges = LayerOf(L.frontier) /\ Halting = HaltingIn(L)
  <2>1. edges = LayerOf(L.frontier)
    BY <1>2, <1>4, CutIffExceeds
  <2>2. \A i : Upto(i) = UptoIn(LayerOf(L.frontier), i)
    BY <2>1 DEF Upto, UptoIn
  <2>3. Halting = HaltingIn(L)
    BY <1>2, <2>1, <2>2, TerminalIsFound DEF Halting, Halts, HaltingIn, States
  <2>. QED  BY <2>1, <2>3
<1>5. Observed = ObservedOf(L)
  BY <1>3, <1>4 DEF Observed, ObservedOf
<1>6. limit' # {} <=> CutOf(L)
  <2>1. AllTerminal(Observed) <=> DecidedWith(L.found, ObservedOf(L))
    BY <1>2, <1>5, TerminalIsFound
  <2>2. limit' = IF BudgetLimit # {} THEN BudgetLimit
                 ELSE IF Halting = {} \/ AllTerminal(Observed) THEN {}
                 ELSE {LimitReason(States, edgeCount + Cardinality(Observed), 0)}
    BY DEF Observe
  <2>. QED  BY <1>3, <1>4, <2>1, <2>2 DEF CutOf
<1>7. found' = FoundOf(L) /\ edgeCount' = CountOf(L)
  <2>1. \A p : Recorded(p) = IF L.found[p] # {} THEN L.found[p] ELSE FirstBad(p, ObservedOf(L))
    BY <1>2, <1>5 DEF Recorded
  <2>2. found' = [p \in req.steps |-> Recorded(p)] /\ edgeCount' = edgeCount + Cardinality(Observed)
    BY DEF Observe
  <2>. QED  BY <1>2, <1>5, <2>1, <2>2 DEF FoundOf, CountOf
<1>8. limit' = {} => edges = LayerOf(frontier)
  <2>1. limit' = {} => BudgetLimit = {}
    BY DEF Observe
  <2>. QED  BY <1>2, <1>4, <2>1
<1>. QED  BY <1>5, <1>6, <1>7, <1>8

\* What the coordinating thread merges of it.
LEMMA MergeLayer ==
  ASSUME Typed, pc = "merge", limit = {}, NEW L, Stands(L)
  PROVE  NewStates = NewOf(L) /\ Inserted = InsertedOf(L)
<1>1. /\ L.visited = visited /\ L.frontier = frontier /\ edgeCount = CountOf(L)
      /\ edges = LayerOf(L.frontier)
  BY DEF Stands
<1>2. NewStates = NewOf(L)
  BY <1>1 DEF NewStates, NewOf
<1>3. \A s : Rank(s) = RankOf(L, s)
  BY <1>2 DEF Rank, RankOf
<1>. QED  BY <1>1, <1>2, <1>3 DEF Inserted, InsertedOf, States

\* The frontier of the next layer is as large as what was inserted.
LEMMA InsertedCounts ==
  ASSUME Typed, pc = "merge"
  PROVE  /\ Cardinality(visited \cup Inserted) = States + Cardinality(Inserted)
         /\ Cardinality({<<s, 1>> : s \in Inserted}) = Cardinality(Inserted)
         /\ Cardinality(Inserted) \in Nat
<1>1. Inserted \subseteq State /\ IsFiniteSet(visited) /\ States \in Nat
  BY InsertedTypes, VisitedFinite DEF Typed, TypeOK
<1>2. IsFiniteSet(Inserted)
  BY <1>1, StateAssumption, FS_Subset
<1>3. visited \cap Inserted = {}
  BY DEF Inserted, NewStates
<1>4. Cardinality(visited \cup Inserted) = States + Cardinality(Inserted)
  <2>1. Cardinality(Inserted) \in Nat /\ Cardinality({}) = 0
    BY <1>2, FS_CardinalityType, FS_EmptySet
  <2>2. Cardinality(visited \cup Inserted)
          = Cardinality(visited) + Cardinality(Inserted) - Cardinality(visited \cap Inserted)
    BY <1>1, <1>2, FS_Union
  <2>3. Cardinality(visited) \in Nat
    BY <1>1 DEF States
  <2>4. Cardinality(visited \cap Inserted) = 0
    BY <1>3, <2>1
  <2>5. \A x \in Nat, y \in Nat : x + y - 0 = x + y
    OBVIOUS
  <2>. QED  BY <2>1, <2>2, <2>3, <2>4, <2>5 DEF States
<1>5. Cardinality({<<s, 1>> : s \in Inserted}) = Cardinality(Inserted)
  <2>. DEFINE F == {<<s, 1>> : s \in Inserted}
              f == [s \in Inserted |-> <<s, 1>>]
  <2>1. f \in Surjection(Inserted, F)
    BY DEF Surjection
  <2>2. f \in Injection(Inserted, F)
    BY DEF Injection, IsInjective
  <2>. HIDE DEF f
  <2>. QED  BY <1>2, <2>1, <2>2, FS_Surjection
<1>. QED  BY <1>2, <1>4, <1>5, FS_CardinalityType

LEMMA MergeOnTrail ==
  ASSUME Typed, OnTrail, ~req.memoryGuard, Merge
  PROVE  OnTrail'
<1>1. /\ pc = "merge" /\ pc' = "layer" /\ limit = {} /\ ~AllTerminal({})
      /\ visited' = visited \cup Inserted /\ frontier' = {<<s, 1>> : s \in Inserted}
      /\ depth' = depth + 1 /\ edgeCount' = edgeCount /\ found' = found /\ req' = req
      /\ depth \in Nat
  BY DEF Merge, input, Typed, TypeOK
<1>2. PICK t, L : IsTrail(depth, t) /\ L = t[depth] /\ Stands(L)
  BY DEF OnTrail
<1>a. PICK k : k = depth
  OBVIOUS
<1>b. PICK n : n = Cardinality(Inserted)
  OBVIOUS
<1>3. Going(L, depth) /\ edgeCount = CountOf(L) /\ found = FoundOf(L) /\ ~CutOf(L) /\ L.visited = visited
  BY <1>1, <1>2 DEF Stands
<1>4. NewStates = NewOf(L) /\ Inserted = InsertedOf(L)
  BY <1>1, <1>2, MergeLayer
<1>5. After(L) = Merged(L)
  BY <1>1, <1>3, TerminalMapped DEF After
<1>6. PICK u : IsTrail(k + 1, u) /\ u[k + 1] = After(L)
  BY <1>1, <1>2, <1>3, <1>a, TrailGrows
<1>c. PICK M : M = Merged(L)
  OBVIOUS
<1>7. /\ M.visited = visited' /\ M.frontier = frontier'
      /\ M.edgeCount = edgeCount' /\ M.found = found'
      /\ M.cut <=> Inserted # NewStates \/ LimitExceeded(States + n, edgeCount, n)
  BY <1>1, <1>3, <1>4, <1>b, <1>c DEF Merged, States
<1>8. States' = States + n /\ Cardinality(frontier') = n
  BY <1>1, <1>b, InsertedCounts DEF States
<1>9. LimitExceeded(States, edgeCount, Cardinality(frontier))' <=> LimitExceeded(States + n, edgeCount, n)
  BY <1>1, <1>8 DEF LimitExceeded, Over
<1>10. limit' # {} <=> Inserted # NewStates \/ LimitExceeded(States + n, edgeCount, n)
  BY <1>b, BoundaryExact DEF Merge
<1>11. MayExplore' => limit' = {}
  BY DEF MayExplore
<1>12. Stands(M)'
  BY <1>1, <1>7, <1>9, <1>10, <1>11 DEF Stands
<1>13. IsTrail(k + 1, u)'
  BY <1>1, <1>6, TrailsStay
<1>. QED  BY <1>1, <1>5, <1>6, <1>12, <1>13, <1>a, <1>c DEF OnTrail

LEMMA CloseOnTrail ==
  ASSUME Typed, OnTrail, ~req.memoryGuard, CloseLayer
  PROVE  OnTrail'
<1>1. /\ pc = "merge" /\ pc' = "layer" /\ (limit # {} \/ AllTerminal({}))
      /\ visited' = visited /\ frontier' = {}
      /\ depth' = depth + 1 /\ edgeCount' = edgeCount /\ found' = found /\ req' = req
      /\ depth \in Nat
  BY DEF CloseLayer, input, Typed, TypeOK
<1>2. PICK t, L : IsTrail(depth, t) /\ L = t[depth] /\ Stands(L)
  BY DEF OnTrail
<1>a. PICK k : k = depth
  OBVIOUS
<1>3. /\ Going(L, depth) /\ edgeCount = CountOf(L) /\ found = FoundOf(L)
      /\ limit # {} <=> CutOf(L)
      /\ L.visited = visited
  BY <1>1, <1>2 DEF Stands
<1>5. After(L) = Closed(L)
  BY <1>1, <1>3, TerminalMapped DEF After
<1>6. PICK u : IsTrail(k + 1, u) /\ u[k + 1] = After(L)
  BY <1>1, <1>2, <1>3, <1>a, TrailGrows
<1>c. PICK M : M = Closed(L)
  OBVIOUS
<1>7. /\ M.visited = visited' /\ M.frontier = frontier'
      /\ M.edgeCount = edgeCount' /\ M.found = found'
      /\ M.cut <=> limit # {} \/ LimitExceeded(States, edgeCount, 0)
  BY <1>1, <1>3, <1>c DEF Closed, States
<1>10. limit' # {} <=> limit # {} \/ LimitExceeded(States, edgeCount, 0)
  BY BoundaryExact DEF CloseLayer
<1>11. ~MayExplore'
  BY <1>1 DEF MayExplore
<1>12. Stands(M)'
  BY <1>1, <1>7, <1>10, <1>11 DEF Stands
<1>13. IsTrail(k + 1, u)'
  BY <1>1, <1>6, TrailsStay
<1>. QED  BY <1>1, <1>5, <1>6, <1>12, <1>13, <1>a, <1>c DEF OnTrail

\* The remaining steps stay in their layer.
LEMMA StayOnTrail ==
  ASSUME Tally, OnTrail, ~req.memoryGuard, [Next]_vars, ~Merge, ~CloseLayer
  PROVE  OnTrail'
<1>1. PICK t, L : IsTrail(depth, t) /\ L = t[depth] /\ Stands(L)
  BY DEF OnTrail
<1>. SUFFICES req' = req /\ depth' = depth /\ Stands(L)'
  BY <1>1, TrailsStay DEF OnTrail
<1>2. CASE StopAtBoundary
  <2>1. /\ pc = "layer" /\ pc' = "layer" /\ MayExplore /\ limit' # {}
        /\ UNCHANGED <<req, depth, visited, frontier, edgeCount, found>>
    BY <1>2 DEF StopAtBoundary, input, store
  <2>2. LimitExceeded(States, edgeCount, Cardinality(frontier))
    BY <1>2, BoundaryExact DEF StopAtBoundary
  <2>. QED  BY <1>1, <2>1, <2>2 DEF Stands
<1>3. CASE StartLayer
  <2>1. /\ pc = "layer" /\ pc' = "expand" /\ MayExplore
        /\ UNCHANGED <<req, depth, visited, frontier, edgeCount, found>>
    BY <1>3 DEF StartLayer, input, store
  <2>2. ~LimitExceeded(States, edgeCount, Cardinality(frontier))
    BY <1>3, BoundaryExact DEF StartLayer
  <2>3. ~L.cut /\ L.frontier = frontier /\ L.found = found
    BY <1>1, <2>1, <2>2 DEF Stands, MayExplore
  <2>4. Going(L, depth)
    BY <2>1, <2>3, TerminalMapped DEF Going, MayExplore
  <2>5. Going(L, depth)'
    BY <2>1, <2>4, Frozen
  <2>. QED  BY <1>1, <2>1, <2>5 DEF Stands
<1>4. ASSUME NEW c \in DOMAIN wpc, Worker(c)
      PROVE  req' = req /\ depth' = depth /\ Stands(L)'
  <2>1. /\ pc = "expand" /\ pc' = "expand"
        /\ UNCHANGED <<req, depth, visited, frontier, edgeCount, found>>
    BY <1>4, WorkerFrame DEF Worker, Exhaust, Abandon, Apply, CountEdge, StopOnEdge, DropEdge, PushEdge,
                CountCandidate, WorkerUnchanged, input, store
  <2>2. Going(L, depth)'
    BY <1>1, <2>1, Frozen DEF Stands
  <2>. QED  BY <1>1, <2>1, <2>2 DEF Stands
<1>5. CASE Observe
  <2>1. /\ pc = "expand" /\ pc' = "merge"
        /\ UNCHANGED <<req, depth, visited, frontier, edges>>
    BY <1>5 DEF Observe, input, work
  <2>2. /\ limit' # {} <=> CutOf(L)
        /\ found' = FoundOf(L) /\ edgeCount' = CountOf(L)
        /\ limit' = {} => edges = LayerOf(frontier)
    BY <1>1, <1>5, ObserveLayer
  <2>3. /\ Going(L, depth)' /\ FoundOf(L)' = FoundOf(L) /\ CountOf(L)' = CountOf(L)
        /\ CutOf(L)' <=> CutOf(L)
        /\ LayerOf(frontier)' = LayerOf(frontier)
    BY <1>1, <2>1, Frozen DEF Stands
  <2>. QED  BY <1>1, <2>1, <2>2, <2>3 DEF Stands
<1>6. CASE Report
  <2>1. /\ pc = "layer" /\ pc' = "done" /\ ~MayExplore
        /\ UNCHANGED <<req, depth, visited, frontier, edgeCount, found, limit>>
    BY <1>6 DEF Report, input, store
  <2>2. (L.cut <=> limit # {}) /\ L.frontier = frontier /\ L.found = found
    BY <1>1, <2>1 DEF Stands
  <2>3. ~Going(L, depth)
    BY <2>1, <2>2, TerminalMapped DEF Going, MayExplore
  <2>4. ~Going(L, depth)'
    BY <2>1, <2>3, Frozen
  <2>. QED  BY <1>1, <2>1, <2>2, <2>4 DEF Stands
<1>7. CASE UNCHANGED vars
  <2>1. UNCHANGED <<req, depth, pc, visited, frontier, edgeCount, found, limit, edges>>
    BY <1>7 DEF vars
  <2>2. /\ Going(L, depth)' <=> Going(L, depth)
        /\ FoundOf(L)' = FoundOf(L) /\ CountOf(L)' = CountOf(L)
        /\ CutOf(L)' <=> CutOf(L)
        /\ LayerOf(frontier)' = LayerOf(frontier)
    BY <2>1, Frozen
  <2>3. /\ MayExplore' <=> MayExplore
        /\ LimitExceeded(States, edgeCount, Cardinality(frontier))'
             <=> LimitExceeded(States, edgeCount, Cardinality(frontier))
    BY <2>1 DEF MayExplore, AllTerminal, LimitExceeded, Over, States
  <2>. QED  BY <1>1, <2>1, <2>2, <2>3 DEF Stands
<1>. QED  BY <1>2, <1>3, <1>4, <1>5, <1>6, <1>7 DEF Next, Finished

LEMMA NextOnTrail == Tally /\ OnTrail /\ [Next]_vars => OnTrail'
<1>. SUFFICES ASSUME Tally, OnTrail, [Next]_vars, ~req'.memoryGuard PROVE OnTrail'
  BY DEF OnTrail
<1>1. req' = req
  BY WorkerFrame DEF Next, Finished, vars, StopAtBoundary, StartLayer, Observe, CloseLayer, Merge, Report, input
<1>. QED  BY <1>1, MergeOnTrail, CloseOnTrail, StayOnTrail DEF Tally, Budgeted

LEMMA InitOnTrail == Init => OnTrail
<1>. SUFFICES ASSUME Init PROVE OnTrail
  OBVIOUS
<1>. DEFINE t == [k \in 0..0 |-> SeedLayer]
<1>1. IsTrail(0, t)
  <2>1. \A k \in 0..0 : k = 0 /\ LayerAt(t, k) = SeedLayer
    BY DEF LayerAt
  <2>2. t = [k \in 0..0 |-> LayerAt(t, k)]
    BY <2>1
  <2>3. \A k \in 0..0 : ~(k < 0)
    OBVIOUS
  <2>. QED  BY <2>2, <2>3 DEF IsTrail
<1>2. t[0] = SeedLayer
  OBVIOUS
<1>3. found = [p \in req.steps |-> {}]
  BY DEF Init
<1>4. SeedLayer.cut <=> MayExplore /\ LimitExceeded(States, edgeCount, Cardinality(frontier))
  BY <1>3, TerminalMapped DEF Init, SeedLayer, MayExplore, States
<1>5. Stands(SeedLayer)
  BY <1>4 DEF Init, Stands, SeedLayer
<1>6. depth = 0
  BY DEF Init
<1>. QED  BY <1>1, <1>2, <1>5, <1>6 DEF OnTrail

-----------------------------------------------------------------------------
(* The rest of the report.                                                 *)

Enabled(S) == UNION {req.enabled[s] : s \in S}

\* The transitions reported as enabled are those of the states that were expanded, and in
\* the end those of all visited states.
Tried ==
  limit = {} =>
    /\ pc \in {"layer", "merge"} => enabledIds = Enabled(Expanded)
    /\ pc = "expand" => enabledIds = Enabled(Expanded) \cup {i[3] : i \in Applied}
    /\ pc = "done" => enabledIds = Enabled(visited)

Decreed == pc = "done" => verdict = [q \in req.steps \cup req.always |-> Status(q)]

LEMMA WorkerTried ==
  ASSUME Budgeted, Tried, NEW c \in DOMAIN wpc, Worker(c)
  PROVE  Tried'
<1>1. CASE \E j \in todo : Apply(c, j)
  <2>1. PICK j \in todo : Apply(c, j)
    BY <1>1
  <2>2. /\ pc = "expand" /\ pc' = "expand" /\ ~IsEdge(j) /\ todo' = todo \ {j}
        /\ UNCHANGED <<req, visited, frontier, limit>> /\ enabledIds' = enabledIds \cup {j[3]}
    BY <2>1 DEF Apply, WorkerUnchanged, input, store
  <2>3. Expanded' = Expanded /\ Enabled(Expanded)' = Enabled(Expanded)
    BY <2>2 DEF Expanded, FrontierStates, Enabled
  <2>4. Applied' = Applied \cup {j}
    <3>1. j \in Items(frontier) /\ Items(frontier)' = Items(frontier)
      BY <2>2 DEF Budgeted, Typed, TypeOK, Items, Posts
    <3>. QED  BY <2>2, <3>1 DEF Applied, IsEdge
  <2>. QED  BY <2>2, <2>3, <2>4 DEF Tried
<1>2. CASE ~\E j \in todo : Apply(c, j)
  <2>1. /\ pc = "expand" /\ pc' = "expand" /\ UNCHANGED <<req, visited, frontier, limit, enabledIds>>
        /\ todo' = todo \/ \E i \in todo : IsEdge(i) /\ todo' = todo \ {i}
    BY <1>2 DEF Worker, Exhaust, Abandon, CountEdge, StopOnEdge, DropEdge, PushEdge,
                CountCandidate, WorkerUnchanged, input, store, hits, Quit
  <2>2. Enabled(Expanded)' = Enabled(Expanded)
    BY <2>1 DEF Expanded, FrontierStates, Enabled
  <2>3. Applied' = Applied
    <3>1. Items(frontier)' = Items(frontier)
      BY <2>1 DEF Items, Posts
    <3>2. Applied' = {i \in Items(frontier) \ todo' : ~IsEdge(i)}
      BY <3>1 DEF Applied, IsEdge
    <3>. QED  BY <2>1, <3>2 DEF Applied
  <2>. QED  BY <2>1, <2>2, <2>3 DEF Tried
<1>. QED  BY <1>1, <1>2

LEMMA ObserveTried ==
  ASSUME Budgeted, Tried, Exploring, Observe
  PROVE  Tried'
<1>. SUFFICES ASSUME limit' = {} PROVE enabledIds' = Enabled(Expanded)'
  BY DEF Observe, Tried
<1>1. /\ pc = "expand" /\ pc' = "merge" /\ limit = {} /\ BudgetLimit = {}
      /\ UNCHANGED <<req, visited, frontier, enabledIds>>
      /\ frontier \subseteq State \X Nat /\ FrontierStates \subseteq visited /\ req \in Requests
  BY DEF Observe, Exploring, input, Budgeted, Typed, TypeOK
<1>2. todo = {}
  BY <1>1, LayerComplete
<1>3. {i[3] : i \in Applied} = Enabled(FrontierStates)
  <2>1. ASSUME NEW i \in Applied
        PROVE  i[3] \in Enabled(FrontierStates)
    BY <1>1, ItemTypes DEF Applied, Enabled
  <2>2. ASSUME NEW s \in FrontierStates, NEW t \in req.enabled[s]
        PROVE  \E i \in Applied : i[3] = t
    <3>1. PICK e \in frontier : e[1] = s
      BY DEF FrontierStates
    <3>2. t \in Transition
      BY <1>1, <3>1, RequestFields
    <3>. DEFINE i == <<e[1], e[2], t, 0>>
    <3>3. i \in Items(frontier) /\ ~IsEdge(i)
      BY <2>2, <3>1, <3>2, PostsAssumption DEF Items, IsEdge
    <3>. QED  BY <1>2, <3>3 DEF Applied
  <2>3. \A t \in Enabled(FrontierStates) : \E s \in FrontierStates : t \in req.enabled[s]
    BY DEF Enabled
  <2>. QED  BY <2>1, <2>2, <2>3
<1>4. Enabled(visited \ FrontierStates) \cup Enabled(FrontierStates) = Enabled(visited)
  BY <1>1 DEF Enabled
<1>5. Expanded = visited \ FrontierStates /\ Expanded' = visited
  BY <1>1 DEF Expanded
<1>6. Enabled(visited)' = Enabled(visited)
  BY <1>1 DEF Enabled
<1>7. enabledIds = Enabled(visited)
  BY <1>1, <1>3, <1>4, <1>5 DEF Tried
<1>. QED  BY <1>1, <1>5, <1>6, <1>7 DEF Enabled

LEMMA NextTried == Sound /\ Tried /\ [Next]_vars => Tried'
<1>. SUFFICES ASSUME Sound, Tried, [Next]_vars PROVE Tried'
  OBVIOUS
<1>1. CASE StopAtBoundary
  BY <1>1 DEF StopAtBoundary, Tried
<1>2. CASE StartLayer
  <2>1. /\ pc = "layer" /\ pc' = "expand" /\ todo' = Items(frontier)
        /\ UNCHANGED <<req, visited, frontier, limit, enabledIds>>
    BY <1>2 DEF StartLayer, input, store
  <2>2. Applied' = {} /\ Enabled(Expanded)' = Enabled(Expanded)
    BY <2>1 DEF Applied, Items, Posts, Expanded, FrontierStates, Enabled
  <2>. QED  BY <2>1, <2>2 DEF Tried
<1>3. CASE CloseLayer
  <2>1. /\ pc = "merge" /\ pc' = "layer" /\ frontier' = {}
        /\ UNCHANGED <<req, visited, enabledIds>> /\ (limit # {} => limit' = limit)
    BY <1>3 DEF CloseLayer, input
  <2>2. Enabled(Expanded)' = Enabled(Expanded)
    BY <2>1 DEF Expanded, FrontierStates, Enabled
  <2>. QED  BY <2>1, <2>2 DEF Tried
<1>4. CASE Merge
  <2>1. /\ pc = "merge" /\ pc' = "layer" /\ visited' = visited \cup Inserted
        /\ frontier' = {<<s, 1>> : s \in Inserted} /\ limit = {}
        /\ UNCHANGED <<req, enabledIds>>
    BY <1>4 DEF Merge, input
  <2>2. FrontierStates' = Inserted
    <3>1. \A s \in Inserted : <<s, 1>> \in frontier' /\ <<s, 1>>[1] = s
      BY <2>1
    <3>2. \A e \in frontier' : e[1] \in Inserted
      BY <2>1
    <3>. QED  BY <3>1, <3>2 DEF FrontierStates
  <2>3. Expanded' = visited /\ Expanded = visited
    BY <2>1, <2>2 DEF Expanded, Inserted, NewStates
  <2>. QED  BY <2>1, <2>3 DEF Tried, Enabled
<1>5. CASE Report
  <2>1. /\ pc = "layer" /\ pc' = "done"
        /\ UNCHANGED <<req, visited, frontier, limit>>
        /\ enabledIds' = enabledIds \cup UNION {req.enabled[e[1]] : e \in frontier}
        /\ FrontierStates \subseteq visited
    BY <1>5 DEF Report, input, store, Sound, Budgeted, Typed, TypeOK
  <2>2. UNION {req.enabled[e[1]] : e \in frontier} = Enabled(FrontierStates)
    BY DEF FrontierStates, Enabled
  <2>3. Expanded = visited \ FrontierStates
    BY <2>1 DEF Expanded
  <2>4. Enabled(visited \ FrontierStates) \cup Enabled(FrontierStates) = Enabled(visited)
    BY <2>1 DEF Enabled
  <2>5. Enabled(visited)' = Enabled(visited)
    BY <2>1 DEF Enabled
  <2>. QED  BY <2>1, <2>2, <2>3, <2>4, <2>5 DEF Tried
<1>6. CASE UNCHANGED vars
  <2>1. Enabled(Expanded)' = Enabled(Expanded) /\ Applied' = Applied
    BY <1>6 DEF vars, Expanded, FrontierStates, Enabled, Applied, Items, Posts, IsEdge
  <2>2. Enabled(visited)' = Enabled(visited)
    BY <1>6 DEF vars, Enabled
  <2>. QED  BY <1>6, <2>1, <2>2 DEF vars, Tried
<1>7. CASE Observe
  BY <1>7, ObserveTried DEF Observe, Sound, Explored
<1>. QED  BY <1>1, <1>2, <1>3, <1>4, <1>5, <1>6, <1>7, WorkerTried DEF Next, Finished, Sound

LEMMA NextDecreed == Decreed /\ [Next]_vars => Decreed'
<1>. SUFFICES ASSUME Decreed, [Next]_vars, pc' = "done" PROVE Decreed'
  BY DEF Decreed
<1>1. CASE Report
  <2>1. /\ UNCHANGED <<req, visited, frontier, limit, found>>
        /\ verdict' = [q \in req.steps \cup req.always |-> Status(q)]
    BY <1>1 DEF Report, input, store
  <2>2. \A q : Status(q)' = Status(q)
    BY <2>1 DEF Status
  <2>. QED  BY <2>1, <2>2 DEF Decreed
<1>2. CASE UNCHANGED vars
  <2>1. \A q : Status(q)' = Status(q)
    BY <1>2 DEF vars, Status
  <2>. QED  BY <1>2, <2>1 DEF vars, Decreed
<1>. QED  BY <1>1, <1>2, WorkerFrame DEF Next, Finished, StopAtBoundary, StartLayer, Observe,
          CloseLayer, Merge

-----------------------------------------------------------------------------
(* Two runs of one request.                                                *)

SeenIn(L) == {e[1] : e \in L.frontier}

StatusIn(L, q) ==
  IF q \in req.steps
  THEN IF L.found[q] # {} THEN "violated"
       ELSE IF L.cut THEN "error" ELSE "verified-within-bounds"
  ELSE IF L.cut THEN "error"
       ELSE IF L.visited \cap req.bad[q] # {} THEN "violated"
       ELSE IF L.frontier = {} THEN "verified" ELSE "verified-within-bounds"

\* r is the report of a run that ended at layer L.
ReportOf(r, L) ==
  /\ r.visited = L.visited /\ r.edgeCount = L.edgeCount /\ r.found = L.found
  /\ r.verdict = [q \in req.steps \cup req.always |-> StatusIn(L, q)]
  /\ r.limit = {} <=> ~L.cut
  /\ ~L.cut =>
       /\ r.enabledIds = Enabled(L.visited)
       /\ r.boundHits = Caps(L.visited \ SeenIn(L)) \cup {"maxDepth"} \X Enabled(SeenIn(L))

\* r is the report of a run that followed the layers of the request to the last one.
LastLayer(L) == \E n \in Nat : \E t : IsTrail(n, t) /\ L = t[n] /\ ~Going(L, n)

Reproduced(r) == \E L : LastLayer(L) /\ ReportOf(r, L)

FirstReproduced == ~req.memoryGuard => \A r \in first : Reproduced(r)

OneRun == Sound /\ Listed /\ Tried /\ Decreed /\ Tally /\ OnTrail

LEMMA NextOneRun == OneRun /\ [Next]_vars => OneRun'
BY NextExplored, NextListed, NextTried, NextDecreed, NextTally, NextOnTrail DEF OneRun

LEMMA InitOneRun == Init => OneRun
<1>. SUFFICES ASSUME Init PROVE OneRun
  OBVIOUS
<1>1. Expanded = {}
  BY SeedFrontier DEF Expanded, Init
<1>2. Tried /\ Decreed
  BY <1>1 DEF Init, Tried, Decreed, Enabled
<1>. QED  BY <1>2, InitSound, InitListed, InitTally, InitOnTrail DEF OneRun

LEMMA AgainOneRun == Init' => OneRun'
<1>1. Init => OneRun
  BY InitOneRun
<1>. QED  BY <1>1, PTL

\* There is one last layer.
LEMMA OneLastLayer ==
  ASSUME NEW L, NEW M, LastLayer(L), LastLayer(M)
  PROVE  L = M
<1>1. PICK n, t : n \in Nat /\ IsTrail(n, t) /\ L = t[n] /\ ~Going(L, n)
  BY DEF LastLayer
<1>2. PICK m, u : m \in Nat /\ IsTrail(m, u) /\ M = u[m] /\ ~Going(M, m)
  BY DEF LastLayer
<1>. QED  BY <1>1, <1>2, TrailsAgree

LEMMA ReproducedStays ==
  ASSUME req' = req, NEW r
  PROVE  Reproduced(r)' <=> Reproduced(r)
<1>1. \A n, t : IsTrail(n, t)' <=> IsTrail(n, t)
  BY TrailsStay
<1>2. \A L, n : Going(L, n)' <=> Going(L, n)
  BY Frozen
<1>3. \A L : LastLayer(L)' <=> LastLayer(L)
  BY <1>1, <1>2 DEF LastLayer
<1>4. \A L, q : StatusIn(L, q)' = StatusIn(L, q)
  BY DEF StatusIn
<1>5. \A S : Caps(S)' = Caps(S) /\ Enabled(S)' = Enabled(S)
  BY DEF Caps, Enabled
<1>6. \A L : SeenIn(L)' = SeenIn(L)
  BY DEF SeenIn
<1>7. \A L : ReportOf(r, L)' <=> ReportOf(r, L)
  BY <1>4, <1>5, <1>6 DEF ReportOf
<1>. QED  BY <1>3, <1>7 DEF Reproduced

\* What a run without the memory guard reports.
LEMMA DoneReported ==
  ASSUME OneRun, pc = "done", ~req.memoryGuard
  PROVE  Reproduced(Results)
<1>1. PICK t, L : IsTrail(depth, t) /\ L = t[depth] /\ Stands(L)
  BY DEF OneRun, OnTrail
<1>2. /\ L.visited = visited /\ L.frontier = frontier /\ L.edgeCount = edgeCount /\ L.found = found
      /\ ~Going(L, depth) /\ (L.cut <=> limit # {})
  BY <1>1 DEF Stands
<1>3. LastLayer(L)
  <2>1. depth \in Nat
    BY DEF OneRun, Tally, Budgeted, Typed, TypeOK
  <2>. QED  BY <1>1, <1>2, <2>1 DEF LastLayer
<1>4. SeenIn(L) = FrontierStates
  BY <1>2 DEF SeenIn, FrontierStates
<1>5. \A q : Status(q) = StatusIn(L, q)
  BY <1>2 DEF Status, StatusIn
<1>6. verdict = [q \in req.steps \cup req.always |-> StatusIn(L, q)]
  BY <1>5 DEF OneRun, Decreed
<1>7. ASSUME limit = {}
      PROVE  /\ enabledIds = Enabled(L.visited)
             /\ boundHits = Caps(L.visited \ SeenIn(L)) \cup {"maxDepth"} \X Enabled(SeenIn(L))
  <2>1. enabledIds = Enabled(visited)
    BY <1>7 DEF OneRun, Tried
  <2>2. BoundsThatBitAreListed
    BY <1>7 DEF OneRun, Listed
  <2>3. boundHits = Caps(visited \ FrontierStates)
                      \cup {"maxDepth"} \X UNION {req.enabled[s] : s \in FrontierStates}
    BY <1>7, <2>2 DEF BoundsThatBitAreListed, Caps
  <2>. QED  BY <1>2, <1>4, <2>1, <2>3 DEF Enabled
<1>8. ReportOf(Results, L)
  BY <1>2, <1>6, <1>7 DEF ReportOf, Results
<1>. QED  BY <1>3, <1>8 DEF Reproduced

LEMMA TwiceInitially == TwiceInit => OneRun /\ FirstReproduced
BY InitOneRun DEF TwiceInit, FirstReproduced

LEMMA NextTwice ==
  OneRun /\ FirstReproduced /\ [TwiceNext]_<<vars, first>> => (OneRun /\ FirstReproduced)'
<1>. SUFFICES ASSUME OneRun, FirstReproduced, [TwiceNext]_<<vars, first>>
              PROVE  (OneRun /\ FirstReproduced)'
  OBVIOUS
<1>1. CASE [Next]_vars /\ UNCHANGED first
  <2>1. req' = req
    BY <1>1, WorkerFrame DEF Next, Finished, vars, StopAtBoundary, StartLayer, Observe, CloseLayer,
                             Merge, Report, input
  <2>2. \A r : Reproduced(r)' <=> Reproduced(r)
    BY <2>1, ReproducedStays
  <2>. QED  BY <1>1, <2>1, <2>2, NextOneRun DEF FirstReproduced
<1>2. CASE Again
  <2>1. req' = req /\ pc = "done" /\ first' = {Results}
    BY <1>2 DEF Again
  <2>2. Init'
    <3>1. req \in Requests
      BY DEF OneRun, Sound, Budgeted, Typed, TypeOK
    <3>. QED  BY <1>2, <3>1 DEF Again, Init
  <2>3. PICK x : x = Results
    OBVIOUS
  <2>4. ~req.memoryGuard => Reproduced(x)
    BY <2>1, <2>3, DoneReported
  <2>5. Reproduced(x)' <=> Reproduced(x)
    BY <2>1, ReproducedStays
  <2>. QED  BY <2>1, <2>2, <2>3, <2>4, <2>5, AgainOneRun DEF FirstReproduced
<1>. QED  BY <1>1, <1>2 DEF TwiceNext, vars

\* Two runs of one request agree on what they report, whatever the numbers of workers and
\* their interleavings: each follows the layers of the request, and ends at the same one.
THEOREM VerdictsAreReproducible == TwiceSpec => []SameVerdicts
<1>1. OneRun /\ FirstReproduced => SameVerdicts
  <2>. SUFFICES ASSUME OneRun, FirstReproduced, pc = "done", ~req.memoryGuard, NEW r \in first
                PROVE  /\ r.verdict = verdict /\ r.found = found
                       /\ r.visited = visited /\ r.edgeCount = edgeCount
                       /\ r.limit = {} <=> limit = {}
                       /\ limit = {} => r.enabledIds = enabledIds /\ r.boundHits = boundHits
    BY DEF SameVerdicts
  <2>1. PICK L : LastLayer(L) /\ ReportOf(r, L)
    BY DEF FirstReproduced, Reproduced
  <2>2. PICK M : LastLayer(M) /\ ReportOf(Results, M)
    BY DoneReported DEF Reproduced
  <2>3. L = M
    BY <2>1, <2>2, OneLastLayer
  <2>4. /\ Results.visited = visited /\ Results.edgeCount = edgeCount /\ Results.found = found
        /\ Results.verdict = verdict /\ Results.limit = limit
        /\ Results.enabledIds = enabledIds /\ Results.boundHits = boundHits
    BY DEF Results
  <2>5. ReportOf(r, L) /\ ReportOf(Results, L)
    BY <2>1, <2>2, <2>3
  <2>. HIDE DEF Results
  <2>6. /\ r.verdict = Results.verdict /\ r.found = Results.found
        /\ r.visited = Results.visited /\ r.edgeCount = Results.edgeCount
        /\ (r.limit = {} <=> Results.limit = {})
    BY <2>5 DEF ReportOf
  <2>7. Results.limit = {} => r.enabledIds = Results.enabledIds /\ r.boundHits = Results.boundHits
    BY <2>5 DEF ReportOf
  <2>. QED  BY <2>4, <2>6, <2>7
<1>. QED  BY <1>1, TwiceInitially, NextTwice, PTL DEF TwiceSpec
===========================================================================
