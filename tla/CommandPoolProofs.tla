------------------------- MODULE CommandPoolProofs -------------------------
(***************************************************************************)
(* Proofs about CommandPool, for any number of targets, any --concurrency   *)
(* and any number of dead threads.                                          *)
(*                                                                         *)
(* TypeCorrect        types                                                 *)
(* OwnAnswers         a task settles with the answer to its own job         *)
(* WorkersStayBusy    no thread idles while an entry is queued              *)
(* NothingStranded    every started task has somebody to settle it           *)
(* HonestExit         the exit code is true of all targets                   *)
(*                                                                         *)
(* The inductive invariant says of a pool that exactly the busy slots have  *)
(* listeners, for one task each, and that the queue is only used while no   *)
(* slot is idle; of the threads that what a slot holds or has sent is that  *)
(* one task, and not both; and that the reporters other than JsonReporter   *)
(* never have more tasks in flight than there are slots.                    *)
(***************************************************************************)
EXTENDS CommandPool, FiniteSetTheorems, TLAPS

(* A pool between two operations: one task to a busy slot.                    *)
Paired(p) ==
    /\ p \in Pools /\ p.busy \subseteq Slots
    /\ \A w \in AllSlots : w \in p.busy <=> p.listeners[w] # {}
    /\ \A w \in AllSlots : \A t, u \in p.listeners[w] : t = u
    /\ \A w \in AllSlots : p.posted[w] \subseteq p.listeners[w]
QueuedWhenBusy(p) == p.queue # <<>> => Idle(p) = {}

(* What an operation of the pool leaves alone.                                *)
Keeps(p, q) ==
    \A w \in p.busy : w \in q.busy /\ q.listeners[w] = p.listeners[w]
                                   /\ q.posted[w] = p.posted[w]

(* The threads agree with the pool.                                           *)
Threads(p, h, s) ==
    \A w \in AllSlots :
       /\ h[w] \subseteq p.listeners[w]
       /\ \A answer \in s[w] : answer.job \in p.listeners[w]
       /\ \A a, b \in s[w] : a = b
       /\ s[w] # {} => h[w] = {} /\ p.posted[w] = {}

Inv ==
    /\ TypeOK
    /\ Paired(pool) /\ QueuedWhenBusy(pool)
    /\ \A w \in AllSlots : pool.posted[w] = {}
    /\ exit = None => Threads(pool, held, sent)
    /\ AnswersMatch
    /\ size > 1 => pool.inline = {}
    /\ Cardinality(pool.busy) <= started
    /\ reporter # "json" => pool.queue = <<>>

-----------------------------------------------------------------------------
(* Operations of the pool.                                                    *)

LEMMA SlotsFinite ==
    ASSUME size \in Nat
    PROVE  /\ IsFiniteSet(Slots)
           /\ size > 1 => Cardinality(Slots) = size
<1>1. IsFiniteSet(1..size) /\ Cardinality(1..size) = IF 1 > size THEN 0 ELSE size - 1 + 1
  BY FS_Interval
<1>. QED  BY <1>1, FS_EmptySet DEF Slots

LEMMA DispatchKeeps ==
    ASSUME size \in 1..MaxSize, NEW p, Paired(p), NEW w \in Idle(p), NEW t \in Tasks
    PROVE  LET q == Dispatch(p, w, t)
           IN  /\ Paired(q) /\ Keeps(p, q) /\ q.queue = p.queue
               /\ q.busy = p.busy \union {w} /\ q.inline = p.inline
<1>. DEFINE q == Dispatch(p, w, t)
<1>1. w \in AllSlots /\ w \notin p.busy /\ w \in Slots
  BY PoolAssumption DEF Idle, Slots, AllSlots
<1>2. p.listeners[w] = {} /\ p.posted[w] = {}
  BY <1>1 DEF Paired
<1>3. /\ q.busy = p.busy \union {w} /\ q.queue = p.queue /\ q.inline = p.inline
      /\ q.listeners = [p.listeners EXCEPT ![w] = {t}]
      /\ q.posted = [p.posted EXCEPT ![w] = {t}]
  BY <1>1, <1>2 DEF Dispatch, Paired, Pools
<1>4. q \in Pools
  <2>1. /\ p.busy \union {w} \in SUBSET AllSlots
        /\ [p.listeners EXCEPT ![w] = {t}] \in [AllSlots -> SUBSET Tasks]
        /\ [p.posted EXCEPT ![w] = {t}] \in [AllSlots -> SUBSET Tasks]
        /\ p.queue \in Seq(Tasks) /\ p.inline \in SUBSET Tasks
    BY <1>1 DEF Paired, Pools
  <2>2. q = [p EXCEPT !.busy = p.busy \union {w},
                      !.listeners = [p.listeners EXCEPT ![w] = {t}],
                      !.posted = [p.posted EXCEPT ![w] = {t}]]
    BY <1>1, <1>2 DEF Dispatch, Paired, Pools
  <2>3. p \in Pools
    BY DEF Paired
  <2>. HIDE DEF q
  <2>. QED  BY <2>1, <2>2, <2>3 DEF Pools
<1>5. Paired(q)
  BY <1>1, <1>2, <1>3, <1>4 DEF Paired, Pools
<1>6. Keeps(p, q)
  BY <1>1, <1>3 DEF Keeps, Paired, Pools
<1>. QED  BY <1>3, <1>5, <1>6

(* Removing or adding one busy slot changes their number by at most one.      *)
LEMMA BusyCounted ==
    ASSUME size \in 1..MaxSize, NEW p, Paired(p), NEW w \in Slots
    PROVE  /\ IsFiniteSet(p.busy) /\ Cardinality(p.busy) \in Nat
           /\ Cardinality(p.busy \union {w}) <= Cardinality(p.busy) + 1
           /\ Cardinality(p.busy \union {w}) \in Nat
           /\ w \in p.busy => Cardinality(p.busy \ {w}) = Cardinality(p.busy) - 1
<1>1. IsFiniteSet(p.busy)
  BY SlotsFinite, FS_Subset, PoolAssumption DEF Paired
<1>2. Cardinality(p.busy) \in Nat
  BY <1>1, FS_CardinalityType
<1>3. Cardinality(p.busy \union {w}) =
        IF w \in p.busy THEN Cardinality(p.busy) ELSE Cardinality(p.busy) + 1
  BY <1>1, FS_AddElement
<1>4. Cardinality(p.busy \ {w}) =
        IF w \in p.busy THEN Cardinality(p.busy) - 1 ELSE Cardinality(p.busy)
  BY <1>1, FS_RemoveElement
<1>. QED  BY <1>1, <1>2, <1>3, <1>4

LEMMA RunJobKeeps ==
    ASSUME size \in 1..MaxSize, NEW p, Paired(p), QueuedWhenBusy(p), NEW t \in Tasks
    PROVE  LET q == RunJob(p, t)
           IN  /\ Paired(q) /\ QueuedWhenBusy(q) /\ Keeps(p, q)
               /\ Cardinality(q.busy) <= Cardinality(p.busy) + 1
               /\ (size > 1 /\ Idle(p) = {}) \/ q.queue = p.queue
               /\ size > 1 => q.inline = p.inline
<1>. DEFINE q == RunJob(p, t)
<1>0. IsFiniteSet(p.busy) /\ Cardinality(p.busy) \in Nat
  BY SlotsFinite, FS_Subset, FS_CardinalityType, PoolAssumption DEF Paired
<1>1. CASE size <= 1
  <2>1. /\ q.busy = p.busy /\ q.queue = p.queue /\ q.listeners = p.listeners
        /\ q.posted = p.posted /\ q \in Pools
    BY <1>1 DEF RunJob, Paired, Pools
  <2>2. Idle(q) = Idle(p)
    BY <2>1 DEF Idle
  <2>3. ~(size > 1)
    BY <1>1, PoolAssumption
  <2>. QED  BY <1>0, <2>1, <2>2, <2>3 DEF Paired, QueuedWhenBusy, Keeps
<1>2. CASE size > 1 /\ Idle(p) # {}
  <2>1. FirstIdle(p) \in Idle(p)
    BY <1>2 DEF FirstIdle
  <2>2. q = Dispatch(p, FirstIdle(p), t)
    BY <1>2 DEF RunJob
  <2>3. p.queue = <<>>
    BY <1>2 DEF QueuedWhenBusy
  <2>4. FirstIdle(p) \in Slots
    BY <2>1 DEF Idle
  <2>5. /\ q.busy = p.busy \union {FirstIdle(p)} /\ q.queue = <<>>
        /\ q.inline = p.inline /\ Paired(q) /\ Keeps(p, q)
    BY <2>1, <2>2, <2>3, DispatchKeeps
  <2>. QED  BY <2>3, <2>4, <2>5, BusyCounted DEF QueuedWhenBusy
<1>3. CASE size > 1 /\ Idle(p) = {}
  <2>0. p.queue \in Seq(Tasks) /\ Append(p.queue, t) \in Seq(Tasks)
    BY DEF Paired, Pools
  <2>1. /\ q.busy = p.busy /\ q.listeners = p.listeners
        /\ q.posted = p.posted /\ q.inline = p.inline /\ q \in Pools
    <3>1. q = [p EXCEPT !.queue = Append(p.queue, t)]
      BY <1>3, PoolAssumption DEF RunJob
    <3>. QED  BY <2>0, <3>1 DEF Paired, Pools
  <2>2. Idle(q) = Idle(p)
    BY <2>1 DEF Idle
  <2>. QED  BY <1>0, <1>3, <2>1, <2>2 DEF Paired, QueuedWhenBusy, Keeps
<1>. QED  BY <1>1, <1>2, <1>3, PoolAssumption

(* A slot that becomes free takes the first entry of the queue, and it is the *)
(* only idle one if there is an entry.                                        *)
Freed(p, w) == [p EXCEPT !.busy = @ \ {w}, !.listeners[w] = {}]
LEMMA FreeKeeps ==
    ASSUME size \in 1..MaxSize, NEW p, Paired(p), QueuedWhenBusy(p),
           \A v \in AllSlots : p.posted[v] = {}, NEW w \in p.busy
    PROVE  LET q == Free(p, w)
           IN  /\ Paired(q) /\ QueuedWhenBusy(q) /\ Keeps(Freed(p, w), q)
               /\ q.inline = p.inline
               /\ Cardinality(q.busy) <= Cardinality(p.busy)
               /\ p.queue = <<>> => /\ q.queue = <<>> /\ w \in Idle(q)
                                    /\ Cardinality(q.busy) = Cardinality(p.busy) - 1
<1>. DEFINE f == Freed(p, w)
            q == Free(p, w)
<1>9. Freed(p, w) = f /\ Free(p, w) = q
  OBVIOUS
<1>1. w \in Slots /\ w \in AllSlots
  BY PoolAssumption DEF Paired, Slots, AllSlots
<1>2. /\ f.busy = p.busy \ {w} /\ f.listeners = [p.listeners EXCEPT ![w] = {}]
      /\ f.posted = p.posted /\ f.queue = p.queue /\ f.inline = p.inline /\ f \in Pools
  BY <1>1 DEF Freed, Paired, Pools
<1>3. Paired(f)
  BY <1>1, <1>2 DEF Paired, Pools
<1>4. q = DrainQueue(f)
  BY DEF Free, Freed
<1>5. Idle(f) = Idle(p) \union {w}
  BY <1>1, <1>2 DEF Idle
<1>6. /\ Cardinality(f.busy) = Cardinality(p.busy) - 1
      /\ Cardinality(p.busy) \in Nat
  BY <1>1, <1>2, BusyCounted
<1>7. CASE p.queue = <<>>
  <2>1. q = f
    BY <1>2, <1>4, <1>7 DEF DrainQueue
  <2>2. Paired(q) /\ q.queue = <<>> /\ Keeps(f, q) /\ w \in Idle(q) /\ q.inline = p.inline
    BY <1>2, <1>3, <1>5, <1>7, <2>1 DEF Keeps
  <2>3. Cardinality(q.busy) = Cardinality(p.busy) - 1
    BY <1>6, <2>1
  <2>. QED  BY <1>6, <1>7, <2>2, <2>3 DEF QueuedWhenBusy
<1>8. CASE p.queue # <<>>
  <2>1. Idle(f) = {w}
    BY <1>5, <1>8 DEF QueuedWhenBusy
  <2>2. FirstIdle(f) = w
    BY <2>1 DEF FirstIdle
  <2>. DEFINE g == [f EXCEPT !.queue = Tail(@)]
  <2>0. f.queue \in Seq(Tasks) /\ f.queue # <<>>
    BY <1>2, <1>8 DEF Pools
  <2>a. Head(f.queue) \in Tasks /\ Tail(f.queue) \in Seq(Tasks)
    BY <2>0
  <2>3. /\ g \in Pools /\ g.busy = f.busy /\ g.listeners = f.listeners
        /\ g.posted = f.posted /\ g.inline = f.inline
    BY <1>2, <2>a DEF Pools
  <2>4. Paired(g) /\ Idle(g) = {w}
    BY <1>3, <2>1, <2>3 DEF Paired, Idle
  <2>5. q = Dispatch(g, w, Head(f.queue))
    BY <1>2, <1>4, <1>8, <2>1, <2>2 DEF DrainQueue
  <2>b. w \in Idle(g)
    BY <2>4
  <2>6. /\ Paired(q) /\ Keeps(g, q) /\ q.busy = g.busy \union {w} /\ q.inline = g.inline
    <3>. HIDE DEF g, f, q
    <3>. DEFINE h == Head(f.queue)
    <3>1. h \in Tasks /\ q = Dispatch(g, w, h)
      BY <2>5, <2>a
    <3>. HIDE DEF h
    <3>. QED  BY <2>4, <2>b, <3>1, DispatchKeeps
  <2>7. Keeps(f, q)
    BY <2>3, <2>6 DEF Keeps
  <2>8. q.busy = p.busy
    BY <1>2, <2>3, <2>6
  <2>9. Idle(q) = {}
    BY <1>8, <2>8 DEF QueuedWhenBusy, Idle
  <2>c. QueuedWhenBusy(q) /\ Cardinality(q.busy) <= Cardinality(p.busy)
    BY <1>6, <2>8, <2>9 DEF QueuedWhenBusy
  <2>d. q.inline = p.inline
    BY <1>2, <2>3, <2>6
  <2>. HIDE DEF f, g, q
  <2>. QED  BY <1>8, <1>9, <2>6, <2>7, <2>c, <2>d
<1>. HIDE DEF f, q
<1>. QED  BY <1>7, <1>8, <1>9

LEMMA FreedKeeps ==
    ASSUME NEW p, Paired(p), NEW w \in p.busy
    PROVE  /\ Freed(p, w).listeners = [p.listeners EXCEPT ![w] = {}]
           /\ Freed(p, w).posted = p.posted /\ Paired(p)
           /\ Freed(p, w).busy = p.busy \ {w}
           /\ \A v \in AllSlots : v # w => Freed(p, w).listeners[v] = p.listeners[v]
  BY DEF Freed, Paired, Pools

(* What the threads hold and have sent belongs to busy slots, so it stays in   *)
(* step with any operation that leaves those alone.                           *)
LEMMA ThreadsKept ==
    ASSUME NEW p, NEW q, NEW h, NEW s, Keeps(p, q), Threads(p, h, s),
           \A w \in AllSlots : w \in p.busy <=> p.listeners[w] # {}
    PROVE  Threads(q, h, s)
<1>. SUFFICES ASSUME NEW w \in AllSlots
              PROVE  /\ h[w] \subseteq q.listeners[w]
                     /\ \A answer \in s[w] : answer.job \in q.listeners[w]
                     /\ \A a, b \in s[w] : a = b
                     /\ s[w] # {} => h[w] = {} /\ q.posted[w] = {}
  BY DEF Threads
<1>1. CASE w \in p.busy
  BY <1>1 DEF Keeps, Threads
<1>2. CASE w \notin p.busy
  <2>1. p.listeners[w] = {}
    BY <1>2
  <2>2. h[w] = {} /\ s[w] = {}
    BY <2>1 DEF Threads
  <2>. QED  BY <2>2
<1>. QED  BY <1>1, <1>2

LEMMA PostKeeps ==
    ASSUME TypeOK, NEW q, Paired(q), Post(q), Threads(q, held, sent')
    PROVE  /\ Paired(pool') /\ pool'.busy = q.busy /\ pool'.queue = q.queue
           /\ pool'.inline = q.inline
           /\ \A w \in AllSlots : pool'.posted[w] = {}
           /\ Threads(pool', held', sent')
           /\ held' \in [AllSlots -> SUBSET Tasks]
<1>1. /\ pool' \in Pools /\ pool'.busy = q.busy /\ pool'.queue = q.queue
      /\ pool'.inline = q.inline /\ pool'.listeners = q.listeners
      /\ pool'.posted = [w \in AllSlots |-> {}]
  BY DEF Post, Paired, Pools
<1>2. Paired(pool')
  BY <1>1 DEF Paired
<1>3. /\ held' \in [AllSlots -> SUBSET Tasks]
      /\ \A w \in AllSlots : \/ held'[w] = held[w] \union q.posted[w]
                             \/ held'[w] = held[w]
  BY DEF Post, TypeOK, Paired, Pools
<1>4. Threads(pool', held', sent')
  <2>. SUFFICES ASSUME NEW w \in AllSlots
                PROVE  /\ held'[w] \subseteq pool'.listeners[w]
                       /\ \A answer \in sent'[w] : answer.job \in pool'.listeners[w]
                       /\ \A a, b \in sent'[w] : a = b
                       /\ sent'[w] # {} => held'[w] = {} /\ pool'.posted[w] = {}
    BY DEF Threads
  <2>1. /\ held[w] \subseteq q.listeners[w] /\ q.posted[w] \subseteq q.listeners[w]
        /\ \A answer \in sent'[w] : answer.job \in q.listeners[w]
        /\ \A a, b \in sent'[w] : a = b
        /\ sent'[w] # {} => held[w] = {} /\ q.posted[w] = {}
    BY DEF Threads, Paired
  <2>2. pool'.listeners[w] = q.listeners[w] /\ pool'.posted[w] = {}
    BY <1>1
  <2>. QED  BY <1>3, <2>1, <2>2
<1>. QED  BY <1>1, <1>2, <1>3, <1>4

(* A settled promise and what follows it.                                     *)
LEMMA ContinueKeeps ==
    ASSUME TypeOK, AnswersMatch, NEW p, Paired(p), QueuedWhenBusy(p),
           Cardinality(p.busy) <= started,
           size > 1 => p.inline = {},
           reporter # "json" => p.queue = <<>> /\ (size > 1 => Idle(p) # {}),
           Threads(p, held, sent'),
           NEW answer \in Answers, Continue(p, {answer.job}, answer)
    PROVE  /\ Paired(pool') /\ QueuedWhenBusy(pool')
           /\ \A w \in AllSlots : pool'.posted[w] = {}
           /\ Threads(pool', held', sent')
           /\ held' \in [AllSlots -> SUBSET Tasks]
           /\ result' \in [Tasks -> Answers \union {Unsettled}]
           /\ AnswersMatch' /\ started' \in 0..N
           /\ phase' \in {"running", "disposing"} /\ exit' \in {None, "0", "1", "2"}
           /\ size > 1 => pool'.inline = {}
           /\ Cardinality(pool'.busy) <= started'
           /\ reporter # "json" => pool'.queue = <<>>
<1>. USE PoolAssumption
<1>1. /\ result' \in [Tasks -> Answers \union {Unsettled}] /\ AnswersMatch'
      /\ phase' \in {"running", "disposing"} /\ exit' \in {None, "0", "1", "2"}
  BY DEF Continue, TypeOK, AnswersMatch, Answers
<1>. USE DEF TypeOK
<1>2. Cardinality(p.busy) \in Nat /\ size \in Nat
  BY SlotsFinite, FS_Subset, FS_CardinalityType DEF Paired
<1>3. CASE answer.outcome # "error" /\ started < N
  <2>. DEFINE q == RunJob(p, started + 1)
  <2>1. started' = started + 1 /\ Post(q) /\ started + 1 \in Tasks
    BY <1>3 DEF Continue, Tasks
  <2>2. /\ Paired(q) /\ QueuedWhenBusy(q) /\ Keeps(p, q)
        /\ Cardinality(q.busy) <= Cardinality(p.busy) + 1
        /\ (size > 1 /\ Idle(p) = {}) \/ q.queue = p.queue
        /\ size > 1 => q.inline = p.inline
    BY <2>1, RunJobKeeps
  <2>. HIDE DEF q
  <2>3. Threads(q, held, sent')
    BY <2>2, ThreadsKept DEF Paired
  <2>4. /\ Paired(pool') /\ pool'.busy = q.busy /\ pool'.queue = q.queue
        /\ pool'.inline = q.inline
        /\ \A w \in AllSlots : pool'.posted[w] = {}
        /\ Threads(pool', held', sent')
        /\ held' \in [AllSlots -> SUBSET Tasks]
    BY <2>1, <2>2, <2>3, PostKeeps
  <2>5. QueuedWhenBusy(pool')
    BY <2>2, <2>4 DEF QueuedWhenBusy, Idle
  <2>6. Cardinality(q.busy) \in Nat
    BY <2>2, SlotsFinite, FS_Subset, FS_CardinalityType DEF Paired
  <2>7. Cardinality(pool'.busy) <= started' /\ started' \in 0..N
    BY <1>2, <1>3, <2>1, <2>2, <2>4, <2>6
  <2>8. (size > 1 => pool'.inline = {}) /\ (reporter # "json" => pool'.queue = <<>>)
    BY <2>2, <2>4
  <2>. QED  BY <1>1, <2>4, <2>5, <2>7, <2>8
<1>4. CASE ~(answer.outcome # "error" /\ started < N)
  <2>1. started' = started /\ Post(p)
    BY <1>4 DEF Continue
  <2>2. /\ Paired(pool') /\ pool'.busy = p.busy /\ pool'.queue = p.queue
        /\ pool'.inline = p.inline
        /\ \A w \in AllSlots : pool'.posted[w] = {}
        /\ Threads(pool', held', sent')
        /\ held' \in [AllSlots -> SUBSET Tasks]
    BY <2>1, PostKeeps
  <2>3. QueuedWhenBusy(pool')
    BY <2>2 DEF QueuedWhenBusy, Idle
  <2>. QED  BY <1>1, <2>1, <2>2, <2>3
<1>. QED  BY <1>3, <1>4

-----------------------------------------------------------------------------
(* The invariant.                                                             *)

LEMMA InitInv == Init => Inv
<1>. SUFFICES ASSUME Init PROVE Inv
  OBVIOUS
<1>. USE PoolAssumption DEF Init
<1>1. TypeOK
  <2>1. <<>> \in Seq(Tasks)
    OBVIOUS
  <2>2. pool \in Pools
    BY <2>1 DEF Pools
  <2>3. alive \subseteq AllSlots
    BY DEF Slots, AllSlots
  <2>. QED  BY <2>2, <2>3 DEF TypeOK
<1>2. Paired(pool)
  BY <1>1 DEF TypeOK, Paired
<1>3. QueuedWhenBusy(pool) /\ Threads(pool, held, sent) /\ AnswersMatch
  BY DEF QueuedWhenBusy, Threads, AnswersMatch
<1>4. Cardinality(pool.busy) <= started
  BY FS_EmptySet
<1>. QED  BY <1>1, <1>2, <1>3, <1>4 DEF Inv

(* The pool after an action, as the invariant needs it.                       *)
PoolInv ==
    /\ pool \in Pools /\ Paired(pool) /\ QueuedWhenBusy(pool)
    /\ \A w \in AllSlots : pool.posted[w] = {}
    /\ size > 1 => pool.inline = {}
    /\ Cardinality(pool.busy) <= started
    /\ reporter # "json" => pool.queue = <<>>

LEMMA SamePool ==
    ASSUME Inv, UNCHANGED <<pool, size, reporter, started>>
    PROVE  PoolInv'
<1>1. PoolInv
  BY DEF Inv, PoolInv, TypeOK
<1>. QED  BY <1>1 DEF PoolInv, Paired, QueuedWhenBusy, Idle, Slots

(* A reporter that does not start everything at once has a slot left.         *)
LEMMA SlotLeft ==
    ASSUME Inv, reporter # "json", size > 1, started < AtOnce
    PROVE  Idle(pool) # {}
<1>. USE PoolAssumption
<1>1. started < size
  BY DEF Inv, TypeOK, AtOnce, DefaultAtOnce, BasicAtOnce
<1>2. Cardinality(Slots) = size
  BY SlotsFinite DEF Inv, TypeOK
<1>3. pool.busy # Slots
  BY <1>1, <1>2 DEF Inv, TypeOK
<1>. QED  BY <1>3 DEF Inv, Paired, Idle

LEMMA StartTaskInv == Inv /\ StartTask => Inv'
<1>. SUFFICES ASSUME Inv, StartTask PROVE Inv'
  OBVIOUS
<1>. USE PoolAssumption
<1>. DEFINE q == RunJob(pool, started + 1)
<1>0. /\ started' = started + 1 /\ Post(q) /\ started + 1 \in Tasks /\ exit = None
      /\ UNCHANGED <<reporter, size, alive, sent, broken, result, phase, exit>>
  BY DEF StartTask, Tasks, AtOnce, DefaultAtOnce, BasicAtOnce, JsonAtOnce, Inv, TypeOK
<1>1. /\ Paired(q) /\ QueuedWhenBusy(q) /\ Keeps(pool, q)
      /\ Cardinality(q.busy) <= Cardinality(pool.busy) + 1
      /\ (size > 1 /\ Idle(pool) = {}) \/ q.queue = pool.queue
      /\ size > 1 => q.inline = pool.inline
  BY <1>0, RunJobKeeps DEF Inv, TypeOK
<1>2. reporter # "json" => q.queue = <<>>
  BY <1>1, SlotLeft DEF Inv, StartTask
<1>. HIDE DEF q
<1>3. Threads(q, held, sent)
  BY <1>0, <1>1, ThreadsKept DEF Inv, Paired
<1>4. /\ Paired(pool') /\ pool'.busy = q.busy /\ pool'.queue = q.queue
      /\ pool'.inline = q.inline
      /\ \A w \in AllSlots : pool'.posted[w] = {}
      /\ Threads(pool', held', sent')
      /\ held' \in [AllSlots -> SUBSET Tasks]
  BY <1>0, <1>1, <1>3, PostKeeps DEF Inv
<1>5. Cardinality(pool.busy) \in Nat /\ Cardinality(q.busy) \in Nat
  BY <1>1, SlotsFinite, FS_Subset, FS_CardinalityType DEF Paired, Inv, TypeOK
<1>6. PoolInv'
  BY <1>0, <1>1, <1>2, <1>4, <1>5
     DEF PoolInv, Paired, QueuedWhenBusy, Idle, Slots, Inv, TypeOK
<1>7. TypeOK'
  BY <1>0, <1>4, <1>6 DEF Inv, TypeOK, PoolInv, AtOnce, DefaultAtOnce, BasicAtOnce, JsonAtOnce, Tasks
<1>8. AnswersMatch'
  BY <1>0 DEF Inv, AnswersMatch
<1>. QED  BY <1>0, <1>4, <1>6, <1>7, <1>8 DEF Inv, PoolInv

(* The end of a task puts the pool back into the state the invariant asks for. *)
LEMMA ContinueInv ==
    ASSUME Inv, NEW p, Paired(p), QueuedWhenBusy(p),
           Cardinality(p.busy) <= started,
           size > 1 => p.inline = {},
           reporter # "json" => p.queue = <<>> /\ (size > 1 => Idle(p) # {}),
           Threads(p, held, sent'), sent' \in [AllSlots -> SUBSET Answers],
           broken' \subseteq AllSlots, UNCHANGED <<reporter, size, alive>>,
           NEW answer \in Answers, Continue(p, {answer.job}, answer)
    PROVE  Inv'
<1>1. /\ Paired(pool') /\ QueuedWhenBusy(pool')
      /\ \A w \in AllSlots : pool'.posted[w] = {}
      /\ Threads(pool', held', sent')
      /\ held' \in [AllSlots -> SUBSET Tasks]
      /\ result' \in [Tasks -> Answers \union {Unsettled}]
      /\ AnswersMatch' /\ started' \in 0..N
      /\ phase' \in {"running", "disposing"} /\ exit' \in {None, "0", "1", "2"}
      /\ size > 1 => pool'.inline = {}
      /\ Cardinality(pool'.busy) <= started'
      /\ reporter # "json" => pool'.queue = <<>>
  BY ContinueKeeps DEF Inv
<1>2. Paired(pool)' /\ QueuedWhenBusy(pool)'
  BY <1>1 DEF Paired, QueuedWhenBusy, Idle, Slots
<1>3. TypeOK'
  BY <1>1 DEF Inv, TypeOK, Paired
<1>. QED  BY <1>1, <1>2, <1>3 DEF Inv

(* What Free makes of the pool when the task of slot w has settled.           *)
LEMMA FreeInv ==
    ASSUME Inv, NEW w \in pool.busy
    PROVE  LET q == Free(pool, w)
           IN  /\ Paired(q) /\ QueuedWhenBusy(q) /\ Keeps(Freed(pool, w), q)
               /\ Cardinality(q.busy) <= started
               /\ size > 1 => q.inline = {}
               /\ reporter # "json" => q.queue = <<>> /\ Idle(q) # {}
<1>. DEFINE q == Free(pool, w)
<1>1. /\ Paired(q) /\ QueuedWhenBusy(q) /\ Keeps(Freed(pool, w), q)
      /\ q.inline = pool.inline
      /\ Cardinality(q.busy) <= Cardinality(pool.busy)
      /\ pool.queue = <<>> => q.queue = <<>> /\ w \in Idle(q)
  BY FreeKeeps DEF Inv, TypeOK
<1>. HIDE DEF q
<1>2. Cardinality(pool.busy) \in Nat /\ Cardinality(q.busy) \in Nat
  BY <1>1, SlotsFinite, FS_Subset, FS_CardinalityType, PoolAssumption DEF Paired, Inv, TypeOK
<1>3. Cardinality(q.busy) <= started
  BY <1>1, <1>2, PoolAssumption DEF Inv, TypeOK
<1>. QED  BY <1>1, <1>3 DEF Inv, q

LEMMA OnMessageInv ==
    ASSUME Inv, NEW w \in AllSlots, OnMessage(w)
    PROVE  Inv'
<1>1. PICK answer \in sent[w] :
        /\ sent' = [sent EXCEPT ![w] = @ \ {answer}]
        /\ IF pool.listeners[w] = {}
           THEN UNCHANGED <<pool, held, result, started, phase, exit>>
           ELSE Continue(Free(pool, w), pool.listeners[w], answer)
  BY DEF OnMessage
<1>2. UNCHANGED <<reporter, size, alive, broken>> /\ exit = None
  BY DEF OnMessage, Waiting
<1>3. Threads(pool, held, sent) /\ Paired(pool) /\ TypeOK
  BY <1>2 DEF Inv
<1>4. answer \in Answers /\ sent' \in [AllSlots -> SUBSET Answers]
  BY <1>1, <1>3 DEF TypeOK
<1>5. pool.listeners[w] = {answer.job} /\ w \in pool.busy
  BY <1>3 DEF Threads, Paired
<1>6. sent'[w] = {} /\ held[w] = {} /\ \A v \in AllSlots : v # w => sent'[v] = sent[v]
  BY <1>1, <1>3 DEF Threads, TypeOK
<1>. DEFINE q == Free(pool, w)
<1>7. /\ Paired(q) /\ QueuedWhenBusy(q) /\ Keeps(Freed(pool, w), q)
      /\ Cardinality(q.busy) <= started
      /\ size > 1 => q.inline = {}
      /\ reporter # "json" => q.queue = <<>> /\ Idle(q) # {}
  BY <1>5, FreeInv
<1>8. /\ Freed(pool, w).listeners = [pool.listeners EXCEPT ![w] = {}]
      /\ Freed(pool, w).posted = pool.posted
      /\ Freed(pool, w).busy = pool.busy \ {w}
      /\ \A v \in AllSlots : v # w => Freed(pool, w).listeners[v] = pool.listeners[v]
  BY <1>3, <1>5, FreedKeeps
<1>9. Threads(Freed(pool, w), held, sent')
  BY <1>3, <1>6, <1>8 DEF Threads
<1>10. \A v \in AllSlots : v \in Freed(pool, w).busy <=> Freed(pool, w).listeners[v] # {}
  BY <1>3, <1>8 DEF Paired, Pools
<1>11. Threads(q, held, sent')
  BY <1>7, <1>9, <1>10, ThreadsKept
<1>12. Continue(q, {answer.job}, answer)
  BY <1>1, <1>5
<1>13. broken' \subseteq AllSlots
  BY <1>2, <1>3 DEF TypeOK
<1>. HIDE DEF q
<1>. QED  BY <1>2, <1>4, <1>7, <1>11, <1>12, <1>13, ContinueInv

(* A rejection ends the process: only types and AnswersMatch are left to keep, *)
(* and of the pool what holds with or without threads.                        *)
LEMMA OnErrorInv ==
    ASSUME Inv, NEW w \in AllSlots, OnError(w)
    PROVE  Inv'
<1>1. /\ broken' = broken \ {w} /\ exit = None
      /\ UNCHANGED <<reporter, size, alive, sent>>
  BY DEF OnError, Waiting
<1>2. Threads(pool, held, sent) /\ Paired(pool) /\ TypeOK /\ broken' \subseteq AllSlots
  BY <1>1 DEF Inv, TypeOK
<1>3. CASE pool.listeners[w] = {}
  <2>1. exit' = "1" /\ UNCHANGED <<pool, held, result, started, phase>>
    BY <1>3 DEF OnError
  <2>2. PoolInv'
    BY <1>1, <2>1, SamePool
  <2>3. TypeOK'
    BY <1>1, <1>2, <2>1 DEF TypeOK
  <2>. QED  BY <1>1, <2>1, <2>2, <2>3 DEF Inv, PoolInv, AnswersMatch, None
<1>4. CASE pool.listeners[w] # {}
  <2>1. PICK t \in pool.listeners[w] :
          Continue(Free(pool, w), pool.listeners[w], [job |-> t, outcome |-> "error"])
    BY <1>4 DEF OnError
  <2>. DEFINE answer == [job |-> t, outcome |-> "error"]
              q == Free(pool, w)
  <2>2. pool.listeners[w] = {answer.job} /\ w \in pool.busy /\ t \in Tasks
    BY <1>2 DEF Paired, Pools
  <2>3. answer \in Answers
    BY <2>2 DEF Answers, Outcomes
  <2>4. /\ Paired(q) /\ QueuedWhenBusy(q)
        /\ Cardinality(q.busy) <= started
        /\ size > 1 => q.inline = {}
        /\ reporter # "json" => q.queue = <<>>
    BY <2>2, FreeInv
  <2>5. /\ result' = [u \in Tasks |-> IF u \in {t} THEN answer ELSE result[u]]
        /\ exit' = "1" /\ phase' = phase /\ started' = started /\ Post(q)
    BY <2>1, <2>2 DEF Continue
  <2>. HIDE DEF q
  <2>6. /\ pool' \in Pools /\ pool'.busy = q.busy /\ pool'.queue = q.queue
        /\ pool'.inline = q.inline /\ pool'.listeners = q.listeners
        /\ pool'.posted = [v \in AllSlots |-> {}]
        /\ held' \in [AllSlots -> SUBSET Tasks]
    BY <1>2, <2>4, <2>5 DEF Post, Paired, Pools, TypeOK
  <2>7. Paired(pool)' /\ QueuedWhenBusy(pool)'
    BY <1>1, <2>4, <2>6 DEF Paired, QueuedWhenBusy, Idle, Slots
  <2>8. TypeOK' /\ AnswersMatch'
    BY <1>1, <1>2, <2>3, <2>5, <2>6 DEF Inv, TypeOK, AnswersMatch
  <2>. QED  BY <1>1, <2>4, <2>5, <2>6, <2>7, <2>8 DEF Inv, None
<1>. QED  BY <1>3, <1>4

LEMMA InlineSettlesInv ==
    ASSUME Inv, NEW t \in Tasks, InlineSettles(t)
    PROVE  Inv'
<1>1. PICK outcome \in Outcomes :
        Continue([pool EXCEPT !.inline = @ \ {t}], {t}, [job |-> t, outcome |-> outcome])
  BY DEF InlineSettles
<1>2. /\ UNCHANGED <<reporter, size, alive, sent, broken>> /\ exit = None
      /\ t \in pool.inline
  BY DEF InlineSettles, Waiting
<1>. DEFINE p == [pool EXCEPT !.inline = @ \ {t}]
            answer == [job |-> t, outcome |-> outcome]
<1>3. answer \in Answers /\ answer.job = t
  BY DEF Answers
<1>4. Paired(pool) /\ QueuedWhenBusy(pool) /\ Threads(pool, held, sent) /\ TypeOK /\ ~(size > 1)
  BY <1>2 DEF Inv
<1>5. /\ p \in Pools /\ p.busy = pool.busy /\ p.listeners = pool.listeners
      /\ p.queue = pool.queue /\ p.posted = pool.posted
  BY <1>4 DEF TypeOK, Pools
<1>6. Paired(p) /\ QueuedWhenBusy(p)
  BY <1>4, <1>5 DEF Paired, QueuedWhenBusy, Idle
<1>7. Threads(p, held, sent')
  BY <1>2, <1>4, <1>5 DEF Threads
<1>8. Cardinality(p.busy) <= started /\ (reporter # "json" => p.queue = <<>>)
  BY <1>5 DEF Inv
<1>9. Continue(p, {answer.job}, answer)
  BY <1>1, <1>3
<1>10. sent' \in [AllSlots -> SUBSET Answers] /\ broken' \subseteq AllSlots
  BY <1>2, <1>4 DEF TypeOK
<1>. HIDE DEF p, answer
<1>. QED  BY <1>2, <1>3, <1>4, <1>6, <1>7, <1>8, <1>9, <1>10, ContinueInv

LEMMA ExitInv == Inv /\ Exit => Inv'
<1>. SUFFICES ASSUME Inv, Exit PROVE Inv'
  OBVIOUS
<1>1. /\ exit' \in {"0", "2"} /\ alive' = {} /\ held' = [w \in AllSlots |-> {}]
      /\ UNCHANGED <<reporter, size, pool, sent, broken, result, started, phase>>
  BY DEF Exit
<1>2. PoolInv'
  BY <1>1, SamePool
<1>3. TypeOK' /\ AnswersMatch'
  BY <1>1 DEF Inv, TypeOK, AnswersMatch
<1>. QED  BY <1>1, <1>2, <1>3 DEF Inv, PoolInv, None

(* A thread with a job has sent nothing, so its answer is the only one.        *)
LEMMA AnswerInv ==
    ASSUME Inv, NEW w \in AllSlots, NEW t \in Tasks, Answer(w, t)
    PROVE  Inv'
<1>1. PICK outcome \in Outcomes :
        sent' = [sent EXCEPT ![w] = @ \union {[job |-> t, outcome |-> outcome]}]
  BY DEF Answer
<1>2. /\ exit = None /\ t \in held[w] /\ held' = [held EXCEPT ![w] = @ \ {t}]
      /\ UNCHANGED <<reporter, size, pool, alive, broken, result, started, phase, exit>>
  BY DEF Answer
<1>3. Threads(pool, held, sent) /\ Paired(pool) /\ TypeOK
  BY <1>2 DEF Inv
<1>4. pool.listeners[w] = {t} /\ sent[w] = {} /\ held[w] = {t}
  BY <1>2, <1>3 DEF Threads, Paired
<1>5. sent'[w] = {[job |-> t, outcome |-> outcome]} /\ held'[w] = {}
  BY <1>1, <1>2, <1>3, <1>4 DEF TypeOK
<1>6. \A v \in AllSlots : v # w => sent'[v] = sent[v] /\ held'[v] = held[v]
  BY <1>1, <1>2, <1>3 DEF TypeOK
<1>7. Threads(pool, held', sent')
  <2>1. pool.posted[w] = {}
    BY DEF Inv
  <2>. QED  BY <1>3, <1>4, <1>5, <1>6, <2>1 DEF Threads
<1>8. /\ sent' \in [AllSlots -> SUBSET Answers]
      /\ held' \in [AllSlots -> SUBSET Tasks]
  <2>1. [job |-> t, outcome |-> outcome] \in Answers
    BY DEF Answers
  <2>2. sent[w] \union {[job |-> t, outcome |-> outcome]} \in SUBSET Answers
    BY <1>3, <2>1 DEF TypeOK
  <2>. QED  BY <1>1, <1>2, <1>3, <2>2 DEF TypeOK
<1>9. PoolInv'
  BY <1>2, SamePool
<1>10. TypeOK' /\ AnswersMatch'
  BY <1>2, <1>3, <1>8 DEF Inv, TypeOK, AnswersMatch
<1>. QED  BY <1>2, <1>7, <1>9, <1>10 DEF Inv, PoolInv

LEMMA DieInv ==
    ASSUME Inv, NEW w \in AllSlots, Die(w)
    PROVE  Inv'
<1>1. /\ exit = None /\ alive' = alive \ {w} /\ held' = [held EXCEPT ![w] = {}]
      /\ broken' = broken \union {w}
      /\ UNCHANGED <<reporter, size, pool, sent, result, started, phase, exit>>
  BY DEF Die
<1>2. Threads(pool, held, sent) /\ TypeOK
  BY <1>1 DEF Inv
<1>3. \A v \in AllSlots : held'[v] \subseteq held[v]
  BY <1>1, <1>2 DEF TypeOK
<1>4. Threads(pool, held', sent')
  BY <1>1, <1>2, <1>3 DEF Threads
<1>5. PoolInv'
  BY <1>1, SamePool
<1>6. TypeOK' /\ AnswersMatch'
  BY <1>1, <1>2 DEF Inv, TypeOK, AnswersMatch
<1>. QED  BY <1>1, <1>4, <1>5, <1>6 DEF Inv, PoolInv

LEMMA StutterInv == Inv /\ UNCHANGED vars => Inv'
<1>. SUFFICES ASSUME Inv, UNCHANGED vars PROVE Inv'
  OBVIOUS
<1>1. PoolInv'
  BY SamePool DEF vars
<1>. QED  BY <1>1 DEF vars, Inv, PoolInv, TypeOK, AnswersMatch, Threads

LEMMA Invariant == Spec => []Inv
<1>1. Inv /\ [Next]_vars => Inv'
  <2>. SUFFICES ASSUME Inv, [Next]_vars PROVE Inv'
    OBVIOUS
  <2>1. CASE StartTask
    BY <2>1, StartTaskInv
  <2>2. CASE Exit
    BY <2>2, ExitInv
  <2>3. CASE Ended
    BY <2>3, StutterInv DEF Ended
  <2>4. CASE \E t \in Tasks : InlineSettles(t)
    BY <2>4, InlineSettlesInv
  <2>5. ASSUME NEW w \in AllSlots, OnMessage(w) PROVE Inv'
    BY <2>5, OnMessageInv
  <2>6. ASSUME NEW w \in AllSlots, OnError(w) PROVE Inv'
    BY <2>6, OnErrorInv
  <2>7. ASSUME NEW w \in AllSlots, Die(w) PROVE Inv'
    BY <2>7, DieInv
  <2>8. ASSUME NEW w \in AllSlots, NEW t \in Tasks, Answer(w, t) PROVE Inv'
    BY <2>8, AnswerInv
  <2>9. CASE UNCHANGED vars
    BY <2>9, StutterInv
  <2>. QED  BY <2>1, <2>2, <2>3, <2>4, <2>5, <2>6, <2>7, <2>8, <2>9 DEF Next
<1>. QED  BY <1>1, InitInv, PTL DEF Spec

(* The variables of the pool, the reporter and the threads keep their types.  *)
THEOREM TypeCorrect == Spec => []TypeOK
<1>1. Inv => TypeOK
  BY DEF Inv
<1>. QED  BY <1>1, Invariant, PTL

(* Whatever the interleaving of workers and events, a task settles with the    *)
(* result of its own command: pool.ts needs no id in the answers.             *)
THEOREM OwnAnswers == Spec => []AnswersMatch
<1>1. Inv => AnswersMatch
  BY DEF Inv
<1>. QED  BY <1>1, Invariant, PTL

(* One entry handed out per event is enough: no slot is idle while an entry    *)
(* waits, and only JsonReporter ever queues one.                              *)
THEOREM WorkersStayBusy == Spec => []NoIdleWhileQueued
<1>1. Inv => NoIdleWhileQueued
  BY DEF Inv, QueuedWhenBusy, NoIdleWhileQueued
<1>. QED  BY <1>1, Invariant, PTL

-----------------------------------------------------------------------------
(* Nothing that was started is forgotten.                                     *)

InFlight(p, t) ==
    \/ t \in p.inline
    \/ \E i \in 1..Len(p.queue) : p.queue[i] = t
    \/ \E w \in AllSlots : t \in p.listeners[w]

(* Whoever listens on a slot is posted, held or answered there, or its thread  *)
(* is dead and the error event on its way.                                    *)
Tended(p, h, s, b) ==
    \A w \in AllSlots : \A t \in p.listeners[w] :
       \/ t \in p.posted[w] \/ t \in h[w] \/ w \in b
       \/ \E answer \in s[w] : answer.job = t

(* Listeners an operation adds are for jobs it posts.                         *)
Grows(p, q) ==
    \A w \in AllSlots : /\ q.listeners[w] \subseteq p.listeners[w] \union q.posted[w]
                        /\ p.posted[w] \subseteq q.posted[w]

Alive ==
    /\ alive \subseteq Slots /\ broken \subseteq Slots \ alive
    /\ exit = None => Slots \ alive = broken

Kept ==
    /\ Alive
    /\ exit = None =>
         /\ Tended(pool, held, sent, broken)
         /\ \A t \in 1..started : result[t] = Unsettled => InFlight(pool, t)
         /\ \A t \in Tasks : result[t].outcome # "error"
         /\ phase = "disposing" => AllSettled(result)
    /\ ExitIsHonest

LEMMA DispatchGrows ==
    ASSUME size \in 1..MaxSize, NEW p, Paired(p), NEW w \in Idle(p), NEW t \in Tasks
    PROVE  LET q == Dispatch(p, w, t)
           IN  /\ Grows(p, q) /\ InFlight(q, t)
               /\ \A u \in Tasks : InFlight(p, u) => InFlight(q, u)
<1>. DEFINE q == Dispatch(p, w, t)
<1>1. w \in AllSlots
  BY PoolAssumption DEF Idle, Slots, AllSlots
<1>2. /\ q.queue = p.queue /\ q.inline = p.inline
      /\ q.listeners = [p.listeners EXCEPT ![w] = p.listeners[w] \union {t}]
      /\ q.posted = [p.posted EXCEPT ![w] = p.posted[w] \union {t}]
      /\ p.listeners \in [AllSlots -> SUBSET Tasks] /\ p.posted \in [AllSlots -> SUBSET Tasks]
  BY DEF Dispatch, Paired, Pools
<1>. HIDE DEF q
<1>3. t \in q.listeners[w] /\ \A v \in AllSlots : p.listeners[v] \subseteq q.listeners[v]
  BY <1>1, <1>2
<1>4. Grows(p, q)
  BY <1>1, <1>2 DEF Grows
<1>. QED  BY <1>1, <1>2, <1>3, <1>4 DEF InFlight, q

LEMMA RunJobGrows ==
    ASSUME size \in 1..MaxSize, NEW p, Paired(p), NEW t \in Tasks
    PROVE  LET q == RunJob(p, t)
           IN  /\ Grows(p, q) /\ InFlight(q, t)
               /\ \A u \in Tasks : InFlight(p, u) => InFlight(q, u)
<1>. DEFINE q == RunJob(p, t)
<1>0. p \in Pools
  BY DEF Paired
<1>1. CASE size <= 1
  <2>1. /\ q.queue = p.queue /\ q.listeners = p.listeners /\ q.posted = p.posted
        /\ q.inline = p.inline \union {t}
    BY <1>0, <1>1 DEF RunJob, Pools
  <2>. HIDE DEF q
  <2>2. Grows(p, q) /\ InFlight(q, t) /\ \A u \in Tasks : InFlight(p, u) => InFlight(q, u)
    BY <2>1 DEF Grows, InFlight
  <2>. QED  BY <2>2 DEF q
<1>2. CASE size > 1 /\ Idle(p) # {}
  <2>1. FirstIdle(p) \in Idle(p) /\ ~(size <= 1)
    BY <1>2, PoolAssumption DEF FirstIdle
  <2>2. q = Dispatch(p, FirstIdle(p), t)
    BY <1>2, <2>1 DEF RunJob
  <2>. HIDE DEF q
  <2>3. Grows(p, q) /\ InFlight(q, t) /\ \A u \in Tasks : InFlight(p, u) => InFlight(q, u)
    BY <2>1, <2>2, DispatchGrows
  <2>. QED  BY <2>3 DEF q
<1>3. CASE size > 1 /\ Idle(p) = {}
  <2>1. q = [p EXCEPT !.queue = Append(p.queue, t)]
    BY <1>3, PoolAssumption DEF RunJob
  <2>2. /\ q.queue = Append(p.queue, t) /\ q.listeners = p.listeners
        /\ q.posted = p.posted /\ q.inline = p.inline /\ p.queue \in Seq(Tasks)
    BY <1>0, <2>1 DEF Pools
  <2>. HIDE DEF q
  <2>3. /\ Len(q.queue) = Len(p.queue) + 1 /\ Len(p.queue) \in Nat
        /\ \A i \in 1..Len(p.queue) : q.queue[i] = p.queue[i]
        /\ q.queue[Len(q.queue)] = t
    BY <2>2
  <2>4. \E i \in 1..Len(q.queue) : q.queue[i] = t
    <3>. DEFINE n == Len(q.queue)
    <3>1. n = Len(p.queue) + 1 /\ Len(p.queue) \in Nat /\ q.queue[n] = t /\ n = Len(q.queue)
      BY <2>3
    <3>. HIDE DEF n
    <3>2. n \in 1..n
      BY <3>1
    <3>. QED  BY <3>1, <3>2
  <2>5. \A i \in 1..Len(p.queue) : i \in 1..Len(q.queue) /\ q.queue[i] = p.queue[i]
    BY <2>3
  <2>6. InFlight(q, t) /\ \A u \in Tasks : InFlight(p, u) => InFlight(q, u)
    BY <2>2, <2>4, <2>5 DEF InFlight
  <2>7. Grows(p, q)
    BY <2>2 DEF Grows
  <2>. QED  BY <2>6, <2>7 DEF q
<1>. QED  BY <1>1, <1>2, <1>3, PoolAssumption

LEMMA FreeGrows ==
    ASSUME Inv, NEW w \in pool.busy
    PROVE  LET q == Free(pool, w)
           IN  /\ Grows(Freed(pool, w), q)
               /\ \A u \in Tasks :
                    InFlight(pool, u) /\ u \notin pool.listeners[w] => InFlight(q, u)
<1>. DEFINE f == Freed(pool, w)
            q == Free(pool, w)
<1>0. /\ Paired(pool) /\ QueuedWhenBusy(pool) /\ size \in 1..MaxSize
      /\ \A v \in AllSlots : pool.posted[v] = {}
  BY DEF Inv, TypeOK
<1>1. w \in Slots /\ w \in AllSlots
  BY <1>0, PoolAssumption DEF Paired, Slots, AllSlots
<1>2. /\ f.busy = pool.busy \ {w} /\ f.listeners = [pool.listeners EXCEPT ![w] = {}]
      /\ f.posted = pool.posted /\ f.queue = pool.queue /\ f.inline = pool.inline
      /\ f \in Pools
  BY <1>0, <1>1 DEF Freed, Paired, Pools
<1>3. \A v \in AllSlots : v # w => f.listeners[v] = pool.listeners[v]
  BY <1>0, <1>2 DEF Paired, Pools
<1>4. q = DrainQueue(f)
  BY DEF Free, Freed
<1>5. Paired(f) /\ Idle(f) = Idle(pool) \union {w}
  <2>1. Paired(f)
    BY <1>0, <1>1, <1>2 DEF Paired, Pools
  <2>2. Idle(f) = Idle(pool) \union {w}
    BY <1>1, <1>2 DEF Idle
  <2>. QED  BY <2>1, <2>2
<1>6. Freed(pool, w) = f /\ Free(pool, w) = q
  OBVIOUS
<1>7. CASE pool.queue = <<>>
  <2>1. q = f
    BY <1>2, <1>4, <1>7 DEF DrainQueue
  <2>. HIDE DEF f, q
  <2>2. Grows(f, q)
    BY <2>1 DEF Grows
  <2>3. \A u \in Tasks :
          InFlight(pool, u) /\ u \notin pool.listeners[w] => InFlight(q, u)
    BY <1>2, <1>3, <2>1 DEF InFlight
  <2>. QED  BY <1>6, <2>2, <2>3
<1>8. CASE pool.queue # <<>>
  <2>. DEFINE g == [f EXCEPT !.queue = Tail(@)]
              h == Head(f.queue)
  <2>1. Idle(f) = {w} /\ FirstIdle(f) = w
    BY <1>0, <1>5, <1>8 DEF QueuedWhenBusy, FirstIdle
  <2>2. f.queue \in Seq(Tasks) /\ f.queue # <<>>
    BY <1>2, <1>8 DEF Pools
  <2>3. /\ h \in Tasks /\ h = f.queue[1] /\ Tail(f.queue) \in Seq(Tasks)
        /\ Len(f.queue) \in Nat /\ Len(Tail(f.queue)) = Len(f.queue) - 1
        /\ \A i \in 1..Len(Tail(f.queue)) : Tail(f.queue)[i] = f.queue[i + 1]
    BY <2>2
  <2>4. /\ g \in Pools /\ g.busy = f.busy /\ g.listeners = f.listeners
        /\ g.posted = f.posted /\ g.inline = f.inline /\ g.queue = Tail(f.queue)
    BY <1>2, <2>3 DEF Pools
  <2>5. Paired(g) /\ w \in Idle(g)
    BY <1>5, <2>1, <2>4 DEF Paired, Idle
  <2>6. q = Dispatch(g, w, h)
    BY <1>2, <1>4, <1>8, <2>1 DEF DrainQueue
  <2>. HIDE DEF g, h, f, q
  <2>7. /\ Grows(g, q) /\ InFlight(q, h)
        /\ \A u \in Tasks : InFlight(g, u) => InFlight(q, u)
    BY <1>0, <2>3, <2>5, <2>6, DispatchGrows
  <2>8. Grows(f, q)
    BY <2>4, <2>7 DEF Grows
  <2>9. ASSUME NEW u \in Tasks, InFlight(pool, u), u \notin pool.listeners[w], u # h
        PROVE  InFlight(g, u)
    <3>1. CASE u \in pool.inline
      BY <1>2, <2>4, <3>1 DEF InFlight
    <3>2. ASSUME NEW i \in 1..Len(pool.queue), pool.queue[i] = u
          PROVE  InFlight(g, u)
      <4>1. i # 1
        BY <1>2, <2>3, <2>9, <3>2
      <4>2. i - 1 \in 1..Len(g.queue) /\ i - 1 + 1 = i
        BY <1>2, <2>3, <2>4, <4>1
      <4>3. g.queue[i - 1] = u
        BY <1>2, <2>3, <2>4, <3>2, <4>2
      <4>. QED  BY <4>2, <4>3 DEF InFlight
    <3>3. ASSUME NEW v \in AllSlots, u \in pool.listeners[v]
          PROVE  InFlight(g, u)
      <4>1. u \in g.listeners[v]
        BY <1>3, <2>4, <2>9, <3>3
      <4>. QED  BY <4>1 DEF InFlight
    <3>. QED  BY <2>9, <3>1, <3>2, <3>3 DEF InFlight
  <2>. QED  BY <1>6, <2>7, <2>8, <2>9
<1>. HIDE DEF f, q
<1>. QED  BY <1>6, <1>7, <1>8

(* A posted job reaches its thread, or the thread is one of the broken ones.   *)
LEMMA PostTends ==
    ASSUME TypeOK, Alive, exit = None, NEW q, Paired(q), Post(q),
           Tended(q, held, sent', broken)
    PROVE  /\ Tended(pool', held', sent', broken)
           /\ \A u \in Tasks : InFlight(q, u) => InFlight(pool', u)
<1>1. /\ pool'.queue = q.queue /\ pool'.inline = q.inline
      /\ pool'.listeners = q.listeners
  BY DEF Post, Paired, Pools
<1>2. ASSUME NEW w \in AllSlots, NEW t \in q.listeners[w]
      PROVE  t \in held'[w] \/ w \in broken \/ \E answer \in sent'[w] : answer.job = t
  <2>1. w \in Slots
    BY DEF Paired
  <2>2. held[w] \subseteq held'[w] /\ (w \in alive => q.posted[w] \subseteq held'[w])
    BY DEF Post
  <2>3. w \in alive \/ w \in broken
    BY <2>1 DEF Alive
  <2>. QED  BY <2>2, <2>3 DEF Tended
<1>. QED  BY <1>1, <1>2 DEF Tended, InFlight

(* Growing a pool, and posting what was added, tends every listener.           *)
LEMMA GrowTends ==
    ASSUME NEW p, NEW q, Grows(p, q), NEW h, NEW s, NEW b, Tended(p, h, s, b)
    PROVE  Tended(q, h, s, b)
  BY DEF Grows, Tended

LEMMA ContinueKept ==
    ASSUME Inv, Kept, exit = None, NEW p, Paired(p), QueuedWhenBusy(p),
           NEW answer \in Answers, Continue(p, {answer.job}, answer), answer.outcome # "error",
           UNCHANGED <<size, alive, broken>>,
           Tended(p, held, sent', broken),
           \A u \in Tasks : InFlight(pool, u) /\ u # answer.job => InFlight(p, u)
    PROVE  Kept'
<1>. USE PoolAssumption
<1>0. TypeOK /\ Alive /\ answer # Unsettled /\ answer.job \in Tasks
  BY DEF Inv, Kept, Answers, Outcomes, Unsettled, Tasks
<1>1. /\ result' = [t \in Tasks |-> IF t = answer.job THEN answer ELSE result[t]]
      /\ exit' = None
      /\ phase' = "disposing" => phase = "disposing" \/ AllSettled(result')
  BY DEF Continue
<1>2. Alive' /\ ExitIsHonest'
  BY <1>0, <1>1 DEF Alive, ExitIsHonest, Slots, None
<1>3. /\ \A t \in Tasks : result'[t].outcome # "error"
      /\ phase' = "disposing" => AllSettled(result')
  BY <1>0, <1>1 DEF Kept, AllSettled
<1>4. /\ Tended(pool', held', sent', broken)
      /\ \A t \in 1..started' : result'[t] = Unsettled => InFlight(pool', t)
  <2>1. ASSUME NEW t \in 1..started, result'[t] = Unsettled
        PROVE  t \in Tasks /\ InFlight(p, t)
    <3>1. t \in Tasks
      BY <1>0 DEF TypeOK, Tasks
    <3>2. t # answer.job /\ result[t] = Unsettled
      BY <1>0, <1>1, <2>1, <3>1
    <3>. QED  BY <3>1, <3>2 DEF Kept
  <2>2. CASE started < N
    <3>. DEFINE q == RunJob(p, started + 1)
    <3>1. started' = started + 1 /\ Post(q) /\ started + 1 \in Tasks
      BY <1>0, <2>2 DEF Continue, Tasks, TypeOK
    <3>2. /\ Grows(p, q) /\ InFlight(q, started + 1) /\ Paired(q)
          /\ \A u \in Tasks : InFlight(p, u) => InFlight(q, u)
      <4>1. /\ Grows(p, q) /\ InFlight(q, started + 1)
            /\ \A u \in Tasks : InFlight(p, u) => InFlight(q, u)
        BY <1>0, <3>1, RunJobGrows DEF TypeOK
      <4>2. Paired(q)
        BY <1>0, <3>1, RunJobKeeps DEF TypeOK
      <4>. QED  BY <4>1, <4>2
    <3>. HIDE DEF q
    <3>3. Tended(q, held, sent', broken)
      BY <3>2, GrowTends
    <3>4. /\ Tended(pool', held', sent', broken)
          /\ \A u \in Tasks : InFlight(q, u) => InFlight(pool', u)
      BY <1>0, <3>1, <3>2, <3>3, PostTends
    <3>5. ASSUME NEW t \in 1..started', result'[t] = Unsettled
          PROVE  InFlight(pool', t)
      <4>1. CASE t = started + 1
        BY <3>1, <3>2, <3>4, <4>1
      <4>2. CASE t # started + 1
        <5>1. t \in 1..started
          BY <1>0, <3>1, <4>2 DEF TypeOK
        <5>. QED  BY <2>1, <3>2, <3>4, <3>5, <5>1
      <4>. QED  BY <4>1, <4>2
    <3>. QED  BY <3>4, <3>5
  <2>3. CASE ~(started < N)
    <3>1. started' = started /\ Post(p)
      BY <2>3 DEF Continue
    <3>2. /\ Tended(pool', held', sent', broken)
          /\ \A u \in Tasks : InFlight(p, u) => InFlight(pool', u)
      BY <1>0, <3>1, PostTends
    <3>. QED  BY <2>1, <3>1, <3>2
  <2>. QED  BY <2>2, <2>3
<1>. QED  BY <1>1, <1>2, <1>3, <1>4 DEF Kept

(* A rejected task ends the process.                                           *)
LEMMA RejectionKept ==
    ASSUME Inv, Kept, exit = None, NEW p, NEW t \in Tasks,
           NEW answer, answer.outcome = "error", Continue(p, {t}, answer),
           UNCHANGED <<size, alive>>, broken' \subseteq broken
    PROVE  Kept'
<1>1. result'[t].outcome = "error" /\ exit' = "1"
  BY DEF Continue
<1>2. Alive'
  BY <1>1 DEF Kept, Alive, Slots, None
<1>. QED  BY <1>1, <1>2 DEF Kept, ExitIsHonest, None

LEMMA InitKept == Init => Kept
<1>. SUFFICES ASSUME Init PROVE Kept
  OBVIOUS
<1>1. Alive
  BY DEF Init, Alive
<1>2. Tended(pool, held, sent, broken)
  BY DEF Init, Tended
<1>3. 1..started = {}
  BY DEF Init
<1>. QED  BY <1>1, <1>2, <1>3 DEF Init, Kept, ExitIsHonest, None, Unsettled

LEMMA StartTaskKept == Inv /\ Kept /\ StartTask => Kept'
<1>. SUFFICES ASSUME Inv, Kept, StartTask PROVE Kept'
  OBVIOUS
<1>. DEFINE q == RunJob(pool, started + 1)
<1>0. /\ started' = started + 1 /\ Post(q) /\ started + 1 \in Tasks /\ exit = None
      /\ UNCHANGED <<reporter, size, alive, sent, broken, result, phase, exit>>
  BY PoolAssumption
     DEF StartTask, Tasks, AtOnce, DefaultAtOnce, BasicAtOnce, JsonAtOnce, Inv, TypeOK
<1>1. TypeOK /\ Alive /\ Paired(pool) /\ QueuedWhenBusy(pool)
      /\ Tended(pool, held, sent, broken)
  BY <1>0 DEF Inv, Kept
<1>2. Paired(q)
  BY <1>0, <1>1, RunJobKeeps DEF TypeOK
<1>3. /\ Grows(pool, q) /\ InFlight(q, started + 1)
      /\ \A u \in Tasks : InFlight(pool, u) => InFlight(q, u)
  BY <1>0, <1>1, RunJobGrows DEF TypeOK
<1>. HIDE DEF q
<1>4. Tended(q, held, sent', broken)
  BY <1>0, <1>1, <1>3, GrowTends
<1>5. /\ Tended(pool', held', sent', broken)
      /\ \A u \in Tasks : InFlight(q, u) => InFlight(pool', u)
  BY <1>0, <1>1, <1>2, <1>4, PostTends
<1>6. ASSUME NEW t \in 1..started', result[t] = Unsettled
      PROVE  InFlight(pool', t)
  <2>1. CASE t = started + 1
    BY <1>0, <1>3, <1>5, <2>1
  <2>2. CASE t # started + 1
    <3>1. t \in 1..started /\ t \in Tasks
      BY <1>0, <1>1, <2>2, PoolAssumption DEF TypeOK, Tasks
    <3>. QED  BY <1>0, <1>3, <1>5, <1>6, <3>1 DEF Kept
  <2>. QED  BY <2>1, <2>2
<1>7. Alive' /\ ExitIsHonest'
  BY <1>0, <1>1 DEF Alive, Slots, ExitIsHonest, None
<1>8. /\ \A t \in Tasks : result'[t].outcome # "error"
      /\ phase' = "disposing" => AllSettled(result')
  BY <1>0 DEF Kept
<1>. QED  BY <1>0, <1>5, <1>6, <1>7, <1>8 DEF Kept

LEMMA OnMessageKept ==
    ASSUME Inv, Kept, NEW w \in AllSlots, OnMessage(w)
    PROVE  Kept'
<1>1. PICK answer \in sent[w] :
        /\ sent' = [sent EXCEPT ![w] = @ \ {answer}]
        /\ IF pool.listeners[w] = {}
           THEN UNCHANGED <<pool, held, result, started, phase, exit>>
           ELSE Continue(Free(pool, w), pool.listeners[w], answer)
  BY DEF OnMessage
<1>2. UNCHANGED <<reporter, size, alive, broken>> /\ exit = None
  BY DEF OnMessage, Waiting
<1>3. Threads(pool, held, sent) /\ Paired(pool) /\ TypeOK /\ answer \in Answers
  BY <1>1, <1>2 DEF Inv, TypeOK
<1>4. pool.listeners[w] = {answer.job} /\ w \in pool.busy
  BY <1>3 DEF Threads, Paired
<1>. DEFINE q == Free(pool, w)
<1>5. Continue(q, {answer.job}, answer)
  BY <1>1, <1>4
<1>6. CASE answer.outcome = "error"
  <2>. HIDE DEF q
  <2>1. answer.job \in Tasks
    BY <1>3 DEF Answers
  <2>. QED  BY <1>2, <1>5, <1>6, <2>1, RejectionKept
<1>7. CASE answer.outcome # "error"
  <2>1. /\ Paired(q) /\ QueuedWhenBusy(q) /\ Grows(Freed(pool, w), q)
        /\ \A u \in Tasks :
             InFlight(pool, u) /\ u \notin pool.listeners[w] => InFlight(q, u)
    BY <1>4, FreeInv, FreeGrows
  <2>2. /\ Freed(pool, w).listeners = [pool.listeners EXCEPT ![w] = {}]
        /\ Freed(pool, w).posted = pool.posted
        /\ pool.listeners \in [AllSlots -> SUBSET Tasks]
    BY <1>3, <1>4, FreedKeeps DEF TypeOK, Pools
  <2>3. \A v \in AllSlots : v # w => sent'[v] = sent[v]
    BY <1>1, <1>3 DEF TypeOK
  <2>4. Tended(pool, held, sent, broken)
    BY <1>2 DEF Kept
  <2>5. Tended(Freed(pool, w), held, sent', broken)
    BY <2>2, <2>3, <2>4 DEF Tended
  <2>. HIDE DEF q
  <2>6. Tended(q, held, sent', broken)
    BY <2>1, <2>5, GrowTends
  <2>7. \A u \in Tasks : InFlight(pool, u) /\ u # answer.job => InFlight(q, u)
    BY <1>4, <2>1
  <2>. QED  BY <1>2, <1>3, <1>5, <1>7, <2>1, <2>6, <2>7, ContinueKept
<1>. QED  BY <1>6, <1>7

LEMMA OnErrorKept ==
    ASSUME Inv, Kept, NEW w \in AllSlots, OnError(w)
    PROVE  Kept'
<1>1. /\ broken' = broken \ {w} /\ w \in broken /\ exit = None
      /\ UNCHANGED <<reporter, size, alive, sent>>
  BY DEF OnError, Waiting
<1>2. CASE pool.listeners[w] = {}
  <2>1. exit' = "1" /\ UNCHANGED <<pool, held, result, started, phase>>
    BY <1>2 DEF OnError
  <2>2. Alive' /\ alive' # Slots'
    BY <1>1, <2>1 DEF Kept, Alive, Slots, None
  <2>. QED  BY <2>1, <2>2 DEF Kept, ExitIsHonest, None
<1>3. CASE pool.listeners[w] # {}
  <2>1. PICK t \in pool.listeners[w] :
          Continue(Free(pool, w), pool.listeners[w], [job |-> t, outcome |-> "error"])
    BY <1>3 DEF OnError
  <2>2. pool.listeners[w] = {t} /\ t \in Tasks
    BY DEF Inv, Paired, Pools
  <2>3. Continue(Free(pool, w), {t}, [job |-> t, outcome |-> "error"])
    BY <2>1, <2>2
  <2>4. [job |-> t, outcome |-> "error"].outcome = "error" /\ broken' \subseteq broken
    BY <1>1
  <2>. QED  BY <1>1, <2>2, <2>3, <2>4, RejectionKept
<1>. QED  BY <1>2, <1>3

LEMMA InlineSettlesKept ==
    ASSUME Inv, Kept, NEW t \in Tasks, InlineSettles(t)
    PROVE  Kept'
<1>1. PICK outcome \in Outcomes :
        Continue([pool EXCEPT !.inline = @ \ {t}], {t}, [job |-> t, outcome |-> outcome])
  BY DEF InlineSettles
<1>2. /\ UNCHANGED <<reporter, size, alive, sent, broken>> /\ exit = None
  BY DEF InlineSettles, Waiting
<1>. DEFINE p == [pool EXCEPT !.inline = @ \ {t}]
            answer == [job |-> t, outcome |-> outcome]
<1>3. answer \in Answers /\ answer.job = t /\ answer.outcome = outcome
  BY DEF Answers
<1>4. Continue(p, {answer.job}, answer)
  BY <1>1, <1>3
<1>5. Paired(pool) /\ QueuedWhenBusy(pool) /\ pool \in Pools
  BY DEF Inv, TypeOK
<1>6. /\ p \in Pools /\ p.busy = pool.busy /\ p.listeners = pool.listeners
      /\ p.queue = pool.queue /\ p.posted = pool.posted
      /\ p.inline = pool.inline \ {t}
  BY <1>5 DEF Pools
<1>7. Paired(p) /\ QueuedWhenBusy(p)
  BY <1>5, <1>6 DEF Paired, QueuedWhenBusy, Idle
<1>8. Tended(p, held, sent', broken)
  BY <1>2, <1>6 DEF Kept, Tended
<1>9. \A u \in Tasks : InFlight(pool, u) /\ u # answer.job => InFlight(p, u)
  BY <1>3, <1>6 DEF InFlight
<1>. HIDE DEF p, answer
<1>10. CASE answer.outcome = "error"
  BY <1>2, <1>3, <1>4, <1>10, RejectionKept
<1>11. CASE answer.outcome # "error"
  BY <1>2, <1>3, <1>4, <1>7, <1>8, <1>9, <1>11, ContinueKept
<1>. QED  BY <1>10, <1>11

LEMMA ExitKept == Inv /\ Kept /\ Exit => Kept'
<1>. SUFFICES ASSUME Inv, Kept, Exit PROVE Kept'
  OBVIOUS
<1>1. /\ exit' = IF \E t \in Tasks : result[t].outcome = "violated" THEN "2" ELSE "0"
      /\ alive' = {} /\ exit = None /\ (phase = "disposing" \/ N = 0)
  BY DEF Exit
<1>2. UNCHANGED <<reporter, size, pool, sent, broken, result, started, phase>>
  BY DEF Exit
<1>3. \A t \in Tasks : result[t] # Unsettled /\ result[t].outcome # "error"
  <2>1. CASE phase = "disposing"
    BY <1>1, <2>1 DEF Kept, AllSettled
  <2>2. CASE N = 0
    BY <2>2 DEF Tasks
  <2>. QED  BY <1>1, <2>1, <2>2
<1>4. \A t \in Tasks : result[t].outcome \in {"pass", "violated"}
  BY <1>3 DEF Inv, TypeOK, Answers, Outcomes
<1>5. ExitIsHonest'
  BY <1>1, <1>2, <1>4 DEF ExitIsHonest
<1>6. Alive' /\ exit' # None
  BY <1>1, <1>2 DEF Kept, Alive, Slots, None
<1>. QED  BY <1>5, <1>6 DEF Kept

LEMMA AnswerKept ==
    ASSUME Inv, Kept, NEW w \in AllSlots, NEW t \in Tasks, Answer(w, t)
    PROVE  Kept'
<1>1. PICK outcome \in Outcomes :
        sent' = [sent EXCEPT ![w] = @ \union {[job |-> t, outcome |-> outcome]}]
  BY DEF Answer
<1>2. /\ exit = None /\ held' = [held EXCEPT ![w] = @ \ {t}]
      /\ UNCHANGED <<reporter, size, pool, alive, broken, result, started, phase, exit>>
  BY DEF Answer
<1>. DEFINE answer == [job |-> t, outcome |-> outcome]
<1>3. answer.job = t /\ answer \in sent'[w]
  BY <1>1 DEF Inv, TypeOK
<1>. HIDE DEF answer
<1>4. /\ \A v \in AllSlots : \A u \in held[v] : u \in held'[v] \/ (v = w /\ u = t)
      /\ \A v \in AllSlots : sent[v] \subseteq sent'[v]
  BY <1>1, <1>2 DEF Inv, TypeOK
<1>5. Tended(pool, held, sent, broken)
  BY <1>2 DEF Kept
<1>6. Tended(pool', held', sent', broken')
  BY <1>2, <1>3, <1>4, <1>5 DEF Tended
<1>7. Alive' /\ ExitIsHonest'
  BY <1>2 DEF Kept, Alive, Slots, ExitIsHonest, None
<1>. QED  BY <1>2, <1>6, <1>7 DEF Kept

LEMMA DieKept ==
    ASSUME Inv, Kept, NEW w \in AllSlots, Die(w)
    PROVE  Kept'
<1>1. /\ exit = None /\ w \in alive /\ alive' = alive \ {w}
      /\ held' = [held EXCEPT ![w] = {}] /\ broken' = broken \union {w}
      /\ UNCHANGED <<reporter, size, pool, sent, result, started, phase, exit>>
  BY DEF Die
<1>2. \A v \in AllSlots : v # w => held'[v] = held[v]
  BY <1>1 DEF Inv, TypeOK
<1>3. Tended(pool, held, sent, broken)
  BY <1>1 DEF Kept
<1>4. Tended(pool', held', sent', broken')
  BY <1>1, <1>2, <1>3 DEF Tended
<1>5. Alive' /\ ExitIsHonest'
  BY <1>1 DEF Kept, Alive, Slots, ExitIsHonest, None
<1>. QED  BY <1>1, <1>4, <1>5 DEF Kept

LEMMA StutterKept == Kept /\ UNCHANGED vars => Kept'
  BY DEF vars, Kept, Alive, Slots, Tended, InFlight, ExitIsHonest, AllSettled, None

LEMMA KeptInvariant == Spec => []Kept
<1>1. Inv /\ Kept /\ [Next]_vars => Kept'
  <2>. SUFFICES ASSUME Inv, Kept, [Next]_vars PROVE Kept'
    OBVIOUS
  <2>1. CASE StartTask
    BY <2>1, StartTaskKept
  <2>2. CASE Exit
    BY <2>2, ExitKept
  <2>3. CASE Ended
    BY <2>3, StutterKept DEF Ended
  <2>4. CASE \E t \in Tasks : InlineSettles(t)
    BY <2>4, InlineSettlesKept
  <2>5. ASSUME NEW w \in AllSlots, OnMessage(w) PROVE Kept'
    BY <2>5, OnMessageKept
  <2>6. ASSUME NEW w \in AllSlots, OnError(w) PROVE Kept'
    BY <2>6, OnErrorKept
  <2>7. ASSUME NEW w \in AllSlots, Die(w) PROVE Kept'
    BY <2>7, DieKept
  <2>8. ASSUME NEW w \in AllSlots, NEW t \in Tasks, Answer(w, t) PROVE Kept'
    BY <2>8, AnswerKept
  <2>9. CASE UNCHANGED vars
    BY <2>9, StutterKept
  <2>. QED  BY <2>1, <2>2, <2>3, <2>4, <2>5, <2>6, <2>7, <2>8, <2>9 DEF Next
<1>. QED  BY <1>1, InitKept, Invariant, PTL DEF Spec

(* As long as the process lives, a started task is settled, queued, or has a   *)
(* thread, an answer or an error event that will settle it, and nothing is in  *)
(* flight when main disposes of the pool: pool.ts:54 and :92 strand no job.    *)
THEOREM NothingStranded == Spec => []NoJobStranded
<1>1. Inv /\ Kept => NoJobStranded
  <2>. SUFFICES ASSUME Inv, Kept, exit = None
                PROVE  /\ \A t \in 1..started : result[t] = Unsettled => WillSettle(t)
                       /\ phase = "disposing" => \A t \in Tasks : result[t] # Unsettled
    BY DEF NoJobStranded
  <2>1. \A t : InFlight(pool, t) => WillSettle(t)
    BY DEF Inv, Kept, Tended, InFlight, WillSettle
  <2>. QED  BY <2>1 DEF Kept, AllSettled
<1>. QED  BY <1>1, Invariant, KeptInvariant, PTL

(* The exit code is 0 or 2 only when every target was answered, 2 exactly when *)
(* one is violated, and 1 only after a failed target or a dead thread.         *)
THEOREM HonestExit == Spec => []ExitIsHonest
<1>1. Kept => ExitIsHonest
  BY DEF Kept
<1>. QED  BY <1>1, KeptInvariant, PTL
=============================================================================
