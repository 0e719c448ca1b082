---------------------------- MODULE CommandPool ----------------------------
(***************************************************************************)
(* One multi-target run of the CLI (check, extract, generate): main() in    *)
(* cli.ts builds a task per target and a pool of worker threads, a          *)
(* reporter decides which tasks are started when, the pool hands each       *)
(* started task to a thread, and main() ends the process.                   *)
(*                                                                         *)
(* The main thread is event driven: an action below is one event (a         *)
(* message or an error of a worker) with the listener it fires, the         *)
(* promise continuations that follow before the next event, and so the      *)
(* start of the next task or the end of the process.  The workers run in    *)
(* parallel with it.                                                        *)
(***************************************************************************)
EXTENDS Naturals, Sequences, FiniteSets

CONSTANTS N,           \* targets of the run
          MaxSize,     \* largest --concurrency
          MaxFaults    \* bound: worker threads that die in one run

ASSUME PoolAssumption == N \in Nat /\ MaxSize \in Nat /\ MaxFaults \in Nat

VARIABLES reporter,    \* --reporter
          size,        \* --concurrency: size of the pool, limit of the reporter
          pool,        \* the state of createCommandPool, see Pools
          alive,       \* slots whose thread runs
          held,        \* slot -> jobs its thread has received and not answered
          sent,        \* slot -> answers posted and not yet delivered
          broken,      \* slots with an 'error' event not yet delivered
          result,      \* task -> what its promise settled with
          started,     \* tasks the reporter has started, in index order
          phase,       \* "running", then "disposing" while main awaits dispose()
          exit         \* exit code of the process, or None
vars == <<reporter, size, pool, alive, held, sent, broken, result, started, phase, exit>>

None == "none"
Tasks == 1..N
AllSlots == 1..MaxSize
Reporters == {"default", "basic", "json"}
(* What runCheckCommand ends with: exit code 0, exit code 2, or a rejection.  *)
Outcomes == {"pass", "violated", "error"}
(* A WorkerResponse; job is not in the message, only in the properties.       *)
Answers == [job : Tasks, outcome : Outcomes]
Unsettled == [job |-> 0, outcome |-> "none"]    \* the promise is pending
Slots == IF size <= 1 THEN {} ELSE 1..size      \* createInlinePool has none

Pools == [busy : SUBSET AllSlots,               \* PooledWorker.busy
          listeners : [AllSlots -> SUBSET Tasks],  \* jobs with listeners on the worker
          queue : Seq(Tasks),                   \* entries waiting for a worker
          posted : [AllSlots -> SUBSET Tasks],  \* jobs posted by the current event
          inline : SUBSET Tasks]                \* jobs the main thread runs itself

-----------------------------------------------------------------------------
(* The pool: synchronous functions of the main thread.                        *)

(* Mutant: any slot is taken for idle.                                        *)
IdleAny(p) == Slots
Idle(p) == Slots \ p.busy

Dispatch(p, w, t) == [p EXCEPT !.busy = @ \union {w},
                               !.listeners[w] = @ \union {t},
                               !.posted[w] = @ \union {t}]

(* Mutant: slots counted from zero.                                           *)
FirstIdleFromZero(p) == (CHOOSE w \in Idle(p) : TRUE) - 1
(* pooled.find takes the first idle slot; which one it is makes no difference. *)
FirstIdle(p) == CHOOSE w \in Idle(p) : TRUE

RunJob(p, t) ==
    IF size <= 1 THEN [p EXCEPT !.inline = @ \union {t}]
    ELSE IF Idle(p) # {} THEN Dispatch(p, FirstIdle(p), t)
    ELSE [p EXCEPT !.queue = Append(@, t)]

(* Mutant: nothing looks at the queue when a worker becomes free.             *)
DrainNothing(p) == p
DrainQueue(p) ==
    IF p.queue = <<>> \/ Idle(p) = {} THEN p
    ELSE Dispatch([p EXCEPT !.queue = Tail(@)], FirstIdle(p), Head(p.queue))

(* What onMessage and onError do to their slot.                               *)
Free(p, w) == DrainQueue([p EXCEPT !.busy = @ \ {w}, !.listeners[w] = {}])

(* postMessage: a live thread receives the job, a dead one never will.        *)
Post(p) == /\ pool' = [p EXCEPT !.posted = [w \in AllSlots |-> {}]]
           /\ held' = [w \in AllSlots |->
                         IF w \in alive THEN held[w] \union p.posted[w] ELSE held[w]]

-----------------------------------------------------------------------------
(* Tasks the reporter starts before it first waits for one: DefaultReporter     *)
(* runs as many loops as --concurrency allows, BasicReporter one task after   *)
(* the other, JsonReporter all of them.                                       *)
DefaultAtOnce == IF size <= N THEN size ELSE N
BasicAtOnce == IF N = 0 THEN 0 ELSE 1
JsonAtOnce == N
AtOnce == CASE reporter = "json" -> JsonAtOnce
            [] reporter = "basic" -> BasicAtOnce
            [] OTHER -> DefaultAtOnce

Init ==
    /\ reporter \in Reporters /\ size \in 1..MaxSize
    /\ pool = [busy |-> {}, listeners |-> [w \in AllSlots |-> {}], queue |-> <<>>,
               posted |-> [w \in AllSlots |-> {}], inline |-> {}]
    /\ alive = Slots
    /\ held = [w \in AllSlots |-> {}] /\ sent = [w \in AllSlots |-> {}]
    /\ broken = {}
    /\ result = [t \in Tasks |-> Unsettled]
    /\ started = 0 /\ phase = "running" /\ exit = None

AllSettled(res) == \A t \in Tasks : res[t] # Unsettled

(* The reporter starts its first tasks without giving way to an event.        *)
StartTask ==
    /\ exit = None /\ started < AtOnce
    /\ started' = started + 1
    /\ Post(RunJob(pool, started + 1))
    /\ UNCHANGED <<reporter, size, alive, sent, broken, result, phase, exit>>

(* The main thread is back in its event loop.                                 *)
Waiting == exit = None /\ started >= AtOnce

(* The continuations of a settled promise.  A rejection reaches main().catch  *)
(* through the reporter: no reporter waits for the other tasks.  A resolved    *)
(* task lets the reporter start the next one; JsonReporter started all.       *)
(* Mutant: a rejected task is taken for a settled one.                        *)
ContinueAnyway(p, ts, answer) ==
    /\ result' = [t \in Tasks |-> IF t \in ts THEN answer ELSE result[t]]
    /\ exit' = exit
    /\ IF started < N
       THEN started' = started + 1 /\ Post(RunJob(p, started + 1))
       ELSE UNCHANGED started /\ Post(p)
    /\ phase' = IF AllSettled(result') THEN "disposing" ELSE phase
Continue(p, ts, answer) ==
    /\ result' = [t \in Tasks |-> IF t \in ts THEN answer ELSE result[t]]
    /\ exit' = IF answer.outcome = "error" THEN "1" ELSE exit
    /\ IF answer.outcome # "error" /\ started < N
       THEN started' = started + 1 /\ Post(RunJob(p, started + 1))
       ELSE UNCHANGED started /\ Post(p)
    /\ phase' = IF answer.outcome # "error" /\ AllSettled(result')
                THEN "disposing" ELSE phase

(* 'message': every listener on the worker takes the answer for its own.       *)
OnMessage(w) ==
    /\ Waiting
    /\ \E answer \in sent[w] :
         /\ sent' = [sent EXCEPT ![w] = @ \ {answer}]
         /\ IF pool.listeners[w] = {}
            THEN UNCHANGED <<pool, held, result, started, phase, exit>>
            ELSE Continue(Free(pool, w), pool.listeners[w], answer)
    /\ UNCHANGED <<reporter, size, alive, broken>>

(* 'error' of a worker with a job: the job is rejected.  The slot is marked    *)
(* idle although its thread is dead.  Without a listener the event is thrown  *)
(* as an uncaught exception of the main thread.                               *)
OnError(w) ==
    /\ Waiting /\ w \in broken
    /\ broken' = broken \ {w}
    /\ IF pool.listeners[w] = {}
       THEN exit' = "1" /\ UNCHANGED <<pool, held, result, started, phase>>
       ELSE \E t \in pool.listeners[w] :
              Continue(Free(pool, w), pool.listeners[w], [job |-> t, outcome |-> "error"])
    /\ UNCHANGED <<reporter, size, alive, sent>>

(* size <= 1: the command runs in the main thread and its promise settles.    *)
InlineSettles(t) ==
    /\ Waiting /\ t \in pool.inline
    /\ \E outcome \in Outcomes :
         Continue([pool EXCEPT !.inline = @ \ {t}], {t}, [job |-> t, outcome |-> outcome])
    /\ UNCHANGED <<reporter, size, alive, sent, broken>>

(* Mutant: the last target alone decides the code.                            *)
ExitWithLast ==
    /\ exit = None
    /\ phase = "disposing" \/ N = 0
    /\ exit' = IF result[N].outcome = "violated" THEN "2" ELSE "0"
    /\ alive' = {} /\ held' = [w \in AllSlots |-> {}]
    /\ UNCHANGED <<reporter, size, pool, sent, broken, result, started, phase>>
(* The reporter returned: main awaits dispose(), which ends every thread.     *)
Exit ==
    /\ exit = None
    /\ phase = "disposing" \/ N = 0
    /\ exit' = IF \E t \in Tasks : result[t].outcome = "violated" THEN "2" ELSE "0"
    /\ alive' = {} /\ held' = [w \in AllSlots |-> {}]
    /\ UNCHANGED <<reporter, size, pool, sent, broken, result, started, phase>>

-----------------------------------------------------------------------------
(* A worker thread.  Its handler is async: of the jobs it holds any may end    *)
(* next.  A command that throws is answered with ok = false.                  *)
Answer(w, t) ==
    /\ exit = None /\ w \in alive /\ t \in held[w]
    /\ held' = [held EXCEPT ![w] = @ \ {t}]
    /\ \E outcome \in Outcomes :
         sent' = [sent EXCEPT ![w] = @ \union {[job |-> t, outcome |-> outcome]}]
    /\ UNCHANGED <<reporter, size, pool, alive, broken, result, started, phase, exit>>

(* A stray error or a full heap ends the thread, with or without a job.       *)
Die(w) ==
    /\ exit = None /\ w \in alive
    /\ Cardinality(Slots \ alive) < MaxFaults
    /\ alive' = alive \ {w} /\ held' = [held EXCEPT ![w] = {}]
    /\ broken' = broken \union {w}
    /\ UNCHANGED <<reporter, size, pool, sent, result, started, phase, exit>>

Ended == exit # None /\ UNCHANGED vars     \* the process is gone

Next == \/ StartTask \/ Exit \/ Ended
        \/ \E t \in Tasks : InlineSettles(t)
        \/ \E w \in AllSlots : \/ OnMessage(w) \/ OnError(w) \/ Die(w)
                               \/ \E t \in Tasks : Answer(w, t)

(* Node delivers events, and every command ends (or its thread dies).         *)
Fairness ==
    /\ WF_vars(StartTask) /\ WF_vars(Exit)
    /\ \A t \in Tasks : WF_vars(InlineSettles(t))
    /\ \A w \in AllSlots : /\ WF_vars(OnMessage(w)) /\ WF_vars(OnError(w))
                           /\ \A t \in Tasks : WF_vars(Answer(w, t))

Spec == Init /\ [][Next]_vars /\ Fairness

-----------------------------------------------------------------------------
TypeOK ==
    /\ reporter \in Reporters /\ size \in 1..MaxSize
    /\ pool \in Pools
    /\ alive \subseteq AllSlots /\ broken \subseteq AllSlots
    /\ held \in [AllSlots -> SUBSET Tasks]
    /\ sent \in [AllSlots -> SUBSET Answers]
    /\ result \in [Tasks -> Answers \union {Unsettled}]
    /\ started \in 0..N
    /\ phase \in {"running", "disposing"}
    /\ exit \in {None, "0", "1", "2"}

(* An answer carries no job id: a task's promise settles with the result of    *)
(* its own command only because a thread never has two jobs (dispatch takes   *)
(* slots that are not busy, pool.ts:74 and :87).                              *)
AnswersMatch ==
    \A t \in Tasks : result[t] # Unsettled => result[t].job = t

(* drainQueue hands out one entry per event; no thread idles while an entry    *)
(* waits all the same, and the queue is only ever used by the JSON reporter,  *)
(* the one that starts more tasks than there are workers.                     *)
NoIdleWhileQueued ==
    pool.queue # <<>> => Idle(pool) = {} /\ reporter = "json"

(* onError marks the slot of a dead thread idle, and a job posted to it never  *)
(* settles (pool.ts:54).  As long as the process lives every started task     *)
(* that is not settled is queued, or has a thread, an answer or an error      *)
(* event that will settle it; and nothing is in flight when main disposes of  *)
(* the pool (pool.ts:92).                                                     *)
WillSettle(t) ==
    \/ t \in pool.inline
    \/ \E i \in 1..Len(pool.queue) : pool.queue[i] = t
    \/ \E w \in AllSlots : /\ t \in pool.listeners[w]
                            /\ \/ t \in held[w] \/ w \in broken
                               \/ \E answer \in sent[w] : answer.job = t
NoJobStranded ==
    exit = None =>
       /\ \A t \in 1..started : result[t] = Unsettled => WillSettle(t)
       /\ phase = "disposing" => \A t \in Tasks : result[t] # Unsettled

(* The exit code tells the truth about all targets: 0 and 2 are only given     *)
(* when every target was answered, 2 when one of them is violated, and 1      *)
(* when a target failed or a thread died (cli.ts:950, :989, :992).            *)
ExitIsHonest ==
    /\ exit \in {"0", "2"} =>
         \A t \in Tasks : result[t].outcome \in {"pass", "violated"}
    /\ exit \in {"0", "2"} =>
         (exit = "2" <=> \E t \in Tasks : result[t].outcome = "violated")
    /\ exit = "1" => \/ \E t \in Tasks : result[t].outcome = "error"
                     \/ alive # Slots

(* The process ends, whatever threads die when, as long as commands end.      *)
Terminates == <>(exit # None)
=============================================================================
