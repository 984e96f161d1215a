------------------------------ MODULE TaskQueue ------------------------------
(***************************************************************************)
(* The blocking task queue of pkg/queue together with its callers in       *)
(* core: the pool of workers that loop over Get, Execute and Done, the     *)
(* handlers that Add a task, the handlers that cancel one by identifier,   *)
(* and the shutdown path that closes the queue.                            *)
(*                                                                         *)
(* sync.RWMutex and sync.Cond are modelled by what they do: `mu` names the *)
(* worker that holds the lock across the steps of Get (every other         *)
(* operation is one critical section, so it needs the lock to be free),    *)
(* Wait releases the lock and parks the worker in one step, Signal moves   *)
(* one parked worker to "woken", Broadcast all of them, and a woken worker *)
(* must take the lock again before it rechecks its condition.              *)
(*                                                                         *)
(* A task's context can be cancelled without the lock: CancelTask looks    *)
(* the task up under the lock and cancels it after the unlock, and a       *)
(* parent context can end at any time.                                     *)
(***************************************************************************)
EXTENDS Naturals, Sequences, FiniteSets

CONSTANTS Tasks,       \* task objects; core.AddTask makes a new one per call
          IDs,         \* task identifiers
          IdOf,        \* Task.ID
          Workers,     \* the goroutines started by core.Run
          Cancellers,  \* concurrent callers of CancelTask
          NoTask,      \* the nil *Task
          NoOne        \* mu is free

ASSUME TasksAssumption ==
    /\ IdOf \in [Tasks -> IDs]
    /\ NoTask \notin Tasks
    /\ NoOne \notin Workers
    /\ IsFiniteSet(Workers)

VARIABLES
    tasks,           \* the linked list, front first
    taskMap,         \* every task not yet Done, by ID
    runningTaskMap,  \* every task handed to a worker and not yet Done, by ID
    closed,
    mu,              \* the worker holding the lock inside Get, or NoOne
    cancelled,       \* tasks whose context is done
    pc,              \* where each worker is in its loop
    work,            \* the task each worker is executing
    handle,          \* the task a CancelTask call has looked up, not cancelled yet
    outcome          \* history: how the life of each task object ended

queueVars == <<tasks, taskMap, runningTaskMap, closed>>
vars == <<tasks, taskMap, runningTaskMap, closed, mu, cancelled, pc, work, handle, outcome>>

PC == {"get", "loop", "waiting", "woken", "running", "stopped"}
Outcomes == {"none", "rejected", "dropped", "finished"}

At(l) == {w \in Workers : pc[w] = l}

Queued == {tasks[i] : i \in 1..Len(tasks)}

Running == {work[w] : w \in At("running")}

Init ==
    /\ tasks = <<>>
    /\ taskMap = [i \in IDs |-> NoTask]
    /\ runningTaskMap = [i \in IDs |-> NoTask]
    /\ closed = FALSE
    /\ mu = NoOne
    /\ cancelled = {}
    /\ pc = [w \in Workers |-> "get"]
    /\ work = [w \in Workers |-> NoTask]
    /\ handle = [c \in Cancellers |-> NoTask]
    /\ outcome = [t \in Tasks |-> "none"]

------------------------------------------------------------------------------
(* sync.Cond *)

\* Signal wakes one parked worker, if there is one.
Signal ==
    IF At("waiting") = {}
    THEN UNCHANGED pc
    ELSE \E w \in At("waiting") : pc' = [pc EXCEPT ![w] = "woken"]

\* Variant: Close wakes a single waiter.
WakeOne == Signal

Broadcast ==
    pc' = [w \in Workers |-> IF pc[w] = "waiting" THEN "woken" ELSE pc[w]]

------------------------------------------------------------------------------
(* Add *)

\* A task object is submitted once, by the call that created it.
Fresh(t) == outcome[t] = "none" /\ t \notin Queued \cup Running

\* Variant: the duplicate check is missing.
AcceptDuplicates(t) == ~closed /\ t \notin cancelled

Acceptable(t) == ~closed /\ taskMap[IdOf[t]] = NoTask /\ t \notin cancelled

\* Variant: the waiter is signalled only when the list was empty.
AddSignalsEmptyOnly(t) ==
    /\ mu = NoOne
    /\ Fresh(t)
    /\ Acceptable(t)
    /\ tasks' = Append(tasks, t)
    /\ taskMap' = [taskMap EXCEPT ![IdOf[t]] = t]
    /\ IF tasks = <<>> THEN Signal ELSE UNCHANGED pc
    /\ UNCHANGED <<runningTaskMap, closed, mu, cancelled, work, handle, outcome>>

\* Variant: Add does not signal at all.
AddNoSignal(t) ==
    /\ mu = NoOne
    /\ Fresh(t)
    /\ Acceptable(t)
    /\ tasks' = Append(tasks, t)
    /\ taskMap' = [taskMap EXCEPT ![IdOf[t]] = t]
    /\ UNCHANGED <<runningTaskMap, closed, mu, cancelled, pc, work, handle, outcome>>

Add(t) ==
    /\ mu = NoOne
    /\ Fresh(t)
    /\ Acceptable(t)
    /\ tasks' = Append(tasks, t)
    /\ taskMap' = [taskMap EXCEPT ![IdOf[t]] = t]
    /\ Signal
    /\ UNCHANGED <<runningTaskMap, closed, mu, cancelled, work, handle, outcome>>

\* Closed queue, known identifier or a context that is already done: the
\* caller gets an error and the task object is never submitted.
AddRejected(t) ==
    /\ mu = NoOne
    /\ Fresh(t)
    /\ ~Acceptable(t)
    /\ outcome' = [outcome EXCEPT ![t] = "rejected"]
    /\ UNCHANGED <<tasks, taskMap, runningTaskMap, closed, mu, cancelled, pc, work, handle>>

------------------------------------------------------------------------------
(* Get, called by the worker loop *)

GetLock(w) ==
    /\ pc[w] \in {"get", "woken"}
    /\ mu = NoOne
    /\ mu' = w
    /\ pc' = [pc EXCEPT ![w] = "loop"]
    /\ UNCHANGED <<tasks, taskMap, runningTaskMap, closed, cancelled, work, handle, outcome>>

\* Nothing queued and not closed: Wait releases the lock and parks.
GetWait(w) ==
    /\ pc[w] = "loop"
    /\ tasks = <<>>
    /\ ~closed
    /\ mu' = NoOne
    /\ pc' = [pc EXCEPT ![w] = "waiting"]
    /\ UNCHANGED <<tasks, taskMap, runningTaskMap, closed, cancelled, work, handle, outcome>>

\* Variant: skipping a cancelled task leaves its identifier taken.
DropKeepsId(w) ==
    /\ pc[w] = "loop"
    /\ tasks # <<>>
    /\ Head(tasks) \in cancelled
    /\ tasks' = Tail(tasks)
    /\ outcome' = [outcome EXCEPT ![Head(tasks)] = "dropped"]
    /\ UNCHANGED <<taskMap, runningTaskMap, closed, mu, cancelled, pc, work, handle>>

\* A cancelled task at the front is skipped and its identifier released; the
\* lock is kept and the loop goes on.
GetDrop(w) ==
    /\ pc[w] = "loop"
    /\ tasks # <<>>
    /\ Head(tasks) \in cancelled
    /\ tasks' = Tail(tasks)
    /\ taskMap' = [taskMap EXCEPT ![IdOf[Head(tasks)]] = NoTask]
    /\ outcome' = [outcome EXCEPT ![Head(tasks)] = "dropped"]
    /\ UNCHANGED <<runningTaskMap, closed, mu, cancelled, pc, work, handle>>

\* Variant: the task is moved from one map to the other when it starts.
TakeReleasesId(w) ==
    /\ pc[w] = "loop"
    /\ tasks # <<>>
    /\ Head(tasks) \notin cancelled
    /\ tasks' = Tail(tasks)
    /\ taskMap' = [taskMap EXCEPT ![IdOf[Head(tasks)]] = NoTask]
    /\ runningTaskMap' = [runningTaskMap EXCEPT ![IdOf[Head(tasks)]] = Head(tasks)]
    /\ work' = [work EXCEPT ![w] = Head(tasks)]
    /\ pc' = [pc EXCEPT ![w] = "running"]
    /\ mu' = NoOne
    /\ UNCHANGED <<closed, cancelled, handle, outcome>>

\* Variant: the front task is handed over without looking at its context.
TakeUnchecked(w) ==
    /\ pc[w] = "loop"
    /\ tasks # <<>>
    /\ tasks' = Tail(tasks)
    /\ runningTaskMap' = [runningTaskMap EXCEPT ![IdOf[Head(tasks)]] = Head(tasks)]
    /\ work' = [work EXCEPT ![w] = Head(tasks)]
    /\ pc' = [pc EXCEPT ![w] = "running"]
    /\ mu' = NoOne
    /\ UNCHANGED <<taskMap, closed, cancelled, handle, outcome>>

\* The task stays in taskMap while it runs, so its identifier stays taken.
GetTake(w) ==
    /\ pc[w] = "loop"
    /\ tasks # <<>>
    /\ Head(tasks) \notin cancelled
    /\ tasks' = Tail(tasks)
    /\ runningTaskMap' = [runningTaskMap EXCEPT ![IdOf[Head(tasks)]] = Head(tasks)]
    /\ work' = [work EXCEPT ![w] = Head(tasks)]
    /\ pc' = [pc EXCEPT ![w] = "running"]
    /\ mu' = NoOne
    /\ UNCHANGED <<taskMap, closed, cancelled, handle, outcome>>

\* ErrQueueClosed: the worker leaves its loop for good.
GetClosed(w) ==
    /\ pc[w] = "loop"
    /\ tasks = <<>>
    /\ closed
    /\ mu' = NoOne
    /\ pc' = [pc EXCEPT ![w] = "stopped"]
    /\ UNCHANGED <<tasks, taskMap, runningTaskMap, closed, cancelled, work, handle, outcome>>

\* Execute has returned (with whatever result) and the worker reports the
\* task Done: the identifier leaves both maps.
Done(w) ==
    /\ pc[w] = "running"
    /\ mu = NoOne
    /\ taskMap' = [taskMap EXCEPT ![IdOf[work[w]]] = NoTask]
    /\ runningTaskMap' = [runningTaskMap EXCEPT ![IdOf[work[w]]] = NoTask]
    /\ outcome' = [outcome EXCEPT ![work[w]] = "finished"]
    /\ work' = [work EXCEPT ![w] = NoTask]
    /\ pc' = [pc EXCEPT ![w] = "get"]
    /\ UNCHANGED <<tasks, closed, mu, cancelled, handle>>

------------------------------------------------------------------------------
(* CancelTask, context cancellation and Close *)

Lookup(i) == IF taskMap[i] # NoTask THEN taskMap[i] ELSE runningTaskMap[i]

\* The lookup, under the read lock; an unknown identifier is an error.
CancelLookup(c, i) ==
    /\ mu = NoOne
    /\ handle[c] = NoTask
    /\ Lookup(i) # NoTask
    /\ handle' = [handle EXCEPT ![c] = Lookup(i)]
    /\ UNCHANGED <<tasks, taskMap, runningTaskMap, closed, mu, cancelled, pc, work, outcome>>

\* task.Cancel() after the unlock: by now the task may have been taken by a
\* worker, have finished, or have been replaced under the same identifier.
CancelFire(c) ==
    /\ handle[c] # NoTask
    /\ cancelled' = cancelled \cup {handle[c]}
    /\ handle' = [handle EXCEPT ![c] = NoTask]
    /\ UNCHANGED <<tasks, taskMap, runningTaskMap, closed, mu, pc, work, outcome>>

\* The context the task was created from ends, before or after Add.
CtxDone(t) ==
    /\ t \notin cancelled
    /\ cancelled' = cancelled \cup {t}
    /\ UNCHANGED <<tasks, taskMap, runningTaskMap, closed, mu, pc, work, handle, outcome>>

Close ==
    /\ mu = NoOne
    /\ closed' = TRUE
    /\ Broadcast
    /\ UNCHANGED <<tasks, taskMap, runningTaskMap, mu, cancelled, work, handle, outcome>>

------------------------------------------------------------------------------
GetStep(w) == GetLock(w) \/ GetWait(w) \/ GetDrop(w) \/ GetTake(w) \/ GetClosed(w)

Next ==
    \/ \E t \in Tasks : Add(t) \/ AddRejected(t) \/ CtxDone(t)
    \/ \E w \in Workers : GetStep(w) \/ Done(w)
    \/ \E c \in Cancellers : CancelFire(c) \/ \E i \in IDs : CancelLookup(c, i)
    \/ Close

\* The Go scheduler runs every runnable goroutine and sync.Mutex hands the
\* lock to a waiter that has been starved; Execute is assumed to return.
\* Nobody is obliged to add, cancel or close.
Fairness == \A w \in Workers : WF_vars(GetStep(w)) /\ WF_vars(Done(w))

Spec == Init /\ [][Next]_vars /\ Fairness

------------------------------------------------------------------------------
(* Properties *)

\* The lock is held exactly by the worker inside Get's loop, and a worker
\* has a task exactly while it executes one.
TypeOK ==
    /\ tasks \in Seq(Tasks)
    /\ taskMap \in [IDs -> Tasks \cup {NoTask}]
    /\ runningTaskMap \in [IDs -> Tasks \cup {NoTask}]
    /\ closed \in BOOLEAN
    /\ mu \in Workers \cup {NoOne}
    /\ cancelled \in SUBSET Tasks
    /\ pc \in [Workers -> PC]
    /\ work \in [Workers -> Tasks \cup {NoTask}]
    /\ handle \in [Cancellers -> Tasks \cup {NoTask}]
    /\ outcome \in [Tasks -> Outcomes]
    /\ \A w \in Workers : pc[w] = "loop" <=> mu = w
    /\ \A w \in Workers : pc[w] = "running" <=> work[w] # NoTask

\* The list and the two maps agree: taskMap holds exactly the queued and the
\* running tasks, runningTaskMap exactly the running ones, each under its own
\* identifier.  Done and the drop of a cancelled task delete by identifier
\* only, so a wrong entry would evict somebody else's task.
MapsMatchQueue ==
    /\ \A t \in Queued : taskMap[IdOf[t]] = t /\ runningTaskMap[IdOf[t]] = NoTask
    /\ \A t \in Running : taskMap[IdOf[t]] = t /\ runningTaskMap[IdOf[t]] = t
    /\ \A i \in IDs : taskMap[i] # NoTask => taskMap[i] \in Queued \cup Running /\ IdOf[taskMap[i]] = i
    /\ \A i \in IDs : runningTaskMap[i] # NoTask => runningTaskMap[i] \in Running /\ IdOf[runningTaskMap[i]] = i

\* Two live tasks never share an identifier, no task is in the list twice and
\* no task is executed by two workers: cache files, progress records and the
\* cancel button are all keyed by the task identifier alone.
OneLiveTaskPerId ==
    /\ \A t, u \in Queued \cup Running : IdOf[t] = IdOf[u] => t = u
    /\ \A i, j \in 1..Len(tasks) : tasks[i] = tasks[j] => i = j
    /\ \A w, x \in At("running") : work[w] = work[x] => w = x
    /\ Queued \cap Running = {}

\* No wakeup is lost: as long as some worker is parked, there are at least as
\* many workers awake inside Get (woken by a Signal, or holding the lock) as
\* there are queued tasks, so no task waits for a worker that sleeps.
WakeupsCoverTasks ==
    At("waiting") # {} => Len(tasks) <= Cardinality(At("woken") \cup At("loop"))

\* An identifier is released as soon as its task is dropped or Done: Add
\* fails only on a closed queue, on a context already done, or because a task
\* of that identifier is queued or running at that moment.
RejectedOnlyForCause ==
    [][\A t \in Tasks : outcome[t] = "none" /\ outcome'[t] = "rejected" =>
          \/ closed
          \/ t \in cancelled
          \/ \E u \in Queued \cup Running : IdOf[u] = IdOf[t]]_vars

\* The queue implements the lifecycle: FIFO order, at most one execution, no
\* start of a task whose context is done, no discard of any other task, and
\* one live task per identifier, without reference to the maps.
Lifecycle == INSTANCE TaskLifecycle WITH
    pending <- tasks,
    active <- Running,
    ended <- {t \in Tasks : outcome[t] \in {"dropped", "finished"}}

ImplementsLifecycle == Lifecycle!Spec

\* Every task that was accepted is eventually executed to its end or dropped
\* because it was cancelled, whatever the interleaving of Add's signals with
\* workers that are between two Gets.
EveryTaskSettles ==
    \A t \in Tasks : t \in Queued ~> outcome[t] \in {"dropped", "finished"}

\* Close reaches every worker: all of them leave their loop, those that were
\* parked included, after the queue has been drained.
WorkersDrain == closed ~> (tasks = <<>> /\ At("stopped") = Workers)
==============================================================================
