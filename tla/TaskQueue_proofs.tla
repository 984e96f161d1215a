--------------------------- MODULE TaskQueue_proofs ---------------------------
(***************************************************************************)
(* Proofs about TaskQueue for every set of tasks, identifiers, workers and *)
(* cancellers.  The inductive invariant is the conjunction of the type     *)
(* invariant, the agreement of the list with the two maps, and the         *)
(* uniqueness of live tasks: the drop of a cancelled task and Done delete  *)
(* map entries by identifier only, and that is harmless exactly because    *)
(* no other live task has that identifier.                                 *)
(*                                                                         *)
(* The second half is about tasks that the queue's workers execute, those  *)
(* of FetchTasks, for any files, retries and blocks: what the many exits   *)
(* of Execute leave on the progress card, in the storage and on the disk.  *)
(***************************************************************************)
EXTENDS TaskQueue, FetchTasks, FiniteSetTheorems, TLAPS

IInv == TypeOK /\ MapsMatchQueue /\ OneLiveTaskPerId

-----------------------------------------------------------------------------
(* What the list operations do to the set of queued tasks. *)

\* PushBack adds one queued task and keeps the list free of duplicates.
LEMMA AppendQueued ==
    ASSUME tasks \in Seq(Tasks), NEW t \in Tasks, tasks' = Append(tasks, t)
    PROVE  /\ tasks' \in Seq(Tasks)
           /\ Len(tasks') = Len(tasks) + 1
           /\ Queued' = Queued \cup {t}
           /\ (/\ t \notin Queued
               /\ \A i, j \in 1..Len(tasks) : tasks[i] = tasks[j] => i = j)
              => \A i, j \in 1..Len(tasks') : tasks'[i] = tasks'[j] => i = j
<1>1. Len(tasks') = Len(tasks) + 1 /\ Len(tasks) \in Nat
  OBVIOUS
<1>2. \A i \in 1..Len(tasks) : tasks'[i] = tasks[i]
  OBVIOUS
<1>3. tasks'[Len(tasks) + 1] = t
  OBVIOUS
<1>4. Queued' = Queued \cup {t}
  BY <1>1, <1>2, <1>3 DEF Queued
<1>5. QED
  BY <1>1, <1>2, <1>3, <1>4 DEF Queued

\* Removing the front of a list without duplicates removes that task only.
LEMMA TailQueued ==
    ASSUME tasks \in Seq(Tasks), tasks # <<>>, tasks' = Tail(tasks),
           \A i, j \in 1..Len(tasks) : tasks[i] = tasks[j] => i = j
    PROVE  /\ tasks' \in Seq(Tasks)
           /\ Len(tasks') = Len(tasks) - 1
           /\ Len(tasks) \in Nat \ {0}
           /\ Head(tasks) \in Tasks
           /\ Head(tasks) \in Queued
           /\ Queued' = Queued \ {Head(tasks)}
           /\ \A i, j \in 1..Len(tasks') : tasks'[i] = tasks'[j] => i = j
<1>1. Len(tasks') = Len(tasks) - 1 /\ Len(tasks) \in Nat /\ Len(tasks) > 0
  OBVIOUS
<1>2. \A i \in 1..Len(tasks') : tasks'[i] = tasks[i + 1]
  OBVIOUS
<1>3. Head(tasks) = tasks[1] /\ tasks' \in Seq(Tasks) /\ Head(tasks) \in Tasks
  OBVIOUS
<1>4. Head(tasks) \in Queued
  BY <1>1, <1>3 DEF Queued
<1>5. Queued' \subseteq Queued \ {Head(tasks)}
  BY <1>1, <1>2, <1>3 DEF Queued
<1>6. ASSUME NEW t \in Queued, t # Head(tasks) PROVE t \in Queued'
  <2>1. PICK k \in 1..Len(tasks) : t = tasks[k]
    BY DEF Queued
  <2>2. k # 1 /\ k - 1 \in 1..Len(tasks') /\ tasks'[k - 1] = tasks[k]
    BY <1>1, <1>2, <1>3, <1>6, <2>1
  <2>3. QED
    BY <2>1, <2>2 DEF Queued
<1>7. QED
  BY <1>1, <1>2, <1>3, <1>4, <1>5, <1>6

-----------------------------------------------------------------------------
(* Type correctness *)

LEMMA InitTypeOK == Init => TypeOK
<1> SUFFICES ASSUME Init PROVE TypeOK
  OBVIOUS
<1>1. tasks \in Seq(Tasks)
  BY DEF Init
<1>2. mu = NoOne /\ \A w \in Workers : pc[w] = "get" /\ work[w] = NoTask
  BY DEF Init
<1>3. \A w \in Workers : /\ pc[w] = "loop" <=> mu = w
                         /\ pc[w] = "running" <=> work[w] # NoTask
  BY <1>2, TasksAssumption
<1>4. QED
  BY <1>1, <1>3 DEF Init, TypeOK, PC, Outcomes

\* Every queued task is a task, and Head and Tail are typed when applicable.
LEMMA StepTypeOK == TypeOK /\ [Next]_vars => TypeOK'
<1> SUFFICES ASSUME TypeOK, [Next]_vars PROVE TypeOK'
  OBVIOUS
<1> USE TasksAssumption DEF TypeOK, PC, Outcomes
<1>1. ASSUME NEW t \in Tasks, Add(t) PROVE TypeOK'
  <2>1. CASE At("waiting") = {}
    BY <1>1, <2>1 DEF Add, Acceptable, Signal, At
  <2>2. CASE At("waiting") # {}
    <3>1. PICK w \in At("waiting") : pc' = [pc EXCEPT ![w] = "woken"]
      BY <1>1, <2>2 DEF Add, Signal
    <3>2. QED
      BY <1>1, <3>1 DEF Add, Acceptable, At
  <2>3. QED
    BY <2>1, <2>2
<1>2. ASSUME NEW t \in Tasks, AddRejected(t) PROVE TypeOK'
  BY <1>2 DEF AddRejected
<1>3. ASSUME NEW t \in Tasks, CtxDone(t) PROVE TypeOK'
  BY <1>3 DEF CtxDone
<1>4. ASSUME NEW w \in Workers, GetLock(w) PROVE TypeOK'
  BY <1>4 DEF GetLock
<1>5. ASSUME NEW w \in Workers, GetWait(w) PROVE TypeOK'
  BY <1>5 DEF GetWait
<1>6. ASSUME NEW w \in Workers, GetDrop(w) PROVE TypeOK'
  BY <1>6 DEF GetDrop
<1>7. ASSUME NEW w \in Workers, GetTake(w) PROVE TypeOK'
  <2>1. Head(tasks) \in Tasks /\ tasks' \in Seq(Tasks)
    BY <1>7 DEF GetTake
  <2>2. QED
    BY <1>7, <2>1 DEF GetTake
<1>8. ASSUME NEW w \in Workers, GetClosed(w) PROVE TypeOK'
  BY <1>8 DEF GetClosed
<1>9. ASSUME NEW w \in Workers, Done(w) PROVE TypeOK'
  BY <1>9 DEF Done
<1>10. ASSUME NEW c \in Cancellers, NEW i \in IDs, CancelLookup(c, i) PROVE TypeOK'
  BY <1>10 DEF CancelLookup, Lookup
<1>11. ASSUME NEW c \in Cancellers, CancelFire(c) PROVE TypeOK'
  BY <1>11 DEF CancelFire
<1>12. CASE Close
  BY <1>12 DEF Close, Broadcast
<1>13. CASE UNCHANGED vars
  BY <1>13 DEF vars
<1>14. QED
  BY <1>1, <1>2, <1>3, <1>4, <1>5, <1>6, <1>7, <1>8, <1>9, <1>10, <1>11, <1>12, <1>13
     DEF Next, GetStep

\* TypeOK: every variable keeps its type, the lock holder is the worker in
\* Get's loop, and a worker has a task exactly while it executes.
THEOREM TypeCorrect == Spec => []TypeOK
<1>1. QED
  BY InitTypeOK, StepTypeOK, PTL DEF Spec

-----------------------------------------------------------------------------
(* The inductive invariant *)

\* A step that leaves the list, the maps and the executing workers alone
\* keeps the structural invariants.
LEMMA Frame ==
    ASSUME MapsMatchQueue, OneLiveTaskPerId, UNCHANGED <<tasks, taskMap, runningTaskMap, work>>,
           At("running")' = At("running")
    PROVE  /\ (MapsMatchQueue /\ OneLiveTaskPerId)'
           /\ Queued' = Queued
           /\ Running' = Running
<1>1. Queued' = Queued
  BY DEF Queued
<1>2. Running' = Running
  BY DEF Running
<1>3. MapsMatchQueue'
  BY <1>1, <1>2 DEF MapsMatchQueue
<1>4. OneLiveTaskPerId'
  BY <1>1, <1>2 DEF OneLiveTaskPerId
<1>5. QED
  BY <1>1, <1>2, <1>3, <1>4

\* Add: the new task is in neither collection and its identifier is free.
LEMMA AddIInv ==
    ASSUME IInv, NEW t \in Tasks, Add(t)
    PROVE  /\ (MapsMatchQueue /\ OneLiveTaskPerId)'
           /\ Queued' = Queued \cup {t}
           /\ Running' = Running
           /\ t \notin Queued \cup Running
<1> USE TasksAssumption DEF IInv
<1>1. At("running")' = At("running")
  BY DEF Add, Signal, At, TypeOK
<1>2. Running' = Running
  BY <1>1 DEF Add, Running
<1>3. t \notin Queued \cup Running /\ taskMap[IdOf[t]] = NoTask
  BY DEF Add, Fresh, Acceptable
<1>4. /\ Queued' = Queued \cup {t}
      /\ \A i, j \in 1..Len(tasks') : tasks'[i] = tasks'[j] => i = j
  BY <1>3, AppendQueued DEF Add, TypeOK, OneLiveTaskPerId
<1>5. runningTaskMap[IdOf[t]] = NoTask
  BY <1>3 DEF MapsMatchQueue, TypeOK
<1>6. Queued \cup Running \subseteq Tasks
  BY DEF Queued, Running, At, TypeOK
<1>7. \A u \in Queued \cup Running : IdOf[u] # IdOf[t]
  BY <1>3, <1>6 DEF MapsMatchQueue
<1>8. MapsMatchQueue'
  BY <1>2, <1>3, <1>4, <1>5, <1>6, <1>7 DEF MapsMatchQueue, Add, TypeOK
<1>9. OneLiveTaskPerId'
  BY <1>1, <1>2, <1>3, <1>4, <1>7 DEF OneLiveTaskPerId, Add
<1>10. QED
  BY <1>2, <1>3, <1>4, <1>8, <1>9

\* GetDrop: the identifier it releases belongs to the dropped task only.
LEMMA DropIInv ==
    ASSUME IInv, NEW w \in Workers, GetDrop(w)
    PROVE  /\ (MapsMatchQueue /\ OneLiveTaskPerId)'
           /\ Running' = Running
           /\ Head(tasks) \in Tasks
<1> USE TasksAssumption DEF IInv
<1>1. At("running")' = At("running") /\ Running' = Running
  BY DEF GetDrop, At, Running
<1>2. /\ Queued' = Queued \ {Head(tasks)}
      /\ Head(tasks) \in Queued
      /\ Head(tasks) \in Tasks
      /\ \A i, j \in 1..Len(tasks') : tasks'[i] = tasks'[j] => i = j
  BY TailQueued DEF GetDrop, TypeOK, OneLiveTaskPerId
<1>3. Queued \cup Running \subseteq Tasks
  BY DEF Queued, Running, At, TypeOK
<1>4. \A u \in Queued' \cup Running : IdOf[u] # IdOf[Head(tasks)]
  BY <1>2, <1>3 DEF OneLiveTaskPerId
<1>5. MapsMatchQueue'
  BY <1>1, <1>2, <1>3, <1>4 DEF MapsMatchQueue, GetDrop, TypeOK
<1>6. OneLiveTaskPerId'
  BY <1>1, <1>2 DEF OneLiveTaskPerId, GetDrop
<1>7. QED
  BY <1>1, <1>2, <1>5, <1>6

\* GetTake: the front task moves from the list to the worker.
LEMMA TakeIInv ==
    ASSUME IInv, NEW w \in Workers, GetTake(w)
    PROVE  /\ (MapsMatchQueue /\ OneLiveTaskPerId)'
           /\ Running' = Running \cup {Head(tasks)}
           /\ Head(tasks) \in Tasks
<1> USE TasksAssumption DEF IInv
<1>1. /\ Queued' = Queued \ {Head(tasks)}
      /\ Head(tasks) \in Queued
      /\ Head(tasks) \in Tasks
      /\ \A i, j \in 1..Len(tasks') : tasks'[i] = tasks'[j] => i = j
  BY TailQueued DEF GetTake, TypeOK, OneLiveTaskPerId
<1>2. /\ At("running")' = At("running") \cup {w}
      /\ w \notin At("running")
      /\ work'[w] = Head(tasks)
      /\ \A x \in At("running") : work'[x] = work[x]
  BY DEF GetTake, At, TypeOK
<1>3. Running' = Running \cup {Head(tasks)}
  BY <1>2 DEF Running
<1>4. Queued \cup Running \subseteq Tasks
  BY DEF Queued, Running, At, TypeOK
<1>5. Head(tasks) \notin Running
  BY <1>1 DEF OneLiveTaskPerId
<1>6. MapsMatchQueue'
  BY <1>1, <1>3, <1>4, <1>5 DEF MapsMatchQueue, OneLiveTaskPerId, GetTake, TypeOK
<1>7. OneLiveTaskPerId'
  <2>1. \A x, y \in At("running")' : work'[x] = work'[y] => x = y
    BY <1>2, <1>5 DEF OneLiveTaskPerId, Running
  <2>2. QED
    BY <1>1, <1>3, <1>5, <2>1 DEF OneLiveTaskPerId
<1>8. QED
  BY <1>1, <1>3, <1>6, <1>7

\* Done: deleting by identifier evicts the finished task only.
LEMMA DoneIInv ==
    ASSUME IInv, NEW w \in Workers, Done(w)
    PROVE  /\ (MapsMatchQueue /\ OneLiveTaskPerId)'
           /\ Queued' = Queued
           /\ Running' = Running \ {work[w]}
           /\ work[w] \in Running \cap Tasks
<1> USE TasksAssumption DEF IInv
<1>1. Queued' = Queued
  BY DEF Done, Queued
<1>2. /\ w \in At("running")
      /\ At("running")' = At("running") \ {w}
      /\ \A x \in At("running")' : work'[x] = work[x]
  BY DEF Done, At, TypeOK
<1>3. work[w] \in Running /\ Queued \cup Running \subseteq Tasks
  BY <1>2 DEF Queued, Running, At, TypeOK
<1>4. Running' = Running \ {work[w]}
  BY <1>2 DEF Running, OneLiveTaskPerId
<1>5. \A u \in Queued' \cup Running' : u # work[w] /\ IdOf[u] # IdOf[work[w]]
  BY <1>1, <1>3, <1>4 DEF OneLiveTaskPerId
<1>6. MapsMatchQueue'
  BY <1>1, <1>3, <1>4, <1>5 DEF MapsMatchQueue, Done, TypeOK
<1>7. OneLiveTaskPerId'
  BY <1>1, <1>2, <1>4 DEF OneLiveTaskPerId, Done
<1>8. QED
  BY <1>1, <1>3, <1>4, <1>6, <1>7

LEMMA InitIInv == Init => IInv
BY InitTypeOK, TasksAssumption
   DEF Init, IInv, MapsMatchQueue, OneLiveTaskPerId, Queued, Running, At

LEMMA StepIInv == IInv /\ [Next]_vars => IInv'
<1> SUFFICES ASSUME IInv, [Next]_vars PROVE (MapsMatchQueue /\ OneLiveTaskPerId)'
  BY StepTypeOK DEF IInv
<1> USE DEF IInv
<1>1. ASSUME NEW t \in Tasks, Add(t) PROVE (MapsMatchQueue /\ OneLiveTaskPerId)'
  BY <1>1, AddIInv
<1>2. ASSUME NEW t \in Tasks, AddRejected(t) \/ CtxDone(t)
      PROVE (MapsMatchQueue /\ OneLiveTaskPerId)'
  BY <1>2, Frame DEF AddRejected, CtxDone, At
<1>3. ASSUME NEW w \in Workers, GetLock(w) \/ GetWait(w) \/ GetClosed(w)
      PROVE (MapsMatchQueue /\ OneLiveTaskPerId)'
  <2>1. At("running")' = At("running")
    BY <1>3 DEF GetLock, GetWait, GetClosed, At, TypeOK
  <2>2. QED
    BY <1>3, <2>1, Frame DEF GetLock, GetWait, GetClosed
<1>4. ASSUME NEW w \in Workers, GetDrop(w) PROVE (MapsMatchQueue /\ OneLiveTaskPerId)'
  BY <1>4, DropIInv
<1>5. ASSUME NEW w \in Workers, GetTake(w) PROVE (MapsMatchQueue /\ OneLiveTaskPerId)'
  BY <1>5, TakeIInv
<1>6. ASSUME NEW w \in Workers, Done(w) PROVE (MapsMatchQueue /\ OneLiveTaskPerId)'
  BY <1>6, DoneIInv
<1>7. ASSUME NEW c \in Cancellers, CancelFire(c) \/ \E i \in IDs : CancelLookup(c, i)
      PROVE (MapsMatchQueue /\ OneLiveTaskPerId)'
  BY <1>7, Frame DEF CancelFire, CancelLookup, At
<1>8. CASE Close
  <2>1. At("running")' = At("running")
    BY <1>8 DEF Close, Broadcast, At, TypeOK
  <2>2. QED
    BY <1>8, <2>1, Frame DEF Close
<1>9. CASE UNCHANGED vars
  BY <1>9, Frame DEF vars, At
<1>10. QED
  BY <1>1, <1>2, <1>3, <1>4, <1>5, <1>6, <1>7, <1>8, <1>9 DEF Next, GetStep

LEMMA Invariance == Spec => []IInv
BY InitIInv, StepIInv, PTL DEF Spec

\* MapsMatchQueue: the two maps always describe the list and the executing
\* workers exactly.
THEOREM MapsAgree == Spec => []MapsMatchQueue
BY Invariance, PTL DEF IInv

\* OneLiveTaskPerId: no identifier is ever shared by two live tasks and no
\* task is executed twice at once.
THEOREM UniqueLiveTask == Spec => []OneLiveTaskPerId
BY Invariance, PTL DEF IInv

-----------------------------------------------------------------------------
(* Identifiers are released in time *)

\* A rejected Add met a closed queue, a dead context or a live namesake.
LEMMA RejectCause ==
    ASSUME IInv, NEW t \in Tasks, AddRejected(t)
    PROVE  \/ closed
           \/ t \in cancelled
           \/ \E u \in Queued \cup Running : IdOf[u] = IdOf[t]
<1>1. ASSUME taskMap[IdOf[t]] # NoTask
      PROVE  \E u \in Queued \cup Running : IdOf[u] = IdOf[t]
  BY <1>1, TasksAssumption DEF IInv, MapsMatchQueue, TypeOK
<1>2. QED
  BY <1>1 DEF AddRejected, Acceptable

\* RejectedOnlyForCause: a task identifier can be reused as soon as no live
\* task has it.
THEOREM IdsAreReleased == Spec => RejectedOnlyForCause
<1> DEFINE Cause ==
      \A t \in Tasks : outcome[t] = "none" /\ outcome'[t] = "rejected" =>
          \/ closed
          \/ t \in cancelled
          \/ \E u \in Queued \cup Running : IdOf[u] = IdOf[t]
<1>1. IInv /\ [Next]_vars => [Cause]_vars
  <2> SUFFICES ASSUME IInv, Next, NEW t \in Tasks,
                      outcome[t] = "none", outcome'[t] = "rejected"
               PROVE  AddRejected(t)
    BY RejectCause
  <2>1. outcome \in [Tasks -> Outcomes]
    BY DEF IInv, TypeOK
  <2>2. ASSUME NEW u \in Tasks, Add(u) \/ CtxDone(u) PROVE FALSE
    BY <2>2 DEF Add, CtxDone
  <2>3. ASSUME NEW u \in Tasks, AddRejected(u) PROVE u = t
    BY <2>1, <2>3 DEF AddRejected
  <2>4. ASSUME NEW w \in Workers, GetStep(w) PROVE FALSE
    BY <2>1, <2>4 DEF GetStep, GetLock, GetWait, GetDrop, GetTake, GetClosed
  <2>5. ASSUME NEW w \in Workers, Done(w) PROVE FALSE
    BY <2>1, <2>5 DEF Done
  <2>6. ASSUME NEW c \in Cancellers, CancelFire(c) \/ \E i \in IDs : CancelLookup(c, i)
        PROVE FALSE
    BY <2>6 DEF CancelFire, CancelLookup
  <2>7. ~Close
    BY DEF Close
  <2>8. QED
    BY <2>2, <2>3, <2>4, <2>5, <2>6, <2>7 DEF Next
<1>2. QED
  BY <1>1, Invariance, PTL DEF Spec, RejectedOnlyForCause

-----------------------------------------------------------------------------
(* The queue implements TaskLifecycle *)

LEMMA InitRefines == Init => Lifecycle!Init
BY DEF Init, Lifecycle!Init, Running, At

\* Every step is a step of the lifecycle, or changes none of its variables.
LEMMA StepRefines == IInv /\ [Next]_vars => [Lifecycle!Next]_(Lifecycle!vars)
<1> SUFFICES ASSUME IInv, [Next]_vars PROVE Lifecycle!Next \/ UNCHANGED Lifecycle!vars
  OBVIOUS
<1> USE TasksAssumption DEF IInv
<1>1. ASSUME NEW t \in Tasks, Add(t) PROVE Lifecycle!Submit(t)
  <2>1. Running' = Running /\ t \notin Queued \cup Running
    BY <1>1, AddIInv
  <2>2. \A u \in Queued \cup Running : IdOf[u] # IdOf[t]
    <3>1. Queued \cup Running \subseteq Tasks
      BY DEF Queued, Running, At, TypeOK
    <3>2. \A u \in Queued \cup Running : taskMap[IdOf[u]] = u
      BY DEF MapsMatchQueue
    <3>3. QED
      BY <1>1, <3>1, <3>2 DEF Add, Acceptable
  <2>3. QED
    BY <1>1, <2>1, <2>2
       DEF Add, Fresh, Acceptable, Lifecycle!Submit, Lifecycle!Live, Lifecycle!Waiting, Queued
<1>2. ASSUME NEW t \in Tasks, AddRejected(t) PROVE UNCHANGED Lifecycle!vars
  <2>1. Running' = Running
    BY <1>2 DEF AddRejected, Running, At
  <2>2. \A u \in Tasks : outcome'[u] \in {"dropped", "finished"} <=> outcome[u] \in {"dropped", "finished"}
    BY <1>2 DEF AddRejected, Fresh, TypeOK
  <2>3. QED
    BY <1>2, <2>1, <2>2 DEF AddRejected, Lifecycle!vars
<1>3. ASSUME NEW t \in Tasks, CtxDone(t) PROVE Lifecycle!Cancel(t)
  BY <1>3 DEF CtxDone, Lifecycle!Cancel, Running, At
<1>4. ASSUME NEW w \in Workers, GetLock(w) \/ GetWait(w) \/ GetClosed(w)
      PROVE UNCHANGED Lifecycle!vars
  <2>1. At("running")' = At("running") /\ work' = work
    BY <1>4 DEF GetLock, GetWait, GetClosed, At, TypeOK
  <2>2. QED
    BY <1>4, <2>1 DEF GetLock, GetWait, GetClosed, Running, Lifecycle!vars
<1>5. ASSUME NEW w \in Workers, GetDrop(w) PROVE Lifecycle!Discard
  <2>1. Running' = Running /\ Head(tasks) \in Tasks
    BY <1>5, DropIInv
  <2>2. {t \in Tasks : outcome'[t] \in {"dropped", "finished"}}
        = {t \in Tasks : outcome[t] \in {"dropped", "finished"}} \cup {Head(tasks)}
    BY <1>5, <2>1 DEF GetDrop, TypeOK
  <2>3. QED
    BY <1>5, <2>1, <2>2 DEF GetDrop, Lifecycle!Discard
<1>6. ASSUME NEW w \in Workers, GetTake(w) PROVE Lifecycle!Start
  BY <1>6, TakeIInv DEF GetTake, Lifecycle!Start
<1>7. ASSUME NEW w \in Workers, Done(w) PROVE \E t \in Tasks : Lifecycle!Finish(t)
  <2>1. Running' = Running \ {work[w]} /\ work[w] \in Running \cap Tasks
    BY <1>7, DoneIInv
  <2>2. {t \in Tasks : outcome'[t] \in {"dropped", "finished"}}
        = {t \in Tasks : outcome[t] \in {"dropped", "finished"}} \cup {work[w]}
    BY <1>7, <2>1 DEF Done, TypeOK
  <2>3. QED
    BY <1>7, <2>1, <2>2 DEF Done, Lifecycle!Finish
<1>8. ASSUME NEW c \in Cancellers, NEW i \in IDs, CancelLookup(c, i)
      PROVE UNCHANGED Lifecycle!vars
  BY <1>8 DEF CancelLookup, Lifecycle!vars, Running, At
<1>9. ASSUME NEW c \in Cancellers, CancelFire(c)
      PROVE \E t \in Tasks : Lifecycle!Cancel(t)
  BY <1>9 DEF CancelFire, Lifecycle!Cancel, Running, At, TypeOK
<1>10. ASSUME Close PROVE Lifecycle!Close
  <2>1. At("running")' = At("running")
    BY <1>10 DEF Close, Broadcast, At, TypeOK
  <2>2. QED
    BY <1>10, <2>1 DEF Close, Lifecycle!Close, Running
<1>11. CASE UNCHANGED vars
  BY <1>11 DEF vars, Lifecycle!vars, Running, At
<1>12. ASSUME NEW t \in Tasks, Add(t) \/ AddRejected(t) \/ CtxDone(t)
       PROVE Lifecycle!Next \/ UNCHANGED Lifecycle!vars
  BY <1>1, <1>2, <1>3, <1>12 DEF Lifecycle!Next
<1>13. ASSUME NEW w \in Workers, GetStep(w) \/ Done(w)
       PROVE Lifecycle!Next \/ UNCHANGED Lifecycle!vars
  <2>1. CASE GetStep(w)
    BY <1>4, <1>5, <1>6, <2>1 DEF GetStep, Lifecycle!Next
  <2>2. CASE Done(w)
    BY <1>7, <2>2 DEF Lifecycle!Next
  <2>3. QED
    BY <1>13, <2>1, <2>2
<1>14. ASSUME NEW c \in Cancellers, CancelFire(c) \/ \E i \in IDs : CancelLookup(c, i)
       PROVE Lifecycle!Next \/ UNCHANGED Lifecycle!vars
  BY <1>8, <1>9, <1>14 DEF Lifecycle!Next
<1>15. CASE Close
  BY <1>10, <1>15 DEF Lifecycle!Next
<1>16. QED
  BY <1>11, <1>12, <1>13, <1>14, <1>15 DEF Next

\* ImplementsLifecycle: whatever the lock, the condition variable, the maps
\* and concurrent cancellation do, callers see the abstract lifecycle.
THEOREM Refinement == Spec => ImplementsLifecycle
BY InitRefines, StepRefines, Invariance, PTL DEF Spec, ImplementsLifecycle, Lifecycle!Spec

-----------------------------------------------------------------------------
(* No wakeup is lost *)

Awake == At("woken") \cup At("loop")

\* The awake workers are finitely many, so one more or one less counts.
LEMMA AwakeFinite ==
    ASSUME TypeOK
    PROVE  /\ IsFiniteSet(Awake)
           /\ Cardinality(Awake) \in Nat
           /\ \A w \in Workers \ Awake : Cardinality(Awake \cup {w}) = Cardinality(Awake) + 1
           /\ \A w \in Awake : Cardinality(Awake \ {w}) = Cardinality(Awake) - 1
<1>1. IsFiniteSet(Awake)
  BY FS_Subset, TasksAssumption DEF Awake, At
<1>2. QED
  BY <1>1, FS_CardinalityType, FS_AddElement, FS_RemoveElement

LEMMA StepWakeups ==
    IInv /\ WakeupsCoverTasks /\ [Next]_vars => WakeupsCoverTasks'
<1> SUFFICES ASSUME IInv, WakeupsCoverTasks, [Next]_vars, At("waiting")' # {}
             PROVE  Len(tasks') <= Cardinality(Awake')
  BY DEF WakeupsCoverTasks, Awake
<1> USE DEF IInv
<1>1. /\ Len(tasks) \in Nat
      /\ At("waiting") # {} => Len(tasks) <= Cardinality(Awake)
      /\ Cardinality(Awake) \in Nat
  BY AwakeFinite DEF WakeupsCoverTasks, Awake, TypeOK
<1>2. ASSUME NEW t \in Tasks, Add(t) PROVE Len(tasks') <= Cardinality(Awake')
  <2>1. Len(tasks') = Len(tasks) + 1
    BY <1>2, AppendQueued DEF Add, TypeOK
  <2>2. At("waiting") # {}
    BY <1>2 DEF Add, Signal, At
  <2>3. PICK w \in At("waiting") : pc' = [pc EXCEPT ![w] = "woken"]
    BY <1>2, <2>2 DEF Add, Signal
  <2>4. Awake' = Awake \cup {w} /\ w \in Workers \ Awake
    BY <2>3 DEF Awake, At, TypeOK
  <2>5. QED
    BY <1>1, <2>1, <2>2, <2>4, AwakeFinite
<1>3. ASSUME At("waiting")' = At("waiting"), Len(tasks') = Len(tasks),
             \/ Awake' = Awake
             \/ \E w \in Workers \ Awake : Awake' = Awake \cup {w}
      PROVE  Len(tasks') <= Cardinality(Awake')
  BY <1>1, <1>3, AwakeFinite
<1>4. ASSUME NEW t \in Tasks, AddRejected(t) \/ CtxDone(t)
      PROVE  Len(tasks') <= Cardinality(Awake')
  BY <1>3, <1>4 DEF AddRejected, CtxDone, At, Awake
<1>5. ASSUME NEW w \in Workers, GetLock(w) PROVE Len(tasks') <= Cardinality(Awake')
  <2>1. At("waiting")' = At("waiting") /\ Awake' = Awake \cup {w}
    BY <1>5 DEF GetLock, At, Awake, TypeOK
  <2>2. w \in Awake => Awake' = Awake
    BY <2>1
  <2>3. QED
    BY <1>3, <1>5, <2>1, <2>2 DEF GetLock
<1>6. ASSUME NEW w \in Workers, GetWait(w) \/ GetClosed(w)
      PROVE  Len(tasks') <= Cardinality(Awake')
  <2>1. Len(tasks') = 0
    BY <1>6 DEF GetWait, GetClosed
  <2>2. Cardinality(Awake') \in Nat
    BY FS_Subset, FS_CardinalityType, TasksAssumption DEF Awake, At
  <2>3. QED
    BY <2>1, <2>2
<1>7. ASSUME NEW w \in Workers, GetDrop(w) PROVE Len(tasks') <= Cardinality(Awake')
  <2>1. At("waiting")' = At("waiting") /\ Awake' = Awake
    BY <1>7 DEF GetDrop, At, Awake
  <2>2. Len(tasks') = Len(tasks) - 1
    BY <1>7, TailQueued DEF GetDrop, TypeOK, OneLiveTaskPerId
  <2>3. QED
    BY <1>1, <2>1, <2>2
<1>8. ASSUME NEW w \in Workers, GetTake(w) PROVE Len(tasks') <= Cardinality(Awake')
  <2>1. At("waiting")' = At("waiting") /\ w \in Awake /\ Awake' = Awake \ {w}
    BY <1>8 DEF GetTake, At, Awake, TypeOK
  <2>2. Len(tasks') = Len(tasks) - 1
    BY <1>8, TailQueued DEF GetTake, TypeOK, OneLiveTaskPerId
  <2>3. QED
    BY <1>1, <2>1, <2>2, AwakeFinite
<1>9. ASSUME NEW w \in Workers, Done(w) PROVE Len(tasks') <= Cardinality(Awake')
  <2>1. At("waiting")' = At("waiting") /\ Awake' = Awake
    BY <1>9 DEF Done, At, Awake, TypeOK
  <2>2. QED
    BY <1>3, <1>9, <2>1 DEF Done
<1>10. ASSUME NEW c \in Cancellers, CancelFire(c) \/ \E i \in IDs : CancelLookup(c, i)
       PROVE  Len(tasks') <= Cardinality(Awake')
  BY <1>3, <1>10 DEF CancelFire, CancelLookup, At, Awake
<1>11. ASSUME Close PROVE At("waiting")' = {}
  BY <1>11 DEF Close, Broadcast, At, TypeOK
<1>12. CASE UNCHANGED vars
  BY <1>3, <1>12 DEF vars, At, Awake
<1>13. QED
  BY <1>2, <1>4, <1>5, <1>6, <1>7, <1>8, <1>9, <1>10, <1>11, <1>12 DEF Next, GetStep

\* WakeupsCoverTasks: a task is never left to a parked worker, however Add's
\* signals interleave with workers that come back and take the task first.
THEOREM NoLostWakeup == Spec => []WakeupsCoverTasks
<1>1. Init => WakeupsCoverTasks
  BY DEF Init, WakeupsCoverTasks, At
<1>2. QED
  BY <1>1, StepWakeups, Invariance, PTL DEF Spec

-----------------------------------------------------------------------------
(* The tasks of FetchTasks *)

\* Which tasks are in which phase, and what they have left there.  Only aria2
\* tasks have downloads.
Kinds ==
    /\ phase \in {"add", "wait", "tell", "told", "force", "forget", "files", "result"} => kind = "aria2"
    /\ phase \in {"mkdir", "run"} => kind = "ytdlp"
    /\ phase \in {"create", "download", "save", "backoff"} => kind = "tfile" /\ ~stream
    /\ phase = "pipe" => kind = "tfile" /\ stream
    /\ phase = "transfer" => kind # "tfile"
    /\ stream => kind = "tfile"
    /\ kind # "aria2" => \A g \in Gids : daemon[g] = "absent"
    /\ phase \notin {"backoff", "end"} => tries < Retry
    /\ down = "writing" => left # 0

\* What the card shows before Execute and while it runs.
Cards ==
    /\ returned = "none" <=> phase # "end"
    /\ phase \in {"wait", "tell", "told", "force", "forget", "files", "transfer", "mkdir", "run",
                  "create", "download", "save", "backoff", "pipe"} => card = "started"
    /\ phase = "result" => card = "ok"
    /\ kind = "tfile" /\ phase \in {"enqueue", "queued", "create"} => stored = {}

\* Where the files of a transfer are.
Places ==
    /\ kind = "aria2" /\ phase = "transfer" =>
          Selected \ Torrents \subseteq stored \cup missing \cup todo
    /\ count # 0 => stored \cup missing # {}
    /\ phase = "result" =>
          todo = {} /\ Selected \ Torrents \subseteq stored \cup missing /\ stored \cup missing # {}
    /\ kind = "ytdlp" /\ phase = "transfer" => todo \cup stored # {}
    /\ kind = "tfile" => todo = {}
    /\ up = "ok" => stored # {}

\* What is on the disk and what was removed from it.
Disk ==
    /\ removed \subseteq stored \cup Torrents
    /\ kind # "aria2" => removed = {}
    /\ kind # "aria2" /\ phase \notin {"download", "save", "backoff", "transfer"} => disk = {}

FetchInv ==
    /\ FetchTypeOK /\ Kinds /\ Cards /\ Places /\ Disk
    /\ CardTellsResult /\ SuccessMeansStored

-----------------------------------------------------------------------------

LEMMA FetchAssumed ==
    /\ Selected \subseteq Files /\ Torrents \subseteq Files /\ CacheFile \in Files
    /\ Retry \in Nat /\ Retry # 0 /\ Blocks \in Nat /\ Blocks # 0 /\ Meta # Real
<1>1. \E f \in Files : TRUE
  BY FetchAssumption
<1>2. QED
  BY <1>1, FetchAssumption DEF CacheFile

LEMMA InitFetchInv == FetchInit => FetchInv
<1>1. FetchInit => FetchTypeOK
  <2> SUFFICES ASSUME FetchInit PROVE FetchTypeOK
    OBVIOUS
  <2>1. stream \in BOOLEAN /\ keep \in BOOLEAN /\ closes \in BOOLEAN
    BY DEF FetchInit
  <2>2. tries \in 0..Retry /\ left \in 0..Blocks
    BY FetchAssumed DEF FetchInit
  <2>3. QED
    BY <2>1, <2>2 DEF FetchInit, FetchTypeOK, Gids
<1>2. FetchInit => Kinds /\ Cards
  <2> SUFFICES ASSUME FetchInit PROVE Kinds /\ Cards
    OBVIOUS
  <2>1. kind \in {"aria2", "ytdlp", "tfile"} /\ phase = IF kind = "aria2" THEN "add" ELSE "enqueue"
    BY DEF FetchInit
  <2>2. stream => kind = "tfile"
    BY DEF FetchInit
  <2>3. tries < Retry /\ down = "fetching" /\ \A g \in Gids : daemon[g] = "absent"
    BY FetchAssumed DEF FetchInit, Gids
  <2>4. QED
    BY <2>1, <2>2, <2>3 DEF FetchInit, Kinds, Cards
<1>3. FetchInit => CardTellsResult /\ Places /\ SuccessMeansStored /\ Disk
  BY DEF FetchInit, CardTellsResult, Results, Places, SuccessMeansStored, Disk
<1>4. QED
  BY <1>1, <1>2, <1>3 DEF FetchInv

\* Every step keeps the types.
LEMMA TypeStep ==
    ASSUME FetchTypeOK, Kinds, [FetchNext]_fetchVars
    PROVE  FetchTypeOK'
<1> USE DEF FetchTypeOK, Kinds, Results, Gids, modeVars,
            aria2Vars, fileVars, pipeVars
<1>1. CASE Enqueue
  BY <1>1 DEF Enqueue
<1>2. CASE Start
  BY <1>2 DEF Start
<1>3. CASE Cancel
  BY <1>3 DEF Cancel
<1>4. CASE AddURI
  BY <1>4 DEF AddURI
<1>5. CASE WaitSeesCancel
  BY <1>5 DEF WaitSeesCancel
<1>6. CASE WaitTicks
  BY <1>6 DEF WaitTicks
<1>7. CASE GetStatus
  BY <1>7 DEF GetStatus
<1>8. CASE WaitDecides
  BY <1>8 DEF WaitDecides, Finish
<1>9. CASE CancelForces
  BY <1>9 DEF CancelForces, ForceRemove
<1>10. CASE CancelForgets
  BY <1>10 DEF CancelForgets, Finish, RemoveDownloadResult
<1>11. CASE ListFiles
  BY <1>11, FetchAssumed DEF ListFiles, Finish
<1>12. CASE Aria2Ends
  BY <1>12 DEF Aria2Ends, Finish
<1>13. CASE Aria2Cleans
  BY <1>13 DEF Aria2Cleans, RemoveDownloadResult
<1>14. CASE \E f \in Files : SkipFile(f)
  BY <1>14 DEF SkipFile, RemoveFileIfNeeded
<1>15. CASE \E f \in Files : TransferAria2(f)
  BY <1>15 DEF TransferAria2, Finish, Failure, RemoveFileIfNeeded
<1>16. CASE YtdlpMkdir
  BY <1>16 DEF YtdlpMkdir, Finish
<1>17. CASE DownloadFiles
  BY <1>17 DEF DownloadFiles, Finish, Failure
<1>18. CASE YtdlpEnds
  BY <1>18 DEF YtdlpEnds, Finish
<1>19. CASE \E f \in Files : TransferYtdlp(f)
  BY <1>19 DEF TransferYtdlp, Finish, Failure
<1>20. CASE CreateLocal
  BY <1>20, FetchAssumed DEF CreateLocal
<1>21. CASE Download
  BY <1>21 DEF Download, Finish, Failure
<1>22. CASE SaveFile
  BY <1>22, FetchAssumed DEF SaveFile, Finish
<1>23. CASE SaveRetries
  BY <1>23 DEF SaveRetries, Finish
<1>24. CASE PipeFetch
  BY <1>24 DEF PipeFetch, InPipe
<1>25. CASE PipeRead
  BY <1>25, FetchAssumed DEF PipeRead, InPipe
<1>26. CASE PipeSaves
  BY <1>26, FetchAssumed DEF PipeSaves, InPipe
<1>27. CASE PipeWriteFails
  BY <1>27 DEF PipeWriteFails, InPipe
<1>28. CASE PipeEnds
  BY <1>28 DEF PipeEnds, Finish, Failure, InPipe
<1>29. CASE \E g \in Gids : DaemonCompletes(g)
  BY <1>29, FetchAssumed DEF DaemonCompletes
<1>30. CASE \E g \in Gids : DaemonFails(g)
  BY <1>30 DEF DaemonFails
<1>31. CASE \E f \in Files : FileVanishes(f)
  BY <1>31 DEF FileVanishes
<1>32. CASE UNCHANGED fetchVars
  BY <1>32 DEF fetchVars
<1>33. QED
  BY <1>1, <1>2, <1>3, <1>4, <1>5, <1>6, <1>7, <1>8, <1>9, <1>10, <1>11, <1>12, <1>13,
     <1>14, <1>15, <1>16, <1>17, <1>18, <1>19, <1>20, <1>21, <1>22, <1>23, <1>24, <1>25,
     <1>26, <1>27, <1>28, <1>29, <1>30, <1>31, <1>32
     DEF FetchNext, Aria2, Ytdlp, TGFile, Daemon

\* No step takes a task to a phase of another kind.
LEMMA KindsStep ==
    ASSUME FetchTypeOK, Kinds, [FetchNext]_fetchVars
    PROVE  Kinds'
<1> USE DEF FetchTypeOK, Kinds, Gids, modeVars, aria2Vars,
            fileVars, pipeVars
<1>1. CASE Enqueue
  BY <1>1 DEF Enqueue
<1>2. CASE Start
  BY <1>2 DEF Start
<1>3. CASE Cancel
  BY <1>3 DEF Cancel
<1>4. CASE AddURI
  BY <1>4 DEF AddURI
<1>5. CASE WaitSeesCancel
  BY <1>5 DEF WaitSeesCancel
<1>6. CASE WaitTicks
  BY <1>6 DEF WaitTicks
<1>7. CASE GetStatus
  BY <1>7 DEF GetStatus
<1>8. CASE WaitDecides
  BY <1>8 DEF WaitDecides, Finish
<1>9. CASE CancelForces
  BY <1>9 DEF CancelForces, ForceRemove
<1>10. CASE CancelForgets
  BY <1>10 DEF CancelForgets, Finish, RemoveDownloadResult
<1>11. CASE ListFiles
  BY <1>11, FetchAssumed DEF ListFiles, Finish
<1>12. CASE Aria2Ends
  BY <1>12 DEF Aria2Ends, Finish
<1>13. CASE Aria2Cleans
  BY <1>13 DEF Aria2Cleans, RemoveDownloadResult
<1>14. CASE \E f \in Files : SkipFile(f)
  BY <1>14 DEF SkipFile, RemoveFileIfNeeded
<1>15. CASE \E f \in Files : TransferAria2(f)
  BY <1>15 DEF TransferAria2, Finish, Failure, RemoveFileIfNeeded
<1>16. CASE YtdlpMkdir
  BY <1>16 DEF YtdlpMkdir, Finish
<1>17. CASE DownloadFiles
  BY <1>17 DEF DownloadFiles, Finish, Failure
<1>18. CASE YtdlpEnds
  BY <1>18 DEF YtdlpEnds, Finish
<1>19. CASE \E f \in Files : TransferYtdlp(f)
  BY <1>19 DEF TransferYtdlp, Finish, Failure
<1>20. CASE CreateLocal
  BY <1>20, FetchAssumed DEF CreateLocal
<1>21. CASE Download
  BY <1>21 DEF Download, Finish, Failure
<1>22. CASE SaveFile
  BY <1>22, FetchAssumed DEF SaveFile, Finish
<1>23. CASE SaveRetries
  BY <1>23 DEF SaveRetries, Finish
<1>24. CASE PipeFetch
  BY <1>24 DEF PipeFetch, InPipe
<1>25. CASE PipeRead
  BY <1>25, FetchAssumed DEF PipeRead, InPipe
<1>26. CASE PipeSaves
  BY <1>26, FetchAssumed DEF PipeSaves, InPipe
<1>27. CASE PipeWriteFails
  BY <1>27 DEF PipeWriteFails, InPipe
<1>28. CASE PipeEnds
  BY <1>28 DEF PipeEnds, Finish, Failure, InPipe
<1>29. CASE \E g \in Gids : DaemonCompletes(g)
  BY <1>29, FetchAssumed DEF DaemonCompletes
<1>30. CASE \E g \in Gids : DaemonFails(g)
  BY <1>30 DEF DaemonFails
<1>31. CASE \E f \in Files : FileVanishes(f)
  BY <1>31 DEF FileVanishes
<1>32. CASE UNCHANGED fetchVars
  BY <1>32 DEF fetchVars
<1>33. QED
  BY <1>1, <1>2, <1>3, <1>4, <1>5, <1>6, <1>7, <1>8, <1>9, <1>10, <1>11, <1>12, <1>13,
     <1>14, <1>15, <1>16, <1>17, <1>18, <1>19, <1>20, <1>21, <1>22, <1>23, <1>24, <1>25,
     <1>26, <1>27, <1>28, <1>29, <1>30, <1>31, <1>32
     DEF FetchNext, Aria2, Ytdlp, TGFile, Daemon

\* The card starts with Execute and ends with it, but for one exit.
LEMMA CardsStep ==
    ASSUME FetchTypeOK, Kinds, Cards, CardTellsResult, [FetchNext]_fetchVars
    PROVE  Cards' /\ CardTellsResult'
<1> USE DEF FetchTypeOK, Kinds, Cards, CardTellsResult, Results,
            modeVars, aria2Vars, fileVars, pipeVars
<1>1. CASE Enqueue
  BY <1>1 DEF Enqueue
<1>2. CASE Start
  BY <1>2 DEF Start
<1>3. CASE Cancel
  BY <1>3 DEF Cancel
<1>4. CASE AddURI
  BY <1>4 DEF AddURI
<1>5. CASE WaitSeesCancel
  BY <1>5 DEF WaitSeesCancel
<1>6. CASE WaitTicks
  BY <1>6 DEF WaitTicks
<1>7. CASE GetStatus
  BY <1>7 DEF GetStatus
<1>8. CASE WaitDecides
  BY <1>8 DEF WaitDecides, Finish
<1>9. CASE CancelForces
  BY <1>9 DEF CancelForces, ForceRemove
<1>10. CASE CancelForgets
  BY <1>10 DEF CancelForgets, Finish, RemoveDownloadResult
<1>11. CASE ListFiles
  BY <1>11 DEF ListFiles, Finish
<1>12. CASE Aria2Ends
  BY <1>12 DEF Aria2Ends, Finish
<1>13. CASE Aria2Cleans
  BY <1>13 DEF Aria2Cleans, RemoveDownloadResult
<1>14. CASE \E f \in Files : SkipFile(f)
  BY <1>14 DEF SkipFile, RemoveFileIfNeeded
<1>15. CASE \E f \in Files : TransferAria2(f)
  BY <1>15 DEF TransferAria2, Finish, Failure, RemoveFileIfNeeded
<1>16. CASE YtdlpMkdir
  BY <1>16 DEF YtdlpMkdir, Finish
<1>17. CASE DownloadFiles
  BY <1>17 DEF DownloadFiles, Finish, Failure
<1>18. CASE YtdlpEnds
  BY <1>18 DEF YtdlpEnds, Finish
<1>19. CASE \E f \in Files : TransferYtdlp(f)
  BY <1>19 DEF TransferYtdlp, Finish, Failure
<1>20. CASE CreateLocal
  BY <1>20 DEF CreateLocal
<1>21. CASE Download
  BY <1>21 DEF Download, Finish, Failure
<1>22. CASE SaveFile
  BY <1>22 DEF SaveFile, Finish
<1>23. CASE SaveRetries
  BY <1>23 DEF SaveRetries, Finish
<1>24. CASE PipeFetch
  BY <1>24 DEF PipeFetch, InPipe
<1>25. CASE PipeRead
  BY <1>25 DEF PipeRead, InPipe
<1>26. CASE PipeSaves
  BY <1>26 DEF PipeSaves, InPipe
<1>27. CASE PipeWriteFails
  BY <1>27 DEF PipeWriteFails, InPipe
<1>28. CASE PipeEnds
  BY <1>28 DEF PipeEnds, Finish, Failure, InPipe
<1>29. CASE \E g \in Gids : DaemonCompletes(g)
  BY <1>29 DEF DaemonCompletes
<1>30. CASE \E g \in Gids : DaemonFails(g)
  BY <1>30 DEF DaemonFails
<1>31. CASE \E f \in Files : FileVanishes(f)
  BY <1>31 DEF FileVanishes
<1>32. CASE UNCHANGED fetchVars
  BY <1>32 DEF fetchVars
<1>33. QED
  BY <1>1, <1>2, <1>3, <1>4, <1>5, <1>6, <1>7, <1>8, <1>9, <1>10, <1>11, <1>12, <1>13,
     <1>14, <1>15, <1>16, <1>17, <1>18, <1>19, <1>20, <1>21, <1>22, <1>23, <1>24, <1>25,
     <1>26, <1>27, <1>28, <1>29, <1>30, <1>31, <1>32
     DEF FetchNext, Aria2, Ytdlp, TGFile, Daemon

\* A file leaves the list of those to transfer when it is stored or was missing.
LEMMA PlacesStep ==
    ASSUME FetchTypeOK, Kinds, Cards, Places, SuccessMeansStored,
           [FetchNext]_fetchVars
    PROVE  Places' /\ SuccessMeansStored'
<1> USE DEF FetchTypeOK, Kinds, Cards, Places, SuccessMeansStored, modeVars,
            aria2Vars, fileVars, pipeVars
<1>1. CASE Enqueue
  BY <1>1 DEF Enqueue
<1>2. CASE Start
  BY <1>2 DEF Start
<1>3. CASE Cancel
  BY <1>3 DEF Cancel
<1>4. CASE AddURI
  BY <1>4 DEF AddURI
<1>5. CASE WaitSeesCancel
  BY <1>5 DEF WaitSeesCancel
<1>6. CASE WaitTicks
  BY <1>6 DEF WaitTicks
<1>7. CASE GetStatus
  BY <1>7 DEF GetStatus
<1>8. CASE WaitDecides
  BY <1>8 DEF WaitDecides, Finish
<1>9. CASE CancelForces
  BY <1>9 DEF CancelForces, ForceRemove
<1>10. CASE CancelForgets
  BY <1>10 DEF CancelForgets, Finish, RemoveDownloadResult
<1>11. CASE ListFiles
  BY <1>11, FetchAssumed DEF ListFiles, Finish
<1>12. CASE Aria2Ends
  BY <1>12 DEF Aria2Ends, Finish
<1>13. CASE Aria2Cleans
  BY <1>13 DEF Aria2Cleans, RemoveDownloadResult
<1>14. CASE \E f \in Files : SkipFile(f)
  BY <1>14 DEF SkipFile, RemoveFileIfNeeded
<1>15. CASE \E f \in Files : TransferAria2(f)
  BY <1>15 DEF TransferAria2, Finish, Failure, RemoveFileIfNeeded
<1>16. CASE YtdlpMkdir
  BY <1>16 DEF YtdlpMkdir, Finish
<1>17. CASE DownloadFiles
  BY <1>17 DEF DownloadFiles, Finish, Failure
<1>18. CASE YtdlpEnds
  BY <1>18 DEF YtdlpEnds, Finish
<1>19. CASE \E f \in Files : TransferYtdlp(f)
  BY <1>19 DEF TransferYtdlp, Finish, Failure
<1>20. CASE CreateLocal
  BY <1>20, FetchAssumed DEF CreateLocal
<1>21. CASE Download
  BY <1>21 DEF Download, Finish, Failure
<1>22. CASE SaveFile
  BY <1>22, FetchAssumed DEF SaveFile, Finish
<1>23. CASE SaveRetries
  BY <1>23 DEF SaveRetries, Finish
<1>24. CASE PipeFetch
  BY <1>24 DEF PipeFetch, InPipe
<1>25. CASE PipeRead
  BY <1>25, FetchAssumed DEF PipeRead, InPipe
<1>26. CASE PipeSaves
  BY <1>26, FetchAssumed DEF PipeSaves, InPipe
<1>27. CASE PipeWriteFails
  BY <1>27 DEF PipeWriteFails, InPipe
<1>28. CASE PipeEnds
  BY <1>28 DEF PipeEnds, Finish, Failure, InPipe
<1>29. CASE \E g \in Gids : DaemonCompletes(g)
  BY <1>29, FetchAssumed DEF DaemonCompletes
<1>30. CASE \E g \in Gids : DaemonFails(g)
  BY <1>30 DEF DaemonFails
<1>31. CASE \E f \in Files : FileVanishes(f)
  BY <1>31 DEF FileVanishes
<1>32. CASE UNCHANGED fetchVars
  BY <1>32 DEF fetchVars
<1>33. QED
  BY <1>1, <1>2, <1>3, <1>4, <1>5, <1>6, <1>7, <1>8, <1>9, <1>10, <1>11, <1>12, <1>13,
     <1>14, <1>15, <1>16, <1>17, <1>18, <1>19, <1>20, <1>21, <1>22, <1>23, <1>24, <1>25,
     <1>26, <1>27, <1>28, <1>29, <1>30, <1>31, <1>32
     DEF FetchNext, Aria2, Ytdlp, TGFile, Daemon

\* What is removed has been stored, and a private directory goes with its task.
LEMMA DiskStep ==
    ASSUME FetchTypeOK, Kinds, Disk, [FetchNext]_fetchVars
    PROVE  Disk'
<1> USE DEF Kinds, Disk, Gids, modeVars, aria2Vars, fileVars, pipeVars
<1>1. CASE Enqueue
  BY <1>1 DEF Enqueue
<1>2. CASE Start
  BY <1>2 DEF Start
<1>3. CASE Cancel
  BY <1>3 DEF Cancel
<1>4. CASE AddURI
  BY <1>4 DEF AddURI
<1>5. CASE WaitSeesCancel
  BY <1>5 DEF WaitSeesCancel
<1>6. CASE WaitTicks
  BY <1>6 DEF WaitTicks
<1>7. CASE GetStatus
  BY <1>7 DEF GetStatus
<1>8. CASE WaitDecides
  BY <1>8 DEF WaitDecides, Finish
<1>9. CASE CancelForces
  BY <1>9 DEF CancelForces, ForceRemove
<1>10. CASE CancelForgets
  BY <1>10 DEF CancelForgets, Finish, RemoveDownloadResult
<1>11. CASE ListFiles
  BY <1>11 DEF ListFiles, Finish
<1>12. CASE Aria2Ends
  BY <1>12 DEF Aria2Ends, Finish
<1>13. CASE Aria2Cleans
  BY <1>13 DEF Aria2Cleans, RemoveDownloadResult
<1>14. CASE \E f \in Files : SkipFile(f)
  BY <1>14 DEF SkipFile, RemoveFileIfNeeded
<1>15. CASE \E f \in Files : TransferAria2(f)
  BY <1>15 DEF TransferAria2, Finish, Failure, RemoveFileIfNeeded
<1>16. CASE YtdlpMkdir
  BY <1>16 DEF YtdlpMkdir, Finish
<1>17. CASE DownloadFiles
  BY <1>17 DEF DownloadFiles, Finish, Failure
<1>18. CASE YtdlpEnds
  BY <1>18 DEF YtdlpEnds, Finish
<1>19. CASE \E f \in Files : TransferYtdlp(f)
  BY <1>19 DEF TransferYtdlp, Finish, Failure
<1>20. CASE CreateLocal
  BY <1>20 DEF CreateLocal
<1>21. CASE Download
  BY <1>21 DEF Download, Finish, Failure
<1>22. CASE SaveFile
  BY <1>22 DEF SaveFile, Finish
<1>23. CASE SaveRetries
  BY <1>23 DEF SaveRetries, Finish
<1>24. CASE PipeFetch
  BY <1>24 DEF PipeFetch, InPipe
<1>25. CASE PipeRead
  BY <1>25 DEF PipeRead, InPipe
<1>26. CASE PipeSaves
  BY <1>26 DEF PipeSaves, InPipe
<1>27. CASE PipeWriteFails
  BY <1>27 DEF PipeWriteFails, InPipe
<1>28. CASE PipeEnds
  BY <1>28 DEF PipeEnds, Finish, Failure, InPipe
<1>29. CASE \E g \in Gids : DaemonCompletes(g)
  BY <1>29 DEF DaemonCompletes
<1>30. CASE \E g \in Gids : DaemonFails(g)
  BY <1>30 DEF DaemonFails
<1>31. CASE \E f \in Files : FileVanishes(f)
  BY <1>31 DEF FileVanishes
<1>32. CASE UNCHANGED fetchVars
  BY <1>32 DEF fetchVars
<1>33. QED
  BY <1>1, <1>2, <1>3, <1>4, <1>5, <1>6, <1>7, <1>8, <1>9, <1>10, <1>11, <1>12, <1>13,
     <1>14, <1>15, <1>16, <1>17, <1>18, <1>19, <1>20, <1>21, <1>22, <1>23, <1>24, <1>25,
     <1>26, <1>27, <1>28, <1>29, <1>30, <1>31, <1>32
     DEF FetchNext, Aria2, Ytdlp, TGFile, Daemon

LEMMA NextFetchInv == FetchInv /\ [FetchNext]_fetchVars => FetchInv'
<1>1. QED
  BY TypeStep, KindsStep, CardsStep, PlacesStep, DiskStep DEF FetchInv

\* Every variable of the task, its files and the daemon keeps its type.
THEOREM FetchTypeCorrect == FetchSpec => []FetchTypeOK
<1>1. FetchInv => FetchTypeOK
  BY DEF FetchInv
<1>2. QED
  BY <1>1, InitFetchInv, NextFetchInv, PTL DEF FetchSpec

\* Whatever exit Execute takes, the final card is the result it returns, except where
\* the local file of a single Telegram file cannot be created.
THEOREM CardSound == FetchSpec => []CardTellsResult
<1>1. FetchInv => CardTellsResult
  BY DEF FetchInv
<1>2. QED
  BY <1>1, InitFetchInv, NextFetchInv, PTL DEF FetchSpec

\* A task that succeeds has stored each file that was there when its turn came, and
\* has not succeeded with nothing at all.
THEOREM SuccessStored == FetchSpec => []SuccessMeansStored
<1>1. FetchInv => SuccessMeansStored
  BY DEF FetchInv
<1>2. QED
  BY <1>1, InitFetchInv, NextFetchInv, PTL DEF FetchSpec

\* No file is removed from the aria2 directory before the storage has it, and the
\* private files of the other tasks are gone when they end.
THEOREM NothingRemovedUnstored == FetchSpec => []RemovedWhenStored
<1>1. FetchInv => RemovedWhenStored
  BY DEF FetchInv, Disk, RemovedWhenStored
<1>2. QED
  BY <1>1, InitFetchInv, NextFetchInv, PTL DEF FetchSpec
=============================================================================
