------------------------ MODULE ProgressStore_proofs ------------------------
(***************************************************************************)
(* Proofs about ProgressStore for every set of tasks, copy goroutines and  *)
(* DELETE requests.  That a status agrees with the outcome is inductive    *)
(* together with three facts: a task is in one place of the queue, which   *)
(* the worker's progress tells; a request that is about to write           *)
(* "cancelled" has cancelled the task; and a copy goroutine belongs to a   *)
(* task that failed.                                                       *)
(***************************************************************************)
EXTENDS ProgressStore, ProgressCard, FiniteSetTheorems, TLAPS

Executing == {"taken", "executing", "returned", "notifying", "emitted"}
Waiting == {pending[i] : i \in 1..Len(pending)}

\* A task is in one place: waiting once, with a worker, or over.
Places ==
    /\ \A i, j \in 1..Len(pending) : pending[i] = pending[j] => i = j
    /\ \A t \in Tasks :
          /\ t \in Waiting => exec[t] = "none" /\ t \notin active \cup ended
          /\ t \in active <=> exec[t] \in Executing
          /\ exec[t] = "finished" => t \in ended
          /\ t \in Waiting \cup active \cup ended => create[t] = "accepted"

\* What the worker, the handlers and the webhook sender know about a task.
Facts ==
    /\ \A t \in Tasks :
          /\ result[t] = "none" <=> exec[t] \in {"none", "taken", "executing"}
          /\ exec[t] = "notifying" \/ payload[t] # "none" => t \in Hooked
          /\ t \in copying => result[t] = "error"
    /\ \A d \in Deleters :
          /\ deleter[d] # "idle" => target[d] \in Tasks
          /\ deleter[d] = "fired" => target[d] \in cancelled

\* A record that is gone was terminal, or the task was refused.
Records ==
    \A t \in Tasks :
        create[t] \in {"registered", "accepted"} =>
            t \in registered \/ t \in cancelled \/ result[t] # "none"

IInv == TypeOK /\ Places /\ Facts /\ StatusTellsOutcome /\ Records

-----------------------------------------------------------------------------
(* The queue's list *)

LEMMA SubmitWaits ==
    ASSUME pending \in Seq(Tasks), NEW t \in Tasks, pending' = Append(pending, t)
    PROVE  /\ pending' \in Seq(Tasks)
           /\ Waiting' = Waiting \cup {t}
           /\ (/\ t \notin Waiting
               /\ \A i, j \in 1..Len(pending) : pending[i] = pending[j] => i = j)
              => \A i, j \in 1..Len(pending') : pending'[i] = pending'[j] => i = j
<1>1. Len(pending') = Len(pending) + 1 /\ Len(pending) \in Nat /\ pending' \in Seq(Tasks)
  OBVIOUS
<1>2. \A i \in 1..Len(pending) : pending'[i] = pending[i]
  OBVIOUS
<1>3. pending'[Len(pending) + 1] = t
  OBVIOUS
<1>4. QED
  BY <1>1, <1>2, <1>3 DEF Waiting

\* The head leaves, and no second copy of it stays.
LEMMA HeadLeaves ==
    ASSUME pending \in Seq(Tasks), pending # <<>>, pending' = Tail(pending),
           \A i, j \in 1..Len(pending) : pending[i] = pending[j] => i = j
    PROVE  /\ pending' \in Seq(Tasks)
           /\ Head(pending) \in Tasks
           /\ Head(pending) \in Waiting
           /\ Waiting' = Waiting \ {Head(pending)}
           /\ \A i, j \in 1..Len(pending') : pending'[i] = pending'[j] => i = j
<1>1. Len(pending') = Len(pending) - 1 /\ Len(pending) \in Nat /\ Len(pending) > 0
  OBVIOUS
<1>2. \A i \in 1..Len(pending') : pending'[i] = pending[i + 1]
  OBVIOUS
<1>3. Head(pending) = pending[1] /\ pending[1] \in Tasks /\ pending' \in Seq(Tasks)
  OBVIOUS
<1>4. Waiting' \subseteq Waiting \ {Head(pending)}
  BY <1>1, <1>2, <1>3 DEF Waiting
<1>5. ASSUME NEW t \in Waiting, t # Head(pending) PROVE t \in Waiting'
  <2>1. PICK k \in 1..Len(pending) : t = pending[k]
    BY DEF Waiting
  <2>2. k - 1 \in 1..Len(pending') /\ pending'[k - 1] = pending[k]
    BY <1>1, <1>2, <1>3, <1>5, <2>1
  <2>3. QED
    BY <2>1, <2>2 DEF Waiting
<1>6. Head(pending) \in Waiting
  BY <1>1, <1>3 DEF Waiting
<1>7. \A i, j \in 1..Len(pending') : pending'[i] = pending'[j] => i = j
  BY <1>1, <1>2
<1>8. QED
  BY <1>3, <1>4, <1>5, <1>6, <1>7

-----------------------------------------------------------------------------
(* The initial state *)

LEMMA InitIInv == Init => IInv
<1> SUFFICES ASSUME Init PROVE IInv
  OBVIOUS
<1>0. MaxAttempts \in Nat /\ NoTask \notin Tasks
  BY StoreAssumption
<1>1. pending = <<>> /\ active = {} /\ cancelled = {} /\ ended = {} /\ closed = FALSE
  BY DEF Init, Queue!Init
<1>2. pending \in Seq(Tasks) /\ Len(pending) = 0 /\ Waiting = {}
  BY <1>1 DEF Waiting
<1>3. 0 \in 0..MaxAttempts
  BY <1>0
<1>4. TypeOK
  <2>1. /\ status \in [Tasks -> Statuses]
        /\ payload \in [Tasks -> {"none", "running", Torn} \cup Terminal]
    BY DEF Init, Statuses
  <2>2. attempts \in [Tasks -> 0..MaxAttempts]
    BY <1>3 DEF Init
  <2>3. target \in [Deleters -> Tasks \cup {NoTask}]
    BY DEF Init
  <2>4. QED
    BY <1>1, <1>2, <2>1, <2>2, <2>3 DEF Init, TypeOK
<1>5. Places
  BY <1>1, <1>2 DEF Init, Places, Executing
<1>6. Facts /\ StatusTellsOutcome /\ Records
  BY DEF Init, Facts, StatusTellsOutcome, Claims, TakenBack, Torn, Records
<1>7. QED
  BY <1>4, <1>5, <1>6 DEF IInv
-----------------------------------------------------------------------------
(* Steps that leave the queue and the worker alone *)

LEMMA PlacesFrame ==
    ASSUME Places, UNCHANGED <<pending, active, exec>>, ended \subseteq ended', ended' = ended,
           \A t \in Tasks : create[t] = "accepted" => create'[t] = "accepted"
    PROVE  Places' /\ Waiting' = Waiting
<1>1. Waiting' = Waiting
  BY DEF Waiting
<1>2. QED
  BY <1>1 DEF Places

\* Handlers, the webhook goroutine, cleanup and shutdown.
LEMMA StepOutside ==
    ASSUME IInv, exited' \in BOOLEAN,
           \/ \E t \in Tasks : RegisterTask(t) \/ AddTaskFails(t) \/ WebhookStep(t) \/ CleanupExpired(t)
                               \/ BotCancel(t)
           \/ \E d \in Deleters : DeleteStep(d) \/ \E t \in Tasks : DeleteLookup(d, t)
           \/ RootDone \/ CloseQueue \/ Exit \/ UNCHANGED vars
    PROVE  IInv'
<1> USE DEF IInv, queueVars, hookVars, handlerVars, processVars
<1>0. MaxAttempts \in Nat /\ NoTask \notin Tasks /\ Hooked \subseteq Tasks
  BY StoreAssumption
<1>1. ASSUME NEW t \in Tasks, RegisterTask(t) PROVE IInv'
  <2>1. UNCHANGED <<queueVars, status, notified, exec, result, copying, hookVars, deleter, target, processVars>>
    BY <1>1 DEF RegisterTask
  <2>2. /\ \A u \in Tasks : create'[u] = IF u = t THEN "registered" ELSE create[u]
        /\ create[t] = "none" /\ registered' = registered \cup {t}
    BY <1>1 DEF RegisterTask, TypeOK
  <2>3. TypeOK'
    BY <1>1, <2>1 DEF RegisterTask, TypeOK
  <2>4. Places'
    BY <2>1, <2>2, PlacesFrame
  <2>5. Facts' /\ StatusTellsOutcome'
    BY <2>1 DEF Facts, StatusTellsOutcome, Claims, TakenBack
  <2>6. Records'
    BY <2>1, <2>2 DEF Records
  <2>7. QED
    BY <2>3, <2>4, <2>5, <2>6
<1>2. ASSUME NEW t \in Tasks, AddTaskFails(t) PROVE IInv'
  <2>1. UNCHANGED <<queueVars, status, notified, exec, result, copying, hookVars, deleter, target, processVars>>
    BY <1>2 DEF AddTaskFails
  <2>2. /\ \A u \in Tasks : create'[u] = IF u = t THEN "refused" ELSE create[u]
        /\ create[t] = "registered" /\ registered' = registered \ {t}
    BY <1>2 DEF AddTaskFails, TypeOK
  <2>3. TypeOK'
    BY <1>2, <2>1 DEF AddTaskFails, TypeOK
  <2>4. Places'
    BY <2>1, <2>2, PlacesFrame
  <2>5. Facts' /\ StatusTellsOutcome'
    BY <2>1 DEF Facts, StatusTellsOutcome, Claims, TakenBack
  <2>6. Records'
    BY <2>1, <2>2 DEF Records
  <2>7. QED
    BY <2>3, <2>4, <2>5, <2>6
<1>3. ASSUME NEW t \in Tasks, WebhookAttempt(t) PROVE IInv'
  <2>1. UNCHANGED <<queueVars, registered, status, notified, exec, result, copying, payload, abandoned,
                    handlerVars, processVars>>
    BY <1>3 DEF WebhookAttempt
  <2>2. t \in Hooked
    BY <1>3 DEF WebhookAttempt, Facts
  <2>3. attempts' \in [Tasks -> 0..MaxAttempts]
    BY <1>0, <1>3 DEF WebhookAttempt, TypeOK
  <2>4. acked' \in SUBSET Hooked
    BY <1>3, <2>2 DEF WebhookAttempt, TypeOK
  <2>5. TypeOK'
    BY <2>1, <2>3, <2>4 DEF TypeOK
  <2>6. Places'
    BY <2>1, PlacesFrame
  <2>7. Facts' /\ StatusTellsOutcome' /\ Records'
    BY <2>1 DEF Facts, StatusTellsOutcome, Claims, TakenBack, Records
  <2>8. QED
    BY <2>5, <2>6, <2>7
<1>4. ASSUME NEW t \in Tasks, CleanupExpired(t) PROVE IInv'
  <2>1. UNCHANGED <<queueVars, status, notified, exec, result, copying, hookVars, handlerVars, processVars>>
    BY <1>4 DEF CleanupExpired
  <2>2. registered' = registered \ {t} /\ status[t] \in Terminal
    BY <1>4 DEF CleanupExpired
  <2>3. TypeOK'
    BY <2>1, <2>2 DEF TypeOK
  <2>4. Places'
    BY <2>1, PlacesFrame
  <2>5. Facts' /\ StatusTellsOutcome'
    BY <2>1 DEF Facts, StatusTellsOutcome, Claims, TakenBack
  <2>6. t \in cancelled \/ result[t] # "none"
    BY <2>2 DEF Terminal, StatusTellsOutcome, Claims, TakenBack
  <2>7. Records'
    BY <2>1, <2>2, <2>6 DEF Records
  <2>8. QED
    BY <2>3, <2>4, <2>5, <2>7
<1>5. ASSUME NEW d \in Deleters, NEW t \in Tasks, DeleteLookup(d, t) PROVE IInv'
  <2>1. UNCHANGED <<queueVars, registered, status, notified, exec, result, copying, hookVars, create, processVars>>
    BY <1>5 DEF DeleteLookup
  <2>2. \A e \in Deleters : /\ deleter'[e] = IF e = d THEN "looked" ELSE deleter[e]
                            /\ target'[e] = IF e = d THEN t ELSE target[e]
    BY <1>5 DEF DeleteLookup, TypeOK
  <2>3. TypeOK'
    BY <1>5, <2>1 DEF DeleteLookup, TypeOK
  <2>4. Places'
    BY <2>1, PlacesFrame
  <2>5. Facts'
    BY <2>1, <2>2 DEF Facts
  <2>6. StatusTellsOutcome' /\ Records'
    BY <2>1 DEF StatusTellsOutcome, Claims, TakenBack, Records
  <2>7. QED
    BY <2>3, <2>4, <2>5, <2>6
<1>6. ASSUME NEW d \in Deleters, DeleteFind(d) PROVE IInv'
  <2>1. UNCHANGED <<queueVars, registered, status, notified, exec, result, copying, hookVars, create, target,
                    processVars>>
    BY <1>6 DEF DeleteFind
  <2>2. /\ deleter'[d] \in {"found", "error"}
        /\ \A e \in Deleters : e # d => deleter'[e] = deleter[e]
        /\ deleter[d] = "looked"
        /\ deleter' \in [Deleters -> {"idle", "looked", "found", "error", "fired", "ok"}]
    BY <1>6 DEF DeleteFind, TypeOK
  <2>3. TypeOK'
    BY <2>1, <2>2 DEF TypeOK
  <2>4. Places'
    BY <2>1, PlacesFrame
  <2>5. Facts'
    BY <2>1, <2>2 DEF Facts
  <2>6. StatusTellsOutcome' /\ Records'
    BY <2>1 DEF StatusTellsOutcome, Claims, TakenBack, Records
  <2>7. QED
    BY <2>3, <2>4, <2>5, <2>6
<1>7. ASSUME NEW d \in Deleters, DeleteFire(d) PROVE IInv'
  <2>1. UNCHANGED <<pending, active, ended, closed, registered, status, notified, exec, result, copying,
                    hookVars, create, target, processVars>>
    BY <1>7 DEF DeleteFire, Queue!Cancel
  <2>2. /\ \A e \in Deleters : deleter'[e] = IF e = d THEN "fired" ELSE deleter[e]
        /\ deleter[d] = "found" /\ cancelled' = cancelled \cup {target[d]}
    BY <1>7 DEF DeleteFire, Queue!Cancel, TypeOK
  <2>3. target[d] \in Tasks
    BY <2>2 DEF Facts
  <2>4. TypeOK'
    BY <1>7, <2>1, <2>2, <2>3 DEF DeleteFire, TypeOK
  <2>5. Places'
    BY <2>1, PlacesFrame
  <2>6. Facts'
    BY <2>1, <2>2 DEF Facts
  <2>7. StatusTellsOutcome' /\ Records'
    BY <2>1, <2>2 DEF StatusTellsOutcome, Claims, TakenBack, Records
  <2>8. QED
    BY <2>4, <2>5, <2>6, <2>7
<1>8. ASSUME NEW d \in Deleters, DeleteUpdate(d) PROVE IInv'
  <2>1. UNCHANGED <<queueVars, registered, notified, exec, result, copying, hookVars, create, target, processVars>>
    BY <1>8 DEF DeleteUpdate
  <2>2. target[d] \in Tasks /\ target[d] \in cancelled
    BY <1>8 DEF DeleteUpdate, Facts
  <2>3. /\ \A t \in Tasks : status'[t] = IF t = target[d] THEN "cancelled" ELSE status[t]
        /\ \A e \in Deleters : deleter'[e] = IF e = d THEN "ok" ELSE deleter[e]
    BY <1>8 DEF DeleteUpdate, TypeOK
  <2>4. TypeOK'
    BY <1>8, <2>1 DEF DeleteUpdate, TypeOK, Statuses
  <2>5. Places'
    BY <2>1, PlacesFrame
  <2>6. Facts' /\ Records'
    <3>1. \A e \in Deleters : deleter'[e] = "fired" => deleter[e] = "fired"
      BY <2>3
    <3>2. \A e \in Deleters : deleter'[e] # "idle" => target[e] \in Tasks
      BY <2>2, <2>3 DEF Facts
    <3>3. QED
      BY <2>1, <3>1, <3>2 DEF Facts, Records
  <2>7. StatusTellsOutcome'
    BY <2>1, <2>2, <2>3 DEF StatusTellsOutcome, Claims, TakenBack
  <2>8. QED
    BY <2>4, <2>5, <2>6, <2>7
<1>9. CASE RootDone
  <2>1. UNCHANGED <<pending, active, ended, closed, registered, status, notified, exec, result, copying,
                    hookVars, handlerVars, silenced>>
    BY <1>9 DEF RootDone, Queue!CancelAll
  <2>2. cancelled' = Tasks /\ rootDone' = TRUE
    BY <1>9 DEF RootDone, Queue!CancelAll
  <2>3. TypeOK'
    BY <2>1, <2>2 DEF TypeOK
  <2>4. Places'
    BY <2>1, PlacesFrame
  <2>5. Facts' /\ StatusTellsOutcome' /\ Records'
    BY <2>1, <2>2 DEF Facts, StatusTellsOutcome, Claims, TakenBack, Records
  <2>6. QED
    BY <2>3, <2>4, <2>5
<1>10. CASE CloseQueue
  <2>1. UNCHANGED <<pending, active, cancelled, ended, registered, status, notified, exec, result, copying,
                    hookVars, handlerVars, processVars>> /\ closed' = TRUE
    BY <1>10 DEF CloseQueue, Queue!Close
  <2>2. TypeOK'
    BY <2>1 DEF TypeOK
  <2>3. Places'
    BY <2>1, PlacesFrame
  <2>4. Facts' /\ StatusTellsOutcome' /\ Records'
    BY <2>1 DEF Facts, StatusTellsOutcome, Claims, TakenBack, Records
  <2>5. QED
    BY <2>2, <2>3, <2>4
<1>11. CASE UNCHANGED vars
  <2>1. TypeOK'
    BY <1>11 DEF vars, TypeOK
  <2>2. Places'
    BY <1>11, PlacesFrame DEF vars
  <2>3. Facts' /\ StatusTellsOutcome' /\ Records'
    BY <1>11 DEF vars, Facts, StatusTellsOutcome, Claims, TakenBack, Records
  <2>4. QED
    BY <2>1, <2>2, <2>3
<1>12. ASSUME NEW t \in Tasks, WebhookGivesUp(t) PROVE IInv'
  <2>1. UNCHANGED <<queueVars, registered, status, notified, exec, result, copying, payload, attempts, acked,
                    handlerVars, processVars>>
    BY <1>12 DEF WebhookGivesUp
  <2>2. t \in Hooked /\ abandoned' = abandoned \cup {t}
    BY <1>12 DEF WebhookGivesUp, Facts
  <2>3. TypeOK'
    BY <2>1, <2>2 DEF TypeOK
  <2>4. Places'
    BY <2>1, PlacesFrame
  <2>5. Facts' /\ StatusTellsOutcome' /\ Records'
    BY <2>1 DEF Facts, StatusTellsOutcome, Claims, TakenBack, Records
  <2>6. QED
    BY <2>3, <2>4, <2>5
<1>13. ASSUME NEW t \in Tasks, BotCancel(t) PROVE IInv'
  <2>1. UNCHANGED <<pending, active, ended, closed, registered, status, notified, exec, result, copying,
                    hookVars, handlerVars, rootDone>>
    BY <1>13 DEF BotCancel, Queue!Cancel
  <2>2. cancelled' = cancelled \cup {t} /\ silenced' \in SUBSET Tasks
    BY <1>13 DEF BotCancel, Queue!Cancel, TypeOK
  <2>3. TypeOK'
    BY <2>1, <2>2 DEF TypeOK
  <2>4. Places'
    BY <2>1, PlacesFrame
  <2>5. Facts' /\ StatusTellsOutcome' /\ Records'
    BY <2>1, <2>2 DEF Facts, StatusTellsOutcome, Claims, TakenBack, Records
  <2>6. QED
    BY <2>3, <2>4, <2>5
<1>14. CASE Exit
  <2>1. UNCHANGED <<queueVars, registered, status, notified, exec, result, copying, hookVars, handlerVars,
                    processVars>>
    BY <1>14 DEF Exit
  <2>2. TypeOK'
    BY <2>1 DEF TypeOK
  <2>3. Places'
    BY <2>1, PlacesFrame
  <2>4. Facts' /\ StatusTellsOutcome' /\ Records'
    BY <2>1 DEF Facts, StatusTellsOutcome, Claims, TakenBack, Records
  <2>5. QED
    BY <2>2, <2>3, <2>4
<1>15. QED
  BY <1>1, <1>2, <1>3, <1>4, <1>5, <1>6, <1>7, <1>8, <1>9, <1>10, <1>11, <1>12, <1>13, <1>14
     DEF DeleteStep, WebhookStep
-----------------------------------------------------------------------------
(* Steps of the queue *)

LEMMA StepQueue ==
    ASSUME IInv, exited' \in BOOLEAN, (\E t \in Tasks : AddTask(t) \/ QueueDone(t)) \/ TakeTask \/ DropTask
    PROVE  IInv'
<1> USE DEF IInv, queueVars, hookVars, handlerVars, processVars
<1>1. ASSUME NEW t \in Tasks, AddTask(t) PROVE IInv'
  <2>1. UNCHANGED <<active, cancelled, ended, closed, registered, status, notified, exec, result, copying,
                    hookVars, deleter, target, processVars>>
    BY <1>1 DEF AddTask, Queue!Submit
  <2>2. pending' = Append(pending, t) /\ t \notin Waiting \cup active \cup ended \cup cancelled
    BY <1>1 DEF AddTask, Queue!Submit, Queue!Live, Queue!Waiting, Waiting
  <2>3. /\ pending' \in Seq(Tasks)
        /\ Waiting' = Waiting \cup {t}
        /\ \A i, j \in 1..Len(pending') : pending'[i] = pending'[j] => i = j
    BY <2>2, SubmitWaits DEF TypeOK, Places
  <2>4. create[t] = "registered" /\ \A u \in Tasks : create'[u] = IF u = t THEN "accepted" ELSE create[u]
    BY <1>1 DEF AddTask, TypeOK
  <2>5. exec[t] = "none"
    BY <2>2 DEF Places, TypeOK, Executing
  <2>6. TypeOK'
    BY <1>1, <2>1, <2>3 DEF AddTask, TypeOK
  <2>7. Places'
    BY <2>1, <2>2, <2>3, <2>4, <2>5 DEF Places
  <2>8. Facts' /\ StatusTellsOutcome'
    BY <2>1 DEF Facts, StatusTellsOutcome, Claims, TakenBack
  <2>9. Records'
    BY <2>1, <2>4 DEF Records
  <2>10. QED
    BY <2>6, <2>7, <2>8, <2>9
<1>2. ASSUME NEW t \in Tasks, QueueDone(t) PROVE IInv'
  <2>1. UNCHANGED <<pending, cancelled, closed, registered, status, notified, result, copying, hookVars,
                    handlerVars, processVars>>
    BY <1>2 DEF QueueDone, Queue!Finish
  <2>2. /\ active' = active \ {t} /\ ended' = ended \cup {t} /\ t \in active /\ exec[t] = "emitted"
        /\ \A u \in Tasks : exec'[u] = IF u = t THEN "finished" ELSE exec[u]
    BY <1>2 DEF QueueDone, Queue!Finish, TypeOK
  <2>3. TypeOK'
    BY <1>2, <2>1, <2>2 DEF QueueDone, TypeOK
  <2>4. Waiting' = Waiting
    BY <2>1 DEF Waiting
  <2>5. Places'
    BY <2>1, <2>2, <2>4 DEF Places, Executing
  <2>6. Facts' /\ Records'
    BY <2>1, <2>2 DEF Facts, Records
  <2>7. StatusTellsOutcome'
    BY <2>1, <2>2 DEF StatusTellsOutcome, Claims, TakenBack
  <2>8. QED
    BY <2>3, <2>5, <2>6, <2>7
<1>3. CASE TakeTask
  <2> DEFINE t == Head(pending)
  <2>1. UNCHANGED <<cancelled, ended, closed, registered, status, notified, result, copying, hookVars,
                    handlerVars, processVars>>
    BY <1>3 DEF TakeTask, Queue!Start
  <2>2. pending # <<>> /\ pending' = Tail(pending) /\ active' = active \cup {t}
    BY <1>3 DEF TakeTask, Queue!Start
  <2>3. /\ pending' \in Seq(Tasks) /\ t \in Tasks /\ t \in Waiting /\ Waiting' = Waiting \ {t}
        /\ \A i, j \in 1..Len(pending') : pending'[i] = pending'[j] => i = j
    BY <2>2, HeadLeaves DEF TypeOK, Places
  <2> HIDE DEF t
  <2>4. \A u \in Tasks : exec'[u] = IF u = t THEN "taken" ELSE exec[u]
    BY <1>3, <2>3 DEF TakeTask, TypeOK, t
  <2>5. exec[t] = "none" /\ create[t] = "accepted"
    BY <2>3 DEF Places
  <2>6. TypeOK'
    BY <1>3, <2>1, <2>2, <2>3 DEF TakeTask, TypeOK
  <2>7. Places'
    BY <2>1, <2>2, <2>3, <2>4, <2>5 DEF Places, Executing
  <2>8. Facts' /\ Records'
    BY <2>1, <2>4, <2>5 DEF Facts, Records
  <2>9. StatusTellsOutcome'
    BY <2>1, <2>2, <2>4, <2>5 DEF StatusTellsOutcome, Claims, TakenBack
  <2>10. QED
    BY <2>6, <2>7, <2>8, <2>9
<1>4. CASE DropTask
  <2> DEFINE t == Head(pending)
  <2>1. UNCHANGED <<active, cancelled, closed, registered, status, notified, exec, result, copying, hookVars,
                    handlerVars, processVars>>
    BY <1>4 DEF DropTask, Queue!Discard
  <2>2. pending # <<>> /\ pending' = Tail(pending) /\ ended' = ended \cup {t}
    BY <1>4 DEF DropTask, Queue!Discard
  <2>3. /\ pending' \in Seq(Tasks) /\ t \in Tasks /\ t \in Waiting /\ Waiting' = Waiting \ {t}
        /\ \A i, j \in 1..Len(pending') : pending'[i] = pending'[j] => i = j
    BY <2>2, HeadLeaves DEF TypeOK, Places
  <2> HIDE DEF t
  <2>4. TypeOK'
    BY <2>1, <2>2, <2>3 DEF TypeOK
  <2>5. Places'
    BY <2>1, <2>2, <2>3 DEF Places
  <2>6. Facts' /\ StatusTellsOutcome' /\ Records'
    BY <2>1 DEF Facts, StatusTellsOutcome, Claims, TakenBack, Records
  <2>7. QED
    BY <2>4, <2>5, <2>6
<1>5. QED
  BY <1>1, <1>2, <1>3, <1>4

-----------------------------------------------------------------------------
(* Steps of the worker that executes a task, and of its copy goroutine *)

LEMMA PlacesOfWorker ==
    ASSUME TypeOK, Places, NEW t \in Tasks, NEW e \in Executing, exec[t] \in Executing,
           exec' = [exec EXCEPT ![t] = e], UNCHANGED <<pending, active, ended, create>>
    PROVE  Places'
<1>1. \A u \in Tasks : exec'[u] = IF u = t THEN e ELSE exec[u]
  BY DEF TypeOK
<1>2. Waiting' = Waiting
  BY DEF Waiting
<1>3. "none" \notin Executing /\ "finished" \notin Executing
  BY DEF Executing
<1>4. QED
  BY <1>1, <1>2, <1>3 DEF Places

LEMMA StepWorker ==
    ASSUME IInv, exited' \in BOOLEAN, NEW t \in Tasks,
           \/ EmitStart(t) \/ EmitProgress(t) \/ ExecuteReturns(t)
           \/ DetachedProgress(t) \/ EmitDone(t) \/ SendWebhook(t)
    PROVE  IInv'
<1> USE DEF IInv, queueVars, hookVars, handlerVars, processVars
<1>0. Hooked \subseteq Tasks /\ Detached \subseteq Tasks
  BY StoreAssumption
<1>1. CASE EmitStart(t)
  <2>1. UNCHANGED <<queueVars, registered, notified, result, copying, hookVars, handlerVars, processVars>>
    BY <1>1 DEF EmitStart
  <2>2. /\ exec[t] = "taken"
        /\ \A u \in Tasks : /\ exec'[u] = IF u = t THEN "executing" ELSE exec[u]
                            /\ status'[u] = IF u = t THEN "running" ELSE status[u]
    BY <1>1 DEF EmitStart, TypeOK
  <2>3. TypeOK'
    BY <1>1, <2>1 DEF EmitStart, TypeOK, Statuses
  <2>4. Places'
    BY <1>1, <2>1, PlacesOfWorker DEF EmitStart, Executing
  <2>5. Facts' /\ Records'
    BY <2>1, <2>2 DEF Facts, Records
  <2>6. t \in active
    BY <2>2 DEF Places, Executing
  <2>7. StatusTellsOutcome'
    BY <2>1, <2>2, <2>6 DEF StatusTellsOutcome, Claims, TakenBack
  <2>8. QED
    BY <2>3, <2>4, <2>5, <2>7
<1>2. CASE EmitProgress(t)
  <2>1. UNCHANGED <<queueVars, registered, notified, exec, result, copying, hookVars, handlerVars, processVars>>
    BY <1>2 DEF EmitProgress
  <2>2. exec[t] = "executing" /\ \A u \in Tasks : status'[u] = IF u = t THEN "running" ELSE status[u]
    BY <1>2 DEF EmitProgress, TypeOK
  <2>3. TypeOK'
    BY <1>2, <2>1 DEF EmitProgress, TypeOK, Statuses
  <2>4. Places'
    BY <2>1, PlacesFrame
  <2>5. Facts' /\ Records'
    BY <2>1, <2>2 DEF Facts, Records
  <2>6. t \in active
    BY <2>2 DEF Places, Executing
  <2>7. StatusTellsOutcome'
    BY <2>1, <2>2, <2>6 DEF StatusTellsOutcome, Claims, TakenBack
  <2>8. QED
    BY <2>3, <2>4, <2>5, <2>7
<1>3. CASE ExecuteReturns(t)
  <2>1. UNCHANGED <<queueVars, registered, status, notified, hookVars, handlerVars, processVars>>
    BY <1>3 DEF ExecuteReturns
  <2>2. exec[t] = "executing" /\ \A u \in Tasks : exec'[u] = IF u = t THEN "returned" ELSE exec[u]
    BY <1>3 DEF ExecuteReturns, TypeOK
  <2>3. PICK r \in {"ok", "error"} :
          /\ result' = [result EXCEPT ![t] = r]
          /\ copying' \in {copying} \cup (IF r = "error" /\ t \in Detached THEN {copying \cup {t}} ELSE {})
    BY <1>3 DEF ExecuteReturns
  <2>4. /\ \A u \in Tasks : result'[u] = IF u = t THEN r ELSE result[u]
        /\ copying' = copying \/ (copying' = copying \cup {t} /\ r = "error" /\ t \in Detached)
    BY <2>3 DEF TypeOK
  <2>5. result[t] = "none"
    BY <2>2 DEF Facts
  <2>6. TypeOK'
    BY <1>3, <2>1, <2>3, <2>4 DEF ExecuteReturns, TypeOK
  <2>7. Places'
    BY <1>3, <2>1, PlacesOfWorker DEF ExecuteReturns, Executing
  <2>8. Facts'
    BY <2>1, <2>2, <2>4, <2>5 DEF Facts
  <2>9. Records'
    BY <2>1, <2>4 DEF Records
  <2>10. StatusTellsOutcome'
    BY <2>1, <2>2, <2>4, <2>5 DEF StatusTellsOutcome, Claims, TakenBack
  <2>11. QED
    BY <2>6, <2>7, <2>8, <2>9, <2>10
<1>4. CASE DetachedProgress(t)
  <2>1. UNCHANGED <<queueVars, registered, notified, exec, result, hookVars, handlerVars, processVars>>
    BY <1>4 DEF DetachedProgress
  <2>2. /\ t \in copying /\ copying' \subseteq copying
        /\ \A u \in Tasks : status'[u] = IF u = t THEN "running" ELSE status[u]
    BY <1>4 DEF DetachedProgress, TypeOK
  <2>3. t \in Detached /\ result[t] = "error"
    BY <2>2 DEF TypeOK, Facts
  <2>4. TypeOK'
    BY <1>4, <2>1, <2>2 DEF DetachedProgress, TypeOK, Statuses
  <2>5. Places'
    BY <2>1, PlacesFrame
  <2>6. Facts' /\ Records'
    BY <2>1, <2>2 DEF Facts, Records
  <2>7. StatusTellsOutcome'
    BY <2>1, <2>2, <2>3 DEF StatusTellsOutcome, Claims, TakenBack
  <2>8. QED
    BY <2>4, <2>5, <2>6, <2>7
<1>5. CASE EmitDone(t)
  <2>1. UNCHANGED <<queueVars, registered, result, copying, hookVars, handlerVars, processVars>>
    BY <1>5 DEF EmitDone
  <2>2. PICK e \in {"notifying", "emitted"} :
          /\ exec' = [exec EXCEPT ![t] = e]
          /\ e = "notifying" => t \in Hooked
          /\ notified' \in SUBSET Hooked
    BY <1>5 DEF EmitDone, TypeOK
  <2>3. /\ exec[t] = "returned"
        /\ \A u \in Tasks : exec'[u] = IF u = t THEN e ELSE exec[u]
    BY <1>5, <2>2 DEF EmitDone, TypeOK
  <2>4. \A u \in Tasks :
          status'[u] = IF u = t THEN (IF result[t] = "ok" THEN "completed" ELSE "failed") ELSE status[u]
    BY <1>5 DEF EmitDone, TypeOK
  <2>5. result[t] \in {"ok", "error"}
    BY <2>3 DEF Facts, TypeOK
  <2>6. TypeOK'
    BY <1>5, <2>1, <2>2 DEF EmitDone, TypeOK, Statuses
  <2>7. Places'
    BY <2>1, <2>2, <2>3, PlacesOfWorker DEF Executing
  <2>8. Facts' /\ Records'
    BY <2>1, <2>2, <2>3, <2>5 DEF Facts, Records
  <2>9. StatusTellsOutcome'
    BY <2>1, <2>3, <2>4, <2>5 DEF StatusTellsOutcome, Claims, TakenBack
  <2>10. QED
    BY <2>6, <2>7, <2>8, <2>9
<1>6. CASE SendWebhook(t)
  <2>1. UNCHANGED <<queueVars, registered, status, notified, result, copying, attempts, acked, abandoned,
                    handlerVars, processVars>>
    BY <1>6 DEF SendWebhook
  <2>2. /\ exec[t] = "notifying"
        /\ \A u \in Tasks : exec'[u] = IF u = t THEN "emitted" ELSE exec[u]
    BY <1>6 DEF SendWebhook, TypeOK
  <2>3. t \in Hooked /\ status[t] \in {"running", "completed", "failed", "cancelled"}
    BY <2>2 DEF Facts, StatusTellsOutcome, Claims, TakenBack, TypeOK, Statuses
  <2>4. payload' = payload \/ \E s \in {"running", Torn} \cup Terminal : payload' = [payload EXCEPT ![t] = s]
    BY <1>6, <2>3 DEF SendWebhook, Terminal
  <2>5. TypeOK'
    BY <1>6, <2>1, <2>4, SMTT(30) DEF SendWebhook, TypeOK
  <2>6. \A u \in Tasks : u # t => payload'[u] = payload[u]
    BY <2>4 DEF TypeOK
  <2>7. Places'
    BY <1>6, <2>1, PlacesOfWorker DEF SendWebhook, Executing
  <2>8. Facts' /\ Records'
    BY <2>1, <2>2, <2>3, <2>6 DEF Facts, Records
  <2>9. StatusTellsOutcome'
    <3>1. CASE payload' = payload
      BY <2>1, <2>2, <3>1 DEF StatusTellsOutcome, Claims, TakenBack
    <3>2. CASE t \in registered
      <4>1. PICK s \in {status[t]} \cup
                      (IF \E d \in Deleters : deleter[d] = "fired" /\ target[d] = t
                       THEN {"cancelled", Torn} ELSE {}) \cup
                      (IF t \in copying THEN {"running", Torn} ELSE {}) :
                 payload' = [payload EXCEPT ![t] = s]
        BY <1>6, <3>2 DEF SendWebhook
      <4>2. \A u \in Tasks : payload'[u] = IF u = t THEN s ELSE payload[u]
        BY <4>1 DEF TypeOK
      <4>3. status[t] = "running" => TakenBack(t)
        BY <2>2 DEF StatusTellsOutcome
      <4>4. (\E d \in Deleters : deleter[d] = "fired" /\ target[d] = t) => t \in cancelled
        BY DEF Facts
      <4>5. t \in copying => TakenBack(t)
        BY DEF Facts, TypeOK, TakenBack
      <4>6. /\ Claims(t, s)
            /\ s = "running" => TakenBack(t)
            /\ s = Torn => t \in cancelled \/ TakenBack(t)
        BY <2>3, <4>1, <4>3, <4>4, <4>5 DEF StatusTellsOutcome, Claims, Torn
      <4>7. result[t] # "none"
        BY <2>2 DEF Facts
      <4>8. QED
        BY <2>1, <2>2, <4>2, <4>6, <4>7 DEF StatusTellsOutcome, Claims, TakenBack
    <3>3. QED
      BY <1>6, <3>1, <3>2 DEF SendWebhook
  <2>10. QED
    BY <2>5, <2>7, <2>8, <2>9
<1>7. QED
  BY <1>1, <1>2, <1>3, <1>4, <1>5, <1>6

LEMMA StepIInv == IInv /\ [Next]_vars => IInv'
<1> SUFFICES ASSUME IInv, [Next]_vars PROVE IInv'
  OBVIOUS
<1>1. exited \in BOOLEAN
  BY DEF IInv, TypeOK
<1>2. CASE Alive(ProcessStep)
  <2>1. exited' \in BOOLEAN /\ ProcessStep
    BY <1>1, <1>2 DEF Alive
  <2>2. QED
    BY <2>1, StepOutside, StepQueue, StepWorker DEF ProcessStep, CreateStep, WorkerStep
<1>3. CASE Exit
  BY <1>3, StepOutside DEF Exit
<1>4. CASE UNCHANGED vars
  BY <1>1, <1>4, StepOutside DEF vars
<1>5. QED
  BY <1>2, <1>3, <1>4 DEF Next

-----------------------------------------------------------------------------
(* Theorems *)

\* TypeOK: every variable keeps its type.  That the payload of a webhook is
\* never "queued" rests on the whole invariant.
THEOREM TypeCorrect == Spec => []TypeOK
<1>1. IInv => TypeOK
  BY DEF IInv
<1>2. QED
  BY <1>1, InitIInv, StepIInv, PTL DEF Spec

\* StatusTellsOutcome: whatever order the worker, DELETE requests and copy
\* goroutines write the status in, it agrees with what became of the task.
THEOREM StatusSound == Spec => []StatusTellsOutcome
<1>1. IInv => StatusTellsOutcome
  BY DEF IInv
<1>2. QED
  BY <1>1, InitIInv, StepIInv, PTL DEF Spec

\* LiveTaskTracked: a task in the queue has its record unless it was cancelled
\* or has returned.
THEOREM LiveTracked == Spec => []LiveTaskTracked
<1>1. IInv => LiveTaskTracked
  <2> SUFFICES ASSUME IInv, NEW t \in Queue!Live, t \notin registered
               PROVE  t \in cancelled \/ result[t] # "none"
    BY DEF LiveTaskTracked
  <2>1. t \in Waiting \cup active
    BY DEF Queue!Live, Queue!Waiting, Waiting
  <2>2. t \in Tasks
    BY <2>1 DEF IInv, TypeOK, Waiting
  <2>3. QED
    BY <2>1, <2>2 DEF IInv, Places, Records
<1>2. QED
  BY <1>1, InitIInv, StepIInv, PTL DEF Spec

-----------------------------------------------------------------------------
(* The queue's promise *)

\* Whatever the handlers, the worker and the shutdown do, they use the queue as
\* its abstract lifecycle allows.
LEMMA StepUsesQueue ==
    ASSUME IInv, [Next]_vars
    PROVE  Queue!Next \/ UNCHANGED Queue!vars
<1> USE DEF queueVars, Queue!vars
<1>1. ASSUME NEW t \in Tasks, CreateStep(t) PROVE Queue!Next \/ UNCHANGED Queue!vars
  BY <1>1 DEF CreateStep, RegisterTask, AddTask, AddTaskFails, Queue!Next
<1>2. ASSUME NEW t \in Tasks, WorkerStep(t) PROVE Queue!Next \/ UNCHANGED Queue!vars
  BY <1>2 DEF WorkerStep, EmitStart, ExecuteReturns, EmitDone, SendWebhook, QueueDone, Queue!Next
<1>3. ASSUME NEW t \in Tasks,
             EmitProgress(t) \/ DetachedProgress(t) \/ WebhookStep(t) \/ CleanupExpired(t) \/ BotCancel(t)
      PROVE Queue!Next \/ UNCHANGED Queue!vars
  <2>1. CASE BotCancel(t)
    BY <2>1 DEF BotCancel, Queue!Next
  <2>2. QED
    BY <1>3, <2>1 DEF EmitProgress, DetachedProgress, WebhookStep, WebhookAttempt, WebhookGivesUp, CleanupExpired
<1>4. ASSUME NEW d \in Deleters, DeleteStep(d) PROVE Queue!Next \/ UNCHANGED Queue!vars
  <2>1. CASE DeleteFire(d)
    <3>1. target[d] \in Tasks
      BY <2>1 DEF DeleteFire, IInv, Facts
    <3>2. QED
      BY <2>1, <3>1 DEF DeleteFire, Queue!Next
  <2>2. QED
    BY <1>4, <2>1 DEF DeleteStep, DeleteFind, DeleteUpdate
<1>5. ASSUME NEW d \in Deleters, NEW t \in Tasks, DeleteLookup(d, t) PROVE UNCHANGED Queue!vars
  BY <1>5 DEF DeleteLookup
<1>6. CASE TakeTask \/ DropTask \/ RootDone \/ CloseQueue
  BY <1>6 DEF TakeTask, DropTask, RootDone, CloseQueue, Queue!Next
<1>7. CASE UNCHANGED vars \/ Exit
  BY <1>7 DEF vars, Exit
<1>8. CASE ProcessStep
  BY <1>1, <1>2, <1>3, <1>4, <1>5, <1>6, <1>8 DEF ProcessStep
<1>9. QED
  BY <1>7, <1>8 DEF Next, Alive

\* The store's handlers and the worker are a client of the queue that
\* TaskQueue implements: what the queue does here is what TaskLifecycle allows.
THEOREM UsesQueue == Spec => Queue!Spec
<1>1. Init => Queue!Init
  BY DEF Init
<1>2. IInv /\ [Next]_vars => [Queue!Next]_(Queue!vars)
  BY StepUsesQueue
<1>3. QED
  BY <1>1, <1>2, InitIInv, StepIInv, PTL DEF Spec, Queue!Spec

-----------------------------------------------------------------------------
(* Progress cards: the invariant *)

Unreported == \A r \in Reporters : pc[r] = "idle"

\* Nothing is reported before the task runs.
NotBegun == stage = "new" /\ kind # "batch" => Unreported

\* Nothing is reported any more when it is over, but to a batch tracker.
Ended == stage = "over" /\ kind # "batch" /\ ~late => Unreported

Finished ==
    /\ stage \in {"finished", "over"} => outcome \in {"ok", "failed", "cancelled"}
    /\ stage = "finished" => kind = "batch"

CardInv == CardTypeOK /\ NotBegun /\ Ended /\ Finished /\ FinalCardStays

-----------------------------------------------------------------------------
(* What the steps are *)

ItemType == [phase : Phases, up : 0..Total, result : Results]

\* Some reporter replaces what is known of a file.
Marked(r, i) ==
    /\ kind = "batch" /\ (stage = "running" \/ late)
    /\ \E new \in ItemType : Mark(r, i, new)

ReportStep(r) ==
    \/ Advance(r)
    \/ kind \in Percent /\ (PercentCheck(r) \/ PercentStore(r))
    \/ kind = "telegraph" /\ CountCheck(r)
    \/ kind \in Percent \cup {"telegraph"} /\ (Render(r) \/ Send(r))
    \/ TFileOnProgress(r) \/ BatchRender(r)
    \/ \E i \in Items : Marked(r, i)

TaskStep ==
    \/ \E k \in Kinds : Starts(k)
    \/ BulkdlOnStart
    \/ \E k \in Kinds \ {"batch"} : Ends(k)
    \/ BatchFinish \/ BatchOnDone \/ TFileLeaves
    \/ Aria2OnProgress \/ YtdlpOnProgress
    \/ TFileOnUploadStart \/ TFileOnUploadProgress

LEMMA CardSteps ==
    ASSUME CardTypeOK, [CardNext]_cardVars
    PROVE  UNCHANGED cardVars \/ TaskStep \/ \E r \in Reporters : ReportStep(r)
<1>1. OnStart => (\E k \in Kinds : Starts(k)) \/ BulkdlOnStart
  BY DEF OnStart, Kinds, Percent, DirectOnStart, ParsedOnStart, TransferOnStart, TelegraphOnStart,
         Aria2OnStart, YtdlpOnStart, TFileOnStart, BatchOnStart
<1>2. OnDone => (\E k \in Kinds \ {"batch"} : Ends(k)) \/ BatchFinish \/ BatchOnDone
  BY DEF OnDone, Kinds, Percent, DirectOnDone, ParsedOnDone, TransferOnDone, TelegraphOnDone,
         Aria2OnDone, YtdlpOnDone, BulkdlOnDone, TFileOnDone
<1>3. ASSUME NEW r \in Reporters, OnProgress(r) PROVE ReportStep(r)
  BY <1>3 DEF OnProgress, ReportStep, Percent, DirectOnProgress, ParsedOnProgress, TransferOnProgress,
              TelegraphOnProgress
<1>4. ASSUME NEW r \in Reporters, NEW i \in Items, MarkItem(r, i) PROVE Marked(r, i)
  <2>1. items[i] \in ItemType /\ Total \in Nat \ {0}
    BY CardAssumption DEF CardTypeOK, ItemType
  <2>2. \A phase \in Phases : [items[i] EXCEPT !.phase = phase] \in ItemType
    BY <2>1 DEF ItemType
  <2>3. CASE MarkItemActive(r, i) \/ RecordItemDownloaded(r, i) \/ MarkItemRetry(r, i)
    BY <2>2, <2>3 DEF MarkItemActive, RecordItemDownloaded, MarkItemRetry, MarkPhase, Working, Marked, Phases,
                      Transfers
  <2>4. CASE MarkItemFailed(r, i) \/ MarkItemCompleted(r, i)
    <3>1. \A x \in {"completed", "failed", "stopped"} :
              [items[i] EXCEPT !.phase = x, !.result = x] \in ItemType
      BY <2>1 DEF ItemType, Phases, Results
    <3>2. QED
      BY <2>4, <3>1 DEF MarkItemFailed, MarkItemCompleted, Working, Marked
  <2>5. CASE RecordItemDownload(r, i)
    <3>1. [items[i] EXCEPT !.up = @ + 1] \in ItemType
      BY <2>1, <2>5 DEF RecordItemDownload, ItemType
    <3>2. QED
      BY <2>5, <3>1 DEF RecordItemDownload, Working, Marked
  <2>6. CASE RecordItemUpload(r, i)
    <3>1. \A now \in 1..Total, x \in {"confirming", "uploading"} :
              [items[i] EXCEPT !.phase = x, !.up = now] \in ItemType
      <4>1. ASSUME NEW now \in 1..Total PROVE now \in 0..Total
        BY <2>1
      <4>2. {"confirming", "uploading"} \subseteq Phases
        BY DEF Phases, Transfers
      <4>3. QED
        BY <2>1, <4>1, <4>2 DEF ItemType
    <3>2. \E new \in ItemType : Mark(r, i, new)
      <4>1. PICK now \in 1..Total :
                IF now < items[i].up /\ items[i].phase # "retrying"
                   THEN Mark(r, i, items[i])
                   ELSE Mark(r, i, [items[i] EXCEPT !.phase = IF now = Total THEN "confirming" ELSE "uploading",
                                                    !.up = now])
        BY <2>6 DEF RecordItemUpload
      <4>2. QED
        BY <2>1, <3>1, <4>1
    <3>3. kind = "batch" /\ (stage = "running" \/ late)
      BY <2>6 DEF RecordItemUpload, Working
    <3>4. QED
      BY <3>2, <3>3 DEF Marked
  <2>7. QED
    BY <1>4, <2>3, <2>4, <2>5, <2>6 DEF MarkItem
<1>5. QED
  BY <1>1, <1>2, <1>3, <1>4 DEF CardNext, TaskStep, ReportStep

-----------------------------------------------------------------------------
(* The files a card accounts for *)

LEMMA Subsets ==
    ASSUME NEW P
    PROVE  /\ InPhase(P) \subseteq Items /\ IsFiniteSet(InPhase(P))
           /\ Cardinality(InPhase(P)) \in Nat /\ Cardinality(InPhase(P)) <= N
<1>1. IsFiniteSet(Items) /\ Cardinality(Items) = N
  BY CardAssumption, FS_Interval DEF Items
<1>2. InPhase(P) \subseteq Items
  BY DEF InPhase
<1>3. QED
  BY <1>1, <1>2, FS_Subset, FS_CardinalityType

\* Files of different phases are counted once.
LEMMA Disjoint ==
    ASSUME NEW P, NEW Q, P \cap Q = {}
    PROVE  Cardinality(InPhase(P)) + Cardinality(InPhase(Q)) = Cardinality(InPhase(P \cup Q))
<1>1. InPhase(P \cup Q) = InPhase(P) \cup InPhase(Q) /\ InPhase(P) \cap InPhase(Q) = {}
  BY DEF InPhase
<1>2. IsFiniteSet(InPhase(P)) /\ IsFiniteSet(InPhase(Q))
  BY Subsets
<1>3. Cardinality(InPhase(P)) \in Nat /\ Cardinality(InPhase(Q)) \in Nat
  BY Subsets
<1>4. Cardinality(InPhase(P) \cup InPhase(Q)) =
         Cardinality(InPhase(P)) + Cardinality(InPhase(Q)) - Cardinality(InPhase(P) \cap InPhase(Q))
  BY <1>2, FS_Union
<1>5. Cardinality(InPhase(P) \cap InPhase(Q)) = 0
  BY <1>1, FS_EmptySet
<1>6. Cardinality(InPhase(P \cup Q)) = Cardinality(InPhase(P)) + Cardinality(InPhase(Q)) - 0
  BY <1>1, <1>4, <1>5
<1>7. QED
  BY <1>3, <1>6

\* A card never accounts for more files than the batch has.
LEMMA CardCounts == Accounted \in 0..N
<1> DEFINE A == {"completed", "waiting", "downloaded", "failed"}
           C == {"confirming"}
           a == Cardinality(InPhase(A))
           t == Cardinality(InPhase(Transfers))
           c == Cardinality(InPhase(C))
<1>1. a \in Nat /\ t \in Nat /\ c \in Nat /\ Visible \in Nat /\ N \in Nat
  BY Subsets, CardAssumption
<1>2. a + t = Cardinality(InPhase(A \cup Transfers))
  BY Disjoint DEF Transfers
<1>3. Cardinality(InPhase(A \cup Transfers)) + c = Cardinality(InPhase((A \cup Transfers) \cup C))
  BY Disjoint DEF Transfers
<1>4. a + t + c <= N
  BY <1>2, <1>3, Subsets
<1>5. Shown.full + Shown.hidden + Shown.confirming = t + c
  <2> HIDE DEF t, c
  <2>1. Shown = LET visible == IF t < Visible THEN t ELSE Visible
                IN  IF c = 1 /\ visible < Visible
                       THEN [full |-> visible + 1, hidden |-> t - visible, confirming |-> 0]
                       ELSE [full |-> visible, hidden |-> t - visible, confirming |-> c]
    BY DEF Shown, t, c
  <2>2. QED
    BY <1>1, <2>1
<1>6. Shown.full \in Nat /\ Shown.hidden \in Nat /\ Shown.confirming \in Nat
  <2> HIDE DEF t, c
  <2>1. Shown = LET visible == IF t < Visible THEN t ELSE Visible
                IN  IF c = 1 /\ visible < Visible
                       THEN [full |-> visible + 1, hidden |-> t - visible, confirming |-> 0]
                       ELSE [full |-> visible, hidden |-> t - visible, confirming |-> c]
    BY DEF Shown, t, c
  <2>2. QED
    BY <1>1, <2>1
<1>7. Accounted = a + Shown.full + Shown.hidden + Shown.confirming
  BY DEF Accounted
<1>8. QED
  <2> HIDE DEF a, t, c
  <2>1. QED
    BY <1>1, <1>4, <1>5, <1>6, <1>7

-----------------------------------------------------------------------------
(* The invariant holds at first and is kept *)

LEMMA Given ==
    /\ Total \in Nat \ {0} /\ Step \in Nat \ {0} /\ CountStep \in Nat \ {0}
    /\ N \in Nat \ {0} /\ MaxSaves \in Nat \ {0}
BY CardAssumption

LEMMA InitCardInv == CardInit => CardInv
<1> SUFFICES ASSUME CardInit PROVE CardInv
  OBVIOUS
<1>1. CardTypeOK
  <2>1. 0 \in 0..Total /\ 0 \in 0..MaxSaves /\ 0 \in 0..(Total + N)
    BY Given
  <2>2. kind \in Kinds /\ late \in BOOLEAN /\ sized \in BOOLEAN
    BY DEF CardInit
  <2>3. card.face = "queued" /\ card.at = 0 /\ card.button = FALSE
    BY DEF CardInit, Card
  <2>4. items \in [Items -> [phase : Phases, up : 0..Total, result : Results]]
    BY <2>1 DEF CardInit, Phases, Results
  <2>5. QED
    BY <2>1, <2>2, <2>3, <2>4 DEF CardInit, CardTypeOK
<1>2. NotBegun /\ Ended /\ Finished /\ FinalCardStays
  BY DEF CardInit, NotBegun, Ended, Finished, FinalCardStays, Unreported
<1>3. QED
  BY <1>1, <1>2 DEF CardInv

\* What there is to show when the reports, the files or the card change.
CardTyped ==
    /\ card.face \in Verdicts \cup {"queued", "start", "progress", "upload", "retry", "batch"}
    /\ card.at \in 0..(Total + N) /\ card.button \in BOOLEAN
ReportsTyped ==
    /\ pc \in [Reporters -> {"idle", "called", "store", "render", "send"}]
    /\ arg \in [Reporters -> 0..Total] /\ text \in [Reporters -> 0..Total]
CountsTyped ==
    /\ bytes \in 0..Total /\ last \in 0..Total /\ uploaded \in 0..Total
    /\ attempt \in 0..MaxSaves
StageTyped ==
    /\ kind \in Kinds /\ late \in BOOLEAN /\ sized \in BOOLEAN
    /\ stage \in {"new", "running", "finished", "over", "left"}
    /\ outcome \in {"none", "ok", "failed", "cancelled"}
ItemsTyped == items \in [Items -> ItemType]

LEMMA TypeParts == CardTypeOK <=> CardTyped /\ ReportsTyped /\ CountsTyped /\ StageTyped /\ ItemsTyped
BY DEF CardTypeOK, CardTyped, ReportsTyped, CountsTyped, StageTyped, ItemsTyped, ItemType

LEMMA CardOf ==
    ASSUME NEW face \in Verdicts \cup {"queued", "start", "progress", "upload", "retry", "batch"},
           NEW at \in 0..(Total + N), NEW button \in BOOLEAN, card' = Card(face, at, button)
    PROVE  CardTyped'
BY DEF CardTyped, Card

\* Every step of the task and of its reporters keeps the types.
LEMMA StageStep ==
    ASSUME StageTyped, TaskStep \/ \E r \in Reporters : ReportStep(r)
    PROVE  StageTyped'
<1>1. CASE TaskStep
  BY <1>1 DEF TaskStep, StageTyped, Starts, BulkdlOnStart, Ends, BatchFinish, BatchOnDone, TFileLeaves,
              Aria2OnProgress, YtdlpOnProgress, TFileOnUploadStart, TFileOnUploadProgress
<1>2. ASSUME NEW r \in Reporters, ReportStep(r) PROVE UNCHANGED <<kind, late, sized, stage, outcome>>
  BY <1>2 DEF ReportStep, Quiet, Advance, PercentCheck, PercentStore, CountCheck, Render, Send,
              TFileOnProgress, BatchRender, Marked, Mark
<1>3. QED
  BY <1>1, <1>2 DEF StageTyped

LEMMA CountStepTyped ==
    ASSUME CountsTyped, ReportsTyped, TaskStep \/ \E r \in Reporters : ReportStep(r)
    PROVE  CountsTyped'
<1>0. /\ bytes \in 0..Total /\ last \in 0..Total /\ uploaded \in 0..Total /\ attempt \in 0..MaxSaves
      /\ 0 \in 0..Total /\ Total \in Nat /\ MaxSaves \in Nat
  BY Given DEF CountsTyped
<1>1. CASE TaskStep
  <2>1. CASE TFileOnUploadStart
    BY <1>0, <2>1 DEF CountsTyped, TFileOnUploadStart
  <2>2. CASE TFileOnUploadProgress
    <3>1. PICK now \in uploaded..Total \ {0} : uploaded' = now /\ last' \in {now, last}
      BY <2>2 DEF TFileOnUploadProgress
    <3>2. now \in 0..Total
      BY <1>0, <3>1
    <3>3. UNCHANGED <<bytes, attempt>>
      BY <2>2 DEF TFileOnUploadProgress
    <3>4. QED
      BY <1>0, <3>1, <3>2, <3>3 DEF CountsTyped
  <2>3. CASE Aria2OnProgress
    BY <1>0, <2>3 DEF CountsTyped, Aria2OnProgress, uploadVars
  <2>4. CASE ~(TFileOnUploadStart \/ TFileOnUploadProgress \/ Aria2OnProgress)
    <3>1. UNCHANGED <<bytes, uploadVars>> /\ last' \in {0, last}
      BY <1>1, <2>4 DEF TaskStep, Starts, BulkdlOnStart, Ends, BatchFinish, BatchOnDone, TFileLeaves,
                        YtdlpOnProgress
    <3>2. QED
      BY <1>0, <3>1 DEF CountsTyped, uploadVars
  <2>5. QED
    BY <2>1, <2>2, <2>3, <2>4
<1>2. ASSUME NEW r \in Reporters, ReportStep(r) PROVE CountsTyped'
  <2>1. UNCHANGED uploadVars /\ arg[r] \in 0..Total
    BY <1>2 DEF ReportStep, Quiet, Advance, PercentCheck, PercentStore, CountCheck, Render, Send,
                TFileOnProgress, BatchRender, Marked, Mark, ReportsTyped
  <2>2. bytes' \in {bytes, bytes + 1} /\ (bytes' = bytes + 1 => bytes < Total)
    <3>1. CASE Advance(r)
      BY <1>0, <3>1 DEF Advance
    <3>2. CASE ~Advance(r)
      <4>1. bytes' = bytes
        BY <1>2, <3>2 DEF ReportStep, Quiet, PercentCheck, PercentStore, CountCheck, Render, Send,
                          TFileOnProgress, BatchRender, Marked, Mark
      <4>2. QED
        BY <1>0, <4>1
    <3>3. QED
      BY <3>1, <3>2
  <2>3. last' \in {last, bytes, arg[r]}
    BY <1>2 DEF ReportStep, Advance, PercentCheck, PercentStore, CountCheck, Render, Send,
                TFileOnProgress, BatchRender, Marked, Mark
  <2>4. QED
    BY <1>0, <2>1, <2>2, <2>3 DEF CountsTyped, uploadVars
<1>3. QED
  BY <1>1, <1>2

LEMMA ReportsStep ==
    ASSUME CountsTyped, ReportsTyped, TaskStep \/ \E r \in Reporters : ReportStep(r)
    PROVE  ReportsTyped'
<1>1. CASE TaskStep
  <2>1. UNCHANGED reportVars
    BY <1>1 DEF TaskStep, Starts, BulkdlOnStart, Ends, BatchFinish, BatchOnDone, TFileLeaves,
                Aria2OnProgress, YtdlpOnProgress, TFileOnUploadStart, TFileOnUploadProgress
  <2>2. QED
    BY <2>1 DEF ReportsTyped, reportVars
<1>2. ASSUME NEW r \in Reporters, ReportStep(r) PROVE ReportsTyped'
  <2>1. /\ pc' = [pc EXCEPT ![r] = pc'[r]] /\ pc'[r] \in {"idle", "called", "store", "render", "send"}
    <3>1. \E p \in {"idle", "called", "store", "render", "send"} : pc' = [pc EXCEPT ![r] = p]
      BY <1>2 DEF ReportStep, Advance, PercentCheck, PercentStore, CountCheck, Render, Send,
                  TFileOnProgress, BatchRender, Marked, Mark
    <3>2. QED
      BY <3>1 DEF ReportsTyped
  <2>2. arg' = arg \/ (arg' = [arg EXCEPT ![r] = bytes + 1] /\ bytes < Total)
    BY <1>2 DEF ReportStep, Quiet, Advance, PercentCheck, PercentStore, CountCheck, Render, Send,
                TFileOnProgress, BatchRender, Marked, Mark
  <2>3. text' = text \/ text' = [text EXCEPT ![r] = bytes]
    BY <1>2 DEF ReportStep, Advance, PercentCheck, PercentStore, CountCheck, Render, Send,
                TFileOnProgress, BatchRender, Marked, Mark
  <2>4. bytes \in 0..Total /\ (bytes < Total => bytes + 1 \in 0..Total)
    BY Given DEF CountsTyped
  <2>5. QED
    BY <2>1, <2>2, <2>3, <2>4 DEF ReportsTyped
<1>3. QED
  BY <1>1, <1>2

LEMMA ItemsStep ==
    ASSUME ItemsTyped, TaskStep \/ \E r \in Reporters : ReportStep(r)
    PROVE  ItemsTyped'
<1>1. CASE BatchFinish
  <2>1. CASE outcome' = "ok"
    BY <1>1, <2>1 DEF BatchFinish, ItemsTyped
  <2>2. CASE outcome' # "ok"
    <3>1. \A i \in Items : [items[i] EXCEPT !.phase = "stopped"] \in ItemType
      BY DEF Phases, ItemsTyped, ItemType
    <3>2. QED
      BY <1>1, <2>2, <3>1 DEF BatchFinish, ItemsTyped
  <2>3. QED
    BY <2>1, <2>2
<1>2. CASE TaskStep /\ ~BatchFinish
  <2>1. UNCHANGED items
    BY <1>2 DEF TaskStep, Starts, BulkdlOnStart, Ends, BatchOnDone, TFileLeaves,
                Aria2OnProgress, YtdlpOnProgress, TFileOnUploadStart, TFileOnUploadProgress
  <2>2. QED
    BY <2>1 DEF ItemsTyped
<1>3. ASSUME NEW r \in Reporters, ReportStep(r) PROVE ItemsTyped'
  <2>1. CASE \E i \in Items : Marked(r, i)
    <3>1. PICK i \in Items, new \in ItemType : Mark(r, i, new)
      BY <2>1 DEF Marked
    <3>2. QED
      BY <3>1 DEF Mark, ItemsTyped
  <2>2. CASE ~\E i \in Items : Marked(r, i)
    <3>1. UNCHANGED items
      BY <1>3, <2>2 DEF ReportStep, Quiet, Advance, PercentCheck, PercentStore, CountCheck, Render, Send,
                        TFileOnProgress, BatchRender
    <3>2. QED
      BY <3>1 DEF ItemsTyped
  <2>3. QED
    BY <2>1, <2>2
<1>4. QED
  BY <1>1, <1>2, <1>3

LEMMA CardStep ==
    ASSUME CardTypeOK, Finished, TaskStep \/ \E r \in Reporters : ReportStep(r), CountsTyped'
    PROVE  CardTyped'
<1>0. /\ 0 \in 0..(Total + N) /\ \A x \in 0..Total : x \in 0..(Total + N)
      /\ \A x \in 0..N : x \in 0..(Total + N)
  BY Given
<1>1. CardTyped /\ CountsTyped /\ ReportsTyped /\ StageTyped
  BY TypeParts
<1>2. CASE (\E k \in Kinds : Starts(k)) \/ BulkdlOnStart
  <2>1. \E b \in BOOLEAN : card' = Card("start", 0, b)
    BY <1>2 DEF Starts, BulkdlOnStart
  <2>2. QED
    BY <1>0, <2>1, CardOf
<1>3. CASE \E k \in Kinds \ {"batch"} : Ends(k)
  <2>1. card' = Card(Told(outcome'), 0, FALSE) /\ Told(outcome') \in Verdicts
    BY <1>3 DEF Ends, Told, Verdicts
  <2>2. QED
    BY <1>0, <2>1, CardOf
<1>4. CASE BatchFinish \/ TFileLeaves
  <2>1. UNCHANGED card
    BY <1>4 DEF BatchFinish, TFileLeaves
  <2>2. QED
    BY <1>1, <2>1 DEF CardTyped
<1>5. CASE BatchOnDone
  <2>1. Cardinality(InPhase({"completed"})) \in 0..(Total + N)
    BY <1>0, Subsets, Given
  <2>2. BatchVerdict \in Verdicts
    BY <1>5 DEF BatchOnDone, BatchVerdict, Finished, Verdicts
  <2>3. card' = Card(BatchVerdict, Cardinality(InPhase({"completed"})), FALSE)
    BY <1>5 DEF BatchOnDone
  <2>4. QED
    BY <2>1, <2>2, <2>3, CardOf
<1>6. CASE Aria2OnProgress \/ YtdlpOnProgress
  <2>1. \E x \in 0..Total : card' = Card("progress", x, TRUE)
    <3>1. 0 \in 0..Total
      BY Given
    <3>2. QED
      BY <1>6, <3>1 DEF Aria2OnProgress, YtdlpOnProgress
  <2>2. QED
    BY <1>0, <2>1, CardOf
<1>7. CASE TFileOnUploadStart
  <2>1. card' = Card(UploadFace(attempt'), 0, TRUE) /\ UploadFace(attempt') \in {"retry", "upload"}
    BY <1>7 DEF TFileOnUploadStart, UploadFace
  <2>2. QED
    BY <1>0, <2>1, CardOf
<1>8. CASE TFileOnUploadProgress
  <2>1. card' = card \/ card' = Card(UploadFace(attempt), last', TRUE)
    BY <1>8 DEF TFileOnUploadProgress
  <2>2. UploadFace(attempt) \in {"retry", "upload"} /\ last' \in 0..(Total + N)
    BY <1>0 DEF UploadFace, CountsTyped
  <2>3. QED
    BY <1>1, <2>1, <2>2, CardOf DEF CardTyped
<1>9. ASSUME NEW r \in Reporters, ReportStep(r) PROVE CardTyped'
  <2>1. CASE BatchRender(r)
    <3>1. Accounted \in 0..(Total + N)
      BY <1>0, CardCounts
    <3>2. card' = card \/ card' = Card("batch", Accounted, TRUE)
      BY <2>1 DEF BatchRender
    <3>3. QED
      BY <1>1, <3>1, <3>2, CardOf DEF CardTyped
  <2>2. CASE ~BatchRender(r)
    <3>1. card' = card \/ card' = Card("progress", text[r], TRUE) \/ card' = Card("progress", arg[r], TRUE)
      BY <1>9, <2>2 DEF ReportStep, Quiet, Advance, PercentCheck, PercentStore, CountCheck, Render, Send,
                        TFileOnProgress, Marked, Mark
    <3>2. text[r] \in 0..(Total + N) /\ arg[r] \in 0..(Total + N)
      BY <1>0, <1>1 DEF ReportsTyped
    <3>3. QED
      BY <1>1, <3>1, <3>2, CardOf DEF CardTyped
  <2>3. QED
    BY <2>1, <2>2
<1>10. QED
  BY <1>2, <1>3, <1>4, <1>5, <1>6, <1>7, <1>8, <1>9 DEF TaskStep

LEMMA TypesStep ==
    ASSUME CardTypeOK, Finished, TaskStep \/ \E r \in Reporters : ReportStep(r)
    PROVE  CardTypeOK'
<1>1. CardTyped /\ CountsTyped /\ ReportsTyped /\ StageTyped /\ ItemsTyped
  BY TypeParts
<1>2. CountsTyped'
  BY <1>1, CountStepTyped
<1>3. StageTyped' /\ ReportsTyped' /\ ItemsTyped'
  BY <1>1, StageStep, ReportsStep, ItemsStep
<1>4. CardTyped'
  BY <1>2, CardStep
<1>5. QED
  BY <1>2, <1>3, <1>4 DEF CardTypeOK, CardTyped, ReportsTyped, CountsTyped, StageTyped, ItemsTyped, ItemType

-----------------------------------------------------------------------------
(* The other parts of the invariant *)

\* Only a running task, or a late callback after it, is reported.
LEMMA StageKept ==
    ASSUME CardInv, TaskStep \/ \E r \in Reporters : ReportStep(r)
    PROVE  NotBegun' /\ Ended' /\ Finished'
<1>0. pc \in [Reporters -> {"idle", "called", "store", "render", "send"}] /\ kind \in Kinds /\ late \in BOOLEAN
  BY DEF CardInv, CardTypeOK
<1>1. CASE (\E k \in Kinds : Starts(k)) \/ BulkdlOnStart
  BY <1>1 DEF CardInv, Starts, BulkdlOnStart, NotBegun, Ended, Finished, Unreported, reportVars
<1>2. CASE \E k \in Kinds \ {"batch"} : Ends(k)
  BY <1>2 DEF CardInv, Ends, Joined, NotBegun, Ended, Finished, Unreported, reportVars
<1>3. CASE BatchFinish \/ BatchOnDone
  BY <1>3 DEF CardInv, BatchFinish, BatchOnDone, NotBegun, Ended, Finished, Unreported, reportVars
<1>4. CASE TFileLeaves \/ Aria2OnProgress \/ YtdlpOnProgress
  BY <1>4 DEF CardInv, TFileLeaves, Aria2OnProgress, YtdlpOnProgress, NotBegun, Ended, Finished, Unreported,
     reportVars
<1>5. CASE TFileOnUploadStart \/ TFileOnUploadProgress
  BY <1>5 DEF CardInv, TFileOnUploadStart, TFileOnUploadProgress, Reporting, NotBegun, Ended, Finished, Unreported,
              reportVars
<1>6. ASSUME NEW r \in Reporters, ReportStep(r) PROVE NotBegun' /\ Ended' /\ Finished'
  <2>1. UNCHANGED <<kind, late, sized, stage, outcome>>
    BY <1>6 DEF ReportStep, Quiet, Advance, PercentCheck, PercentStore, CountCheck, Render, Send,
                TFileOnProgress, BatchRender, Marked, Mark
  <2>2. CASE kind = "batch"
    BY <2>1, <2>2 DEF CardInv, NotBegun, Ended, Finished
  <2>3. CASE kind # "batch"
    <3>1. stage # "new" /\ (stage = "over" => late)
      <4>1. CASE Advance(r)
        BY <4>1 DEF Advance, Reporting
      <4>2. CASE ~Advance(r)
        <5>1. pc[r] # "idle"
          BY <1>6, <2>3, <4>2 DEF ReportStep, PercentCheck, PercentStore, CountCheck, Render, Send,
                                  TFileOnProgress, BatchRender, Marked
        <5>2. QED
          BY <2>3, <5>1 DEF CardInv, NotBegun, Ended, Unreported
      <4>3. QED
        BY <4>1, <4>2
    <3>2. QED
      BY <2>1, <2>3, <3>1 DEF CardInv, NotBegun, Ended, Finished
  <2>4. QED
    BY <2>2, <2>3
<1>7. QED
  BY <1>1, <1>2, <1>3, <1>4, <1>5, <1>6 DEF TaskStep

\* A card that is the last one stays.
LEMMA LastCardKept ==
    ASSUME CardInv, TaskStep \/ \E r \in Reporters : ReportStep(r)
    PROVE  FinalCardStays'
<1>1. NotBegun /\ Ended /\ Finished /\ FinalCardStays
  BY DEF CardInv
<1>2. CASE UNCHANGED <<kind, late, stage, outcome, card>>
  BY <1>1, <1>2 DEF FinalCardStays
<1>3. CASE stage' \in {"new", "running", "left"}
  BY <1>3 DEF FinalCardStays
<1>4. CASE (\E k \in Kinds : Starts(k)) \/ BulkdlOnStart \/ TFileLeaves \/ Aria2OnProgress
           \/ YtdlpOnProgress \/ TFileOnUploadStart
  BY <1>3, <1>4 DEF Starts, BulkdlOnStart, TFileLeaves, Aria2OnProgress, YtdlpOnProgress, TFileOnUploadStart
<1>5. ASSUME NEW k \in Kinds \ {"batch"}, Ends(k) PROVE FinalCardStays'
  <2>1. kind' # "batch" /\ outcome' \in {"ok", "failed", "cancelled"} /\ card' = Card(Told(outcome'), 0, FALSE)
    BY <1>5 DEF Ends
  <2>2. Told(outcome') \in {"ok", "failed", "cancelled"} /\ (Told(outcome') = "ok" <=> outcome' = "ok")
    BY <2>1 DEF Told
  <2>3. card'.face = Told(outcome') /\ card'.button = FALSE
    BY <2>1 DEF Card
  <2>4. QED
    BY <2>1, <2>2, <2>3 DEF FinalCardStays, Verdicts
<1>6. CASE BatchFinish
  BY <1>6 DEF BatchFinish, FinalCardStays
<1>7. CASE BatchOnDone
  <2>1. /\ stage = "finished" /\ stage' = "over" /\ kind = "batch" /\ UNCHANGED <<kind, late, outcome>>
        /\ outcome \in {"ok", "failed", "cancelled"}
    BY <1>1, <1>7 DEF BatchOnDone, Finished
  <2>2. card'.face = BatchVerdict /\ card'.button = FALSE
    BY <1>7 DEF BatchOnDone, Card
  <2>3. /\ outcome = "ok" => BatchVerdict \in {"ok", "partial"}
        /\ outcome # "ok" => BatchVerdict \in {"failed", "cancelled"}
    BY <2>1 DEF BatchVerdict, InPhase
  <2>4. QED
    BY <1>1, <2>1, <2>2, <2>3 DEF FinalCardStays, Verdicts
<1>8. CASE TFileOnUploadProgress
  <2>1. kind' # "batch" /\ UNCHANGED <<late, stage>> /\ (stage = "running" \/ late)
    BY <1>8 DEF TFileOnUploadProgress, Reporting
  <2>2. QED
    BY <2>1 DEF FinalCardStays
<1>9. ASSUME NEW r \in Reporters, ReportStep(r) PROVE FinalCardStays'
  <2>1. UNCHANGED <<kind, late, sized, stage, outcome>>
    BY <1>9 DEF ReportStep, Quiet, Advance, PercentCheck, PercentStore, CountCheck, Render, Send,
                TFileOnProgress, BatchRender, Marked, Mark
  <2>2. CASE kind # "batch"
    <3>1. CASE Advance(r)
      BY <1>2, <3>1 DEF Advance
    <3>2. CASE ~Advance(r)
      <4>1. pc[r] # "idle"
        BY <1>9, <2>2, <3>2 DEF ReportStep, PercentCheck, PercentStore, CountCheck, Render, Send,
                                TFileOnProgress, BatchRender, Marked
      <4>2. stage = "over" => late
        BY <1>1, <2>2, <4>1 DEF Ended, Unreported
      <4>3. QED
        BY <2>1, <2>2, <4>2 DEF FinalCardStays
    <3>3. QED
      BY <3>1, <3>2
  <2>3. CASE kind = "batch" /\ BatchRender(r)
    <3>1. items' = items /\ (stage = "over" => card' = card)
      BY <2>3 DEF BatchRender, Quiet
    <3>2. QED
      BY <1>1, <2>1, <3>1 DEF FinalCardStays
  <2>4. CASE kind = "batch" /\ \E i \in Items : Marked(r, i)
    <3>1. card' = card /\ (stage = "running" \/ late)
      BY <2>4 DEF Marked, Mark
    <3>2. QED
      BY <1>1, <2>1, <3>1 DEF FinalCardStays
  <2>5. CASE kind = "batch" /\ ~BatchRender(r) /\ ~\E i \in Items : Marked(r, i)
    BY <1>9, <2>5 DEF ReportStep, Percent, Advance, TFileOnProgress
  <2>6. QED
    BY <2>2, <2>3, <2>4, <2>5
<1>10. QED
  BY <1>4, <1>5, <1>6, <1>7, <1>8, <1>9 DEF TaskStep

LEMMA NextCardInv == CardInv /\ [CardNext]_cardVars => CardInv'
<1> SUFFICES ASSUME CardInv, [CardNext]_cardVars PROVE CardInv'
  OBVIOUS
<1>1. CASE UNCHANGED cardVars
  BY <1>1 DEF CardInv, cardVars, reportVars, uploadVars, CardTypeOK, NotBegun, Ended, Finished,
              FinalCardStays, Unreported, InPhase
<1>2. CASE ~UNCHANGED cardVars
  <2>1. TaskStep \/ \E r \in Reporters : ReportStep(r)
    BY <1>2, CardSteps DEF CardInv
  <2>2. CardTypeOK'
    BY <2>1, TypesStep DEF CardInv
  <2>3. NotBegun' /\ Ended' /\ Finished'
    BY <2>1, StageKept
  <2>4. FinalCardStays'
    BY <2>1, LastCardKept
  <2>5. QED
    BY <2>2, <2>3, <2>4 DEF CardInv
<1>3. QED
  BY <1>1, <1>2

LEMMA CardInvariant == CardSpec => []CardInv
BY InitCardInv, NextCardInv, PTL DEF CardSpec

-----------------------------------------------------------------------------
(* The theorems *)

\* Every variable of a card has a value of its type: never more files on the card
\* of a batch than the batch has.
THEOREM CardTypeCorrect == CardSpec => []CardTypeOK
BY CardInvariant, PTL DEF CardInv

\* The card of a task that is over keeps its verdict and has no button, whichever
\* goroutines were still reporting: they were waited for, or find the batch done.
THEOREM LastCardIsFinal == CardSpec => []FinalCardStays
BY CardInvariant, PTL DEF CardInv

=============================================================================
