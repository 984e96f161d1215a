---------------------------- MODULE ProgressStore ----------------------------
(***************************************************************************)
(* The HTTP API's view of the tasks: the progress store, the create and    *)
(* delete handlers, the sink that translates the worker's task events into *)
(* a status, the webhook sender and the periodic cleanup.  The queue is    *)
(* taken by its abstract lifecycle (TaskLifecycle); API task identifiers   *)
(* are fresh xids, so a task is its identifier here.                       *)
(*                                                                         *)
(* Worker, handlers and webhook goroutines interleave freely.  Emit holds  *)
(* the record's mutex while it changes the status, but the webhook payload *)
(* is built after the unlock, from whatever the status is by then, and the *)
(* handlers keep using the record pointer they looked up.                  *)
(***************************************************************************)
EXTENDS Naturals, Sequences, FiniteSets

CONSTANTS Tasks,        \* API task identifiers
          Hooked,       \* the tasks created with a webhook URL
          Detached,     \* tasks that copy in a goroutine Execute does not join
          Deleters,     \* concurrent DELETE requests
          NoTask,
          MaxAttempts   \* webhook attempts

ASSUME StoreAssumption ==
    /\ Hooked \subseteq Tasks
    /\ Detached \subseteq Tasks
    /\ NoTask \notin Tasks
    /\ MaxAttempts \in Nat \ {0}

VARIABLES
    pending, active, cancelled, ended, closed,  \* the queue (TaskLifecycle)
    registered,   \* identifiers with a record in the store
    create,       \* how far the create handler of each task is
    status,       \* TaskProgressInfo.Status
    notified,     \* TaskProgressInfo.webhookNotified
    exec,         \* how far the worker is with each task
    result,       \* what Execute returned
    copying,      \* tasks whose copy goroutine has outlived Execute
    payload,      \* status in the webhook payload; "none" before it is built
    attempts,     \* POST requests made for the task
    acked,        \* the endpoint answered one of them with 2xx
    abandoned,    \* the webhook goroutine ended before its first request
    deleter,      \* how far each DELETE request is
    target,       \* the record each DELETE request holds
    silenced,     \* history: tasks the bot cancelled before a worker took them
    rootDone,     \* the root context has ended: the process is shutting down
    exited        \* the process is gone, with every goroutine

queueVars == <<pending, active, cancelled, ended, closed>>
hookVars == <<payload, attempts, acked, abandoned>>
handlerVars == <<create, deleter, target>>
processVars == <<silenced, rootDone>>
vars == <<queueVars, registered, status, notified, exec, result, copying, hookVars, handlerVars, processVars, exited>>

Queue == INSTANCE TaskLifecycle WITH IdOf <- [t \in Tasks |-> t]

Statuses == {"queued", "running", "completed", "failed", "cancelled"}
Terminal == {"completed", "failed", "cancelled"}

\* A status string read while UpdateStatus rewrites its pointer and length.
Torn == "torn"

Init ==
    /\ Queue!Init
    /\ registered = {}
    /\ create = [t \in Tasks |-> "none"]
    /\ status = [t \in Tasks |-> "queued"]
    /\ notified = {}
    /\ exec = [t \in Tasks |-> "none"]
    /\ result = [t \in Tasks |-> "none"]
    /\ copying = {}
    /\ payload = [t \in Tasks |-> "none"]
    /\ attempts = [t \in Tasks |-> 0]
    /\ acked = {}
    /\ abandoned = {}
    /\ deleter = [d \in Deleters |-> "idle"]
    /\ target = [d \in Deleters |-> NoTask]
    /\ silenced = {}
    /\ rootDone = FALSE
    /\ exited = FALSE

------------------------------------------------------------------------------
(* The create handler: registerAndEnqueueTask *)

RegisterTask(t) ==
    /\ create[t] = "none"
    /\ create' = [create EXCEPT ![t] = "registered"]
    /\ registered' = registered \cup {t}
    /\ UNCHANGED <<queueVars, status, notified, exec, result, copying, hookVars, deleter, target, processVars>>

AddTask(t) ==
    /\ create[t] = "registered"
    /\ Queue!Submit(t)
    /\ create' = [create EXCEPT ![t] = "accepted"]
    /\ UNCHANGED <<registered, status, notified, exec, result, copying, hookVars, deleter, target, processVars>>

\* The root context is done or the queue closed: AddTask fails and the record
\* is deleted again.
AddTaskFails(t) ==
    /\ create[t] = "registered"
    /\ closed \/ t \in cancelled
    /\ create' = [create EXCEPT ![t] = "refused"]
    /\ registered' = registered \ {t}
    /\ UNCHANGED <<queueVars, status, notified, exec, result, copying, hookVars, deleter, target, processVars>>

------------------------------------------------------------------------------
(* The worker: queue steps and task events *)

TakeTask ==
    /\ Queue!Start
    /\ exec' = [exec EXCEPT ![Head(pending)] = "taken"]
    /\ UNCHANGED <<registered, status, notified, result, copying, hookVars, handlerVars, processVars>>

\* A task cancelled while it was queued leaves without any event.
DropTask ==
    /\ Queue!Discard
    /\ UNCHANGED <<registered, status, notified, exec, result, copying, hookVars, handlerVars, processVars>>

EmitStart(t) ==
    /\ exec[t] = "taken"
    /\ exec' = [exec EXCEPT ![t] = "executing"]
    /\ status' = [status EXCEPT ![t] = "running"]
    /\ UNCHANGED <<queueVars, registered, notified, result, copying, hookVars, handlerVars, processVars>>

\* Variant: a progress event can still arrive after the final one.
LateProgress(t) ==
    /\ exec[t] \in {"executing", "emitted", "finished"}
    /\ status' = [status EXCEPT ![t] = "running"]
    /\ UNCHANGED <<queueVars, registered, notified, exec, result, copying, hookVars, handlerVars, processVars>>

EmitProgress(t) ==
    /\ exec[t] = "executing"
    /\ status' = [status EXCEPT ![t] = "running"]
    /\ UNCHANGED <<queueVars, registered, notified, exec, result, copying, hookVars, handlerVars, processVars>>

\* Execute returns nil or an error; a cancelled task may do either.  A direct
\* link or parsed resource abandoned at the end of its context leaves the
\* goroutine behind that copies it.
ExecuteReturns(t) ==
    /\ exec[t] = "executing"
    /\ exec' = [exec EXCEPT ![t] = "returned"]
    /\ \E r \in {"ok", "error"} :
         /\ result' = [result EXCEPT ![t] = r]
         /\ copying' \in {copying} \cup (IF r = "error" /\ t \in Detached
                                          THEN {copying \cup {t}} ELSE {})
    /\ UNCHANGED <<queueVars, registered, status, notified, hookVars, handlerVars, processVars>>

\* A progress event of that goroutine, which may be its last.
DetachedProgress(t) ==
    /\ t \in copying
    /\ status' = [status EXCEPT ![t] = "running"]
    /\ copying' \in {copying, copying \ {t}}
    /\ UNCHANGED <<queueVars, registered, notified, exec, result, hookVars, handlerVars, processVars>>

\* Variant: a record already cancelled ignores the final event.
EmitDoneUnlessCancelled(t) ==
    /\ exec[t] = "returned"
    /\ IF status[t] = "cancelled" THEN UNCHANGED status ELSE
       status' = [status EXCEPT ![t] = IF result[t] = "ok" THEN "completed" ELSE "failed"]
    /\ IF t \in Hooked /\ t \notin notified /\ status[t] # "cancelled"
       THEN notified' = notified \cup {t} /\ exec' = [exec EXCEPT ![t] = "notifying"]
       ELSE notified' = notified /\ exec' = [exec EXCEPT ![t] = "emitted"]
    /\ UNCHANGED <<queueVars, registered, result, copying, hookVars, handlerVars, processVars>>

\* The locked part of the final Emit: the status, and whether to notify.
EmitDone(t) ==
    /\ exec[t] = "returned"
    /\ status' = [status EXCEPT ![t] = IF result[t] = "ok" THEN "completed" ELSE "failed"]
    /\ IF t \in Hooked /\ t \notin notified
       THEN notified' = notified \cup {t} /\ exec' = [exec EXCEPT ![t] = "notifying"]
       ELSE notified' = notified /\ exec' = [exec EXCEPT ![t] = "emitted"]
    /\ UNCHANGED <<queueVars, registered, result, copying, hookVars, handlerVars, processVars>>

\* The unlocked part: the payload takes the status as it is now; a DELETE
\* request or a copy goroutine about to write it can make the read see either
\* string or a mix.
\* SendWebhook then looks the record up again and gives up when it is gone.
SendWebhook(t) ==
    /\ exec[t] = "notifying"
    /\ exec' = [exec EXCEPT ![t] = "emitted"]
    /\ IF t \in registered
       THEN \E s \in {status[t]} \cup
                     (IF \E d \in Deleters : deleter[d] = "fired" /\ target[d] = t
                      THEN {"cancelled", Torn} ELSE {}) \cup
                     (IF t \in copying THEN {"running", Torn} ELSE {}) :
                payload' = [payload EXCEPT ![t] = s]
       ELSE UNCHANGED payload
    /\ UNCHANGED <<queueVars, registered, status, notified, result, copying, attempts, acked, abandoned,
                   handlerVars, processVars>>

QueueDone(t) ==
    /\ exec[t] = "emitted"
    /\ Queue!Finish(t)
    /\ exec' = [exec EXCEPT ![t] = "finished"]
    /\ UNCHANGED <<registered, status, notified, result, copying, hookVars, handlerVars, processVars>>

------------------------------------------------------------------------------
(* The webhook goroutine: up to MaxAttempts requests, until one is answered *)

WebhookAttempt(t) ==
    /\ payload[t] # "none"
    /\ t \notin acked \cup abandoned
    /\ attempts[t] < MaxAttempts
    /\ attempts' = [attempts EXCEPT ![t] = @ + 1]
    /\ acked' \in {acked, acked \cup {t}}
    /\ UNCHANGED <<queueVars, registered, status, notified, exec, result, copying, payload, abandoned,
                   handlerVars, processVars>>

\* The payload cannot be encoded or the webhook's URL makes no request (it is
\* not checked when the task is created): nothing is ever sent.
WebhookGivesUp(t) ==
    /\ payload[t] # "none"
    /\ t \notin acked \cup abandoned
    /\ attempts[t] = 0
    /\ abandoned' = abandoned \cup {t}
    /\ UNCHANGED <<queueVars, registered, status, notified, exec, result, copying, payload, attempts, acked,
                   handlerVars, processVars>>

WebhookStep(t) == WebhookAttempt(t) \/ WebhookGivesUp(t)

------------------------------------------------------------------------------
(* The DELETE handler: CancelTaskHandler *)

DeleteLookup(d, t) ==
    /\ deleter[d] = "idle"
    /\ t \in registered
    /\ deleter' = [deleter EXCEPT ![d] = "looked"]
    /\ target' = [target EXCEPT ![d] = t]
    /\ UNCHANGED <<queueVars, registered, status, notified, exec, result, copying, hookVars, create, processVars>>

\* core.CancelTask finds the task queued or running, or answers 500.
DeleteFind(d) ==
    /\ deleter[d] = "looked"
    /\ deleter' = [deleter EXCEPT ![d] = IF target[d] \in Queue!Live THEN "found" ELSE "error"]
    /\ UNCHANGED <<queueVars, registered, status, notified, exec, result, copying, hookVars, create, target,
                   processVars>>

DeleteFire(d) ==
    /\ deleter[d] = "found"
    /\ Queue!Cancel(target[d])
    /\ deleter' = [deleter EXCEPT ![d] = "fired"]
    /\ UNCHANGED <<registered, status, notified, exec, result, copying, hookVars, create, target,
                   processVars>>

\* Variant: the status is left to the event stream.
DeleteTrustsEvents(d) ==
    /\ deleter[d] = "fired"
    /\ deleter' = [deleter EXCEPT ![d] = "ok"]
    /\ UNCHANGED <<queueVars, registered, status, notified, exec, result, copying, hookVars, create, target,
                   processVars>>

\* UpdateStatus(cancelled), whatever the status has become meanwhile.
DeleteUpdate(d) ==
    /\ deleter[d] = "fired"
    /\ status' = [status EXCEPT ![target[d]] = "cancelled"]
    /\ deleter' = [deleter EXCEPT ![d] = "ok"]
    /\ UNCHANGED <<queueVars, registered, notified, exec, result, copying, hookVars, create, target,
                   processVars>>

------------------------------------------------------------------------------
(* The bot: /cancel, /tasks cancel and the cancel button *)

\* core.CancelTask looks the task up and then cancels it, when it may be over.
\* The bot knows nothing of the store: no status is written.
BotCancel(t) ==
    /\ create[t] = "accepted"
    /\ Queue!Cancel(t)
    /\ silenced' = IF exec[t] = "none" THEN silenced \cup {t} ELSE silenced
    /\ UNCHANGED <<registered, status, notified, exec, result, copying, hookVars, handlerVars, rootDone>>

------------------------------------------------------------------------------
(* Cleanup and shutdown *)

\* Variant: records expire by age alone.
CleanupByAge(t) ==
    /\ t \in registered
    /\ registered' = registered \ {t}
    /\ UNCHANGED <<queueVars, status, notified, exec, result, copying, hookVars, handlerVars, processVars>>

\* CleanupExpired: a record that has been terminal for the retention time.
CleanupExpired(t) ==
    /\ t \in registered
    /\ status[t] \in Terminal
    /\ registered' = registered \ {t}
    /\ UNCHANGED <<queueVars, status, notified, exec, result, copying, hookVars, handlerVars, processVars>>

\* The root context ends, and with it the context of every task, present or
\* future; Run then closes the queue.
RootDone ==
    /\ ~rootDone
    /\ rootDone' = TRUE
    /\ Queue!CancelAll
    /\ UNCHANGED <<registered, status, notified, exec, result, copying, hookVars, handlerVars, silenced>>

CloseQueue ==
    /\ rootDone
    /\ ~closed
    /\ Queue!Close
    /\ UNCHANGED <<registered, status, notified, exec, result, copying, hookVars, handlerVars, processVars>>

\* The process exits as soon as the queue is closed; it waits for nobody.
Exit ==
    /\ closed
    /\ ~exited
    /\ exited' = TRUE
    /\ UNCHANGED <<queueVars, registered, status, notified, exec, result, copying, hookVars, handlerVars,
                   processVars>>

WorkerStep(t) ==
    \/ EmitStart(t)
    \/ ExecuteReturns(t)
    \/ EmitDone(t)
    \/ SendWebhook(t)
    \/ QueueDone(t)

CreateStep(t) == RegisterTask(t) \/ AddTask(t) \/ AddTaskFails(t)

DeleteStep(d) == DeleteFind(d) \/ DeleteFire(d) \/ DeleteUpdate(d)

ProcessStep ==
    \/ \E t \in Tasks : CreateStep(t) \/ WorkerStep(t) \/ EmitProgress(t) \/ DetachedProgress(t)
                        \/ WebhookStep(t) \/ CleanupExpired(t) \/ BotCancel(t)
    \/ \E d \in Deleters : DeleteStep(d) \/ \E t \in Tasks : DeleteLookup(d, t)
    \/ TakeTask
    \/ DropTask
    \/ RootDone
    \/ CloseQueue

\* A step of a process that is there.
Alive(A) == ~exited /\ A /\ UNCHANGED exited

Next == Alive(ProcessStep) \/ Exit

\* Workers keep taking tasks (TaskQueue!EveryTaskSettles) and a task returns
\* from Execute; handlers and webhook goroutines that have begun run on.  No
\* fairness for clients, progress, cleanup and shutdown.
Fairness ==
    /\ WF_vars(Alive(TakeTask \/ DropTask))
    /\ \A t \in Tasks : WF_vars(Alive(WorkerStep(t))) /\ WF_vars(Alive(WebhookStep(t)))
                        /\ WF_vars(Alive(AddTask(t) \/ AddTaskFails(t)))
    /\ \A d \in Deleters : WF_vars(Alive(DeleteStep(d)))

Spec == Init /\ [][Next]_vars /\ Fairness

------------------------------------------------------------------------------
(* Properties *)

TypeOK ==
    /\ pending \in Seq(Tasks)
    /\ active \in SUBSET Tasks
    /\ cancelled \in SUBSET Tasks
    /\ ended \in SUBSET Tasks
    /\ closed \in BOOLEAN
    /\ registered \in SUBSET Tasks
    /\ create \in [Tasks -> {"none", "registered", "accepted", "refused"}]
    /\ status \in [Tasks -> Statuses]
    /\ notified \in SUBSET Hooked
    /\ exec \in [Tasks -> {"none", "taken", "executing", "returned", "notifying", "emitted", "finished"}]
    /\ result \in [Tasks -> {"none", "ok", "error"}]
    /\ copying \in SUBSET Detached
    /\ payload \in [Tasks -> {"none", "running", Torn} \cup Terminal]
    /\ attempts \in [Tasks -> 0..MaxAttempts]
    /\ acked \in SUBSET Hooked
    /\ abandoned \in SUBSET Hooked
    /\ deleter \in [Deleters -> {"idle", "looked", "found", "error", "fired", "ok"}]
    /\ target \in [Deleters -> Tasks \cup {NoTask}]
    /\ silenced \in SUBSET Tasks
    /\ rootDone \in BOOLEAN
    /\ exited \in BOOLEAN

\* What a status claims of a task is so: "completed" and "failed" that Execute
\* returned accordingly, "cancelled" that its context was cancelled.
Claims(t, s) ==
    /\ s = "completed" => result[t] = "ok"
    /\ s = "failed" => result[t] = "error"
    /\ s = "cancelled" => t \in cancelled

\* A task that copies in a detached goroutine can be taken back to "running"
\* after it has failed.
TakenBack(t) == t \in Detached /\ result[t] = "error"

\* A status never contradicts what became of the task: besides its claims,
\* "queued" means that no worker has announced it, and "running" that a worker
\* is executing it at this moment.  Emit, UpdateStatus and the worker write it
\* in any order.  Nor does the webhook, which reads it without the lock: it
\* makes true claims, is sent for a task that has returned, and carries a mix
\* of two statuses only if a DELETE request or a copy goroutine writes another.
StatusTellsOutcome ==
    \A t \in Tasks :
        /\ Claims(t, status[t]) /\ Claims(t, payload[t])
        /\ status[t] = "queued" => exec[t] \in {"none", "taken"}
        /\ status[t] = "running" => (t \in active /\ exec[t] \in {"executing", "returned"}) \/ TakenBack(t)
        /\ payload[t] # "none" => result[t] # "none"
        /\ payload[t] = "running" => TakenBack(t)
        /\ payload[t] = Torn => t \in cancelled \/ TakenBack(t)

\* A task the queue still holds has its record in the store, so it can be
\* queried and cancelled; only a record that was already terminal (cancelled,
\* or done and about to leave the queue) may have been cleaned up before.
LiveTaskTracked ==
    \A t \in Queue!Live :
        t \notin registered => t \in cancelled \/ result[t] # "none"

\* Every accepted task ends in a terminal status (or its record has expired),
\* also the one that a DELETE request cancelled while it waited in the queue, for
\* which no event is ever emitted.  There are three exceptions: the shutdown of
\* the process, a failed task whose detached goroutine still reports progress,
\* and a waiting task that the bot cancelled, which stays "queued" for ever.
EveryAcceptedTaskReports ==
    \A t \in Tasks :
        create[t] = "accepted" ~> \/ status[t] \in Terminal
                                  \/ t \notin registered
                                  \/ t \in Detached /\ result[t] = "error"
                                  \/ t \in silenced
                                  \/ rootDone

\* Once Execute has returned, the webhook of the task is answered or has been
\* tried MaxAttempts times, whatever DELETE requests and the bot do to the task,
\* unless the record was gone before the payload was built, no request could be
\* made of the payload and the URL, or the process has exited.
WebhookDelivered ==
    \A t \in Hooked :
        exec[t] = "returned" ~> \/ t \in acked
                                \/ attempts[t] = MaxAttempts
                                \/ t \notin registered
                                \/ t \in abandoned
                                \/ exited

==============================================================================
