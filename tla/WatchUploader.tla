--------------------------- MODULE WatchUploader ---------------------------
(***************************************************************************)
(* The worker pool of the `watch` subcommand, which uploads the files of a *)
(* local directory.  Debounce timers and the main loop submit a file after *)
(* it has changed; a file already in flight is only marked, and the worker *)
(* that has it queues it again when its upload is over.  The channel is    *)
(* bounded, and the workers that receive from it also send to it.          *)
(*                                                                         *)
(* A file is its version: an upload reads the version there is when it     *)
(* opens the file and writes it when it finishes.  Uploads overwrite.      *)
(***************************************************************************)
EXTENDS Naturals, Sequences

CONSTANTS Files,
          Workers,
          Submitters,  \* goroutines that call Submit
          MainLoop,    \* the submitter that also closes the uploader
          NoFile,
          QueueSize,   \* capacity of the jobs channel
          Retry,       \* upload attempts
          MaxVersion   \* bound: changes of a file

ASSUME UploaderAssumption ==
    /\ MainLoop \in Submitters
    /\ NoFile \notin Files
    /\ {QueueSize, Retry, MaxVersion} \subseteq Nat \ {0}

VARIABLES
    version,    \* the file on the local disk
    unseen,     \* changed files for which Submit has not been called yet
    stored,     \* the version in the storage
    handled,    \* history: the newest version an upload stored or gave up on
    inflight,   \* "no" entry, "clean" or "changed" (the map's false and true)
    jobs,       \* the channel
    sending,    \* the file each submitter is sending to the channel, or NoFile
    pc,         \* where each worker is
    job,        \* the file each worker has
    opened,     \* the version its current attempt has opened
    attempt,    \* failed attempts of its current job
    ctxDone,    \* the command was interrupted
    closed,     \* the channel is closed
    panicked    \* a goroutine has sent on the closed channel

workerVars == <<pc, job, opened, attempt>>
shutdownVars == <<ctxDone, closed, panicked>>
vars == <<version, unseen, stored, handled, inflight, jobs, sending, workerVars, shutdownVars>>

Init ==
    /\ version = [f \in Files |-> 0]
    /\ unseen = {}
    /\ stored = [f \in Files |-> 0]
    /\ handled = [f \in Files |-> 0]
    /\ inflight = [f \in Files |-> "no"]
    /\ jobs = <<>>
    /\ sending = [s \in Submitters |-> NoFile]
    /\ pc = [w \in Workers |-> "receive"]
    /\ job = [w \in Workers |-> NoFile]
    /\ opened = [w \in Workers |-> 0]
    /\ attempt = [w \in Workers |-> 0]
    /\ ctxDone = FALSE
    /\ closed = FALSE
    /\ panicked = FALSE

Change(f) ==
    /\ version[f] < MaxVersion
    /\ version' = [version EXCEPT ![f] = @ + 1]
    /\ unseen' = unseen \cup {f}
    /\ UNCHANGED <<stored, handled, inflight, jobs, sending, workerVars, shutdownVars>>

------------------------------------------------------------------------------
(* Submit *)

\* Variant: a file in flight is queued a second time.
SubmitAlways(s, f) ==
    /\ sending[s] = NoFile
    /\ f \in unseen
    /\ unseen' = unseen \ {f}
    /\ inflight' = [inflight EXCEPT ![f] = "clean"]
    /\ sending' = [sending EXCEPT ![s] = f]
    /\ UNCHANGED <<version, stored, handled, jobs, workerVars, shutdownVars>>

\* The locked part: mark a file in flight, or enter it.  The main loop makes
\* no call once it has closed the uploader.
SubmitMark(s, f) ==
    /\ sending[s] = NoFile
    /\ f \in unseen
    /\ s = MainLoop => ~closed
    /\ ~panicked
    /\ unseen' = unseen \ {f}
    /\ IF inflight[f] = "no"
       THEN inflight' = [inflight EXCEPT ![f] = "clean"] /\ sending' = [sending EXCEPT ![s] = f]
       ELSE inflight' = [inflight EXCEPT ![f] = "changed"] /\ UNCHANGED sending
    /\ UNCHANGED <<version, stored, handled, jobs, workerVars, shutdownVars>>

SubmitSend(s) ==
    /\ sending[s] # NoFile
    /\ ~closed
    /\ Len(jobs) < QueueSize
    /\ jobs' = Append(jobs, sending[s])
    /\ sending' = [sending EXCEPT ![s] = NoFile]
    /\ UNCHANGED <<version, unseen, stored, handled, inflight, workerVars, shutdownVars>>

SubmitAbort(s) ==
    /\ sending[s] # NoFile
    /\ ctxDone
    /\ inflight' = [inflight EXCEPT ![sending[s]] = "no"]
    /\ sending' = [sending EXCEPT ![s] = NoFile]
    /\ UNCHANGED <<version, unseen, stored, handled, jobs, workerVars, shutdownVars>>

------------------------------------------------------------------------------
(* A worker: receive, upload with retries, settle, queue again *)

Receive(w) ==
    /\ pc[w] = "receive"
    /\ jobs # <<>>
    /\ jobs' = Tail(jobs)
    /\ job' = [job EXCEPT ![w] = Head(jobs)]
    /\ pc' = [pc EXCEPT ![w] = "attempt"]
    /\ UNCHANGED <<version, unseen, stored, handled, inflight, sending, opened, attempt, shutdownVars>>

WorkerExit(w) ==
    /\ pc[w] = "receive"
    /\ ctxDone \/ (closed /\ jobs = <<>>)
    /\ pc' = [pc EXCEPT ![w] = "exited"]
    /\ UNCHANGED <<version, unseen, stored, handled, inflight, jobs, sending, job, opened, attempt, shutdownVars>>

UploadOpen(w) ==
    /\ pc[w] = "attempt"
    /\ ~ctxDone
    /\ opened' = [opened EXCEPT ![w] = version[job[w]]]
    /\ pc' = [pc EXCEPT ![w] = "upload"]
    /\ UNCHANGED <<version, unseen, stored, handled, inflight, jobs, sending, job, attempt, shutdownVars>>

\* Save has written the file; it may win against the end of the context.
UploadSucceeds(w) ==
    /\ pc[w] = "upload"
    /\ stored' = [stored EXCEPT ![job[w]] = opened[w]]
    /\ handled' = [handled EXCEPT ![job[w]] = opened[w]]
    /\ attempt' = [attempt EXCEPT ![w] = 0]
    /\ opened' = [opened EXCEPT ![w] = 0]
    /\ pc' = [pc EXCEPT ![w] = "settle"]
    /\ UNCHANGED <<version, unseen, inflight, jobs, sending, job, shutdownVars>>

\* The attempt fails; after the last one the error is logged and forgotten.
UploadFails(w) ==
    /\ pc[w] = "upload"
    /\ ~ctxDone
    /\ LET last == attempt[w] + 1 = Retry IN
         /\ attempt' = [attempt EXCEPT ![w] = IF last THEN 0 ELSE @ + 1]
         /\ handled' = [handled EXCEPT ![job[w]] = IF last THEN opened[w] ELSE @]
         /\ pc' = [pc EXCEPT ![w] = IF last THEN "settle" ELSE "attempt"]
    /\ opened' = [opened EXCEPT ![w] = 0]
    /\ UNCHANGED <<version, unseen, stored, inflight, jobs, sending, job, shutdownVars>>

\* The context ended before or during an attempt: the entry is cleared.
UploadAbort(w) ==
    /\ pc[w] \in {"attempt", "upload"}
    /\ ctxDone
    /\ inflight' = [inflight EXCEPT ![job[w]] = "no"]
    /\ job' = [job EXCEPT ![w] = NoFile]
    /\ attempt' = [attempt EXCEPT ![w] = 0]
    /\ opened' = [opened EXCEPT ![w] = 0]
    /\ pc' = [pc EXCEPT ![w] = "receive"]
    /\ UNCHANGED <<version, unseen, stored, handled, jobs, sending, shutdownVars>>

\* Variant: the mark of a change during the upload is dropped.
SettleForgetsChange(w) ==
    /\ pc[w] = "settle"
    /\ inflight' = [inflight EXCEPT ![job[w]] = "no"]
    /\ job' = [job EXCEPT ![w] = NoFile]
    /\ pc' = [pc EXCEPT ![w] = "receive"]
    /\ UNCHANGED <<version, unseen, stored, handled, jobs, sending, opened, attempt, shutdownVars>>

\* Variant: the entry is deleted even when the file is queued again.
SettleDeletesEntry(w) ==
    /\ pc[w] = "settle"
    /\ inflight' = [inflight EXCEPT ![job[w]] = "no"]
    /\ IF inflight[job[w]] = "changed"
       THEN pc' = [pc EXCEPT ![w] = "requeue"] /\ UNCHANGED job
       ELSE pc' = [pc EXCEPT ![w] = "receive"] /\ job' = [job EXCEPT ![w] = NoFile]
    /\ UNCHANGED <<version, unseen, stored, handled, jobs, sending, opened, attempt, shutdownVars>>

Settle(w) ==
    /\ pc[w] = "settle"
    /\ IF inflight[job[w]] = "changed"
       THEN /\ inflight' = [inflight EXCEPT ![job[w]] = "clean"]
            /\ pc' = [pc EXCEPT ![w] = "requeue"]
            /\ UNCHANGED job
       ELSE /\ inflight' = [inflight EXCEPT ![job[w]] = "no"]
            /\ pc' = [pc EXCEPT ![w] = "receive"]
            /\ job' = [job EXCEPT ![w] = NoFile]
    /\ UNCHANGED <<version, unseen, stored, handled, jobs, sending, opened, attempt, shutdownVars>>

Requeue(w) ==
    /\ pc[w] = "requeue"
    /\ ~closed
    /\ Len(jobs) < QueueSize
    /\ jobs' = Append(jobs, job[w])
    /\ job' = [job EXCEPT ![w] = NoFile]
    /\ pc' = [pc EXCEPT ![w] = "receive"]
    /\ UNCHANGED <<version, unseen, stored, handled, inflight, sending, opened, attempt, shutdownVars>>

RequeueAbort(w) ==
    /\ pc[w] = "requeue"
    /\ ctxDone
    /\ inflight' = [inflight EXCEPT ![job[w]] = "no"]
    /\ job' = [job EXCEPT ![w] = NoFile]
    /\ pc' = [pc EXCEPT ![w] = "receive"]
    /\ UNCHANGED <<version, unseen, stored, handled, jobs, sending, opened, attempt, shutdownVars>>

------------------------------------------------------------------------------
(* Shutdown *)

Interrupt ==
    /\ ~ctxDone
    /\ ctxDone' = TRUE
    /\ UNCHANGED <<version, unseen, stored, handled, inflight, jobs, sending, workerVars, closed, panicked>>

\* Run returns when the context is done; then the main goroutine closes the
\* channel.  It does not wait for a timer callback that has already begun.
Close ==
    /\ ctxDone
    /\ ~closed
    /\ sending[MainLoop] = NoFile
    /\ closed' = TRUE
    /\ UNCHANGED <<version, unseen, stored, handled, inflight, jobs, sending, workerVars, ctxDone, panicked>>

\* A select that sends on the closed channel panics unless it happens to pick
\* the context's case; the process dies, and its memory with it.
SendOnClosed ==
    /\ closed
    /\ \/ \E s \in Submitters : sending[s] # NoFile
       \/ \E w \in Workers : pc[w] = "requeue"
    /\ panicked' = TRUE
    /\ inflight' = [f \in Files |-> "no"]
    /\ jobs' = <<>>
    /\ sending' = [s \in Submitters |-> NoFile]
    /\ pc' = [w \in Workers |-> "exited"]
    /\ job' = [w \in Workers |-> NoFile]
    /\ opened' = [w \in Workers |-> 0]
    /\ attempt' = [w \in Workers |-> 0]
    /\ UNCHANGED <<version, unseen, stored, handled, ctxDone, closed>>

SubmitStep(s) == (\E f \in Files : SubmitMark(s, f)) \/ SubmitSend(s) \/ SubmitAbort(s)

WorkerStep(w) ==
    \/ Receive(w)
    \/ WorkerExit(w)
    \/ UploadOpen(w)
    \/ UploadSucceeds(w)
    \/ UploadFails(w)
    \/ UploadAbort(w)
    \/ Settle(w)
    \/ Requeue(w)
    \/ RequeueAbort(w)

Next ==
    \/ \E f \in Files : Change(f)
    \/ \E s \in Submitters : SubmitStep(s)
    \/ \E w \in Workers : WorkerStep(w)
    \/ Interrupt
    \/ Close
    \/ SendOnClosed

\* Goroutines that can take a step do.  A storage call returns, but whether it
\* succeeds is open.
Fairness ==
    /\ \A s \in Submitters : WF_vars(SubmitStep(s))
    /\ \A w \in Workers : WF_vars(WorkerStep(w))

Spec == Init /\ [][Next]_vars /\ Fairness

------------------------------------------------------------------------------
(* Properties *)

TypeOK ==
    /\ version \in [Files -> 0..MaxVersion]
    /\ unseen \in SUBSET Files
    /\ stored \in [Files -> 0..MaxVersion]
    /\ handled \in [Files -> 0..MaxVersion]
    /\ inflight \in [Files -> {"no", "clean", "changed"}]
    /\ jobs \in Seq(Files) /\ Len(jobs) <= QueueSize
    /\ sending \in [Submitters -> Files \cup {NoFile}]
    /\ pc \in [Workers -> {"receive", "attempt", "upload", "settle", "requeue", "exited"}]
    /\ job \in [Workers -> Files \cup {NoFile}]
    /\ opened \in [Workers -> 0..MaxVersion]
    /\ attempt \in [Workers -> 0..Retry - 1]
    /\ ctxDone \in BOOLEAN
    /\ closed \in BOOLEAN
    /\ panicked \in BOOLEAN

\* Everyone who has the job of a file: its places in the channel, the
\* submitters that are sending it, the workers that have it.
Holders(f) ==
    ({"channel"} \X {i \in 1..Len(jobs) : jobs[i] = f})
        \cup ({"submitter"} \X {s \in Submitters : sending[s] = f})
        \cup ({"worker"} \X {w \in Workers : job[w] = f})

\* The inflight map is the truth: a file has an entry exactly when it has one
\* job somewhere, so that it is never queued twice and never uploaded by two
\* workers at once, through every requeue, abort and mark.
OneJobPerFile ==
    \A f \in Files : IF inflight[f] = "no" THEN Holders(f) = {}
                     ELSE \E h \in Holders(f) : Holders(f) = {h}

\* An upload never replaces a file in the storage by an older version of it.
StorageNeverRegresses == [][\A f \in Files : stored'[f] >= stored[f]]_vars

\* A change is eventually uploaded, or given up after the last attempt, also
\* when it arrives while the file is queued or being uploaded.
ChangesAreUploaded ==
    \A f \in Files : \A v \in 1..MaxVersion :
        (version[f] >= v) ~> (handled[f] >= v \/ ctxDone)

==============================================================================
