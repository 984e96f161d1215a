------------------------ MODULE WatchUploader_proofs ------------------------
(***************************************************************************)
(* Proofs about WatchUploader for every set of files, workers and          *)
(* submitters and every capacity of the channel, and about Watcher for     *)
(* every tree of directories.  That a file has one job is inductive only   *)
(* together with where a worker may have one; and that the storage never   *)
(* goes back rests on it, since two workers with one file could finish in  *)
(* the wrong order.  That the watcher forgets no change rests on where its *)
(* walks still have to go.                                                 *)
(***************************************************************************)
EXTENDS WatchUploader, Watcher, TLAPS

Busy == {"attempt", "upload", "settle", "requeue"}
Queued == {jobs[i] : i \in 1..Len(jobs)}

\* A worker has a file exactly while it works on it.
WorkerHasJob == \A w \in Workers : job[w] # NoFile <=> pc[w] \in Busy

\* No two places have the same file.
ChannelIsDistinct == \A i, j \in 1..Len(jobs) : jobs[i] = jobs[j] => i = j

JobsAreDistinct ==
    /\ \A s, t \in Submitters : sending[s] # NoFile /\ sending[s] = sending[t] => s = t
    /\ \A v, w \in Workers : job[v] # NoFile /\ job[v] = job[w] => v = w
    /\ \A s \in Submitters : sending[s] \notin Queued
    /\ \A w \in Workers : job[w] \notin Queued
    /\ \A s \in Submitters, w \in Workers : sending[s] # NoFile => sending[s] # job[w]

\* A file that somebody has is in the map, and the other way round.
Has(f) == \/ f \in Queued
          \/ \E s \in Submitters : sending[s] = f
          \/ \E w \in Workers : job[w] = f

MapIsTrue == \A f \in Files : inflight[f] # "no" <=> Has(f)

JobInv == ChannelIsDistinct /\ JobsAreDistinct /\ MapIsTrue

\* What an upload is about to write is not older than what is stored.
UploadsAreNew ==
    /\ \A f \in Files : stored[f] <= version[f]
    /\ \A w \in Workers :
          pc[w] = "upload" => stored[job[w]] <= opened[w] /\ opened[w] <= version[job[w]]

-----------------------------------------------------------------------------
(* The channel *)

\* A send adds one file to the channel and keeps its files distinct.
LEMMA SendQueued ==
    ASSUME jobs \in Seq(Files), NEW f \in Files, jobs' = Append(jobs, f)
    PROVE  /\ jobs' \in Seq(Files)
           /\ Len(jobs') = Len(jobs) + 1
           /\ Queued' = Queued \cup {f}
           /\ (/\ f \notin Queued
               /\ \A i, j \in 1..Len(jobs) : jobs[i] = jobs[j] => i = j)
              => \A i, j \in 1..Len(jobs') : jobs'[i] = jobs'[j] => i = j
<1>1. Len(jobs') = Len(jobs) + 1 /\ Len(jobs) \in Nat /\ jobs' \in Seq(Files)
  OBVIOUS
<1>2. \A i \in 1..Len(jobs) : jobs'[i] = jobs[i]
  OBVIOUS
<1>3. jobs'[Len(jobs) + 1] = f
  OBVIOUS
<1>4. QED
  BY <1>1, <1>2, <1>3 DEF Queued

\* A receive takes the first file only.
LEMMA ReceiveQueued ==
    ASSUME jobs \in Seq(Files), jobs # <<>>, jobs' = Tail(jobs),
           \A i, j \in 1..Len(jobs) : jobs[i] = jobs[j] => i = j
    PROVE  /\ Head(jobs) \in Files
           /\ Head(jobs) \in Queued
           /\ Queued' = Queued \ {Head(jobs)}
           /\ \A i, j \in 1..Len(jobs') : jobs'[i] = jobs'[j] => i = j
<1>1. Len(jobs') = Len(jobs) - 1 /\ Len(jobs) \in Nat /\ Len(jobs) > 0
  OBVIOUS
<1>2. \A i \in 1..Len(jobs') : jobs'[i] = jobs[i + 1]
  OBVIOUS
<1>3. Head(jobs) = jobs[1] /\ jobs[1] \in Files
  OBVIOUS
<1>4. Queued' \subseteq Queued \ {Head(jobs)}
  BY <1>1, <1>2, <1>3 DEF Queued
<1>5. ASSUME NEW f \in Queued, f # Head(jobs) PROVE f \in Queued'
  <2>1. PICK k \in 1..Len(jobs) : f = jobs[k]
    BY DEF Queued
  <2>2. k - 1 \in 1..Len(jobs') /\ jobs'[k - 1] = jobs[k]
    BY <1>1, <1>2, <1>3, <1>5, <2>1
  <2>3. QED
    BY <2>1, <2>2 DEF Queued
<1>6. QED
  BY <1>1, <1>2, <1>3, <1>4, <1>5 DEF Queued

-----------------------------------------------------------------------------
(* Types *)

LEMMA InitTyped == Init => TypeOK /\ WorkerHasJob
<1> SUFFICES ASSUME Init PROVE TypeOK /\ WorkerHasJob
  OBVIOUS
<1>1. QueueSize \in Nat /\ QueueSize > 0 /\ Retry \in Nat /\ Retry > 0 /\ MaxVersion \in Nat
  BY UploaderAssumption
<1>2. jobs \in Seq(Files) /\ Len(jobs) = 0
  BY DEF Init
<1>3. TypeOK
  <2>1. 0 \in 0..MaxVersion /\ 0 \in 0..Retry - 1
    BY <1>1
  <2>2. Len(jobs) <= QueueSize
    BY <1>1, <1>2
  <2>3. QED
    BY <1>2, <2>1, <2>2 DEF Init, TypeOK
<1>4. QED
  BY <1>3 DEF Init, WorkerHasJob, Busy

LEMMA StepTyped == TypeOK /\ WorkerHasJob /\ [Next]_vars => TypeOK' /\ WorkerHasJob'
<1> SUFFICES ASSUME TypeOK, WorkerHasJob, [Next]_vars PROVE TypeOK' /\ WorkerHasJob'
  OBVIOUS
<1>0. QueueSize \in Nat /\ Retry \in Nat /\ Retry > 0 /\ MaxVersion \in Nat /\ NoFile \notin Files
  BY UploaderAssumption
<1> USE <1>0 DEF TypeOK, WorkerHasJob, Busy, workerVars, shutdownVars
<1>1. ASSUME NEW f \in Files, Change(f) PROVE TypeOK' /\ WorkerHasJob'
  <2>1. version[f] + 1 \in 0..MaxVersion
    BY <1>1 DEF Change
  <2>2. QED
    BY <1>1, <2>1 DEF Change
<1>2. ASSUME NEW s \in Submitters, NEW f \in Files, SubmitMark(s, f) PROVE TypeOK' /\ WorkerHasJob'
  <2>i. inflight \in [Files -> {"no", "clean", "changed"}]
    OBVIOUS
  <2>m. \E v \in {"clean", "changed"} : inflight' = [inflight EXCEPT ![f] = v]
    BY <1>2 DEF SubmitMark
  <2>1. inflight' \in [Files -> {"no", "clean", "changed"}]
    BY <2>i, <2>m
  <2>s. sending \in [Submitters -> Files \cup {NoFile}]
    OBVIOUS
  <2>t. sending' = sending \/ sending' = [sending EXCEPT ![s] = f]
    BY <1>2 DEF SubmitMark
  <2>2. sending' \in [Submitters -> Files \cup {NoFile}]
    BY <2>s, <2>t
  <2>3. QED
    BY <1>2, <2>1, <2>2, SMTT(30) DEF SubmitMark
<1>3. ASSUME NEW s \in Submitters, SubmitSend(s) PROVE TypeOK' /\ WorkerHasJob'
  <2>1. jobs' \in Seq(Files) /\ Len(jobs') = Len(jobs) + 1
    BY <1>3 DEF SubmitSend
  <2>2. QED
    BY <1>3, <2>1 DEF SubmitSend
<1>4. ASSUME NEW s \in Submitters, SubmitAbort(s) PROVE TypeOK' /\ WorkerHasJob'
  BY <1>4 DEF SubmitAbort
<1>5. ASSUME NEW w \in Workers, Receive(w) PROVE TypeOK' /\ WorkerHasJob'
  <2>1. jobs' \in Seq(Files) /\ Len(jobs') = Len(jobs) - 1 /\ Head(jobs) \in Files
    BY <1>5 DEF Receive
  <2>2. job' = [job EXCEPT ![w] = Head(jobs)] /\ pc' = [pc EXCEPT ![w] = "attempt"]
    BY <1>5 DEF Receive
  <2>3. WorkerHasJob'
    BY <2>1, <2>2
  <2>4. /\ job' \in [Workers -> Files \cup {NoFile}]
        /\ pc' \in [Workers -> {"receive", "attempt", "upload", "settle", "requeue", "exited"}]
    BY <2>1, <2>2
  <2>5. TypeOK'
    <3>1. jobs' \in Seq(Files) /\ Len(jobs') <= QueueSize
      BY <2>1
    <3>2. UNCHANGED <<version, unseen, stored, handled, inflight, sending, opened, attempt, ctxDone, closed,
                      panicked>>
      BY <1>5 DEF Receive
    <3>3. QED
      BY <2>4, <3>1, <3>2
  <2>6. QED
    BY <2>3, <2>5
<1>6. ASSUME NEW w \in Workers, WorkerExit(w) PROVE TypeOK' /\ WorkerHasJob'
  BY <1>6 DEF WorkerExit
<1>7. ASSUME NEW w \in Workers, UploadOpen(w) PROVE TypeOK' /\ WorkerHasJob'
  BY <1>7 DEF UploadOpen
<1>8. ASSUME NEW w \in Workers, UploadSucceeds(w) PROVE TypeOK' /\ WorkerHasJob'
  BY <1>8, SMTT(30) DEF UploadSucceeds
<1>9. ASSUME NEW w \in Workers, UploadFails(w) PROVE TypeOK' /\ WorkerHasJob'
  BY <1>9, SMTT(30) DEF UploadFails
<1>10. ASSUME NEW w \in Workers, UploadAbort(w) PROVE TypeOK' /\ WorkerHasJob'
  BY <1>10 DEF UploadAbort
<1>11. ASSUME NEW w \in Workers, Settle(w) PROVE TypeOK' /\ WorkerHasJob'
  <2>1. w \in Workers /\ job[w] \in Files /\ pc[w] = "settle"
    BY <1>11 DEF Settle
  <2>2. CASE inflight[job[w]] = "changed"
    <3>1. /\ inflight' = [inflight EXCEPT ![job[w]] = "clean"] /\ pc' = [pc EXCEPT ![w] = "requeue"] /\ job' = job
          /\ UNCHANGED <<version, unseen, stored, handled, jobs, sending, opened, attempt, shutdownVars>>
      BY <1>11, <2>2 DEF Settle
    <3>2. QED
      BY <2>1, <3>1
  <2>3. CASE inflight[job[w]] # "changed"
    <3>1. /\ inflight' = [inflight EXCEPT ![job[w]] = "no"] /\ pc' = [pc EXCEPT ![w] = "receive"]
          /\ job' = [job EXCEPT ![w] = NoFile]
          /\ UNCHANGED <<version, unseen, stored, handled, jobs, sending, opened, attempt, shutdownVars>>
      BY <1>11, <2>3 DEF Settle
    <3>2. QED
      BY <2>1, <3>1
  <2>4. QED
    BY <2>2, <2>3
<1>12. ASSUME NEW w \in Workers, Requeue(w) PROVE TypeOK' /\ WorkerHasJob'
  <2>1. jobs' \in Seq(Files) /\ Len(jobs') = Len(jobs) + 1
    BY <1>12 DEF Requeue
  <2>2. QED
    BY <1>12, <2>1, SMTT(30) DEF Requeue
<1>13. ASSUME NEW w \in Workers, RequeueAbort(w) PROVE TypeOK' /\ WorkerHasJob'
  BY <1>13 DEF RequeueAbort
<1>14. CASE Interrupt
  BY <1>14 DEF Interrupt
<1>15. CASE Close
  BY <1>15 DEF Close
<1>16. CASE SendOnClosed
  <2>1. jobs' \in Seq(Files) /\ Len(jobs') = 0
    BY <1>16 DEF SendOnClosed
  <2>2. QED
    BY <1>16, <2>1 DEF SendOnClosed
<1>17. CASE UNCHANGED vars
  BY <1>17 DEF vars
<1>18. QED
  BY <1>1, <1>2, <1>3, <1>4, <1>5, <1>6, <1>7, <1>8, <1>9, <1>10, <1>11, <1>12, <1>13, <1>14,
     <1>15, <1>16, <1>17 DEF Next, SubmitStep, WorkerStep

\* TypeOK: every variable of the uploader keeps its type, the channel its
\* capacity and a worker its bound on attempts.
THEOREM TypeCorrect == Spec => []TypeOK
<1>1. QED
  BY InitTyped, StepTyped, PTL DEF Spec

-----------------------------------------------------------------------------
(* One job for each file *)

LEMMA InitJobs == Init => JobInv
<1> SUFFICES ASSUME Init PROVE JobInv
  OBVIOUS
<1>1. Len(jobs) = 0
  BY DEF Init
<1>2. Queued = {} /\ ChannelIsDistinct
  BY <1>1 DEF Queued, ChannelIsDistinct
<1>3. \A s \in Submitters : sending[s] = NoFile
  BY DEF Init
<1>4. \A w \in Workers : job[w] = NoFile
  BY DEF Init
<1>5. \A f \in Files : inflight[f] = "no" /\ f # NoFile
  BY UploaderAssumption DEF Init
<1>6. QED
  BY <1>2, <1>3, <1>4, <1>5 DEF JobInv, JobsAreDistinct, MapIsTrue, Has

\* Each step moves one file from one place to another, or lets it enter or
\* leave together with its entry.
LEMMA StepJobs == TypeOK /\ WorkerHasJob /\ JobInv /\ [Next]_vars => JobInv'
<1> SUFFICES ASSUME TypeOK, WorkerHasJob, JobInv, [Next]_vars PROVE JobInv'
  OBVIOUS
<1>0. NoFile \notin Files /\ Queued \subseteq Files
  BY UploaderAssumption DEF TypeOK, Queued
<1>a. UNCHANGED jobs => Queued' = Queued /\ ChannelIsDistinct'
  BY DEF JobInv, ChannelIsDistinct, Queued
<1>b. UNCHANGED <<inflight, jobs, sending, job>> => JobInv'
  BY <1>a DEF JobInv, JobsAreDistinct, MapIsTrue, Has
<1> USE <1>0 DEF JobInv, JobsAreDistinct, MapIsTrue, Has
<1>1. ASSUME NEW f \in Files, Change(f) PROVE JobInv'
  BY <1>1, <1>b DEF Change, workerVars
<1>2. ASSUME NEW s \in Submitters, NEW f \in Files, SubmitMark(s, f) PROVE JobInv'
  <2>1. UNCHANGED <<jobs, job>>
    BY <1>2 DEF SubmitMark, workerVars
  <2>2. CASE inflight[f] = "no"
    <3>1. inflight' = [inflight EXCEPT ![f] = "clean"] /\ sending' = [sending EXCEPT ![s] = f] /\ ~Has(f)
      BY <1>2, <2>2 DEF SubmitMark
    <3>2. sending[s] = NoFile /\ \A t \in Submitters : sending'[t] = IF t = s THEN f ELSE sending[t]
      BY <1>2, <3>1 DEF SubmitMark, TypeOK
    <3>3. \A g \in Files : inflight'[g] # "no" <=> inflight[g] # "no" \/ g = f
      BY <3>1 DEF TypeOK
    <3>4. JobsAreDistinct'
      BY <1>a, <2>1, <3>1, <3>2
    <3>5. \A g \in Files : Has(g)' <=> Has(g) \/ g = f
      BY <1>a, <2>1, <3>2
    <3>6. QED
      BY <1>a, <2>1, <3>3, <3>4, <3>5
  <2>3. CASE inflight[f] # "no"
    <3>1. inflight' = [inflight EXCEPT ![f] = "changed"] /\ sending' = sending
      BY <1>2, <2>3 DEF SubmitMark
    <3>2. \A g \in Files : inflight'[g] # "no" <=> inflight[g] # "no"
      BY <2>3, <3>1 DEF TypeOK
    <3>3. QED
      BY <1>a, <2>1, <3>1, <3>2
  <2>4. QED
    BY <2>2, <2>3
<1>3. ASSUME NEW s \in Submitters, SubmitSend(s) PROVE JobInv'
  <2>1. sending[s] \in Files /\ sending[s] \notin Queued
    BY <1>3 DEF SubmitSend, TypeOK
  <2>2. Queued' = Queued \cup {sending[s]} /\ ChannelIsDistinct'
    BY <1>3, <2>1, SendQueued DEF SubmitSend, TypeOK, ChannelIsDistinct
  <2>3. UNCHANGED <<inflight, job>> /\ sending' = [sending EXCEPT ![s] = NoFile]
    BY <1>3 DEF SubmitSend, workerVars
  <2>4. \A t \in Submitters : sending'[t] = IF t = s THEN NoFile ELSE sending[t]
    BY <2>3 DEF TypeOK
  <2>5. JobsAreDistinct'
    BY <2>1, <2>2, <2>3, <2>4
  <2>6. \A f \in Files : Has(f)' <=> Has(f)
    BY <2>1, <2>2, <2>3, <2>4
  <2>7. QED
    BY <2>2, <2>3, <2>5, <2>6
<1>4. ASSUME NEW s \in Submitters, SubmitAbort(s) PROVE JobInv'
  <2>1. UNCHANGED <<jobs, job>> /\ sending' = [sending EXCEPT ![s] = NoFile]
        /\ inflight' = [inflight EXCEPT ![sending[s]] = "no"] /\ sending[s] # NoFile
    BY <1>4 DEF SubmitAbort, workerVars
  <2>2. /\ \A t \in Submitters : sending'[t] = IF t = s THEN NoFile ELSE sending[t]
        /\ \A f \in Files : inflight'[f] # "no" <=> inflight[f] # "no" /\ f # sending[s]
    BY <2>1 DEF TypeOK
  <2>3. JobsAreDistinct'
    BY <1>a, <2>1, <2>2
  <2>4. \A f \in Files : Has(f)' <=> Has(f) /\ f # sending[s]
    BY <1>a, <2>1, <2>2
  <2>5. QED
    BY <1>a, <2>1, <2>2, <2>3, <2>4
<1>5. ASSUME NEW w \in Workers, Receive(w) PROVE JobInv'
  <2>1. Head(jobs) \in Files /\ Head(jobs) \in Queued /\ Queued' = Queued \ {Head(jobs)} /\ ChannelIsDistinct'
    BY <1>5, ReceiveQueued DEF Receive, TypeOK, ChannelIsDistinct
  <2>2. UNCHANGED <<inflight, sending>> /\ job' = [job EXCEPT ![w] = Head(jobs)] /\ job[w] = NoFile
    BY <1>5 DEF Receive, WorkerHasJob, Busy
  <2>3. \A v \in Workers : job'[v] = IF v = w THEN Head(jobs) ELSE job[v]
    BY <2>2 DEF TypeOK
  <2>4. JobsAreDistinct'
    BY <2>1, <2>2, <2>3
  <2>5. \A f \in Files : Has(f)' <=> Has(f)
    BY <2>1, <2>2, <2>3
  <2>6. QED
    BY <2>1, <2>2, <2>4, <2>5
<1>6. ASSUME NEW w \in Workers, WorkerExit(w) \/ UploadOpen(w) \/ UploadSucceeds(w) \/ UploadFails(w)
      PROVE  JobInv'
  BY <1>6, <1>b DEF WorkerExit, UploadOpen, UploadSucceeds, UploadFails
<1>7. ASSUME NEW w \in Workers, job[w] # NoFile, inflight' = [inflight EXCEPT ![job[w]] = "no"],
             job' = [job EXCEPT ![w] = NoFile], UNCHANGED <<jobs, sending>>
      PROVE  JobInv'
  <2>1. /\ \A v \in Workers : job'[v] = IF v = w THEN NoFile ELSE job[v]
        /\ \A f \in Files : inflight'[f] # "no" <=> inflight[f] # "no" /\ f # job[w]
    BY <1>7 DEF TypeOK
  <2>2. JobsAreDistinct'
    BY <1>a, <1>7, <2>1
  <2>3. \A f \in Files : Has(f)' <=> Has(f) /\ f # job[w]
    BY <1>a, <1>7, <2>1
  <2>4. QED
    BY <1>a, <1>7, <2>1, <2>2, <2>3
<1>8. ASSUME NEW w \in Workers, UploadAbort(w) PROVE JobInv'
  BY <1>7, <1>8 DEF UploadAbort, WorkerHasJob, Busy
<1>9. ASSUME NEW w \in Workers, Settle(w) PROVE JobInv'
  <2>1. job[w] \in Files
    BY <1>9 DEF Settle, WorkerHasJob, Busy, TypeOK
  <2>2. CASE inflight[job[w]] = "changed"
    <3>1. inflight' = [inflight EXCEPT ![job[w]] = "clean"] /\ UNCHANGED <<job, jobs, sending>>
      BY <1>9, <2>2 DEF Settle
    <3>2. \A g \in Files : inflight'[g] # "no" <=> inflight[g] # "no"
      BY <2>2, <3>1 DEF TypeOK
    <3>3. QED
      BY <1>a, <3>1, <3>2
  <2>3. CASE inflight[job[w]] # "changed"
    BY <1>7, <1>9, <2>1, <2>3 DEF Settle
  <2>4. QED
    BY <2>2, <2>3
<1>10. ASSUME NEW w \in Workers, Requeue(w) PROVE JobInv'
  <2>1. job[w] \in Files /\ job[w] \notin Queued
    BY <1>10 DEF Requeue, WorkerHasJob, Busy, TypeOK
  <2>2. Queued' = Queued \cup {job[w]} /\ ChannelIsDistinct'
    BY <1>10, <2>1, SendQueued DEF Requeue, TypeOK, ChannelIsDistinct
  <2>3. UNCHANGED <<inflight, sending>> /\ job' = [job EXCEPT ![w] = NoFile]
    BY <1>10 DEF Requeue
  <2>4. \A v \in Workers : job'[v] = IF v = w THEN NoFile ELSE job[v]
    BY <2>3 DEF TypeOK
  <2>5. JobsAreDistinct'
    BY <2>1, <2>2, <2>3, <2>4
  <2>6. \A f \in Files : Has(f)' <=> Has(f)
    BY <2>1, <2>2, <2>3, <2>4
  <2>7. QED
    BY <2>2, <2>3, <2>5, <2>6
<1>11. ASSUME NEW w \in Workers, RequeueAbort(w) PROVE JobInv'
  BY <1>7, <1>11 DEF RequeueAbort, WorkerHasJob, Busy
<1>12. CASE Interrupt \/ Close
  BY <1>12, <1>b DEF Interrupt, Close, workerVars
<1>13. CASE SendOnClosed
  <2>1. Len(jobs') = 0 /\ \A f \in Files : inflight'[f] = "no"
    BY <1>13 DEF SendOnClosed
  <2>2. (\A s \in Submitters : sending'[s] = NoFile) /\ \A w \in Workers : job'[w] = NoFile
    BY <1>13 DEF SendOnClosed
  <2>3. Queued' = {} /\ ChannelIsDistinct'
    BY <2>1 DEF Queued, ChannelIsDistinct
  <2>4. QED
    BY <2>1, <2>2, <2>3
<1>14. CASE UNCHANGED vars
  BY <1>14, <1>b DEF vars, workerVars
<1>15. QED
  BY <1>1, <1>2, <1>3, <1>4, <1>5, <1>6, <1>8, <1>9, <1>10, <1>11, <1>12, <1>13, <1>14
     DEF Next, SubmitStep, WorkerStep
LEMMA JobsAreHeldOnce == TypeOK /\ JobInv => OneJobPerFile
<1> SUFFICES ASSUME TypeOK, JobInv, NEW f \in Files
             PROVE  IF inflight[f] = "no" THEN Holders(f) = {}
                    ELSE \E h \in Holders(f) : Holders(f) = {h}
  BY DEF OneJobPerFile
<1>0. f # NoFile
  BY UploaderAssumption
<1> DEFINE Places == {i \in 1..Len(jobs) : jobs[i] = f}
           Sending == {s \in Submitters : sending[s] = f}
           Having == {w \in Workers : job[w] = f}
<1>1. Holders(f) = ({"channel"} \X Places) \cup ({"submitter"} \X Sending) \cup ({"worker"} \X Having)
  BY DEF Holders
<1>2. Has(f) <=> Places # {} \/ Sending # {} \/ Having # {}
  BY DEF Has, Queued
<1>3. \A i, j \in Places : i = j
  BY DEF JobInv, ChannelIsDistinct
<1>4. (\A s, t \in Sending : s = t) /\ \A v, w \in Having : v = w
  BY <1>0 DEF JobInv, JobsAreDistinct
<1>5. (Places # {} => f \in Queued) /\ (f \in Queued => Sending = {} /\ Having = {})
  BY DEF JobInv, JobsAreDistinct, Queued
<1>6. Sending = {} \/ Having = {}
  BY <1>0 DEF JobInv, JobsAreDistinct
<1>7. (inflight[f] # "no") <=> Has(f)
  BY DEF JobInv, MapIsTrue
<1> HIDE DEF Places, Sending, Having
<1>8. CASE inflight[f] = "no"
  <2>1. Places = {} /\ Sending = {} /\ Having = {}
    BY <1>2, <1>7, <1>8
  <2>2. Holders(f) = {}
    BY <1>1, <2>1
  <2>3. QED
    BY <1>8, <2>2
<1>9. CASE inflight[f] # "no" /\ Places # {}
  <2>1. PICK i \in Places : TRUE
    BY <1>9
  <2>2. Sending = {} /\ Having = {} /\ Places = {i}
    BY <1>3, <1>5, <1>9, <2>1
  <2>3. Holders(f) = {<<"channel", i>>}
    BY <1>1, <2>2
  <2>4. QED
    BY <1>9, <2>3
<1>10. CASE inflight[f] # "no" /\ Sending # {}
  <2>1. PICK s \in Sending : TRUE
    BY <1>10
  <2>2. Places = {} /\ Having = {} /\ Sending = {s}
    BY <1>4, <1>5, <1>6, <1>10, <2>1
  <2>3. Holders(f) = {<<"submitter", s>>}
    BY <1>1, <2>2
  <2>4. QED
    BY <1>10, <2>3
<1>11. CASE inflight[f] # "no" /\ Having # {}
  <2>1. PICK w \in Having : TRUE
    BY <1>11
  <2>2. Places = {} /\ Sending = {} /\ Having = {w}
    BY <1>4, <1>5, <1>6, <1>11, <2>1
  <2>3. Holders(f) = {<<"worker", w>>}
    BY <1>1, <2>2
  <2>4. QED
    BY <1>11, <2>3
<1>12. QED
  BY <1>2, <1>7, <1>8, <1>9, <1>10, <1>11

\* OneJobPerFile: an entry of the inflight map stands for one job of the file,
\* with any number of workers and of goroutines that submit.
THEOREM OneJob == Spec => []OneJobPerFile
<1>1. QED
  BY InitTyped, StepTyped, InitJobs, StepJobs, JobsAreHeldOnce, PTL DEF Spec

-----------------------------------------------------------------------------
(* The storage *)

LEMMA InitNew == Init => UploadsAreNew
<1>1. QED
  BY DEF Init, UploadsAreNew

\* Since no other worker has the file, what was stored when the worker opened
\* it is still there when the worker writes.
LEMMA StepNew ==
    TypeOK /\ WorkerHasJob /\ JobInv /\ UploadsAreNew /\ [Next]_vars
    => UploadsAreNew' /\ \A f \in Files : stored'[f] >= stored[f]
<1> SUFFICES ASSUME TypeOK, WorkerHasJob, JobInv, UploadsAreNew, [Next]_vars
             PROVE  UploadsAreNew' /\ \A f \in Files : stored'[f] >= stored[f]
  OBVIOUS
<1> DEFINE Goal == UploadsAreNew' /\ \A f \in Files : stored'[f] >= stored[f]
<1>0. /\ \A f \in Files : version[f] \in Nat /\ stored[f] \in Nat /\ stored[f] <= version[f]
      /\ \A w \in Workers : opened[w] \in Nat
      /\ NoFile \notin Files /\ MaxVersion \in Nat
  BY UploaderAssumption DEF TypeOK, UploadsAreNew
<1>a. \A w \in Workers : pc[w] \in Busy => job[w] \in Files
  BY DEF WorkerHasJob, TypeOK
<1>b. \A v, w \in Workers : pc[v] \in Busy /\ job[v] = job[w] => v = w
  BY DEF WorkerHasJob, JobInv, JobsAreDistinct
<1>c. ASSUME UNCHANGED <<version, stored>>,
             \A w \in Workers : pc'[w] = "upload" => pc[w] = "upload" /\ job'[w] = job[w] /\ opened'[w] = opened[w]
      PROVE  Goal
  BY <1>0, <1>c DEF UploadsAreNew
<1>1. ASSUME NEW f \in Files, Change(f) PROVE Goal
  <2>1. UNCHANGED <<stored, pc, job, opened>> /\ \A g \in Files : version'[g] >= version[g] /\ version'[g] \in Nat
    BY <1>0, <1>1 DEF Change, workerVars, TypeOK
  <2>2. \A w \in Workers : pc[w] = "upload" => job[w] \in Files
    BY <1>a DEF Busy
  <2>3. QED
    BY <1>0, <2>1, <2>2 DEF UploadsAreNew
<1>2. ASSUME NEW w \in Workers, UploadOpen(w) PROVE Goal
  <2>1. UNCHANGED <<version, stored, job>> /\ pc[w] = "attempt"
    BY <1>2 DEF UploadOpen
  <2>2. \A v \in Workers : /\ opened'[v] = IF v = w THEN version[job[w]] ELSE opened[v]
                           /\ pc'[v] = IF v = w THEN "upload" ELSE pc[v]
    BY <1>2 DEF UploadOpen, TypeOK
  <2>3. job[w] \in Files
    BY <1>a, <2>1 DEF Busy
  <2>4. QED
    BY <1>0, <2>1, <2>2, <2>3 DEF UploadsAreNew
<1>3. ASSUME NEW w \in Workers, UploadSucceeds(w) PROVE Goal
  <2>1. UNCHANGED <<version, job>> /\ pc[w] = "upload"
    BY <1>3 DEF UploadSucceeds
  <2>2. job[w] \in Files /\ stored[job[w]] <= opened[w] /\ opened[w] <= version[job[w]]
    BY <1>a, <2>1 DEF Busy, UploadsAreNew
  <2>3. \A f \in Files : stored'[f] = IF f = job[w] THEN opened[w] ELSE stored[f]
    BY <1>3 DEF UploadSucceeds, TypeOK
  <2>4. \A v \in Workers : /\ opened'[v] = IF v = w THEN 0 ELSE opened[v]
                           /\ pc'[v] = IF v = w THEN "settle" ELSE pc[v]
    BY <1>3 DEF UploadSucceeds, TypeOK
  <2>5. \A v \in Workers : pc'[v] = "upload" => job[v] \in Files /\ job[v] # job[w]
    BY <1>a, <1>b, <2>1, <2>4 DEF Busy
  <2>6. QED
    BY <1>0, <2>1, <2>2, <2>3, <2>4, <2>5 DEF UploadsAreNew
<1>4. ASSUME NEW w \in Workers, Receive(w) PROVE Goal
  BY <1>4, <1>c DEF Receive, TypeOK
<1>5. ASSUME NEW w \in Workers, UploadFails(w) PROVE Goal
  <2>1. UNCHANGED <<version, stored, job>>
    BY <1>5 DEF UploadFails
  <2>2. \A v \in Workers : /\ opened'[v] = IF v = w THEN 0 ELSE opened[v]
                           /\ v # w => pc'[v] = pc[v]
    BY <1>5 DEF UploadFails, TypeOK
  <2>3. pc'[w] # "upload"
    BY <1>5 DEF UploadFails, TypeOK
  <2>4. QED
    BY <1>c, <2>1, <2>2, <2>3
<1>6. ASSUME NEW w \in Workers, UploadAbort(w) PROVE Goal
  <2>1. UNCHANGED <<version, stored>>
    BY <1>6 DEF UploadAbort
  <2>2. \A v \in Workers : /\ opened'[v] = IF v = w THEN 0 ELSE opened[v]
                           /\ job'[v] = IF v = w THEN NoFile ELSE job[v]
                           /\ pc'[v] = IF v = w THEN "receive" ELSE pc[v]
    BY <1>6 DEF UploadAbort, TypeOK
  <2>3. QED
    BY <1>c, <2>1, <2>2
<1>7. ASSUME NEW w \in Workers, Settle(w) \/ Requeue(w) \/ RequeueAbort(w) PROVE Goal
  <2>1. UNCHANGED <<version, stored, opened>> /\ pc[w] \in {"settle", "requeue"}
    BY <1>7 DEF Settle, Requeue, RequeueAbort
  <2>2. \A v \in Workers : v # w => job'[v] = job[v] /\ pc'[v] = pc[v]
    BY <1>7 DEF Settle, Requeue, RequeueAbort, TypeOK
  <2>3. pc'[w] # "upload"
    BY <1>7 DEF Settle, Requeue, RequeueAbort, TypeOK
  <2>4. QED
    BY <1>c, <2>1, <2>2, <2>3
<1>8. ASSUME NEW w \in Workers, WorkerExit(w) PROVE Goal
  BY <1>8, <1>c DEF WorkerExit, TypeOK
<1>9. ASSUME NEW s \in Submitters, SubmitStep(s) PROVE Goal
  <2>1. UNCHANGED <<version, stored, pc, job, opened>>
    BY <1>9 DEF SubmitStep, SubmitMark, SubmitSend, SubmitAbort, workerVars
  <2>2. QED
    BY <1>c, <2>1
<1>10. CASE Interrupt \/ Close \/ UNCHANGED vars
  <2>1. UNCHANGED <<version, stored, pc, job, opened>>
    BY <1>10 DEF Interrupt, Close, workerVars, vars
  <2>2. QED
    BY <1>c, <2>1
<1>11. CASE SendOnClosed
  <2>1. UNCHANGED <<version, stored>> /\ \A w \in Workers : pc'[w] = "exited"
    BY <1>11 DEF SendOnClosed
  <2>2. QED
    BY <1>c, <2>1
<1>12. QED
  BY <1>1, <1>2, <1>3, <1>4, <1>5, <1>6, <1>7, <1>8, <1>9, <1>10, <1>11 DEF Next, WorkerStep

\* StorageNeverRegresses: no upload replaces a file by an older version of it,
\* whatever workers, retries and requeues come between.
THEOREM NoRegress == Spec => StorageNeverRegresses
<1>1. TypeOK /\ WorkerHasJob /\ JobInv /\ UploadsAreNew /\ [Next]_vars
      => [\A f \in Files : stored'[f] >= stored[f]]_vars
  BY StepNew
<1>2. QED
  BY <1>1, InitTyped, StepTyped, InitJobs, StepJobs, InitNew, StepNew, PTL DEF Spec, StorageNeverRegresses

-----------------------------------------------------------------------------
(* The inductive invariant of the watcher *)

\* Directories are never removed, and a file is in one that is there.
Tree ==
    /\ Root \in dirs
    /\ \A d \in dirs \ {Root} : Parent[d] \in dirs
    /\ \A f \in LocalFiles : size[f] > 0 => Parent[f] \in dirs

\* Directories the walk of addDir knows.
Walked == {d \in Dirs : <<d, "add">> \in todo \/ <<d, "read">> \in todo}

Known ==
    /\ Walked \subseteq dirs /\ scan \cap Dirs \subseteq dirs
    /\ \A e \in Notified : IF e.op = "create" THEN e.name \in dirs \ {Root} ELSE e.name \in LocalFiles

Program ==
    /\ mainAt \in {"loop", "scanNew", "scanAll"} => todo = {}
    /\ mainAt \in {"loop", "addRoot", "done"} => scan = {}
    /\ mainAt \in {"addNew", "scanNew"} => recursive
    /\ mainAt = "addRoot" => Root \in watched \cup blind \/ <<Root, "add">> \in todo
    /\ mainAt \in {"loop", "addNew", "scanNew"} => Root \in watched \cup blind
    /\ \A d \in Dirs : <<d, "read">> \in todo => d \in watched \cup blind

\* A directory that is not watched is below one whose creation is queued, that the
\* walk has still to read, or that could not be watched or read.
Searched ==
    recursive /\ mainAt \notin {"scanAll", "done"} =>
        \A d \in dirs \ watched : \E p \in Created \cup Walked \cup blind : d \in Below[p]

\* What the walk over a new directory adds is scanned after it.
ScanFollows == mainAt = "addNew" => \A d \in Walked : \E p \in scan : d \in Below[p]

\* A file that was not removed is there when its timers and callbacks look.
Present ==
    \A f \in LocalFiles :
        /\ revision[f] = 0 => submitted[f] = 0
        /\ f \notin removed =>
              /\ revision[f] > 0 => size[f] > 0
              /\ pending[f] # "none" \/ orphans[f] > 0 => size[f] > 0
              /\ \A c \in Callbacks : cb[c].file = f =>
                    size[f] > 0 /\ (cb[c].at = "decide" => cb[c].size > 0)
              /\ [op |-> "remove", name |-> f] \notin Notified

Running == \A c \in Callbacks : cb[c].at = "idle" <=> cb[c].file = Nothing

HandInv ==
    /\ WatcherTypeOK /\ Tree /\ Known /\ Program
    /\ Searched /\ ScanFollows /\ Present /\ Running /\ ChangesInHand

-----------------------------------------------------------------------------
(* The tree *)

LEMMA BelowSelf == ASSUME NEW p \in Paths PROVE p \in Below[p]
BY DEF Below

LEMMA BelowChild ==
    ASSUME NEW p \in Paths, NEW q \in Paths \ {Root}, Parent[q] \in Below[p]
    PROVE  q \in Below[p]
BY DEF Below, Closed

LEMMA BelowBelow ==
    ASSUME NEW p \in Paths, NEW q \in Below[p], NEW r \in Below[q]
    PROVE  q \in Paths /\ r \in Paths /\ r \in Below[p]
BY DEF Below

\* What is below a path and not the path is below one of its children.
LEMMA ChildAbove ==
    ASSUME WatcherAssumption, NEW p \in Paths, NEW r \in Below[p], r # p
    PROVE  \E q \in Paths \ {Root} : Parent[q] = p /\ r \in Below[q]
<1> DEFINE S == {p} \cup {x \in Paths : \E q \in Paths \ {Root} : Parent[q] = p /\ x \in Below[q]}
<1>1. Closed(S)
  <2> SUFFICES ASSUME NEW y \in Paths \ {Root}, Parent[y] \in S PROVE y \in S
    BY DEF Closed
  <2>1. CASE Parent[y] = p
    BY <2>1, BelowSelf
  <2>2. CASE Parent[y] # p
    BY <2>2, BelowChild
  <2>3. QED
    BY <2>1, <2>2
<1>2. S \in SUBSET Paths /\ p \in S
  OBVIOUS
<1>3. r \in S
  <2> HIDE DEF S
  <2>1. QED
    BY <1>1, <1>2 DEF Below
<1>4. QED
  BY <1>3

\* Nothing is below a file but the file.
LEMMA FileIsLeaf ==
    ASSUME WatcherAssumption, NEW f \in LocalFiles, NEW p \in Below[f]
    PROVE  p = f
BY ChildAbove DEF WatcherAssumption, Paths

\* A directory above one that is there is there.
LEMMA AboveIsThere ==
    ASSUME WatcherAssumption, Tree, dirs \subseteq Dirs, NEW q \in Dirs, NEW r \in Below[q],
           r \in dirs \/ (r \in LocalFiles /\ Parent[r] \in dirs)
    PROVE  q \in dirs
<1> DEFINE S == (Dirs \ dirs) \cup {f \in LocalFiles : Parent[f] \notin dirs}
<1>1. Closed(S)
  BY DEF Closed, Tree, WatcherAssumption, Paths
<1>2. S \in SUBSET Paths
  BY DEF Paths
<1>3. SUFFICES ASSUME q \in S PROVE FALSE
  OBVIOUS
<1>4. q \in Paths
  BY DEF Paths
<1>5. r \in S
  <2> HIDE DEF S
  <2>1. QED
    BY <1>1, <1>2, <1>3, <1>4 DEF Below
<1>6. QED
  BY <1>5 DEF WatcherAssumption

\* The directory of a file or directory that is below another one, a step further.
LEMMA NextBelow ==
    ASSUME WatcherAssumption, Tree, dirs \subseteq Dirs, NEW p \in Dirs, NEW r \in Below[p], r # p,
           r \in dirs \/ (r \in LocalFiles /\ size[r] > 0)
    PROVE  \/ r \in FilesOf(p)
           \/ \E q \in Subdirs(p) : r \in Below[q]
<1>1. p \in Paths
  BY DEF Paths
<1>2. PICK q \in Paths \ {Root} : Parent[q] = p /\ r \in Below[q]
  BY <1>1, ChildAbove
<1>3. CASE q \in LocalFiles
  <2>1. r = q
    BY <1>2, <1>3, FileIsLeaf
  <2>2. QED
    BY <1>2, <1>3, <2>1 DEF FilesOf, WatcherAssumption
<1>4. CASE q \in Dirs
  <2>1. q \in dirs
    BY <1>2, <1>4, AboveIsThere DEF Tree
  <2>2. QED
    BY <1>2, <2>1 DEF Subdirs
<1>5. QED
  BY <1>3, <1>4 DEF Paths

-----------------------------------------------------------------------------
(* The queue of events *)

Events == [op : Ops, name : Paths]

\* What is queued is in the queue; an event joins it or does not.
LEMMA EventIs ==
    ASSUME events \in Seq(Events), NEW op \in Ops, NEW name \in Paths, Event(op, name) \/ UNCHANGED events
    PROVE  /\ events' \in Seq(Events)
           /\ Notified \subseteq Notified' /\ Notified' \subseteq Notified \cup {[op |-> op, name |-> name]}
           /\ Event(op, name) => [op |-> op, name |-> name] \in Notified'
<1> DEFINE e == [op |-> op, name |-> name]
<1>1. e \in Events
  BY DEF Events
<1>2. CASE Event(op, name)
  <2> HIDE DEF e
  <2>1. events' = Append(events, e)
    BY <1>2 DEF Event, e
  <2>2. DOMAIN events = 1..Len(events) /\ DOMAIN events' = 1..(Len(events) + 1)
    BY <1>1, <2>1
  <2>3. \A i \in DOMAIN events : events'[i] = events[i]
    BY <1>1, <2>1
  <2>4. events'[Len(events) + 1] = e
    BY <1>1, <2>1
  <2>5. Notified' \subseteq Notified \cup {e}
    BY <2>2, <2>3, <2>4 DEF Notified
  <2>6. Notified \subseteq Notified'
    BY <2>2, <2>3 DEF Notified
  <2>7. Len(events) + 1 \in DOMAIN events'
    BY <2>2
  <2>8. e \in Notified'
    BY <2>4, <2>7 DEF Notified
  <2>9. QED
    BY <1>1, <1>2, <2>1, <2>5, <2>6, <2>8 DEF e
<1>3. CASE UNCHANGED events /\ ~Event(op, name)
  BY <1>3 DEF Notified
<1>4. QED
  BY <1>2, <1>3

LEMMA HeadIs ==
    ASSUME events \in Seq(Events), events # <<>>, events' = Tail(events)
    PROVE  /\ Head(events) \in Notified /\ Head(events) \in Events
           /\ events' \in Seq(Events)
           /\ Notified' \subseteq Notified /\ Notified \subseteq Notified' \cup {Head(events)}
<1>1. Len(events) \in Nat /\ Len(events) > 0 /\ DOMAIN events = 1..Len(events)
  OBVIOUS
<1>2. Head(events) = events[1] /\ 1 \in DOMAIN events
  BY <1>1
<1>3. events' \in Seq(Events) /\ Len(events') = Len(events) - 1
  OBVIOUS
<1>4. DOMAIN events' = 1..(Len(events) - 1)
  BY <1>3
<1>5. \A i \in 1..(Len(events) - 1) : events'[i] = events[i + 1]
  BY <1>1
<1>6. Notified' \subseteq Notified
  <2> SUFFICES ASSUME NEW i \in DOMAIN events' PROVE events'[i] \in Notified
    BY DEF Notified
  <2>1. i + 1 \in DOMAIN events /\ events'[i] = events[i + 1]
    BY <1>1, <1>4, <1>5
  <2>2. QED
    BY <2>1 DEF Notified
<1>7. Notified \subseteq Notified' \cup {Head(events)}
  <2> SUFFICES ASSUME NEW i \in DOMAIN events, i # 1 PROVE events[i] \in Notified'
    BY <1>2 DEF Notified
  <2>1. i - 1 \in DOMAIN events' /\ events[(i - 1) + 1] = events[i]
    BY <1>1, <1>4
  <2>2. events'[i - 1] = events[i]
    BY <1>4, <1>5, <2>1
  <2>3. QED
    BY <2>1, <2>2 DEF Notified
<1>8. QED
  BY <1>2, <1>3, <1>6, <1>7 DEF Notified

-----------------------------------------------------------------------------
(* The invariant holds at first, and the disk keeps it *)

\* A step that changes no file keeps sight of a file if it does so of each.
LEMMA StillInHand ==
    ASSUME ChangesInHand, UNCHANGED <<recursive, revision, submitted>>, missed \subseteq missed',
           removed \subseteq removed', interrupted => interrupted',
           \A f \in LocalFiles :
              /\ f \notin removed' /\ f \notin missed' /\ ~interrupted' /\ submitted[f] # revision[f]
              /\ Tended(f) \/ Ahead(f)
              => Tended(f)' \/ Ahead(f)'
    PROVE  ChangesInHand'
BY DEF ChangesInHand, Answers

LEMMA InitHandInv == WatcherInit => HandInv
<1> SUFFICES ASSUME WatcherInit PROVE HandInv
  OBVIOUS
<1> USE WatcherAssumption
<1>1. Notified = {} /\ Created = {}
  BY DEF WatcherInit, Notified, Created
<1>2. events \in Seq([op : Ops, name : Paths])
  BY DEF WatcherInit
<1>3. cb \in [Callbacks -> [file : LocalFiles \cup {Nothing}, at : {"idle", "stat", "decide", "submit"},
                            size : 0..MaxSize]]
  BY DEF WatcherInit, Idle
<1>4. size \in [LocalFiles -> 0..MaxSize] /\ lastSize \in [LocalFiles -> 0..MaxSize]
  BY DEF WatcherInit
<1>5. revision \in [LocalFiles -> Nat] /\ submitted \in [LocalFiles -> Nat] /\ orphans \in [LocalFiles -> Nat]
  BY DEF WatcherInit
<1>6. WatcherTypeOK
  <2>1. /\ recursive \in BOOLEAN /\ interrupted \in BOOLEAN
        /\ mainAt \in {"scanAll", "addRoot", "loop", "addNew", "scanNew", "done"}
    BY DEF WatcherInit
  <2>2. /\ dirs \subseteq Dirs /\ watched \subseteq dirs
        /\ missed \subseteq LocalFiles /\ blind \subseteq Dirs /\ removed \subseteq LocalFiles
        /\ faults \in Nat
    BY DEF WatcherInit
  <2>3. todo \subseteq Dirs \X {"add", "read"} /\ scan \subseteq Paths
    BY DEF WatcherInit, Paths
  <2>4. pending \in [LocalFiles -> {"none", "armed", "fired"}]
    BY DEF WatcherInit
  <2>5. QED
    BY <1>2, <1>3, <1>4, <1>5, <2>1, <2>2, <2>3, <2>4 DEF WatcherTypeOK
<1>7. Tree
  BY DEF WatcherInit, Tree
<1>8. Known
  BY <1>1 DEF WatcherInit, Known, Walked
<1>9. Program
  BY DEF WatcherInit, Program
<1>10. Searched
  <2> SUFFICES ASSUME mainAt = "addRoot", NEW d \in dirs PROVE \E p \in Walked : d \in Below[p]
    BY DEF WatcherInit, Searched
  <2>1. Root \in Walked
    BY DEF WatcherInit, Walked
  <2>2. d \in Below[Root]
    BY DEF WatcherInit, Paths
  <2>3. QED
    BY <2>1, <2>2
<1>11. ScanFollows
  BY DEF WatcherInit, ScanFollows
<1>12. Present
  <2> SUFFICES ASSUME NEW f \in LocalFiles
               PROVE  /\ revision[f] = 0 => submitted[f] = 0
                      /\ revision[f] > 0 => size[f] > 0
                      /\ pending[f] = "none" /\ ~(orphans[f] > 0)
                      /\ \A c \in Callbacks : cb[c].file # f
    BY <1>1 DEF Present
  <2>1. QED
    BY <1>4 DEF WatcherInit, Idle
<1>13. Running
  BY DEF WatcherInit, Running, Idle
<1>14. ChangesInHand
  <2> SUFFICES ASSUME NEW f \in LocalFiles, f \notin missed PROVE submitted[f] = revision[f]
    BY DEF ChangesInHand, Answers
  <2>1. size[f] \in 0..1 /\ ~(size[f] > 0)
    BY DEF WatcherInit
  <2>2. QED
    BY <2>1 DEF WatcherInit
<1>15. QED
  BY <1>6, <1>7, <1>8, <1>9, <1>10, <1>11, <1>12, <1>13, <1>14 DEF HandInv

\* Where a directory above f is not watched, the walk is still to come there.
LEMMA UnwatchedIsAhead ==
    ASSUME HandInv, NEW f \in LocalFiles, recursive, ~interrupted,
           ~Unseen(f), Parent[f] \in dirs \ watched
    PROVE  Ahead(f)
<1> USE WatcherAssumption
<1>1. mainAt \notin {"scanAll", "addRoot", "done"} /\ dirs \subseteq Dirs /\ blind \subseteq Dirs
  BY DEF HandInv, WatcherTypeOK, Unseen
<1>2. PICK p \in Created \cup Walked \cup blind : Parent[f] \in Below[p]
  BY <1>1 DEF HandInv, Searched
<1>3. p \in Paths
  BY <1>1 DEF Created, Walked, Paths
<1>4. f \in Paths \ {Root}
  BY DEF Paths
<1>5. f \in Below[p]
  BY <1>2, <1>3, <1>4, BelowChild
<1>6. CASE p \in Created
  BY <1>5, <1>6 DEF Ahead
<1>7. CASE p \in Walked
  <2>1. mainAt = "addNew"
    BY <1>1, <1>7 DEF HandInv, Program, WatcherTypeOK, Walked
  <2>2. PICK q \in scan : p \in Below[q]
    BY <1>7, <2>1 DEF HandInv, ScanFollows
  <2>3. q \in Paths
    BY DEF HandInv, WatcherTypeOK, Paths
  <2>4. f \in Below[q]
    BY <1>3, <1>5, <2>2, <2>3, BelowBelow
  <2>5. QED
    BY <2>2, <2>4 DEF Ahead
<1>8. p \notin blind
  BY <1>5 DEF Unseen
<1>9. QED
  BY <1>6, <1>7, <1>8

LEMMA ChangeKeeps == ASSUME HandInv, NEW f \in LocalFiles, ChangeFile(f) PROVE HandInv'
<1> USE WatcherAssumption
<1> DEFINE e == [op |-> "write", name |-> f]
<1>1. WatcherTypeOK /\ Tree /\ Known /\ Program /\ Searched /\ ScanFollows /\ Present /\ Running
  BY DEF HandInv
<1>2. /\ f \in Paths \ {Root} /\ "write" \in Ops /\ events \in Seq(Events)
      /\ Event("write", f) \/ UNCHANGED events
  BY <1>1 DEF Paths, ChangeFile, NoEvent, EventLost, Ops, WatcherTypeOK, Events
<1>3. events' \in Seq(Events) /\ Notified \subseteq Notified' /\ Notified' \subseteq Notified \cup {e}
      /\ (Event("write", f) => e \in Notified')
  BY <1>2, EventIs
<1>4. Created' = Created
  BY <1>3 DEF Created
<1>5. PICK s \in 1..MaxSize : size' = [size EXCEPT ![f] = s]
  BY DEF ChangeFile
<1>6. revision' = [revision EXCEPT ![f] = @ + 1] /\ Parent[f] \in dirs /\ ~interrupted
      /\ UNCHANGED <<recursive, dirs, blind, removed, submitted, loopVars, timerVars, interrupted>>
  BY DEF ChangeFile
<1> USE DEF loopVars, timerVars
<1>7. WatcherTypeOK'
  <2>1. size' \in [LocalFiles -> 0..MaxSize] /\ revision' \in [LocalFiles -> Nat]
    BY <1>1, <1>5, <1>6 DEF WatcherTypeOK
  <2>2. missed' \subseteq LocalFiles /\ faults' \in Nat
    BY <1>1 DEF WatcherTypeOK, ChangeFile, Event, NoEvent, EventLost, Fault
  <2>3. QED
    BY <1>1, <1>3, <1>6, <2>1, <2>2 DEF WatcherTypeOK, Events
<1>8. Tree'
  BY <1>1, <1>5, <1>6 DEF Tree, WatcherTypeOK
<1>9. Known'
  BY <1>1, <1>3, <1>6 DEF Known, Walked
<1>10. Program' /\ Searched' /\ ScanFollows' /\ Running'
  BY <1>1, <1>4, <1>6 DEF Program, Searched, ScanFollows, Running, Walked
<1>11. Present'
  <2>1. revision'[f] # 0 /\ \A g \in LocalFiles : g = f \/ revision'[g] = revision[g]
    BY <1>1, <1>6 DEF WatcherTypeOK
  <2>2. \A g \in LocalFiles : size'[g] > 0 \/ size'[g] = size[g]
    BY <1>1, <1>5 DEF WatcherTypeOK
  <2>3. size'[f] > 0
    BY <1>1, <1>5 DEF WatcherTypeOK
  <2>4. \A g \in LocalFiles : [op |-> "remove", name |-> g] \notin Notified
                                => [op |-> "remove", name |-> g] \notin Notified'
    BY <1>3
  <2>5. /\ removed' = removed /\ submitted' = submitted /\ pending' = pending
        /\ orphans' = orphans /\ cb' = cb
    BY <1>6
  <2>6. \A g \in LocalFiles : revision'[g] = 0 => revision[g] = 0
    BY <2>1
  <2>7. \A g \in LocalFiles : revision'[g] > 0 /\ ~(size'[g] > 0) => revision[g] > 0 /\ ~(size[g] > 0)
    BY <2>1, <2>2, <2>3
  <2>8. QED
    <3> HIDE DEF e
    <3> SUFFICES ASSUME NEW g \in LocalFiles
                 PROVE  /\ revision'[g] = 0 => submitted[g] = 0
                        /\ g \notin removed =>
                              /\ revision'[g] > 0 => size'[g] > 0
                              /\ pending[g] # "none" \/ orphans[g] > 0 => size'[g] > 0
                              /\ \A c \in Callbacks : cb[c].file = g =>
                                    size'[g] > 0 /\ (cb[c].at = "decide" => cb[c].size > 0)
                              /\ [op |-> "remove", name |-> g] \notin Notified'
      BY <2>5 DEF Present
    <3>1. /\ revision[g] = 0 => submitted[g] = 0
          /\ g \notin removed =>
                /\ revision[g] > 0 => size[g] > 0
                /\ pending[g] # "none" \/ orphans[g] > 0 => size[g] > 0
                /\ \A c \in Callbacks : cb[c].file = g =>
                      size[g] > 0 /\ (cb[c].at = "decide" => cb[c].size > 0)
                /\ [op |-> "remove", name |-> g] \notin Notified
      BY <1>1 DEF Present
    <3>2. size'[g] > 0 \/ size'[g] = size[g]
      BY <2>2
    <3>3. revision'[g] = 0 => revision[g] = 0
      BY <2>6
    <3>4. revision'[g] > 0 /\ ~(size'[g] > 0) => revision[g] > 0 /\ ~(size[g] > 0)
      BY <2>7
    <3>5. [op |-> "remove", name |-> g] \notin Notified => [op |-> "remove", name |-> g] \notin Notified'
      BY <2>4
    <3>6. g \notin removed => (pending[g] # "none" \/ orphans[g] > 0 => size'[g] > 0)
      BY <3>1, <3>2
    <3>7. g \notin removed => \A c \in Callbacks : cb[c].file = g =>
                                  size'[g] > 0 /\ (cb[c].at = "decide" => cb[c].size > 0)
      BY <3>1, <3>2
    <3>8. QED
      BY <3>1, <3>3, <3>4, <3>5, <3>6, <3>7
<1>12. ChangesInHand'
  <2> SUFFICES ASSUME NEW g \in LocalFiles, Answers(g)', g \notin removed', submitted'[g] # revision'[g]
               PROVE  Tended(g)' \/ Ahead(g)'
    BY DEF ChangesInHand
  <2>1. CASE g # f
    <3>1. Answers(g) /\ submitted[g] # revision[g] /\ g \notin removed
      BY <1>1, <1>6, <2>1 DEF Answers, ChangeFile, WatcherTypeOK
    <3>2. Tended(g) \/ Ahead(g)
      BY <3>1 DEF HandInv, ChangesInHand
    <3>3. QED
      BY <1>3, <1>4, <1>6, <3>2 DEF Tended, Ahead
  <2>2. CASE g = f
    <3>1. f \notin missed'
      BY <2>2 DEF Answers
    <3>2. Event("write", f) \/ (~Watched(f) /\ ~Unseen(f))
      BY <3>1 DEF ChangeFile
    <3>3. CASE Event("write", f)
      BY <1>3, <2>2, <3>3 DEF Tended
    <3>4. CASE ~Watched(f) /\ ~Unseen(f)
      <4>1. CASE recursive
        <5>1. Ahead(f)
          BY <1>6, <3>4, <4>1, UnwatchedIsAhead DEF Watched
        <5>2. QED
          BY <1>4, <1>6, <2>2, <5>1 DEF Ahead
      <4>2. CASE ~recursive
        <5>1. Parent[f] = Root /\ f \in Below[Root]
          BY <1>2, <1>6, <2>2, <4>2 DEF Answers
        <5>2. Root \in watched \cup blind
          BY <1>1, <3>4 DEF Program, WatcherTypeOK, Unseen
        <5>3. QED
          BY <3>4, <5>1, <5>2 DEF Watched, Unseen
      <4>3. QED
        BY <4>1, <4>2
    <3>5. QED
      BY <3>2, <3>3, <3>4
  <2>3. QED
    BY <2>1, <2>2
<1>13. QED
  BY <1>7, <1>8, <1>9, <1>10, <1>11, <1>12 DEF HandInv

LEMMA RemoveKeeps == ASSUME HandInv, NEW f \in LocalFiles, Remove(f) PROVE HandInv'
<1> USE WatcherAssumption
<1> DEFINE e == [op |-> "remove", name |-> f]
<1>1. WatcherTypeOK /\ Tree /\ Known /\ Program /\ Searched /\ ScanFollows /\ Present /\ Running
  BY DEF HandInv
<1>2. /\ f \in Paths \ {Root} /\ "remove" \in Ops /\ events \in Seq(Events) /\ faults' \in Nat
      /\ Event("remove", f) \/ UNCHANGED events
  BY <1>1 DEF Paths, Remove, Event, NoEvent, EventLost, Fault, Ops, WatcherTypeOK, Events
<1>3. events' \in Seq(Events) /\ Notified \subseteq Notified' /\ Notified' \subseteq Notified \cup {e}
  BY <1>2, EventIs
<1>4. Created' = Created
  BY <1>3 DEF Created
<1>5. size' = [size EXCEPT ![f] = 0] /\ removed' = removed \cup {f}
      /\ UNCHANGED <<recursive, dirs, revision, missed, blind, submitted, loopVars, timerVars, interrupted>>
  BY DEF Remove
<1> USE DEF loopVars, timerVars
<1>6. \A g \in LocalFiles : g = f \/ size'[g] = size[g]
  BY <1>1, <1>5 DEF WatcherTypeOK
<1>7. WatcherTypeOK'
  <2>1. size' \in [LocalFiles -> 0..MaxSize]
    BY <1>1, <1>5 DEF WatcherTypeOK
  <2>2. QED
    BY <1>1, <1>2, <1>3, <1>5, <2>1 DEF WatcherTypeOK, Events
<1>8. Tree'
  BY <1>1, <1>5, <1>6 DEF Tree, WatcherTypeOK
<1>9. Known'
  BY <1>1, <1>3, <1>5 DEF Known, Walked
<1>10. Program' /\ Searched' /\ ScanFollows' /\ Running'
  BY <1>1, <1>4, <1>5 DEF Program, Searched, ScanFollows, Running, Walked
<1>11. Present'
  <2>1. /\ submitted' = submitted /\ revision' = revision /\ pending' = pending
        /\ orphans' = orphans /\ cb' = cb
    BY <1>5
  <2>2. \A g \in LocalFiles : g \notin removed' => size'[g] = size[g] /\ g \notin removed
    BY <1>5, <1>6
  <2>3. \A g \in LocalFiles : g \notin removed' /\ [op |-> "remove", name |-> g] \notin Notified
                                => [op |-> "remove", name |-> g] \notin Notified'
    BY <1>3, <1>5
  <2>4. QED
    BY <1>1, <2>1, <2>2, <2>3 DEF Present
<1>12. ChangesInHand'
  BY <1>3, <1>4, <1>5, StillInHand DEF HandInv, Tended, Ahead
<1>13. QED
  BY <1>7, <1>8, <1>9, <1>10, <1>11, <1>12 DEF HandInv

LEMMA MkdirKeeps == ASSUME HandInv, NEW d \in Dirs \ {Root}, Mkdir(d) PROVE HandInv'
<1> USE WatcherAssumption
<1> DEFINE e == [op |-> "create", name |-> d]
<1>1. WatcherTypeOK /\ Tree /\ Known /\ Program /\ Searched /\ ScanFollows /\ Present /\ Running
  BY DEF HandInv
<1>2. /\ d \in Paths \ {Root} /\ "create" \in Ops /\ events \in Seq(Events) /\ faults' \in Nat
      /\ Event("create", d) \/ UNCHANGED events
  BY <1>1 DEF Paths, Mkdir, Event, NoEvent, EventLost, Fault, Ops, WatcherTypeOK, Events
<1>3. events' \in Seq(Events) /\ Notified \subseteq Notified' /\ Notified' \subseteq Notified \cup {e}
      /\ (Event("create", d) => e \in Notified')
  BY <1>2, EventIs
<1>4. /\ Created \subseteq Created' /\ blind \subseteq blind' /\ blind' \subseteq blind \cup {d}
      /\ Watched(d) => d \in Created' \cup blind'
  BY <1>3 DEF Created, Mkdir
<1>5. dirs' = dirs \cup {d} /\ Parent[d] \in dirs /\ ~interrupted
      /\ UNCHANGED <<recursive, size, revision, missed, removed, submitted, loopVars, timerVars, interrupted>>
  BY DEF Mkdir
<1> USE DEF loopVars, timerVars
<1>6. WatcherTypeOK'
  BY <1>1, <1>2, <1>3, <1>4, <1>5 DEF WatcherTypeOK, Events
<1>7. Tree'
  BY <1>1, <1>5 DEF Tree
<1>8. Known'
  BY <1>1, <1>3, <1>5 DEF Known, Walked
<1>9. Program' /\ ScanFollows' /\ Running'
  BY <1>1, <1>4, <1>5 DEF Program, ScanFollows, Running, Walked
<1>10. Searched'
  <2> SUFFICES ASSUME recursive, mainAt \notin {"scanAll", "done"}, NEW x \in dirs' \ watched
               PROVE  \E p \in Created' \cup Walked \cup blind' : x \in Below[p]
    BY <1>5 DEF Searched, Walked
  <2>1. CASE x \in dirs
    BY <1>1, <1>4, <2>1 DEF Searched
  <2>2. CASE x = d /\ Watched(d)
    BY <1>2, <1>4, <2>2, BelowSelf
  <2>3. CASE x = d /\ ~Watched(d)
    <3>1. PICK p \in Created \cup Walked \cup blind : Parent[d] \in Below[p]
      BY <1>1, <1>5, <2>3 DEF Searched, Watched
    <3>2. p \in Paths
      BY <1>1 DEF Created, Walked, Paths, WatcherTypeOK
    <3>3. d \in Below[p]
      BY <1>2, <3>1, <3>2, BelowChild
    <3>4. QED
      BY <1>4, <2>3, <3>1, <3>3
  <2>4. QED
    BY <1>5, <2>1, <2>2, <2>3
<1>11. Present'
  <2>1. \A g \in LocalFiles : [op |-> "remove", name |-> g] \notin Notified
                                => [op |-> "remove", name |-> g] \notin Notified'
    BY <1>3
  <2>2. QED
    BY <1>1, <1>5, <2>1 DEF Present
<1>12. ChangesInHand'
  BY <1>3, <1>4, <1>5, StillInHand DEF HandInv, Tended, Ahead
<1>13. QED
  BY <1>6, <1>7, <1>8, <1>9, <1>10, <1>11, <1>12 DEF HandInv

LEMMA InterruptKeeps == ASSUME HandInv, InterruptWatcher PROVE HandInv'
<1>1. UNCHANGED <<recursive, diskVars, submitted, events, loopVars, timerVars>> /\ interrupted' = TRUE
  BY DEF InterruptWatcher
<1>2. Notified' = Notified /\ Created' = Created /\ Walked' = Walked
  BY <1>1 DEF Notified, Created, Walked, loopVars
<1>3. ChangesInHand'
  BY <1>1 DEF ChangesInHand, Answers
<1>4. QED
  BY <1>1, <1>2, <1>3 DEF HandInv, WatcherTypeOK, Tree, Known, Program, Searched, ScanFollows, Present,
       Running, diskVars, loopVars, timerVars

-----------------------------------------------------------------------------
(* The walks *)

\* A walk handles no event and no timer.
WalkRest == UNCHANGED <<recursive, dirs, size, revision, removed, events, timerVars, interrupted>>

LEMMA WalkKeeps ==
    ASSUME HandInv, WalkRest, WatcherTypeOK', Walked' \subseteq dirs, scan' \cap Dirs \subseteq dirs,
           Program', Searched', ScanFollows', ChangesInHand',
           \A f \in LocalFiles : revision[f] = 0 => submitted'[f] = 0
    PROVE  HandInv'
<1>1. Notified' = Notified
  BY DEF WalkRest, Notified
<1>2. QED
  BY <1>1 DEF HandInv, WalkRest, timerVars, Tree, Known, Present, Running

LEMMA AddDirKeeps == ASSUME HandInv, AddDirStep PROVE HandInv'
<1> USE WatcherAssumption
<1>1. WatcherTypeOK /\ Tree /\ Known /\ Program /\ Searched /\ ScanFollows /\ dirs \subseteq Dirs
  BY DEF HandInv, WatcherTypeOK
<1>2. mainAt \in {"addRoot", "addNew"}
      /\ UNCHANGED <<recursive, dirs, size, revision, missed, removed, submitted, events, scan, timerVars,
                     interrupted>>
  BY DEF AddDirStep
<1>3. WalkRest /\ Notified' = Notified /\ Created' = Created
  BY <1>2 DEF WalkRest, Notified, Created
<1>4. ChangesInHand'
  BY <1>2, <1>3, StillInHand DEF HandInv, Tended, Ahead, timerVars
<1>5. ASSUME NEW d \in Dirs, AddDir(d) \/ AddDirFails(d) PROVE HandInv'
  <2>0. /\ <<d, "add">> \in todo
        /\ todo' = (todo \ {<<d, "add">>}) \cup IF recursive THEN {<<d, "read">>} ELSE {}
        /\ watched \subseteq watched' /\ blind \subseteq blind'
        /\ watched' \subseteq watched \cup {d} /\ blind' \subseteq blind \cup {d} /\ d \in watched' \cup blind'
        /\ mainAt' = mainAt \/ (~recursive /\ mainAt' = "done")
        /\ faults' \in Nat
    BY <1>1, <1>5 DEF AddDir, AddDirFails, Fault, WatcherTypeOK
  <2>1. d \in dirs
    BY <1>1, <2>0 DEF Known, Walked
  <2>2. WatcherTypeOK'
    BY <1>1, <1>2, <2>0, <2>1 DEF WatcherTypeOK, timerVars
  <2>3. Walked' \subseteq Walked /\ (recursive => Walked \subseteq Walked')
    BY <2>0 DEF Walked
  <2>4. Walked' \subseteq dirs /\ scan' \cap Dirs \subseteq dirs
    BY <1>1, <1>2, <2>3 DEF Known
  <2>5. Program'
    BY <1>1, <1>2, <2>0 DEF Program
  <2>6. Searched'
    BY <1>1, <1>2, <1>3, <2>0, <2>3 DEF Searched
  <2>7. ScanFollows'
    BY <1>1, <1>2, <2>0, <2>3 DEF ScanFollows
  <2>8. QED
    BY <1>2, <1>3, <1>4, <2>2, <2>4, <2>5, <2>6, <2>7, WalkKeeps DEF HandInv, Present
<1>6. ASSUME NEW d \in Dirs, ReadDir(d) PROVE HandInv'
  <2>0. PICK found \in SUBSET Subdirs(d) :
           /\ <<d, "read">> \in todo
           /\ todo' = (todo \ {<<d, "read">>}) \cup {<<e, "add">> : e \in found}
           /\ UNCHANGED <<watched, mainAt>> /\ faults' \in Nat
           /\ blind \subseteq blind' /\ blind' \subseteq blind \cup {d}
           /\ found = Subdirs(d) \/ d \in blind'
    <3>1. faults \in Nat
      BY <1>1 DEF WatcherTypeOK
    <3>2. PICK found \in SUBSET Subdirs(d) :
             /\ todo' = (todo \ {<<d, "read">>}) \cup {<<e, "add">> : e \in found}
             /\ IF found = Subdirs(d) THEN UNCHANGED <<blind, faults>> ELSE Fault /\ blind' = blind \cup {d}
      BY <1>6 DEF ReadDir
    <3>3. <<d, "read">> \in todo /\ UNCHANGED <<watched, mainAt>>
      BY <1>6 DEF ReadDir
    <3>4. faults' \in Nat
      BY <3>1, <3>2 DEF Fault
    <3>5. QED
      BY <3>2, <3>3, <3>4
  <2>1. d \in dirs /\ d \in Walked /\ d \in watched \cup blind /\ d \in Paths
    BY <1>1, <2>0 DEF Known, Walked, Program, Paths
  <2>2. Subdirs(d) \subseteq dirs
    BY DEF Subdirs
  <2>3. WatcherTypeOK'
    <3>1. todo \subseteq Dirs \X {"add", "read"}
      BY <1>1 DEF WatcherTypeOK
    <3>2. todo' \subseteq Dirs \X {"add", "read"}
      BY <1>1, <2>0, <2>2, <3>1
    <3>3. QED
      BY <1>1, <1>2, <2>0, <3>2 DEF WatcherTypeOK, timerVars
  <2>4. /\ Walked' \subseteq Walked \cup Subdirs(d) /\ found \subseteq Walked'
        /\ Walked \subseteq Walked' \cup {d}
    BY <1>1, <2>0, <2>2 DEF Walked
  <2>5. Walked' \subseteq dirs /\ scan' \cap Dirs \subseteq dirs
    BY <1>1, <1>2, <2>2, <2>4 DEF Known
  <2>6. Program'
    BY <1>1, <1>2, <2>0 DEF Program
  <2>7. Searched'
    <3> SUFFICES ASSUME recursive, NEW x \in dirs \ watched
                 PROVE  \E p \in Created \cup Walked' \cup blind' : x \in Below[p]
      BY <1>2, <1>3, <2>0 DEF Searched
    <3>1. PICK p \in Created \cup Walked \cup blind : x \in Below[p]
      BY <1>1, <1>2 DEF Searched
    <3>2. CASE p # d \/ p \in Created \cup blind'
      BY <2>0, <2>4, <3>1, <3>2
    <3>3. CASE p = d /\ d \notin blind'
      <4>1. x # d /\ x \notin LocalFiles /\ found = Subdirs(d)
        BY <1>1, <2>0, <2>1, <3>3
      <4>2. PICK q \in Subdirs(d) : x \in Below[q]
        BY <1>1, <3>1, <3>3, <4>1, NextBelow DEF FilesOf
      <4>3. QED
        BY <2>4, <4>1, <4>2
    <3>4. QED
      BY <3>2, <3>3
  <2>8. ScanFollows'
    <3> SUFFICES ASSUME mainAt = "addNew", NEW x \in Walked' PROVE \E p \in scan : x \in Below[p]
      BY <1>2, <2>0 DEF ScanFollows
    <3>1. CASE x \in Walked
      BY <1>1, <3>1 DEF ScanFollows
    <3>2. CASE x \in Subdirs(d)
      <4>1. PICK p \in scan : d \in Below[p]
        BY <1>1, <2>1 DEF ScanFollows
      <4>2. p \in Paths /\ x \in Paths \ {Root} /\ Parent[x] = d
        BY <1>1, <3>2 DEF WatcherTypeOK, Subdirs, Paths
      <4>3. QED
        BY <4>1, <4>2, BelowChild
    <3>3. QED
      BY <2>4, <3>1, <3>2
  <2>9. QED
    BY <1>2, <1>3, <1>4, <2>3, <2>5, <2>6, <2>7, <2>8, WalkKeeps DEF HandInv, Present
<1>7. QED
  BY <1>5, <1>6 DEF AddDirStep

LEMMA WalksEndKeeps ==
    ASSUME HandInv, AddRootDone \/ AddNewDone \/ ScanNewDone \/ ScanAllDone
    PROVE  HandInv'
<1> USE WatcherAssumption
<1>1. WatcherTypeOK /\ Tree /\ Known /\ Program /\ Searched /\ ScanFollows /\ dirs \subseteq Dirs
  BY DEF HandInv, WatcherTypeOK
<1>2. UNCHANGED <<recursive, diskVars, submitted, events, watched, scan, timerVars, interrupted>>
  BY DEF AddRootDone, AddNewDone, ScanNewDone, ScanAllDone
<1>3. WalkRest /\ Notified' = Notified /\ Created' = Created
  BY <1>2 DEF WalkRest, Notified, Created, diskVars
<1>4. ChangesInHand'
  BY <1>2, <1>3, StillInHand DEF HandInv, Tended, Ahead, diskVars, timerVars
<1>5. \A f \in LocalFiles : revision[f] = 0 => submitted'[f] = 0
  BY <1>2 DEF HandInv, Present
<1>6. CASE AddRootDone \/ AddNewDone \/ ScanNewDone
  <2>1. todo' = todo /\ Walked' = Walked
    BY <1>6 DEF AddRootDone, AddNewDone, ScanNewDone, Walked
  <2>2. WatcherTypeOK'
    BY <1>1, <1>2, <1>6, <2>1 DEF WatcherTypeOK, diskVars, timerVars, AddRootDone, AddNewDone, ScanNewDone
  <2>3. Program'
    BY <1>1, <1>2, <1>6, <2>1 DEF Program, diskVars, AddRootDone, AddNewDone, ScanNewDone
  <2>4. Searched'
    BY <1>1, <1>2, <1>3, <1>6, <2>1 DEF Searched, diskVars, AddRootDone, AddNewDone, ScanNewDone
  <2>5. ScanFollows'
    BY <1>6 DEF ScanFollows, AddRootDone, AddNewDone, ScanNewDone
  <2>6. Walked' \subseteq dirs /\ scan' \cap Dirs \subseteq dirs
    BY <1>1, <1>2, <2>1 DEF Known
  <2>7. QED
    BY <1>3, <1>4, <1>5, <2>2, <2>3, <2>4, <2>5, <2>6, WalkKeeps
<1>7. CASE ScanAllDone
  <2>1. mainAt' = "addRoot" /\ todo' = {<<Root, "add">>} /\ scan = {}
    BY <1>7 DEF ScanAllDone
  <2>2. WatcherTypeOK'
    BY <1>1, <1>2, <2>1 DEF WatcherTypeOK, diskVars, timerVars
  <2>3. Walked' = {Root}
    BY <2>1 DEF Walked
  <2>4. Program'
    BY <1>1, <1>2, <2>1 DEF Program
  <2>5. Searched'
    BY <1>1, <1>2, <2>3 DEF Searched, Paths, diskVars
  <2>6. ScanFollows'
    BY <2>1 DEF ScanFollows
  <2>7. Walked' \subseteq dirs /\ scan' \cap Dirs \subseteq dirs
    BY <1>1, <1>2, <2>3 DEF Known, Tree
  <2>8. QED
    BY <1>3, <1>4, <1>5, <2>2, <2>4, <2>5, <2>6, <2>7, WalkKeeps
<1>8. QED
  BY <1>6, <1>7

LEMMA ScanKeeps == ASSUME HandInv, ScanStep PROVE HandInv'
<1> USE WatcherAssumption
<1>1. /\ WatcherTypeOK /\ Tree /\ Known /\ Program /\ Searched /\ ScanFollows /\ Present
      /\ ChangesInHand /\ dirs \subseteq Dirs
  BY DEF HandInv, WatcherTypeOK
<1>2. mainAt \in {"scanAll", "scanNew"}
      /\ UNCHANGED <<recursive, events, watched, mainAt, todo, timerVars, interrupted>>
  BY DEF ScanStep
<1>3. UNCHANGED <<dirs, size, revision, blind, removed>> /\ faults' \in Nat
  BY <1>1 DEF ScanStep, ScanDir, Fault, diskVars, Submit, WatcherTypeOK
<1>4. WalkRest /\ Notified' = Notified /\ Created' = Created /\ Walked' = Walked
  BY <1>2, <1>3 DEF WalkRest, Notified, Created, Walked
<1>5. Program' /\ Searched' /\ ScanFollows'
  BY <1>1, <1>2, <1>3, <1>4 DEF Program, Searched, ScanFollows
<1>6. SUFFICES /\ scan' \subseteq Paths /\ scan' \cap Dirs \subseteq dirs
               /\ submitted' \in [LocalFiles -> Nat] /\ missed' \subseteq LocalFiles
               /\ ChangesInHand'
               /\ \A f \in LocalFiles : revision[f] = 0 => submitted'[f] = 0
  BY <1>1, <1>2, <1>3, <1>4, <1>5, WalkKeeps DEF WatcherTypeOK, Known, timerVars
<1>7. PICK x \in scan :
          \/ interrupted /\ scan' = {} /\ UNCHANGED <<diskVars, submitted>>
          \/ ~interrupted /\ x \in Dirs /\ ScanDir(x)
          \/ ~interrupted /\ x \notin Dirs /\ scan' = scan \ {x} /\ Submit(x)
  BY DEF ScanStep
<1>8. CASE interrupted
  <2>1. ChangesInHand'
    BY <1>2, <1>8 DEF ChangesInHand, Answers
  <2>2. QED
    BY <1>1, <1>7, <1>8, <2>1 DEF WatcherTypeOK, Present, diskVars
<1>9. CASE ~interrupted /\ x \in Dirs
  <2> DEFINE entries == FilesOf(x) \cup IF recursive THEN Subdirs(x) ELSE {}
  <2>1. PICK found \in SUBSET entries :
           /\ scan' = (scan \ {x}) \cup found
           /\ missed' = missed \cup {f \in LocalFiles : \E p \in entries \ found : f \in Below[p]}
           /\ UNCHANGED <<dirs, size, revision, blind, removed, submitted>>
    BY <1>7, <1>9 DEF ScanDir
  <2>2. FilesOf(x) \subseteq LocalFiles /\ Subdirs(x) \subseteq dirs
    BY DEF FilesOf, Subdirs
  <2>3. ChangesInHand'
    <3>1. ASSUME NEW f \in LocalFiles, f \notin removed, f \notin missed', submitted[f] # revision[f], Ahead(f)
          PROVE  Ahead(f)'
      <4>1. size[f] > 0
        <5>1. revision[f] # 0 /\ revision[f] \in Nat
          BY <1>1, <3>1 DEF Present, WatcherTypeOK
        <5>2. revision[f] > 0
          BY <5>1
        <5>3. QED
          BY <1>1, <3>1, <5>2 DEF Present
      <4>2. CASE f \in scan
        BY <1>9, <2>1, <4>2 DEF Ahead
      <4>3. CASE f \notin scan
        <5>1. recursive
          BY <3>1, <4>3 DEF Ahead
        <5>2. PICK p \in scan \cup Created : f \in Below[p]
          BY <3>1, <4>3 DEF Ahead
        <5>3. CASE p # x \/ p \in Created
          BY <1>2, <1>4, <2>1, <5>1, <5>2, <5>3 DEF Ahead
        <5>4. CASE p = x
          <6>1. f # x /\ f \notin dirs
            BY <1>1, <1>9
          <6>2. f \in FilesOf(x) \/ \E q \in Subdirs(x) : f \in Below[q]
            BY <1>1, <1>9, <4>1, <5>2, <5>4, <6>1, NextBelow
          <6>3. PICK q \in entries : f \in Below[q]
            BY <5>1, <6>2, BelowSelf DEF Paths
          <6>4. q \in found
            BY <2>1, <3>1, <6>3
          <6>5. QED
            BY <1>2, <2>1, <5>1, <6>3, <6>4 DEF Ahead
        <5>5. QED
          BY <5>3, <5>4
      <4>4. QED
        BY <4>2, <4>3
    <3>2. QED
      BY <1>1, <1>2, <1>3, <1>4, <2>1, <3>1, StillInHand DEF Tended, timerVars
  <2>4. QED
    BY <1>1, <2>1, <2>2, <2>3 DEF WatcherTypeOK, Known, Present, Paths
<1>10. CASE ~interrupted /\ x \notin Dirs
  <2>1. x \in LocalFiles
    BY <1>1, <1>10 DEF WatcherTypeOK, Paths
  <2>2. scan' = scan \ {x} /\ Submit(x)
    BY <1>7, <1>10
  <2>3. submitted' = [submitted EXCEPT ![x] = revision[x]] /\ missed' = missed \ {x}
    BY <2>2 DEF Submit
  <2>4. submitted' \in [LocalFiles -> Nat] /\ submitted'[x] = revision[x]
        /\ \A g \in LocalFiles : g = x \/ submitted'[g] = submitted[g]
    BY <1>1, <2>1, <2>3 DEF WatcherTypeOK
  <2>5. ChangesInHand'
    <3> SUFFICES ASSUME NEW g \in LocalFiles, Answers(g)', g \notin removed', submitted'[g] # revision'[g]
                 PROVE  Tended(g)' \/ Ahead(g)'
      BY DEF ChangesInHand
    <3>1. g # x /\ Answers(g) /\ g \notin removed /\ submitted[g] # revision[g]
      BY <1>2, <1>3, <2>3, <2>4 DEF Answers
    <3>2. Tended(g) \/ Ahead(g)
      BY <1>1, <3>1 DEF ChangesInHand
    <3>3. CASE Tended(g)
      BY <1>2, <1>4, <3>3 DEF Tended, timerVars
    <3>4. CASE Ahead(g)
      <4>1. g \notin Below[x]
        BY <2>1, <3>1, FileIsLeaf
      <4>2. QED
        BY <1>2, <1>4, <2>2, <3>1, <3>4, <4>1 DEF Ahead
    <3>5. QED
      BY <3>2, <3>3, <3>4
  <2>6. QED
    BY <1>1, <2>2, <2>3, <2>4, <2>5 DEF WatcherTypeOK, Known, Present
<1>11. QED
  BY <1>8, <1>9, <1>10

-----------------------------------------------------------------------------
(* Timers and callbacks *)

Callback == [file : LocalFiles \cup {Nothing}, at : {"idle", "stat", "decide", "submit"}, size : 0..MaxSize]

\* Timers read the disk and the map of timers, and may submit a file.
TimerRest ==
    /\ UNCHANGED <<recursive, dirs, size, revision, blind, faults, removed, events, loopVars, interrupted>>
    /\ pending' \in [LocalFiles -> {"none", "armed", "fired"}] /\ orphans' \in [LocalFiles -> Nat]
    /\ lastSize' \in [LocalFiles -> 0..MaxSize] /\ cb' \in [Callbacks -> Callback]

\* What Present says of the timers of file f.
TimersPresent(f) ==
    f \notin removed =>
        /\ pending[f] # "none" \/ orphans[f] > 0 => size[f] > 0
        /\ \A c \in Callbacks : cb[c].file = f =>
              size[f] > 0 /\ (cb[c].at = "decide" => cb[c].size > 0)

LEMMA TimerKeeps ==
    ASSUME HandInv, TimerRest,
           submitted' \in [LocalFiles -> Nat], missed' \subseteq missed,
           \A f \in LocalFiles : submitted'[f] \in {submitted[f], revision[f]},
           \A f \in LocalFiles : TimersPresent(f)',
           Running', ChangesInHand'
    PROVE  HandInv'
<1>1. Notified' = Notified /\ Created' = Created /\ Walked' = Walked
  BY DEF TimerRest, Notified, Created, Walked, loopVars
<1>2. WatcherTypeOK'
  BY DEF HandInv, TimerRest, WatcherTypeOK, loopVars, Callback
<1>3. Tree' /\ Known' /\ Program' /\ Searched' /\ ScanFollows'
  BY <1>1 DEF HandInv, TimerRest, Tree, Known, Program, Searched, ScanFollows, loopVars
<1>4. Present'
  BY <1>1 DEF HandInv, TimerRest, Present, TimersPresent
<1>5. QED
  BY <1>2, <1>3, <1>4 DEF HandInv

LEMMA PresentTimers == ASSUME HandInv, NEW f \in LocalFiles PROVE TimersPresent(f)
BY DEF HandInv, Present, TimersPresent

\* A callback changes to r, and what it leaves to others is still to be had.
LEMMA CallbackIs ==
    ASSUME HandInv, NEW c \in Callbacks, NEW r \in Callback, cb' = [cb EXCEPT ![c] = r]
    PROVE  /\ cb' \in [Callbacks -> Callback] /\ cb'[c] = r
           /\ \A d \in Callbacks : d = c \/ cb'[d] = cb[d]
BY DEF HandInv, WatcherTypeOK, Callback

LEMMA FireKeeps == ASSUME HandInv, NEW f \in LocalFiles, NEW c \in Callbacks, Fire(f, c) PROVE HandInv'
<1> USE WatcherAssumption
<1> DEFINE r == [file |-> f, at |-> "stat", size |-> 0]
<1>1. WatcherTypeOK /\ Running
  BY DEF HandInv
<1>2. cb[c] = Idle /\ cb' = [cb EXCEPT ![c] = r]
      /\ UNCHANGED <<recursive, diskVars, submitted, events, loopVars, lastSize, interrupted>>
  BY DEF Fire
<1>3. r \in Callback
  BY DEF Callback
<1>4. cb' \in [Callbacks -> Callback] /\ cb'[c] = r /\ \A d \in Callbacks : d = c \/ cb'[d] = cb[d]
  BY <1>2, <1>3, CallbackIs
<1>5. \/ pending[f] = "armed" /\ pending' = [pending EXCEPT ![f] = "fired"] /\ UNCHANGED orphans
      \/ orphans[f] > 0 /\ orphans' = [orphans EXCEPT ![f] = @ - 1] /\ UNCHANGED pending
  BY DEF Fire
<1>6. /\ pending' \in [LocalFiles -> {"none", "armed", "fired"}] /\ orphans' \in [LocalFiles -> Nat]
      /\ \A g \in LocalFiles : g = f \/ (pending'[g] = pending[g] /\ orphans'[g] = orphans[g])
  <2>1. pending \in [LocalFiles -> {"none", "armed", "fired"}] /\ orphans \in [LocalFiles -> Nat]
    BY <1>1 DEF WatcherTypeOK
  <2>2. CASE pending' = [pending EXCEPT ![f] = "fired"] /\ UNCHANGED orphans
    BY <2>1, <2>2
  <2>3. CASE orphans[f] > 0 /\ orphans' = [orphans EXCEPT ![f] = @ - 1] /\ UNCHANGED pending
    <3>1. orphans[f] - 1 \in Nat
      BY <2>1, <2>3
    <3>2. QED
      BY <2>1, <2>3, <3>1
  <2>4. QED
    BY <1>5, <2>2, <2>3
<1>7. cb[c].file = Nothing
  BY <1>2 DEF Idle
<1>8. TimerRest
  BY <1>1, <1>2, <1>4, <1>6 DEF TimerRest, WatcherTypeOK, diskVars
<1>9. ASSUME NEW g \in LocalFiles PROVE TimersPresent(g)'
  <2>1. TimersPresent(g)
    BY PresentTimers
  <2>2. CASE g # f
    BY <1>2, <1>4, <1>6, <2>1, <2>2 DEF TimersPresent, diskVars
  <2>3. CASE g = f
    BY <1>2, <1>4, <1>5, <2>1, <2>3 DEF TimersPresent, diskVars
  <2>4. QED
    BY <2>2, <2>3
<1>10. Running'
  BY <1>1, <1>4 DEF Running
<1>11. ChangesInHand'
  <2>1. Notified' = Notified /\ Created' = Created
    BY <1>2 DEF Notified, Created
  <2>2. \A g \in LocalFiles : Ahead(g) => Ahead(g)'
    BY <1>2, <2>1 DEF Ahead, loopVars
  <2>3. Tended(f)'
    BY <1>4 DEF Tended
  <2>4. \A g \in LocalFiles : g # f /\ Tended(g) => Tended(g)'
    BY <1>4, <1>6, <1>7, <2>1 DEF Tended
  <2>5. QED
    BY <1>2, <2>2, <2>3, <2>4, StillInHand DEF HandInv, diskVars
<1>12. \A g \in LocalFiles : TimersPresent(g)'
  BY <1>9
<1>13. submitted' = submitted /\ missed' = missed /\ submitted \in [LocalFiles -> Nat]
  BY <1>1, <1>2 DEF WatcherTypeOK, diskVars
<1>14. QED
  BY <1>8, <1>10, <1>11, <1>12, <1>13, TimerKeeps

LEMMA StatKeeps == ASSUME HandInv, NEW c \in Callbacks, MaybeUploadStat(c) PROVE HandInv'
<1> USE WatcherAssumption
<1>1. WatcherTypeOK /\ Running
  BY DEF HandInv
<1>2. cb[c].at = "stat"
      /\ UNCHANGED <<recursive, diskVars, submitted, events, loopVars, pending, orphans, lastSize, interrupted>>
  BY DEF MaybeUploadStat
<1>3. cb[c].file \in LocalFiles /\ cb[c] \in Callback
  BY <1>1, <1>2 DEF Running, WatcherTypeOK, Callback
<1>4. Notified' = Notified /\ Created' = Created
  BY <1>2 DEF Notified, Created
<1>5. CASE interrupted
  <2>1. cb' = [cb EXCEPT ![c] = Idle] /\ Idle \in Callback
    BY <1>5 DEF MaybeUploadStat, Idle, Callback
  <2>2. cb' \in [Callbacks -> Callback] /\ cb'[c] = Idle /\ \A d \in Callbacks : d = c \/ cb'[d] = cb[d]
    BY <2>1, CallbackIs
  <2>3. TimerRest
    BY <1>1, <1>2, <2>2 DEF TimerRest, WatcherTypeOK, diskVars
  <2>4. \A f \in LocalFiles : TimersPresent(f)'
    BY <1>2, <2>2, PresentTimers DEF TimersPresent, Idle, diskVars
  <2>5. Running'
    BY <1>1, <2>2 DEF Running, Idle
  <2>6. ChangesInHand'
    BY <1>2, <1>5 DEF ChangesInHand, Answers
  <2>7. QED
    BY <1>1, <1>2, <2>3, <2>4, <2>5, <2>6, TimerKeeps DEF WatcherTypeOK, diskVars
<1>6. CASE ~interrupted
  <2> DEFINE f == cb[c].file
             r == [cb[c] EXCEPT !.at = "decide", !.size = size[f]]
  <2>1. size[f] \in 0..MaxSize
    BY <1>1, <1>3 DEF WatcherTypeOK
  <2>2. r \in Callback /\ r.at = "decide" /\ r.size = size[f] /\ r.file = f
    BY <1>3, <2>1 DEF Callback
  <2>3. cb' = [cb EXCEPT ![c] = r]
    BY <1>1, <1>6 DEF MaybeUploadStat, WatcherTypeOK
  <2>4. cb' \in [Callbacks -> Callback] /\ cb'[c] = r /\ \A d \in Callbacks : d = c \/ cb'[d] = cb[d]
    <3> HIDE DEF r
    <3>1. QED
      BY <2>2, <2>3, CallbackIs
  <2> HIDE DEF r
  <2>5. TimerRest
    BY <1>1, <1>2, <2>4 DEF TimerRest, WatcherTypeOK, diskVars
  <2>6. \A g \in LocalFiles : TimersPresent(g)'
    BY <1>2, <1>3, <2>2, <2>4, PresentTimers DEF TimersPresent, diskVars
  <2>7. Running'
    BY <1>1, <1>2, <2>2, <2>4 DEF Running
  <2>8. ChangesInHand'
    <3>1. \A d \in Callbacks : cb'[d].file = cb[d].file
      BY <2>2, <2>4
    <3>2. QED
      BY <1>2, <1>4, <3>1, StillInHand DEF HandInv, Tended, Ahead, diskVars, loopVars
  <2>9. QED
    BY <1>1, <1>2, <2>5, <2>6, <2>7, <2>8, TimerKeeps DEF WatcherTypeOK, diskVars
<1>7. QED
  BY <1>5, <1>6

\* A callback of file f goes to r, and leaves f to a timer or keeps it.
LEMMA OneFileKeeps ==
    ASSUME HandInv, NEW f \in LocalFiles, NEW c \in Callbacks, NEW r \in Callback,
           cb[c].file = f, cb' = [cb EXCEPT ![c] = r],
           r = Idle \/ (r.file = f /\ r.at = "submit"),
           UNCHANGED <<recursive, diskVars, submitted, events, loopVars, interrupted>>,
           pending' \in [LocalFiles -> {"none", "armed", "fired"}], orphans' \in [LocalFiles -> Nat],
           lastSize' \in [LocalFiles -> 0..MaxSize],
           \A g \in LocalFiles : g = f \/ (pending'[g] = pending[g] /\ orphans'[g] = orphans[g]),
           f \notin removed => pending'[f] = "armed" \/ orphans'[f] > 0 \/ r.file = f
    PROVE  HandInv'
<1> USE WatcherAssumption
<1>1. WatcherTypeOK /\ Running
  BY DEF HandInv
<1>2. cb' \in [Callbacks -> Callback] /\ cb'[c] = r /\ \A d \in Callbacks : d = c \/ cb'[d] = cb[d]
  BY CallbackIs
<1>3. Notified' = Notified /\ Created' = Created
  BY DEF Notified, Created
<1>4. r.file # Nothing <=> r.at # "idle"
  BY DEF Idle
<1>5. r.at # "decide" /\ (r.file = f \/ r.file = Nothing)
  BY DEF Idle
<1>6. TimerRest
  BY <1>2 DEF TimerRest, diskVars
<1>7. \A g \in LocalFiles : TimersPresent(g)'
  <2> SUFFICES ASSUME NEW g \in LocalFiles PROVE TimersPresent(g)'
    OBVIOUS
  <2>1. TimersPresent(g)
    BY PresentTimers
  <2>2. CASE g # f
    BY <1>2, <1>5, <2>1, <2>2 DEF TimersPresent, diskVars
  <2>3. CASE g = f
    <3>1. f \notin removed => size[f] > 0
      BY <2>1, <2>3 DEF TimersPresent
    <3>2. QED
      BY <1>2, <1>5, <2>1, <2>3, <3>1 DEF TimersPresent, diskVars
  <2>4. QED
    BY <2>2, <2>3
<1>8. Running'
  BY <1>1, <1>2, <1>4 DEF Running
<1>9. ChangesInHand'
  <2>1. \A g \in LocalFiles : Ahead(g) => Ahead(g)'
    BY <1>3 DEF Ahead, loopVars
  <2>2. f \notin removed => Tended(f)'
    BY <1>2 DEF Tended
  <2>3. \A g \in LocalFiles : g # f /\ Tended(g) => Tended(g)'
    BY <1>2, <1>3 DEF Tended
  <2>4. QED
    BY <2>1, <2>2, <2>3, StillInHand DEF HandInv, diskVars
<1>10. submitted' = submitted /\ missed' = missed /\ submitted \in [LocalFiles -> Nat]
  BY <1>1 DEF WatcherTypeOK, diskVars
<1>11. QED
  BY <1>6, <1>7, <1>8, <1>9, <1>10, TimerKeeps

LEMMA DecideKeeps == ASSUME HandInv, NEW c \in Callbacks, MaybeUploadDecide(c) PROVE HandInv'
<1> USE WatcherAssumption
<1>1. WatcherTypeOK /\ Running
  BY DEF HandInv
<1>2. cb[c].at = "decide"
      /\ UNCHANGED <<recursive, diskVars, submitted, events, loopVars, interrupted>>
  BY DEF MaybeUploadDecide, Gone, StillChanging, Stable
<1>3. PICK f \in LocalFiles : f = cb[c].file
  BY <1>1, <1>2 DEF Running, WatcherTypeOK
<1>4. cb[c] \in Callback /\ cb[c].size \in 0..MaxSize
  BY <1>1 DEF WatcherTypeOK, Callback
<1>5. f \notin removed => cb[c].size > 0
  BY <1>2, <1>3 DEF HandInv, Present
<1>6. /\ pending \in [LocalFiles -> {"none", "armed", "fired"}] /\ orphans \in [LocalFiles -> Nat]
      /\ lastSize \in [LocalFiles -> 0..MaxSize]
  BY <1>1 DEF WatcherTypeOK
<1>7. Idle \in Callback
  BY DEF Idle, Callback
<1>8. orphans' \in [LocalFiles -> Nat]
      /\ (orphans' = orphans \/ orphans' = [orphans EXCEPT ![f] = @ + 1])
  <2>1. orphans' = orphans \/ orphans' = [orphans EXCEPT ![f] = @ + 1]
    BY <1>3 DEF MaybeUploadDecide, Gone, Forget, StillChanging, Stable
  <2>2. QED
    BY <1>6, <2>1
<1>9. CASE Gone(c)
  <2>1. f \in removed
    BY <1>5, <1>9 DEF Gone
  <2>2. /\ pending' = [pending EXCEPT ![f] = "none"] /\ lastSize' = [lastSize EXCEPT ![f] = 0]
        /\ orphans' = orphans /\ cb' = [cb EXCEPT ![c] = Idle]
    BY <1>3, <1>9 DEF Gone, Forget
  <2>3. /\ pending' \in [LocalFiles -> {"none", "armed", "fired"}]
        /\ lastSize' \in [LocalFiles -> 0..MaxSize]
        /\ \A g \in LocalFiles : g = f \/ (pending'[g] = pending[g] /\ orphans'[g] = orphans[g])
    BY <1>6, <2>2
  <2>4. QED
    BY <1>2, <1>3, <1>7, <1>8, <2>1, <2>2, <2>3, OneFileKeeps
<1>10. CASE StillChanging(c)
  <2>1. /\ pending' = [pending EXCEPT ![f] = "armed"] /\ lastSize' = [lastSize EXCEPT ![f] = cb[c].size]
        /\ cb' = [cb EXCEPT ![c] = Idle]
    BY <1>3, <1>10 DEF StillChanging
  <2>2. /\ pending' \in [LocalFiles -> {"none", "armed", "fired"}] /\ pending'[f] = "armed"
        /\ lastSize' \in [LocalFiles -> 0..MaxSize]
        /\ \A g \in LocalFiles : g = f \/ (pending'[g] = pending[g] /\ orphans'[g] = orphans[g])
    BY <1>4, <1>6, <1>8, <2>1
  <2>3. QED
    BY <1>2, <1>3, <1>7, <1>8, <2>1, <2>2, OneFileKeeps
<1>11. CASE Stable(c)
  <2> DEFINE r == [cb[c] EXCEPT !.at = "submit"]
  <2>1. r \in Callback /\ r.at = "submit" /\ r.file = f
    BY <1>3, <1>4 DEF Callback
  <2>2. /\ pending' = [pending EXCEPT ![f] = "none"] /\ lastSize' = [lastSize EXCEPT ![f] = 0]
        /\ cb' = [cb EXCEPT ![c] = r]
    BY <1>3, <1>11 DEF Stable
  <2> HIDE DEF r
  <2>3. /\ pending' \in [LocalFiles -> {"none", "armed", "fired"}]
        /\ lastSize' \in [LocalFiles -> 0..MaxSize]
        /\ \A g \in LocalFiles : g = f \/ (pending'[g] = pending[g] /\ orphans'[g] = orphans[g])
    BY <1>6, <1>8, <2>2
  <2>4. QED
    BY <1>2, <1>3, <1>8, <2>1, <2>2, <2>3, OneFileKeeps
<1>12. QED
  BY <1>9, <1>10, <1>11 DEF MaybeUploadDecide

LEMMA SubmitKeeps == ASSUME HandInv, NEW c \in Callbacks, MaybeUploadSubmit(c) PROVE HandInv'
<1> USE WatcherAssumption
<1>1. WatcherTypeOK /\ Running
  BY DEF HandInv
<1>2. cb[c].at = "submit" /\ cb' = [cb EXCEPT ![c] = Idle] /\ Submit(cb[c].file)
      /\ UNCHANGED <<recursive, events, loopVars, pending, orphans, lastSize, interrupted>>
  BY DEF MaybeUploadSubmit
<1>3. PICK f \in LocalFiles : f = cb[c].file
  BY <1>1, <1>2 DEF Running, WatcherTypeOK
<1>4. Idle \in Callback
  BY DEF Idle, Callback
<1>5. cb' \in [Callbacks -> Callback] /\ cb'[c] = Idle /\ \A d \in Callbacks : d = c \/ cb'[d] = cb[d]
  BY <1>2, <1>4, CallbackIs
<1>6. submitted' = [submitted EXCEPT ![f] = revision[f]] /\ missed' = missed \ {f}
      /\ UNCHANGED <<dirs, size, revision, blind, faults, removed>>
  BY <1>2, <1>3 DEF Submit
<1>7. submitted' \in [LocalFiles -> Nat] /\ submitted'[f] = revision[f]
      /\ \A g \in LocalFiles : g = f \/ submitted'[g] = submitted[g]
  BY <1>1, <1>6 DEF WatcherTypeOK
<1>8. TimerRest
  BY <1>1, <1>2, <1>5, <1>6 DEF TimerRest, WatcherTypeOK
<1>9. \A g \in LocalFiles : TimersPresent(g)'
  BY <1>2, <1>5, <1>6, PresentTimers DEF TimersPresent, Idle
<1>10. Running'
  BY <1>1, <1>5 DEF Running, Idle
<1>11. ChangesInHand'
  <2> SUFFICES ASSUME NEW g \in LocalFiles, Answers(g)', g \notin removed', submitted'[g] # revision'[g]
               PROVE  Tended(g)' \/ Ahead(g)'
    BY DEF ChangesInHand
  <2>1. g # f /\ Answers(g) /\ g \notin removed /\ submitted[g] # revision[g]
    BY <1>2, <1>6, <1>7 DEF Answers
  <2>2. Tended(g) \/ Ahead(g)
    BY <2>1 DEF HandInv, ChangesInHand
  <2>3. Notified' = Notified /\ Created' = Created
    BY <1>2 DEF Notified, Created
  <2>4. QED
    BY <1>2, <1>3, <1>5, <2>1, <2>2, <2>3 DEF Tended, Ahead, loopVars
<1>12. QED
  BY <1>6, <1>7, <1>8, <1>9, <1>10, <1>11, TimerKeeps

-----------------------------------------------------------------------------
(* The event loop *)

LEMMA EventKeeps == ASSUME HandInv, HandleEvent PROVE HandInv'
<1> USE WatcherAssumption
<1> DEFINE e == Head(events)
           f == Head(events).name
<1>1. WatcherTypeOK /\ Tree /\ Known /\ Program /\ Searched /\ ScanFollows /\ Present /\ Running
      /\ ChangesInHand
  BY DEF HandInv
<1>2. /\ mainAt = "loop" /\ events # <<>> /\ events' = Tail(events)
      /\ UNCHANGED <<recursive, diskVars, submitted, interrupted>>
      /\ HandleWrite \/ HandleRemove \/ HandleMkdir
  BY DEF HandleEvent, HandleRest
<1>3. events \in Seq(Events)
  BY <1>1 DEF WatcherTypeOK, Events
<1>4. /\ e \in Notified /\ e \in Events /\ events' \in Seq(Events)
      /\ Notified' \subseteq Notified /\ Notified \subseteq Notified' \cup {e}
  BY <1>2, <1>3, HeadIs
<1>5. e = [op |-> e.op, name |-> f]
  BY <1>4 DEF Events
<1>6. todo = {} /\ scan = {}
  BY <1>1, <1>2 DEF Program
<1>7. Created' \subseteq Created
  BY <1>4 DEF Created
<1>8. IF e.op = "create" THEN f \in dirs \ {Root} ELSE f \in LocalFiles
  BY <1>1, <1>4 DEF Known
<1> HIDE DEF e, f
<1>9. \A g \in LocalFiles : [op |-> "write", name |-> g] \in Notified
                              => [op |-> "write", name |-> g] \in Notified' \/ (e.op = "write" /\ f = g)
  BY <1>4, <1>5
<1>10. \A d \in Dirs : d \in Created => d \in Created' \/ (e.op = "create" /\ f = d)
  BY <1>4, <1>5 DEF Created
<1>11. ASSUME UNCHANGED loopVars, e.op # "create",
              WatcherTypeOK', Running', \A g \in LocalFiles : TimersPresent(g)',
              \A g \in LocalFiles : g \notin removed /\ submitted[g] # revision[g] /\ Tended(g)
                 => Tended(g)'
       PROVE  HandInv'
  <2>1. Created' = Created
    BY <1>7, <1>10, <1>11 DEF Created
  <2>2. \A g \in LocalFiles : Ahead(g) => Ahead(g)'
    BY <1>2, <1>11, <2>1 DEF Ahead, loopVars
  <2>3. ChangesInHand'
    BY <1>1, <1>2, <1>11, <2>2, StillInHand DEF diskVars
  <2>4. Tree' /\ Known' /\ Program' /\ ScanFollows'
    BY <1>1, <1>2, <1>4, <1>11 DEF Tree, Known, Program, ScanFollows, Walked, diskVars, loopVars
  <2>5. Searched'
    BY <1>1, <1>2, <1>11, <2>1 DEF Searched, Walked, diskVars, loopVars
  <2>6. Present'
    BY <1>1, <1>2, <1>4, <1>11 DEF Present, TimersPresent, diskVars
  <2>7. QED
    BY <1>11, <2>3, <2>4, <2>5, <2>6 DEF HandInv
<1>12. CASE HandleWrite
  <2>1. e.op = "write" /\ f \in LocalFiles /\ UNCHANGED loopVars
    BY <1>8, <1>12 DEF HandleWrite, e
  <2>2. CASE size[f] = 0
    <3>1. UNCHANGED timerVars
      BY <1>12, <2>2 DEF HandleWrite, f
    <3>2. WatcherTypeOK' /\ Running'
      BY <1>1, <1>2, <1>4, <2>1, <3>1 DEF WatcherTypeOK, Running, Events, diskVars, loopVars, timerVars
    <3>3. \A g \in LocalFiles : TimersPresent(g)'
      BY <1>2, <3>1, PresentTimers DEF TimersPresent, diskVars, timerVars
    <3>4. \A g \in LocalFiles : g \notin removed /\ submitted[g] # revision[g] => g # f
      <4>0. SUFFICES ASSUME f \notin removed, submitted[f] # revision[f] PROVE FALSE
        BY <2>1
      <4>1. revision[f] \in Nat /\ revision[f] # 0
        <5>1. revision[f] \in Nat
          BY <1>1, <2>1 DEF WatcherTypeOK
        <5>2. revision[f] = 0 => submitted[f] = 0
          BY <1>1, <2>1 DEF Present
        <5>3. QED
          BY <4>0, <5>1, <5>2
      <4>2. revision[f] > 0
        BY <4>1
      <4>3. size[f] > 0
        BY <1>1, <2>1, <4>0, <4>2 DEF Present
      <4>4. QED
        BY <2>2, <4>3
    <3>5. \A g \in LocalFiles : g \notin removed /\ submitted[g] # revision[g] /\ Tended(g) => Tended(g)'
      BY <1>9, <3>1, <3>4 DEF Tended, timerVars
    <3>6. QED
      BY <1>11, <2>1, <3>2, <3>3, <3>5
  <2>3. CASE size[f] # 0
    <3>1. pending' = [pending EXCEPT ![f] = "armed"] /\ UNCHANGED <<orphans, lastSize, cb>>
      BY <1>12, <2>3 DEF HandleWrite, ScheduleUpload, f
    <3>2. /\ pending' \in [LocalFiles -> {"none", "armed", "fired"}] /\ pending'[f] = "armed"
          /\ \A g \in LocalFiles : g = f \/ pending'[g] = pending[g]
      BY <1>1, <2>1, <3>1 DEF WatcherTypeOK
    <3>3. WatcherTypeOK' /\ Running'
      BY <1>1, <1>2, <1>4, <2>1, <3>1, <3>2 DEF WatcherTypeOK, Running, Events, diskVars, loopVars
    <3>4. size[f] > 0
      BY <1>1, <2>1, <2>3 DEF WatcherTypeOK
    <3>5. \A g \in LocalFiles : TimersPresent(g)'
      BY <1>2, <3>1, <3>2, <3>4, PresentTimers DEF TimersPresent, diskVars
    <3>6. \A g \in LocalFiles : g \notin removed /\ submitted[g] # revision[g] /\ Tended(g) => Tended(g)'
      BY <1>9, <3>1, <3>2 DEF Tended
    <3>7. QED
      BY <1>11, <2>1, <3>3, <3>5, <3>6
  <2>4. QED
    BY <2>2, <2>3
<1>13. CASE HandleRemove
  <2>1. e.op = "remove" /\ f \in LocalFiles /\ UNCHANGED <<cb, loopVars, orphans>>
        /\ pending' = [pending EXCEPT ![f] = "none"] /\ lastSize' = [lastSize EXCEPT ![f] = 0]
    BY <1>8, <1>13 DEF HandleRemove, Forget, e, f
  <2>2. f \in removed
    BY <1>1, <1>4, <1>5, <2>1 DEF Present
  <2>3. /\ pending' \in [LocalFiles -> {"none", "armed", "fired"}]
        /\ lastSize' \in [LocalFiles -> 0..MaxSize]
        /\ \A g \in LocalFiles : g = f \/ pending'[g] = pending[g]
    BY <1>1, <2>1 DEF WatcherTypeOK
  <2>4. WatcherTypeOK' /\ Running'
    BY <1>1, <1>2, <1>4, <2>1, <2>3 DEF WatcherTypeOK, Running, Events, diskVars, loopVars
  <2>5. \A g \in LocalFiles : TimersPresent(g)'
    BY <1>2, <2>1, <2>2, <2>3, PresentTimers DEF TimersPresent, diskVars
  <2>6. \A g \in LocalFiles : g \notin removed /\ submitted[g] # revision[g] /\ Tended(g) => Tended(g)'
    BY <1>9, <2>1, <2>2, <2>3 DEF Tended
  <2>7. QED
    BY <1>11, <2>1, <2>4, <2>5, <2>6
<1>14. CASE HandleMkdir
  <2>1. e.op = "create" /\ f \in dirs /\ f \in Dirs /\ UNCHANGED <<watched, timerVars>>
    BY <1>1, <1>8, <1>14 DEF HandleMkdir, e, WatcherTypeOK
  <2>2. IF recursive THEN mainAt' = "addNew" /\ todo' = {<<f, "add">>} /\ scan' = {f}
        ELSE UNCHANGED <<mainAt, todo, scan>>
    BY <1>14 DEF HandleMkdir, f
  <2>3. f \in Paths /\ f \in Below[f]
    BY <2>1, BelowSelf DEF Paths
  <2>4. WatcherTypeOK'
    BY <1>1, <1>2, <1>4, <2>1, <2>2, <2>3 DEF WatcherTypeOK, Events, diskVars, timerVars
  <2>5. Walked' = IF recursive THEN {f} ELSE {}
    BY <1>6, <2>1, <2>2 DEF Walked
  <2>6. Tree' /\ Known'
    BY <1>1, <1>2, <1>4, <1>6, <2>1, <2>2, <2>5 DEF Tree, Known, diskVars
  <2>7. Program'
    BY <1>1, <1>2, <1>6, <2>1, <2>2 DEF Program, diskVars
  <2>8. Searched'
    <3>1. dirs \subseteq Dirs /\ Walked = {}
      BY <1>1, <1>6 DEF WatcherTypeOK, Walked
    <3>2. recursive => \A d \in dirs \ watched : \E p \in Created \cup blind : d \in Below[p]
      BY <1>1, <1>2, <3>1 DEF Searched
    <3>3. recursive => \A p \in Created : p \in Created' \cup Walked'
      BY <1>10, <2>5 DEF Created
    <3>4. QED
      BY <1>2, <2>1, <3>2, <3>3 DEF Searched, diskVars
  <2>9. ScanFollows'
    BY <1>2, <2>2, <2>3, <2>5 DEF ScanFollows
  <2>10. Present' /\ Running'
    BY <1>1, <1>2, <1>4, <2>1 DEF Present, Running, diskVars, timerVars
  <2>11. ChangesInHand'
    <3>1. \A g \in LocalFiles : Tended(g) => Tended(g)'
      BY <1>9, <2>1 DEF Tended, timerVars
    <3>2. \A g \in LocalFiles : Ahead(g) => Ahead(g)'
      BY <1>2, <1>6, <1>10, <2>1, <2>2 DEF Ahead, Created
    <3>3. QED
      BY <1>1, <1>2, <3>1, <3>2, StillInHand DEF diskVars
  <2>12. QED
    BY <2>4, <2>6, <2>7, <2>8, <2>9, <2>10, <2>11 DEF HandInv
<1>15. QED
  BY <1>2, <1>12, <1>13, <1>14

LEMMA CleanupKeeps == ASSUME HandInv, Cleanup PROVE HandInv'
<1>1. WatcherTypeOK /\ Tree /\ Known /\ Program /\ Present /\ Running
  BY DEF HandInv
<1>2. /\ mainAt = "loop" /\ interrupted /\ mainAt' = "done" /\ watched' = {}
      /\ pending' = [f \in LocalFiles |-> "none"] /\ lastSize' = [f \in LocalFiles |-> 0]
      /\ UNCHANGED <<recursive, diskVars, submitted, events, todo, scan, orphans, cb, interrupted>>
  BY DEF Cleanup
<1>3. Notified' = Notified /\ Walked' = Walked
  BY <1>2 DEF Notified, Walked
<1>4. 0 \in 0..MaxSize
  BY WatcherAssumption
<1>5. WatcherTypeOK'
  BY <1>1, <1>2, <1>4 DEF WatcherTypeOK, diskVars
<1>6. Tree' /\ Known' /\ Running'
  BY <1>1, <1>2, <1>3 DEF Tree, Known, Running, diskVars
<1>7. Program'
  BY <1>1, <1>2 DEF Program
<1>8. Searched' /\ ScanFollows' /\ ChangesInHand'
  BY <1>2 DEF Searched, ScanFollows, ChangesInHand, Answers
<1>9. Present'
  BY <1>1, <1>2, <1>3 DEF Present, diskVars
<1>10. QED
  BY <1>5, <1>6, <1>7, <1>8, <1>9 DEF HandInv

LEMMA WatcherNextKeeps == HandInv /\ [WatcherNext]_watcherVars => HandInv'
<1> SUFFICES ASSUME HandInv, [WatcherNext]_watcherVars PROVE HandInv'
  OBVIOUS
<1>1. CASE \E f \in LocalFiles : ChangeFile(f) \/ Remove(f)
  BY <1>1, ChangeKeeps, RemoveKeeps
<1>2. CASE \E d \in Dirs \ {Root} : Mkdir(d)
  BY <1>2, MkdirKeeps
<1>3. CASE InterruptWatcher
  BY <1>3, InterruptKeeps
<1>4. CASE MainStep
  BY <1>4, ScanKeeps, WalksEndKeeps, AddDirKeeps, EventKeeps, CleanupKeeps DEF MainStep
<1>5. CASE \E c \in Callbacks : MaybeUpload(c) \/ \E f \in LocalFiles : Fire(f, c)
  BY <1>5, StatKeeps, DecideKeeps, SubmitKeeps, FireKeeps DEF MaybeUpload
<1>6. CASE UNCHANGED watcherVars
  <2>1. Notified' = Notified /\ Created' = Created /\ Walked' = Walked
    BY <1>6 DEF watcherVars, loopVars, Notified, Created, Walked
  <2> USE DEF watcherVars, diskVars, loopVars, timerVars
  <2>2. WatcherTypeOK' /\ Tree' /\ Known' /\ Program'
    BY <1>6, <2>1 DEF HandInv, WatcherTypeOK, Tree, Known, Program
  <2>3. Searched' /\ ScanFollows' /\ Running'
    BY <1>6, <2>1 DEF HandInv, Searched, ScanFollows, Running
  <2>4. Present'
    BY <1>6, <2>1 DEF HandInv, Present
  <2>5. ChangesInHand'
    BY <1>6, <2>1, StillInHand DEF HandInv, Tended, Ahead
  <2>6. QED
    BY <2>2, <2>3, <2>4, <2>5 DEF HandInv
<1>7. QED
  BY <1>1, <1>2, <1>3, <1>4, <1>5, <1>6 DEF WatcherNext

LEMMA WatcherInvariant == WatcherSpec => []HandInv
BY InitHandInv, WatcherNextKeeps, PTL DEF WatcherSpec

-----------------------------------------------------------------------------
(* The theorems of the watcher *)

\* Every variable of the watcher keeps its type; it watches no directory that is
\* not there.
THEOREM WatcherTypeCorrect == WatcherSpec => []WatcherTypeOK
BY WatcherInvariant, PTL DEF HandInv

\* However timers, callbacks and the walks over new directories interleave with
\* the changes of the files, a change that was not submitted is in somebody's hands.
THEOREM NothingForgotten == WatcherSpec => []ChangesInHand
BY WatcherInvariant, PTL DEF HandInv
=============================================================================
