---------------------------- MODULE ProgressCard ----------------------------
(***************************************************************************)
(* The progress card of a task: one chat message, edited while the task    *)
(* runs and a last time when it is over.  Each kind of task has a tracker  *)
(* of its own.  Most are called by several goroutines at once and keep one *)
(* atomic number; the single-file and batch trackers take a lock, and only *)
(* the batch tracker remembers that it is done.                            *)
(*                                                                         *)
(* Sizes are counted in units, and a percentage is a number of units.  An  *)
(* edit is a request: those two goroutines send arrive in either order.    *)
(***************************************************************************)
EXTENDS Naturals, FiniteSets

CONSTANTS Reporters,  \* goroutines that report progress
          N,          \* files of a batch
          Total,      \* size of the task
          Step,       \* least advance between two edits
          CountStep,  \* pictures between two edits
          Visible,    \* files a batch card shows in full
          MaxSaves    \* bound: attempts to save a file

ASSUME CardAssumption ==
    /\ {Total, Step, CountStep, N, Visible, MaxSaves} \subseteq Nat \ {0}
    /\ Reporters # {}

Percent == {"directlinks", "parsed", "transfer"}
Kinds == Percent \cup {"telegraph", "aria2", "ytdlp", "bulkdl", "tfile", "batch"}
Items == 1..N

VARIABLES
    kind,       \* the tracker
    late,       \* a callback may come after the task is over
    sized,      \* the size of what is downloaded is known
    stage,      \* "new", "running", "over": OnStart and OnDone
    outcome,    \* what OnDone was told
    bytes,      \* the task's counter
    last,       \* lastUpdatePercent
    pc, arg, text, \* a report in progress: its step, argument and rendered value
    attempt,    \* tfile: uploads begun
    uploaded,   \* tfile: uploadedBytes
    items,      \* batch: the phase of each file, what was uploaded of it, and (history) how it ended
    card        \* the message: what it says, at which value, with a cancel button or not

reportVars == <<pc, arg, text>>
uploadVars == <<attempt, uploaded>>
cardVars == <<kind, late, sized, stage, outcome, bytes, last, reportVars, uploadVars, items, card>>

Card(face, at, button) == [face |-> face, at |-> at, button |-> button]

CardInit ==
    /\ kind \in Kinds
    /\ late \in IF kind \in {"directlinks", "parsed", "tfile", "batch"} THEN BOOLEAN ELSE {FALSE}
    /\ sized \in IF kind \in Percent \cup {"tfile"} THEN BOOLEAN ELSE {TRUE}
    /\ stage = "new"
    /\ outcome = "none"
    /\ bytes = 0 /\ last = 0
    /\ pc = [r \in Reporters |-> "idle"]
    /\ arg = [r \in Reporters |-> 0]
    /\ text = [r \in Reporters |-> 0]
    /\ attempt = 0 /\ uploaded = 0
    /\ items = [i \in Items |-> [phase |-> "waiting", up |-> 0, result |-> "none"]]
    /\ card = Card("queued", 0, FALSE)

------------------------------------------------------------------------------
(* progressutil *)

\* Levels choose the step by size; the model has one.
ShouldUpdate(now, before) == sized /\ now > 0 /\ now > before /\ now >= before + Step

ShouldUpdateCount(now) ==
    now > 0 /\ IF now < CountStep THEN now = Total ELSE now % CountStep = 0 \/ now = Total

------------------------------------------------------------------------------
(* OnStart and OnDone *)

\* Every tracker resets its number and shows the card with a cancel button.
Starts(k) ==
    /\ kind = k
    /\ stage = "new"
    /\ stage' = "running"
    /\ last' = 0
    /\ card' = Card("start", 0, TRUE)
    /\ UNCHANGED <<kind, late, sized, outcome, bytes, reportVars, uploadVars, items>>

DirectOnStart == Starts("directlinks")
ParsedOnStart == Starts("parsed")
TransferOnStart == Starts("transfer")
TelegraphOnStart == Starts("telegraph")
Aria2OnStart == Starts("aria2")
YtdlpOnStart == Starts("ytdlp")
TFileOnStart == Starts("tfile")
BatchOnStart == Starts("batch")

\* The card of a bulk run has no button: its pages have cards of their own.
BulkdlOnStart ==
    /\ kind = "bulkdl"
    /\ stage = "new"
    /\ stage' = "running"
    /\ card' = Card("start", 0, FALSE)
    /\ UNCHANGED <<kind, late, sized, outcome, bytes, last, reportVars, uploadVars, items>>

\* Execute has waited for the goroutines that report, but not for a copy that
\* it left behind or an upload that its storage has not stopped reading.
Joined == late \/ \A r \in Reporters : pc[r] = "idle"

\* The text of the last edit; the transfer tracker has one for every error.
Told(o) == IF kind = "transfer" /\ o # "ok" THEN "failed" ELSE o

\* The last edit of the card, without a button.
Ends(k) ==
    /\ kind = k
    /\ stage = "running"
    /\ Joined
    /\ stage' = "over"
    /\ outcome' \in {"ok", "failed", "cancelled"}
    /\ card' = Card(Told(outcome'), 0, FALSE)
    /\ UNCHANGED <<kind, late, sized, bytes, last, reportVars, uploadVars, items>>

DirectOnDone == Ends("directlinks")
ParsedOnDone == Ends("parsed")
TransferOnDone == Ends("transfer")
TelegraphOnDone == Ends("telegraph")
Aria2OnDone == Ends("aria2")
YtdlpOnDone == Ends("ytdlp")
BulkdlOnDone == Ends("bulkdl")
TFileOnDone == Ends("tfile")

------------------------------------------------------------------------------
(* OnProgress without a lock *)

\* While the task runs, or after it where callbacks come late.
Reporting == stage = "running" \/ (stage = "over" /\ late)

\* The goroutine adds to the counter, then calls OnProgress.
Advance(r) ==
    /\ \/ kind \in Percent \cup {"telegraph"} /\ Reporting
       \/ kind = "tfile" /\ stage = "running" /\ attempt = 0
    /\ pc[r] = "idle"
    /\ bytes < Total
    /\ bytes' = bytes + 1
    /\ arg' = [arg EXCEPT ![r] = bytes + 1]
    /\ pc' = [pc EXCEPT ![r] = "called"]
    /\ UNCHANGED <<kind, late, sized, stage, outcome, last, text, uploadVars, items, card>>

Quiet == UNCHANGED <<kind, late, sized, stage, outcome, bytes, arg, uploadVars, items>>

\* The number is loaded, compared, and loaded again before it is stored.
PercentCheck(r) ==
    /\ pc[r] = "called"
    /\ pc' = [pc EXCEPT ![r] = IF ShouldUpdate(bytes, last) THEN "store" ELSE "idle"]
    /\ Quiet /\ UNCHANGED <<last, text, card>>

PercentStore(r) ==
    /\ pc[r] = "store"
    /\ IF last = bytes THEN pc' = [pc EXCEPT ![r] = "idle"] /\ UNCHANGED last
       ELSE pc' = [pc EXCEPT ![r] = "render"] /\ last' = bytes
    /\ Quiet /\ UNCHANGED <<text, card>>

\* The text is built from the counter as it is by then, and sent.
Render(r) ==
    /\ pc[r] = "render"
    /\ text' = [text EXCEPT ![r] = bytes]
    /\ pc' = [pc EXCEPT ![r] = "send"]
    /\ Quiet /\ UNCHANGED <<last, card>>

Send(r) ==
    /\ pc[r] = "send"
    /\ card' = Card("progress", text[r], TRUE)
    /\ pc' = [pc EXCEPT ![r] = "idle"]
    /\ Quiet /\ UNCHANGED <<last, text>>

DirectOnProgress(r) ==
    kind = "directlinks" /\ (PercentCheck(r) \/ PercentStore(r) \/ Render(r) \/ Send(r))

ParsedOnProgress(r) ==
    kind = "parsed" /\ (PercentCheck(r) \/ PercentStore(r) \/ Render(r) \/ Send(r))

TransferOnProgress(r) ==
    kind = "transfer" /\ (PercentCheck(r) \/ PercentStore(r) \/ Render(r) \/ Send(r))

\* Pictures are counted, and no number is kept.
CountCheck(r) ==
    /\ pc[r] = "called"
    /\ pc' = [pc EXCEPT ![r] = IF ShouldUpdateCount(bytes) THEN "render" ELSE "idle"]
    /\ Quiet /\ UNCHANGED <<last, text, card>>

TelegraphOnProgress(r) == kind = "telegraph" /\ (CountCheck(r) \/ Render(r) \/ Send(r))

\* One goroutine calls the other two trackers, so that a call is one step.  The
\* aria2 daemon gives the value, which starts anew with a follow-up download.
Aria2OnProgress ==
    /\ kind = "aria2" /\ stage = "running"
    /\ \E now \in 0..Total \ {last} :
          last' = now /\ card' = Card("progress", now, TRUE)
    /\ UNCHANGED <<kind, late, sized, stage, outcome, bytes, reportVars, uploadVars, items>>

\* Every other report is dropped by the clock.
YtdlpOnProgress ==
    /\ kind = "ytdlp" /\ stage = "running"
    /\ card' = Card("progress", 0, TRUE)
    /\ UNCHANGED <<kind, late, sized, stage, outcome, bytes, last, reportVars, uploadVars, items>>

------------------------------------------------------------------------------
(* The single-file tracker: every call holds its lock, so that a call is one *)
(* step, and a report carries the value its goroutine counted.               *)

\* The size of a photo is not known: then three seconds bring an edit, whatever
\* was counted, and no percentage is kept.
TFileOnProgress(r) ==
    /\ kind = "tfile"
    /\ pc[r] = "called"
    /\ pc' = [pc EXCEPT ![r] = "idle"]
    /\ \/ /\ ShouldUpdate(arg[r], last)
          /\ last' = arg[r] /\ card' = Card("progress", arg[r], TRUE)
       \/ /\ ~sized
          /\ last' = last /\ card' = Card("progress", arg[r], TRUE)
       \/ /\ ~ShouldUpdate(arg[r], last)
          /\ UNCHANGED <<last, card>>
    /\ Quiet /\ UNCHANGED text

UploadFace(a) == IF a > 1 THEN "retry" ELSE "upload"

\* Once for each attempt to save.
TFileOnUploadStart ==
    /\ kind = "tfile" /\ stage = "running"
    /\ \A r \in Reporters : pc[r] = "idle"
    /\ attempt < MaxSaves
    /\ attempt' = attempt + 1
    /\ uploaded' = 0 /\ last' = 0
    /\ card' = Card(UploadFace(attempt'), 0, TRUE)
    /\ UNCHANGED <<kind, late, sized, stage, outcome, bytes, reportVars, items>>

\* waited is the time since the last edit: under a second, under three, or more.
ShouldUpdateUpload(now, before, waited) ==
    /\ waited # "none"
    /\ IF now >= Total THEN before < Total
       ELSE /\ now >= before
            /\ \/ waited = "long"
               \/ now > before /\ now >= before + Step

\* Called by the threads of the uploader, in any order.
TFileOnUploadProgress ==
    /\ kind = "tfile" /\ attempt > 0 /\ Reporting
    /\ \E now \in uploaded..Total \ {0}, waited \in {"none", "second", "long"} :
          /\ uploaded' = now
          /\ IF ShouldUpdateUpload(now, last, waited)
                THEN last' = now /\ card' = Card(UploadFace(attempt), now, TRUE)
                ELSE UNCHANGED <<last, card>>
    /\ UNCHANGED <<kind, late, sized, stage, outcome, bytes, reportVars, attempt, items>>

\* Without a cache file Execute returns before it has deferred OnDone.
TFileLeaves ==
    /\ kind = "tfile" /\ stage = "running" /\ bytes = 0 /\ attempt = 0
    /\ stage' = "left"
    /\ UNCHANGED <<kind, late, sized, outcome, bytes, last, reportVars, uploadVars, items, card>>

------------------------------------------------------------------------------
(* The batch tracker: goroutines mark their files under one lock, and then  *)
(* have the card rendered under another.                                     *)

Transfers == {"downloading", "transferring", "uploading", "retrying"}
InPhase(P) == {i \in Items : items[i].phase \in P}

\* Reporter r replaces what is known of file i, and owes a render.
Mark(r, i, new) ==
    /\ pc[r] = "idle"
    /\ items' = [items EXCEPT ![i] = new]
    /\ pc' = [pc EXCEPT ![r] = "render"]
    /\ UNCHANGED <<kind, late, sized, stage, outcome, bytes, last, arg, text, uploadVars, card>>

MarkPhase(r, i, phase) == Mark(r, i, [items[i] EXCEPT !.phase = phase])

\* The task runs, and the goroutine of the file is not done with it.
Working(i) == kind = "batch" /\ stage = "running" /\ items[i].result = "none"

MarkItemActive(r, i) ==
    /\ Working(i) /\ items[i].phase = "waiting"
    /\ \E phase \in {"downloading", "transferring"} : MarkPhase(r, i, phase)

\* What a streamed file downloads counts as uploaded.
RecordItemDownload(r, i) ==
    /\ Working(i) /\ items[i].phase = "transferring" /\ items[i].up < Total
    /\ Mark(r, i, [items[i] EXCEPT !.up = @ + 1])

RecordItemDownloaded(r, i) ==
    /\ Working(i) /\ items[i].phase = "downloading"
    /\ MarkPhase(r, i, "downloaded")

\* The callback of an upload: a lower count than before is dropped, but for the
\* first of a retry.  A late one finds the file in any phase, and does not ask.
RecordItemUpload(r, i) ==
    /\ \/ Working(i) /\ items[i].phase \in {"downloaded", "uploading", "confirming", "retrying"}
       \/ kind = "batch" /\ late /\ items[i].result # "none"
    /\ \E now \in 1..Total :
          IF now < items[i].up /\ items[i].phase # "retrying"
             THEN Mark(r, i, items[i])
             ELSE Mark(r, i, [items[i] EXCEPT !.phase = IF now = Total THEN "confirming" ELSE "uploading",
                                              !.up = now])

MarkItemRetry(r, i) ==
    /\ Working(i) /\ items[i].phase \in {"downloaded", "uploading", "confirming"}
    /\ MarkPhase(r, i, "retrying")

\* A cancellation is not a failure, and the other half of a stream may follow it
\* with one.
MarkItemFailed(r, i) ==
    /\ kind = "batch" /\ stage = "running"
    /\ items[i].result \in {"none", "stopped"} /\ items[i].phase \notin {"failed", "completed"}
    /\ \E phase \in {"failed", "stopped"} :
          Mark(r, i, [items[i] EXCEPT !.phase = phase, !.result = phase])

MarkItemCompleted(r, i) ==
    /\ Working(i)
    /\ items[i].phase \in {"transferring", "downloaded", "uploading", "confirming", "retrying"}
    /\ Mark(r, i, [items[i] EXCEPT !.phase = "completed", !.result = "completed"])

MarkItem(r, i) ==
    \/ MarkItemActive(r, i) \/ RecordItemDownload(r, i) \/ RecordItemDownloaded(r, i)
    \/ RecordItemUpload(r, i) \/ MarkItemRetry(r, i)
    \/ MarkItemFailed(r, i) \/ MarkItemCompleted(r, i)

\* The first Visible transfers in full, the number of the others; the only file
\* that waits for a confirmation in full if there is room, else their number.
Shown ==
    LET transfers == Cardinality(InPhase(Transfers))
        visible == IF transfers < Visible THEN transfers ELSE Visible
        confirming == Cardinality(InPhase({"confirming"}))
    IN  IF confirming = 1 /\ visible < Visible
           THEN [full |-> visible + 1, hidden |-> transfers - visible, confirming |-> 0]
           ELSE [full |-> visible, hidden |-> transfers - visible, confirming |-> confirming]

\* The files a card accounts for: its counts, and what it shows of the rest.
Accounted ==
    Cardinality(InPhase({"completed", "waiting", "downloaded", "failed"}))
       + Shown.full + Shown.hidden + Shown.confirming

\* Variant: the tracker forgets that it is done.
BatchRenderAlways(r) ==
    /\ kind = "batch"
    /\ pc[r] = "render"
    /\ pc' = [pc EXCEPT ![r] = "idle"]
    /\ card' = Card("batch", Accounted, TRUE)
    /\ Quiet /\ UNCHANGED <<last, text>>

\* Nothing is rendered after the last card.  A report of progress may be dropped
\* by the clock; a change of phase is always shown.
BatchRender(r) ==
    /\ kind = "batch"
    /\ pc[r] = "render"
    /\ pc' = [pc EXCEPT ![r] = "idle"]
    /\ \/ stage # "over" /\ card' = Card("batch", Accounted, TRUE)
       \/ UNCHANGED card
    /\ Quiet /\ UNCHANGED <<last, text>>

\* Without an error every file was stored or failed, or was left downloaded by a
\* group that another file of it ended; with one, those that are neither stored
\* nor failed are stopped.
BatchFinish ==
    /\ kind = "batch" /\ stage = "running"
    /\ Joined
    /\ outcome' \in {"ok", "failed", "cancelled"}
    /\ outcome' = "ok" =>
          \A i \in Items :
              \/ items[i].result \in {"completed", "failed"}
              \/ items[i].phase = "downloaded" /\ \E j \in Items : items[j].result = "failed"
    /\ stage' = "finished"
    /\ items' = IF outcome' = "ok" THEN items
                ELSE [i \in Items |-> IF items[i].phase \in {"completed", "failed"} THEN items[i]
                                      ELSE [items[i] EXCEPT !.phase = "stopped"]]
    /\ UNCHANGED <<kind, late, sized, bytes, last, reportVars, uploadVars, card>>

\* A run without an error tells the files that failed.
BatchVerdict ==
    IF outcome # "ok" THEN outcome
    ELSE IF InPhase({"failed"}) # {} THEN "partial" ELSE "ok"

BatchOnDone ==
    /\ kind = "batch" /\ stage = "finished"
    /\ stage' = "over"
    /\ card' = Card(BatchVerdict, Cardinality(InPhase({"completed"})), FALSE)
    /\ UNCHANGED <<kind, late, sized, outcome, bytes, last, reportVars, uploadVars, items>>

------------------------------------------------------------------------------
OnStart ==
    \/ DirectOnStart \/ ParsedOnStart \/ TransferOnStart \/ TelegraphOnStart
    \/ Aria2OnStart \/ YtdlpOnStart \/ BulkdlOnStart \/ TFileOnStart \/ BatchOnStart

OnDone ==
    \/ DirectOnDone \/ ParsedOnDone \/ TransferOnDone \/ TelegraphOnDone
    \/ Aria2OnDone \/ YtdlpOnDone \/ BulkdlOnDone \/ TFileOnDone
    \/ BatchFinish \/ BatchOnDone

OnProgress(r) ==
    \/ DirectOnProgress(r) \/ ParsedOnProgress(r) \/ TransferOnProgress(r)
    \/ TelegraphOnProgress(r) \/ TFileOnProgress(r) \/ BatchRender(r)

CardNext ==
    \/ OnStart \/ OnDone \/ TFileLeaves
    \/ Aria2OnProgress \/ YtdlpOnProgress
    \/ TFileOnUploadStart \/ TFileOnUploadProgress
    \/ \E r \in Reporters : Advance(r) \/ OnProgress(r) \/ \E i \in Items : MarkItem(r, i)

CardSpec == CardInit /\ [][CardNext]_cardVars

------------------------------------------------------------------------------
(* Properties *)

Phases == Transfers \cup {"waiting", "downloaded", "confirming", "completed", "failed", "stopped"}
Results == {"none", "completed", "failed", "stopped"}
Verdicts == {"ok", "partial", "failed", "cancelled"}

\* Every variable has a value of its type.
CardTypeOK ==
    /\ kind \in Kinds /\ late \in BOOLEAN /\ sized \in BOOLEAN
    /\ stage \in {"new", "running", "finished", "over", "left"}
    /\ outcome \in {"none", "ok", "failed", "cancelled"}
    /\ {bytes, last, uploaded} \subseteq 0..Total
    /\ pc \in [Reporters -> {"idle", "called", "store", "render", "send"}]
    /\ arg \in [Reporters -> 0..Total] /\ text \in [Reporters -> 0..Total]
    /\ attempt \in 0..MaxSaves
    /\ items \in [Items -> [phase : Phases, up : 0..Total, result : Results]]
    /\ card.face \in Verdicts \cup {"queued", "start", "progress", "upload", "retry", "batch"}
    /\ card.at \in 0..(Total + N) /\ card.button \in BOOLEAN

\* The card of a task that is over says how it ended and offers no cancel button,
\* although its trackers are called by many goroutines: Execute waits for them,
\* and the batch tracker refuses what an upload reports after the last card.
FinalCardStays ==
    stage = "over" /\ (kind = "batch" \/ ~late)
        => card.face \in Verdicts /\ ~card.button
           /\ (outcome = "ok" => card.face \in {"ok", "partial"})
           /\ (outcome # "ok" => card.face \notin {"ok", "partial"})

=============================================================================
