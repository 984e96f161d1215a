---------------------------- MODULE FetchTasks ----------------------------
(***************************************************************************)
(* Execute of the tasks that first get files onto the local disk and then  *)
(* save them: aria2 downloads, yt-dlp downloads and single Telegram files. *)
(* The aria2 daemon is a system of its own, reached by calls that fail,    *)
(* and its download exists before the task does and may outlive it.        *)
(***************************************************************************)
EXTENDS Naturals

CONSTANTS Files,     \* the files a download consists of
          Selected,  \* those selected for download
          Torrents,  \* those that are .torrent metadata
          Meta, Real, \* identifiers of a metadata download and its follow-up
          Retry,     \* upload attempts of a single Telegram file
          Blocks     \* blocks of a streamed file

ASSUME FetchAssumption ==
    /\ Files # {} /\ Selected \subseteq Files /\ Torrents \subseteq Files
    /\ Meta # Real
    /\ {Retry, Blocks} \subseteq Nat \ {0}

Gids == {Meta, Real}

VARIABLES
    kind,      \* "aria2", "ytdlp" or "tfile"
    phase,     \* where the task is
    ctxDone,   \* it was cancelled
    card,      \* its progress card: OnStart, then OnDone with an error or none
    returned,  \* what Execute returned; "rejected" and "dropped" never executed
    gid,       \* the download an aria2 task follows
    daemon,    \* the state of each download in the aria2 daemon
    heard,     \* what the last answer of the daemon said, or "lost"
    disk,      \* local files that exist
    missing,   \* history: files that were not there when they were to be saved
    stored,    \* files saved to the storage
    removed,   \* history: files the task removed from the disk
    todo,      \* files transferFiles has yet to look at
    count,     \* transferredCount
    keep,      \* config: files stay after the transfer
    stream,    \* a single file goes to the storage through a pipe
    tries,     \* failed upload attempts
    closes,    \* a Save that fails closes the reader it was given
    up, down,  \* the two ends of a pipe: Save, and the download
    left       \* blocks the download has yet to write to the pipe

pipeVars == <<closes, up, down, left>>
aria2Vars == <<gid, daemon, heard, keep>>
fileVars == <<disk, missing, stored, removed, todo, count>>
modeVars == <<kind, stream>>
fetchVars == <<modeVars, phase, ctxDone, card, returned, aria2Vars, fileVars, pipeVars, tries>>

FetchInit ==
    /\ kind \in {"aria2", "ytdlp", "tfile"}
    /\ stream \in IF kind = "tfile" THEN BOOLEAN ELSE {FALSE}
    /\ keep \in IF kind = "aria2" THEN BOOLEAN ELSE {FALSE}
    /\ phase = IF kind = "aria2" THEN "add" ELSE "enqueue"
    /\ ctxDone = FALSE
    /\ card = "none"
    /\ returned = "none"
    /\ gid \in Gids     \* a magnet link begins with its metadata
    /\ daemon = [g \in Gids |-> "absent"]
    /\ heard = "nothing"
    /\ disk = {} /\ missing = {} /\ stored = {} /\ removed = {} /\ todo = {}
    /\ count = 0
    /\ tries = 0
    /\ closes \in IF stream THEN BOOLEAN ELSE {FALSE}
    /\ up = "reading" /\ down = "fetching"
    /\ left = Blocks

------------------------------------------------------------------------------
(* The queue before Execute, and what cancels the task *)

\* core.AddTask, which may refuse the task.
Enqueue ==
    /\ phase = "enqueue"
    /\ \/ phase' = "queued" /\ UNCHANGED returned
       \/ phase' = "end" /\ returned' = "rejected"
    /\ UNCHANGED <<modeVars, ctxDone, card, aria2Vars, fileVars, pipeVars, tries>>

Cancel ==
    /\ ~ctxDone
    /\ phase \notin {"add", "enqueue", "end"}
    /\ ctxDone' = TRUE
    /\ UNCHANGED <<modeVars, phase, card, returned, aria2Vars, fileVars, pipeVars, tries>>

\* A worker takes the task, or Get drops it because it was cancelled.
Start ==
    /\ phase = "queued"
    /\ IF ctxDone
       THEN phase' = "end" /\ returned' = "dropped" /\ UNCHANGED card
       ELSE /\ phase' = CASE kind = "aria2" -> "wait"
                          [] kind = "ytdlp" -> "mkdir"
                          [] kind = "tfile" -> IF stream THEN "pipe" ELSE "create"
            /\ card' = "started"
            /\ UNCHANGED returned
    /\ UNCHANGED <<modeVars, ctxDone, aria2Vars, fileVars, pipeVars, tries>>

\* Execute ends with r and has told the progress card.
Finish(r) == phase' = "end" /\ returned' = r /\ card' = r

\* What an operation that failed under the task's context says of itself.
Failure == {"failed"} \cup IF ctxDone THEN {"cancelled"} ELSE {}

------------------------------------------------------------------------------
(* The aria2 daemon *)

\* A metadata download that completes is followed by the actual one.
DaemonCompletes(g) ==
    /\ daemon[g] = "active"
    /\ IF g = Meta
       THEN daemon' = [daemon EXCEPT ![Meta] = "complete", ![Real] = "active"] /\ UNCHANGED disk
       ELSE daemon' = [daemon EXCEPT ![Real] = "complete"] /\ disk' = disk \cup Selected
    /\ UNCHANGED <<modeVars, phase, ctxDone, card, returned, gid, heard, keep, missing, stored,
                   removed, todo, count, pipeVars, tries>>

\* A download fails, or a user of the daemon removes it or a finished file.
DaemonFails(g) ==
    /\ daemon[g] = "active"
    /\ \E s \in {"error", "removed"} : daemon' = [daemon EXCEPT ![g] = s]
    /\ UNCHANGED <<modeVars, phase, ctxDone, card, returned, gid, heard, keep, fileVars, pipeVars, tries>>

FileVanishes(f) ==
    /\ kind = "aria2"
    /\ f \in disk
    /\ disk' = disk \ {f}
    /\ UNCHANGED <<modeVars, phase, ctxDone, card, returned, aria2Vars, missing, stored, removed,
                   todo, count, pipeVars, tries>>

\* A call is answered or fails: refused, lost, or given up because its context
\* ended.  The error of a failed call never wraps the context's error.
AddURI ==
    /\ phase = "add"
    /\ \/ daemon' = [daemon EXCEPT ![gid] = "active"] /\ phase' = "enqueue" /\ UNCHANGED returned
       \/ phase' = "end" /\ returned' = "rejected" /\ UNCHANGED daemon
    /\ UNCHANGED <<modeVars, ctxDone, card, gid, heard, keep, fileVars, pipeVars, tries>>

ForceRemove == IF daemon[gid] = "active" THEN [daemon EXCEPT ![gid] = "removed"] ELSE daemon

RemoveDownloadResult ==
    IF daemon[gid] \in {"complete", "error", "removed"} THEN [daemon EXCEPT ![gid] = "absent"] ELSE daemon

------------------------------------------------------------------------------
(* aria2: waitForDownload, transferFiles *)

\* The select: the context ended ...
WaitSeesCancel ==
    /\ phase = "wait"
    /\ ctxDone
    /\ phase' = "force"
    /\ UNCHANGED <<modeVars, ctxDone, card, returned, aria2Vars, fileVars, pipeVars, tries>>

\* ... or the ticker fired.
WaitTicks ==
    /\ phase = "wait"
    /\ phase' = "tell"
    /\ UNCHANGED <<modeVars, ctxDone, card, returned, aria2Vars, fileVars, pipeVars, tries>>

\* getStatus: the stopped list has what TellStatus could not say.
GetStatus ==
    /\ phase = "tell"
    /\ heard' \in {daemon[gid], "lost"} \ {"absent"}
    /\ phase' = "told"
    /\ UNCHANGED <<modeVars, ctxDone, card, returned, gid, daemon, keep, fileVars, pipeVars, tries>>

\* Variant: a download that was removed is waited for.
WaitIgnoresRemoved ==
    /\ phase = "told"
    /\ CASE heard \in {"active", "removed"} ->
              phase' = "wait" /\ UNCHANGED <<gid, card, returned>>
         [] heard = "complete" /\ gid = Meta ->
              phase' = "wait" /\ gid' = Real /\ UNCHANGED <<card, returned>>
         [] heard = "complete" /\ gid = Real ->
              phase' = "files" /\ UNCHANGED <<gid, card, returned>>
         [] OTHER -> Finish("failed") /\ UNCHANGED gid
    /\ UNCHANGED <<modeVars, ctxDone, daemon, heard, keep, fileVars, pipeVars, tries>>

\* The rest of an iteration of waitForDownload.
WaitDecides ==
    /\ phase = "told"
    /\ CASE heard = "active" ->
              phase' = "wait" /\ UNCHANGED <<gid, card, returned>>
         [] heard = "complete" /\ gid = Meta ->
              phase' = "wait" /\ gid' = Real /\ UNCHANGED <<card, returned>>
         [] heard = "complete" /\ gid = Real ->
              phase' = "files" /\ UNCHANGED <<gid, card, returned>>
         [] OTHER -> Finish("failed") /\ UNCHANGED gid
    /\ UNCHANGED <<modeVars, ctxDone, daemon, heard, keep, fileVars, pipeVars, tries>>

\* cancelAria2Download: two calls under a context of their own.
CancelForces ==
    /\ phase = "force"
    /\ daemon' \in {ForceRemove, daemon}
    /\ phase' = "forget"
    /\ UNCHANGED <<modeVars, ctxDone, card, returned, gid, heard, keep, fileVars, pipeVars, tries>>

CancelForgets ==
    /\ phase = "forget"
    /\ daemon' \in {RemoveDownloadResult, daemon}
    /\ Finish("cancelled")
    /\ UNCHANGED <<modeVars, ctxDone, gid, heard, keep, fileVars, pipeVars, tries>>

\* The head of transferFiles: the final status and its list of files.
ListFiles ==
    /\ phase = "files"
    /\ \/ daemon[gid] # "absent" /\ phase' = "transfer" /\ todo' = Files /\ UNCHANGED <<card, returned>>
       \/ Finish("failed") /\ UNCHANGED todo
    /\ UNCHANGED <<modeVars, ctxDone, aria2Vars, disk, missing, stored, removed, count, pipeVars, tries>>

RemoveFileIfNeeded(f) ==
    IF keep \/ f \notin disk THEN UNCHANGED <<disk, removed>>
    ELSE disk' = disk \ {f} /\ removed' = removed \cup {f}

\* An unselected file is skipped, a torrent file removed.
SkipFile(f) ==
    /\ phase = "transfer" /\ kind = "aria2"
    /\ f \in todo
    /\ f \notin Selected \/ f \in Torrents
    /\ todo' = todo \ {f}
    /\ IF f \in Selected THEN RemoveFileIfNeeded(f) ELSE UNCHANGED <<disk, removed>>
    /\ UNCHANGED <<modeVars, phase, ctxDone, card, returned, aria2Vars, missing, stored, count, pipeVars, tries>>

\* Variant: a file whose Save failed is removed and counted as the others are.
TransferAria2Careless(f) ==
    /\ phase = "transfer" /\ kind = "aria2"
    /\ f \in todo \cap (Selected \ Torrents)
    /\ todo' = todo \ {f}
    /\ count' = count + 1
    /\ RemoveFileIfNeeded(f)
    /\ stored' \in {stored, stored \cup {f}}
    /\ missing' = IF f \in disk THEN missing ELSE missing \cup {f}
    /\ UNCHANGED <<modeVars, phase, ctxDone, card, returned, aria2Vars, pipeVars, tries>>

\* A file that is not there counts as transferred; a Save that fails ends it.
TransferAria2(f) ==
    /\ phase = "transfer" /\ kind = "aria2"
    /\ f \in todo \cap (Selected \ Torrents)
    /\ \/ /\ todo' = todo \ {f}
          /\ count' = count + 1
          /\ RemoveFileIfNeeded(f)
          /\ IF f \in disk THEN stored' = stored \cup {f} /\ UNCHANGED missing
             ELSE missing' = missing \cup {f} /\ UNCHANGED stored
          /\ UNCHANGED <<phase, card, returned>>
       \/ /\ f \in disk
          /\ \E r \in Failure : Finish(r)
          /\ UNCHANGED fileVars
    /\ UNCHANGED <<modeVars, ctxDone, aria2Vars, pipeVars, tries>>

Aria2Ends ==
    /\ phase = "transfer" /\ kind = "aria2"
    /\ todo = {}
    /\ IF count = 0 THEN Finish("failed")
       ELSE phase' = "result" /\ card' = "ok" /\ UNCHANGED returned
    /\ UNCHANGED <<modeVars, ctxDone, aria2Vars, fileVars, pipeVars, tries>>

\* The card is final before the daemon forgets the download.
Aria2Cleans ==
    /\ phase = "result"
    /\ daemon' \in {RemoveDownloadResult, daemon}
    /\ phase' = "end" /\ returned' = "ok"
    /\ UNCHANGED <<modeVars, ctxDone, card, gid, heard, keep, fileVars, pipeVars, tries>>

------------------------------------------------------------------------------
(* yt-dlp *)

YtdlpMkdir ==
    /\ phase = "mkdir"
    /\ \/ phase' = "run" /\ UNCHANGED <<card, returned>>
       \/ Finish("failed")
    /\ UNCHANGED <<modeVars, ctxDone, aria2Vars, fileVars, pipeVars, tries>>

\* Variant: the failure of the program is returned before the card is told.
DownloadFilesSilently ==
    /\ phase = "run"
    /\ \/ \E D \in (SUBSET Files) \ {{}} :
             disk' = D /\ todo' = D /\ phase' = "transfer" /\ UNCHANGED <<card, returned>>
       \/ \E r \in Failure : phase' = "end" /\ returned' = r /\ UNCHANGED <<card, disk, todo>>
    /\ UNCHANGED <<modeVars, ctxDone, aria2Vars, missing, stored, removed, count, pipeVars, tries>>

\* The program wrote some files; when it failed, or wrote none, the directory
\* goes with what is in it.
DownloadFiles ==
    /\ phase = "run"
    /\ \/ \E D \in (SUBSET Files) \ {{}} :
             disk' = D /\ todo' = D /\ phase' = "transfer" /\ UNCHANGED <<card, returned>>
       \/ \E r \in Failure : Finish(r) /\ UNCHANGED <<disk, todo>>
    /\ UNCHANGED <<modeVars, ctxDone, aria2Vars, missing, stored, removed, count, pipeVars, tries>>

\* One file of the directory; the first that fails ends the task, and the
\* directory is removed with the files in it.
TransferYtdlp(f) ==
    /\ phase = "transfer" /\ kind = "ytdlp"
    /\ f \in todo
    /\ \/ stored' = stored \cup {f} /\ todo' = todo \ {f} /\ UNCHANGED <<phase, card, returned, disk>>
       \/ \E r \in Failure : Finish(r) /\ disk' = {} /\ UNCHANGED <<stored, todo>>
    /\ UNCHANGED <<modeVars, ctxDone, aria2Vars, missing, removed, count, pipeVars, tries>>

YtdlpEnds ==
    /\ phase = "transfer" /\ kind = "ytdlp"
    /\ todo = {}
    /\ Finish("ok")
    /\ disk' = {}
    /\ UNCHANGED <<modeVars, ctxDone, aria2Vars, missing, stored, removed, todo, count, pipeVars, tries>>

------------------------------------------------------------------------------
(* A single Telegram file: through a local file *)

CacheFile == CHOOSE f \in Files : TRUE

\* The card has been started, and a file that cannot be created leaves it so.
CreateLocal ==
    /\ phase = "create"
    /\ \/ disk' = {CacheFile} /\ phase' = "download" /\ UNCHANGED returned
       \/ phase' = "end" /\ returned' = "failed" /\ UNCHANGED disk
    /\ UNCHANGED <<modeVars, ctxDone, card, aria2Vars, missing, stored, removed, todo, count, pipeVars, tries>>

Download ==
    /\ phase = "download"
    /\ \/ phase' = "save" /\ UNCHANGED <<card, returned, disk>>
       \/ \E r \in Failure : Finish(r) /\ disk' = {}
    /\ UNCHANGED <<modeVars, ctxDone, aria2Vars, missing, stored, removed, todo, count, pipeVars, tries>>

SaveFile ==
    /\ phase = "save"
    /\ \/ stored' = {CacheFile} /\ Finish("ok") /\ disk' = {} /\ UNCHANGED tries
       \/ tries' = tries + 1 /\ phase' = "backoff" /\ UNCHANGED <<card, returned, stored, disk>>
    /\ UNCHANGED <<modeVars, ctxDone, aria2Vars, missing, removed, todo, count, pipeVars>>

\* retry.Retry: another attempt, or an error that does not name a cancellation.
SaveRetries ==
    /\ phase = "backoff"
    /\ \/ tries < Retry /\ phase' = "save" /\ UNCHANGED <<card, returned, disk>>
       \/ (tries = Retry \/ ctxDone) /\ Finish("failed") /\ disk' = {}
    /\ UNCHANGED <<modeVars, ctxDone, aria2Vars, missing, stored, removed, todo, count, pipeVars, tries>>

------------------------------------------------------------------------------
(* A single Telegram file: through a pipe *)

InPipe == /\ phase = "pipe"
          /\ UNCHANGED <<modeVars, ctxDone, aria2Vars, disk, missing, removed, todo, count, closes, tries>>

\* The download has the next block, the end of the file, or an error.
PipeFetch ==
    /\ InPipe
    /\ down = "fetching"
    /\ \/ left > 0 /\ down' = "writing"
       \/ left = 0 /\ down' = "closed"
       \/ down' = "failed"
    /\ UNCHANGED <<phase, card, returned, stored, up, left>>

PipeRead ==
    /\ InPipe
    /\ up = "reading" /\ down = "writing"
    /\ down' = "fetching"
    /\ left' = left - 1
    /\ UNCHANGED <<phase, card, returned, stored, up>>

\* Save returns: it has read to the end, or it failed, at any time.
PipeSaves ==
    /\ InPipe
    /\ up = "reading"
    /\ \/ down = "closed" /\ up' = "ok" /\ stored' = {CacheFile}
       \/ up' = "failed" /\ UNCHANGED stored
    /\ UNCHANGED <<phase, card, returned, down, left>>

\* A write fails when the storage closed its end; otherwise it waits, for the
\* task closes the pipe only after both have returned.
PipeWriteFails ==
    /\ InPipe
    /\ down = "writing" /\ up = "failed" /\ closes
    /\ down' = "failed"
    /\ UNCHANGED <<phase, card, returned, stored, up, left>>

PipeEnds ==
    /\ InPipe
    /\ up # "reading" /\ down \in {"closed", "failed"}
    /\ IF up = "ok" /\ down = "closed" THEN Finish("ok") ELSE \E r \in Failure : Finish(r)
    /\ UNCHANGED <<stored, up, down, left>>

------------------------------------------------------------------------------

Aria2 ==
    \/ AddURI \/ WaitSeesCancel \/ WaitTicks \/ GetStatus \/ WaitDecides
    \/ CancelForces \/ CancelForgets \/ ListFiles \/ Aria2Ends \/ Aria2Cleans
    \/ \E f \in Files : SkipFile(f) \/ TransferAria2(f)

Ytdlp == YtdlpMkdir \/ DownloadFiles \/ YtdlpEnds \/ \E f \in Files : TransferYtdlp(f)

TGFile ==
    \/ CreateLocal \/ Download \/ SaveFile \/ SaveRetries
    \/ PipeFetch \/ PipeRead \/ PipeSaves \/ PipeWriteFails \/ PipeEnds

Daemon == \E g \in Gids : DaemonCompletes(g) \/ DaemonFails(g)

FetchNext ==
    \/ Enqueue \/ Start \/ Cancel
    \/ Aria2 \/ Ytdlp \/ TGFile
    \/ Daemon \/ \E f \in Files : FileVanishes(f)

\* A worker comes to the task and Execute goes on; the daemon ends each
\* download, for one that is paused or stalled is waited for without end.
FetchFairness == WF_fetchVars(Enqueue \/ Start \/ Aria2 \/ Ytdlp \/ TGFile) /\ WF_fetchVars(Daemon)

FetchSpec == FetchInit /\ [][FetchNext]_fetchVars

FetchFairSpec == FetchSpec /\ FetchFairness

------------------------------------------------------------------------------
(* Properties *)

Results == {"ok", "failed", "cancelled"}

\* Every variable stays in its set.
FetchTypeOK ==
    /\ kind \in {"aria2", "ytdlp", "tfile"}
    /\ phase \in {"add", "enqueue", "queued", "wait", "tell", "told", "force", "forget", "files",
                  "transfer", "result", "mkdir", "run", "create", "download", "save", "backoff",
                  "pipe", "end"}
    /\ ctxDone \in BOOLEAN /\ keep \in BOOLEAN /\ stream \in BOOLEAN /\ closes \in BOOLEAN
    /\ card \in Results \cup {"none", "started"}
    /\ returned \in Results \cup {"none", "rejected", "dropped"}
    /\ gid \in Gids
    /\ daemon \in [Gids -> {"absent", "active", "complete", "error", "removed"}]
    /\ heard \in {"nothing", "lost", "active", "complete", "error", "removed"}
    /\ disk \subseteq Files /\ missing \subseteq Files /\ stored \subseteq Files
    /\ removed \subseteq Files /\ todo \subseteq Files
    /\ count \in Nat
    /\ tries \in 0..Retry
    /\ up \in {"reading", "ok", "failed"}
    /\ down \in {"fetching", "writing", "closed", "failed"}
    /\ left \in 0..Blocks

\* Each of the many exits of Execute finishes the progress card with the result
\* it returns; one exit of the single-file task does not, and leaves the card
\* of a failed task as it started.
CardTellsResult ==
    (phase = "end" /\ returned \in Results) =>
        \/ card = returned
        \/ kind = "tfile" /\ ~stream /\ card = "started" /\ returned = "failed" /\ stored = {}

\* A task that succeeded has stored every file it was to store, and at least
\* one, except those that were gone from the disk when their turn came: these
\* count as transferred.
SuccessMeansStored ==
    returned = "ok" =>
        /\ stored \cup missing # {}
        /\ kind = "aria2" => Selected \ Torrents \subseteq stored \cup missing
        /\ todo = {}

\* The task removes a downloaded file only when the storage has it, so that one
\* whose transfer failed can be fetched from the aria2 directory; the private
\* files of the other tasks are gone with them.
RemovedWhenStored ==
    /\ removed \subseteq stored \cup Torrents
    /\ (phase = "end" /\ kind # "aria2") => disk = {}

\* The one way a task never ends: the storage failed without closing its end of
\* the pipe while the download was writing to it.
Stuck == phase = "pipe" /\ up = "failed" /\ down = "writing" /\ ~closes

\* Every task ends, or is stuck in its pipe.
TaskEnds == <>(phase = "end" \/ Stuck)

=============================================================================
