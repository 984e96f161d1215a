----------------------------- MODULE BatchFile -----------------------------
(***************************************************************************)
(* The batch file engine of core/tasks/batchtfile: one Execute over a list *)
(* of files.  Consecutive files of one media group, on a storage that can  *)
(* save albums, are downloaded to the cache and saved in one call; all     *)
(* other consecutive files are processed one by one, each either through   *)
(* the cache with upload retries or by streaming through a pipe.  Either   *)
(* way the goroutines of a call run in an errgroup with a limit, whose     *)
(* first error ends the context of the others.                             *)
(*                                                                         *)
(* Downloads and storage calls are external: they take any time, and end   *)
(* well, with an error of their own, or with the error of an ended context.*)
(* A Save that fails may close the pipe it was reading (net/http closes    *)
(* the body of a request) or leave it as it is.                            *)
(***************************************************************************)
EXTENDS Naturals, FiniteSets, FiniteSetsExt

CONSTANTS N,       \* number of files
          Shapes,  \* lists of files to check: [stream, key], by position
          NoKey,   \* the key of a file that is not saved as part of a group
          Limit,   \* config workers: goroutines of one errgroup
          Retry,   \* config retry: upload attempts
          Chunks   \* writes that make up a streamed file

Items == 1..N

ASSUME BatchAssumption ==
    /\ {N, Limit, Retry, Chunks} \subseteq Nat \ {0}
    /\ \A s \in Shapes : s.stream \in [Items -> BOOLEAN] /\ DOMAIN s.key = Items

VARIABLES
    shape,     \* the files of the task; fixed
    ignore,    \* Task.IgnoreErrors; fixed
    next,      \* first file of the call under way
    main,      \* where Execute is: in the errgroup, saving a group, returned
    groupErr,  \* first error of the errgroup
    execErr,   \* what Execute has returned
    ctxDone,   \* the task's context
    item,      \* the goroutine and the progress state of each file
    cache      \* files that have a cache file

fixedVars == <<shape, ignore>>
mainVars == <<next, main, execErr>>
vars == <<fixedVars, mainVars, groupErr, ctxDone, item, cache>>

Errors == {"none", "error", "canceled"}

NewItem == [pc |-> "idle",        \* where its goroutine is
            phase |-> "waiting",  \* itemProgressState.phase
            err |-> "none",       \* its first error
            fails |-> 0,          \* failed upload attempts
            writer |-> "fetch",   \* stream: the downloading goroutine
            reader |-> "saving",  \* stream: the goroutine in Save
            pipe |-> "open",      \* stream: how the writer has closed the pipe
            got |-> 0,            \* stream: writes the storage has received
            stored |-> "no"]      \* what a Save that succeeded has stored

Init ==
    /\ shape \in Shapes
    /\ ignore \in BOOLEAN
    /\ next = 1
    /\ main = "group"
    /\ groupErr = "none"
    /\ execErr = "none"
    /\ ctxDone = FALSE
    /\ item = [i \in Items |-> NewItem]
    /\ cache = {}

------------------------------------------------------------------------------
(* Calls of Execute: a media group, or the files up to the next one *)

Call == {j \in next..N : \A k \in next..j : shape.key[k] = shape.key[next]}

IsBatch == shape.key[next] # NoKey

GroupDone == ctxDone \/ groupErr # "none"

\* errgroup and markItemFailed keep what came first.
First(e, f) == IF e = "none" THEN f ELSE e

\* Variant: every error is the group's.
ReportedAlways(e) == e

\* An error of the file's own is not the group's when errors are ignored.
Reported(e) == IF e = "error" /\ ignore THEN "none" ELSE e

\* How an operation may fail: on its own, or because its context is done.  That
\* an operation reports a cancellation nobody asked for is left to BulkDL.
Failures(done) == IF done THEN {"error", "canceled"} ELSE {"error"}

\* markItemFailed
MarkFailed(p, e) ==
    IF p \in {"completed", "failed"} THEN p ELSE IF e = "canceled" THEN "stopped" ELSE "failed"

\* finishItems, when Execute returns an error
FinishItems(it) ==
    [i \in Items |-> IF it[i].phase \in {"completed", "failed"} THEN it[i]
                     ELSE [it[i] EXCEPT !.phase = "stopped"]]

\* Variant: the cache files of a group are removed only when it was saved.
CleanedIfSaved(err) == IF IsBatch /\ err = "none" THEN Call ELSE {}

\* Cache files processBatch removes when it returns.
Cleaned(err) == IF IsBatch THEN Call ELSE {}

\* A call returns err: Execute stops at an error it does not ignore, or goes
\* on with the next call.
CallReturns(err, it) ==
    LET stops == err = "canceled" \/ (err = "error" /\ ~ignore)
        last == Max(Call) = N
    IN  /\ groupErr' = "none"
        /\ cache' = cache \ Cleaned(err)
        /\ execErr' = IF stops THEN err ELSE "none"
        /\ item' = IF stops THEN FinishItems(it) ELSE it
        /\ IF stops \/ last
           THEN main' = "returned" /\ UNCHANGED next
           ELSE main' = "group" /\ next' = Max(Call) + 1

------------------------------------------------------------------------------
(* The goroutine of a file *)

\* eg.Go, in list order, when the limit allows; markProcessing
Spawn(i) ==
    /\ main = "group"
    /\ i \in Call
    /\ \A j \in Call : item[j].pc = "idle" => i <= j
    /\ item[i].pc = "idle"
    /\ Cardinality({j \in Call : item[j].pc \notin {"idle", "exited"}}) < Limit
    /\ item' = [item EXCEPT ![i].phase = "active",
                            ![i].pc = IF shape.stream[i] /\ ~IsBatch THEN "stream" ELSE "create"]
    /\ UNCHANGED <<fixedVars, mainVars, groupErr, ctxDone, cache>>

\* The goroutine of file i returns err; `it` is what it leaves behind.
Exit(i, err, it) ==
    /\ item' = [item EXCEPT ![i] = [it EXCEPT !.pc = "exited", !.err = err]]
    /\ groupErr' = First(groupErr, Reported(err))

CreateFile(i) ==
    /\ item[i].pc = "create"
    /\ item' = [item EXCEPT ![i].pc = "download"]
    /\ cache' = cache \cup {i}
    /\ UNCHANGED <<fixedVars, mainVars, groupErr, ctxDone>>

CreateFails(i) ==
    /\ item[i].pc = "create"
    /\ Exit(i, "error", [item[i] EXCEPT !.phase = MarkFailed(@, "error")])
    /\ UNCHANGED <<fixedVars, mainVars, ctxDone, cache>>

\* A file of a group is done for now; any other goes on to its upload.
DownloadSucceeds(i) ==
    /\ item[i].pc = "download"
    /\ IF IsBatch
       THEN Exit(i, "none", [item[i] EXCEPT !.phase = "downloaded"])
       ELSE /\ item' = [item EXCEPT ![i].phase = "downloaded", ![i].pc = "upload"]
            /\ UNCHANGED groupErr
    /\ UNCHANGED <<fixedVars, mainVars, ctxDone, cache>>

\* The download, or closing or inspecting the cache file, fails.
DownloadFails(i) ==
    /\ item[i].pc = "download"
    /\ \E e \in Failures(GroupDone) :
         Exit(i, e, [item[i] EXCEPT !.phase = MarkFailed(@, e)])
    /\ cache' = IF IsBatch THEN cache ELSE cache \ {i}
    /\ UNCHANGED <<fixedVars, mainVars, ctxDone>>

UploadSucceeds(i) ==
    /\ item[i].pc = "upload"
    /\ Exit(i, "none", [item[i] EXCEPT !.phase = "completed", !.stored = "whole"])
    /\ cache' = cache \ {i}
    /\ UNCHANGED <<fixedVars, mainVars, ctxDone>>

UploadFails(i) ==
    /\ item[i].pc = "upload"
    /\ item' = [item EXCEPT ![i].phase = "retrying", ![i].pc = "backoff", ![i].fails = @ + 1]
    /\ UNCHANGED <<fixedVars, mainVars, groupErr, ctxDone, cache>>

RetryUpload(i) ==
    /\ item[i].pc = "backoff"
    /\ item[i].fails < Retry
    /\ item' = [item EXCEPT ![i].pc = "upload"]
    /\ UNCHANGED <<fixedVars, mainVars, groupErr, ctxDone, cache>>

\* The attempts are used up, or the context ends the wait.
GiveUp(i) ==
    /\ item[i].pc = "backoff"
    /\ item[i].fails = Retry \/ GroupDone
    /\ \E e \in Failures(GroupDone) :
         Exit(i, e, [item[i] EXCEPT !.phase = MarkFailed(@, e)])
    /\ cache' = cache \ {i}
    /\ UNCHANGED <<fixedVars, mainVars, ctxDone>>

------------------------------------------------------------------------------
(* Stream mode: Save reads from the pipe what the downloader writes *)

StreamDone(i) == GroupDone \/ item[i].err # "none"

\* The next part of the file has been downloaded; Write blocks in the pipe.
Fetch(i) ==
    /\ item[i].pc = "stream" /\ item[i].writer = "fetch"
    /\ item[i].got < Chunks
    /\ item' = [item EXCEPT ![i].writer = "write"]
    /\ UNCHANGED <<fixedVars, mainVars, groupErr, ctxDone, cache>>

Transfer(i) ==
    /\ item[i].pc = "stream" /\ item[i].writer = "write"
    /\ item[i].reader = "saving"
    /\ item' = [item EXCEPT ![i].writer = "fetch", ![i].got = @ + 1]
    /\ UNCHANGED <<fixedVars, mainVars, groupErr, ctxDone, cache>>

\* The whole file is written: pw.Close
WriterEnds(i) ==
    /\ item[i].pc = "stream" /\ item[i].writer = "fetch"
    /\ item[i].got = Chunks
    /\ item' = [item EXCEPT ![i].writer = "done", ![i].pipe = "eof"]
    /\ UNCHANGED <<fixedVars, mainVars, groupErr, ctxDone, cache>>

\* Variant: a download that fails leaves the pipe to Save.
BreakLeavesOpen(it, e) == [it EXCEPT !.writer = "done", !.phase = MarkFailed(@, e), !.err = First(@, e)]

\* Variant: the pipe is closed as after the last part.
BreakAsEnd(it, e) ==
    [it EXCEPT !.writer = "done", !.pipe = "eof", !.phase = MarkFailed(@, e), !.err = First(@, e)]

\* markItemFailed and pw.CloseWithError
Break(it, e) ==
    [it EXCEPT !.writer = "done", !.pipe = "broken", !.phase = MarkFailed(@, e), !.err = First(@, e)]

\* The download fails, or the pipe was closed under a Write.
WriterFails(i) ==
    /\ item[i].pc = "stream"
    /\ item[i].writer = "fetch" \/ (item[i].writer = "write" /\ item[i].reader = "closed")
    /\ \E e \in Failures(StreamDone(i)) : item' = [item EXCEPT ![i] = Break(@, e)]
    /\ UNCHANGED <<fixedVars, mainVars, groupErr, ctxDone, cache>>

SaveSucceeds(i) ==
    /\ item[i].pc = "stream" /\ item[i].reader = "saving"
    /\ item[i].pipe = "eof"
    /\ item' = [item EXCEPT ![i].reader = "done",
                            ![i].stored = IF item[i].got = Chunks THEN "whole" ELSE "part"]
    /\ UNCHANGED <<fixedVars, mainVars, groupErr, ctxDone, cache>>

\* Variant: a failed Save is left to the errgroup.
SaveFailsUnmarked(i) ==
    /\ item[i].pc = "stream" /\ item[i].reader = "saving"
    /\ \E e \in Failures(StreamDone(i)), r \in {"closed", "left"} :
         item' = [item EXCEPT ![i].reader = r, ![i].err = First(@, e)]
    /\ UNCHANGED <<fixedVars, mainVars, groupErr, ctxDone, cache>>

\* Save fails, and closes the pipe or leaves it to itself.
SaveFails(i) ==
    /\ item[i].pc = "stream" /\ item[i].reader = "saving"
    /\ \E e \in Failures(StreamDone(i)), r \in {"closed", "left"} :
         item' = [item EXCEPT ![i].reader = r, ![i].phase = MarkFailed(@, e), ![i].err = First(@, e)]
    /\ UNCHANGED <<fixedVars, mainVars, groupErr, ctxDone, cache>>

\* Both goroutines have returned.
StreamJoin(i) ==
    /\ item[i].pc = "stream"
    /\ item[i].writer = "done" /\ item[i].reader # "saving"
    /\ Exit(i, item[i].err,
            [item[i] EXCEPT !.phase = IF item[i].err = "none" THEN "completed" ELSE @])
    /\ UNCHANGED <<fixedVars, mainVars, ctxDone, cache>>

------------------------------------------------------------------------------
(* The end of the errgroup, and the save of a media group *)

AllExited == main = "group" /\ \A j \in Call : item[j].pc = "exited"

Downloaded == {j \in Call : item[j].err = "none"}

\* An error of the group, or a call that does not save a group.
GroupReturns ==
    /\ AllExited
    /\ groupErr # "none" \/ ~IsBatch
    /\ CallReturns(groupErr, item)
    /\ UNCHANGED <<fixedVars, ctxDone>>

NothingDownloaded ==
    /\ AllExited
    /\ groupErr = "none" /\ IsBatch /\ Downloaded = {}
    /\ CallReturns("error", item)
    /\ UNCHANGED <<fixedVars, ctxDone>>

\* A cache file cannot be opened: the call returns with the other files of
\* the group neither saved nor failed.
OpenFails(i) ==
    /\ AllExited
    /\ groupErr = "none" /\ IsBatch /\ i \in Downloaded
    /\ CallReturns("error", [item EXCEPT ![i].phase = MarkFailed(@, "error")])
    /\ UNCHANGED <<fixedVars, ctxDone>>

OpenAll ==
    /\ AllExited
    /\ groupErr = "none" /\ IsBatch /\ Downloaded # {}
    /\ main' = "save"
    /\ UNCHANGED <<fixedVars, next, execErr, groupErr, ctxDone, item, cache>>

SaveBatchSucceeds ==
    /\ main = "save"
    /\ CallReturns("none", [i \in Items |->
           IF i \in Downloaded THEN [item[i] EXCEPT !.phase = "completed", !.stored = "whole"]
           ELSE item[i]])
    /\ UNCHANGED <<fixedVars, ctxDone>>

SaveBatchFails ==
    /\ main = "save"
    /\ \E e \in Failures(ctxDone) :
         CallReturns(e, [i \in Items |->
             IF i \in Downloaded THEN [item[i] EXCEPT !.phase = MarkFailed(@, e)] ELSE item[i]])
    /\ UNCHANGED <<fixedVars, ctxDone>>

Cancel ==
    /\ main # "returned"
    /\ ~ctxDone
    /\ ctxDone' = TRUE
    /\ UNCHANGED <<fixedVars, mainVars, groupErr, item, cache>>

FileStep(i) ==
    \/ CreateFile(i)
    \/ CreateFails(i)
    \/ DownloadSucceeds(i)
    \/ DownloadFails(i)
    \/ UploadSucceeds(i)
    \/ UploadFails(i)
    \/ RetryUpload(i)
    \/ GiveUp(i)
    \/ StreamJoin(i)

WriterStep(i) == Fetch(i) \/ Transfer(i) \/ WriterEnds(i) \/ WriterFails(i)

SaveStep(i) == SaveSucceeds(i) \/ SaveFails(i)

MainStep ==
    \/ \E i \in Items : Spawn(i) \/ OpenFails(i)
    \/ GroupReturns
    \/ NothingDownloaded
    \/ OpenAll
    \/ SaveBatchSucceeds
    \/ SaveBatchFails

Next ==
    \/ \E i \in Items : FileStep(i) \/ WriterStep(i) \/ SaveStep(i)
    \/ MainStep
    \/ Cancel

\* Goroutines that can take a step do: downloads and storage calls return.  A
\* storage that waits for the pipe ends by itself only when the pipe has ended.
Fairness ==
    /\ WF_vars(MainStep)
    /\ \A i \in Items : WF_vars(FileStep(i)) /\ WF_vars(WriterStep(i))
                        /\ WF_vars(item[i].pipe # "open" /\ SaveStep(i))

Spec == Init /\ [][Next]_vars /\ Fairness

------------------------------------------------------------------------------
(* Properties *)

ItemState ==
    [pc : {"idle", "create", "download", "upload", "backoff", "stream", "exited"},
     phase : {"waiting", "active", "downloaded", "retrying", "completed", "failed", "stopped"},
     err : Errors,
     fails : 0..Retry,
     writer : {"fetch", "write", "done"},
     reader : {"saving", "done", "closed", "left"},
     pipe : {"open", "eof", "broken"},
     got : 0..Chunks,
     stored : {"no", "whole", "part"}]

\* Every variable stays in its set.
TypeOK ==
    /\ shape \in Shapes
    /\ ignore \in BOOLEAN
    /\ next \in Items
    /\ main \in {"group", "save", "returned"}
    /\ groupErr \in Errors
    /\ execErr \in Errors
    /\ ctxDone \in BOOLEAN
    /\ item \in [Items -> ItemState]
    /\ cache \in SUBSET Items

\* A file left behind in the cache: with IgnoreErrors, a group whose save was
\* given up because the cache file of another member could not be opened.
LeftBehind(i) ==
    /\ ignore
    /\ item[i].phase = "downloaded"
    /\ \E j \in Items \ {i} : shape.key[j] = shape.key[i] /\ item[j].phase = "failed"

\* When Execute returns no error, every file is completed, or failed and
\* ignored; bulk downloads decide from these phases what to try again.
NilMeansSettled ==
    main = "returned" /\ execErr = "none" =>
        \A i \in Items : \/ item[i].phase = "completed"
                         \/ ignore /\ item[i].phase = "failed"
                         \/ LeftBehind(i)

\* A download that fails never looks like the end of the file to the storage
\* that reads from the pipe, and a file is completed only when a Save has
\* stored all of it.
StoredWhole ==
    \A i \in Items : /\ item[i].stored # "part"
                     /\ item[i].phase = "completed" => item[i].stored = "whole"

\* With IgnoreErrors, and unless the task is cancelled, the failure of one
\* file ends no other and no file counts as stopped, however the two halves of
\* a stream fail after each other.
FailuresStayIsolated ==
    ignore /\ ~ctxDone =>
        groupErr = "none" /\ execErr = "none" /\ \A i \in Items : item[i].phase # "stopped"

\* No cache file outlives the task.
CacheIsEmptied == main = "returned" => cache = {}

\* The pipe nobody reads: Save has returned without closing it while the
\* downloader is blocked in a Write that no context ends.
Blocked(i) == item[i].pc = "stream" /\ item[i].reader = "left" /\ item[i].writer = "write"

\* Execute returns, unless the storage gives up on a pipe without closing it.
ExecuteReturns == <>(main = "returned" \/ \E i \in Items : Blocked(i))
==============================================================================
