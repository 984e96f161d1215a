# SaveAny-Bot in TLA+

TLA+ models, model-checking instances and machine-checked proofs of SaveAny-Bot (`src/`, Go): the
task queue and its workers, the API's view of the tasks, every kind of task and its progress card,
the watchers that make tasks, the dialogs that make them, and the Telegram storage. The modules are
translated from the source; `PROJECT.json` maps every definition to the lines it stands for, and
lists runs, mutants, hazards and theorems.

## 1. The system

SaveAny-Bot downloads Telegram media and other links to storage back ends. A Telegram bot, a user
client and an HTTP API create *tasks*; `core` runs them on a pool of workers.

| Component | State | Operations | Talks to | What makes it correct | Module |
|---|---|---|---|---|---|
| Task queue (`pkg/queue`) | list of queued tasks, `taskMap`, `runningTaskMap`, `closed`; mutex, condition variable | Add, Get, Done, CancelTask, Close; listings | all handlers, all workers | list and maps agree; one live task per identifier; identifiers are released; no lost wakeup; Close drains | `TaskQueue` |
| Worker pool (`core/core.go`, `cmd/run.go`) | one goroutine per `workers` | Get, start event, Execute, final event, Done | queue, event sink | every accepted task is executed, or dropped as cancelled | `TaskQueue`, `ProgressStore` |
| API progress store, DELETE, webhook (`api/`) | a record per API task, its status, `webhookNotified` | register, delete, Emit, UpdateStatus, CleanupExpired, SendWebhook | queue, events, an HTTP endpoint | the status tells what became of the task; the webhook is tried, as long as the process is there | `ProgressStore` |
| Bulk download (`core/tasks/bulkdl`, `database/bulkdl.go`) | checkpoint row; a run's failed set, pages, cursor | load, retry, collect, replay, save; cancel, reset | Telegram history, batch engine, database | nothing below the checkpoint is lost, but in four known ways | `BulkDL` |
| Batch engine (`core/tasks/batchtfile`) | phase per file, group per media group, cache files, pipes | download, cache or stream, upload, retry | storage, Telegram | every file ends in a final phase; groups upload whole | `BatchFile` |
| Single-file, aria2 and yt-dlp tasks (`tfile`, `aria2dl`, `ytdlp`) | local files, the download in the daemon, a pipe | wait, transfer, clean up, retry | storage, Telegram, aria2 daemon, `yt-dlp` | success means stored; nothing is removed before it is stored; the card ends | `FetchTasks` |
| Link tasks (`directlinks`, `parsed`, `telegraph`, `transfer`) | cache files by name, set of URLs under way, errgroup | HEAD, download, upload, retry | HTTP servers, storage | what is saved is one's own and whole; Execute says what happened | `LinkTasks` |
| Progress cards (`*/progress.go`, `progressutil`) | one number or a lock per tracker, the message | OnStart, OnProgress, OnDone, batch snapshots | Telegram | the last card stays and says how the task ended, failures of single files included | `ProgressCard` |
| Watch debouncer (`cmd/watch/watcher.go`) | a timer per path, last sizes | scan, file events, fire | uploader | every settled change that it is told of is submitted | `Watcher` |
| Watch uploader (`cmd/watch/uploader.go`) | `inflight`, bounded channel, workers | Submit, process, requeue, Close | debouncer, storage | one job per file; no change is lost; nothing regresses | `WatchUploader` |
| Watched chats (`client/user/watch.go`, `client/bot/handlers/watch.go`) | event and timer per message, channel, album buffer per user | deliver, fire, listen, buffer, flush | task creation | each message makes its task once, every file of an album has a task or is dropped for a cause | `ChatWatch` |
| Bot dialogs (`client/bot/handlers`) | callback cache, user's row, wizard state | message, keyboards, rules, silent mode, conflicts | queue, storage | every file is answered for; it is saved where chosen; what exists is treated as the user said | `SaveDialog` |
| Telegram storage (`storage/telegram`) | plan of a batch, attempts | Save, SaveBatch, split, zip, retry | Telegram | albums hold what belongs together; success means sent; nothing twice | `TelegramStore` |
| Chunked downloader, other back ends, login, parsers, configuration | see section 5 | | | | not modelled |

They compose in three places. `ProgressStore` is written over `TaskLifecycle`, the abstract queue that
`TaskQueue` implements. `Watcher` ends in the `Submit` with which `WatchUploader` begins. `BulkDL`
takes from `BatchFile` an outcome per file, `SaveDialog` and `ChatWatch` end in the `Add` of the queue, and
`ProgressCard` hears from the tasks of `BatchFile`, `FetchTasks` and `LinkTasks` the calls that they make.

Hard to test here are: a condition variable with several workers; cancellation outside the lock;
identifiers reused while a cancel is on its way; status writes of worker, DELETE handler and
left-over goroutines in any order; crashes, cancellations and failed writes between a page and its
checkpoint; two runs over one checkpoint; pipes whose ends fail one after the other; timers that
fire while they are stopped; workers that send to the channel they receive from; trackers called by
many goroutines; buttons pressed twice, late or on an old keyboard; answers lost after a message was
sent. `PROJECT.json` lists each at its line under `hazards`, with the properties that cover it.

## 2. The modules

### TaskLifecycle - what the queue promises
The abstract specification: submitted tasks wait in order, a task is started at most once and only
while it is not cancelled, a waiting task is discarded only because it was cancelled, two live tasks
never share an identifier. No lock, maps, wakeups or worker state.

### TaskQueue - `pkg/queue/queue.go`, `core/core.go`
`tasks`, `taskMap`, `runningTaskMap` and `closed` are the fields of `TaskQueue[T]`. `mu` names the
worker that holds the lock over the steps of `Get`; all other operations are one critical section.
`pc` is where a worker is: `get` (about to lock), `loop` (in Get with the lock), `waiting` (in
`cond.Wait`), `woken` (signalled, lock not yet taken again), `running`, `stopped`. `Signal` wakes any
one waiter and `Broadcast` all. `CancelTask` is two steps, since `task.Cancel()` follows the unlock;
`CtxDone` is the end of a parent context. A task object is submitted once, as `core.AddTask` makes a
new one per call, but several have the same identifier. The semaphore of the worker loop has as many
places as there are workers and never blocks, so it is not modelled; hook commands and worker panics
are not either, and Execute is an arbitrary stay in `running`.

### ProgressStore - `api/`
`RegisterTask`/`AddTask`/`AddTaskFails` are `registerAndEnqueueTask`; `TakeTask` .. `QueueDone` are
the worker loop seen from the record; `EmitStart`, `EmitProgress` and `EmitDone` are the locked part
of `Emit`, and `SendWebhook` its unlocked part, which reads `Status` without the mutex although the
comment at `api/progress.go:11` says that all fields are guarded (the read may see either string or
a mix of both: `Torn`). `DeleteLookup` .. `DeleteUpdate` are the steps of the DELETE handler.
`DetachedProgress` is the copy goroutine of a direct-link or parsed task (`Detached`) that `Execute`
does not wait for. `WebhookAttempt` is one POST; the waits between them are not modelled (the
documentation gives 1 s, 2 s, 3 s; the code waits 100 ms and 400 ms). `WebhookGivesUp` is the return
before the first one, when the payload cannot be encoded or the URL makes no request. `BotCancel` is the bot's
`/cancel` and `/tasks cancel`, which cancel a task of the API by its identifier and leave the store alone.
`RootDone` ends every context, and after `CloseQueue` the process may `Exit` at any moment, with whatever
goroutines there are: every other step is `Alive`, that is, of a process that is there.

`EveryAcceptedTaskReports` and `WebhookDelivered` name what they except: tasks that the bot cancelled while
they waited (`silenced`), webhooks given up before a request (`abandoned`), the shutdown and the exit. The
model shows three facts the documentation has otherwise. A silenced task is "queued" for ever, whereas
`docs/content/en/usage/api.md:407` says that it waits to run. A task cancelled while it is queued is dropped
by `Get` without an event, so that its webhook is never called, whereas `docs/content/en/usage/api.md:417`
speaks of every final state. And a late event of a copy goroutine makes a failed task "running" for good,
whereas `api.md:408` gives `running` to tasks that are executing; `StatusTellsOutcome` names that one.

### BulkDL - `core/tasks/bulkdl`, `database/bulkdl.go`
`run[r]` is the local state of one `Execute`; `row` is the checkpoint row; `posted` grows, so runs
meet messages that arrive meanwhile. `LoadCheckpoint` and `SaveCheckpoint` may fail (the code logs
and goes on), and a save fails when the context is done. `RetryFetch`/`RetrySkip`/`RetryBlock` are
`retryFailedMessages`; `CollectPage` is the paging loop with its length test; `ReplayNext`,
`ReplayBlock` and `SaveBlock` the replay. `Outcome` is everything `runBlock` and the batch engine can
do with a page: files that cannot be built, stored, failed, and unfinished ones after a cancellation
(or, with `Interrupts`, without one), cut where the cap is `Reaching`ed. `Crash` ends every run. Each
run starts with media types (`types`, the messages that they select of `Media`) and a cap of its own,
while the row is one for the user and the chat.

There are four ways to lose a message. The history variable `passed` collects three: the engine left its
file neither completed nor failed, and the cursor goes past it (`execute.go:306`, whose comment counts on a
later run); a page that had a service message is shorter than a full page and taken for the last one
(`execute.go:180`); the saved list of failures was full (`execute.go:111`). The fourth is `skipped`: a run
that had not selected the type of a message moves the checkpoint past it (`execute.go:248`), and a later run
that wants it begins above. `NothingLost` says that these are all, also when two runs overwrite each other's
row, and `CompleteRunCoversHistory` lets a run go past what it selected itself only below the checkpoint it
started from. The cap counts files when they join a batch, and not at all in the retry of failed messages,
so a run may store more than `max_files`.

### BatchFile - `core/tasks/batchtfile`
One `Execute` over a list of files. `next` is the first file of the call under way: a media group
(`IsBatch`, `processBatch`) or all files up to the next group (`processElements`); `main` is where
`Execute` is in it, `groupErr` the first error of its errgroup. `item[i]` is the goroutine of a file
(`pc`), its `phase`, and, for a streamed file, the two goroutines of `processElement` (`writer`
downloads into the pipe, `reader` is in `Save`). `Save` may fail and close the pipe or leave it alone
(`closed`, `left`), as the back ends differ. `CallReturns` is the end of a call: the deferred
clean-up, the decision to go on or stop, and `finishItems`. When an upload wait is cut short by the
context, the error may be the last one or the cancellation, since the retry library decides which.

Two facts the model made visible are part of its properties. `LeftBehind`: with `IgnoreErrors`, a
cache file that cannot be opened ends its group and leaves the others `downloaded`, neither completed
nor failed, while `Execute` returns nil. `Blocked`: when `Save` returns before it has read the pipe
and without closing it (as `storage/local` does when it cannot create the file), a downloader in its
`Write` waits for ever, because the deferred `pr.Close` follows `errg.Wait` and no context ends a
pipe write; the task keeps its worker.

### FetchTasks - `core/tasks/tfile`, `aria2dl`, `ytdlp`
One task of one of three kinds. The aria2 daemon is a small system beside it (`DaemonCompletes`,
`DaemonFails`, `FileVanishes`), reached by calls that may fail or be lost: `GetStatus`,
`CancelForces`, `CancelForgets`, `Aria2Cleans`. `WaitTicks` and `WaitSeesCancel` are the select of
`waitForDownload`, `WaitDecides` the rest of its loop, `SkipFile`/`TransferAria2` the loop of
`transferFiles`. `DownloadFiles` is a run of `yt-dlp`. A single file goes through a local file
(`CreateLocal` .. `SaveRetries`) or a pipe (`Pipe...`). Three exceptions stand in the properties: a file
that cannot be created leaves the card of a failed task as it started; files that are gone
count as transferred; the pipe that is not closed, as above. An aria2 download whose task the queue
rejects stays in the daemon.

### LinkTasks - `core/tasks/directlinks`, `parsed`, `telegraph`, `transfer`
A file is a sequence of chunks, each the chunk of a URL, and a cache file a path and an inode, so that
two elements that open one path and truncate or remove each other's file are seen in what they save
(`OpenCache`, `CopyChunk`, `Drop`). `ProcessLink`, `ProcessResource`, `ProcessPic` and `ProcessElement`
are translated one by one over shared steps. `SavedIsOwn` holds only where no other URL of the task has
the file's name: direct links and resources name cache files by file name. A duplicate URL fails
while the first one is under way, and succeeds after it. `OnDone` of a transfer shows a cancellation as
a failure.

### ProgressCard - the trackers
Nine kinds of tracker, each `OnStart`/`OnProgress`/`OnDone` translated from its own file. A `Reporter` is a
goroutine between the call, the check, the store of the atomic number, the rendering and the request, so
that edits overtake each other. `TFileOnProgress` and the batch tracker hold their lock. A download of
unknown size (not `sized`, as photos are) is edited by time alone. The `phase` of a file is what the card
shows, its `result` what the engine has made of it: `BatchFinish` lets a run without an error leave files
`downloaded` beside a failed one, as `BatchFile` has it (`LeftBehind`). `late` is an upload that is still
being read after its request returned and puts its file back among those in transfer. The card of a batch
refuses it after its last edit, which `FinalCardStays` says; before that it hides a failure from the
verdict, so that no property says that a card without failures is of a batch without any. Text is a `face`
and a value `at`.

### Watcher - `cmd/watch/watcher.go`
`pending` is the map's timer of a file, `orphans` the timers a callback replaced without stopping, `cb` the
callbacks, in their three steps (`MaybeUploadStat`, `MaybeUploadDecide`, `MaybeUploadSubmit`); a timer that
has fired cannot be stopped. `AddDir`, `ReadDir` and `ScanStep` are the walks over a new directory, which is
watched before it is read. What fails there is only logged, and the model counts it up to `MaxFaults`: a
watch that is refused (`AddDirFails`; without `-recursive` that is the root, and `Run` returns), a directory
that is read in part (`ReadDir`, `ScanDir`), an event that is lost (`EventLost`). A file changed in a place
nobody looks at any more (`blind`), or between the first scan and the watch (`cmd.go:131`), or whose event
was lost, is `missed` until its next event. A file whose size cannot be read is taken to be gone. A callback
that finds its file gone forgets the timer of the path (`watcher.go:160`), which a new file of that name may have
started; the properties do not speak of files that were removed. `Below` is
the tree, without recursion: what is in every set that is closed under children.

### WatchUploader - `cmd/watch/uploader.go`, `cmd/watch/cmd.go`
`inflight`, `jobs`, `closed` and `ctxDone` are the code's. A file is its version. `SubmitMark` is the
locked part of `Submit`, `SubmitSend`/`SubmitAbort` its select; `Receive` .. `RequeueAbort` are the
worker; `SendOnClosed` is the panic of a send on the closed channel, which `Close` at `uploader.go:225`
allows, since it waits for no timer. `Submitters` are the main loop and the debounce timers. With a
channel smaller than the number of files, workers that queue their files again (`uploader.go:149`) and
the main loop can all wait for room that only workers make; the run gives the channel room for
every file, and so speaks of that case only. Uploads overwrite (`--overwrite`).

### ChatWatch - `client/user/watch.go`, `client/bot/handlers/watch.go`
`event`/`timer` are the map of the user client, `queue` the channel, `current`/`todo` the listener's message
and the users it has yet to handle, `buf`/`bufTimer` the album buffer. A callback that finds no event sends
the zero value, on which the listener panics (`panicked`; `MediaSeenTo` excepts it). A file that is the only
one of its group is dropped, and so is, with a line in the log, one whose storage is not found, whose task
cannot be made, or that the queue refuses (`watch.go:386`, `433`, `438`): `ProcessWatchMediaGroup` chooses
which files of albums it keeps and collects the others in `dropped`; for `MediaSeenTo`, that is an end too.
The files of different groups share one buffer.

### SaveDialog - `client/bot/handlers`
One card at a time with the data in the callback cache: `HandleMedia`, `HandleBatchSave`,
`HandleMessageLink`, `HandleTelegraph`, `HandleText` and the commands make an `Add`; `PressAdd` takes a
press on any of its buttons; `PromptConflict` asks where files exist; `CreateTGFile`, `CreateBatch` and
`CreateOther` make the task, from which files exist, with the rules' storage and directory (`StorageFor`,
`PathForOne`, `PathForMany`, `NewDirs`). A card that was pressed stays and can be pressed again. What the
model shows, and the properties name: of several files, one that a rule sends to a new directory without
another of its album is dropped silently (`Lone`), even when it is the whole range, which silent mode treats
as a batch (`save.go:195`); for a single file the marker of a new directory is taken as a path; a rule
without a path keeps the chosen one for a single file and not in a batch; telegraph pages go to no
directory; only tasks of Telegram files look for what exists, so `ConsentToReplace` asks of the others only
that they replace nothing; silent albums and ranges ignore the default directory, though `silent.md:12`
promises it; a press twice makes two tasks; a new default storage keeps the old directory. The model begins
with the files that were found: a message whose file cannot be looked up (`save.go:151`, `message.go:134`)
is left out of the dialog by the code, with a line in the log at most, and `ReplyAccounts` does not speak of
it.

### TelegramStore - `storage/telegram`
`PlanMediaGroups` is the plan as one operator (`Joins`, `End`), then for each group `Begin`,
`Upload`, `Send`, `AttemptFails`, `TryAgain`. `Send` may fail after Telegram has taken the message
(`lost`). Archives are sent in albums of their parts one after the other (`Remaining`). `GlobFindsNone` is
the archive whose parts are not found because the file's name is taken as a pattern, which indexes an
empty list (`telegram.go:563`); the code then panics, and the model ends the call.

## 3. What is checked

One run for each module with behaviour of its own. Every property is at a hazard of `PROJECT.json`, and has
a mutant there: a bug one could write into that code and with which the property fails.

| Run | Properties | Instance | States |
|---|---|---|---|
| `task_queue` | `MapsMatchQueue`, `OneLiveTaskPerId`, `WakeupsCoverTasks`; `RejectedOnlyForCause`, `ImplementsLifecycle` (refinement), `EveryTaskSettles`, `WorkersDrain` | 2 workers, 3 tasks of which 2 share an identifier, 1 canceller | 59 k |
| `progress_store` | `StatusTellsOutcome`, `LiveTaskTracked`; `EveryAcceptedTaskReports`, `WebhookDelivered` | 2 tasks, one with a webhook and a copy goroutine, 1 DELETE, a bot, 2 attempts | 403 k |
| `bulkdl` | `NothingLost`, `CompleteRunCoversHistory` | 2 runs for one chat with types of their own, 5 messages (3 with media, 1 of service, 3 posted late), pages of 2, 2 blocks, caps of 1 and 2, unfinished files, a list of 1 failed message | 2.5 M |
| `batch_file` | `NilMeansSettled`, `StoredWhole`, `FailuresStayIsolated`, `CacheIsEmptied`; `ExecuteReturns` | 3 files in 4 shapes of calls, 2 at a time, 2 attempts, 2 chunks | 40 k |
| `watch_uploader` | `OneJobPerFile`; `StorageNeverRegresses`, `ChangesAreUploaded` | 2 files of 2 versions, 2 workers, 2 submitters, channel of 2, 2 attempts | 67 k |
| `link_tasks` | `SavedIsOwn`, `OutcomeIsTrue` | 3 links with a URL or a file name given twice, 2 at a time, 2 attempts, 2 chunks | 0.9 M |
| `fetch_tasks` | `CardTellsResult`, `SuccessMeansStored`; `TaskEnds` | 4 files, one unselected, one a torrent, 2 attempts, 2 blocks | 6 k |
| `progress_card` | `FinalCardStays` | 2 reporters, 2 files, size 4, 3 attempts | 137 k |
| `watcher` | `ChangesInHand`; `ChangesSubmitted` | 2 files, one two directories down, which are made before or later, 2 callbacks, 2 changes and sizes, 1 fault | 1.3 M |
| `chat_watch` | `OneTaskPerWait`, `BufferAccounts`; `MediaSeenTo` | 2 messages of an album, one delivered twice, 2 users (one with albums), channel of 1 | 43 k |
| `save_dialog` | `ReplyAccounts`, `SavedWhereChosen`, `ConsentToReplace` | 2 storages, 1 directory, 3 files of which 2 an album, ranges of 1 and 2 files, any of which may exist | 177 k |
| `telegram_store` | `AlbumsAreSourceGroups`, `NilMeansSent`, `SentTwiceForCause` | every batch of up to 3 files of 6 kinds, albums of 2, archives of 3 parts | 159 k |

The two bulk runs go on at the same time only over the first three messages, without a limit, and as long as no
message is given up (`Bounded` in `MCBulkDL`, a constraint of the run); one run after another has all the rest.

While it was modelled, the code turned out to differ from what the repository says of it in places. Each is an
exception that a property names, or a fact of a definition:

| Where it is said | What the code does | In the model |
|---|---|---|
| "Task is queued and waiting to run" (`docs/content/en/usage/api.md:407`) | a task that the bot cancelled while it waited is in no queue and keeps the status | `silenced` |
| "stragglers are covered by the failed-ID retry set on a later run" (`core/tasks/bulkdl/execute.go:307`) | a file that is left unfinished enters no set, and the checkpoint goes past it | `passed`, `Unfinished` |
| "Report per-element failures instead of full completion." (`core/tasks/batchtfile/progress.go:199`) | a late upload callback takes a failed file out of the failed phase (`item_progress.go:234`) before the verdict counts it, and the card says that all is done | `late`, `MarkItem`, `BatchVerdict` |
| settings "apply to all of that user's subsequent save/transfer tasks" (`docs/content/en/usage/config.md:17`) | only tasks of Telegram files look at the strategy for existing files; for the others the storage saves beside what exists, under "ask" and "skip" too | `CreateOther`, `ConsentToReplace` |

**Why the bounds are enough.** Each is the least with which the case it is there for occurs: two parties
where order matters, a third task, link or file where two may already clash, a channel of one place that is
full, a list of one failure that overflows, two attempts so that one fails and one is the last, two chunks
so that a copy can stop in between. Versions, copies, attempts and messages are bounds of the models;
`PageSize`, `MaxBlocks`, `MaxFailed`, `QueueSize`, `Limit` and `Retry` are small values of the code's own
limits. Runs and other parties are interchangeable, and the symmetry of the two bulk runs is used, in a run
without liveness. One fault of the watcher is enough to lose a change; two webhook attempts, for the code's
three, are one that fails and one that is the last.

**Fairness.** Weak fairness of each goroutine that can go on, and of nothing outside the program: no
client has to call, no signal has to come, no download has to succeed. Storage calls and HTTP
requests return, with an error at worst. The exceptions are as the code has them. A `Save` that waits
for an open pipe need not end (`BatchFile`). The aria2 daemon ends each download (`FetchTasks`), since the
code polls without a limit. Senders to the listener's channel get a strong fairness (`ChatWatch`), which
Go's queue of blocked senders gives. In `Watcher`, timers fire. `BulkDL`, `SaveDialog`, `TelegramStore`,
`ProgressCard` and `LinkTasks` have safety properties only, and no fairness.

**Deadlock** is checked where there is always something left to do or the end has a step of its own
(`task_queue`, `bulkdl`, `save_dialog`, `telegram_store`, and `link_tasks`, where it is what shows that no
element is ever left waiting for another). The others describe one task or one process that ends.

**Exceptions.** A property that the code breaks in a known way names the case instead of leaving it out:
`passed` and `skipped` (`BulkDL`), `silenced`, `abandoned` and `exited` (`ProgressStore`), `LeftBehind` and
`Blocked` (`BatchFile`), `Lone` (`SaveDialog`), `late` (`ProgressCard`), `panicked` and `dropped`
(`ChatWatch`), `missed` (`Watcher`), the shared names of `LinkTasks`. The run thus shows that there is no
other, and the exception is described with its module.

## 4. What is proved

Eight modules of proofs, for every value of the constants under the named assumption of the component. An
invariant is proved with what makes it inductive; each action is one step of that proof. Every invariant
and every action property of section 3 is a theorem. Four of the modules hold the proofs of two
components; the second one's `Init`, `Next` and `Spec` then have a name of their own (`FetchInit`,
`CardInit`, `DialogInit`, `WatcherInit`).

- **`TaskQueue_proofs`** (`TasksAssumption`: finitely many workers, an identifier for each task).
  `TypeOK /\ MapsMatchQueue /\ OneLiveTaskPerId` is inductive as it stands. `IdsAreReleased` is the action property
  `RejectedOnlyForCause`. `NoLostWakeup` needs counting: with a waiter, the awake workers are at least
  as many as the queued tasks. `Refinement` shows that every step of `TaskQueue` is a step of
  `TaskLifecycle` or a stutter, without the fairness.
  For `FetchTasks` (`FetchAssumption`), `CardSound`, `SuccessStored` and `NothingRemovedUnstored` need:
  which task is in which phase (`Kinds`), what the card shows there (`Cards`), where the selected files
  are (`Places`) and what was removed (`Disk`).
- **`ProgressStore_proofs`** (`StoreAssumption`). `StatusSound` needs that a task is in one place of the
  queue, which the worker's progress tells (`Places`), that a request about to write "cancelled" has
  cancelled the task and a copy goroutine belongs to a task that failed (`Facts`). It covers the payload of
  the webhook, read without the lock: true in what it claims, and `Torn` only beside a cancellation or a
  copy goroutine. `LiveTracked` follows from `Records`: a record that is gone was terminal. `UsesQueue`
  proves the composition: every step of the store is a step of `TaskLifecycle` or a stutter
  (`StepUsesQueue`), so with `Refinement` the store rests on what the queue's code does.
  For `ProgressCard` (`CardAssumption`), `LastCardIsFinal`: which reports can be under way before a task and after
  it (`NotBegun`, `Ended`), and that only the tracker of a batch has an end of its own before the last edit
  (`Finished`).
- **`WatchUploader_proofs`** (`UploaderAssumption`). `OneJob` needs that channel, submitters and workers
  never have one file twice and that the map knows exactly those files (`JobInv`). `NoRegress` rests on it: two
  workers with one file could finish in the wrong order. `UploadsAreNew` is the link.
  For `Watcher` (`WatcherAssumption`: the directories are a tree), `NothingForgotten`: a change that was
  not submitted, and that was not missed, has a timer, a callback or an event, or lies below a place a scan has
  still to visit, whatever was lost or could not be watched elsewhere.
  A directory that is not watched is below one whose creation is queued, that the walk has still to read or that
  could not be watched or read (`Searched`), what the walk adds is scanned after it (`ScanFollows`), and a
  file that was not removed is there when its callbacks look (`Present`). That is the safety half of `ChangesSubmitted`.
- **`BulkDL_proofs`** (`BulkAssumption`). `NoMessageLost` and `CompleteRun` follow from what each run knows:
  below its cursor every message is accounted for (`Known`), between its offset and the newest
  message it saw every other one is in a page to replay (`Collected`, `Covers`), the pages are in
  descending order (`Sorted`), and where the run is in its program (`Control`). The row is written
  only from such knowledge, so two runs may overwrite it in any order.
- **`BatchFile_proofs`** (`BatchAssumption`). `Settles`, `StoresWhole`, `FailuresIsolated` and `CacheEmptied`
  need the fields of one file to agree (`Sound`), how a file's goroutine ended (`Left`), that with
  `IgnoreErrors` an error ends nothing else (`Alone`, `Calm`), that only files of the call under way run
  (`Running`) and that a call that is over leaves no file unsettled (`Settled`, `Over`). A call of the
  engine is an interval of the files.
- **`LinkTasks_proofs`** (`LinkAssumption`). `SavesOwn`: a path names an inode only while an element of that
  path has it open (`PathIsOpen`), an inode two elements have open is of one path (`SharedByKey`), and two
  elements of one URL are never under way together (`Exclusive`), so an element alone with its file name is
  alone with its inode (`Apart`) and finds in it what it copied (`OwnChunks`). That a new file finds a free
  inode is a counting argument (`FreeInode`). `TellsTruth` is about what the group's first error stands
  for (`FirstError`).
- **`ChatWatch_proofs`** (`ChatWatchAssumption`). `OneTask` is a conservation law: for each user, the tokens
  of a message in the events map, with callbacks, in the channel, with the listener, in the album buffer and
  made into tasks are together at most the waits begun (`Flow`), and no step adds one. `BufferKeepsFiles` is
  inductive once the listener is known to work on a message (`Busy`).
  For `SaveDialog` (`DialogAssumption`), `EveryFileAnswered`, `SavedAsPressed` and `ReplacedWithConsent`: the
  data behind the card shown and the one it replaced are those of one message, and hold no more than the
  user chose on the way (`CardSound`), so a press on either makes a task that is true to it. Files are
  followed through the rules as sets, whatever the rules are.
- **`TelegramStore_proofs`** (`StoreAssumption`). `AlbumsKeepSources`, `Complete` and `NothingRepeated`. The
  plan is a recursive function of a suffix of the batch; by the least element of a set of numbers
  (`LeastNat`) it is shown that it cuts the batch into consecutive groups, each of one source album or of
  one file (`PlanIsGood`). `IInv` then says that a message is of one group (`OfOneGroup`), that the groups
  before the one at hand are in Telegram (`GroupsSaved`) and what this attempt has sent of it (`Attempt`).

Each also proves its type invariant, as far as the module has one (`SaveDialog` has none: `CardSound` gives
the types that matter).

One proof attempt corrected its property: `EveryFileAnswered` failed for a range of one message, since its exception
spoke of a file that is the only one of its message where the code asks whether it came as a batch; the
run now has such a range.

Only model-checked are the liveness properties, which are beyond the prover (`EveryTaskSettles`, `WorkersDrain`,
`EveryAcceptedTaskReports`, `WebhookDelivered`, `ExecuteReturns`, `ChangesAreUploaded`, `TaskEnds`,
`MediaSeenTo`, `ChangesSubmitted`), and the fairness that `TaskQueue` owes
`TaskLifecycle`.

## 5. What is not modelled

- **Chunked downloads** (`common/tdler` and the gotd library): concurrent writes of one file, taken as one
  outcome.
- **Other storage back ends** (`storage/local`, `webdav`, `minio`, `s3`, `rclone`, `alist`): a save is an outcome.
  Two parts have a protocol: `UniquePath` chooses a name that is created later, so that two tasks may
  choose the same; alist's token refresh is one flight with the context of its first caller.
- **`client/bot/handlers/media_group.go`**: the timers are those of `watch.go`, which `ChatWatch` models; a
  part that a late callback takes makes a second dialog, and no promise is broken.
- **Login, parsers and plugins, configuration, i18n, enums, generated code, other database tables**: no
  state with a protocol. Formatting, byte counters and wording are left out everywhere.
- **Shutdown**: `cmd/run.go` removes the cache directory after `Close` without waiting for the workers.
  Hook commands and worker panics are not modelled.
- **Left out of the properties, known from reading**: a file of several watching users is one object, and the
  name one user's template gives it (`SetName`) is seen by the others; the last edit of
  `CreateAndAddDirectTaskWithEdit` does not say which message; an album whose reply fails is forgotten.
