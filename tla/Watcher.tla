------------------------------ MODULE Watcher ------------------------------
(***************************************************************************)
(* The directory watcher of the `watch` subcommand: it turns changes of    *)
(* files into calls of Uploader.Submit.  The main loop handles the events  *)
(* of the file system; a change starts a timer, whose callback submits the *)
(* file when its size is what an earlier callback saw, and waits another   *)
(* window otherwise.  A new directory is watched and then scanned.         *)
(*                                                                         *)
(* Stop does not stop a timer that has fired, and a callback replaces the  *)
(* map's timer without stopping it, so that several timers and callbacks   *)
(* of one file exist at once.  Submit itself is module WatchUploader.      *)
(***************************************************************************)
EXTENDS Naturals, Sequences, FiniteSets

LOCAL INSTANCE FiniteSetsExt

CONSTANTS LocalFiles, Dirs, Root,
          Parent,      \* the directory of each file and each directory but Root
          Callbacks,   \* goroutines of fired timers
          Nothing,     \* a callback goroutine without a timer
          Removable,   \* bound: files that may be removed
          MaxSize,     \* bound: sizes of a file
          MaxChanges,  \* bound: changes of all files together
          MaxFaults    \* bound: what is lost, or cannot be watched or read

Paths == LocalFiles \cup Dirs

Closed(S) == \A p \in Paths \ {Root} : Parent[p] \in S => p \in S

\* What is below a path in the tree, itself included.
Below == [p \in Paths |-> {q \in Paths : \A S \in SUBSET Paths : p \in S /\ Closed(S) => q \in S}]

\* The directories are a tree.
ASSUME WatcherAssumption ==
    /\ Root \in Dirs
    /\ LocalFiles \cap Dirs = {}
    /\ Parent \in [Paths \ {Root} -> Dirs]
    /\ Below[Root] = Paths
    /\ Nothing \notin LocalFiles /\ Removable \subseteq LocalFiles
    /\ {MaxSize, MaxChanges} \subseteq Nat \ {0} /\ MaxFaults \in Nat

VARIABLES
    recursive,  \* the flag
    dirs,       \* directories there are
    size,       \* size of each file, 0 when there is none
    revision,   \* changes of each file so far
    submitted,  \* the version of each file when Submit was last called
    missed,     \* history: files last changed unseen: not watched yet, or the event lost, or not scanned
    blind,      \* history: directories that a walk could not watch or read, or whose event was lost
    faults,     \* counter of the bound
    removed,    \* files that were removed while the command ran
    watched,    \* directories added to fsnotify
    events,     \* its queue
    mainAt,     \* where the main goroutine is
    todo,       \* the walk of addDir: directories to add, and to read after that
    scan,       \* the walk of scanExisting: what is still to be visited
    pending,    \* the map's timer of each file: "none", "armed" or "fired"
    orphans,    \* armed timers of each file that the map has lost
    lastSize,   \* the size the last callback saw, or 0
    cb,         \* the fired timers' callbacks: file, next step, size or 0
    interrupted

diskVars == <<dirs, size, revision, missed, blind, faults, removed>>
loopVars == <<watched, mainAt, todo, scan>>
timerVars == <<pending, orphans, lastSize, cb>>
watcherVars == <<recursive, diskVars, submitted, events, loopVars, timerVars, interrupted>>

Idle == [file |-> Nothing, at |-> "idle", size |-> 0]

\* Some files are there before the command starts, in Root or below it.
WatcherInit ==
    /\ recursive \in BOOLEAN
    /\ dirs \in {D \in SUBSET Dirs : Root \in D /\ \A d \in D \ {Root} : Parent[d] \in D}
    /\ size \in [LocalFiles -> 0..1] /\ \A f \in LocalFiles : size[f] > 0 => Parent[f] \in dirs
    /\ revision = size
    /\ missed = {f \in LocalFiles : size[f] > 0}
    /\ blind = {} /\ faults = 0
    /\ removed = {}
    /\ submitted = [f \in LocalFiles |-> 0]
    /\ watched = {}
    /\ events = <<>>
    /\ \/ mainAt = "scanAll" /\ scan = {Root} /\ todo = {}
       \/ mainAt = "addRoot" /\ scan = {} /\ todo = {<<Root, "add">>}
    /\ pending = [f \in LocalFiles |-> "none"]
    /\ orphans = [f \in LocalFiles |-> 0]
    /\ lastSize = [f \in LocalFiles |-> 0]
    /\ cb = [c \in Callbacks |-> Idle]
    /\ interrupted = FALSE

------------------------------------------------------------------------------
(* The file system, until the command is interrupted *)

Event(op, name) == events' = Append(events, [op |-> op, name |-> name]) /\ UNCHANGED faults

NoEvent == UNCHANGED <<events, faults>>

Fault == faults < MaxFaults /\ faults' = faults + 1

\* The queue of the kernel is full, and an error in the log is all that is told.
EventLost == UNCHANGED events /\ Fault

Watched(f) == Parent[f] \in watched

\* Nothing is going to find what is below p but events, of which there are none.
Unseen(p) == mainAt \in {"scanAll", "addRoot", "done"} \/ \E d \in blind : p \in Below[d]

\* A file is created or written; its size may stay the same.
ChangeFile(f) ==
    /\ ~interrupted
    /\ Parent[f] \in dirs
    /\ MapThenSumSet(LAMBDA g : revision[g], LocalFiles) < MaxChanges
    /\ \E s \in 1..MaxSize : size' = [size EXCEPT ![f] = s]
    /\ revision' = [revision EXCEPT ![f] = @ + 1]
    /\ \/ Watched(f) /\ Event("write", f) /\ missed' = missed \ {f}
       \/ Watched(f) /\ EventLost /\ missed' = missed \cup {f}
       \/ ~Watched(f) /\ NoEvent /\ missed' = IF Unseen(f) THEN missed \cup {f} ELSE missed
    /\ UNCHANGED <<recursive, dirs, blind, removed, submitted, loopVars, timerVars, interrupted>>

\* Removed, or renamed to another name.
Remove(f) ==
    /\ ~interrupted
    /\ f \in Removable /\ size[f] > 0
    /\ size' = [size EXCEPT ![f] = 0]
    /\ removed' = removed \cup {f}
    /\ \/ Watched(f) /\ (Event("remove", f) \/ EventLost)
       \/ ~Watched(f) /\ NoEvent
    /\ UNCHANGED <<recursive, dirs, revision, missed, blind, submitted, loopVars, timerVars, interrupted>>

Mkdir(d) ==
    /\ ~interrupted
    /\ d \notin dirs
    /\ Parent[d] \in dirs
    /\ dirs' = dirs \cup {d}
    /\ \/ Watched(d) /\ Event("create", d) /\ UNCHANGED blind
       \/ Watched(d) /\ EventLost /\ blind' = blind \cup {d}
       \/ ~Watched(d) /\ NoEvent /\ UNCHANGED blind
    /\ UNCHANGED <<recursive, size, revision, missed, removed, submitted, loopVars, timerVars, interrupted>>

------------------------------------------------------------------------------
(* Submit, and the two walks *)

Submit(f) ==
    /\ submitted' = [submitted EXCEPT ![f] = revision[f]]
    /\ missed' = missed \ {f}
    /\ UNCHANGED <<dirs, size, revision, blind, faults, removed>>

Subdirs(d) == {e \in dirs \ {Root} : Parent[e] = d}
FilesOf(d) == {f \in LocalFiles : Parent[f] = d /\ size[f] > 0}

\* addDir adds a directory before it reads it, and so on below it; without
\* -recursive it only adds the one.
AddDir(d) ==
    /\ <<d, "add">> \in todo
    /\ watched' = watched \cup {d}
    /\ todo' = (todo \ {<<d, "add">>}) \cup IF recursive THEN {<<d, "read">>} ELSE {}
    /\ UNCHANGED <<blind, faults, mainAt>>

\* The system has no watch left, for one: the walk goes on.  Without -recursive
\* this is the root, and Run returns.
AddDirFails(d) ==
    /\ <<d, "add">> \in todo
    /\ Fault /\ blind' = blind \cup {d}
    /\ todo' = (todo \ {<<d, "add">>}) \cup IF recursive THEN {<<d, "read">>} ELSE {}
    /\ mainAt' = IF recursive THEN mainAt ELSE "done"
    /\ UNCHANGED watched

\* What could not be read is skipped.
ReadDir(d) ==
    /\ <<d, "read">> \in todo
    /\ \E found \in SUBSET Subdirs(d) :
          /\ todo' = (todo \ {<<d, "read">>}) \cup {<<e, "add">> : e \in found}
          /\ IF found = Subdirs(d) THEN UNCHANGED <<blind, faults>> ELSE Fault /\ blind' = blind \cup {d}
    /\ UNCHANGED <<watched, mainAt>>

\* The walk over the root ends in the loop, that over a new directory in a scan.
AddDirStep ==
    /\ mainAt \in {"addRoot", "addNew"}
    /\ \E d \in Dirs : AddDir(d) \/ AddDirFails(d) \/ ReadDir(d)
    /\ UNCHANGED <<recursive, dirs, size, revision, missed, removed, submitted, events, scan, timerVars,
                   interrupted>>

AddRootDone ==
    /\ mainAt = "addRoot" /\ todo = {}
    /\ mainAt' = "loop"
    /\ UNCHANGED <<recursive, diskVars, submitted, events, watched, todo, scan, timerVars, interrupted>>

AddNewDone ==
    /\ mainAt = "addNew" /\ todo = {}
    /\ mainAt' = "scanNew"
    /\ UNCHANGED <<recursive, diskVars, submitted, events, watched, todo, scan, timerVars, interrupted>>

\* A directory is read when the walk comes to it; what could not be read is skipped.
ScanDir(d) ==
    LET entries == FilesOf(d) \cup IF recursive THEN Subdirs(d) ELSE {}
    IN  \E found \in SUBSET entries :
          /\ scan' = (scan \ {d}) \cup found
          /\ missed' = missed \cup {f \in LocalFiles : \E p \in entries \ found : f \in Below[p]}
          /\ IF found = entries THEN UNCHANGED faults ELSE Fault
          /\ UNCHANGED <<dirs, size, revision, blind, removed, submitted>>

\* A file is submitted at once; an interrupt ends the walk.
ScanStep ==
    /\ mainAt \in {"scanAll", "scanNew"}
    /\ \E x \in scan :
          \/ interrupted /\ scan' = {} /\ UNCHANGED <<diskVars, submitted>>
          \/ ~interrupted /\ x \in Dirs /\ ScanDir(x)
          \/ ~interrupted /\ x \notin Dirs /\ scan' = scan \ {x} /\ Submit(x)
    /\ UNCHANGED <<recursive, events, watched, mainAt, todo, timerVars, interrupted>>

\* The command scans the whole tree before it watches any of it.
ScanAllDone ==
    /\ mainAt = "scanAll" /\ scan = {}
    /\ mainAt' = "addRoot"
    /\ todo' = {<<Root, "add">>}
    /\ UNCHANGED <<recursive, diskVars, submitted, events, watched, scan, timerVars, interrupted>>

ScanNewDone ==
    /\ mainAt = "scanNew" /\ scan = {}
    /\ mainAt' = "loop"
    /\ UNCHANGED <<recursive, diskVars, submitted, events, watched, todo, scan, timerVars, interrupted>>

------------------------------------------------------------------------------
(* The event loop *)

HandleRest == UNCHANGED <<recursive, diskVars, submitted, interrupted>>

\* The map's timer is stopped if it has not fired, and a new one takes its place.
ScheduleUpload(f) ==
    /\ pending' = [pending EXCEPT ![f] = "armed"]
    /\ UNCHANGED <<orphans, lastSize, cb>>

\* Orphans are not known to the map and stay armed.
Forget(f) ==
    /\ pending' = [pending EXCEPT ![f] = "none"]
    /\ lastSize' = [lastSize EXCEPT ![f] = 0]
    /\ UNCHANGED orphans

HandleWrite ==
    LET f == Head(events).name
    IN  /\ Head(events).op = "write"
        /\ IF size[f] = 0 THEN UNCHANGED timerVars ELSE ScheduleUpload(f)
        /\ UNCHANGED loopVars

HandleRemove ==
    /\ Head(events).op = "remove"
    /\ Forget(Head(events).name)
    /\ UNCHANGED <<cb, loopVars>>

\* Variant: the files of a new directory are found before it is watched.
HandleMkdirScanFirst ==
    /\ Head(events).op = "create"
    /\ IF recursive
          THEN /\ mainAt' = "addNew" /\ todo' = {<<Head(events).name, "add">>}
               /\ scan' = FilesOf(Head(events).name)
          ELSE UNCHANGED <<mainAt, todo, scan>>
    /\ UNCHANGED <<watched, timerVars>>

\* A new directory is watched first, and scanned after that.
HandleMkdir ==
    /\ Head(events).op = "create"
    /\ IF recursive
          THEN mainAt' = "addNew" /\ todo' = {<<Head(events).name, "add">>} /\ scan' = {Head(events).name}
          ELSE UNCHANGED <<mainAt, todo, scan>>
    /\ UNCHANGED <<watched, timerVars>>

HandleEvent ==
    /\ mainAt = "loop"
    /\ events # <<>>
    /\ HandleWrite \/ HandleRemove \/ HandleMkdir
    /\ events' = Tail(events)
    /\ HandleRest

\* Run returns, and cleanup stops the timers the map knows.
Cleanup ==
    /\ mainAt = "loop" /\ interrupted
    /\ mainAt' = "done"
    /\ watched' = {}
    /\ pending' = [f \in LocalFiles |-> "none"]
    /\ lastSize' = [f \in LocalFiles |-> 0]
    /\ UNCHANGED <<recursive, diskVars, submitted, events, todo, scan, orphans, cb, interrupted>>

InterruptWatcher ==
    /\ ~interrupted
    /\ interrupted' = TRUE
    /\ UNCHANGED <<recursive, diskVars, submitted, events, loopVars, timerVars>>

------------------------------------------------------------------------------
(* A timer fires and runs maybeUpload in a goroutine of its own *)

Fire(f, c) ==
    /\ cb[c] = Idle
    /\ \/ pending[f] = "armed" /\ pending' = [pending EXCEPT ![f] = "fired"] /\ UNCHANGED orphans
       \/ orphans[f] > 0 /\ orphans' = [orphans EXCEPT ![f] = @ - 1] /\ UNCHANGED pending
    /\ cb' = [cb EXCEPT ![c] = [file |-> f, at |-> "stat", size |-> 0]]
    /\ UNCHANGED <<recursive, diskVars, submitted, events, loopVars, lastSize, interrupted>>

\* After an interrupt it does nothing; the file's size is read without the lock.
MaybeUploadStat(c) ==
    /\ cb[c].at = "stat"
    /\ cb' = IF interrupted THEN [cb EXCEPT ![c] = Idle]
             ELSE [cb EXCEPT ![c].at = "decide", ![c].size = size[cb[c].file]]
    /\ UNCHANGED <<recursive, diskVars, submitted, events, loopVars, pending, orphans, lastSize, interrupted>>

Gone(c) ==
    /\ cb[c].size = 0
    /\ Forget(cb[c].file)
    /\ cb' = [cb EXCEPT ![c] = Idle]
    /\ UNCHANGED <<diskVars, submitted>>

\* Variant: a size that changed is noted, and the next event is left to start a timer.
StillChangingNoTimer(c) ==
    LET f == cb[c].file
    IN  /\ cb[c].size > 0 /\ lastSize[f] # cb[c].size
        /\ lastSize' = [lastSize EXCEPT ![f] = cb[c].size]
        /\ cb' = [cb EXCEPT ![c] = Idle]
        /\ UNCHANGED <<diskVars, submitted, orphans, pending>>

\* Another window: the map's timer is replaced, and an armed one is lost to it.
StillChanging(c) ==
    LET f == cb[c].file
    IN  /\ cb[c].size > 0 /\ lastSize[f] # cb[c].size
        /\ lastSize' = [lastSize EXCEPT ![f] = cb[c].size]
        /\ orphans' = IF pending[f] = "armed" THEN [orphans EXCEPT ![f] = @ + 1] ELSE orphans
        /\ pending' = [pending EXCEPT ![f] = "armed"]
        /\ cb' = [cb EXCEPT ![c] = Idle]
        /\ UNCHANGED <<diskVars, submitted>>

\* The entry of the map goes, its timer is not stopped; the lock is released.
Stable(c) ==
    LET f == cb[c].file
    IN  /\ cb[c].size > 0 /\ lastSize[f] = cb[c].size
        /\ lastSize' = [lastSize EXCEPT ![f] = 0]
        /\ orphans' = IF pending[f] = "armed" THEN [orphans EXCEPT ![f] = @ + 1] ELSE orphans
        /\ pending' = [pending EXCEPT ![f] = "none"]
        /\ cb' = [cb EXCEPT ![c].at = "submit"]
        /\ UNCHANGED <<diskVars, submitted>>

MaybeUploadDecide(c) ==
    /\ cb[c].at = "decide"
    /\ Gone(c) \/ StillChanging(c) \/ Stable(c)
    /\ UNCHANGED <<recursive, events, loopVars, interrupted>>

MaybeUploadSubmit(c) ==
    /\ cb[c].at = "submit"
    /\ Submit(cb[c].file)
    /\ cb' = [cb EXCEPT ![c] = Idle]
    /\ UNCHANGED <<recursive, events, loopVars, pending, orphans, lastSize, interrupted>>

MaybeUpload(c) == MaybeUploadStat(c) \/ MaybeUploadDecide(c) \/ MaybeUploadSubmit(c)

------------------------------------------------------------------------------
MainStep ==
    \/ ScanStep \/ ScanAllDone \/ AddDirStep \/ AddRootDone \/ AddNewDone \/ ScanNewDone
    \/ HandleEvent \/ Cleanup

WatcherNext ==
    \/ \E f \in LocalFiles : ChangeFile(f) \/ Remove(f)
    \/ \E d \in Dirs \ {Root} : Mkdir(d)
    \/ InterruptWatcher
    \/ MainStep
    \/ \E c \in Callbacks : MaybeUpload(c) \/ \E f \in LocalFiles : Fire(f, c)

WatcherSpec == WatcherInit /\ [][WatcherNext]_watcherVars

\* The main goroutine and the callbacks go on, and every timer fires.
WatcherFairness ==
    /\ WF_watcherVars(MainStep)
    /\ \A c \in Callbacks : WF_watcherVars(MaybeUpload(c))
    /\ \A f \in LocalFiles : WF_watcherVars(\E c \in Callbacks : Fire(f, c))

FairWatcherSpec == WatcherSpec /\ WatcherFairness

------------------------------------------------------------------------------
(* Properties *)

Ops == {"write", "remove", "create"}

\* Every variable has a value of its type.
WatcherTypeOK ==
    /\ recursive \in BOOLEAN /\ interrupted \in BOOLEAN
    /\ dirs \subseteq Dirs /\ watched \subseteq dirs
    /\ size \in [LocalFiles -> 0..MaxSize]
    /\ revision \in [LocalFiles -> Nat] /\ submitted \in [LocalFiles -> Nat]
    /\ missed \subseteq LocalFiles /\ blind \subseteq Dirs /\ faults \in Nat /\ removed \subseteq LocalFiles
    /\ events \in Seq([op : Ops, name : Paths])
    /\ mainAt \in {"scanAll", "addRoot", "loop", "addNew", "scanNew", "done"}
    /\ todo \subseteq Dirs \X {"add", "read"} /\ scan \subseteq Paths
    /\ pending \in [LocalFiles -> {"none", "armed", "fired"}]
    /\ orphans \in [LocalFiles -> Nat]
    /\ lastSize \in [LocalFiles -> 0..MaxSize]
    /\ cb \in [Callbacks -> [file : LocalFiles \cup {Nothing}, at : {"idle", "stat", "decide", "submit"},
                             size : 0..MaxSize]]

\* The watcher answers for file f: it is in the watched part of the tree, its last
\* change was not missed, and the command runs.  A change is missed before the
\* command watches, where a directory could not be watched or read, and when an
\* event is lost: the log tells of it, and nothing looks for the file.
Answers(f) == (recursive \/ Parent[f] = Root) /\ f \notin missed /\ ~interrupted

Notified == {events[i] : i \in DOMAIN events}

\* A timer or callback of f will look at it, or an event of f is queued.
Tended(f) ==
    \/ pending[f] = "armed" \/ orphans[f] > 0
    \/ \E c \in Callbacks : cb[c].file = f
    \/ [op |-> "write", name |-> f] \in Notified

\* Directories whose creation is still in the queue.
Created == {d \in Dirs : [op |-> "create", name |-> d] \in Notified}

\* The scan has yet to visit f or a directory above it, or will be begun above it.
Ahead(f) == f \in scan \/ (recursive /\ \E p \in scan \cup Created : f \in Below[p])

\* A change that was not submitted is never forgotten: although a directory is
\* watched only after it is created, and the map of timers forgets timers that are
\* armed, something is under way at every moment that will look at the file.
ChangesInHand ==
    \A f \in LocalFiles :
        Answers(f) /\ f \notin removed /\ submitted[f] # revision[f] => Tended(f) \/ Ahead(f)

\* A change of a file is submitted in the end, also when it came while an earlier
\* timer's callback ran, or between the creation of a directory and its scan; a
\* file that was removed meanwhile is not spoken of.
ChangesSubmitted ==
    \A f \in LocalFiles : []<>(Answers(f) /\ f \notin removed => submitted[f] = revision[f])

=============================================================================
