------------------------------- MODULE BulkDL -------------------------------
(***************************************************************************)
(* Bulk download of a channel: the runs a user starts for one chat, the    *)
(* checkpoint row they share in the database, and the channel, which grows *)
(* meanwhile.  A run loads the checkpoint, retries the messages that       *)
(* failed before, collects the history above the checkpoint page by page   *)
(* from the newest message down, replays the pages from the oldest up and  *)
(* saves the checkpoint after each one.                                    *)
(*                                                                         *)
(* The batch file engine is an outcome for each file: stored, failed, or   *)
(* neither (stopped midway).  Messages are their identifiers.  Nothing     *)
(* keeps two runs for the same chat apart, a crash ends all of them, and   *)
(* any read or write of the row can fail.                                  *)
(***************************************************************************)
EXTENDS Naturals, Sequences, FiniteSets, FiniteSetsExt

CONSTANTS Runs,        \* runs that may be under way at the same time
          Initially,   \* messages the channel has to begin with
          MaxId,       \* bound: messages the channel ever gets
          Media,       \* messages with media a user can select
          Selections,  \* what a choice of media types comes to, as messages
          Service,     \* service messages (joins, pins, ...)
          Caps,        \* values of MaxMessages the user asks for, 0 = no limit
          PageSize,    \* messages per history request
          MaxBlocks,   \* maxCollectBlocks
          MaxFailed,   \* maxPersistedFailedIDs
          DeadMin,     \* deadConnectionMinFailures
          Interrupts   \* may the engine leave a file unfinished although the
                       \* run was not cancelled?

Messages == 1..MaxId

ASSUME BulkAssumption ==
    /\ MaxId \in Nat
    /\ Initially \in 0..MaxId
    /\ Media \subseteq Messages \ Service
    /\ Selections \subseteq SUBSET Media
    /\ Caps \subseteq Nat
    /\ {PageSize, MaxBlocks, MaxFailed, DeadMin} \subseteq Nat \ {0}
    /\ Interrupts \in BOOLEAN

VARIABLES
    posted,  \* newest message of the channel
    store,   \* messages whose file is in the storage
    row,     \* the BulkDLProgress row
    run,     \* the local state of each run
    passed,  \* history: messages given up, see NothingLost
    skipped  \* history: messages a run went past because their media type was
             \* not selected

vars == <<posted, store, row, run, passed, skipped>>

\* No row and a row of zero values read the same.
NoRow == [lastRead |-> 0, failed |-> {}]

NewRun == [pc |-> "idle",        \* where the run is
           cancelled |-> FALSE,  \* its context is done
           cap |-> 0,            \* Params.MaxMessages
           types |-> {},         \* the messages of Params.Types
           failed |-> {},        \* Task.failed
           todo |-> {},          \* failed messages left to retry
           resume |-> 0,         \* the checkpoint it started from
           offset |-> 0,         \* the end of the next history request, 0 = newest,
                                 \* until the pages are collected
           blocks |-> <<>>,      \* pages collected, newest first
           block |-> {},         \* the page in the batch engine
           cursor |-> 0,         \* the resume point to persist
           saved |-> 0,          \* Stats.saved
           ending |-> "none",    \* why it stops; "none" while it goes on
           horizon |-> 0]        \* history: newest message when it collects

Init ==
    /\ posted = Initially
    /\ store = {}
    /\ row = NoRow
    /\ run = [r \in Runs |-> NewRun]
    /\ passed = {}
    /\ skipped = {}

------------------------------------------------------------------------------
(* The checkpoint *)

\* The row keeps the MaxFailed newest failures.
Newest(S, n) == {m \in S : Cardinality({x \in S : x > m}) < n}

\* loadCheckpoint; when the row cannot be read the run starts from nothing.
LoadCheckpoint(r) ==
    /\ run[r].pc = "load"
    /\ \E read \in {row, NoRow} :
         run' = [run EXCEPT ![r] = [@ EXCEPT !.pc = "retry", !.failed = read.failed, !.todo = read.failed,
                                             !.resume = read.lastRead, !.cursor = read.lastRead]]
    /\ UNCHANGED <<posted, store, row, passed, skipped>>

\* saveCheckpoint: the write fails when the context is done, and may fail
\* otherwise; the error is only logged.
SaveCheckpoint(r) ==
    \/ UNCHANGED <<row, passed>>
    \/ /\ ~run[r].cancelled
       /\ LET kept == Newest(run[r].failed, MaxFailed) IN
            /\ row' = [lastRead |-> run[r].cursor, failed |-> kept]
            /\ passed' = passed \cup (run[r].failed \ kept)

------------------------------------------------------------------------------
(* runBlock: one page, or one message to retry, through the batch engine *)

\* The files of a block that the run is to fetch: other media are passed over.
Files(r) == run[r].block \cap run[r].types

\* The files at which the cap is reached, counting those that could be built.
Reaching(r, unbuilt) ==
    LET elems == Files(r) \ unbuilt
    IN  {e \in elems : /\ run[r].cap > 0
                       /\ run[r].saved + Cardinality({x \in elems : x <= e}) >= run[r].cap}

\* The part of the block up to the file that reaches the cap.
Scanned(r, unbuilt) ==
    LET cuts == Reaching(r, unbuilt)
    IN  IF cuts = {} THEN run[r].block ELSE {m \in run[r].block : m <= Min(cuts)}

\* Whether the page was only failures.
DeadConnection(r, ok, bad) == ~run[r].cancelled /\ ok = {} /\ Cardinality(bad) >= DeadMin

\* rememberFailed and forgetFailed over the files of the block.
FailedAfter(r, unbuilt, ok, bad) == (run[r].failed \ ok) \cup unbuilt \cup bad

\* Stats.saved, which matters to a run with a cap only.
SavedAfter(r, ok) == IF run[r].cap = 0 THEN 0 ELSE run[r].saved + Cardinality(ok)

\* What a block can come to: files that cannot be built, files stored, files
\* failed.  The rest is unfinished, after a cancellation or an interruption.
Outcome(r, unbuilt, ok, bad) ==
    LET scanned == Scanned(r, unbuilt)
    IN  /\ unbuilt \subseteq scanned
        /\ ok \cup bad \subseteq scanned \ unbuilt
        /\ ok \cap bad = {}
        /\ run[r].cancelled \/ Interrupts \/ Files(r) \cap scanned = unbuilt \cup ok \cup bad

\* Files of a block that the engine left unfinished: they are neither stored
\* nor remembered, and the cursor goes past them.
Unfinished(r, unbuilt, ok, bad) == (Files(r) \cap Scanned(r, unbuilt)) \ (unbuilt \cup ok \cup bad)

\* Media of a block that the run did not select: the cursor goes past them too.
Unselected(r, unbuilt) == (Media \cap Scanned(r, unbuilt)) \ run[r].types

------------------------------------------------------------------------------
(* retryFailedMessages *)

RetryFetch(r) ==
    /\ run[r].pc = "retry"
    /\ run[r].todo # {}
    /\ ~run[r].cancelled
    /\ LET m == Min(run[r].todo) IN
         run' = [run EXCEPT ![r] = [@ EXCEPT !.pc = "retrying", !.todo = run[r].todo \ {m}, !.block = {m}]]
    /\ UNCHANGED <<posted, store, row, passed, skipped>>

\* The message cannot be fetched again; it stays in the failed set.
RetrySkip(r) ==
    /\ run[r].pc = "retry"
    /\ run[r].todo # {}
    /\ ~run[r].cancelled
    /\ run' = [run EXCEPT ![r] = [@ EXCEPT !.todo = run[r].todo \ {Min(run[r].todo)}]]
    /\ UNCHANGED <<posted, store, row, passed, skipped>>

RetryBlock(r) ==
    /\ run[r].pc = "retrying"
    /\ \E unbuilt \in SUBSET Files(r) : \E ok, bad \in SUBSET (Files(r) \ unbuilt) :
         /\ Outcome(r, unbuilt, ok, bad)
         /\ store' = store \cup ok
         /\ run' = [run EXCEPT ![r] = [@ EXCEPT !.pc = "retry", !.block = {},
                                                !.failed = FailedAfter(r, unbuilt, ok, bad),
                                                !.saved = SavedAfter(r, ok)]]
    /\ UNCHANGED <<posted, row, passed, skipped>>

RetryDone(r) ==
    /\ run[r].pc = "retry"
    /\ run[r].todo = {} \/ run[r].cancelled
    /\ run' = [run EXCEPT ![r] = [@ EXCEPT !.pc = "collect", !.todo = {}, !.horizon = posted]]
    /\ UNCHANGED <<posted, store, row, passed, skipped>>

------------------------------------------------------------------------------
(* iterateHistory, first part: collect pages down to the checkpoint *)

\* The history still to be collected, MessagesGetHistory, and what is left of
\* a page when its service messages are dropped.
Above(r) == {m \in 1..posted : m > run[r].resume /\ (run[r].offset = 0 \/ m < run[r].offset)}
Page(r) == Newest(Above(r), PageSize) \ Service

\* A page that had service messages looks short, and collecting ends there.
Cut(r) == IF Cardinality(Page(r)) = PageSize THEN {}
          ELSE Media \cap (Above(r) \ Newest(Above(r), PageSize))

\* Variant: a page is the last one unless it is more than full.
FullPageIsLast(r) ==
    /\ run[r].pc = "collect"
    /\ ~run[r].cancelled
    /\ run' = [run EXCEPT ![r] = [@ EXCEPT !.pc = "replay",
                                           !.blocks = IF Page(r) = {} THEN run[r].blocks
                                                      ELSE Append(run[r].blocks, Page(r))]]
    /\ UNCHANGED <<posted, store, row, passed, skipped>>

CollectPage(r) ==
    /\ run[r].pc = "collect"
    /\ ~run[r].cancelled
    /\ LET msgs == Page(r)
           more == IF msgs = {} THEN run[r].blocks ELSE Append(run[r].blocks, msgs)
       IN  IF Cardinality(msgs) < PageSize
           THEN run' = [run EXCEPT ![r] = [@ EXCEPT !.blocks = more, !.pc = "replay", !.offset = 0]]
           ELSE IF Len(more) >= MaxBlocks
           THEN run' = [run EXCEPT ![r] = [@ EXCEPT !.blocks = <<>>, !.pc = "final", !.ending = "failed",
                                                    !.offset = 0]]
           ELSE run' = [run EXCEPT ![r] = [@ EXCEPT !.blocks = more, !.offset = Min(msgs)]]
    /\ passed' = passed \cup Cut(r)
    /\ UNCHANGED <<posted, store, row, skipped>>

\* The chat cannot be resolved, a page cannot be fetched after all attempts,
\* or the context is done.
CollectFails(r) ==
    /\ run[r].pc = "collect"
    /\ run' = [run EXCEPT ![r] = [@ EXCEPT !.pc = "final", !.ending = "failed", !.blocks = <<>>,
                                           !.offset = 0]]
    /\ UNCHANGED <<posted, store, row, passed, skipped>>

------------------------------------------------------------------------------
(* iterateHistory, second part: replay the pages, oldest first *)

\* Variant: the newest page first.
ReplayNewestFirst(r) ==
    /\ run[r].pc = "replay"
    /\ ~run[r].cancelled
    /\ run[r].blocks # <<>>
    /\ run' = [run EXCEPT ![r] = [@ EXCEPT !.pc = "batch", !.block = Head(run[r].blocks),
                                           !.blocks = Tail(run[r].blocks)]]
    /\ UNCHANGED <<posted, store, row, passed, skipped>>

ReplayNext(r) ==
    /\ run[r].pc = "replay"
    /\ ~run[r].cancelled
    /\ run[r].blocks # <<>>
    /\ LET n == Len(run[r].blocks) IN
         run' = [run EXCEPT ![r] = [@ EXCEPT !.pc = "batch", !.block = run[r].blocks[n],
                                             !.blocks = SubSeq(run[r].blocks, 1, n - 1)]]
    /\ UNCHANGED <<posted, store, row, passed, skipped>>

\* No page is left, or the context is done before the next one.  A run that is
\* cancelled during its last page returns no error.
ReplayEnds(r) ==
    /\ run[r].pc = "replay"
    /\ run[r].cancelled \/ run[r].blocks = <<>>
    /\ run' = [run EXCEPT ![r] = [@ EXCEPT !.pc = "final", !.blocks = <<>>,
                                           !.ending = IF run[r].blocks = <<>> THEN "complete" ELSE "failed"]]
    /\ UNCHANGED <<posted, store, row, passed, skipped>>

\* A page that was only failures keeps the cursor and ends the run.
ReplayBlock(r) ==
    /\ run[r].pc = "batch"
    /\ \E unbuilt \in SUBSET Files(r) : \E ok, bad \in SUBSET (Files(r) \ unbuilt) :
         LET dead == DeadConnection(r, ok, bad)
             highest == Max(Scanned(r, unbuilt))
             total == SavedAfter(r, ok)
             full == Reaching(r, unbuilt) # {} \/ (run[r].cap > 0 /\ total >= run[r].cap)
         IN  /\ Outcome(r, unbuilt, ok, bad)
             /\ store' = store \cup ok
             /\ run' = [run EXCEPT ![r] = [@ EXCEPT
                  !.pc = "save", !.block = {}, !.saved = total,
                  !.failed = FailedAfter(r, unbuilt, ok, bad),
                  !.cursor = IF dead \/ highest < run[r].cursor THEN run[r].cursor ELSE highest,
                  !.ending = IF dead THEN "failed" ELSE IF full THEN "capped" ELSE "none"]]
             /\ passed' = passed \cup (IF dead THEN {} ELSE Unfinished(r, unbuilt, ok, bad))
             /\ skipped' = skipped \cup (IF dead THEN {} ELSE Unselected(r, unbuilt))
    /\ UNCHANGED <<posted, row>>

SaveBlock(r) ==
    /\ run[r].pc = "save"
    /\ SaveCheckpoint(r)
    /\ run' = [run EXCEPT ![r] = [@ EXCEPT !.pc = IF run[r].ending = "none" THEN "replay" ELSE "final",
                                           !.blocks = IF run[r].ending = "none" THEN run[r].blocks ELSE <<>>]]
    /\ UNCHANGED <<posted, store, skipped>>

\* Execute saves once more and returns.
SaveFinal(r) ==
    /\ run[r].pc = "final"
    /\ SaveCheckpoint(r)
    /\ run' = [run EXCEPT ![r] = NewRun]
    /\ UNCHANGED <<posted, store, skipped>>

------------------------------------------------------------------------------
(* The user, the channel and the process *)

\* Each run has a limit and a choice of media types of its own; the checkpoint
\* belongs to the user and the chat.
Start(r, n, types) ==
    /\ run[r].pc = "idle"
    /\ run' = [run EXCEPT ![r] = [@ EXCEPT !.pc = "load", !.cap = n, !.types = types]]
    /\ UNCHANGED <<posted, store, row, passed, skipped>>

Cancel(r) ==
    /\ run[r].pc # "idle"
    /\ run' = [run EXCEPT ![r] = [@ EXCEPT !.cancelled = TRUE]]
    /\ UNCHANGED <<posted, store, row, passed, skipped>>

\* /bulkdl reset, also while a run is under way.
Reset ==
    /\ row' = NoRow
    /\ UNCHANGED <<posted, store, run, passed, skipped>>

Post ==
    /\ posted < MaxId
    /\ posted' = posted + 1
    /\ UNCHANGED <<store, row, run, passed, skipped>>

Crash ==
    /\ run' = [r \in Runs |-> NewRun]
    /\ UNCHANGED <<posted, store, row, passed, skipped>>

RunStep(r) ==
    \/ LoadCheckpoint(r)
    \/ RetryFetch(r)
    \/ RetrySkip(r)
    \/ RetryBlock(r)
    \/ RetryDone(r)
    \/ CollectPage(r)
    \/ CollectFails(r)
    \/ ReplayNext(r)
    \/ ReplayEnds(r)
    \/ ReplayBlock(r)
    \/ SaveBlock(r)
    \/ SaveFinal(r)

Next ==
    \/ \E r \in Runs : RunStep(r) \/ Cancel(r) \/ \E n \in Caps, types \in Selections : Start(r, n, types)
    \/ Reset
    \/ Post
    \/ Crash

Spec == Init /\ [][Next]_vars

------------------------------------------------------------------------------
(* Properties *)

RunState == [pc : {"idle", "load", "retry", "retrying", "collect", "replay", "batch", "save", "final"},
             cancelled : BOOLEAN,
             cap : Nat,
             types : SUBSET Media,
             failed : SUBSET Media,
             todo : SUBSET Media,
             resume : 0..MaxId,
             offset : 0..MaxId,
             blocks : Seq(SUBSET Messages),
             block : SUBSET Messages,
             cursor : 0..MaxId,
             saved : Nat,
             ending : {"none", "complete", "capped", "failed"},
             horizon : 0..MaxId]

TypeOK ==
    /\ posted \in 0..MaxId
    /\ store \in SUBSET Media
    /\ row \in [lastRead : 0..MaxId, failed : SUBSET Media]
    /\ passed \in SUBSET Media
    /\ skipped \in SUBSET Media
    /\ run \in [Runs -> RunState]

\* Below a resume point every message with media is stored or listed as failed,
\* but for those a run is known to have given up or not to have selected.
Accounted(lastRead, fails) == \A m \in Media : m <= lastRead => m \in store \cup fails \cup passed \cup skipped

\* Although the cursor moves past failed messages, there are four ways only to
\* lose one: the engine left its file unfinished, a page with a service message
\* hid it, the list of failed messages was full, or a run that had not selected
\* its media type moved the checkpoint, which all selections share, past it.
\* Every other message up to the lastRead of the row, whoever wrote that last and
\* wherever a run was cancelled or the process crashed, is in the storage or in
\* the failed set that the next run retries.
NothingLost == Accounted(row.lastRead, row.failed)

\* A run has dealt with a message.  That some run did not select it is an excuse
\* only if this one did not either, or started above it.
Dealt(r, m) ==
    \/ m \in store \cup run[r].failed \cup passed
    \/ m \in skipped /\ (m \in run[r].types => m <= run[r].resume)

\* A run that neither fails nor stops at its cap and is not cancelled has dealt
\* with all of the history there was when it began to collect.
CompleteRunCoversHistory ==
    \A r \in Runs :
        run[r].ending = "complete" /\ ~run[r].cancelled => \A m \in Media : m <= run[r].horizon => Dealt(r, m)

==============================================================================
