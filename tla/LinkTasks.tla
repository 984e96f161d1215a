----------------------------- MODULE LinkTasks -----------------------------
(***************************************************************************)
(* Execute of the tasks that fetch a list of remote files in parallel:     *)
(* direct links, parsed items, telegraph pages and transfers between       *)
(* storages.  All run their elements in an errgroup with a limit; they     *)
(* differ in how they retry, cache, exclude duplicates and report a        *)
(* cancellation, and each of those functions is translated on its own from *)
(* the steps they share.                                                   *)
(*                                                                         *)
(* A file is a sequence of chunks, each the chunk of one URL.  Cache files *)
(* have a path and an inode, for two elements of one name open one path.   *)
(***************************************************************************)
EXTENDS Naturals, FiniteSets

CONSTANTS N,        \* elements of the task
          Urls, Names,
          Lists,    \* the lists of links there are: a URL and a file name each
          None,
          Limit,    \* workers
          Retry,    \* attempts of an element
          Chunks    \* length of a file

Elems == 1..N

ASSUME LinkAssumption ==
    /\ {N, Limit, Retry, Chunks} \subseteq Nat \ {0}
    /\ Lists \subseteq [Elems -> [url : Urls, name : Names]]
    /\ None \notin Urls \cup Names \cup Elems

VARIABLES
    kind,      \* which task it is
    links,     \* its elements
    stream,    \* the storage is fed from the response, without a cache file
    ignore,    \* a transfer that goes on when an element fails
    phase,     \* where Execute is
    unheaded,  \* direct links whose HEAD request is still out
    el,        \* where the goroutine of each element is
    tries,     \* failed attempts of each element
    pos,       \* chunks an element has copied to its cache file
    result,    \* what processLink etc. returned
    groupErr,  \* the first error of the errgroup, which cancels its context
    ctxDone,   \* the task was cancelled
    path,      \* the inode each cache path names
    handle,    \* the inode each element has open
    inode,     \* the content of each inode
    stored,    \* history: what the last Save of an element wrote
    returned   \* what Execute returned and told the progress tracker

fileVars == <<path, handle, inode>>
elemVars == <<el, tries, pos, result, groupErr, stored>>
vars == <<kind, links, stream, ignore, phase, unheaded, elemVars, ctxDone, fileVars, returned>>

UrlOf(e) == links[e].url
NameOf(e) == links[e].name

\* CreateTemp and the picture's index make a path no other element has.
Keys == Names \cup Elems
Blank == [i \in 1..Chunks |-> None]
Whole(u) == [i \in 1..Chunks |-> u]

Init ==
    /\ kind \in {"directlinks", "parsed", "telegraph", "transfer"}
    /\ links \in Lists
    /\ stream \in BOOLEAN
    /\ ignore \in IF kind = "transfer" THEN BOOLEAN ELSE {FALSE}
    /\ phase = IF kind = "directlinks" THEN "head" ELSE "group"
    /\ unheaded = IF kind = "directlinks" THEN Elems ELSE {}
    /\ el = [e \in Elems |-> "todo"]
    /\ tries = [e \in Elems |-> 0]
    /\ pos = [e \in Elems |-> 0]
    /\ result = [e \in Elems |-> "none"]
    /\ groupErr = "none"
    /\ ctxDone = FALSE
    /\ path = [k \in Keys |-> None]
    /\ handle = [e \in Elems |-> None]
    /\ inode = [e \in Elems |-> Blank]
    /\ stored = [e \in Elems |-> Blank]
    /\ returned = "none"

\* The errgroup's context.
GroupDone == ctxDone \/ groupErr # "none"

Cancel ==
    /\ ~ctxDone
    /\ returned = "none"
    /\ ctxDone' = TRUE
    /\ UNCHANGED <<kind, links, stream, ignore, phase, unheaded, elemVars, fileVars, returned>>

------------------------------------------------------------------------------
(* Steps the tasks share *)

Running == {e \in Elems : el[e] \notin {"todo", "end"}}

\* eg.Go in the loop over the elements, in order, blocking at the limit.
Spawn(e) ==
    /\ phase = "group"
    /\ el[e] = "todo"
    /\ \A d \in 1..(e - 1) : el[d] # "todo"
    /\ Cardinality(Running) < Limit
    /\ el' = [el EXCEPT ![e] = "begin"]
    /\ UNCHANGED <<kind, links, stream, ignore, phase, unheaded, tries, pos, result, groupErr, stored,
                   ctxDone, fileVars, returned>>

\* Variant: the errgroup keeps the last error.
ReturnLast(e, r) ==
    /\ el' = [el EXCEPT ![e] = "end"]
    /\ result' = [result EXCEPT ![e] = r]
    /\ groupErr' = IF r = "ok" \/ (r = "failed" /\ ignore) THEN groupErr ELSE r

\* The goroutine returns r to the errgroup, which keeps the first error.
Return(e, r) ==
    /\ el' = [el EXCEPT ![e] = "end"]
    /\ result' = [result EXCEPT ![e] = r]
    /\ groupErr' = IF groupErr # "none" \/ r = "ok" \/ (r = "failed" /\ ignore) THEN groupErr ELSE r

\* Keeps everything but the element's own state and the cache files.
Within == UNCHANGED <<kind, links, stream, ignore, phase, unheaded, ctxDone, returned>>

\* The deferred close and removal: by path, whichever inode it names now.
\* Without a cache file there is nothing to do.
Drop(e, k) ==
    IF handle[e] = None THEN UNCHANGED fileVars
    ELSE /\ handle' = [handle EXCEPT ![e] = None]
         /\ path' = [path EXCEPT ![k] = None]
         /\ UNCHANGED inode

Go(e, from, to) == el[e] = from /\ el' = [el EXCEPT ![e] = to]

\* The source is open.
Opens(e) ==
    /\ Go(e, "try", "fetched")
    /\ pos' = [pos EXCEPT ![e] = 0]
    /\ Within
    /\ UNCHANGED <<tries, result, groupErr, stored, fileVars>>

\* os.Create: a file that is there is truncated and shared.
OpenCache(e, k) ==
    /\ ~stream
    /\ Go(e, "fetched", "copy")
    /\ LET i == IF path[k] # None THEN path[k]
                ELSE CHOOSE free \in Elems : \A d \in Elems : handle[d] # free
       IN /\ path' = [path EXCEPT ![k] = i]
          /\ handle' = [handle EXCEPT ![e] = i]
          /\ inode' = [inode EXCEPT ![i] = Blank]
    /\ Within
    /\ UNCHANGED <<tries, pos, result, groupErr, stored>>

CopyChunk(e) ==
    /\ el[e] = "copy"
    /\ pos[e] < Chunks
    /\ pos' = [pos EXCEPT ![e] = @ + 1]
    /\ inode' = [inode EXCEPT ![handle[e]][pos[e] + 1] = UrlOf(e)]
    /\ Within
    /\ UNCHANGED <<el, tries, result, groupErr, stored, path, handle>>

CopyEnds(e) ==
    /\ pos[e] = Chunks
    /\ Go(e, "copy", "copied")
    /\ Within
    /\ UNCHANGED <<tries, pos, result, groupErr, stored, fileVars>>

\* What Save reads: the response, or the cache file from its start.
Source(e) == IF stream THEN Whole(UrlOf(e)) ELSE inode[handle[e]]
Ready(e) == el[e] = IF stream THEN "fetched" ELSE "copied"

\* Where an attempt can fail: the request, the status, the copy, the storage.
\* A copy that fails has written what it has; a failed Save may have too.
Attempting(e) == el[e] \in {"try", "fetched", "copy", "copied"}

\* An attempt failed: retry.Retry waits before it looks at the count.
AttemptFails(e, k) ==
    /\ Attempting(e)
    /\ tries' = [tries EXCEPT ![e] = @ + 1]
    /\ el' = [el EXCEPT ![e] = "backoff"]
    /\ stored' = [stored EXCEPT ![e] = Blank]
    /\ Drop(e, k)
    /\ Within
    /\ UNCHANGED <<pos, result, groupErr>>

TryAgain(e) ==
    /\ tries[e] < Retry
    /\ Go(e, "backoff", "try")
    /\ Within
    /\ UNCHANGED <<tries, pos, result, groupErr, stored, fileVars>>

\* retry.Retry is over: out of attempts, or its context ended while it waited.
RetryEnds(e, r) ==
    /\ el[e] = "backoff"
    /\ tries[e] = Retry \/ GroupDone
    /\ Return(e, r)
    /\ Within
    /\ UNCHANGED <<tries, pos, stored, fileVars>>

Saves(e, k, r) ==
    /\ Ready(e)
    /\ stored' = [stored EXCEPT ![e] = Source(e)]
    /\ Drop(e, k)
    /\ Return(e, r)
    /\ Within
    /\ UNCHANGED <<tries, pos>>

------------------------------------------------------------------------------
(* The four tasks *)

\* The map t.processing: an element between its entry and its return.
Processing == {e \in Elems : Attempting(e) \/ el[e] = "backoff"}

\* Variant: no element is ever refused.
BeginAlways(e) ==
    /\ Go(e, "begin", "try")
    /\ Within
    /\ UNCHANGED <<tries, pos, result, groupErr, stored, fileVars>>

\* A URL that is being processed is an error of the second element, and with
\* it of the task; one that has been processed is fetched again.
BeginExclusive(e) ==
    IF \E d \in Processing : UrlOf(d) = UrlOf(e)
    THEN /\ el[e] = "begin"
         /\ Return(e, "failed")
         /\ Within
         /\ UNCHANGED <<tries, pos, stored, fileVars>>
    ELSE BeginAlways(e)

\* What an element reports when the context has ended: ctx.Err().
Told(r) == IF GroupDone THEN "cancelled" ELSE r

\* The cache file of a direct link is named by task and file.
DirectKey(e) == NameOf(e)

\* A request under a cancelled context is refused.  The copy to the cache
\* file is left alone when the context ends, which fails the attempt.
ProcessLink(e) ==
    \/ ~GroupDone /\ Opens(e)
    \/ OpenCache(e, DirectKey(e))
    \/ CopyChunk(e)
    \/ CopyEnds(e)
    \/ AttemptFails(e, DirectKey(e))
    \/ TryAgain(e)
    \/ RetryEnds(e, Told("failed"))
    \/ Saves(e, DirectKey(e), Told("ok"))

DirectLink(e) == kind = "directlinks" /\ (BeginExclusive(e) \/ ProcessLink(e))

ResourceKey(e) == NameOf(e)

ProcessResource(e) ==
    \/ ~GroupDone /\ Opens(e)
    \/ OpenCache(e, ResourceKey(e))
    \/ CopyChunk(e)
    \/ CopyEnds(e)
    \/ AttemptFails(e, ResourceKey(e))
    \/ TryAgain(e)
    \/ RetryEnds(e, Told("failed"))
    \/ Saves(e, ResourceKey(e), Told("ok"))

ParsedResource(e) == kind = "parsed" /\ (BeginExclusive(e) \/ ProcessResource(e))

\* A picture is named by its index.  What retry.Retry returns is passed on,
\* and it does not say that the context was cancelled.
ProcessPic(e) ==
    \/ ~GroupDone /\ Opens(e)
    \/ OpenCache(e, e)
    \/ CopyChunk(e)
    \/ CopyEnds(e)
    \/ AttemptFails(e, e)
    \/ TryAgain(e)
    \/ RetryEnds(e, "failed")
    \/ Saves(e, e, "ok")

TelegraphPic(e) == kind = "telegraph" /\ (BeginAlways(e) \/ ProcessPic(e))

\* One attempt, from a storage that need not look at the context; an error
\* under a cancelled context may or may not wrap context.Canceled.
ElementFails(e) ==
    /\ Attempting(e)
    /\ \E r \in {"failed", Told("failed")} : Return(e, r)
    /\ Drop(e, e)
    /\ Within
    /\ UNCHANGED <<tries, pos, stored>>

ProcessElement(e) ==
    \/ Opens(e)
    \/ OpenCache(e, e)
    \/ CopyChunk(e)
    \/ CopyEnds(e)
    \/ ElementFails(e)
    \/ Saves(e, e, "ok")

\* Element identifiers are unique, so t.processing refuses none.
TransferElement(e) == kind = "transfer" /\ (BeginAlways(e) \/ ProcessElement(e))

------------------------------------------------------------------------------
(* Execute *)

\* The HEAD requests of direct links go out under the task's own context: one
\* that fails does not stop the others.
HeadAnswers(e) ==
    /\ e \in unheaded
    /\ ~ctxDone
    /\ unheaded' = unheaded \ {e}
    /\ UNCHANGED <<kind, links, stream, ignore, phase, elemVars, ctxDone, fileVars, returned>>

HeadFails(e) ==
    /\ e \in unheaded
    /\ unheaded' = unheaded \ {e}
    /\ \E r \in {"failed", IF ctxDone THEN "cancelled" ELSE "failed"} :
          groupErr' = IF groupErr = "none" THEN r ELSE groupErr
    /\ UNCHANGED <<kind, links, stream, ignore, phase, el, tries, pos, result, stored, ctxDone, fileVars,
                   returned>>

HeadsDone ==
    /\ phase = "head"
    /\ unheaded = {}
    /\ IF groupErr = "none" THEN phase' = "group" /\ UNCHANGED returned
       ELSE phase' = "done" /\ returned' = groupErr
    /\ UNCHANGED <<kind, links, stream, ignore, unheaded, elemVars, ctxDone, fileVars>>

\* eg.Wait, OnDone and the return.
GroupEnds ==
    /\ phase = "group"
    /\ \A e \in Elems : el[e] = "end"
    /\ phase' = "done"
    /\ returned' = IF groupErr = "none" THEN "ok" ELSE groupErr
    /\ UNCHANGED <<kind, links, stream, ignore, unheaded, elemVars, ctxDone, fileVars>>

Work(e) ==
    \/ HeadAnswers(e) \/ HeadFails(e)
    \/ Spawn(e)
    \/ DirectLink(e) \/ ParsedResource(e) \/ TelegraphPic(e) \/ TransferElement(e)

\* Execute has returned: the only state in which nothing is left to do.
Returned == phase = "done" /\ UNCHANGED vars

Next == Cancel \/ HeadsDone \/ GroupEnds \/ Returned \/ \E e \in Elems : Work(e)

Spec == Init /\ [][Next]_vars

------------------------------------------------------------------------------
(* Properties *)

Ends == {"none", "ok", "failed", "cancelled"}

\* Every variable stays in its set.
TypeOK ==
    /\ kind \in {"directlinks", "parsed", "telegraph", "transfer"}
    /\ links \in Lists
    /\ {stream, ignore, ctxDone} \subseteq BOOLEAN
    /\ phase \in {"head", "group", "done"}
    /\ unheaded \subseteq Elems
    /\ el \in [Elems -> {"todo", "begin", "try", "fetched", "copy", "copied", "backoff", "end"}]
    /\ tries \in [Elems -> 0..Retry]
    /\ pos \in [Elems -> 0..Chunks]
    /\ result \in [Elems -> Ends]
    /\ {groupErr, returned} \subseteq Ends
    /\ path \in [Keys -> Elems \cup {None}]
    /\ handle \in [Elems -> Elems \cup {None}]
    /\ inode \in [Elems -> [1..Chunks -> Urls \cup {None}]]
    /\ stored \in [Elems -> [1..Chunks -> Urls \cup {None}]]

\* What an element saved successfully is the whole of its own file, whatever
\* its duplicates and siblings did with their cache files, unless another URL
\* of the task has its file name: direct links and resources name cache files
\* by file name, and only a URL is kept from being processed twice at a time.
SavedIsOwn ==
    \A e \in Elems :
        (/\ result[e] = "ok"
         /\ \A d \in Elems : NameOf(d) = NameOf(e) => UrlOf(d) = UrlOf(e))
        => stored[e] = Whole(UrlOf(e))

\* Execute says what happened: success only if every element succeeded or was
\* to be ignored, cancelled only if the task was, although the failure of one
\* element cancels the context of all the others, and failed only if an
\* element, or a HEAD request, failed of itself.
OutcomeIsTrue ==
    /\ returned = "ok" => \A e \in Elems : result[e] \in {"ok"} \cup IF ignore THEN {"failed"} ELSE {}
    /\ returned = "cancelled" => ctxDone
    /\ (returned = "failed" /\ \E e \in Elems : el[e] # "todo") => \E e \in Elems : result[e] = "failed"
=============================================================================
