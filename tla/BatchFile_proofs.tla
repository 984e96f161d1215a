-------------------------- MODULE BatchFile_proofs --------------------------
(***************************************************************************)
(* Proofs about BatchFile for any number of files, media groups, limit,    *)
(* retries and chunks: what the goroutines of a call, ending well, with an *)
(* error or because another failed, leave behind when Execute returns.     *)
(***************************************************************************)
EXTENDS BatchFile, FiniteSetTheorems, TLAPS

\* What the fields of one file have to do with each other.
Sound(it) ==
    /\ it.stored # "part"
    /\ it.phase = "completed" => it.stored = "whole"
    /\ it.pc \notin {"stream", "exited"} => it.err = "none"
    /\ it.pc \in {"idle", "create", "download"} => it.fails = 0
    /\ it.pc = "upload" => it.fails < Retry
    /\ it.pc \in {"create", "download"} => it.phase = "active"
    /\ it.pc \in {"upload", "backoff"} => it.phase \in {"downloaded", "retrying"}
    /\ it.pc = "stream" =>
          /\ it.err = "none" => it.phase = "active"
          /\ it.err = "error" => it.phase = "failed"
          /\ it.err = "canceled" => it.phase \in {"stopped", "failed"}
    /\ it.pc \in {"idle", "stream"} =>
          /\ it.pipe = "eof" => it.got = Chunks
          /\ it.pipe = "broken" => it.err # "none"
          /\ it.writer = "done" => it.pipe # "open"
          /\ it.reader \in {"closed", "left"} => it.err # "none"
          /\ it.reader = "done" => it.stored = "whole"

\* How the goroutine of a file of this call has ended.
Left(i) ==
    /\ item[i].pc \in {"upload", "backoff", "stream"} => ~IsBatch
    /\ item[i].pc = "exited" =>
          /\ item[i].err = "none" => item[i].phase = IF IsBatch THEN "downloaded" ELSE "completed"
          /\ item[i].err = "error" => item[i].phase = "failed" /\ (ignore \/ groupErr # "none")
          /\ item[i].err = "canceled" => groupErr # "none"

\* An ignored error ends nothing but its file.
Alone(i) == ignore /\ ~ctxDone => item[i].phase # "stopped" /\ item[i].err # "canceled"

Calm == /\ ignore => groupErr # "error"
        /\ ignore /\ ~ctxDone => groupErr = "none" /\ execErr = "none"

\* Files run in the call under way only: those before it are over, those
\* after it have not begun.
Running ==
    /\ \A i \in Items : item[i].pc \notin {"idle", "exited"} => main = "group" /\ i \in Call
    /\ main # "returned" =>
          /\ execErr = "none"
          /\ \A i \in Items : i >= next /\ i \notin Call => item[i].pc = "idle"
          /\ \A i \in Call : Left(i)
    /\ main = "save" => IsBatch /\ groupErr = "none" /\ \A i \in Call : item[i].pc = "exited"

\* A cache file belongs to a file that is being processed, or to a group.
Cached ==
    /\ main = "returned" => cache = {}
    /\ \A i \in cache : i \in Call /\ (IsBatch \/ item[i].pc \in {"download", "upload", "backoff"})

\* Calls that are over leave no file unsettled.
Past == IF main = "returned" THEN Items ELSE 1..(next - 1)

Over(i) ==
    \/ item[i].phase = "completed"
    \/ ignore /\ item[i].phase = "failed"
    \/ /\ ignore /\ item[i].phase = "downloaded"
       /\ \E j \in Past \ {i} : shape.key[j] = shape.key[i] /\ item[j].phase = "failed"

Settled == execErr = "none" => \A i \in Past : Over(i)

IInv ==
    /\ TypeOK
    /\ \A i \in Items : Sound(item[i]) /\ Alone(i)
    /\ Calm /\ Running /\ Cached /\ Settled

-----------------------------------------------------------------------------
(* Calls *)

\* A set of files has a last one: the files after it, ordered by inclusion,
\* have a smallest set, and that is empty.
LEMMA LastFile ==
    ASSUME NEW S \in SUBSET Items, S # {}
    PROVE  Max(S) \in S /\ \A x \in S : Max(S) >= x
<1> DEFINE After(m) == {x \in S : x > m}
           T == {After(m) : m \in S}
           R == StrictSubsetOrdering(S)
<1>n. N \in Nat /\ \A x \in S : x \in Nat
  BY BatchAssumption DEF Items
<1>f. \A U \in SUBSET S : IsFiniteSet(U)
  <2>1. IsFiniteSet(Items)
    BY <1>n, FS_Interval DEF Items
  <2>2. QED
    BY <2>1, FS_Subset
<1>1. T \subseteq FiniteSubsetsOf(S) /\ T # {}
  BY <1>f DEF FiniteSubsetsOf
<1>2. PICK B \in T : \A C \in T : <<C, B>> \notin R
  BY <1>1, FS_StrictSubsetOrderingWellFounded, WFMin
<1>3. PICK m \in S : B = After(m)
  OBVIOUS
<1>4. ASSUME NEW x \in S, x > m PROVE FALSE
  <2>1. x \in After(m) /\ x \notin After(x)
    BY <1>4, <1>n
  <2>2. After(x) \subseteq After(m)
    <3> SUFFICES ASSUME NEW y \in S, y > x PROVE y > m
      OBVIOUS
    <3>1. QED
      BY <1>4, <1>n
  <2>3. After(x) \in SUBSET S /\ B \in SUBSET S /\ After(x) \subseteq B /\ After(x) # B
    BY <1>3, <2>1, <2>2
  <2> HIDE DEF After
  <2>4. <<After(x), B>> \in R
    BY <2>3 DEF StrictSubsetOrdering
  <2>5. After(x) \in T
    OBVIOUS
  <2>6. QED
    BY <1>2, <2>4, <2>5
<1>5. \A x \in S : m >= x
  BY <1>4, <1>n
<1>6. QED
  BY <1>5 DEF Max

\* A call is an interval of the files, and they have one key.
LEMMA CallIsInterval ==
    ASSUME next \in Items
    PROVE  /\ Call \in SUBSET Items /\ next \in Call
           /\ Max(Call) \in Call /\ Max(Call) \in Items /\ Call = next..Max(Call)
           /\ \A i \in Call : shape.key[i] = shape.key[next]
<1>n. N \in Nat /\ next \in Nat /\ 1 <= next /\ next <= N
  BY BatchAssumption DEF Items
<1>1. Call \in SUBSET Items
  BY <1>n DEF Call, Items
<1>2. next \in Call
  BY <1>n DEF Call
<1>3. Max(Call) \in Call /\ \A x \in Call : Max(Call) >= x
  BY <1>1, <1>2, LastFile
<1> DEFINE m == Max(Call)
<1>4. m \in Nat /\ next <= m /\ m <= N /\ \A k \in next..m : shape.key[k] = shape.key[next]
  BY <1>3, <1>n DEF Call
<1>5. Call \subseteq next..m
  BY <1>3, <1>4, <1>n DEF Call
<1>6. next..m \subseteq Call
  BY <1>4, <1>n DEF Call
<1>7. \A i \in Call : shape.key[i] = shape.key[next]
  BY <1>4, <1>5
<1>8. QED
  BY <1>1, <1>2, <1>3, <1>5, <1>6, <1>7

-----------------------------------------------------------------------------
(* Steps of one file *)

\* What the step of a file has to show: the new state of that file is sound,
\* and it tells the group what its own outcome says.
LEMMA FileStepKeeps ==
    ASSUME IInv, main = "group", NEW i \in Call, NEW it \in ItemState,
           item' = [item EXCEPT ![i] = it], it.pc # "idle", Sound(it),
           groupErr' \in Errors, groupErr # "none" => groupErr' # "none",
           ignore => groupErr' # "error",
           ignore /\ ~ctxDone => groupErr' = "none" /\ it.phase # "stopped" /\ it.err # "canceled",
           Left(i)',
           cache' \subseteq cache \cup {i},
           i \in cache' => IsBatch \/ it.pc \in {"download", "upload", "backoff"},
           UNCHANGED <<fixedVars, mainVars, ctxDone>>
    PROVE  IInv'
<1>0. TypeOK /\ next \in Items /\ item \in [Items -> ItemState]
  BY DEF IInv, TypeOK
<1>1. Call \in SUBSET Items /\ i \in Items /\ Call = next..Max(Call) /\ Max(Call) \in Items
  BY <1>0, CallIsInterval
<1>2. Call' = Call /\ IsBatch' = IsBatch /\ Past' = Past
  BY DEF Call, IsBatch, Past, fixedVars, mainVars
<1>3. item'[i] = it /\ \A j \in Items \ {i} : item'[j] = item[j]
  BY <1>0, <1>1
<1>4. TypeOK'
  BY <1>0, <1>1 DEF TypeOK, fixedVars, mainVars
<1>5. \A j \in Items : (Sound(item[j]) /\ Alone(j))'
  <2>1. \A j \in Items : Sound(item'[j])
    BY <1>3 DEF IInv
  <2>2. \A j \in Items : Alone(j)'
    BY <1>3 DEF IInv, Alone, fixedVars
  <2>3. QED
    BY <2>1, <2>2
<1>6. Calm'
  BY DEF IInv, Calm, fixedVars, mainVars
<1>7. Running'
  <2>1. \A j \in Call \ {i} : Left(j)'
    <3> SUFFICES ASSUME NEW j \in Call \ {i} PROVE Left(j)'
      OBVIOUS
    <3>1. Left(j) /\ item'[j] = item[j]
      BY <1>1, <1>3 DEF IInv, Running
    <3>2. QED
      BY <1>2, <3>1 DEF Left, fixedVars
  <2>2. \A j \in Items : item'[j].pc \notin {"idle", "exited"} => main' = "group" /\ j \in Call
    BY <1>3 DEF IInv, Running, mainVars
  <2>3. \A j \in Items : j >= next /\ j \notin Call => item'[j].pc = "idle"
    BY <1>3 DEF IInv, Running
  <2>4. execErr' = "none" /\ main' = "group" /\ next' = next
    BY DEF IInv, Running, mainVars
  <2>5. QED
    BY <1>2, <2>1, <2>2, <2>3, <2>4 DEF Running
<1>8. Cached'
  BY <1>1, <1>2, <1>3 DEF IInv, Cached, mainVars
<1>9. Settled'
  <2>1. Past \subseteq Items \ {i} /\ \A k \in Past : k \in Items
    BY <1>0, <1>1, BatchAssumption DEF Past, Items
  <2>2. ASSUME execErr = "none", NEW k \in Past PROVE Over(k)'
    <3>1. Over(k) /\ item'[k] = item[k]
      BY <1>3, <2>1, <2>2 DEF IInv, Settled
    <3>2. \A j \in Past : item'[j] = item[j]
      BY <1>3, <2>1
    <3>3. QED
      BY <1>2, <3>1, <3>2 DEF Over, fixedVars
  <2>3. QED
    BY <1>2, <2>2 DEF Settled, mainVars
<1>10. QED
  BY <1>4, <1>5, <1>6, <1>7, <1>8, <1>9 DEF IInv
















\* A goroutine that runs belongs to the call under way.
LEMMA RunsInCall ==
    ASSUME IInv, NEW i \in Items, item[i].pc \notin {"idle", "exited"}
    PROVE  /\ main = "group" /\ execErr = "none" /\ i \in Call
           /\ item \in [Items -> ItemState] /\ item[i] \in ItemState
           /\ Sound(item[i]) /\ Alone(i) /\ Left(i) /\ Calm
           /\ cache \subseteq Items /\ groupErr \in Errors
           /\ i \in cache => IsBatch \/ item[i].pc \in {"download", "upload", "backoff"}
BY DEF IInv, TypeOK, Running, Cached

\* What the errgroup knows after a file has failed.
LEMMA GroupError ==
    ASSUME groupErr \in Errors, ignore \in BOOLEAN, Calm, NEW e \in Errors,
           ignore /\ ~ctxDone => e # "canceled"
    PROVE  /\ First(groupErr, Reported(e)) \in Errors
           /\ groupErr # "none" => First(groupErr, Reported(e)) # "none"
           /\ ignore => First(groupErr, Reported(e)) # "error"
           /\ ignore /\ ~ctxDone => First(groupErr, Reported(e)) = "none"
           /\ e = "error" => ignore \/ First(groupErr, Reported(e)) # "none"
           /\ e = "canceled" => First(groupErr, Reported(e)) # "none"
           /\ e = "none" => First(groupErr, Reported(e)) = groupErr
BY DEF First, Reported, Errors, Calm

\* The cache file is made.
LEMMA CreateFileKeeps ==
    ASSUME IInv, NEW i \in Items, CreateFile(i)
    PROVE  IInv'
<1> DEFINE it == [item[i] EXCEPT !.pc = "download"]
<1>1. item[i].pc \notin {"idle", "exited"}
  BY DEF CreateFile
<1>2. item' = [item EXCEPT ![i] = it]
  BY <1>1, RunsInCall DEF CreateFile, ItemState
<1>3. it \in ItemState /\ Sound(it) /\ it.pc \notin {"idle", "exited"}
  <2>0. item[i] \in ItemState /\ Sound(item[i]) /\ item[i].pc = "create"
    BY <1>1, RunsInCall DEF CreateFile
  <2>1. it \in ItemState
    BY <2>0 DEF ItemState
  <2>2. /\ it.pc = "download"
        /\ it.phase = item[i].phase
        /\ it.err = item[i].err
        /\ it.fails = item[i].fails
        /\ it.writer = item[i].writer
        /\ it.reader = item[i].reader
        /\ it.pipe = item[i].pipe
        /\ it.got = item[i].got
        /\ it.stored = item[i].stored
    BY <2>0 DEF ItemState
  <2> HIDE DEF it
  <2>3. Sound(it)
    BY <2>0, <2>2 DEF Sound
  <2>4. QED
    BY <2>1, <2>2, <2>3
<1>4. groupErr' = groupErr /\ cache' \subseteq cache \cup {i} /\ UNCHANGED <<fixedVars, mainVars, ctxDone>>
  BY DEF CreateFile
<1>5. item'[i] = it /\ IsBatch' = IsBatch
  BY <1>2, <1>4, <1>1, RunsInCall DEF IsBatch, fixedVars, mainVars
<1>6. Left(i)'
  BY <1>1, <1>3, <1>5, RunsInCall DEF CreateFile, Left, ItemState
<1>7. i \in cache' => IsBatch \/ it.pc \in {"download", "upload", "backoff"}
  BY <1>1, RunsInCall DEF CreateFile, ItemState
<1>8. ignore /\ ~ctxDone => groupErr = "none" /\ it.phase # "stopped" /\ it.err # "canceled"
  BY <1>1, RunsInCall DEF CreateFile, ItemState, Alone, Calm
<1>9. QED
  <2> HIDE DEF it
  <2>1. groupErr' \in Errors /\ (ignore => groupErr' # "error")
    BY <1>1, <1>4, RunsInCall DEF Calm
  <2>2. QED
    BY <1>1, <1>2, <1>3, <1>4, <1>6, <1>7, <1>8, <2>1, RunsInCall, FileStepKeeps

\* An attempt to upload fails.
LEMMA UploadFailsKeeps ==
    ASSUME IInv, NEW i \in Items, UploadFails(i)
    PROVE  IInv'
<1> DEFINE it == [item[i] EXCEPT !.phase = "retrying", !.pc = "backoff", !.fails = item[i].fails + 1]
<1>1. item[i].pc \notin {"idle", "exited"}
  BY DEF UploadFails
<1>2. item' = [item EXCEPT ![i] = it]
  BY <1>1, RunsInCall DEF UploadFails, ItemState
<1>3. it \in ItemState /\ Sound(it) /\ it.pc \notin {"idle", "exited"}
  BY <1>1, RunsInCall, BatchAssumption DEF UploadFails, ItemState, Sound
<1>4. groupErr' = groupErr /\ cache' \subseteq cache \cup {i} /\ UNCHANGED <<fixedVars, mainVars, ctxDone>>
  BY DEF UploadFails
<1>5. item'[i] = it /\ IsBatch' = IsBatch
  BY <1>2, <1>4, <1>1, RunsInCall DEF IsBatch, fixedVars, mainVars
<1>6. Left(i)'
  BY <1>1, <1>3, <1>5, RunsInCall DEF UploadFails, Left, ItemState
<1>7. i \in cache' => IsBatch \/ it.pc \in {"download", "upload", "backoff"}
  BY <1>1, RunsInCall DEF UploadFails, ItemState
<1>8. ignore /\ ~ctxDone => groupErr = "none" /\ it.phase # "stopped" /\ it.err # "canceled"
  BY <1>1, RunsInCall DEF UploadFails, ItemState, Alone, Calm
<1>9. QED
  <2> HIDE DEF it
  <2>1. groupErr' \in Errors /\ (ignore => groupErr' # "error")
    BY <1>1, <1>4, RunsInCall DEF Calm
  <2>2. QED
    BY <1>1, <1>2, <1>3, <1>4, <1>6, <1>7, <1>8, <2>1, RunsInCall, FileStepKeeps

\* The next attempt begins.
LEMMA RetryUploadKeeps ==
    ASSUME IInv, NEW i \in Items, RetryUpload(i)
    PROVE  IInv'
<1> DEFINE it == [item[i] EXCEPT !.pc = "upload"]
<1>1. item[i].pc \notin {"idle", "exited"}
  BY DEF RetryUpload
<1>2. item' = [item EXCEPT ![i] = it]
  BY <1>1, RunsInCall DEF RetryUpload, ItemState
<1>3. it \in ItemState /\ Sound(it) /\ it.pc \notin {"idle", "exited"}
  BY <1>1, RunsInCall, BatchAssumption DEF RetryUpload, ItemState, Sound
<1>4. groupErr' = groupErr /\ cache' \subseteq cache \cup {i} /\ UNCHANGED <<fixedVars, mainVars, ctxDone>>
  BY DEF RetryUpload
<1>5. item'[i] = it /\ IsBatch' = IsBatch
  BY <1>2, <1>4, <1>1, RunsInCall DEF IsBatch, fixedVars, mainVars
<1>6. Left(i)'
  BY <1>1, <1>3, <1>5, RunsInCall DEF RetryUpload, Left, ItemState
<1>7. i \in cache' => IsBatch \/ it.pc \in {"download", "upload", "backoff"}
  BY <1>1, RunsInCall DEF RetryUpload, ItemState
<1>8. ignore /\ ~ctxDone => groupErr = "none" /\ it.phase # "stopped" /\ it.err # "canceled"
  BY <1>1, RunsInCall DEF RetryUpload, ItemState, Alone, Calm
<1>9. QED
  <2> HIDE DEF it
  <2>1. groupErr' \in Errors /\ (ignore => groupErr' # "error")
    BY <1>1, <1>4, RunsInCall DEF Calm
  <2>2. QED
    BY <1>1, <1>2, <1>3, <1>4, <1>6, <1>7, <1>8, <2>1, RunsInCall, FileStepKeeps

\* A part has been downloaded.
LEMMA FetchKeeps ==
    ASSUME IInv, NEW i \in Items, Fetch(i)
    PROVE  IInv'
<1> DEFINE it == [item[i] EXCEPT !.writer = "write"]
<1>1. item[i].pc \notin {"idle", "exited"}
  BY DEF Fetch
<1>2. item' = [item EXCEPT ![i] = it]
  BY <1>1, RunsInCall DEF Fetch, ItemState
<1>3. it \in ItemState /\ Sound(it) /\ it.pc \notin {"idle", "exited"}
  BY <1>1, RunsInCall, BatchAssumption DEF Fetch, ItemState, Sound
<1>4. groupErr' = groupErr /\ cache' \subseteq cache \cup {i} /\ UNCHANGED <<fixedVars, mainVars, ctxDone>>
  BY DEF Fetch
<1>5. item'[i] = it /\ IsBatch' = IsBatch
  BY <1>2, <1>4, <1>1, RunsInCall DEF IsBatch, fixedVars, mainVars
<1>6. Left(i)'
  BY <1>1, <1>3, <1>5, RunsInCall DEF Fetch, Left, ItemState
<1>7. i \in cache' => IsBatch \/ it.pc \in {"download", "upload", "backoff"}
  BY <1>1, RunsInCall DEF Fetch, ItemState
<1>8. ignore /\ ~ctxDone => groupErr = "none" /\ it.phase # "stopped" /\ it.err # "canceled"
  BY <1>1, RunsInCall DEF Fetch, ItemState, Alone, Calm
<1>9. QED
  <2> HIDE DEF it
  <2>1. groupErr' \in Errors /\ (ignore => groupErr' # "error")
    BY <1>1, <1>4, RunsInCall DEF Calm
  <2>2. QED
    BY <1>1, <1>2, <1>3, <1>4, <1>6, <1>7, <1>8, <2>1, RunsInCall, FileStepKeeps

\* The storage takes a part.
LEMMA TransferKeeps ==
    ASSUME IInv, NEW i \in Items, Transfer(i)
    PROVE  IInv'
<1> DEFINE it == [item[i] EXCEPT !.writer = "fetch", !.got = item[i].got + 1]
<1>1. item[i].pc \notin {"idle", "exited"}
  BY DEF Transfer
<1>2. item' = [item EXCEPT ![i] = it]
  BY <1>1, RunsInCall DEF Transfer, ItemState
<1>3. it \in ItemState /\ Sound(it) /\ it.pc \notin {"idle", "exited"}
  BY <1>1, RunsInCall, BatchAssumption DEF Transfer, ItemState, Sound
<1>4. groupErr' = groupErr /\ cache' \subseteq cache \cup {i} /\ UNCHANGED <<fixedVars, mainVars, ctxDone>>
  BY DEF Transfer
<1>5. item'[i] = it /\ IsBatch' = IsBatch
  BY <1>2, <1>4, <1>1, RunsInCall DEF IsBatch, fixedVars, mainVars
<1>6. Left(i)'
  BY <1>1, <1>3, <1>5, RunsInCall DEF Transfer, Left, ItemState
<1>7. i \in cache' => IsBatch \/ it.pc \in {"download", "upload", "backoff"}
  BY <1>1, RunsInCall DEF Transfer, ItemState
<1>8. ignore /\ ~ctxDone => groupErr = "none" /\ it.phase # "stopped" /\ it.err # "canceled"
  BY <1>1, RunsInCall DEF Transfer, ItemState, Alone, Calm
<1>9. QED
  <2> HIDE DEF it
  <2>1. groupErr' \in Errors /\ (ignore => groupErr' # "error")
    BY <1>1, <1>4, RunsInCall DEF Calm
  <2>2. QED
    BY <1>1, <1>2, <1>3, <1>4, <1>6, <1>7, <1>8, <2>1, RunsInCall, FileStepKeeps

\* The whole file is written.
LEMMA WriterEndsKeeps ==
    ASSUME IInv, NEW i \in Items, WriterEnds(i)
    PROVE  IInv'
<1> DEFINE it == [item[i] EXCEPT !.writer = "done", !.pipe = "eof"]
<1>1. item[i].pc \notin {"idle", "exited"}
  BY DEF WriterEnds
<1>2. item' = [item EXCEPT ![i] = it]
  BY <1>1, RunsInCall DEF WriterEnds, ItemState
<1>3. it \in ItemState /\ Sound(it) /\ it.pc \notin {"idle", "exited"}
  <2>0. item[i] \in ItemState
    BY <1>1, RunsInCall
  <2>1. it \in ItemState
    BY <2>0, ZenonT(60) DEF ItemState
  <2>2. /\ it.pc = item[i].pc
        /\ it.phase = item[i].phase
        /\ it.err = item[i].err
        /\ it.fails = item[i].fails
        /\ it.writer = "done"
        /\ it.reader = item[i].reader
        /\ it.pipe = "eof"
        /\ it.got = item[i].got
        /\ it.stored = item[i].stored
    BY <2>0 DEF ItemState
  <2> HIDE DEF it
  <2>3. item[i].pc = "stream" /\ Sound(item[i])
    BY <1>1, RunsInCall DEF WriterEnds
  <2>4. Sound(it)
    BY <2>2, <2>3 DEF WriterEnds, Sound
  <2>5. QED
    BY <2>1, <2>2, <2>3, <2>4
<1>4. groupErr' = groupErr /\ cache' \subseteq cache \cup {i} /\ UNCHANGED <<fixedVars, mainVars, ctxDone>>
  BY DEF WriterEnds
<1>5. item'[i] = it /\ IsBatch' = IsBatch
  BY <1>2, <1>4, <1>1, RunsInCall DEF IsBatch, fixedVars, mainVars
<1>6. Left(i)'
  BY <1>1, <1>3, <1>5, RunsInCall DEF WriterEnds, Left, ItemState
<1>7. i \in cache' => IsBatch \/ it.pc \in {"download", "upload", "backoff"}
  BY <1>1, RunsInCall DEF WriterEnds, ItemState
<1>8. ignore /\ ~ctxDone => groupErr = "none" /\ it.phase # "stopped" /\ it.err # "canceled"
  BY <1>1, RunsInCall DEF WriterEnds, ItemState, Alone, Calm
<1>9. QED
  <2> HIDE DEF it
  <2>1. groupErr' \in Errors /\ (ignore => groupErr' # "error")
    BY <1>1, <1>4, RunsInCall DEF Calm
  <2>2. QED
    BY <1>1, <1>2, <1>3, <1>4, <1>6, <1>7, <1>8, <2>1, RunsInCall, FileStepKeeps

\* The storage has read to the end.
LEMMA SaveSucceedsKeeps ==
    ASSUME IInv, NEW i \in Items, SaveSucceeds(i)
    PROVE  IInv'
<1> DEFINE st == IF item[i].got = Chunks THEN "whole" ELSE "part"
           it == [item[i] EXCEPT !.reader = "done", !.stored = st]
<1>1. item[i].pc \notin {"idle", "exited"}
  BY DEF SaveSucceeds
<1>2. item' = [item EXCEPT ![i] = it]
  BY <1>1, RunsInCall DEF SaveSucceeds, ItemState
<1>3. it \in ItemState /\ Sound(it) /\ it.pc \notin {"idle", "exited"}
  <2>0. item[i] \in ItemState
    BY <1>1, RunsInCall
  <2>1. it \in ItemState
    <3>1. st \in {"no", "whole", "part"}
      OBVIOUS
    <3> HIDE DEF st
    <3>2. QED
      BY <2>0, <3>1, ZenonT(60) DEF ItemState
  <2>2. /\ it.pc = item[i].pc
        /\ it.phase = item[i].phase
        /\ it.err = item[i].err
        /\ it.fails = item[i].fails
        /\ it.writer = item[i].writer
        /\ it.reader = "done"
        /\ it.pipe = item[i].pipe
        /\ it.got = item[i].got
        /\ it.stored = st
    BY <2>0 DEF ItemState
  <2> HIDE DEF it
  <2>3. item[i].pc = "stream" /\ Sound(item[i])
    BY <1>1, RunsInCall DEF SaveSucceeds
  <2>4. Sound(it)
    BY <2>2, <2>3 DEF SaveSucceeds, Sound
  <2>5. QED
    BY <2>1, <2>2, <2>3, <2>4
<1>4. groupErr' = groupErr /\ cache' \subseteq cache \cup {i} /\ UNCHANGED <<fixedVars, mainVars, ctxDone>>
  BY DEF SaveSucceeds
<1>5. item'[i] = it /\ IsBatch' = IsBatch
  BY <1>2, <1>4, <1>1, RunsInCall DEF IsBatch, fixedVars, mainVars
<1>6. Left(i)'
  BY <1>1, <1>3, <1>5, RunsInCall DEF SaveSucceeds, Left, ItemState
<1>7. i \in cache' => IsBatch \/ it.pc \in {"download", "upload", "backoff"}
  BY <1>1, RunsInCall DEF SaveSucceeds, ItemState
<1>8. ignore /\ ~ctxDone => groupErr = "none" /\ it.phase # "stopped" /\ it.err # "canceled"
  BY <1>1, RunsInCall DEF SaveSucceeds, ItemState, Alone, Calm
<1>9. QED
  <2> HIDE DEF it
  <2>1. groupErr' \in Errors /\ (ignore => groupErr' # "error")
    BY <1>1, <1>4, RunsInCall DEF Calm
  <2>2. QED
    BY <1>1, <1>2, <1>3, <1>4, <1>6, <1>7, <1>8, <2>1, RunsInCall, FileStepKeeps

\* The goroutine of a file ends: its error and its phase belong together.
LEMMA ExitKeeps ==
    ASSUME IInv, NEW i \in Items, item[i].pc \notin {"idle", "exited"},
           NEW e \in Errors,
           NEW q \in {"waiting", "active", "downloaded", "retrying", "completed", "failed", "stopped"},
           NEW s \in {"no", "whole"}, q = "completed" => s = "whole",
           Exit(i, e, [item[i] EXCEPT !.phase = q, !.stored = s]),
           e = "none" => q = IF IsBatch THEN "downloaded" ELSE "completed",
           e = "error" => q = "failed",
           ignore /\ ~ctxDone => e # "canceled" /\ q # "stopped",
           cache' \subseteq cache, i \in cache' => IsBatch,
           UNCHANGED <<fixedVars, mainVars, ctxDone>>
    PROVE  IInv'
<1> DEFINE it == [item[i] EXCEPT !.phase = q, !.stored = s, !.pc = "exited", !.err = e]
<1>1. item[i] \in ItemState /\ Calm /\ groupErr \in Errors /\ ignore \in BOOLEAN
  BY RunsInCall DEF IInv, TypeOK
<1>2. item' = [item EXCEPT ![i] = it]
  BY <1>1 DEF Exit, ItemState
<1>3. it \in ItemState
  BY <1>1, ZenonT(60) DEF ItemState
<1>4. it.pc = "exited" /\ it.phase = q /\ it.err = e /\ it.stored = s
  BY <1>1 DEF ItemState
<1> HIDE DEF it
<1>5. Sound(it)
  BY <1>4 DEF Sound
<1>6. groupErr' = First(groupErr, Reported(e))
  BY DEF Exit
<1>7. item'[i] = it /\ IsBatch' = IsBatch
  BY <1>2, RunsInCall DEF IsBatch, fixedVars, mainVars
<1>8. Left(i)'
  BY <1>1, <1>4, <1>6, <1>7, GroupError DEF Left, fixedVars
<1>9. QED
  BY <1>1, <1>2, <1>3, <1>4, <1>5, <1>6, <1>8, RunsInCall, GroupError, FileStepKeeps

LEMMA FailureKinds ==
    ASSUME IInv, NEW e \in Failures(GroupDone)
    PROVE  /\ e \in {"error", "canceled"} /\ e \in Errors
           /\ ignore /\ ~ctxDone => e # "canceled"
BY DEF IInv, Calm, Failures, GroupDone, Errors

\* A download fails, or is ended.
LEMMA DownloadFailsKeeps ==
    ASSUME IInv, NEW i \in Items, DownloadFails(i)
    PROVE  IInv'
<1>1. item[i].pc \notin {"idle", "exited"}
  BY DEF DownloadFails
<1>2. PICK e \in Failures(GroupDone) : Exit(i, e, [item[i] EXCEPT !.phase = MarkFailed(item[i].phase, e)])
  BY DEF DownloadFails
<1> DEFINE q == MarkFailed(item[i].phase, e)
<1>3. /\ item[i] \in ItemState /\ Sound(item[i])
      /\ item[i].phase \in {"active", "downloaded", "retrying"} /\ item[i].stored \in {"no", "whole"}
  BY <1>1, RunsInCall DEF DownloadFails, Sound, ItemState
<1>4. e \in {"error", "canceled"} /\ e \in Errors /\ (ignore /\ ~ctxDone => e # "canceled")
  BY FailureKinds
<1>5. q \in {"failed", "stopped"} /\ (e = "error" => q = "failed") /\ (q = "stopped" => e = "canceled")
  BY <1>3, <1>4 DEF MarkFailed
<1> HIDE DEF q
<1>6. [item[i] EXCEPT !.phase = q] = [item[i] EXCEPT !.phase = q, !.stored = item[i].stored]
  BY <1>3 DEF ItemState
<1>7. cache' \subseteq cache /\ (i \in cache' => IsBatch) /\ UNCHANGED <<fixedVars, mainVars, ctxDone>>
  BY <1>1, RunsInCall DEF DownloadFails
<1>8. QED
  BY <1>1, <1>2, <1>3, <1>4, <1>5, <1>6, <1>7, ExitKeeps DEF q

\* The last attempt to upload has failed, or the wait is ended.
LEMMA GiveUpKeeps ==
    ASSUME IInv, NEW i \in Items, GiveUp(i)
    PROVE  IInv'
<1>1. item[i].pc \notin {"idle", "exited"}
  BY DEF GiveUp
<1>2. PICK e \in Failures(GroupDone) : Exit(i, e, [item[i] EXCEPT !.phase = MarkFailed(item[i].phase, e)])
  BY DEF GiveUp
<1> DEFINE q == MarkFailed(item[i].phase, e)
<1>3. /\ item[i] \in ItemState /\ Sound(item[i])
      /\ item[i].phase \in {"active", "downloaded", "retrying"} /\ item[i].stored \in {"no", "whole"}
  BY <1>1, RunsInCall DEF GiveUp, Sound, ItemState
<1>4. e \in {"error", "canceled"} /\ e \in Errors /\ (ignore /\ ~ctxDone => e # "canceled")
  BY FailureKinds
<1>5. q \in {"failed", "stopped"} /\ (e = "error" => q = "failed") /\ (q = "stopped" => e = "canceled")
  BY <1>3, <1>4 DEF MarkFailed
<1> HIDE DEF q
<1>6. [item[i] EXCEPT !.phase = q] = [item[i] EXCEPT !.phase = q, !.stored = item[i].stored]
  BY <1>3 DEF ItemState
<1>7. cache' \subseteq cache /\ (i \in cache' => IsBatch) /\ UNCHANGED <<fixedVars, mainVars, ctxDone>>
  BY <1>1, RunsInCall DEF GiveUp
<1>8. QED
  BY <1>1, <1>2, <1>3, <1>4, <1>5, <1>6, <1>7, ExitKeeps DEF q

\* The cache file cannot be made.
LEMMA CreateFailsKeeps ==
    ASSUME IInv, NEW i \in Items, CreateFails(i)
    PROVE  IInv'
<1>1. item[i].pc \notin {"idle", "exited"}
  BY DEF CreateFails
<1>2. item[i] \in ItemState /\ item[i].phase = "active" /\ item[i].stored \in {"no", "whole"}
  BY <1>1, RunsInCall DEF CreateFails, Sound, ItemState
<1>3. MarkFailed(item[i].phase, "error") = "failed"
  BY <1>2 DEF MarkFailed
<1>4. Exit(i, "error", [item[i] EXCEPT !.phase = "failed"])
  BY <1>3 DEF CreateFails
<1>5. [item[i] EXCEPT !.phase = "failed"] = [item[i] EXCEPT !.phase = "failed", !.stored = item[i].stored]
  BY <1>2 DEF ItemState
<1>6. cache' = cache /\ (i \in cache' => IsBatch) /\ UNCHANGED <<fixedVars, mainVars, ctxDone>>
  BY <1>1, RunsInCall DEF CreateFails
<1>7. QED
  BY <1>1, <1>2, <1>4, <1>5, <1>6, ExitKeeps DEF Errors

\* A file of a group ends here, any other goes on.
LEMMA DownloadSucceedsKeeps ==
    ASSUME IInv, NEW i \in Items, DownloadSucceeds(i)
    PROVE  IInv'
<1>1. item[i].pc \notin {"idle", "exited"}
  BY DEF DownloadSucceeds
<1>2. item[i] \in ItemState /\ Sound(item[i]) /\ item[i].pc = "download" /\ item[i].stored \in {"no", "whole"}
  BY <1>1, RunsInCall DEF DownloadSucceeds, Sound, ItemState
<1>3. cache' = cache /\ UNCHANGED <<fixedVars, mainVars, ctxDone>>
  BY DEF DownloadSucceeds
<1>4. CASE IsBatch
  <2>1. Exit(i, "none", [item[i] EXCEPT !.phase = "downloaded"])
    BY <1>4 DEF DownloadSucceeds
  <2>2. [item[i] EXCEPT !.phase = "downloaded"]
        = [item[i] EXCEPT !.phase = "downloaded", !.stored = item[i].stored]
    BY <1>2 DEF ItemState
  <2>3. QED
    BY <1>1, <1>2, <1>3, <1>4, <2>1, <2>2, ExitKeeps DEF Errors
<1>5. CASE ~IsBatch
  <2> DEFINE it == [item[i] EXCEPT !.phase = "downloaded", !.pc = "upload"]
  <2>1. item' = [item EXCEPT ![i] = it] /\ groupErr' = groupErr
    BY <1>1, <1>5, RunsInCall DEF DownloadSucceeds, ItemState
  <2>2. it \in ItemState /\ it.pc = "upload"
    BY <1>2 DEF ItemState
  <2>3. Sound(it)
    BY <1>2, BatchAssumption DEF Sound, ItemState
  <2>4. item'[i] = it /\ IsBatch' = IsBatch
    BY <1>1, <1>3, <2>1, RunsInCall DEF IsBatch, fixedVars, mainVars
  <2>5. Left(i)'
    BY <1>5, <2>2, <2>4 DEF Left
  <2>6. ignore /\ ~ctxDone => groupErr = "none" /\ it.phase # "stopped" /\ it.err # "canceled"
    BY <1>1, <1>2, RunsInCall DEF ItemState, Alone, Calm
  <2>7. groupErr' \in Errors /\ (ignore => groupErr' # "error")
    BY <1>1, <2>1, RunsInCall DEF Calm
  <2> HIDE DEF it
  <2>8. QED
    BY <1>1, <1>3, <2>1, <2>2, <2>3, <2>5, <2>6, <2>7, RunsInCall, FileStepKeeps
<1>6. QED
  BY <1>4, <1>5

\* The storage has the file.
LEMMA UploadSucceedsKeeps ==
    ASSUME IInv, NEW i \in Items, UploadSucceeds(i)
    PROVE  IInv'
<1>1. item[i].pc \notin {"idle", "exited"}
  BY DEF UploadSucceeds
<1>2. ~IsBatch /\ cache \subseteq Items
  BY <1>1, RunsInCall DEF UploadSucceeds, Left
<1>3. Exit(i, "none", [item[i] EXCEPT !.phase = "completed", !.stored = "whole"])
  BY DEF UploadSucceeds
<1>4. cache' \subseteq cache /\ i \notin cache' /\ UNCHANGED <<fixedVars, mainVars, ctxDone>>
  BY DEF UploadSucceeds
<1>5. QED
  BY <1>1, <1>2, <1>3, <1>4, ExitKeeps DEF Errors

\* Both goroutines of a stream have returned: without an error, Save has stored
\* the whole file.
LEMMA StreamJoinKeeps ==
    ASSUME IInv, NEW i \in Items, StreamJoin(i)
    PROVE  IInv'
<1>1. item[i].pc = "stream" /\ item[i].reader # "saving"
  BY DEF StreamJoin
<1>2. /\ item[i] \in ItemState /\ Sound(item[i]) /\ Alone(i) /\ ~IsBatch
      /\ (i \in cache => IsBatch) /\ item[i].stored \in {"no", "whole"}
  BY <1>1, RunsInCall DEF Left, Sound, ItemState
<1> DEFINE q == IF item[i].err = "none" THEN "completed" ELSE item[i].phase
<1>3. /\ item[i].err \in Errors
      /\ q \in {"waiting", "active", "downloaded", "retrying", "completed", "failed", "stopped"}
  BY <1>2 DEF ItemState
<1>4. item[i].err = "none" => item[i].stored = "whole"
  BY <1>1, <1>2 DEF Sound, ItemState
<1>5. q = "completed" => item[i].stored = "whole"
  BY <1>2, <1>4 DEF Sound
<1>6. Exit(i, item[i].err, [item[i] EXCEPT !.phase = q])
  BY DEF StreamJoin
<1>7. item[i].err = "error" => q = "failed"
  BY <1>1, <1>2 DEF Sound
<1>8. ignore /\ ~ctxDone => item[i].err # "canceled" /\ q # "stopped"
  BY <1>2 DEF Alone
<1>9. item[i].err = "none" => q = IF IsBatch THEN "downloaded" ELSE "completed"
  BY <1>2
<1>10. cache' = cache /\ UNCHANGED <<fixedVars, mainVars, ctxDone>>
  BY DEF StreamJoin
<1>11. [item[i] EXCEPT !.phase = q] = [item[i] EXCEPT !.phase = q, !.stored = item[i].stored]
  BY <1>2 DEF ItemState
<1> HIDE DEF q
<1>12. QED
  BY <1>1, <1>2, <1>3, <1>5, <1>6, <1>7, <1>8, <1>9, <1>10, <1>11, ExitKeeps

\* One half of a stream fails: the first error of the two is the file's.
LEMMA StreamFailureKeeps ==
    ASSUME IInv, NEW i \in Items, item[i].pc = "stream", NEW e \in Failures(StreamDone(i)),
           NEW it \in ItemState, item' = [item EXCEPT ![i] = it],
           it.pc = "stream", it.phase = MarkFailed(item[i].phase, e), it.err = First(item[i].err, e),
           it.stored = item[i].stored,
           it.writer = "done" => it.pipe # "open", it.pipe = "eof" => it.got = Chunks,
           it.reader = "done" => it.stored = "whole",
           UNCHANGED <<fixedVars, mainVars, groupErr, ctxDone, cache>>
    PROVE  IInv'
<1>1. /\ item[i] \in ItemState /\ Sound(item[i]) /\ Alone(i) /\ Calm /\ ~IsBatch
      /\ groupErr \in Errors /\ (i \in cache => IsBatch)
  BY RunsInCall DEF Left
<1>2. /\ e \in {"error", "canceled"}
      /\ e = "canceled" => ctxDone \/ groupErr # "none" \/ item[i].err # "none"
  BY DEF Failures, StreamDone, GroupDone
<1>3. item[i].phase \in {"active", "failed", "stopped"} /\ item[i].err \in Errors
  BY <1>1 DEF Sound, ItemState, Errors
<1>4. /\ it.err \in {"error", "canceled"} /\ it.phase \in {"failed", "stopped"}
      /\ it.err = "error" => it.phase = "failed"
  BY <1>1, <1>2, <1>3 DEF MarkFailed, First, Sound, Errors
<1>5. ignore /\ ~ctxDone => groupErr = "none" /\ it.phase # "stopped" /\ it.err # "canceled"
  <2> SUFFICES ASSUME ignore, ~ctxDone PROVE groupErr = "none" /\ it.phase # "stopped" /\ it.err # "canceled"
    OBVIOUS
  <2>1. groupErr = "none" /\ item[i].phase # "stopped" /\ item[i].err # "canceled"
    BY <1>1 DEF Alone, Calm
  <2>2. item[i].err = "error" => item[i].phase = "failed"
    BY <1>1 DEF Sound
  <2>3. QED
    BY <1>2, <1>3, <2>1, <2>2 DEF MarkFailed, First, Errors
<1>6. Sound(it)
  BY <1>1, <1>4 DEF Sound
<1>7. item'[i] = it /\ IsBatch' = IsBatch
  BY RunsInCall DEF IsBatch, fixedVars, mainVars
<1>8. Left(i)'
  BY <1>1, <1>7 DEF Left
<1>9. groupErr' \in Errors /\ (ignore => groupErr' # "error")
  BY <1>1 DEF Calm
<1>10. QED
  BY <1>1, <1>5, <1>6, <1>8, <1>9, RunsInCall, FileStepKeeps

LEMMA WriterFailsKeeps ==
    ASSUME IInv, NEW i \in Items, WriterFails(i)
    PROVE  IInv'
<1>1. item[i].pc = "stream"
  BY DEF WriterFails
<1>2. item[i] \in ItemState /\ Sound(item[i])
  BY <1>1, RunsInCall
<1>3. PICK e \in Failures(StreamDone(i)) : item' = [item EXCEPT ![i] = Break(item[i], e)]
  BY <1>1, RunsInCall DEF WriterFails
<1> DEFINE it == Break(item[i], e)
<1>4. e \in Errors
  BY DEF Failures, Errors
<1>5. it \in ItemState
  <2>1. MarkFailed(item[i].phase, e)
        \in {"waiting", "active", "downloaded", "retrying", "completed", "failed", "stopped"}
    BY <1>2 DEF MarkFailed, ItemState
  <2>2. First(item[i].err, e) \in Errors
    BY <1>2, <1>4 DEF First, ItemState
  <2>3. QED
    BY <1>2, <2>1, <2>2, ZenonT(60) DEF Break, ItemState
<1>6. /\ it.pc = item[i].pc /\ it.phase = MarkFailed(item[i].phase, e) /\ it.err = First(item[i].err, e)
      /\ it.stored = item[i].stored /\ it.writer = "done" /\ it.pipe = "broken"
      /\ it.reader = item[i].reader
  BY <1>2 DEF Break, ItemState
<1>7. it.reader = "done" => it.stored = "whole"
  BY <1>1, <1>2, <1>6 DEF Sound
<1>8. UNCHANGED <<fixedVars, mainVars, groupErr, ctxDone, cache>>
  BY DEF WriterFails
<1> HIDE DEF it
<1>9. item' = [item EXCEPT ![i] = it]
  BY <1>3 DEF it
<1>10. QED
  BY <1>1, <1>5, <1>6, <1>7, <1>8, <1>9, StreamFailureKeeps

LEMMA SaveFailsKeeps ==
    ASSUME IInv, NEW i \in Items, SaveFails(i)
    PROVE  IInv'
<1>1. item[i].pc = "stream"
  BY DEF SaveFails
<1>2. item[i] \in ItemState /\ Sound(item[i]) /\ item \in [Items -> ItemState]
  BY <1>1, RunsInCall
<1>3. PICK e \in Failures(StreamDone(i)), r \in {"closed", "left"} :
         item' = [item EXCEPT ![i].reader = r, ![i].phase = MarkFailed(item[i].phase, e),
                              ![i].err = First(item[i].err, e)]
  BY <1>1, <1>2 DEF SaveFails, ItemState
<1> DEFINE it == [item[i] EXCEPT !.reader = r, !.phase = MarkFailed(item[i].phase, e),
                                 !.err = First(item[i].err, e)]
<1>4. e \in Errors
  BY DEF Failures, Errors
<1>5. it \in ItemState
  <2>1. MarkFailed(item[i].phase, e)
        \in {"waiting", "active", "downloaded", "retrying", "completed", "failed", "stopped"}
    BY <1>2 DEF MarkFailed, ItemState
  <2>2. First(item[i].err, e) \in Errors
    BY <1>2, <1>4 DEF First, ItemState
  <2>3. QED
    BY <1>2, <2>1, <2>2 DEF ItemState
<1>6. /\ it.pc = item[i].pc /\ it.phase = MarkFailed(item[i].phase, e) /\ it.err = First(item[i].err, e)
      /\ it.stored = item[i].stored /\ it.writer = item[i].writer /\ it.pipe = item[i].pipe
      /\ it.reader = r /\ it.got = item[i].got
  BY <1>2 DEF ItemState
<1>7. item' = [item EXCEPT ![i] = it]
  BY <1>2, <1>3
<1>8. UNCHANGED <<fixedVars, mainVars, groupErr, ctxDone, cache>>
  BY DEF SaveFails
<1> HIDE DEF it
<1>9. /\ it.writer = "done" => it.pipe # "open"
      /\ it.pipe = "eof" => it.got = Chunks
      /\ it.reader = "done" => it.stored = "whole"
  BY <1>1, <1>2, <1>6 DEF Sound
<1>10. QED
  BY <1>1, <1>5, <1>6, <1>7, <1>8, <1>9, StreamFailureKeeps

\* The next goroutine of the call.
LEMMA SpawnKeeps ==
    ASSUME IInv, NEW i \in Items, Spawn(i)
    PROVE  IInv'
<1> DEFINE it == [item[i] EXCEPT !.phase = "active",
                                 !.pc = IF shape.stream[i] /\ ~IsBatch THEN "stream" ELSE "create"]
<1>1. /\ item[i].pc = "idle" /\ main = "group" /\ i \in Call
      /\ UNCHANGED <<fixedVars, mainVars, groupErr, ctxDone, cache>>
  BY DEF Spawn
<1>2. /\ item \in [Items -> ItemState] /\ item[i] \in ItemState /\ Sound(item[i]) /\ Calm
      /\ groupErr \in Errors /\ (i \in cache => IsBatch)
  BY <1>1 DEF IInv, TypeOK, Cached
<1>3. item' = [item EXCEPT ![i] = it]
  BY <1>2 DEF Spawn, ItemState
<1>4. it \in ItemState
  BY <1>2, ZenonT(60) DEF ItemState
<1>5. /\ it.pc = (IF shape.stream[i] /\ ~IsBatch THEN "stream" ELSE "create")
      /\ it.phase = "active" /\ it.err = "none" /\ it.fails = 0 /\ it.stored = item[i].stored
      /\ it.writer = item[i].writer /\ it.reader = item[i].reader /\ it.pipe = item[i].pipe
      /\ it.got = item[i].got
  BY <1>1, <1>2 DEF Sound, ItemState
<1> HIDE DEF it
<1>6. Sound(it)
  BY <1>1, <1>2, <1>5 DEF Sound
<1>7. item'[i] = it /\ IsBatch' = IsBatch
  BY <1>1, <1>2, <1>3 DEF IsBatch, fixedVars, mainVars
<1>8. Left(i)'
  BY <1>5, <1>7 DEF Left
<1>9. groupErr' \in Errors /\ (ignore => groupErr' # "error")
      /\ (ignore /\ ~ctxDone => groupErr' = "none")
  BY <1>1, <1>2 DEF Calm
<1>10. QED
  BY <1>1, <1>2, <1>3, <1>4, <1>5, <1>6, <1>8, <1>9, FileStepKeeps

-----------------------------------------------------------------------------
(* The end of a call *)

\* What the end of a call has to show: the outcome of its files, `it`, is
\* sound, and unless Execute stops each of them is settled.
LEMMA CallReturnsKeeps ==
    ASSUME IInv, main # "returned", \A j \in Call : item[j].pc = "exited",
           NEW err \in Errors, NEW it \in [Items -> ItemState],
           \A j \in Items \ Call : it[j] = item[j],
           \A j \in Call : it[j].pc = "exited" /\ Sound(it[j]),
           ignore /\ ~ctxDone =>
               err # "canceled" /\ \A j \in Call : it[j].phase # "stopped" /\ it[j].err # "canceled",
           err = "none" \/ (err = "error" /\ ignore) =>
               \A j \in Call :
                   \/ it[j].phase = "completed"
                   \/ ignore /\ it[j].phase = "failed"
                   \/ /\ ignore /\ it[j].phase = "downloaded"
                      /\ \E k \in Call \ {j} : it[k].phase = "failed",
           CallReturns(err, it), UNCHANGED <<fixedVars, ctxDone>>
    PROVE  IInv'
<1> DEFINE stops == err = "canceled" \/ (err = "error" /\ ~ignore)
           m == Max(Call)
<1>0. TypeOK /\ next \in Items /\ ignore \in BOOLEAN /\ N \in Nat
  BY BatchAssumption DEF IInv, TypeOK
<1>1. /\ Call \in SUBSET Items /\ next \in Call /\ m \in Items /\ Call = next..m
      /\ \A j \in Call : shape.key[j] = shape.key[next]
  BY <1>0, CallIsInterval
<1>n. /\ m \in Nat /\ next \in Nat /\ 1 <= next /\ next <= m /\ m <= N
      /\ \A i \in Items : i \in Nat /\ 1 <= i /\ i <= N
  BY <1>0, <1>1 DEF Items
<1>2. /\ groupErr' = "none" /\ execErr' = IF stops THEN err ELSE "none"
      /\ item' = IF stops THEN FinishItems(it) ELSE it
      /\ cache' = cache \ Cleaned(err)
      /\ stops \/ m = N => main' = "returned" /\ next' = next
      /\ ~(stops \/ m = N) => main' = "group" /\ next' = m + 1
  BY DEF CallReturns
<1>3. cache' = {}
  BY <1>2 DEF IInv, Cached, Cleaned
<1>4. \A j \in Items : it[j].pc \in {"idle", "exited"} /\ Sound(it[j])
  BY DEF IInv, Running
<1>5. \A j \in Items : ignore /\ ~ctxDone => it[j].phase # "stopped" /\ it[j].err # "canceled"
  BY DEF IInv, Alone
<1>6. CASE stops
  <2>1. /\ execErr' = err /\ err # "none" /\ main' = "returned" /\ next' = next
        /\ ~(ignore /\ ~ctxDone) /\ item' = FinishItems(it)
    BY <1>2, <1>6
  <2>2. \A j \in Items :
           /\ item'[j] \in ItemState /\ item'[j].pc \in {"idle", "exited"} /\ Sound(item'[j])
    <3> SUFFICES ASSUME NEW j \in Items
                 PROVE  item'[j] \in ItemState /\ item'[j].pc \in {"idle", "exited"} /\ Sound(item'[j])
      OBVIOUS
    <3>1. CASE item'[j] = it[j]
      BY <1>4, <3>1
    <3>2. CASE item'[j] = [it[j] EXCEPT !.phase = "stopped"]
      BY <1>4, <3>2 DEF Sound, ItemState
    <3>3. QED
      BY <2>1, <3>1, <3>2 DEF FinishItems
  <2>3. item' \in [Items -> ItemState]
    BY <2>1, <2>2 DEF FinishItems
  <2>4. TypeOK'
    BY <1>0, <1>2, <1>3, <2>1, <2>3 DEF TypeOK, fixedVars, Errors
  <2>5. \A j \in Items : (Sound(item[j]) /\ Alone(j))'
    BY <2>1, <2>2 DEF Alone, fixedVars
  <2>6. Calm' /\ Running' /\ Cached' /\ Settled'
    BY <1>2, <1>3, <2>1, <2>2 DEF Calm, Running, Cached, Settled, fixedVars
  <2>7. QED
    BY <2>4, <2>5, <2>6 DEF IInv
<1>7. CASE ~stops
  <2>1. execErr' = "none" /\ item' = it
    BY <1>2, <1>7
  <2>2. next' \in Items /\ main' \in {"group", "returned"}
    BY <1>0, <1>2, <1>n DEF Items
  <2>3. TypeOK'
    BY <1>0, <1>2, <1>3, <2>1, <2>2 DEF TypeOK, fixedVars, Errors
  <2>4. \A j \in Items : (Sound(item[j]) /\ Alone(j))'
    BY <1>4, <1>5, <2>1 DEF Alone, fixedVars
  <2>5. Calm' /\ Cached'
    BY <1>2, <1>3, <2>1 DEF Calm, Cached
  <2>6. Running'
    <3>1. \A i \in Items : item'[i].pc \in {"idle", "exited"}
      BY <1>4, <2>1
    <3>2. ASSUME main' # "returned", NEW i \in Items, i >= next' PROVE item'[i].pc = "idle"
      <4>1. i > m /\ i \notin Call /\ i >= next
        BY <1>1, <1>2, <1>n, <3>2
      <4>2. QED
        BY <2>1, <4>1 DEF IInv, Running
    <3>3. \A i \in Call' : i \in Items /\ i >= next'
      BY <1>0, <2>2 DEF Call, Items
    <3>4. QED
      BY <2>1, <2>2, <3>1, <3>2, <3>3 DEF Running, Left
  <2>7. Settled'
    <3>1. Past' = Past \cup Call
      <4>1. Past = 1..(next - 1)
        BY DEF Past
      <4>2. Past' = 1..m
        BY <1>2, <1>7, <1>n, <2>2 DEF Past, Items
      <4>3. QED
        BY <1>1, <1>n, <4>1, <4>2
    <3>2. Past \subseteq Items \ Call
      <4> SUFFICES ASSUME NEW j \in Past PROVE j \in Items /\ j \notin Call
        OBVIOUS
      <4>1. j \in 1..(next - 1)
        BY DEF Past
      <4>2. j \in Nat /\ 1 <= j /\ j < next /\ j <= N
        BY <1>0, <1>n, <4>1
      <4>3. QED
        BY <1>0, <1>1, <1>n, <4>2 DEF Items
    <3>3. ASSUME NEW i \in Past PROVE Over(i)'
      <4>1. Over(i)
        BY <3>3 DEF IInv, Settled, Running
      <4>2. \A j \in Past : item'[j] = item[j]
        BY <2>1, <3>2
      <4>3. QED
        BY <3>1, <4>1, <4>2 DEF Over, fixedVars
    <3>4. ASSUME NEW i \in Call PROVE Over(i)'
      <4>1. \/ item'[i].phase = "completed"
            \/ ignore /\ item'[i].phase = "failed"
            \/ /\ ignore /\ item'[i].phase = "downloaded"
               /\ \E k \in Call \ {i} : item'[k].phase = "failed"
        BY <1>7, <2>1 DEF Errors
      <4>2. \A k \in Call : shape.key[k] = shape.key[i]
        BY <1>1
      <4>3. shape' = shape /\ ignore' = ignore
        BY DEF fixedVars
      <4>4. QED
        BY <3>1, <4>1, <4>2, <4>3 DEF Over
    <3>5. QED
      BY <3>1, <3>3, <3>4 DEF Settled
  <2>8. QED
    BY <2>3, <2>4, <2>5, <2>6, <2>7 DEF IInv
<1>8. QED
  BY <1>6, <1>7

\* Where the files of a call are when its goroutines have ended.
LEMMA CallEnded ==
    ASSUME IInv, main # "returned", \A j \in Call : item[j].pc = "exited"
    PROVE  /\ item \in [Items -> ItemState] /\ Call \in SUBSET Items /\ Calm
           /\ ignore \in BOOLEAN /\ groupErr \in Errors /\ ctxDone \in BOOLEAN
           /\ \A j \in Call :
                 /\ item[j] \in ItemState /\ Sound(item[j]) /\ Alone(j) /\ item[j].pc = "exited"
                 /\ item[j].err = "none" => item[j].phase = IF IsBatch THEN "downloaded" ELSE "completed"
                 /\ item[j].err = "error" => item[j].phase = "failed" /\ (ignore \/ groupErr # "none")
                 /\ item[j].err = "canceled" => groupErr # "none"
<1>1. TypeOK /\ next \in Items /\ Call \in SUBSET Items
  BY CallIsInterval DEF IInv, TypeOK
<1>2. QED
  BY <1>1 DEF IInv, TypeOK, Running, Left

\* The errgroup ends with an error, or nothing is left to save.
LEMMA GroupReturnsKeeps ==
    ASSUME IInv, GroupReturns
    PROVE  IInv'
<1>1. /\ main # "returned" /\ \A j \in Call : item[j].pc = "exited"
      /\ groupErr # "none" \/ ~IsBatch
      /\ CallReturns(groupErr, item) /\ UNCHANGED <<fixedVars, ctxDone>>
  BY DEF GroupReturns, AllExited
<1>2. /\ item \in [Items -> ItemState] /\ groupErr \in Errors
      /\ \A j \in Call : item[j].pc = "exited" /\ Sound(item[j])
  BY <1>1, CallEnded
<1>3. ignore /\ ~ctxDone =>
         groupErr # "canceled" /\ \A j \in Call : item[j].phase # "stopped" /\ item[j].err # "canceled"
  BY <1>1, CallEnded DEF Calm, Alone
<1>4. groupErr = "none" \/ (groupErr = "error" /\ ignore) =>
         \A j \in Call : item[j].phase = "completed" \/ (ignore /\ item[j].phase = "failed")
  <2> SUFFICES ASSUME groupErr = "none" \/ (groupErr = "error" /\ ignore), NEW j \in Call
               PROVE  item[j].phase = "completed" \/ (ignore /\ item[j].phase = "failed")
    OBVIOUS
  <2>1. groupErr = "none" /\ ~IsBatch
    BY <1>1, CallEnded DEF Calm
  <2>2. item[j].err \in Errors
    BY <1>1, CallEnded DEF ItemState
  <2>3. QED
    BY <1>1, <2>1, <2>2, CallEnded DEF Errors
<1>5. QED
  BY <1>1, <1>2, <1>3, <1>4, CallReturnsKeeps

\* A group with no file to save returns an error.
LEMMA NothingDownloadedKeeps ==
    ASSUME IInv, NothingDownloaded
    PROVE  IInv'
<1>1. /\ main # "returned" /\ \A j \in Call : item[j].pc = "exited"
      /\ groupErr = "none" /\ \A j \in Call : item[j].err # "none"
      /\ CallReturns("error", item) /\ UNCHANGED <<fixedVars, ctxDone>>
  BY DEF NothingDownloaded, AllExited, Downloaded
<1>2. /\ item \in [Items -> ItemState] /\ "error" \in Errors
      /\ \A j \in Call : item[j].pc = "exited" /\ Sound(item[j])
  BY <1>1, CallEnded DEF Errors
<1>3. ignore /\ ~ctxDone =>
         "error" # "canceled" /\ \A j \in Call : item[j].phase # "stopped" /\ item[j].err # "canceled"
  BY <1>1, CallEnded DEF Alone
<1>4. \A j \in Call : item[j].phase = "failed"
  <2> SUFFICES ASSUME NEW j \in Call PROVE item[j].phase = "failed"
    OBVIOUS
  <2>1. item[j].err \in Errors
    BY <1>1, CallEnded DEF ItemState
  <2>2. QED
    BY <1>1, <2>1, CallEnded DEF Errors
<1>5. QED
  BY <1>1, <1>2, <1>3, <1>4, CallReturnsKeeps

\* The file that cannot be opened is the reason why the others are left behind.
LEMMA OpenFailsKeeps ==
    ASSUME IInv, NEW i \in Items, OpenFails(i)
    PROVE  IInv'
<1> DEFINE it == [item EXCEPT ![i].phase = MarkFailed(item[i].phase, "error")]
<1>1. /\ main # "returned" /\ \A j \in Call : item[j].pc = "exited"
      /\ groupErr = "none" /\ IsBatch /\ i \in Call /\ item[i].err = "none"
      /\ CallReturns("error", [item EXCEPT ![i].phase = MarkFailed(@, "error")])
      /\ UNCHANGED <<fixedVars, ctxDone>>
  BY DEF OpenFails, AllExited, Downloaded
<1>2. /\ item \in [Items -> ItemState] /\ item[i] \in ItemState /\ Sound(item[i])
      /\ item[i].phase = "downloaded" /\ item[i].pc = "exited"
  BY <1>1, CallEnded
<1>3. CallReturns("error", it)
  BY <1>1, <1>2 DEF ItemState
<1>4. it[i] = [item[i] EXCEPT !.phase = "failed"] /\ \A j \in Items \ {i} : it[j] = item[j]
  BY <1>2 DEF MarkFailed
<1>5. /\ it[i] \in ItemState /\ it[i].pc = "exited" /\ it[i].phase = "failed"
      /\ it[i].err = item[i].err /\ Sound(it[i])
  BY <1>2, <1>4 DEF ItemState, Sound
<1>6. it \in [Items -> ItemState]
  BY <1>2, <1>4, <1>5
<1> HIDE DEF it
<1>7. \A j \in Call : it[j].pc = "exited" /\ Sound(it[j])
  BY <1>1, <1>4, <1>5, CallEnded
<1>8. \A j \in Items \ Call : it[j] = item[j]
  BY <1>1, <1>4
<1>9. ignore /\ ~ctxDone => \A j \in Call : it[j].phase # "stopped" /\ it[j].err # "canceled"
  BY <1>1, <1>4, <1>5, CallEnded DEF Alone
<1>10. ASSUME ignore, NEW j \in Call
       PROVE  \/ it[j].phase = "failed"
              \/ it[j].phase = "downloaded" /\ \E k \in Call \ {j} : it[k].phase = "failed"
  <2>1. CASE j = i
    BY <1>5, <2>1
  <2>2. CASE j # i
    <3>1. it[j] = item[j] /\ item[j].err \in Errors
      BY <1>1, <1>4, <2>2, CallEnded DEF ItemState
    <3>2. item[j].phase \in {"downloaded", "failed"}
      BY <1>1, <3>1, CallEnded DEF Errors
    <3>3. QED
      BY <1>1, <1>5, <2>2, <3>1, <3>2
  <2>3. QED
    BY <2>1, <2>2
<1>11. "error" \in Errors /\ "error" # "canceled"
  BY DEF Errors
<1>12. QED
  BY <1>1, <1>3, <1>6, <1>7, <1>8, <1>9, <1>10, <1>11, CallReturnsKeeps

\* What is known when a group is saved.
LEMMA SavesGroup ==
    ASSUME IInv, main = "save"
    PROVE  /\ IsBatch /\ groupErr = "none" /\ \A j \in Call : item[j].pc = "exited"
           /\ \A j \in Call : \/ j \in Downloaded /\ item[j].phase = "downloaded"
                              \/ j \notin Downloaded /\ item[j].phase = "failed" /\ ignore
           /\ \A j \in Call : item[j] \in ItemState /\ Sound(item[j]) /\ Alone(j)
           /\ Downloaded \subseteq Call /\ Call \in SUBSET Items /\ item \in [Items -> ItemState]
<1>1. main # "returned" /\ IsBatch /\ groupErr = "none" /\ \A j \in Call : item[j].pc = "exited"
  BY DEF IInv, Running
<1>2. \A j \in Call : item[j].err \in Errors
  BY <1>1, CallEnded DEF ItemState
<1>3. \A j \in Call : \/ j \in Downloaded /\ item[j].phase = "downloaded"
                      \/ j \notin Downloaded /\ item[j].phase = "failed" /\ ignore
  BY <1>1, <1>2, CallEnded DEF Downloaded, Errors
<1>4. QED
  BY <1>1, <1>3, CallEnded DEF Downloaded

\* A saved group is complete, but for the files that had failed.
LEMMA SaveBatchSucceedsKeeps ==
    ASSUME IInv, SaveBatchSucceeds
    PROVE  IInv'
<1> DEFINE it == [i \in Items |-> IF i \in Downloaded
                                  THEN [item[i] EXCEPT !.phase = "completed", !.stored = "whole"]
                                  ELSE item[i]]
<1>1. main = "save" /\ CallReturns("none", it) /\ UNCHANGED <<fixedVars, ctxDone>>
  BY DEF SaveBatchSucceeds
<1>2. \A j \in Items \ Call : it[j] = item[j]
  BY <1>1, SavesGroup
<1>3. \A j \in Call :
         /\ it[j] \in ItemState /\ it[j].pc = "exited" /\ Sound(it[j]) /\ it[j].err = item[j].err
         /\ it[j].phase = "completed" \/ (ignore /\ it[j].phase = "failed")
  <2> SUFFICES ASSUME NEW j \in Call
               PROVE  /\ it[j] \in ItemState /\ it[j].pc = "exited" /\ Sound(it[j])
                      /\ it[j].err = item[j].err
                      /\ it[j].phase = "completed" \/ (ignore /\ it[j].phase = "failed")
    OBVIOUS
  <2>1. item[j] \in ItemState /\ Sound(item[j]) /\ item[j].pc = "exited" /\ j \in Items
    BY <1>1, SavesGroup
  <2>2. CASE j \in Downloaded
    <3>1. it[j] = [item[j] EXCEPT !.phase = "completed", !.stored = "whole"]
      BY <2>1, <2>2
    <3> HIDE DEF it
    <3>2. QED
      BY <2>1, <3>1, ZenonT(60) DEF Sound, ItemState
  <2>3. CASE j \notin Downloaded
    <3>1. it[j] = item[j] /\ item[j].phase = "failed" /\ ignore
      BY <1>1, <2>1, <2>3, SavesGroup
    <3> HIDE DEF it
    <3>2. QED
      BY <2>1, <3>1
  <2>4. QED
    BY <2>2, <2>3
<1>4. it \in [Items -> ItemState]
  <2>1. \A j \in Items : it[j] \in ItemState
    BY <1>1, <1>2, <1>3, SavesGroup
  <2>2. QED
    BY <2>1
<1> HIDE DEF it
<1>5. main # "returned" /\ \A j \in Call : item[j].pc = "exited"
  BY <1>1, SavesGroup
<1>6. ignore /\ ~ctxDone => \A j \in Call : it[j].phase # "stopped" /\ it[j].err # "canceled"
  BY <1>1, <1>3, SavesGroup DEF Alone
<1>7. "none" \in Errors /\ "none" # "canceled"
  BY DEF Errors
<1>8. QED
  BY <1>1, <1>2, <1>3, <1>4, <1>5, <1>6, <1>7, CallReturnsKeeps

\* A group that could not be saved has failed as a whole.
LEMMA SaveBatchFailsKeeps ==
    ASSUME IInv, SaveBatchFails
    PROVE  IInv'
<1>1. PICK e \in Failures(ctxDone) :
         CallReturns(e, [i \in Items |->
             IF i \in Downloaded THEN [item[i] EXCEPT !.phase = MarkFailed(item[i].phase, e)]
             ELSE item[i]])
  BY DEF SaveBatchFails
<1> DEFINE q == IF e = "canceled" THEN "stopped" ELSE "failed"
           it == [i \in Items |-> IF i \in Downloaded
                                  THEN [item[i] EXCEPT !.phase = MarkFailed(item[i].phase, e)]
                                  ELSE item[i]]
<1>2. main = "save" /\ CallReturns(e, it) /\ UNCHANGED <<fixedVars, ctxDone>>
  BY <1>1 DEF SaveBatchFails
<1>3. e \in {"error", "canceled"} /\ e \in Errors /\ (ignore /\ ~ctxDone => e # "canceled")
  BY DEF Failures, Errors
<1>4. \A j \in Items \ Call : it[j] = item[j]
  BY <1>2, SavesGroup
<1>5. \A j \in Call :
         /\ it[j] \in ItemState /\ it[j].pc = "exited" /\ Sound(it[j]) /\ it[j].err = item[j].err
         /\ it[j].phase = q \/ (ignore /\ it[j].phase = "failed")
  <2> SUFFICES ASSUME NEW j \in Call
               PROVE  /\ it[j] \in ItemState /\ it[j].pc = "exited" /\ Sound(it[j])
                      /\ it[j].err = item[j].err
                      /\ it[j].phase = q \/ (ignore /\ it[j].phase = "failed")
    OBVIOUS
  <2>1. item[j] \in ItemState /\ Sound(item[j]) /\ item[j].pc = "exited" /\ j \in Items
    BY <1>2, SavesGroup
  <2>2. CASE j \in Downloaded
    <3>1. item[j].phase = "downloaded"
      BY <1>2, <2>2, SavesGroup
    <3>2. it[j] = [item[j] EXCEPT !.phase = q]
      BY <2>1, <2>2, <3>1 DEF MarkFailed
    <3>3. q \in {"failed", "stopped"}
      OBVIOUS
    <3> HIDE DEF it, q
    <3>4. QED
      BY <2>1, <3>2, <3>3 DEF Sound, ItemState
  <2>3. CASE j \notin Downloaded
    <3>1. it[j] = item[j] /\ item[j].phase = "failed" /\ ignore
      BY <1>2, <2>1, <2>3, SavesGroup
    <3> HIDE DEF it
    <3>2. QED
      BY <2>1, <3>1
  <2>4. QED
    BY <2>2, <2>3
<1>6. it \in [Items -> ItemState]
  <2>1. \A j \in Items : it[j] \in ItemState
    BY <1>2, <1>4, <1>5, SavesGroup
  <2>2. QED
    BY <2>1
<1> HIDE DEF it
<1>7. main # "returned" /\ \A j \in Call : item[j].pc = "exited"
  BY <1>2, SavesGroup
<1>8. ignore /\ ~ctxDone => \A j \in Call : it[j].phase # "stopped" /\ it[j].err # "canceled"
  BY <1>2, <1>3, <1>5, SavesGroup DEF Alone
<1>9. e = "error" /\ ignore => \A j \in Call : ignore /\ it[j].phase = "failed"
  BY <1>5
<1>10. e # "none"
  BY <1>3
<1> HIDE DEF q
<1>11. QED
  BY <1>2, <1>3, <1>4, <1>5, <1>6, <1>7, <1>8, <1>9, <1>10, CallReturnsKeeps

\* A group whose files can all be opened is saved next.
LEMMA OpenAllKeeps ==
    ASSUME IInv, OpenAll
    PROVE  IInv'
<1>1. /\ main = "group" /\ main' = "save" /\ \A j \in Call : item[j].pc = "exited"
      /\ groupErr = "none" /\ IsBatch
      /\ UNCHANGED <<fixedVars, next, execErr, groupErr, ctxDone, item, cache>>
  BY DEF OpenAll, AllExited
<1>2. Call' = Call /\ IsBatch' = IsBatch /\ Past' = Past
  BY <1>1 DEF Call, IsBatch, Past, fixedVars
<1>3. TypeOK'
  BY <1>1 DEF IInv, TypeOK, fixedVars
<1>4. \A j \in Items : (Sound(item[j]) /\ Alone(j))'
  BY <1>1 DEF IInv, Alone, fixedVars
<1>5. Calm' /\ Cached'
  BY <1>1, <1>2 DEF IInv, Calm, Cached, fixedVars
<1>6. Running'
  <2>1. \A j \in Call : Left(j)'
    BY <1>1, <1>2 DEF IInv, Running, Left, fixedVars
  <2>2. \A j \in Items : item[j].pc \in {"idle", "exited"}
    BY <1>1 DEF IInv, Running
  <2>3. QED
    BY <1>1, <1>2, <2>1, <2>2 DEF IInv, Running
<1>7. Settled'
  BY <1>1, <1>2 DEF IInv, Settled, Over, fixedVars
<1>8. QED
  BY <1>3, <1>4, <1>5, <1>6, <1>7 DEF IInv

\* A cancellation is noted; the goroutines see it in steps of their own.
LEMMA CancelKeeps ==
    ASSUME IInv, Cancel
    PROVE  IInv'
<1>1. ctxDone' = TRUE /\ UNCHANGED <<fixedVars, mainVars, groupErr, item, cache>>
  BY DEF Cancel
<1>2. Call' = Call /\ IsBatch' = IsBatch /\ Past' = Past
  BY <1>1 DEF Call, IsBatch, Past, fixedVars, mainVars
<1>3. TypeOK'
  BY <1>1 DEF IInv, TypeOK, fixedVars, mainVars
<1>4. \A j \in Items : (Sound(item[j]) /\ Alone(j))'
  BY <1>1 DEF IInv, Alone
<1>5. Calm' /\ Cached'
  BY <1>1, <1>2 DEF IInv, Calm, Cached, fixedVars, mainVars
<1>6. Running'
  <2>1. \A j \in Call : Left(j) => Left(j)'
    BY <1>1, <1>2 DEF Left, fixedVars
  <2>2. QED
    BY <1>1, <1>2, <2>1 DEF IInv, Running, mainVars
<1>7. Settled'
  BY <1>1, <1>2 DEF IInv, Settled, Over, fixedVars, mainVars
<1>8. QED
  BY <1>3, <1>4, <1>5, <1>6, <1>7 DEF IInv

-----------------------------------------------------------------------------
(* The invariant *)

LEMMA InitIInv == Init => IInv
<1> SUFFICES ASSUME Init PROVE IInv
  OBVIOUS
<1>n. N \in Nat /\ N > 0 /\ Retry \in Nat /\ Retry > 0 /\ Chunks \in Nat /\ 1 \in Items
  BY BatchAssumption DEF Items
<1>1. NewItem \in ItemState
  BY <1>n DEF NewItem, ItemState, Errors
<1>2. /\ shape \in Shapes /\ ignore \in BOOLEAN /\ next = 1 /\ main = "group" /\ groupErr = "none"
      /\ execErr = "none" /\ ctxDone = FALSE /\ cache = {}
      /\ item \in [Items -> {NewItem}] /\ \A i \in Items : item[i] = NewItem
  BY DEF Init
<1>3. TypeOK
  BY <1>n, <1>1, <1>2 DEF TypeOK, Errors
<1>4. \A i \in Items : Sound(item[i]) /\ Alone(i)
  BY <1>2 DEF Sound, Alone, NewItem
<1>5. Calm /\ Cached
  BY <1>2 DEF Calm, Cached
<1>6. \A i \in Call : i \in Items
  BY <1>2, <1>3, CallIsInterval DEF TypeOK
<1>7. Running
  BY <1>2, <1>6 DEF Running, Left, NewItem
<1>8. Settled
  <2>1. Past = {}
    BY <1>2 DEF Past
  <2>2. QED
    BY <2>1 DEF Settled
<1>9. QED
  BY <1>3, <1>4, <1>5, <1>7, <1>8 DEF IInv

LEMMA StepIInv == IInv /\ [Next]_vars => IInv'
<1> SUFFICES ASSUME IInv, [Next]_vars PROVE IInv'
  OBVIOUS
<1>1. ASSUME NEW i \in Items, FileStep(i) PROVE IInv'
  BY <1>1, CreateFileKeeps, CreateFailsKeeps, DownloadSucceedsKeeps, DownloadFailsKeeps,
     UploadSucceedsKeeps, UploadFailsKeeps, RetryUploadKeeps, GiveUpKeeps, StreamJoinKeeps DEF FileStep
<1>2. ASSUME NEW i \in Items, WriterStep(i) PROVE IInv'
  BY <1>2, FetchKeeps, TransferKeeps, WriterEndsKeeps, WriterFailsKeeps DEF WriterStep
<1>3. ASSUME NEW i \in Items, SaveStep(i) PROVE IInv'
  BY <1>3, SaveSucceedsKeeps, SaveFailsKeeps DEF SaveStep
<1>4. CASE MainStep
  BY <1>4, SpawnKeeps, OpenFailsKeeps, GroupReturnsKeeps, NothingDownloadedKeeps, OpenAllKeeps,
     SaveBatchSucceedsKeeps, SaveBatchFailsKeeps DEF MainStep
<1>5. CASE Cancel
  BY <1>5, CancelKeeps
<1>6. CASE UNCHANGED vars
  <2>1. UNCHANGED <<shape, ignore, next, main, execErr, groupErr, ctxDone, item, cache>>
    BY <1>6 DEF vars, fixedVars, mainVars
  <2>2. TypeOK' /\ Calm' /\ \A j \in Items : (Sound(item[j]) /\ Alone(j))'
    BY <2>1 DEF IInv, TypeOK, Calm, Alone
  <2>3. Call' = Call /\ IsBatch' = IsBatch /\ Past' = Past
    BY <2>1 DEF Call, IsBatch, Past
  <2>4. Running' /\ Cached' /\ Settled'
    BY <2>1, <2>3 DEF IInv, Running, Left, Cached, Settled, Over
  <2>5. QED
    BY <2>2, <2>4 DEF IInv
<1>7. QED
  BY <1>1, <1>2, <1>3, <1>4, <1>5, <1>6 DEF Next

LEMMA Invariance == Spec => []IInv
BY InitIInv, StepIInv, PTL DEF Spec

\* TypeOK: every variable keeps its type.
THEOREM TypeCorrect == Spec => []TypeOK
<1>1. IInv => TypeOK
  BY DEF IInv
<1>2. QED
  BY <1>1, Invariance, PTL

\* NilMeansSettled: when Execute returns no error, each file is completed, or
\* has failed and is ignored, or was left behind by its group.
THEOREM Settles == Spec => []NilMeansSettled
<1>1. IInv => NilMeansSettled
  <2> SUFFICES ASSUME IInv, main = "returned", execErr = "none", NEW i \in Items
               PROVE  \/ item[i].phase = "completed"
                      \/ ignore /\ item[i].phase = "failed"
                      \/ LeftBehind(i)
    BY DEF NilMeansSettled
  <2>1. Over(i) /\ Past = Items
    BY DEF IInv, Settled, Past
  <2>2. QED
    BY <2>1 DEF Over, LeftBehind
<1>2. QED
  BY <1>1, Invariance, PTL

\* StoredWhole: the storage never takes a broken stream for a whole file, and a
\* file counts as completed only when it is stored.
THEOREM StoresWhole == Spec => []StoredWhole
<1>1. IInv => StoredWhole
  BY DEF IInv, Sound, StoredWhole
<1>2. QED
  BY <1>1, Invariance, PTL

\* FailuresStayIsolated: an ignored error ends no other file and not the task.
THEOREM FailuresIsolated == Spec => []FailuresStayIsolated
<1>1. IInv => FailuresStayIsolated
  BY DEF IInv, Calm, Alone, FailuresStayIsolated
<1>2. QED
  BY <1>1, Invariance, PTL

\* CacheIsEmptied: no cache file is left when Execute returns.
THEOREM CacheEmptied == Spec => []CacheIsEmptied
<1>1. IInv => CacheIsEmptied
  BY DEF IInv, Cached, CacheIsEmptied
<1>2. QED
  BY <1>1, Invariance, PTL
=============================================================================
