-------------------------- MODULE LinkTasks_proofs --------------------------
(***************************************************************************)
(* Proofs about LinkTasks for any lists of links, workers, attempts and    *)
(* lengths of a file.  The cache files are the hard part: their paths are  *)
(* shared and removed by name, so what an element reads back is its own    *)
(* only because the map of URLs keeps a second element of the same path    *)
(* from having its file open at the same time.                             *)
(***************************************************************************)
EXTENDS LinkTasks, FunctionTheorems, FiniteSetTheorems, TLAPS

Shared == kind \in {"directlinks", "parsed"}

\* The cache path of an element.
Key(e) == IF Shared THEN NameOf(e) ELSE e

\* No other URL of the task has its file name.
Mine(e) == \A d \in Elems : NameOf(d) = NameOf(e) => UrlOf(d) = UrlOf(e)

\* A file is open while it is copied and read back.
HandleWhenOpen == \A e \in Elems : handle[e] # None <=> el[e] \in {"copy", "copied"}
PathIsOpen == \A k \in Keys : path[k] # None => \E d \in Elems : Key(d) = k /\ handle[d] = path[k]
SharedByKey == \A d, e \in Elems : handle[d] # None /\ handle[d] = handle[e] => Key(d) = Key(e)
Exclusive == Shared => \A d, e \in Processing : UrlOf(d) = UrlOf(e) => d = e

OwnChunks ==
    \A e \in Elems : Mine(e) =>
        /\ el[e] \in {"copy", "copied"} => \A k \in 1..pos[e] : inode[handle[e]][k] = UrlOf(e)
        /\ el[e] = "copied" => pos[e] = Chunks

\* An element that is at it has an attempt left.
TriesLeft == \A e \in Elems : /\ el[e] \in {"todo", "begin"} => tries[e] = 0
                              /\ Attempting(e) => tries[e] < Retry

AtStart == \A e \in Elems : el[e] = "fetched" => pos[e] = 0

Files == AtStart /\ HandleWhenOpen /\ PathIsOpen /\ SharedByKey /\ Exclusive /\ OwnChunks /\ SavedIsOwn

\* When the elements run, and what the group's error stands for.
Ending == \A e \in Elems : result[e] # "none" <=> el[e] = "end"
Phases ==
    /\ phase = "head" => \A e \in Elems : el[e] = "todo"
    /\ phase # "head" => unheaded = {}
    /\ phase = "done" => \A e \in Elems : el[e] \in {"todo", "end"}
    /\ phase = "done" /\ groupErr = "none" => \A e \in Elems : el[e] = "end"
    /\ returned = IF phase # "done" THEN "none" ELSE IF groupErr = "none" THEN "ok" ELSE groupErr
FirstError ==
    /\ groupErr = "cancelled" => ctxDone
    /\ groupErr = "none" => \A e \in Elems : result[e] \in {"none", "ok"} \cup IF ignore THEN {"failed"} ELSE {}
    /\ groupErr = "failed" => \/ \E e \in Elems : result[e] = "failed"
                              \/ phase # "group" /\ \A e \in Elems : el[e] = "todo"
    /\ groupErr # "ok"

Outcome == Ending /\ Phases /\ FirstError

IInv == TypeOK /\ TriesLeft /\ Files /\ Outcome

\* What an element's goroutine does next, whichever task it is of.
Begun(e) == BeginAlways(e) /\ (Shared => \A d \in Processing : UrlOf(d) # UrlOf(e))
Refused(e) == el[e] = "begin" /\ Return(e, "failed") /\ Within /\ UNCHANGED <<tries, pos, stored, fileVars>>
Fails(e, r) == Attempting(e) /\ Return(e, r) /\ Drop(e, Key(e)) /\ Within /\ UNCHANGED <<tries, pos, stored>>

MayTell(r) == r = "cancelled" => GroupDone

StepOf(e) ==
    \/ Begun(e) \/ Refused(e)
    \/ Opens(e) \/ OpenCache(e, Key(e)) \/ CopyChunk(e) \/ CopyEnds(e)
    \/ AttemptFails(e, Key(e)) \/ TryAgain(e)
    \/ \E r \in {"failed", "cancelled"} : MayTell(r) /\ (RetryEnds(e, r) \/ Fails(e, r))
    \/ \E r \in {"ok", "cancelled"} : MayTell(r) /\ Saves(e, Key(e), r)

-----------------------------------------------------------------------------
(* Constants, inodes and steps *)

LEMMA Basics ==
    ASSUME TypeOK, NEW e \in Elems
    PROVE  /\ N \in Nat /\ Limit \in Nat /\ Retry \in Nat /\ Chunks \in Nat /\ Chunks > 0
           /\ UrlOf(e) \in Urls /\ NameOf(e) \in Names /\ Key(e) \in Keys
           /\ None \notin Elems /\ None \notin Urls /\ None \notin Names
<1>1. links \in [Elems -> [url : Urls, name : Names]]
  BY LinkAssumption DEF TypeOK
<1>2. links[e] \in [url : Urls, name : Names]
  BY <1>1
<1>3. UrlOf(e) \in Urls /\ NameOf(e) \in Names
  BY <1>2 DEF UrlOf, NameOf
<1>4. Key(e) \in Keys
  BY <1>3 DEF Key, Keys
<1>5. QED
  BY <1>3, <1>4, LinkAssumption

\* A file that is opened finds an inode no other element has open.
LEMMA FreeInode ==
    ASSUME TypeOK, NEW e \in Elems, handle[e] = None
    PROVE  \E free \in Elems : \A d \in Elems : handle[d] # free
<1>1. N \in Nat /\ None \notin Elems
  BY Basics
<1> DEFINE A == Elems \ {e}
           I == {handle[d] : d \in A}
           f == [d \in A |-> handle[d]]
<1>2. IsFiniteSet(Elems) /\ Cardinality(Elems) = N
  BY <1>1, FS_Interval DEF Elems
<1>3. IsFiniteSet(A) /\ Cardinality(A) = N - 1
  BY <1>2, FS_RemoveElement
<1>4. f \in Surjection(A, I)
  BY Fun_IsSurj
<1>5. IsFiniteSet(I) /\ Cardinality(I) <= N - 1
  BY <1>3, <1>4, FS_Surjection
<1>6. ~(Elems \subseteq I)
  <2> SUFFICES ASSUME Elems \subseteq I PROVE FALSE
    OBVIOUS
  <2> HIDE DEF I
  <2>1. Cardinality(Elems) <= Cardinality(I) /\ Cardinality(I) \in Nat
    BY <1>5, FS_Subset, FS_CardinalityType
  <2>2. QED
    BY <1>1, <1>2, <1>5, <2>1
<1>7. PICK free \in Elems : free \notin I
  BY <1>6
<1>8. \A d \in Elems : handle[d] # free
  BY <1>1, <1>7
<1>9. QED
  BY <1>8

\* What a task's goroutine does is one of the steps listed.
LEMMA Steps ==
    ASSUME NEW e \in Elems, DirectLink(e) \/ ParsedResource(e) \/ TelegraphPic(e) \/ TransferElement(e)
    PROVE  StepOf(e)
<1>t. /\ Told("failed") \in {"failed", "cancelled"} /\ MayTell(Told("failed")) /\ MayTell("failed")
      /\ Told("ok") \in {"ok", "cancelled"} /\ MayTell(Told("ok")) /\ MayTell("ok")
  BY DEF Told, MayTell
<1>b. ASSUME Shared, BeginExclusive(e) PROVE Begun(e) \/ Refused(e)
  BY <1>b DEF BeginExclusive, Begun, Refused
<1>1. CASE DirectLink(e)
  <2>1. Shared /\ Key(e) = DirectKey(e)
    BY <1>1 DEF DirectLink, Shared, Key, DirectKey
  <2>2. QED
    BY <1>1, <1>b, <1>t, <2>1 DEF DirectLink, ProcessLink, StepOf
<1>2. CASE ParsedResource(e)
  <2>1. Shared /\ Key(e) = ResourceKey(e)
    BY <1>2 DEF ParsedResource, Shared, Key, ResourceKey
  <2>2. QED
    BY <1>2, <1>b, <1>t, <2>1 DEF ParsedResource, ProcessResource, StepOf
<1>3. CASE TelegraphPic(e)
  <2>1. ~Shared /\ Key(e) = e
    BY <1>3 DEF TelegraphPic, Shared, Key
  <2>2. QED
    BY <1>3, <1>t, <2>1 DEF TelegraphPic, ProcessPic, StepOf, Begun
<1>4. CASE TransferElement(e)
  <2>1. ~Shared /\ Key(e) = e
    BY <1>4 DEF TransferElement, Shared, Key
  <2>2. ASSUME ElementFails(e) PROVE \E r \in {"failed", "cancelled"} : MayTell(r) /\ Fails(e, r)
    BY <1>t, <2>1, <2>2 DEF ElementFails, Fails
  <2>3. QED
    BY <1>4, <1>t, <2>1, <2>2 DEF TransferElement, ProcessElement, StepOf, Begun
<1>5. QED
  BY <1>1, <1>2, <1>3, <1>4

\* The task's own facts do not change.
LEMMA Frame ==
    ASSUME UNCHANGED <<kind, links>>
    PROVE  /\ Shared' = Shared
           /\ \A e : UrlOf(e)' = UrlOf(e) /\ NameOf(e)' = NameOf(e) /\ Key(e)' = Key(e) /\ Mine(e)' = Mine(e)
BY DEF Shared, UrlOf, NameOf, Key, Mine

LEMMA DropEffect ==
    ASSUME TypeOK, NEW e \in Elems, NEW k \in Keys, Drop(e, k)
    PROVE  /\ handle' = [handle EXCEPT ![e] = None] /\ inode' = inode
           /\ path' = path \/ path' = [path EXCEPT ![k] = None]
           /\ handle[e] # None => path' = [path EXCEPT ![k] = None]
<1>1. handle \in [Elems -> Elems \cup {None}]
  BY DEF TypeOK
<1>2. QED
  BY <1>1 DEF Drop, fileVars

\* A step of one element leaves the task and the others alone.
OnlySelf(e) ==
    /\ UNCHANGED <<kind, links, stream, ignore, phase, unheaded, ctxDone, returned>>
    /\ el[e] \notin {"todo", "end"} /\ el'[e] # "todo"
    /\ \A d \in Elems : d # e => /\ el'[d] = el[d] /\ tries'[d] = tries[d] /\ pos'[d] = pos[d]
                                 /\ result'[d] = result[d] /\ stored'[d] = stored[d]
                                 /\ handle'[d] = handle[d]

LEMMA Others ==
    ASSUME TypeOK, NEW e \in Elems, StepOf(e)
    PROVE  OnlySelf(e)
<1>t. /\ el \in [Elems -> {"todo", "begin", "try", "fetched", "copy", "copied", "backoff", "end"}]
      /\ handle \in [Elems -> Elems \cup {None}] /\ Key(e) \in Keys
  BY Basics DEF TypeOK
<1>0. /\ stored \in [Elems -> [1..Chunks -> Urls \cup {None}]] /\ tries \in [Elems -> 0..Retry]
      /\ pos \in [Elems -> 0..Chunks] /\ result \in [Elems -> Ends]
  BY DEF TypeOK
<1> USE DEF Within, fileVars, OnlySelf
<1>1. CASE Begun(e)
  BY <1>t, <1>1 DEF Begun, BeginAlways, Go
<1>2. CASE Refused(e)
  BY <1>0, <1>t, <1>2 DEF Refused, Return
<1>3. CASE Opens(e)
  BY <1>0, <1>t, <1>3 DEF Opens, Go
<1>4. CASE OpenCache(e, Key(e))
  BY <1>t, <1>4 DEF OpenCache, Go
<1>5. CASE CopyChunk(e)
  BY <1>0, <1>t, <1>5 DEF CopyChunk
<1>6. CASE CopyEnds(e)
  BY <1>t, <1>6 DEF CopyEnds, Go
<1>7. CASE AttemptFails(e, Key(e))
  BY <1>0, <1>t, <1>7, DropEffect DEF AttemptFails, Attempting
<1>8. CASE TryAgain(e)
  BY <1>t, <1>8 DEF TryAgain, Go
<1>9. ASSUME NEW r \in {"failed", "cancelled"}, RetryEnds(e, r) PROVE OnlySelf(e)
  BY <1>0, <1>t, <1>9 DEF RetryEnds, Return
<1>10. ASSUME NEW r \in {"failed", "cancelled"}, Fails(e, r) PROVE OnlySelf(e)
  BY <1>0, <1>t, <1>10, DropEffect DEF Fails, Attempting, Return
<1>11. ASSUME NEW r \in {"ok", "cancelled"}, Saves(e, Key(e), r) PROVE OnlySelf(e)
  BY <1>0, <1>t, <1>11, DropEffect DEF Saves, Ready, Return
<1>12. QED
  BY <1>1, <1>2, <1>3, <1>4, <1>5, <1>6, <1>7, <1>8, <1>9, <1>10, <1>11 DEF StepOf

-----------------------------------------------------------------------------
(* Types *)

ElStates == {"todo", "begin", "try", "fetched", "copy", "copied", "backoff", "end"}
Contents == [1..Chunks -> Urls \cup {None}]

FileTypes ==
    /\ path \in [Keys -> Elems \cup {None}]
    /\ handle \in [Elems -> Elems \cup {None}]
    /\ inode \in [Elems -> Contents]
ElemTypes ==
    /\ el \in [Elems -> ElStates]
    /\ tries \in [Elems -> 0..Retry]
    /\ pos \in [Elems -> 0..Chunks]
    /\ result \in [Elems -> Ends]
    /\ groupErr \in Ends
    /\ stored \in [Elems -> Contents]

LEMMA TypeParts == TypeOK => FileTypes /\ ElemTypes
BY DEF TypeOK, FileTypes, ElemTypes, ElStates, Contents

LEMMA TypeJoins ==
    ASSUME TypeOK, FileTypes', ElemTypes',
           UNCHANGED <<kind, links, stream, ignore, phase, unheaded, ctxDone, returned>>
    PROVE  TypeOK'
BY DEF TypeOK, FileTypes, ElemTypes, ElStates, Contents

LEMMA ReturnType ==
    ASSUME ElemTypes, NEW e \in Elems, NEW r \in Ends, Return(e, r)
    PROVE  /\ el' \in [Elems -> ElStates] /\ result' \in [Elems -> Ends] /\ groupErr' \in Ends
BY DEF ElemTypes, ElStates, Return

LEMMA DropType ==
    ASSUME TypeOK, NEW e \in Elems, NEW k \in Keys, Drop(e, k)
    PROVE  FileTypes'
<1>1. FileTypes
  BY TypeParts
<1>2. QED
  BY <1>1, DropEffect DEF FileTypes

LEMMA OpenedInode ==
    ASSUME TypeOK, HandleWhenOpen, NEW e \in Elems, OpenCache(e, Key(e))
    PROVE  \E i \in Elems :
              /\ IF path[Key(e)] # None THEN i = path[Key(e)] ELSE \A d \in Elems : handle[d] # i
              /\ path' = [path EXCEPT ![Key(e)] = i] /\ handle' = [handle EXCEPT ![e] = i]
              /\ inode' = [inode EXCEPT ![i] = Blank]
<1> DEFINE free == CHOOSE free \in Elems : \A d \in Elems : handle[d] # free
           i == IF path[Key(e)] # None THEN path[Key(e)] ELSE free
<1>1. handle[e] = None
  BY DEF OpenCache, Go, HandleWhenOpen
<1>2. free \in Elems /\ \A d \in Elems : handle[d] # free
  BY <1>1, FreeInode
<1>3. path' = [path EXCEPT ![Key(e)] = i] /\ handle' = [handle EXCEPT ![e] = i] /\ inode' = [inode EXCEPT ![i] = Blank]
  BY DEF OpenCache
<1>4. Key(e) \in Keys /\ path \in [Keys -> Elems \cup {None}]
  BY Basics DEF TypeOK
<1> HIDE DEF free
<1>5. i \in Elems /\ IF path[Key(e)] # None THEN i = path[Key(e)] ELSE \A d \in Elems : handle[d] # i
  BY <1>2, <1>4
<1>6. QED
  BY <1>3, <1>5

LEMMA StepType ==
    ASSUME TypeOK, TriesLeft, HandleWhenOpen, NEW e \in Elems, StepOf(e)
    PROVE  TypeOK'
<1>0. FileTypes /\ ElemTypes /\ OnlySelf(e)
  BY TypeParts, Others
<1>b. Blank \in Contents /\ UrlOf(e) \in Urls /\ Chunks \in Nat /\ Retry \in Nat /\ Key(e) \in Keys
  BY Basics DEF Blank, Contents
<1>1. FileTypes'
  <2>1. CASE UNCHANGED fileVars
    BY <1>0, <2>1 DEF FileTypes, fileVars
  <2>2. CASE OpenCache(e, Key(e))
    <3>1. PICK i \in Elems :
              /\ path' = [path EXCEPT ![Key(e)] = i] /\ handle' = [handle EXCEPT ![e] = i]
              /\ inode' = [inode EXCEPT ![i] = Blank]
      BY <2>2, OpenedInode
    <3>2. QED
      BY <1>0, <1>b, <3>1 DEF FileTypes
  <2>3. CASE CopyChunk(e)
    <3>1. handle[e] \in Elems /\ pos[e] + 1 \in 1..Chunks /\ UNCHANGED <<path, handle>>
      BY <1>0, <1>b, <2>3 DEF CopyChunk, HandleWhenOpen, FileTypes, ElemTypes
    <3>2. inode' = [inode EXCEPT ![handle[e]] = [inode[handle[e]] EXCEPT ![pos[e] + 1] = UrlOf(e)]]
      BY <2>3 DEF CopyChunk
    <3>3. inode[handle[e]] \in Contents
      BY <1>0, <3>1 DEF FileTypes
    <3>4. [inode[handle[e]] EXCEPT ![pos[e] + 1] = UrlOf(e)] \in Contents
      BY <1>b, <3>1, <3>3 DEF Contents
    <3>5. QED
      BY <1>0, <3>1, <3>2, <3>4 DEF FileTypes
  <2>4. CASE Drop(e, Key(e))
    BY <1>b, <2>4, DropType
  <2>5. QED
    BY <2>1, <2>2, <2>3, <2>4 DEF StepOf, Begun, BeginAlways, Refused, Opens, CopyEnds, AttemptFails, TryAgain,
                                  RetryEnds, Fails, Saves
<1>2. ElemTypes'
  <2>1. CASE Begun(e)
    BY <1>0, <2>1 DEF Begun, BeginAlways, Go, ElemTypes, ElStates
  <2>2. CASE Refused(e)
    BY <1>0, <2>2, ReturnType DEF Refused, ElemTypes, Ends
  <2>3. CASE Opens(e)
    BY <1>0, <1>b, <2>3 DEF Opens, Go, ElemTypes, ElStates
  <2>4. CASE OpenCache(e, Key(e))
    BY <1>0, <2>4 DEF OpenCache, Go, ElemTypes, ElStates
  <2>5. CASE CopyChunk(e)
    BY <1>0, <1>b, <2>5 DEF CopyChunk, ElemTypes
  <2>6. CASE CopyEnds(e)
    BY <1>0, <2>6 DEF CopyEnds, Go, ElemTypes, ElStates
  <2>7. CASE AttemptFails(e, Key(e))
    <3>1. tries[e] + 1 \in 0..Retry
      BY <1>0, <1>b, <2>7 DEF AttemptFails, TriesLeft, ElemTypes
    <3>2. QED
      BY <1>0, <1>b, <2>7, <3>1 DEF AttemptFails, ElemTypes, ElStates
  <2>8. CASE TryAgain(e)
    BY <1>0, <2>8 DEF TryAgain, Go, ElemTypes, ElStates
  <2>9. ASSUME NEW r \in {"failed", "cancelled"}, RetryEnds(e, r) PROVE ElemTypes'
    BY <1>0, <2>9, ReturnType DEF RetryEnds, ElemTypes, Ends
  <2>10. ASSUME NEW r \in {"failed", "cancelled"}, Fails(e, r) PROVE ElemTypes'
    BY <1>0, <2>10, ReturnType DEF Fails, ElemTypes, Ends
  <2>11. ASSUME NEW r \in {"ok", "cancelled"}, Saves(e, Key(e), r) PROVE ElemTypes'
    <3>1. Source(e) \in Contents
      BY <1>0, <1>b, <2>11 DEF Saves, Ready, Source, Whole, Contents, FileTypes, HandleWhenOpen
    <3>2. el' \in [Elems -> ElStates] /\ result' \in [Elems -> Ends] /\ groupErr' \in Ends
      BY <1>0, <2>11, ReturnType DEF Saves, Ends
    <3>3. QED
      BY <1>0, <2>11, <3>1, <3>2 DEF Saves, ElemTypes
  <2>12. QED
    BY <2>1, <2>2, <2>3, <2>4, <2>5, <2>6, <2>7, <2>8, <2>9, <2>10, <2>11 DEF StepOf
<1>3. QED
  BY <1>0, <1>1, <1>2, TypeJoins DEF OnlySelf

LEMMA TriesStep ==
    ASSUME TypeOK, TriesLeft, NEW e \in Elems, StepOf(e)
    PROVE  TriesLeft'
<1>0. ElemTypes /\ OnlySelf(e) /\ Retry \in Nat /\ Retry > 0
  BY TypeParts, Others, LinkAssumption
<1>1. ASSUME NEW d \in Elems, d # e
      PROVE  (el'[d] \in {"todo", "begin"} => tries'[d] = 0) /\ (Attempting(d)' => tries'[d] < Retry)
  BY <1>0, <1>1 DEF OnlySelf, TriesLeft, Attempting
<1>2. /\ el[e] \in {"todo", "begin"} => tries[e] = 0
      /\ Attempting(e) => tries[e] < Retry
  BY DEF TriesLeft
<1>3. (el'[e] \in {"todo", "begin"} => tries'[e] = 0) /\ (Attempting(e)' => tries'[e] < Retry)
  <2>1. CASE Begun(e)
    BY <1>0, <1>2, <2>1 DEF Begun, BeginAlways, Go, ElemTypes, Attempting
  <2>2. CASE Refused(e)
    BY <1>0, <2>2 DEF Refused, Return, ElemTypes, Attempting
  <2>3. CASE Opens(e)
    BY <1>0, <1>2, <2>3 DEF Opens, Go, ElemTypes, Attempting
  <2>4. CASE OpenCache(e, Key(e))
    BY <1>0, <1>2, <2>4 DEF OpenCache, Go, ElemTypes, Attempting
  <2>5. CASE CopyChunk(e)
    BY <1>0, <1>2, <2>5 DEF CopyChunk, Attempting
  <2>6. CASE CopyEnds(e)
    BY <1>0, <1>2, <2>6 DEF CopyEnds, Go, ElemTypes, Attempting
  <2>7. CASE AttemptFails(e, Key(e))
    BY <1>0, <2>7 DEF AttemptFails, ElemTypes, Attempting
  <2>8. CASE TryAgain(e)
    BY <1>0, <2>8 DEF TryAgain, Go, ElemTypes, Attempting
  <2>9. ASSUME NEW r, Return(e, r)
        PROVE (el'[e] \in {"todo", "begin"} => tries'[e] = 0) /\ (Attempting(e)' => tries'[e] < Retry)
    BY <1>0, <2>9 DEF Return, ElemTypes, Attempting
  <2>10. QED
    BY <2>1, <2>2, <2>3, <2>4, <2>5, <2>6, <2>7, <2>8, <2>9 DEF StepOf, RetryEnds, Fails, Saves
<1>4. \A d \in Elems : (el'[d] \in {"todo", "begin"} => tries'[d] = 0) /\ (Attempting(d)' => tries'[d] < Retry)
  BY <1>1, <1>3
<1>5. QED
  BY <1>4 DEF TriesLeft, Attempting

-----------------------------------------------------------------------------
(* The outcome *)

LEMMA OutcomeStep ==
    ASSUME TypeOK, Outcome, NEW e \in Elems, StepOf(e)
    PROVE  Outcome'
<1>0. ElemTypes /\ OnlySelf(e)
  BY TypeParts, Others
<1>1. CASE UNCHANGED <<result, groupErr>> /\ el'[e] # "end"
  <2>1. Ending'
    BY <1>0, <1>1 DEF OnlySelf, Outcome, Ending
  <2>2. Phases'
    BY <1>0, <1>1 DEF OnlySelf, Outcome, Phases
  <2>3. FirstError'
    BY <1>0, <1>1 DEF OnlySelf, Outcome, FirstError
  <2>4. QED
    BY <2>1, <2>2, <2>3 DEF Outcome
<1>2. ASSUME NEW r \in {"ok", "failed", "cancelled"}, MayTell(r), Return(e, r) PROVE Outcome'
  <2>1. /\ el'[e] = "end" /\ result'[e] = r /\ result[e] = "none"
        /\ groupErr' = IF groupErr # "none" \/ r = "ok" \/ (r = "failed" /\ ignore) THEN groupErr ELSE r
    BY <1>0, <1>2 DEF Return, ElemTypes, OnlySelf, Outcome, Ending
  <2>2. phase \notin {"head", "done"}
    BY <1>0 DEF OnlySelf, Outcome, Phases
  <2>3. Ending'
    BY <1>0, <2>1 DEF OnlySelf, Outcome, Ending
  <2>4. Phases'
    BY <1>0, <2>2 DEF OnlySelf, Outcome, Phases
  <2>5. groupErr' # "ok" /\ (groupErr' = "cancelled" => ctxDone')
    BY <1>0, <1>2, <2>1 DEF OnlySelf, Outcome, FirstError, MayTell, GroupDone
  <2>6. groupErr' = "none" => \A d \in Elems : result'[d] \in {"none", "ok"} \cup IF ignore' THEN {"failed"} ELSE {}
    BY <1>0, <1>2, <2>1 DEF OnlySelf, Outcome, FirstError
  <2>7. groupErr' = "failed" => \E d \in Elems : result'[d] = "failed"
    BY <1>0, <1>2, <2>1, <2>2 DEF OnlySelf, Outcome, FirstError
  <2>8. QED
    BY <2>3, <2>4, <2>5, <2>6, <2>7 DEF Outcome, FirstError
<1>3. QED
  <2>1. CASE Begun(e)
    BY <1>0, <1>1, <2>1 DEF Begun, BeginAlways, Go, ElemTypes
  <2>2. CASE Refused(e)
    BY <1>2, <2>2 DEF Refused, MayTell
  <2>3. CASE Opens(e) \/ OpenCache(e, Key(e)) \/ CopyEnds(e) \/ TryAgain(e)
    BY <1>0, <1>1, <2>3 DEF Opens, OpenCache, CopyEnds, TryAgain, Go, ElemTypes
  <2>4. CASE CopyChunk(e)
    BY <1>0, <1>1, <2>4 DEF CopyChunk
  <2>5. CASE AttemptFails(e, Key(e))
    BY <1>0, <1>1, <2>5 DEF AttemptFails, ElemTypes
  <2>6. QED
    BY <1>2, <2>1, <2>2, <2>3, <2>4, <2>5 DEF StepOf, RetryEnds, Fails, Saves

-----------------------------------------------------------------------------
(* Which files are open, and under which path *)

\* A step that opens or closes no file.
Quiet(e) == /\ UNCHANGED <<handle, path>>
            /\ el'[e] \in {"copy", "copied"} <=> el[e] \in {"copy", "copied"}

LEMMA QuietSteps ==
    ASSUME TypeOK, NEW e \in Elems, StepOf(e)
    PROVE  Quiet(e) \/ OpenCache(e, Key(e)) \/ (Drop(e, Key(e)) /\ el'[e] \notin {"copy", "copied"})
<1>0. ElemTypes
  BY TypeParts
<1> USE DEF fileVars
<1>1. CASE Begun(e)
  BY <1>0, <1>1 DEF Begun, BeginAlways, Go, ElemTypes, Quiet
<1>2. CASE Refused(e)
  BY <1>0, <1>2 DEF Refused, Return, ElemTypes, Quiet
<1>3. CASE Opens(e) \/ CopyEnds(e) \/ TryAgain(e)
  BY <1>0, <1>3 DEF Opens, CopyEnds, TryAgain, Go, ElemTypes, Quiet
<1>4. CASE CopyChunk(e)
  BY <1>4 DEF CopyChunk, Quiet
<1>5. CASE AttemptFails(e, Key(e))
  BY <1>0, <1>5 DEF AttemptFails, ElemTypes
<1>6. ASSUME NEW r, RetryEnds(e, r) PROVE Quiet(e)
  BY <1>0, <1>6 DEF RetryEnds, Return, ElemTypes, Quiet
<1>7. ASSUME NEW r, Fails(e, r) \/ Saves(e, Key(e), r)
      PROVE  Drop(e, Key(e)) /\ el'[e] \notin {"copy", "copied"}
  BY <1>0, <1>7 DEF Fails, Saves, Return, ElemTypes
<1>8. QED
  BY <1>1, <1>2, <1>3, <1>4, <1>5, <1>6, <1>7 DEF StepOf

LEMMA OpenStep ==
    ASSUME TypeOK, HandleWhenOpen, PathIsOpen, SharedByKey, NEW e \in Elems, StepOf(e)
    PROVE  HandleWhenOpen' /\ PathIsOpen' /\ SharedByKey'
<1>0. ElemTypes /\ FileTypes /\ OnlySelf(e) /\ Key(e) \in Keys /\ None \notin Elems
  BY TypeParts, Others, Basics
<1>k. \A d : Key(d)' = Key(d)
  BY <1>0, Frame DEF OnlySelf
<1>1. CASE Quiet(e)
  <2>1. HandleWhenOpen'
    BY <1>0, <1>1 DEF Quiet, OnlySelf, HandleWhenOpen
  <2>2. PathIsOpen' /\ SharedByKey'
    BY <1>1, <1>k DEF Quiet, PathIsOpen, SharedByKey, Keys, Elems
  <2>3. QED
    BY <2>1, <2>2
<1>2. CASE OpenCache(e, Key(e))
  <2>1. PICK i \in Elems :
           /\ IF path[Key(e)] # None THEN i = path[Key(e)] ELSE \A d \in Elems : handle[d] # i
           /\ path' = [path EXCEPT ![Key(e)] = i] /\ handle' = [handle EXCEPT ![e] = i]
    BY <1>2, OpenedInode
  <2>2. handle'[e] = i /\ el'[e] = "copy"
    BY <1>0, <1>2, <2>1 DEF FileTypes, ElemTypes, OpenCache, Go
  <2>3. HandleWhenOpen'
    BY <1>0, <2>2 DEF OnlySelf, HandleWhenOpen
  <2>4. ASSUME NEW k \in Keys, path'[k] # None PROVE \E d \in Elems : Key(d) = k /\ handle'[d] = path'[k]
    <3>1. CASE k = Key(e)
      BY <1>0, <2>1, <2>2, <3>1 DEF FileTypes
    <3>2. CASE k # Key(e)
      <4>1. path'[k] = path[k]
        BY <1>0, <2>1, <3>2 DEF FileTypes
      <4>2. PICK d \in Elems : Key(d) = k /\ handle[d] = path[k]
        BY <2>4, <4>1 DEF PathIsOpen
      <4>3. QED
        BY <1>0, <3>2, <4>1, <4>2 DEF OnlySelf
    <3>3. QED
      BY <3>1, <3>2
  <2>5. ASSUME NEW d \in Elems, handle[d] = i PROVE Key(d) = Key(e)
    <3>1. path[Key(e)] = i
      BY <2>1, <2>5
    <3>2. PICK c \in Elems : Key(c) = Key(e) /\ handle[c] = i
      BY <1>0, <3>1 DEF PathIsOpen
    <3>3. QED
      BY <1>0, <2>5, <3>2 DEF SharedByKey
  <2>6. ASSUME NEW c \in Elems, NEW d \in Elems, handle'[c] # None, handle'[c] = handle'[d]
        PROVE  Key(c) = Key(d)
    BY <1>0, <2>2, <2>5, <2>6 DEF OnlySelf, SharedByKey
  <2>7. QED
    BY <1>k, <2>3, <2>4, <2>6 DEF PathIsOpen, SharedByKey, Keys, Elems
<1>3. CASE Drop(e, Key(e)) /\ el'[e] \notin {"copy", "copied"}
  <2>1. /\ handle' = [handle EXCEPT ![e] = None]
        /\ path' = path \/ path' = [path EXCEPT ![Key(e)] = None]
        /\ handle[e] # None => path' = [path EXCEPT ![Key(e)] = None]
    BY <1>0, <1>3, DropEffect
  <2>2. handle'[e] = None
    BY <1>0, <2>1 DEF FileTypes
  <2>3. HandleWhenOpen'
    BY <1>0, <1>3, <2>2 DEF OnlySelf, HandleWhenOpen
  <2>4. ASSUME NEW k \in Keys, path'[k] # None PROVE \E d \in Elems : Key(d) = k /\ handle'[d] = path'[k]
    <3>1. path'[k] = path[k]
      BY <1>0, <2>1, <2>4 DEF FileTypes
    <3>2. PICK d \in Elems : Key(d) = k /\ handle[d] = path[k]
      BY <2>4, <3>1 DEF PathIsOpen
    <3>3. d # e
      BY <1>0, <2>1, <2>4, <3>1, <3>2 DEF FileTypes
    <3>4. QED
      BY <1>0, <3>1, <3>2, <3>3 DEF OnlySelf
  <2>5. ASSUME NEW c \in Elems, NEW d \in Elems, handle'[c] # None, handle'[c] = handle'[d]
        PROVE  Key(c) = Key(d)
    BY <1>0, <2>2, <2>5 DEF OnlySelf, SharedByKey
  <2>6. QED
    BY <1>k, <2>3, <2>4, <2>5 DEF PathIsOpen, SharedByKey, Keys, Elems
<1>4. QED
  BY <1>1, <1>2, <1>3, QuietSteps

-----------------------------------------------------------------------------
(* What is in the files *)

LEMMA StartStep ==
    ASSUME TypeOK, AtStart, NEW e \in Elems, StepOf(e)
    PROVE  AtStart'
<1>0. ElemTypes /\ OnlySelf(e)
  BY TypeParts, Others
<1>1. el'[e] = "fetched" => pos'[e] = 0
  <2>1. CASE Opens(e)
    BY <1>0, <2>1 DEF Opens, ElemTypes
  <2>2. CASE Begun(e) \/ OpenCache(e, Key(e)) \/ CopyEnds(e) \/ TryAgain(e)
    BY <1>0, <2>2 DEF Begun, BeginAlways, OpenCache, CopyEnds, TryAgain, Go, ElemTypes
  <2>3. CASE CopyChunk(e)
    BY <1>0, <2>3 DEF CopyChunk
  <2>4. CASE AttemptFails(e, Key(e))
    BY <1>0, <2>4 DEF AttemptFails, ElemTypes
  <2>5. ASSUME NEW r, Return(e, r) PROVE el'[e] # "fetched"
    BY <1>0, <2>5 DEF Return, ElemTypes
  <2>6. QED
    BY <2>1, <2>2, <2>3, <2>4, <2>5 DEF StepOf, Refused, RetryEnds, Fails, Saves
<1>2. QED
  BY <1>0, <1>1 DEF OnlySelf, AtStart

LEMMA ExclusiveStep ==
    ASSUME TypeOK, Exclusive, NEW e \in Elems, StepOf(e)
    PROVE  Exclusive'
<1>0. ElemTypes /\ OnlySelf(e)
  BY TypeParts, Others
<1>k. Shared' = Shared /\ \A d : UrlOf(d)' = UrlOf(d)
  BY <1>0, Frame DEF OnlySelf
<1>1. \A d \in Elems : d # e => (d \in Processing' <=> d \in Processing)
  BY <1>0 DEF OnlySelf, Processing, Attempting
<1>2. Processing \subseteq Elems /\ Processing' \subseteq Elems
  BY DEF Processing, Elems
<1>3. CASE Begun(e)
  BY <1>1, <1>2, <1>3, <1>k DEF Begun, Exclusive
<1>4. CASE e \in Processing
  BY <1>1, <1>2, <1>4, <1>k DEF Exclusive
<1>5. CASE Refused(e)
  <2>1. el'[e] = "end"
    BY <1>0, <1>5 DEF Refused, Return, ElemTypes
  <2>2. e \notin Processing'
    BY <2>1 DEF Processing, Attempting
  <2>3. QED
    BY <1>1, <1>2, <1>k, <2>2 DEF Exclusive
<1>6. StepOf(e) => Begun(e) \/ Refused(e) \/ e \in Processing
  BY DEF StepOf, Opens, OpenCache, CopyChunk, CopyEnds, AttemptFails, TryAgain, RetryEnds, Fails, Saves, Ready,
         Go, Processing, Attempting
<1>7. QED
  BY <1>3, <1>4, <1>5, <1>6

\* Two elements that have one path open at a time are not of one URL.
LEMMA Apart ==
    ASSUME Exclusive, NEW d \in Processing, NEW e \in Processing, Mine(d), Key(d) = Key(e)
    PROVE  d = e
<1>1. CASE Shared
  <2>1. NameOf(e) = NameOf(d) /\ e \in Elems
    BY <1>1 DEF Key, Processing
  <2>2. UrlOf(e) = UrlOf(d)
    BY <2>1 DEF Mine
  <2>3. QED
    BY <1>1, <2>2 DEF Exclusive
<1>2. CASE ~Shared
  BY <1>2 DEF Key
<1>3. QED
  BY <1>1, <1>2

\* An element that is alone with its file keeps what it copied.
LEMMA OtherChunks ==
    ASSUME TypeOK, Files, NEW e \in Elems, StepOf(e), NEW d \in Elems, d # e, Mine(d),
           el[d] \in {"copy", "copied"}, NEW k \in 1..Chunks
    PROVE  inode'[handle[d]][k] = inode[handle[d]][k]
<1>0. /\ FileTypes /\ ElemTypes /\ HandleWhenOpen /\ PathIsOpen /\ SharedByKey /\ Exclusive
      /\ Key(e) \in Keys /\ None \notin Elems /\ UrlOf(e) \in Urls
  BY TypeParts, Basics DEF Files
<1>1. d \in Processing /\ handle[d] # None /\ handle[d] \in Elems
  BY <1>0 DEF Processing, Attempting, HandleWhenOpen, FileTypes
<1>2. CASE inode' = inode
  BY <1>2
<1>3. CASE OpenCache(e, Key(e))
  <2>1. PICK i \in Elems :
           /\ IF path[Key(e)] # None THEN i = path[Key(e)] ELSE \A c \in Elems : handle[c] # i
           /\ inode' = [inode EXCEPT ![i] = Blank]
    BY <1>0, <1>3, OpenedInode
  <2>2. e \in Processing
    BY <1>3 DEF OpenCache, Go, Processing, Attempting
  <2>3. handle[d] # i
    <3> SUFFICES ASSUME handle[d] = i PROVE FALSE
      OBVIOUS
    <3>1. path[Key(e)] = i
      BY <2>1
    <3>2. PICK c \in Elems : Key(c) = Key(e) /\ handle[c] = i
      BY <1>0, <3>1 DEF PathIsOpen
    <3>3. Key(d) = Key(e)
      BY <1>0, <1>1, <3>2 DEF SharedByKey
    <3>4. QED
      BY <1>0, <1>1, <2>2, <3>3, Apart
  <2>4. QED
    BY <1>0, <1>1, <2>1, <2>3 DEF FileTypes
<1>4. CASE CopyChunk(e)
  <2>1. e \in Processing /\ handle[e] # None /\ handle[e] \in Elems
    BY <1>0, <1>4 DEF CopyChunk, Processing, Attempting, HandleWhenOpen, FileTypes
  <2>2. handle[d] # handle[e]
    <3> SUFFICES ASSUME handle[d] = handle[e] PROVE FALSE
      OBVIOUS
    <3>1. Key(d) = Key(e)
      BY <1>1 , <1>0 DEF SharedByKey
    <3>2. QED
      BY <1>0, <1>1, <2>1, <3>1, Apart
  <2>3. inode' = [inode EXCEPT ![handle[e]] = [inode[handle[e]] EXCEPT ![pos[e] + 1] = UrlOf(e)]]
    BY <1>4 DEF CopyChunk
  <2>4. QED
    BY <1>0, <1>1, <2>1, <2>2, <2>3 DEF FileTypes
<1>5. CASE Drop(e, Key(e))
  BY <1>0, <1>2, <1>5, DropEffect
<1>6. QED
  BY <1>2, <1>3, <1>4, <1>5 DEF StepOf, Begun, BeginAlways, Refused, Opens, CopyEnds, AttemptFails, TryAgain,
                                RetryEnds, Fails, Saves, fileVars

LEMMA OwnStep ==
    ASSUME TypeOK, Files, NEW e \in Elems, StepOf(e)
    PROVE  OwnChunks'
<1>0. /\ FileTypes /\ ElemTypes /\ HandleWhenOpen /\ OnlySelf(e) /\ Chunks \in Nat
      /\ UrlOf(e) \in Urls /\ None \notin Elems
  BY TypeParts, Others, Basics DEF Files
<1>k. \A d : Mine(d)' = Mine(d) /\ UrlOf(d)' = UrlOf(d)
  BY <1>0, Frame DEF OnlySelf
<1>1. ASSUME NEW d \in Elems, Mine(d)
      PROVE  /\ el[d] \in {"copy", "copied"} => \A k \in 1..pos[d] : inode[handle[d]][k] = UrlOf(d)
             /\ el[d] = "copied" => pos[d] = Chunks
  BY <1>1 DEF Files, OwnChunks
<1>2. ASSUME NEW d \in Elems, Mine(d), d # e
      PROVE  /\ el'[d] \in {"copy", "copied"} => \A k \in 1..pos'[d] : inode'[handle'[d]][k] = UrlOf(d)
             /\ el'[d] = "copied" => pos'[d] = Chunks
  <2>1. el'[d] = el[d] /\ pos'[d] = pos[d] /\ handle'[d] = handle[d]
    BY <1>0, <1>2 DEF OnlySelf
  <2>2. \A k \in 1..pos[d] : k \in 1..Chunks
    BY <1>0, <1>2 DEF ElemTypes
  <2>3. QED
    BY <1>1, <1>2, <2>1, <2>2, OtherChunks
<1>3. ASSUME Mine(e)
      PROVE  /\ el'[e] \in {"copy", "copied"} => \A k \in 1..pos'[e] : inode'[handle'[e]][k] = UrlOf(e)
             /\ el'[e] = "copied" => pos'[e] = Chunks
  <2>1. CASE OpenCache(e, Key(e))
    <3>1. el'[e] = "copy" /\ pos'[e] = 0
      BY <1>0, <2>1 DEF OpenCache, Go, ElemTypes, Files, AtStart
    <3>2. QED
      BY <3>1
  <2>2. CASE CopyChunk(e)
    <3>1. handle[e] \in Elems /\ pos[e] \in Nat /\ pos[e] + 1 \in 1..Chunks /\ handle' = handle
      BY <1>0, <2>2 DEF CopyChunk, HandleWhenOpen, FileTypes, ElemTypes
    <3>2. inode' = [inode EXCEPT ![handle[e]] = [inode[handle[e]] EXCEPT ![pos[e] + 1] = UrlOf(e)]]
      BY <2>2 DEF CopyChunk
    <3>3. inode'[handle[e]] = [inode[handle[e]] EXCEPT ![pos[e] + 1] = UrlOf(e)]
      BY <1>0, <3>1, <3>2 DEF FileTypes
    <3>4. inode[handle[e]] \in [1..Chunks -> Urls \cup {None}]
      BY <1>0, <3>1 DEF FileTypes, Contents
    <3>5. pos'[e] = pos[e] + 1 /\ el' = el /\ el[e] = "copy"
      BY <1>0, <2>2 DEF CopyChunk, ElemTypes
    <3>6. ASSUME NEW k \in 1..pos'[e] PROVE inode'[handle'[e]][k] = UrlOf(e)
      <4>1. k = pos[e] + 1 \/ k \in 1..pos[e]
        BY <3>1, <3>5
      <4>2. k \in 1..Chunks
        BY <1>0, <3>1, <3>5
      <4>3. k \in 1..pos[e] => inode[handle[e]][k] = UrlOf(e)
        BY <1>1, <1>3, <3>5
      <4>4. QED
        BY <3>1, <3>3, <3>4, <4>1, <4>2, <4>3
    <3>7. QED
      BY <3>5, <3>6
  <2>3. CASE CopyEnds(e)
    <3>1. pos[e] = Chunks /\ el[e] = "copy" /\ UNCHANGED <<pos, handle, inode>>
      BY <2>3 DEF CopyEnds, Go, fileVars
    <3>2. QED
      BY <1>1, <1>3, <3>1
  <2>4. CASE ~(OpenCache(e, Key(e)) \/ CopyChunk(e) \/ CopyEnds(e))
    <3>1. el'[e] \notin {"copy", "copied"}
      <4>1. CASE Begun(e) \/ Opens(e) \/ TryAgain(e)
        BY <1>0, <4>1 DEF Begun, BeginAlways, Opens, TryAgain, Go, ElemTypes
      <4>2. CASE AttemptFails(e, Key(e))
        BY <1>0, <4>2 DEF AttemptFails, ElemTypes
      <4>3. ASSUME NEW r, Return(e, r) PROVE el'[e] = "end"
        BY <1>0, <4>3 DEF Return, ElemTypes
      <4>4. QED
        BY <2>4, <4>1, <4>2, <4>3 DEF StepOf, Refused, RetryEnds, Fails, Saves
    <3>2. QED
      BY <3>1
  <2>5. QED
    BY <2>1, <2>2, <2>3, <2>4
<1>4. QED
  BY <1>2, <1>3, <1>k DEF OwnChunks, Elems

LEMMA SavedStep ==
    ASSUME TypeOK, Files, Outcome, NEW e \in Elems, StepOf(e)
    PROVE  SavedIsOwn'
<1>0. FileTypes /\ ElemTypes /\ HandleWhenOpen /\ OnlySelf(e) /\ Chunks \in Nat /\ None \notin Elems
  BY TypeParts, Others, Basics DEF Files
<1>k. /\ \A d : Mine(d)' = Mine(d) /\ UrlOf(d)' = UrlOf(d)
      /\ \A d : Whole(UrlOf(d))' = Whole(UrlOf(d))
  BY <1>0, Frame DEF OnlySelf, Whole
<1>s. SavedIsOwn <=> \A d \in Elems : result[d] = "ok" /\ Mine(d) => stored[d] = Whole(UrlOf(d))
  BY DEF SavedIsOwn, Mine
<1>1. ASSUME NEW d \in Elems, d # e, result'[d] = "ok", Mine(d) PROVE stored'[d] = Whole(UrlOf(d))
  BY <1>0, <1>1, <1>s DEF OnlySelf, Files
<1>2. ASSUME result'[e] = "ok", Mine(e) PROVE stored'[e] = Whole(UrlOf(e))
  <2>1. result[e] = "none"
    BY <1>0 DEF OnlySelf, Outcome, Ending
  <2>2. Saves(e, Key(e), "ok")
    <3>1. ASSUME NEW r, Return(e, r) PROVE r = "ok"
      BY <1>0, <1>2, <3>1 DEF Return, ElemTypes
    <3>2. CASE UNCHANGED result
      BY <1>2, <2>1, <3>2
    <3>3. QED
      BY <3>1, <3>2 DEF StepOf, Begun, BeginAlways, Refused, Opens, OpenCache, CopyChunk, CopyEnds, AttemptFails,
                        TryAgain, RetryEnds, Fails, Saves
  <2>3. stored'[e] = Source(e) /\ Ready(e)
    BY <1>0, <2>2 DEF Saves, ElemTypes
  <2>4. CASE stream
    BY <2>3, <2>4 DEF Source
  <2>5. CASE ~stream
    <3>1. el[e] = "copied" /\ Source(e) = inode[handle[e]]
      BY <2>3, <2>5 DEF Ready, Source
    <3>2. \A k \in 1..Chunks : inode[handle[e]][k] = UrlOf(e)
      BY <1>2, <3>1 DEF Files, OwnChunks
    <3>3. inode[handle[e]] \in [1..Chunks -> Urls \cup {None}]
      BY <1>0, <3>1 DEF FileTypes, HandleWhenOpen, Contents
    <3>4. inode[handle[e]] = Whole(UrlOf(e))
      BY <3>2, <3>3 DEF Whole
    <3>5. QED
      BY <2>3, <3>1, <3>4
  <2>6. QED
    BY <2>4, <2>5
<1>3. \A d \in Elems : result'[d] = "ok" /\ Mine(d) => stored'[d] = Whole(UrlOf(d))
  BY <1>1, <1>2
<1>4. (\A d \in Elems : result'[d] = "ok" /\ Mine(d)' => stored'[d] = Whole(UrlOf(d))') => SavedIsOwn'
  BY DEF SavedIsOwn, Mine, Elems
<1>5. QED
  BY <1>3, <1>4, <1>k

-----------------------------------------------------------------------------
(* The steps of Execute itself *)

\* A goroutine that is only begun changes nothing about the files.
LEMMA FilesKept ==
    ASSUME Files, UNCHANGED <<kind, links, pos, result, stored, path, handle, inode>>,
           \A e \in Elems : el'[e] = el[e] \/ (el[e] = "todo" /\ el'[e] = "begin")
    PROVE  Files'
<1>k. /\ Shared' = Shared
      /\ \A e : UrlOf(e)' = UrlOf(e) /\ Key(e)' = Key(e) /\ Mine(e)' = Mine(e)
  BY Frame
<1>1. AtStart'
  BY DEF Files, AtStart
<1>2. HandleWhenOpen'
  BY DEF Files, HandleWhenOpen
<1>3. PathIsOpen'
  BY <1>k DEF Files, PathIsOpen, Keys, Elems
<1>4. SharedByKey'
  BY <1>k DEF Files, SharedByKey, Elems
<1>5. Exclusive'
  <2>1. Processing' = Processing
    BY DEF Processing, Attempting
  <2>2. QED
    BY <1>k, <2>1 DEF Files, Exclusive
<1>6. OwnChunks'
  BY <1>k DEF Files, OwnChunks, Elems
<1>7. SavedIsOwn'
  BY DEF Files, SavedIsOwn, UrlOf, NameOf, Whole, Elems
<1>8. QED
  BY <1>1, <1>2, <1>3, <1>4, <1>5, <1>6, <1>7 DEF Files

\* Execute and the HEAD requests touch no element.
LEMMA TaskStep ==
    ASSUME IInv, Cancel \/ HeadsDone \/ GroupEnds \/ \E e \in Elems : HeadAnswers(e) \/ HeadFails(e)
    PROVE  IInv'
<1> USE DEF elemVars, fileVars
<1>0. TypeOK /\ Outcome /\ UNCHANGED <<kind, links, stream, ignore, el, tries, pos, result, stored, fileVars>>
  BY DEF IInv, Cancel, HeadsDone, GroupEnds, HeadAnswers, HeadFails
<1>1. TriesLeft' /\ Files'
  <2>1. TriesLeft /\ Files
    BY DEF IInv
  <2>2. TriesLeft'
    BY <1>0, <2>1 DEF TriesLeft, Attempting
  <2>3. Files'
    BY <1>0, <2>1, FilesKept
  <2>4. QED
    BY <2>2, <2>3
<1>2. TypeOK'
  BY <1>0 DEF TypeOK, Ends, Cancel, HeadsDone, GroupEnds, HeadAnswers, HeadFails
<1>3. Ending'
  BY <1>0 DEF Outcome, Ending
<1>4. Phases' /\ FirstError'
  <2>1. CASE Cancel
    BY <1>0, <2>1 DEF Cancel, Outcome, Phases, FirstError
  <2>2. CASE HeadsDone
    BY <1>0, <2>2 DEF HeadsDone, Outcome, Phases, FirstError
  <2>3. CASE GroupEnds
    BY <1>0, <2>3 DEF GroupEnds, Outcome, Phases, FirstError
  <2>4. ASSUME NEW e \in Elems, HeadAnswers(e) PROVE Phases' /\ FirstError'
    BY <1>0, <2>4 DEF HeadAnswers, Outcome, Phases, FirstError
  <2>5. ASSUME NEW e \in Elems, HeadFails(e) PROVE Phases' /\ FirstError'
    <3>1. phase = "head"
      BY <1>0, <2>5 DEF HeadFails, Outcome, Phases
    <3>2. \A d \in Elems : el[d] = "todo"
      BY <1>0, <3>1 DEF Outcome, Phases
    <3>3. groupErr' \in {groupErr, "failed", "cancelled"} /\ (groupErr' # groupErr => (groupErr' = "cancelled" => ctxDone))
      BY <2>5 DEF HeadFails
    <3>4. groupErr' = "none" => groupErr = "none"
      BY <2>5 DEF HeadFails
    <3>5. Phases'
      BY <1>0, <2>5, <3>1, <3>2 DEF HeadFails, Outcome, Phases
    <3>6. FirstError'
      BY <1>0, <2>5, <3>1, <3>2, <3>3, <3>4 DEF HeadFails, Outcome, FirstError
    <3>7. QED
      BY <3>5, <3>6
  <2>6. QED
    BY <2>1, <2>2, <2>3, <2>4, <2>5
<1>5. QED
  BY <1>1, <1>2, <1>3, <1>4 DEF IInv, Outcome

LEMMA SpawnStep ==
    ASSUME IInv, NEW e \in Elems, Spawn(e)
    PROVE  IInv'
<1>0. TypeOK /\ ElemTypes /\ Outcome /\ TriesLeft /\ Files
  BY TypeParts DEF IInv
<1> USE DEF fileVars
<1>1. /\ UNCHANGED <<kind, links, stream, ignore, phase, unheaded, tries, pos, result, groupErr, stored,
                     ctxDone, fileVars, returned>>
      /\ el[e] = "todo" /\ el'[e] = "begin" /\ phase = "group"
      /\ \A d \in Elems : d # e => el'[d] = el[d]
      /\ el' \in [Elems -> ElStates]
  BY <1>0 DEF Spawn, ElemTypes, ElStates
<1>2. TypeOK'
  BY <1>0, <1>1 DEF TypeOK, ElStates
<1>3. TriesLeft'
  BY <1>0, <1>1 DEF TriesLeft, Attempting
<1>4. Files'
  BY <1>0, <1>1, FilesKept
<1>5. Ending' /\ Phases' /\ FirstError'
  BY <1>0, <1>1 DEF Outcome, Ending, Phases, FirstError
<1>6. QED
  BY <1>2, <1>3, <1>4, <1>5 DEF IInv, Outcome

-----------------------------------------------------------------------------
(* The inductive invariant and what follows from it *)

LEMMA InitIInv == Init => IInv
<1> SUFFICES ASSUME Init PROVE IInv
  OBVIOUS
<1>1. TypeOK
  <2>1. Retry \in Nat /\ Chunks \in Nat
    BY LinkAssumption
  <2>2. Blank \in [1..Chunks -> Urls \cup {None}]
    BY DEF Blank
  <2>3. tries \in [Elems -> 0..Retry] /\ pos \in [Elems -> 0..Chunks]
    BY <2>1 DEF Init
  <2>4. inode \in [Elems -> [1..Chunks -> Urls \cup {None}]] /\ stored \in [Elems -> [1..Chunks -> Urls \cup {None}]]
    BY <2>2 DEF Init
  <2>5. QED
    BY <2>3, <2>4 DEF Init, TypeOK, Ends
<1>2. TriesLeft
  BY LinkAssumption DEF Init, TriesLeft, Attempting
<1>3. Files
  BY DEF Init, Files, AtStart, HandleWhenOpen, PathIsOpen, SharedByKey, Exclusive, OwnChunks, SavedIsOwn,
         Processing, Attempting
<1>4. Outcome
  BY DEF Init, Outcome, Ending, Phases, FirstError
<1>5. QED
  BY <1>1, <1>2, <1>3, <1>4 DEF IInv

LEMMA Invariance == Spec => []IInv
<1>1. Init => IInv
  BY InitIInv
<1>2. IInv /\ [Next]_vars => IInv'
  <2> SUFFICES ASSUME IInv, [Next]_vars PROVE IInv'
    OBVIOUS
  <2>1. ASSUME NEW e \in Elems, StepOf(e) PROVE IInv'
    <3>1. TypeOK /\ TriesLeft /\ Files /\ Outcome
      BY DEF IInv
    <3>2. TypeOK' /\ TriesLeft' /\ Outcome'
      BY <2>1, <3>1, StepType, TriesStep, OutcomeStep DEF Files
    <3>3. AtStart' /\ HandleWhenOpen' /\ PathIsOpen' /\ SharedByKey' /\ Exclusive'
      BY <2>1, <3>1, StartStep, OpenStep, ExclusiveStep DEF Files
    <3>4. OwnChunks' /\ SavedIsOwn'
      BY <2>1, <3>1, OwnStep, SavedStep
    <3>5. QED
      BY <3>2, <3>3, <3>4 DEF IInv, Files
  <2>2. CASE UNCHANGED vars
    <3>1. UNCHANGED <<kind, links, stream, ignore, phase, unheaded, el, tries, pos, result, groupErr, stored,
                      ctxDone, path, handle, inode, returned>>
      BY <2>2 DEF vars, elemVars, fileVars
    <3>2. TypeOK' /\ TriesLeft'
      BY <3>1 DEF IInv, TypeOK, TriesLeft, Attempting
    <3>3. Files'
      BY <3>1, FilesKept DEF IInv
    <3>4. Outcome'
      BY <3>1 DEF IInv, Outcome, Ending, Phases, FirstError
    <3>5. QED
      BY <3>2, <3>3, <3>4 DEF IInv
  <2>3. CASE Returned
    BY <2>2, <2>3 DEF Returned
  <2>4. QED
    BY <2>1, <2>2, <2>3, Steps, TaskStep, SpawnStep DEF Next, Work
<1>3. QED
  BY <1>1, <1>2, PTL DEF Spec

\* Every variable stays in its set: in particular no element runs out of attempts
\* it still uses, and a file that is opened always finds an inode.
THEOREM TypeCorrect == Spec => []TypeOK
<1>1. IInv => TypeOK
  BY DEF IInv
<1>2. QED
  BY <1>1, Invariance, PTL

\* What an element saved successfully is the whole of its own file, unless another
\* URL of the task has its file name: the map of URLs under way keeps the cache
\* files apart that the names do not.
THEOREM SavesOwn == Spec => []SavedIsOwn
<1>1. IInv => SavedIsOwn
  BY DEF IInv, Files
<1>2. QED
  BY <1>1, Invariance, PTL

\* Execute says what happened to its elements, although the first failure cancels
\* the context of all the others.
THEOREM TellsTruth == Spec => []OutcomeIsTrue
<1>1. IInv => OutcomeIsTrue
  <2> SUFFICES ASSUME IInv PROVE OutcomeIsTrue
    OBVIOUS
  <2>1. Ending /\ Phases /\ FirstError
    BY DEF IInv, Outcome
  <2>2. returned = "ok" => groupErr = "none" /\ phase = "done"
    BY <2>1 DEF Phases, FirstError
  <2>3. returned = "ok" => \A e \in Elems : result[e] \in {"ok"} \cup IF ignore THEN {"failed"} ELSE {}
    BY <2>1, <2>2 DEF Ending, Phases, FirstError
  <2>4. returned = "cancelled" => ctxDone
    BY <2>1 DEF Phases, FirstError
  <2>5. returned = "failed" /\ (\E e \in Elems : el[e] # "todo") => \E e \in Elems : result[e] = "failed"
    BY <2>1 DEF Phases, FirstError
  <2>6. QED
    BY <2>3, <2>4, <2>5 DEF OutcomeIsTrue
<1>2. QED
  BY <1>1, Invariance, PTL
=============================================================================
