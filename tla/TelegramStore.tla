---------------------------- MODULE TelegramStore ----------------------------
(***************************************************************************)
(* The Telegram storage: Save of one file and SaveBatch of the files of a  *)
(* batch.  A batch is planned into the albums its source groups had; each  *)
(* group is uploaded and sent, and begun again when something fails.  A    *)
(* file above the limit is skipped, sent as video parts in one album, or   *)
(* sent as parts of an archive, in as many albums as they need.            *)
(*                                                                         *)
(* A file is what the plan asks of it: its chat, its source group, whether *)
(* its type may be in an album, and its size.  Uploads and messages fail   *)
(* at any time, and the answer to a message may be lost after Telegram has *)
(* taken it.                                                               *)
(***************************************************************************)
EXTENDS Naturals, Sequences

CONSTANTS MaxAlbumItems, \* tglimit.MaxAlbumItems
          Retry,         \* config.C().Retry
          SkipLarge, SplitLargeVideo, \* the storage's configuration
          ZipParts,      \* parts of the archive of a file above the limit
          Batches,       \* bound: the sequences of files to save
          NoKey          \* the source group of a file that has none

\* size: "fits", "split" above the split size, "over" above Telegram's limit too.
Item == [chat : Nat, key : {NoKey} \cup Nat, album : BOOLEAN, video : BOOLEAN,
         size : {"fits", "split", "over"}]

ASSUME StoreAssumption ==
    /\ MaxAlbumItems \in Nat \ {0, 1}
    /\ Retry \in Nat \ {0}
    /\ SkipLarge \in BOOLEAN /\ SplitLargeVideo \in BOOLEAN
    /\ ZipParts \in Nat \ {0, 1}
    /\ Batches \subseteq Seq(Item)

VARIABLES
    call,      \* "save" or "batch"
    items,     \* what it was given
    plan,      \* groups of indices of items
    at,        \* the group that is being saved
    pc,        \* "plan", "try", "upload", "send", "backoff", "done"
    tries,     \* failed attempts at this group
    todo,      \* what this attempt has still to upload
    prepared,  \* what it has uploaded and not sent
    sent,      \* the messages in Telegram: an album each
    lost,      \* history: an answer was lost
    cancelled, \* the call's context
    result     \* "none", "ok", "failed", "panic"

attemptVars == <<todo, prepared>>
givenVars == <<call, items>>
vars == <<givenVars, plan, at, pc, tries, attemptVars, sent, lost, cancelled, result>>

\* A piece of a file in a message: how it was cut, into how many, and which it is.
Piece(i, cut, n, k) == [item |-> i, cut |-> cut, of |-> n, part |-> k]
Whole(i) == Piece(i, "whole", 1, 1)
Cut(i, cut, n) == [k \in 1..n |-> Piece(i, cut, n, k)]

Init ==
    /\ call \in {"save", "batch"}
    /\ items \in Batches
    /\ call = "save" => Len(items) = 1
    /\ plan = <<>> /\ at = 1 /\ pc = "plan" /\ tries = 0
    /\ todo = <<>> /\ prepared = <<>> /\ sent = <<>>
    /\ lost = FALSE /\ cancelled = FALSE /\ result = "none"

------------------------------------------------------------------------------
(* The plan: inspectBatchItem and planMediaGroups *)

Skipped(i) == SkipLarge /\ items[i].size = "over"
UseSingleSave(i) == items[i].size # "fits"
AlbumEligible(i) == ~UseSingleSave(i) /\ items[i].album

Alone(i) == ~AlbumEligible(i) \/ items[i].key = NoKey

\* Variant: the chat a file goes to is not looked at.
JoinsAnyChat(i, next) == AlbumEligible(next) /\ items[next].key = items[i].key

Joins(i, next) ==
    AlbumEligible(next) /\ items[next].chat = items[i].chat /\ items[next].key = items[i].key

\* The group that begins with file i ends before this one.
End(i) ==
    IF Alone(i) THEN i + 1
    ELSE CHOOSE end \in (i + 1)..(Len(items) + 1) :
            /\ \A n \in (i + 1)..(end - 1) : n - i < MaxAlbumItems /\ Joins(i, n)
            /\ end = Len(items) + 1 \/ end - i >= MaxAlbumItems \/ ~Joins(i, end)

PlanMediaGroups ==
    LET from[i \in 1..(Len(items) + 1)] ==
          IF i > Len(items) THEN <<>> ELSE << [k \in 1..(End(i) - i) |-> i + k - 1] >> \o from[End(i)]
    IN  from[1]

------------------------------------------------------------------------------
Done(r) == pc' = "done" /\ result' = r

\* Every file is rewound and its type detected before the first is sent.
Plan ==
    /\ pc = "plan"
    /\ \/ Done("failed") /\ UNCHANGED plan
       \/ /\ plan' = IF call = "batch" THEN PlanMediaGroups ELSE << <<1>> >>
          /\ pc' = IF items = <<>> THEN "done" ELSE "try"
          /\ result' = IF items = <<>> THEN "ok" ELSE "none"
    /\ UNCHANGED <<givenVars, at, tries, attemptVars, sent, lost, cancelled>>

Group == plan[at]
First == Group[1]

\* The group is saved: the next one, or the call returns.
GroupDone ==
    /\ todo' = <<>> /\ prepared' = <<>>
    /\ at' = at + 1 /\ tries' = 0
    /\ IF at < Len(plan) THEN pc' = "try" /\ UNCHANGED result ELSE Done("ok")

\* Variant: what is retried is the whole batch.
AttemptFailsFromStart ==
    /\ todo' = <<>> /\ prepared' = <<>>
    /\ at' = 1
    /\ tries' = tries + 1
    /\ IF call = "save" THEN Done("failed") ELSE pc' = "backoff" /\ UNCHANGED result

\* An attempt of SaveBatch is made again, Save has but one.
AttemptFails ==
    /\ todo' = <<>> /\ prepared' = <<>>
    /\ UNCHANGED at
    /\ tries' = tries + 1
    /\ IF call = "save" THEN Done("failed") ELSE pc' = "backoff" /\ UNCHANGED result

\* retry.Retry: it waits and tries again, unless the context ends.
TryAgain ==
    /\ pc = "backoff"
    /\ \/ tries < Retry /\ pc' = "try" /\ UNCHANGED result
       \/ (tries >= Retry \/ cancelled) /\ Done("failed")
    /\ UNCHANGED <<givenVars, plan, at, tries, attemptVars, sent, lost, cancelled>>

\* The limiter lets the attempt go on; a file that is skipped does not wait.
Begin ==
    /\ pc = "try"
    /\ \/ Len(Group) = 1 /\ Skipped(First) /\ GroupDone
       \/ ~(Len(Group) = 1 /\ Skipped(First)) /\ AttemptFails
       \/ /\ ~cancelled
          /\ ~(Len(Group) = 1 /\ UseSingleSave(First))
          /\ todo' = [k \in 1..Len(Group) |-> Whole(Group[k])]
          /\ pc' = "upload" /\ UNCHANGED <<prepared, at, tries, result>>
       \/ /\ ~cancelled
          /\ Len(Group) = 1 /\ UseSingleSave(First) /\ ~Skipped(First)
          /\ \/ todo' = Cut(First, "zip", ZipParts)
             \/ /\ SplitLargeVideo /\ items[First].video
                /\ \E n \in 2..MaxAlbumItems : todo' = Cut(First, "video", n)
          /\ pc' = "upload" /\ UNCHANGED <<prepared, at, tries, result>>
    /\ UNCHANGED <<givenVars, plan, sent, lost, cancelled>>

\* filepath.Glob reads the file's name as a pattern: with a bracket in it no part
\* is found, and the first of them is taken all the same.
GlobFindsNone ==
    /\ pc = "upload" /\ todo # <<>> /\ Head(todo).cut = "zip" /\ prepared = <<>>
    /\ Done("panic")
    /\ UNCHANGED <<givenVars, plan, at, tries, attemptVars, sent, lost, cancelled>>

\* One file or part after the other.
Upload ==
    /\ pc = "upload"
    /\ \/ /\ todo' = Tail(todo) /\ prepared' = Append(prepared, Head(todo))
          /\ pc' = IF Len(todo) = 1 THEN "send" ELSE "upload"
          /\ UNCHANGED <<at, tries, result>>
       \/ AttemptFails
    /\ UNCHANGED <<givenVars, plan, sent, lost, cancelled>>

LeastOf(a, b) == IF a < b THEN a ELSE b
Batch == SubSeq(prepared, 1, LeastOf(MaxAlbumItems, Len(prepared)))
Remaining == SubSeq(prepared, Len(Batch) + 1, Len(prepared))

\* Variant: only full albums of parts are sent.
SentFullOnly ==
    IF Len(Remaining) < MaxAlbumItems THEN GroupDone
    ELSE prepared' = Remaining /\ UNCHANGED <<todo, at, tries, pc, result>>

\* A batch of what was uploaded has been sent.
Sent ==
    IF Remaining = <<>> THEN GroupDone
    ELSE prepared' = Remaining /\ UNCHANGED <<todo, at, tries, pc, result>>

Send ==
    /\ pc = "send"
    /\ \/ Sent /\ sent' = Append(sent, Batch) /\ UNCHANGED lost
       \/ AttemptFails /\ UNCHANGED <<sent, lost>>
       \/ AttemptFails /\ sent' = Append(sent, Batch) /\ lost' = TRUE
    /\ UNCHANGED <<givenVars, plan, cancelled>>

Cancel ==
    /\ ~cancelled /\ pc # "done"
    /\ cancelled' = TRUE
    /\ UNCHANGED <<givenVars, plan, at, pc, tries, attemptVars, sent, lost, result>>

Returned == pc = "done" /\ UNCHANGED vars

Next ==
    \/ Plan \/ TryAgain \/ Begin \/ GlobFindsNone \/ Upload \/ Send
    \/ Cancel
    \/ Returned

Spec == Init /\ [][Next]_vars

------------------------------------------------------------------------------
(* Properties *)

Messages == {sent[m] : m \in 1..Len(sent)}
PiecesOf(message) == {message[k] : k \in 1..Len(message)}
InTelegram == UNION {PiecesOf(message) : message \in Messages}

\* Every album is one Telegram takes, and holds files of one source group for one
\* chat, or parts of one file, whatever failed and was sent again: nobody's file
\* is shown with those of another group, or in another chat.
AlbumsAreSourceGroups ==
    \A message \in Messages :
        /\ Len(message) <= MaxAlbumItems
        /\ \A p, q \in PiecesOf(message) :
              \/ p.item = q.item
              \/ /\ items[p.item].chat = items[q.item].chat
                 /\ items[p.item].key = items[q.item].key /\ items[p.item].key # NoKey
                 /\ items[p.item].album /\ items[q.item].album

\* When the call succeeds, every file is in Telegram in all its parts, except
\* those it was told to skip.
NilMeansSent ==
    result = "ok" => \A i \in 1..Len(items) :
        \/ Skipped(i)
        \/ \E p \in InTelegram : p.item = i /\ \A k \in 1..p.of : [p EXCEPT !.part = k] \in InTelegram

\* A file is sent twice only when an answer was lost, or when it is an archive of
\* more than one album whose later album failed; what else is retried repeats
\* nothing.
SentTwiceForCause ==
    \A m, n \in 1..Len(sent) :
        m < n => \/ lost
                 \/ \A p \in PiecesOf(sent[m]) \cap PiecesOf(sent[n]) :
                       p.cut = "zip" /\ ZipParts > MaxAlbumItems

=============================================================================
