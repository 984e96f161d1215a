----------------------------- MODULE ChatWatch -----------------------------
(***************************************************************************)
(* Watched chats: the user client sees the media of a chat, holds each     *)
(* message back for a while in case it is delivered again, and sends it to *)
(* a bounded channel; the bot's listener makes a task of it for every user *)
(* that watches the chat.  Files that a NEW-FOR-ALBUM rule matches wait in *)
(* a buffer of the user until their album is thought complete.             *)
(*                                                                         *)
(* Both waits are timers whose callback takes the lock: Stop does not stop *)
(* one that has fired, and a callback deletes the timer of its successor   *)
(* from the map without stopping it.                                       *)
(***************************************************************************)
EXTENDS Naturals, Sequences, FiniteSets

CONSTANTS Users, Messages,
          NoMessage,  \* the zero event
          GroupOf,    \* the media group of each message
          NoGroup,
          Wants,      \* <<u, m>> that pass the user's filter
          AlbumUsers, \* users with a NEW-FOR-ALBUM rule for groups
          QueueSize,  \* capacity of the channel
          MaxCopies   \* bound: deliveries of each message

ASSUME ChatWatchAssumption ==
    /\ NoMessage \notin Messages
    /\ DOMAIN GroupOf = Messages
    /\ Wants \subseteq Users \X Messages
    /\ AlbumUsers \subseteq Users
    /\ QueueSize \in Nat \ {0}
    /\ MaxCopies \in [Messages -> Nat]

VARIABLES
    watching,   \* users that watch the chat
    delivered,  \* deliveries of each message
    waits,      \* history: those of them that found no timer in the map
    event,      \* messages in the events map
    timer,      \* the map's timer of each message: "none", "armed" or "fired"
    orphan,     \* armed timers of each message that the map has lost
    firing,     \* fired timers of each message that wait for the lock
    sending,    \* callbacks that send each message, or the zero event
    queue,      \* the channel
    current,    \* the message the listener has, or NoMessage
    todo,       \* the users it has still to see to
    buf,        \* the album buffer of each user
    bufTimer, bufOrphan, bufFiring, \* its timers, as above
    tasks,      \* tasks made for each user and message
    dropped,    \* history: files taken out of the buffer that got no task
    handed,     \* history: files put into each user's buffer
    owed,       \* history: what was delivered to a watching user and not seen to
    panicked    \* the process died

debounceVars == <<waits, event, timer, orphan, firing, sending>>
listenVars == <<current, todo>>
bufferVars == <<buf, bufTimer, bufOrphan, bufFiring>>
resultVars == <<tasks, dropped, handed, owed>>
vars == <<watching, delivered, debounceVars, queue, listenVars, bufferVars, resultVars, panicked>>

Pairs == Users \X Messages

Init ==
    /\ watching \in SUBSET Users
    /\ delivered = [m \in Messages |-> 0]
    /\ waits = [m \in Messages |-> 0]
    /\ event = {}
    /\ timer = [m \in Messages |-> "none"]
    /\ orphan = [m \in Messages |-> 0]
    /\ firing = [m \in Messages |-> 0]
    /\ sending = [x \in Messages \cup {NoMessage} |-> 0]
    /\ queue = <<>>
    /\ current = NoMessage
    /\ todo = {}
    /\ buf = [u \in Users |-> <<>>]
    /\ bufTimer = [u \in Users |-> "none"]
    /\ bufOrphan = [u \in Users |-> 0]
    /\ bufFiring = [u \in Users |-> 0]
    /\ tasks = [p \in Pairs |-> 0]
    /\ dropped = [p \in Pairs |-> 0]
    /\ handed = [p \in Pairs |-> 0]
    /\ owed = {}
    /\ panicked = FALSE

------------------------------------------------------------------------------
(* The commands *)

StartWatching(u) ==
    /\ u \notin watching
    /\ watching' = watching \cup {u}
    /\ UNCHANGED <<delivered, debounceVars, queue, listenVars, bufferVars, resultVars, panicked>>

\* What is under way stays so.
Unwatch(u) ==
    /\ u \in watching
    /\ watching' = watching \ {u}
    /\ owed' = {p \in owed : p[1] # u}
    /\ UNCHANGED <<delivered, debounceVars, queue, listenVars, bufferVars,
                   tasks, dropped, handed, panicked>>

------------------------------------------------------------------------------
(* The user client *)

\* A delivery of a message whose timer is known starts the wait anew.
SendMediaMessageEvent(m) ==
    /\ delivered[m] < MaxCopies[m]
    /\ watching # {}
    /\ delivered' = [delivered EXCEPT ![m] = @ + 1]
    /\ IF timer[m] = "none"
          THEN event' = event \cup {m} /\ waits' = [waits EXCEPT ![m] = @ + 1]
          ELSE UNCHANGED <<event, waits>>
    /\ timer' = [timer EXCEPT ![m] = "armed"]
    /\ owed' = owed \cup {p \in Wants : p[1] \in watching /\ p[2] = m}
    /\ UNCHANGED <<watching, orphan, firing, sending, queue, listenVars, bufferVars,
                   tasks, dropped, handed, panicked>>

Fire(m) ==
    /\ \/ timer[m] = "armed" /\ timer' = [timer EXCEPT ![m] = "fired"] /\ UNCHANGED orphan
       \/ orphan[m] > 0 /\ orphan' = [orphan EXCEPT ![m] = @ - 1] /\ UNCHANGED timer
    /\ firing' = [firing EXCEPT ![m] = @ + 1]
    /\ UNCHANGED <<watching, delivered, waits, event, sending, queue, listenVars, bufferVars, resultVars, panicked>>

\* Variant: the callback leaves the event in the map.
DebouncedKeeps(m) ==
    /\ firing[m] > 0
    /\ firing' = [firing EXCEPT ![m] = @ - 1]
    /\ sending' = [sending EXCEPT ![IF m \in event THEN m ELSE NoMessage] = @ + 1]
    /\ orphan' = IF timer[m] = "armed" THEN [orphan EXCEPT ![m] = @ + 1] ELSE orphan
    /\ timer' = [timer EXCEPT ![m] = "none"]
    /\ UNCHANGED <<watching, delivered, waits, event, queue, listenVars, bufferVars, resultVars, panicked>>

\* The callback takes what the events map has, the zero event if an earlier one
\* has taken it, and forgets the timer that is in the other map by then.
Debounced(m) ==
    /\ firing[m] > 0
    /\ firing' = [firing EXCEPT ![m] = @ - 1]
    /\ sending' = [sending EXCEPT ![IF m \in event THEN m ELSE NoMessage] = @ + 1]
    /\ event' = event \ {m}
    /\ orphan' = IF timer[m] = "armed" THEN [orphan EXCEPT ![m] = @ + 1] ELSE orphan
    /\ timer' = [timer EXCEPT ![m] = "none"]
    /\ UNCHANGED <<watching, delivered, waits, queue, listenVars, bufferVars, resultVars, panicked>>

\* The callbacks block on the channel outside the lock.
Send(x) ==
    /\ sending[x] > 0
    /\ Len(queue) < QueueSize
    /\ sending' = [sending EXCEPT ![x] = @ - 1]
    /\ queue' = Append(queue, x)
    /\ UNCHANGED <<watching, delivered, waits, event, timer, orphan, firing, listenVars, bufferVars,
                   resultVars, panicked>>

------------------------------------------------------------------------------
(* The listener *)

\* The zero event has no file to ask for its name.
ReceiveZero ==
    /\ current = NoMessage /\ queue # <<>> /\ Head(queue) = NoMessage
    /\ panicked' = TRUE
    /\ queue' = Tail(queue)
    /\ UNCHANGED <<watching, delivered, debounceVars, listenVars, bufferVars, resultVars>>

\* The watching users are read from the database; if that fails the event is dropped.
Receive ==
    /\ current = NoMessage /\ queue # <<>> /\ Head(queue) # NoMessage
    /\ queue' = Tail(queue)
    /\ \/ current' = Head(queue) /\ todo' = watching /\ UNCHANGED owed
       \/ UNCHANGED listenVars /\ owed' = {p \in owed : p[2] # Head(queue)}
    /\ UNCHANGED <<watching, delivered, debounceVars, bufferVars, tasks, dropped, handed, panicked>>

MakeTask(u, m) == tasks' = [tasks EXCEPT ![<<u, m>>] = @ + 1]

\* The file waits for the rest of its album, and the wait starts anew.
AddFile(u, m) ==
    /\ buf' = [buf EXCEPT ![u] = Append(@, m)]
    /\ bufTimer' = [bufTimer EXCEPT ![u] = "armed"]
    /\ handed' = [handed EXCEPT ![<<u, m>>] = @ + 1]
    /\ UNCHANGED <<bufOrphan, bufFiring>>

\* Variant: an error of one user ends the handling of the message.
HandleReturns(u) ==
    LET m == current
    IN  /\ u \in todo
        /\ \/ todo' = {} /\ UNCHANGED <<tasks, handed, bufferVars>> /\ owed' = owed \ {<<u, m>>}
           \/ /\ todo' = todo \ {u}
              /\ <<u, m>> \in Wants
              /\ IF u \in AlbumUsers /\ GroupOf[m] # NoGroup
                 THEN AddFile(u, m) /\ UNCHANGED <<tasks, owed>>
                 ELSE MakeTask(u, m) /\ owed' = owed \ {<<u, m>>} /\ UNCHANGED <<handed, bufferVars>>
        /\ current' = IF todo' = {} THEN NoMessage ELSE m
        /\ UNCHANGED <<watching, delivered, debounceVars, queue, dropped, panicked>>

\* One user of the list: the filter does not match; the user, the storage or the
\* task has an error; the file goes to the album buffer, or a task is made.
Handle(u) ==
    LET m == current
    IN  /\ u \in todo
        /\ todo' = todo \ {u}
        /\ current' = IF todo' = {} THEN NoMessage ELSE m
        /\ \/ UNCHANGED <<tasks, handed, bufferVars>> /\ owed' = owed \ {<<u, m>>}
           \/ /\ <<u, m>> \in Wants
              /\ IF u \in AlbumUsers /\ GroupOf[m] # NoGroup
                 THEN AddFile(u, m) /\ UNCHANGED <<tasks, owed>>
                 ELSE MakeTask(u, m) /\ owed' = owed \ {<<u, m>>} /\ UNCHANGED <<handed, bufferVars>>
        /\ UNCHANGED <<watching, delivered, debounceVars, queue, dropped, panicked>>

HandleNone ==
    /\ current # NoMessage /\ todo = {}
    /\ current' = NoMessage
    /\ UNCHANGED <<watching, delivered, debounceVars, queue, todo, bufferVars, resultVars, panicked>>

------------------------------------------------------------------------------
(* The album buffer *)

BufFire(u) ==
    /\ \/ bufTimer[u] = "armed" /\ bufTimer' = [bufTimer EXCEPT ![u] = "fired"] /\ UNCHANGED bufOrphan
       \/ bufOrphan[u] > 0 /\ bufOrphan' = [bufOrphan EXCEPT ![u] = @ - 1] /\ UNCHANGED bufTimer
    /\ bufFiring' = [bufFiring EXCEPT ![u] = @ + 1]
    /\ UNCHANGED <<watching, delivered, debounceVars, queue, listenVars, buf, resultVars, panicked>>

CountIn(files, I, m) == Cardinality({i \in I : files[i] = m})
Count(files, m) == CountIn(files, 1..Len(files), m)

Tally(counts, u, files, I) ==
    [p \in Pairs |-> IF p[1] = u THEN counts[p] + CountIn(files, I, p[2]) ELSE counts[p]]

\* The files that are not the only one of their media group.
InAlbums(files) ==
    {i \in 1..Len(files) : \E j \in (1..Len(files)) \ {i} : GroupOf[files[j]] = GroupOf[files[i]]}

\* The files of the buffer by media group, each group in a folder of its own.  A file
\* that is the only one of its group is dropped, and so is, with a line in the log,
\* one whose storage is not found, which may leave another alone, and one whose task
\* cannot be made or added: of an album any file may be missing.
ProcessWatchMediaGroup(u, files) ==
    /\ \E kept \in SUBSET InAlbums(files) :
            /\ tasks' = Tally(tasks, u, files, kept)
            /\ dropped' = Tally(dropped, u, files, (1..Len(files)) \ kept)
    /\ owed' = {p \in owed : ~(p[1] = u /\ Count(files, p[2]) > 0)}

\* Variant: the callback leaves the files in the map.
BufferedKeeps(u) ==
    /\ bufFiring[u] > 0
    /\ bufFiring' = [bufFiring EXCEPT ![u] = @ - 1]
    /\ bufOrphan' = IF bufTimer[u] = "armed" THEN [bufOrphan EXCEPT ![u] = @ + 1] ELSE bufOrphan
    /\ bufTimer' = [bufTimer EXCEPT ![u] = "none"]
    /\ ProcessWatchMediaGroup(u, buf[u])
    /\ UNCHANGED <<watching, delivered, debounceVars, queue, listenVars, buf, handed, panicked>>

\* The callback takes the whole buffer, which may hold several albums or none, and
\* forgets the timer that is in the map by then.
Buffered(u) ==
    /\ bufFiring[u] > 0
    /\ bufFiring' = [bufFiring EXCEPT ![u] = @ - 1]
    /\ bufOrphan' = IF bufTimer[u] = "armed" THEN [bufOrphan EXCEPT ![u] = @ + 1] ELSE bufOrphan
    /\ bufTimer' = [bufTimer EXCEPT ![u] = "none"]
    /\ buf' = [buf EXCEPT ![u] = <<>>]
    /\ ProcessWatchMediaGroup(u, buf[u])
    /\ UNCHANGED <<watching, delivered, debounceVars, queue, listenVars, handed, panicked>>

------------------------------------------------------------------------------
Listen == ReceiveZero \/ Receive \/ HandleNone \/ \E u \in Users : Handle(u)

Next ==
    /\ ~panicked
    /\ \/ \E u \in Users : StartWatching(u) \/ Unwatch(u) \/ BufFire(u) \/ Buffered(u)
       \/ \E m \in Messages : SendMediaMessageEvent(m) \/ Fire(m) \/ Debounced(m)
       \/ \E x \in Messages \cup {NoMessage} : Send(x)
       \/ Listen

Spec == Init /\ [][Next]_vars

\* Timers fire, their callbacks get the lock and a place in the channel, and the
\* listener goes on.
Fairness ==
    /\ \A u \in AlbumUsers : WF_vars(~panicked /\ BufFire(u)) /\ WF_vars(~panicked /\ Buffered(u))
    /\ \A m \in Messages : WF_vars(~panicked /\ Fire(m)) /\ WF_vars(~panicked /\ Debounced(m))
    /\ \A x \in Messages \cup {NoMessage} : SF_vars(~panicked /\ Send(x))
    /\ WF_vars(~panicked /\ Listen)

FairSpec == Spec /\ Fairness

------------------------------------------------------------------------------
(* Properties *)

States == {"none", "armed", "fired"}

\* Every variable has a value of its type.
TypeOK ==
    /\ watching \subseteq Users
    /\ delivered \in [Messages -> Nat]
    /\ waits \in [Messages -> Nat] /\ event \subseteq Messages
    /\ timer \in [Messages -> States] /\ bufTimer \in [Users -> States]
    /\ orphan \in [Messages -> Nat] /\ bufOrphan \in [Users -> Nat]
    /\ firing \in [Messages -> Nat] /\ bufFiring \in [Users -> Nat]
    /\ sending \in [Messages \cup {NoMessage} -> Nat]
    /\ queue \in Seq(Messages \cup {NoMessage}) /\ Len(queue) <= QueueSize
    /\ current \in Messages \cup {NoMessage} /\ todo \subseteq Users
    /\ buf \in [Users -> Seq(Messages)]
    /\ tasks \in [Pairs -> Nat] /\ dropped \in [Pairs -> Nat] /\ handed \in [Pairs -> Nat]
    /\ owed \subseteq Wants
    /\ panicked \in BOOLEAN

\* A message that is delivered again while it is held back makes one task for a
\* user, in whatever order timers fire and callbacks get the lock: what entered the
\* events map is sent once.
OneTaskPerWait == \A p \in Pairs : tasks[p] <= waits[p[2]]

\* No callback of the album buffer loses a file or saves it twice, also when it
\* finds a buffer that was started after its timer fired: what was put in is there
\* still, has a task, or was dropped in the open: alone in the buffer, or for an error
\* with its storage or its task, which is logged and otherwise forgotten.
BufferAccounts ==
    \A u \in Users, m \in Messages :
        u \in AlbumUsers /\ GroupOf[m] # NoGroup
            => handed[<<u, m>>] = Count(buf[u], m) + tasks[<<u, m>>] + dropped[<<u, m>>]

\* What is delivered while a user watches is seen to in the end, although the
\* callbacks block on a channel that one listener drains; unless the listener met
\* an event without a file, which ends the process.
MediaSeenTo == \A p \in Wants : []<>(panicked \/ p \notin owed)

=============================================================================
