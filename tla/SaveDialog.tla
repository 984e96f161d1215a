----------------------------- MODULE SaveDialog -----------------------------
(***************************************************************************)
(* The dialog with the bot from a message to a task: what was sent becomes *)
(* the data behind a keyboard of storages, then perhaps of directories and *)
(* of ways to treat files that exist, and at last a task.  In silent mode, *)
(* the user's defaults take the place of the keyboards.  The data travels  *)
(* through the callback cache from one keyboard to the next; a press may   *)
(* find it expired, may come twice, or from a keyboard already replaced.   *)
(*                                                                         *)
(* Dialogs share only the user's row and the wizard state, so that one     *)
(* card stands for all; the next message comes when it has ended.          *)
(* Whether a file exists is asked of a storage that others write to as     *)
(* well, and may be answered either way.  A media group arrives as it is   *)
(* handed on; the timer that collects it is not modelled.                  *)
(***************************************************************************)
EXTENDS Naturals, FiniteSets

CONSTANTS Storages,
          Dirs,      \* directories a user can have; each belongs to a storage
          StorageOf, \* [Dirs -> Storages]
          Files,     \* Telegram files
          AlbumFiles, \* those that form a media group
          RuleFor,   \* the user's rule for each file: a storage and a path, or None
          Ranges,    \* bound: the sets of files that come together
          Features,  \* bound: the wizards that are started
          Root, NewForAlbum, \* the empty path, the marker of a new directory
          None

Strategies == {"rename", "ask", "overwrite", "skip"}
Links == {"directlinks", "aria2", "ytdlp"}

ASSUME DialogAssumption ==
    /\ StorageOf \in [Dirs -> Storages]
    /\ AlbumFiles \subseteq Files
    /\ RuleFor \in [Files -> [stor : Storages \cup {None}, path : {None, NewForAlbum}] \cup {None}]
    /\ {Root, NewForAlbum, None} \cap Dirs = {} /\ Root # NewForAlbum
    /\ None \notin {Root, NewForAlbum} \cup Storages \cup Files \cup Strategies
    /\ Ranges \subseteq (SUBSET Files) \ {{}} /\ \A files \in Ranges : IsFiniteSet(files)
    /\ Features \subseteq {"directlinks", "aria2", "ytdlp", "bulkdl", "watch"}

VARIABLES
    silent, defStor, defDir, strategy, \* the user's row
    dirs,      \* the user's directories
    awaiting,  \* the wizard that waits for a text
    card,      \* the dialog's message: its keyboard and the data behind it
    before,    \* the keyboard it replaced, from which a press may be under way
    reply,     \* what the last step told of its files, and whether it took them as a batch
    made       \* the task the last step created

userVars == <<silent, defStor, defDir, strategy, dirs>>
cardVars == <<card, before>>
dialogVars == <<userVars, awaiting, cardVars, reply, made>>

\* tcbdata.Add: what is saved, where, and how conflicts are resolved.
Add(task, files) ==
    [task |-> task, files |-> files, batch |-> FALSE, stor |-> None, dir |-> None,
     path |-> Root, setted |-> FALSE, strat |-> None]

\* What the user chose so far, whatever the data says.
Choice(s, p, c) == [stor |-> s, path |-> p, strat |-> c]
NoChoice == Choice(None, Root, None)

Card(shows, data, chosen, offers) == [shows |-> shows, data |-> data, chosen |-> chosen, offers |-> offers]
Text == Card("text", Add("tgfiles", {}), NoChoice, {})
NoReply == [files |-> {}, added |-> {}, skipped |-> {}, asked |-> {}, batch |-> FALSE, error |-> FALSE]
NoTask == [elems |-> {}, existed |-> {}, over |-> FALSE, user |-> None, chosen |-> NoChoice,
           task |-> None]

DialogInit ==
    /\ silent = FALSE /\ defStor = None /\ defDir = None
    /\ strategy \in Strategies
    /\ dirs = Dirs
    /\ awaiting = None
    /\ card = Text /\ before = Text
    /\ reply = NoReply /\ made = NoTask

------------------------------------------------------------------------------
(* Keyboards *)

Shows(new) == card' = new /\ before' = card /\ made' = NoTask

\* The step tells nothing of files and creates no task.
Quiet == reply' = NoReply /\ made' = NoTask

\* BuildAddSelectStorageKeyboard: one button for each storage, under a message
\* of its own.
AskStorage(add) ==
    /\ card' = Card("storages", [add EXCEPT !.batch = Cardinality(add.files) > 1], NoChoice, Storages)
    /\ before' = Text
    /\ reply' = [NoReply EXCEPT !.files = add.files, !.asked = add.files]
    /\ made' = NoTask

\* BuildSetDirMarkupForAdd: the storage's directories, and none of them.
AskDir(add, chosen) ==
    /\ Shows(Card("dirs", [add EXCEPT !.setted = TRUE], chosen,
                  {d \in dirs : StorageOf[d] = add.stor} \cup {Root}))
    /\ reply' = NoReply

\* Variant: the prompt forgets that it is about several files.
PromptConflictSingle(s, p, files, batch, chosen) ==
    /\ Shows(Card("conflict", [Add("tgfiles", files) EXCEPT !.stor = s, !.path = p, !.setted = TRUE], chosen,
                  Strategies \ {"ask"}))
    /\ reply' = [NoReply EXCEPT !.files = files, !.asked = files]

\* Variant: the prompt forgets the directory.
PromptConflictPathless(s, p, files, batch, chosen) ==
    /\ Shows(Card("conflict", [Add("tgfiles", files) EXCEPT !.stor = s, !.setted = TRUE,
                                                          !.batch = batch], chosen, Strategies \ {"ask"}))
    /\ reply' = [NoReply EXCEPT !.files = files, !.asked = files]

\* promptTGFileConflictStrategy: three ways, and the path instead of the directory.
PromptConflict(s, p, files, batch, chosen) ==
    /\ Shows(Card("conflict", [Add("tgfiles", files) EXCEPT !.stor = s, !.path = p, !.setted = TRUE,
                                                          !.batch = batch], chosen, Strategies \ {"ask"}))
    /\ reply' = [NoReply EXCEPT !.files = files, !.asked = files]

------------------------------------------------------------------------------
(* Tasks *)

Elem(f, s, p) == [file |-> f, stor |-> s, path |-> p]

\* An error of the database, a storage, or the queue, told on the card.
Fails(files) ==
    /\ Shows(Text)
    /\ reply' = [NoReply EXCEPT !.files = files, !.error = TRUE]

\* core.AddTask has taken the task.
Added(task, files, batch, elems, existed, over, skipped, chosen) ==
    /\ card' = Text /\ before' = card
    /\ made' = [elems |-> elems, existed |-> existed, over |-> over, user |-> strategy, chosen |-> chosen,
                task |-> task]
    /\ reply' = [NoReply EXCEPT !.files = files, !.added = {e.file : e \in elems} \ {None},
                                !.skipped = skipped, !.batch = batch]

\* A file without a place in the task, told as skipped for a conflict.
Skips(files, batch, skipped) ==
    /\ Shows(Text)
    /\ reply' = [NoReply EXCEPT !.files = files, !.skipped = skipped, !.batch = batch]

\* conflictutil.ResolveStrategy
Resolve(override) == IF override \in Strategies THEN override ELSE strategy

Matched(f) == RuleFor[f] # None
StorageFor(f, s) == IF Matched(f) /\ RuleFor[f].stor # None THEN RuleFor[f].stor ELSE s

\* A rule without a path leaves a single file where it was to go ...
PathForOne(f, p) == IF Matched(f) /\ RuleFor[f].path # None THEN RuleFor[f].path ELSE p
\* ... and sends a file of a batch to the root.
PathForMany(f, p) ==
    IF ~Matched(f) THEN p ELSE IF RuleFor[f].path = None THEN Root ELSE RuleFor[f].path

\* Variant: existence is asked of the chosen storage, before the rules.
CreateTGFileUnruled(f, files, s, p, override, chosen) ==
    LET strat == Resolve(override)
        elem == Elem(f, StorageFor(f, s), PathForOne(f, p))
    IN  \/ Fails(files)
        \/ \E exists \in BOOLEAN, other \in BOOLEAN :
              CASE exists /\ strat = "ask" -> PromptConflict(s, p, files, FALSE, chosen)
                [] exists /\ strat = "skip" -> Skips(files, FALSE, {f})
                [] OTHER -> Added("tgfiles", files, FALSE, {elem}, IF other THEN {elem} ELSE {},
                                  strat = "overwrite", {}, chosen)

\* CreateAndAddTGFileTaskWithEdit
CreateTGFile(f, files, s, p, override, chosen) ==
    LET strat == Resolve(override)
        elem == Elem(f, StorageFor(f, s), PathForOne(f, p))
    IN  \/ Fails(files)
        \/ \E exists \in BOOLEAN :
              CASE exists /\ strat = "ask" -> PromptConflict(elem.stor, elem.path, files, FALSE, chosen)
                [] exists /\ strat = "skip" -> Skips(files, FALSE, {f})
                [] OTHER -> Added("tgfiles", files, FALSE, {elem}, IF exists THEN {elem} ELSE {},
                                  strat = "overwrite", {}, chosen)

\* Files that are to get a new directory, if they have siblings, and the others.
ForNewDir(files, p) == {f \in files : PathForMany(f, p) = NewForAlbum}
NewDirs(files, p) ==
    LET siblings == ForNewDir(files, p) \cap AlbumFiles IN IF Cardinality(siblings) > 1 THEN siblings ELSE {}

\* The album goes to the storage of one of its files, in a directory of p.
BatchElems(files, s, p, album) ==
    {Elem(f, StorageFor(f, s), PathForMany(f, p)) : f \in files \ ForNewDir(files, p)}
       \cup {Elem(f, album, p) : f \in NewDirs(files, p)}

AlbumStorages(files, s, p) ==
    IF NewDirs(files, p) = {} THEN {s} ELSE {StorageFor(f, s) : f \in NewDirs(files, p)}

FilesOf(elems) == {e.file : e \in elems}

\* CreateAndAddBatchTGFileTaskWithEdit
CreateBatch(files, s, p, override, chosen) ==
    LET strat == Resolve(override)
    IN  \/ Fails(files)
        \/ \E album \in AlbumStorages(files, s, p) :
           LET elems == BatchElems(files, s, p, album)
           IN  \E exist \in SUBSET elems :
                 CASE exist # {} /\ strat = "ask" -> PromptConflict(s, p, files, TRUE, chosen)
                   [] strat = "skip" /\ exist = elems -> Skips(files, TRUE, FilesOf(exist))
                   [] strat = "skip" /\ exist # elems ->
                         Added("tgfiles", files, TRUE, elems \ exist, {}, FALSE, FilesOf(exist), chosen)
                   [] OTHER -> IF elems = {} THEN Skips(files, TRUE, {})
                               ELSE Added("tgfiles", files, TRUE, elems, exist, strat = "overwrite", {}, chosen)

\* The other CreateAndAdd functions: aria2 is told first, a transfer lists its
\* source again and may find nothing there, each may be refused by the queue.
\* None looks for files that exist or at the user's strategy: the storage's Save
\* gives a name of its own to what would replace another file.
CreateOther(task, s, p, chosen) ==
    LET elem == Elem(None, s, p)
    IN  \/ Fails({})
        \/ \E exists \in BOOLEAN :
              Added(task, {}, FALSE, {elem}, IF exists THEN {elem} ELSE {}, FALSE, {}, chosen)

\* A telegraph page goes to a directory of its own name, whatever was chosen.
Create(add, p, chosen) ==
    CASE add.task = "tgfiles" /\ add.batch -> CreateBatch(add.files, add.stor, p, add.strat, chosen)
      [] add.task = "tgfiles" /\ ~add.batch ->
            \E f \in add.files : CreateTGFile(f, add.files, add.stor, p, add.strat, chosen)
      [] add.task = "telegraph" -> CreateOther("telegraph", add.stor, Root, chosen)
      [] OTHER -> CreateOther(add.task, add.stor, p, chosen)

------------------------------------------------------------------------------
(* Callbacks *)

Elsewhere == UNCHANGED <<userVars, awaiting>>

\* The data has expired, or a storage or directory is not there any more: an
\* alert, and the card stays.
Alert ==
    /\ reply' = [NoReply EXCEPT !.error = TRUE] /\ made' = NoTask
    /\ UNCHANGED cardVars /\ Elsewhere

\* The cached data of a button, and what its press means to the user.
Pressed(k, b) ==
    CASE k.shows = "storages" -> [k.data EXCEPT !.stor = b]
      [] k.shows = "dirs" -> [k.data EXCEPT !.dir = IF b = Root THEN None ELSE b]
      [] k.shows = "conflict" -> [k.data EXCEPT !.strat = b]

Meant(k, b) ==
    CASE k.shows = "storages" -> Choice(b, Root, None)
      [] k.shows = "dirs" -> [k.chosen EXCEPT !.path = b]
      [] k.shows = "conflict" -> [k.chosen EXCEPT !.strat = b]

\* handleAddCallback
HandleAdd(k, b) ==
    LET add == Pressed(k, b)
        chosen == Meant(k, b)
    IN  \/ Alert
        \/ /\ ~add.setted /\ \E d \in dirs : StorageOf[d] = add.stor
           /\ AskDir(add, chosen)
           /\ Elsewhere
        \/ /\ add.setted \/ \A d \in dirs : StorageOf[d] # add.stor
           /\ add.dir # None => add.dir \in dirs
           /\ Create(add, IF add.dir # None THEN add.dir ELSE add.path, chosen)
           /\ Elsewhere

PressAdd ==
    \E k \in {card, before} :
        /\ k.shows \in {"storages", "dirs", "conflict"}
        /\ \E b \in k.offers : HandleAdd(k, b)

\* handleBulkDLCallback: the types, then the number of files.
HandleBulkDL ==
    /\ card.shows \in {"types", "max"}
    /\ \/ Alert
       \/ /\ card.shows = "types"
          /\ Shows([card EXCEPT !.shows = "max"])
          /\ reply' = NoReply /\ Elsewhere
       \/ card.shows = "max" /\ AskStorage(card.data) /\ Elsewhere

------------------------------------------------------------------------------
(* Messages *)

\* handleSilentMode.  Without a default storage, or when the directory is not
\* there any more, the user is asked as usual; a storage that cannot be had is
\* an error.
DefaultPath == IF defDir = None THEN Root ELSE defDir
GoesSilent == silent /\ defStor # None /\ (defDir # None => defDir \in dirs)

HandleMedia(f) ==
    /\ f \notin AlbumFiles
    /\ IF GoesSilent THEN CreateTGFile(f, {f}, defStor, DefaultPath, None, NoChoice)
       ELSE AskStorage(Add("tgfiles", {f}))
    /\ Elsewhere

\* /save with a chat and a range of messages.
HandleBatchSave(files) ==
    /\ awaiting' = None
    /\ IF GoesSilent THEN CreateBatch(files, defStor, Root, None, NoChoice)
       ELSE AskStorage(Add("tgfiles", files))
    /\ UNCHANGED userVars

\* A text is the wizard's if one waits.
HandleMessageLink(files) ==
    /\ awaiting = None
    /\ IF ~GoesSilent THEN AskStorage(Add("tgfiles", files))
       ELSE IF Cardinality(files) = 1
       THEN \E f \in files : CreateTGFile(f, {f}, defStor, DefaultPath, None, NoChoice)
       ELSE CreateBatch(files, defStor, DefaultPath, None, NoChoice)
    /\ Elsewhere

HandleTelegraph ==
    /\ awaiting = None
    /\ IF GoesSilent THEN CreateOther("telegraph", defStor, DefaultPath, NoChoice)
       ELSE AskStorage(Add("telegraph", {}))
    /\ Elsewhere

HandleText ==
    /\ awaiting = None
    /\ IF GoesSilent THEN CreateOther("parsed", defStor, DefaultPath, NoChoice)
       ELSE AskStorage(Add("parsed", {}))
    /\ Elsewhere

\* A command cancels the wizard that waits.
Command == awaiting' = None /\ UNCHANGED userVars

HandleLinkCmd(task) == AskStorage(Add(task, {})) /\ Command
HandleTransferCmd == AskStorage(Add("transfer", {})) /\ Command

\* With arguments the storages are asked at once, else types and number before.
StartBulkDL ==
    \/ AskStorage(Add("bulkdl", {}))
    \/ /\ Shows(Card("types", Add("bulkdl", {}), NoChoice, {}))
       /\ reply' = NoReply

HandleBulkDLCmd == StartBulkDL /\ Command

------------------------------------------------------------------------------
(* Wizards: a feature button, and the text that follows it *)

HandleFeatureButton(feature) ==
    /\ awaiting' = feature
    /\ Quiet /\ UNCHANGED <<userVars, cardVars>>

\* The wizard takes the text once; a text it cannot use ends it too.
HandleWizardInput ==
    /\ awaiting # None /\ card.shows = "text"
    /\ awaiting' = None
    /\ \/ awaiting \in Links /\ AskStorage(Add(awaiting, {}))
       \/ awaiting = "bulkdl" /\ StartBulkDL
       \/ Quiet /\ UNCHANGED cardVars
    /\ UNCHANGED userVars

AwaitingExpires ==
    /\ awaiting # None
    /\ awaiting' = None
    /\ Quiet /\ UNCHANGED <<userVars, cardVars>>

------------------------------------------------------------------------------
(* Media groups *)

\* processMediaGroup: the default storage is that of the moment the last file
\* came, the directory of none.  When it cannot reply, the files are forgotten.
ProcessMediaGroup(files, default) ==
    /\ files \subseteq AlbumFiles
    /\ CASE default = None -> AskStorage(Add("tgfiles", files)) \/ Fails(files)
         [] default # None /\ Cardinality(files) = 1 ->
               \E f \in files : CreateTGFile(f, files, default, Root, None, NoChoice)
         [] OTHER -> CreateBatch(files, default, Root, None, NoChoice)
    /\ Elsewhere

------------------------------------------------------------------------------
(* The user's settings *)

Setting(row) == Quiet /\ UNCHANGED <<row, cardVars>>

HandleSilentCmd ==
    /\ silent \/ defStor # None
    /\ silent' = ~silent
    /\ awaiting' = None
    /\ Setting(<<defStor, defDir, strategy, dirs>>)

\* handleSetDefaultCallback for a storage without directories: the default
\* directory stays what it was.
SetDefaultStorage(s) ==
    /\ \A d \in dirs : StorageOf[d] # s
    /\ defStor' = s
    /\ Setting(<<silent, defDir, strategy, dirs, awaiting>>)

\* ... and for one of the directories that are offered when there are some.
SetDefaultDir(d) ==
    /\ d \in dirs
    /\ defStor' = StorageOf[d] /\ defDir' = d
    /\ Setting(<<silent, strategy, dirs, awaiting>>)

HandleDirCmd ==
    /\ \E d \in Dirs : dirs' \in {dirs \cup {d}, dirs \ {d}}
    /\ awaiting' = None
    /\ Setting(<<silent, defStor, defDir, strategy>>)

HandleConflictStrategy(s) ==
    /\ strategy' = s
    /\ Setting(<<silent, defStor, defDir, dirs, awaiting>>)

------------------------------------------------------------------------------
Callback == PressAdd \/ HandleBulkDL

UserMessages ==
    \/ \E f \in Files : HandleMedia(f)
    \/ \E files \in Ranges : HandleBatchSave(files) \/ HandleMessageLink(files)
    \/ \E files \in Ranges, default \in Storages \cup {None} : ProcessMediaGroup(files, default)
    \/ HandleTelegraph \/ HandleText
    \/ \E task \in Features \cap Links : HandleLinkCmd(task)
    \/ HandleTransferCmd \/ HandleBulkDLCmd

Wizard == HandleWizardInput \/ AwaitingExpires \/ \E x \in Features : HandleFeatureButton(x)

Settings ==
    \/ HandleSilentCmd \/ HandleDirCmd
    \/ \E s \in Storages : SetDefaultStorage(s)
    \/ \E d \in Dirs : SetDefaultDir(d)
    \/ \E s \in Strategies : HandleConflictStrategy(s)

\* A dialog left alone is as one that has not been answered yet: the next is
\* watched once the last has ended.
DialogNext == Callback \/ (card.shows = "text" /\ UserMessages) \/ Wizard \/ Settings

DialogSpec == DialogInit /\ [][DialogNext]_dialogVars

------------------------------------------------------------------------------
(* Properties *)

\* What the bot tells accounts for every file the message or the button was
\* about: it is in the task, skipped as existing, or asked about, through all
\* the keyboards the files travel.  The exception is a file of a batch that a
\* rule sends to a new directory without another of its album: it is dropped,
\* even where it is the whole batch, as of a range in silent mode.
Lone(f, files) ==
    /\ RuleFor[f] # None /\ RuleFor[f].path = NewForAlbum
    /\ \A g \in (files \cap AlbumFiles) \ {f} : f \in AlbumFiles => RuleFor[g] = None \/ RuleFor[g].path # NewForAlbum

ReplyAccounts ==
    ~reply.error => \A f \in reply.files :
        f \in reply.added \cup reply.skipped \cup reply.asked \/ (reply.batch /\ Lone(f, reply.files))

\* A task saves where the user pressed, which is a directory of the storage
\* pressed before, however the data was rewritten in between and whatever was
\* pressed on other keyboards; rules and telegraph pages go their own way.
SavedWhereChosen ==
    (made.chosen.stor # None /\ made.task # "telegraph") =>
        /\ made.chosen.path # Root => StorageOf[made.chosen.path] = made.chosen.stor
        /\ \A e \in made.elems :
              (e.file # None => RuleFor[e.file] = None)
              => e.stor = made.chosen.stor /\ e.path = made.chosen.path

\* What the user has said of existing files: on the card, or in the settings.
Said == IF made.chosen.strat # None THEN made.chosen.strat ELSE made.user

\* No file is replaced unless the user has said so on the card or in the settings,
\* and where a Telegram file exists, with "ask" only a button decides and "skip"
\* leaves it out: it is not saved under another name either, in a batch or alone,
\* whatever the rules make of its place.
ConsentToReplace ==
    /\ made.over => Said = "overwrite"
    /\ made.task = "tgfiles" /\ made.existed # {} => Said \in {"rename", "overwrite"}

=============================================================================
