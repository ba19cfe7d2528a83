------------------------------- MODULE WcFile -------------------------------
(***************************************************************************)
(* One versioned file of a working copy: its rows in wc.db, its pristine   *)
(* texts, the file on disk, and the repository it is updated from and      *)
(* committed to.  The user may save the file and others may commit at any  *)
(* time; an operation may fail or its process may die between any two      *)
(* steps.  wc.db and the files cannot change together: the update editor   *)
(* runs the work queue inside its SQL transaction, every other operation   *)
(* writes wc.db statement by statement.                                    *)
(*                                                                         *)
(* A text is what its lines are made of: a line is the set of edits        *)
(* (marks) it shows, one mark for an ordinary line and two or more for a   *)
(* conflict hunk.  Between two lines stand others that nobody edits, so    *)
(* each line is a hunk of its own to diff3.  Positive marks are the        *)
(* user's, the others are revisions'.  The file exists in every revision.  *)
(***************************************************************************)
EXTENDS Integers, Sequences, FiniteSets, Functions

CONSTANTS
  Lines,         \* the lines somebody edits
  MaxRevision,   \* bound on revisions
  MaxSaves,      \* bound on the user's saves
  MaxInterrupts, \* bound on the operations cut short
  None           \* no file; as a work item's source, the pristine text

Mark == -MaxRevision .. MaxSaves
Text == [Lines -> SUBSET Mark]

ASSUME WcAssumption ==
  /\ MaxRevision \in Nat \ {0}
  /\ MaxSaves \in Nat /\ MaxInterrupts \in Nat
  /\ None \notin Text

VARIABLES
  repo,      \* the file's text in each revision
  disk,      \* the user's file
  pristine,  \* .svn/pristine: the file a checksum names |-> what is in it
  db,        \* wc.db as committed
  view,      \* wc.db as the running process sees it
  open,      \* a BEGIN IMMEDIATE of the update editor is open
  op, pc,    \* the operation running, and where it is
  target,    \* the revision an update goes to, a commit has made
  modified,  \* updateFile.localModified
  work,      \* commitNode.working; the text vacuum is removing
  install,   \* what installFile is about to rename into place
  saves,     \* how often the user has saved
  owed,      \* history: saved marks the user can count on finding again
  interrupts,  \* how many operations were cut short
  excused    \* history: lines that stood in the file when an operation was
             \* cut short or the user declared a conflict resolved, and those
             \* of a text whose pristine was left torn

files   == <<disk, pristine>>
locals  == <<target, modified, work, install>>
wcdb    == <<db, view, open>>
history == <<saves, owed, interrupts, excused>>
vars    == <<repo, files, wcdb, op, pc, locals, history>>

Blank == [l \in Lines |-> {}]       \* what is in a file created and not written

Marks(t) == IF t = None THEN {} ELSE UNION {t[l] : l \in Lines}

LinesOf(t) == IF t = None THEN {} ELSE {t[l] : l \in Lines}

(***************************************************************************)
(* wc.db.  base is the BASE row (revision and checksum), stat whether its  *)
(* translated_size and last_mod_time are those of the file on disk,        *)
(* conflict whether ACTUAL_NODE has a conflict, rows the PRISTINE table.   *)
(* A work item is a file-install from a text, or from the pristine.        *)
(***************************************************************************)
Database ==
  [base : [rev : 1 .. MaxRevision, text : Text], stat : BOOLEAN,
   conflict : BOOLEAN, queue : Seq(Text \cup {None}), rows : SUBSET Text]

\* A write to wc.db: at once outside a transaction.
Write(d) ==
  /\ view' = d
  /\ db' = IF open THEN db ELSE d
  /\ UNCHANGED open

\* The file on disk becomes t: what was recorded of it no longer fits.
PutFile(t) ==
  /\ disk' = t
  /\ db' = [db EXCEPT !.stat = FALSE]
  /\ view' = [view EXCEPT !.stat = FALSE]
  /\ UNCHANGED <<open, pristine>>

\* filesystemStatus and matchesPristine: recorded size and time first, then
\* the bytes of the pristine file.
LooksModified(d) == disk # None /\ ~d.stat /\ disk # pristine[d.base.text]

(***************************************************************************)
(* diff3.Merge, line by line.                                              *)
(***************************************************************************)
Clashes(base, mine, theirs) ==
  {l \in Lines : mine[l] # base[l] /\ theirs[l] # base[l] /\ mine[l] # theirs[l]}

\* Mutant: on a clash the working file's side is dropped.
MergeTakesTheirs(base, mine, theirs) ==
  [l \in Lines |-> IF mine[l] = base[l] \/ l \in Clashes(base, mine, theirs)
                   THEN theirs[l] ELSE mine[l]]

Merge(base, mine, theirs) ==
  [l \in Lines |-> IF mine[l] = base[l] THEN theirs[l]
                   ELSE IF l \in Clashes(base, mine, theirs)
                        THEN mine[l] \cup base[l] \cup theirs[l] ELSE mine[l]]

Init ==
  LET first == [l \in Lines |-> {0}] IN
  /\ repo = <<first>>
  /\ disk = first
  /\ pristine = [t \in {first} |-> first]
  /\ db = [base |-> [rev |-> 1, text |-> first], stat |-> TRUE,
           conflict |-> FALSE, queue |-> <<>>, rows |-> {first}]
  /\ view = db
  /\ open = FALSE
  /\ op = "idle" /\ pc = "idle"
  /\ target = 1
  /\ modified = FALSE
  /\ work = None /\ install = None
  /\ saves = 0 /\ owed = {} /\ interrupts = 0 /\ excused = {}

-----------------------------------------------------------------------------
(***************************************************************************)
(* The user and the other committers.                                      *)
(***************************************************************************)

\* A save is late when an operation has looked at the file already, or one
\* that was cut short has left an item that will reinstall it.
Late == db.queue # <<>> \/ (op # "idle" /\ ~(op = "update" /\ pc = "open"))

UserSave(l) ==
  /\ saves < MaxSaves
  /\ disk # None
  /\ PutFile([disk EXCEPT ![l] = {saves + 1}])
  /\ saves' = saves + 1
  /\ owed' = (owed \ disk[l]) \cup (IF Late THEN {} ELSE {saves + 1})
  /\ UNCHANGED <<repo, op, pc, locals, interrupts, excused>>

OtherCommits(l) ==
  /\ Len(repo) < MaxRevision
  /\ repo' = Append(repo, [repo[Len(repo)] EXCEPT ![l] = {-Len(repo)}])
  /\ UNCHANGED <<files, wcdb, op, pc, locals, history>>

Goto(p) == pc' = p /\ UNCHANGED op

\* The operation returns, and what it had in memory goes.
Return ==
  /\ op' = "idle" /\ pc' = "idle"
  /\ target' = 1 /\ modified' = FALSE
  /\ work' = None /\ install' = None

-----------------------------------------------------------------------------
(***************************************************************************)
(* Update, to any revision; a commit runs it too.                          *)
(***************************************************************************)

\* NewUpdateEditor's BEGIN IMMEDIATE.  Without a difference the server does
\* not open the file and the editor only closes.
BeginUpdate(r) ==
  /\ op = "idle"
  /\ r \in DOMAIN repo
  /\ op' = "update"
  /\ target' = r
  /\ pc' = IF repo[r] = db.base.text THEN "run" ELSE "open"
  /\ open' = TRUE
  /\ UNCHANGED <<repo, files, db, view, modified, work, install, history>>

\* The status OpenFile asks for decides whether there is something to merge.
OpenFile ==
  /\ pc = "open"
  /\ modified' = LooksModified(view)
  /\ owed' = IF LooksModified(view) THEN owed
             ELSE owed \ (Marks(disk) \ Marks(view.base.text))
  /\ Goto("pristine")
  /\ UNCHANGED <<repo, files, wcdb, target, work, install, saves, interrupts, excused>>

\* installPristine: what has the name is taken for the text; otherwise the
\* text is copied to its name.
InstallPristine ==
  /\ pc = "pristine"
  /\ IF repo[target] \in DOMAIN pristine
     THEN Goto("close") /\ UNCHANGED pristine
     ELSE /\ pristine' = [t \in DOMAIN pristine \cup {repo[target]} |->
                            IF t = repo[target] THEN Blank ELSE pristine[t]]
          /\ Goto("copy")
  /\ UNCHANGED <<repo, disk, wcdb, locals, history>>

CopyPristine ==
  /\ pc = "copy"
  /\ pristine' = [pristine EXCEPT ![repo[target]] = repo[target]]
  /\ Goto("close")
  /\ UNCHANGED <<repo, disk, wcdb, locals, history>>

\* updateFile.Close after installPristine: mergeLocalChanges, the conflict,
\* the BASE row and the file-install item.
CloseFile ==
  LET theirs  == repo[target]
      clashes == Clashes(pristine[view.base.text], disk, theirs)
      merged  == IF clashes # {} /\ op = "commit"    \* Accept: ConflictTheirs
                 THEN theirs
                 ELSE Merge(pristine[view.base.text], disk, theirs)
  IN
  /\ pc = "close"
  /\ modified => disk # None
  /\ Write([view EXCEPT
       !.base = [rev |-> target, text |-> theirs],
       !.stat = FALSE,
       !.rows = @ \cup {theirs},
       !.conflict = @ \/ (modified /\ clashes # {} /\ op # "commit"),
       !.queue = Append(@, IF modified THEN merged ELSE None)])
  /\ modified' = FALSE
  /\ Goto("run")
  /\ UNCHANGED <<repo, files, target, work, install, history>>

-----------------------------------------------------------------------------
(***************************************************************************)
(* RunWorkQueue: the item at the head is run, then deleted.                *)
(***************************************************************************)

\* installFile up to os.Remove of the target: the new text is in .svn/tmp.
RemoveTarget ==
  /\ pc = "run"
  /\ view.queue # <<>>
  /\ install' = IF Head(view.queue) = None THEN pristine[view.base.text]
                ELSE Head(view.queue)
  /\ PutFile(None)
  /\ Goto("removed")
  /\ UNCHANGED <<repo, target, modified, work, history>>

RenameIntoPlace ==
  /\ pc = "removed"
  /\ PutFile(install)
  /\ install' = None
  /\ Goto("renamed")
  /\ UNCHANGED <<repo, target, modified, work, history>>

\* Whatever lies there now is recorded, also when its text was merged.
RecordFileInfo ==
  /\ pc = "renamed"
  /\ Write([view EXCEPT !.stat = TRUE])
  /\ Goto("recorded")
  /\ UNCHANGED <<repo, files, locals, history>>

DeleteItem ==
  /\ pc = "recorded"
  /\ Write([view EXCEPT !.queue = Tail(@)])
  /\ Goto("run")
  /\ UNCHANGED <<repo, files, locals, history>>

\* CloseEdit's COMMIT ends an update, and the update inside a commit.
CommitUpdate ==
  /\ pc = "run" /\ view.queue = <<>>
  /\ open
  /\ db' = view
  /\ open' = FALSE
  /\ IF op = "commit" THEN Goto("finalize") /\ UNCHANGED locals ELSE Return
  /\ UNCHANGED <<repo, files, view, history>>

QueueEmpty ==
  /\ pc = "run" /\ view.queue = <<>>
  /\ ~open
  /\ IF op = "cleanup" THEN Goto("vacuum") /\ UNCHANGED locals ELSE Return
  /\ UNCHANGED <<repo, files, wcdb, history>>

-----------------------------------------------------------------------------
(***************************************************************************)
(* Commit.                                                                 *)
(***************************************************************************)

\* harvestCommit: conflicts are refused, unmodified and missing files are
\* nothing to commit and an error.
Harvest ==
  /\ op = "idle"
  /\ Len(repo) < MaxRevision
  /\ ~db.conflict
  /\ LooksModified(db)
  /\ work' = disk
  /\ op' = "commit" /\ pc' = "harvested"
  /\ UNCHANGED <<repo, files, wcdb, target, modified, install, history>>

\* Mutant: the base revision is not compared.
AcceptableAnyBase == pristine[db.base.text] = db.base.text

\* The server refuses an old base revision, and a base text that is not the
\* one it has.
Acceptable == db.base.rev = Len(repo) /\ pristine[db.base.text] = db.base.text

\* Mutant: the revision after the one made is reported.
CommitEditOffByOne ==
  /\ pc = "harvested"
  /\ Acceptable
  /\ repo' = Append(repo, work)
  /\ target' = Len(repo') + 1
  /\ Goto("committed")
  /\ UNCHANGED <<files, wcdb, modified, work, install, history>>

\* The edit is driven and closed.
CommitEdit ==
  /\ pc = "harvested"
  /\ Acceptable
  /\ repo' = Append(repo, work)
  /\ target' = Len(repo')
  /\ Goto("committed")
  /\ UNCHANGED <<files, wcdb, modified, work, install, history>>

CommitRefused ==
  /\ pc = "harvested"
  /\ ~Acceptable
  /\ Return
  /\ UNCHANGED <<repo, files, wcdb, history>>

PreparePostCommit ==
  /\ pc = "committed"
  /\ Write([view EXCEPT !.conflict = FALSE])
  /\ Goto("prepared")
  /\ UNCHANGED <<repo, files, locals, history>>

\* Update to the new revision, with ConflictTheirs.
BeginPostCommitUpdate ==
  /\ pc = "prepared"
  /\ open' = TRUE
  /\ Goto("open")
  /\ UNCHANGED <<repo, files, db, view, locals, history>>

\* Mutant: the file is read again for its checksum.
FinalizeFromDisk ==
  /\ pc = "finalize"
  /\ pristine' = [t \in DOMAIN pristine \cup {disk} |->
                    IF t \in DOMAIN pristine THEN pristine[t] ELSE disk]
  /\ Write([view EXCEPT !.base = [rev |-> target, text |-> disk],
                        !.stat = FALSE, !.rows = @ \cup {disk}])
  /\ Goto("enqueue")
  /\ UNCHANGED <<repo, disk, locals, history>>

\* finalizeCommittedMetadata: the revision, and the checksum of what was
\* harvested, whose pristine is installed should it be missing.
FinalizeCommittedMetadata ==
  /\ pc = "finalize"
  /\ pristine' = [t \in DOMAIN pristine \cup {work} |->
                    IF t \in DOMAIN pristine THEN pristine[t] ELSE work]
  /\ Write([view EXCEPT !.base = [rev |-> target, text |-> work],
                        !.stat = FALSE, !.rows = @ \cup {work}])
  /\ Goto("enqueue")
  /\ UNCHANGED <<repo, disk, locals, history>>

\* The unconditional file-install that ends a commit, and that of a revert.
EnqueueInstall ==
  /\ pc = "enqueue"
  /\ Write([view EXCEPT !.queue = Append(@, None)])
  /\ work' = None
  /\ Goto("run")
  /\ UNCHANGED <<repo, files, target, modified, install, history>>

-----------------------------------------------------------------------------
(***************************************************************************)
(* Revert, resolve (as it stands in the working file) and cleanup.         *)
(***************************************************************************)

BeginRevert ==
  /\ op = "idle"
  /\ Write([view EXCEPT !.conflict = FALSE])
  /\ owed' = {}
  /\ op' = "revert" /\ pc' = "enqueue"
  /\ UNCHANGED <<repo, files, locals, saves, interrupts, excused>>

Resolve ==
  /\ op = "idle"
  /\ db.conflict
  /\ Write([view EXCEPT !.conflict = FALSE])
  /\ excused' = excused \cup LinesOf(disk)
  /\ UNCHANGED <<repo, files, op, pc, locals, saves, interrupts, owed>>

BeginCleanup ==
  /\ op = "idle"
  /\ op' = "cleanup" /\ pc' = "run"
  /\ UNCHANGED <<repo, files, wcdb, locals, history>>

\* Mutant: reference counts are not looked at.
VacuumAnyFile(t) ==
  /\ pc = "vacuum"
  /\ pristine' = Restrict(pristine, DOMAIN pristine \ {t})
  /\ work' = t
  /\ Goto("vacuumed")
  /\ UNCHANGED <<repo, disk, wcdb, target, modified, install, history>>

\* A text no row refers to: its file goes, then its row.
VacuumFile(t) ==
  /\ pc = "vacuum"
  /\ t \in view.rows \ {view.base.text}
  /\ pristine' = Restrict(pristine, DOMAIN pristine \ {t})
  /\ work' = t
  /\ Goto("vacuumed")
  /\ UNCHANGED <<repo, disk, wcdb, target, modified, install, history>>

VacuumRow ==
  /\ pc = "vacuumed"
  /\ Write([view EXCEPT !.rows = @ \ {work}])
  /\ work' = None
  /\ Goto("vacuum")
  /\ UNCHANGED <<repo, files, target, modified, install, history>>

EndCleanup ==
  /\ pc = "vacuum"
  /\ view.rows \subseteq {view.base.text}
  /\ Return
  /\ UNCHANGED <<repo, files, wcdb, history>>

-----------------------------------------------------------------------------
\* A step fails or the process dies: an open transaction is rolled back, what
\* is in the files stays.
Interrupt ==
  /\ op # "idle"
  /\ interrupts < MaxInterrupts
  /\ interrupts' = interrupts + 1
  /\ Return
  /\ view' = db
  /\ open' = FALSE
  /\ owed' = owed \ Marks(install)
  /\ excused' = excused \cup LinesOf(disk)
                       \cup (IF pc = "copy" THEN LinesOf(repo[target]) ELSE {})
  /\ UNCHANGED <<repo, files, db, saves>>

UpdateStep == OpenFile \/ InstallPristine \/ CopyPristine \/ CloseFile \/ CommitUpdate

QueueStep == RemoveTarget \/ RenameIntoPlace \/ RecordFileInfo \/ DeleteItem \/ QueueEmpty

CommitStep ==
  \/ Harvest \/ CommitEdit \/ CommitRefused \/ PreparePostCommit \/ BeginPostCommitUpdate
  \/ FinalizeCommittedMetadata \/ EnqueueInstall

CleanupStep == BeginCleanup \/ (\E t \in view.rows : VacuumFile(t)) \/ VacuumRow \/ EndCleanup

Next ==
  \/ \E l \in Lines : UserSave(l) \/ OtherCommits(l)
  \/ \E r \in DOMAIN repo : BeginUpdate(r)
  \/ UpdateStep \/ QueueStep \/ CommitStep \/ CleanupStep
  \/ BeginRevert \/ Resolve \/ Interrupt

Spec == Init /\ [][Next]_vars

-----------------------------------------------------------------------------
(***************************************************************************)
(* Properties.                                                             *)
(***************************************************************************)

\* Every variable has its type; an operation's target is a revision that
\* exists, and what a pristine file holds is its text or nothing.
TypeOK ==
  /\ repo \in Seq(Text) /\ Len(repo) \in 1 .. MaxRevision
  /\ disk \in Text \cup {None}
  /\ DOMAIN pristine \subseteq Text /\ \A t \in DOMAIN pristine : pristine[t] \in {Blank, t}
  /\ db \in Database /\ view \in Database
  /\ open \in BOOLEAN /\ modified \in BOOLEAN
  /\ op \in {"idle", "update", "commit", "revert", "cleanup"}
  /\ pc \in {"idle", "open", "pristine", "copy", "close", "run", "removed", "renamed",
             "recorded", "harvested", "committed", "prepared", "finalize", "enqueue",
             "vacuum", "vacuumed"}
  /\ target \in 1 .. Len(repo)
  /\ work \in Text \cup {None} /\ install \in Text \cup {None}
  /\ saves \in 0 .. MaxSaves /\ interrupts \in 0 .. MaxInterrupts
  /\ owed \subseteq Mark
  /\ excused \subseteq SUBSET Mark

\* The BASE row never mixes two revisions: whatever was interrupted, and
\* whatever the user saved while a commit ran, its checksum is that of the
\* file in its revision.  Update and finalizeCommittedMetadata write the row
\* from what the server sent and from what was harvested.
BaseIsRevision == db.base.rev \in DOMAIN repo /\ db.base.text = repo[db.base.rev]

\* The committed wc.db never refers to a pristine that is not in the store:
\* updates put the file there before the row, cleanup vacuums by reference
\* count, and a rolled back update leaves only files nobody refers to.
PristinePresent == db.base.text \in DOMAIN pristine

\* What the user saved before an operation looked at the file is in the file,
\* about to be renamed into its place, or in a revision, until the user saves
\* over it or reverts.  Not covered, and where the code loses text: a save
\* after that look (Late), an edit status takes for unmodified (OpenFile), and
\* one in flight between os.Remove and os.Rename when the process dies.
UserTextKept ==
  owed \subseteq Marks(disk) \cup Marks(install)
                          \cup UNION {Marks(repo[r]) : r \in DOMAIN repo}

\* x stood in the file when an operation was cut short, alone or in a hunk.
Excused(x) == x \in excused \/ \E y \in excused \ {{}} : y \subseteq x

\* The edits revision r is the first to show.
Fresh(r) == {m \in Marks(repo[r]) : \A q \in 1 .. r - 1 : m \notin Marks(repo[q])}

\* No revision takes back what an earlier one did to a line unless its author
\* edited that line: commits from an old base are refused, and a file updated
\* without local edits becomes the revision's.  Excused are lines an
\* interrupted operation left in the file behind wc.db's back.
NoSilentRevert ==
  \A r \in DOMAIN repo \ {1} : \A l \in Lines :
     \/ repo[r][l] = repo[r - 1][l]
     \/ repo[r][l] \cap Fresh(r) # {}
     \/ Excused(repo[r][l])

\* An edit that is in the file and not in its BASE shows in status, so that a
\* commit sends it.  It does not after an update that merged: installFile
\* records the merged file's size and time as those of the unmodified file.
StatusShowsEdits ==
  op = "idle" /\ (owed \cap Marks(disk)) \ Marks(db.base.text) # {} => LooksModified(db)
=============================================================================
