---------------------------- MODULE WcFileProofs ----------------------------
(***************************************************************************)
(* Proofs about WcFile for every set of lines and every bound on           *)
(* revisions, saves and interruptions.                                     *)
(***************************************************************************)
EXTENDS WcFile, TLAPS

\* The update editor has the file in hand, before its work item is queued.
Editing == {"open", "pristine", "copy", "close"}

Running == {"run", "removed", "renamed", "recorded"}

\* Where the operations are, and what of wc.db is uncommitted.
Phases ==
  /\ op = "idle" <=> pc = "idle"
  /\ pc \in Editing => open
  /\ open => op \in {"update", "commit"} /\ pc \in Editing \cup Running
  /\ pc \in {"harvested", "committed", "prepared", "finalize"} => op = "commit"
  /\ ~open => db = view
  /\ pc \in {"removed", "renamed", "recorded"} => view.queue # <<>>

\* Both versions of the BASE row are whole, and while a commit has a revision
\* of its own, its text is what was harvested.
BaseRows ==
  /\ BaseIsRevision
  /\ view.base.rev \in DOMAIN repo /\ view.base.text = repo[view.base.rev]
  /\ pc = "harvested" => work \in Text /\ db.base.rev < MaxRevision
  /\ op = "commit" /\ (open \/ pc \in {"committed", "prepared", "finalize"}) =>
       work = repo[target]

\* So is their pristine, and the one an update is about to name.
PristineFiles ==
  /\ PristinePresent
  /\ view.base.text \in DOMAIN pristine
  /\ pc \in {"copy", "close"} => repo[target] \in DOMAIN pristine

IndInv == TypeOK /\ Phases /\ BaseRows /\ PristineFiles

-----------------------------------------------------------------------------
(***************************************************************************)
(* What the type invariant says of the terms the actions use.              *)
(***************************************************************************)
LEMMA Constants ==
  /\ MaxRevision \in Nat \ {0} /\ MaxSaves \in Nat /\ MaxInterrupts \in Nat
  /\ None \notin Text
  /\ Blank \in Text
BY WcAssumption DEF Blank, Text

\* The revisions are texts, and the target is one of them.
LEMMA Revisions ==
  ASSUME TypeOK
  PROVE  /\ Len(repo) \in Nat /\ DOMAIN repo = 1 .. Len(repo)
         /\ \A r \in DOMAIN repo : repo[r] \in Text /\ r \in 1 .. MaxRevision
         /\ target \in DOMAIN repo
         /\ repo[target] \in Text
BY Constants DEF TypeOK

\* Both versions of wc.db are records of their type, and what the store has
\* under the name of the BASE text is a text.
LEMMA Rows ==
  ASSUME IndInv
  PROVE  /\ db \in Database /\ view \in Database
         /\ view.base.text \in Text /\ db.base.text \in Text
         /\ view.queue \in Seq(Text \cup {None})
         /\ view.rows \subseteq Text
         /\ pristine[view.base.text] \in Text
<1>1. db \in Database /\ view \in Database
  BY DEF IndInv, TypeOK
<1>2. /\ view.base.text \in Text /\ db.base.text \in Text
      /\ view.queue \in Seq(Text \cup {None}) /\ view.rows \subseteq Text
  BY <1>1 DEF Database
<1>3. pristine[view.base.text] \in {Blank, view.base.text}
  BY DEF IndInv, TypeOK, PristineFiles
<1> QED
  BY <1>1, <1>2, <1>3, Constants

\* What an operation leaves when it returns.
LEMMA Returned ==
  ASSUME TypeOK, Return
  PROVE  /\ op' = "idle" /\ pc' = "idle"
         /\ target' \in 1 .. Len(repo) /\ modified' \in BOOLEAN
         /\ work' \in Text \cup {None} /\ install' \in Text \cup {None}
<1>1. 1 \in 1 .. Len(repo)
  <2>1. Len(repo) \in 1 .. MaxRevision
    BY DEF TypeOK
  <2> QED
    BY <2>1, Constants
<1>2. /\ op' = "idle" /\ pc' = "idle" /\ target' = 1 /\ modified' = FALSE
      /\ work' = None /\ install' = None
  BY DEF Return
<1> QED
  BY <1>1, <1>2

\* A merge of texts is a text.
LEMMA MergeTyped ==
  ASSUME NEW x \in Text, NEW y \in Text, NEW z \in Text
  PROVE  Merge(x, y, z) \in Text
BY DEF Merge, Text

\* The marks and the lines of a file.
LEMMA LinesTyped ==
  ASSUME NEW t \in Text \cup {None}
  PROVE  LinesOf(t) \subseteq SUBSET Mark
BY DEF LinesOf, Text

-----------------------------------------------------------------------------
(***************************************************************************)
(* Frames: what an action changes of wc.db and of the files decides what   *)
(* has to be shown again.                                                  *)
(***************************************************************************)
\* Writing a row of the right type.
LEMMA Written ==
  ASSUME IndInv, NEW d \in Database, Write(d)
  PROVE  /\ db' \in Database /\ view' = d /\ open' = open
         /\ db' = db \/ db' = d
         /\ ~open' => db' = view'
BY DEF IndInv, TypeOK, Write

\* Putting another file in place leaves all of wc.db but stat.
LEMMA Put ==
  ASSUME IndInv, NEW t \in Text \cup {None}, PutFile(t)
  PROVE  /\ db' \in Database /\ view' \in Database /\ disk' \in Text \cup {None}
         /\ db'.base = db.base /\ view'.base = view.base /\ view'.queue = view.queue
         /\ open' = open /\ pristine' = pristine
         /\ ~open' => db' = view'
<1>1. db \in Database /\ view \in Database
  BY DEF IndInv, TypeOK
<1>2. /\ \A x \in Database : [x EXCEPT !.stat = FALSE] \in Database
      /\ \A x \in Database : /\ [x EXCEPT !.stat = FALSE].base = x.base
                              /\ [x EXCEPT !.stat = FALSE].queue = x.queue
  BY DEF Database
<1> QED
  BY <1>1, <1>2 DEF PutFile, IndInv, Phases

-----------------------------------------------------------------------------
(***************************************************************************)
(* Each action preserves the invariant.                                    *)
(***************************************************************************)
LEMMA UserSaveInd ==
  ASSUME IndInv, NEW l \in Lines, UserSave(l)
  PROVE  IndInv'
<1>1. [disk EXCEPT ![l] = {saves + 1}] \in Text
  <2>1. disk \in Text /\ saves \in Nat /\ saves + 1 \in Mark
    BY Constants DEF UserSave, IndInv, TypeOK, Mark
  <2> QED
    BY <2>1 DEF Text
<1>2. PutFile([disk EXCEPT ![l] = {saves + 1}])
  BY DEF UserSave
<1>3. owed' \subseteq Mark /\ saves' \in 0 .. MaxSaves
  <2>1. saves \in 0 .. MaxSaves /\ saves + 1 \in 0 .. MaxSaves /\ saves + 1 \in Mark
    BY Constants DEF UserSave, IndInv, TypeOK, Mark
  <2>2. owed' \subseteq owed \cup {saves + 1} /\ saves' = saves + 1
    BY DEF UserSave, Late
  <2> QED
    BY <2>1, <2>2 DEF IndInv, TypeOK
<1>4. TypeOK'
  BY <1>1, <1>2, <1>3, Put DEF UserSave, IndInv, TypeOK, locals
<1>5. Phases'
  BY <1>1, <1>2, Put DEF UserSave, IndInv, Phases
<1>6. BaseRows' /\ PristineFiles'
  BY <1>1, <1>2, Put DEF UserSave, IndInv, BaseRows, PristineFiles, BaseIsRevision,
                         PristinePresent, locals
<1> QED
  BY <1>4, <1>5, <1>6 DEF IndInv

LEMMA OtherCommitsInd ==
  ASSUME IndInv, NEW l \in Lines, OtherCommits(l)
  PROVE  IndInv'
<1> DEFINE new == [repo[Len(repo)] EXCEPT ![l] = {-Len(repo)}]
<1>1. new \in Text
  <2>1. repo[Len(repo)] \in Text /\ -Len(repo) \in Mark
    BY Constants, Revisions DEF IndInv, Mark
  <2> QED
    BY <2>1 DEF Text
<1>2. /\ repo' \in Seq(Text) /\ Len(repo') = Len(repo) + 1 /\ DOMAIN repo' = 1 .. Len(repo) + 1
      /\ \A r \in DOMAIN repo : repo'[r] = repo[r] /\ r \in DOMAIN repo'
  BY <1>1, Revisions DEF OtherCommits, IndInv, TypeOK
<1>3. TypeOK'
  BY <1>2, Revisions, Constants DEF OtherCommits, IndInv, TypeOK, files, wcdb, locals, history
<1>4. Phases'
  BY DEF OtherCommits, IndInv, Phases, wcdb
<1>5. BaseRows' /\ PristineFiles'
  BY <1>2, Revisions
     DEF OtherCommits, IndInv, BaseRows, PristineFiles, BaseIsRevision, PristinePresent,
         files, wcdb, locals
<1> QED
  BY <1>3, <1>4, <1>5 DEF IndInv

LEMMA BeginUpdateInd ==
  ASSUME IndInv, NEW r \in DOMAIN repo, BeginUpdate(r)
  PROVE  IndInv'
<1>1. TypeOK'
  BY Revisions DEF BeginUpdate, IndInv, TypeOK, files, history
<1>2. Phases'
  BY DEF BeginUpdate, IndInv, Phases, Editing, Running
<1>3. BaseRows' /\ PristineFiles'
  BY DEF BeginUpdate, IndInv, BaseRows, PristineFiles, BaseIsRevision, PristinePresent, files
<1> QED
  BY <1>1, <1>2, <1>3 DEF IndInv

LEMMA OpenFileInd ==
  ASSUME IndInv, OpenFile
  PROVE  IndInv'
<1>1. TypeOK'
  BY DEF OpenFile, IndInv, TypeOK, LooksModified, Goto, files, wcdb
<1>2. Phases'
  BY DEF OpenFile, IndInv, Phases, Editing, Running, Goto, wcdb
<1>3. BaseRows' /\ PristineFiles'
  BY DEF OpenFile, IndInv, BaseRows, PristineFiles, BaseIsRevision, PristinePresent, Goto,
         files, wcdb
<1> QED
  BY <1>1, <1>2, <1>3 DEF IndInv

LEMMA InstallPristineInd ==
  ASSUME IndInv, InstallPristine
  PROVE  IndInv'
<1>1. repo[target] \in DOMAIN pristine' /\ DOMAIN pristine \subseteq DOMAIN pristine'
  BY DEF InstallPristine
<1>2. /\ DOMAIN pristine' \subseteq Text
      /\ \A t \in DOMAIN pristine' : pristine'[t] \in {Blank, t}
  BY Revisions DEF InstallPristine, IndInv, TypeOK
<1>3. TypeOK'
  BY <1>2 DEF InstallPristine, IndInv, TypeOK, Goto, wcdb, locals, history
<1>4. Phases'
  BY DEF InstallPristine, IndInv, Phases, Editing, Running, Goto, wcdb
<1>5. BaseRows' /\ PristineFiles'
  BY <1>1 DEF InstallPristine, IndInv, BaseRows, PristineFiles, BaseIsRevision,
              PristinePresent, Goto, wcdb, locals
<1> QED
  BY <1>3, <1>4, <1>5 DEF IndInv

LEMMA CopyPristineInd ==
  ASSUME IndInv, CopyPristine
  PROVE  IndInv'
<1>1. /\ DOMAIN pristine' = DOMAIN pristine
      /\ \A t \in DOMAIN pristine : pristine'[t] \in {pristine[t], t}
  BY DEF CopyPristine
<1>2. TypeOK'
  BY <1>1 DEF CopyPristine, IndInv, TypeOK, Goto, wcdb, locals, history
<1>3. Phases'
  BY DEF CopyPristine, IndInv, Phases, Editing, Running, Goto, wcdb
<1>4. BaseRows' /\ PristineFiles'
  BY <1>1 DEF CopyPristine, IndInv, BaseRows, PristineFiles, BaseIsRevision,
              PristinePresent, Goto, wcdb, locals
<1> QED
  BY <1>2, <1>3, <1>4 DEF IndInv

LEMMA CloseFileInd ==
  ASSUME IndInv, CloseFile
  PROVE  IndInv'
<1> DEFINE theirs == repo[target]
           clashes == Clashes(pristine[view.base.text], disk, theirs)
           merged == IF clashes # {} /\ op = "commit" THEN theirs
                     ELSE Merge(pristine[view.base.text], disk, theirs)
           item == IF modified THEN merged ELSE None
           row == [view EXCEPT !.base = [rev |-> target, text |-> theirs],
                               !.stat = FALSE,
                               !.rows = @ \cup {theirs},
                               !.conflict = @ \/ (modified /\ clashes # {} /\ op # "commit"),
                               !.queue = Append(@, item)]
<1>1. theirs \in Text /\ target \in 1 .. MaxRevision /\ target \in DOMAIN repo
  BY Revisions DEF IndInv
<1>2. item \in Text \cup {None}
  <2>1. CASE modified
    <3>1. disk \in Text
      BY <2>1 DEF CloseFile, IndInv, TypeOK
    <3> QED
      BY <1>1, <3>1, Rows, MergeTyped
  <2>2. CASE ~modified
    BY <2>2
  <2> QED
    BY <2>1, <2>2
<1> HIDE DEF theirs, clashes, item
<1>3. /\ row \in Database
      /\ row.base = [rev |-> target, text |-> theirs]
  <2>1. Append(view.queue, item) \in Seq(Text \cup {None})
    BY <1>2, Rows
  <2> QED
    BY <1>1, <2>1, Rows DEF Database
<1>4. Write(row)
  BY DEF CloseFile, theirs, clashes, item
<1>5. TypeOK'
  BY <1>3, <1>4, Written DEF CloseFile, IndInv, TypeOK, Goto, files, history
<1>6. Phases'
  BY <1>3, <1>4, Written DEF CloseFile, IndInv, Phases, Editing, Running, Goto
<1>7. BaseRows' /\ PristineFiles'
  <2>1. pc = "close" /\ pc' = "run" /\ UNCHANGED <<repo, pristine, target, work, op>>
    BY DEF CloseFile, Goto, files
  <2>2. /\ view'.base.rev = target /\ view'.base.text = repo[target] /\ open' = open
        /\ db'.base = db.base \/ db'.base = view'.base
    <3>1. view' = row /\ open' = open /\ (db' = db \/ db' = row)
      BY <1>3, <1>4, Written
    <3>2. row.base.rev = target /\ row.base.text = repo[target]
      BY <1>3 DEF theirs
    <3> QED
      BY <3>1, <3>2
  <2>3. BaseRows'
    BY <1>1, <2>1, <2>2 DEF IndInv, Phases, BaseRows, BaseIsRevision, Editing
  <2>4. PristineFiles'
    BY <2>1, <2>2 DEF IndInv, PristineFiles, PristinePresent
  <2> QED
    BY <2>3, <2>4
<1> QED
  BY <1>5, <1>6, <1>7 DEF IndInv

LEMMA RemoveTargetInd ==
  ASSUME IndInv, RemoveTarget
  PROVE  IndInv'
<1>1. PutFile(None)
  BY DEF RemoveTarget
<1>2. install' \in Text \cup {None}
  BY Rows DEF RemoveTarget
<1>3. TypeOK'
  BY <1>1, <1>2, Put DEF RemoveTarget, IndInv, TypeOK, Goto, history
<1>4. Phases'
  BY <1>1, Put DEF RemoveTarget, IndInv, Phases, Editing, Running, Goto
<1>5. BaseRows' /\ PristineFiles'
  BY <1>1, Put DEF RemoveTarget, IndInv, BaseRows, PristineFiles, BaseIsRevision,
                   PristinePresent, Goto
<1> QED
  BY <1>3, <1>4, <1>5 DEF IndInv

LEMMA RenameIntoPlaceInd ==
  ASSUME IndInv, RenameIntoPlace
  PROVE  IndInv'
<1>1. PutFile(install) /\ install \in Text \cup {None}
  BY DEF RenameIntoPlace, IndInv, TypeOK
<1>2. TypeOK'
  BY <1>1, Put DEF RenameIntoPlace, IndInv, TypeOK, Goto, history
<1>3. Phases'
  BY <1>1, Put DEF RenameIntoPlace, IndInv, Phases, Editing, Running, Goto
<1>4. BaseRows' /\ PristineFiles'
  BY <1>1, Put DEF RenameIntoPlace, IndInv, BaseRows, PristineFiles, BaseIsRevision,
                   PristinePresent, Goto
<1> QED
  BY <1>2, <1>3, <1>4 DEF IndInv

LEMMA RecordFileInfoInd ==
  ASSUME IndInv, RecordFileInfo
  PROVE  IndInv'
<1> DEFINE row == [view EXCEPT !.stat = TRUE]
<1>1. row \in Database /\ row.base = view.base /\ row.queue = view.queue
  BY Rows DEF Database
<1>2. Write(row)
  BY DEF RecordFileInfo
<1>3. TypeOK'
  BY <1>1, <1>2, Written DEF RecordFileInfo, IndInv, TypeOK, Goto, files, locals, history
<1>4. Phases'
  BY <1>1, <1>2, Written DEF RecordFileInfo, IndInv, Phases, Editing, Running, Goto
<1>5. BaseRows' /\ PristineFiles'
  BY <1>1, <1>2, Written DEF RecordFileInfo, IndInv, Phases, BaseRows, PristineFiles,
     BaseIsRevision, PristinePresent, Editing, Running, Goto, files, locals
<1> QED
  BY <1>3, <1>4, <1>5 DEF IndInv

LEMMA PreparePostCommitInd ==
  ASSUME IndInv, PreparePostCommit
  PROVE  IndInv'
<1> DEFINE row == [view EXCEPT !.conflict = FALSE]
<1>1. row \in Database /\ row.base = view.base
  BY Rows DEF Database
<1>2. Write(row)
  BY DEF PreparePostCommit
<1>3. TypeOK'
  BY <1>1, <1>2, Written DEF PreparePostCommit, IndInv, TypeOK, Goto, files, locals, history
<1>4. Phases'
  BY <1>1, <1>2, Written DEF PreparePostCommit, IndInv, Phases, Editing, Running, Goto
<1>5. BaseRows' /\ PristineFiles'
  BY <1>1, <1>2, Written DEF PreparePostCommit, IndInv, Phases, BaseRows, PristineFiles,
     BaseIsRevision, PristinePresent, Editing, Running, Goto, files, locals
<1> QED
  BY <1>3, <1>4, <1>5 DEF IndInv

LEMMA DeleteItemInd ==
  ASSUME IndInv, DeleteItem
  PROVE  IndInv'
<1> DEFINE row == [view EXCEPT !.queue = Tail(@)]
<1>1. row \in Database /\ row.base = view.base
  <2>1. view.queue # <<>>
    BY DEF DeleteItem, IndInv, Phases
  <2>2. Tail(view.queue) \in Seq(Text \cup {None})
    BY <2>1, Rows
  <2> QED
    BY <2>2, Rows DEF Database
<1>2. Write(row)
  BY DEF DeleteItem
<1>3. TypeOK'
  BY <1>1, <1>2, Written DEF DeleteItem, IndInv, TypeOK, Goto, files, locals, history
<1>4. Phases'
  BY <1>1, <1>2, Written DEF DeleteItem, IndInv, Phases, Editing, Running, Goto
<1>5. BaseRows' /\ PristineFiles'
  BY <1>1, <1>2, Written DEF DeleteItem, IndInv, Phases, BaseRows, PristineFiles,
     BaseIsRevision, PristinePresent, Editing, Running, Goto, files, locals
<1> QED
  BY <1>3, <1>4, <1>5 DEF IndInv

LEMMA EnqueueInstallInd ==
  ASSUME IndInv, EnqueueInstall
  PROVE  IndInv'
<1> DEFINE row == [view EXCEPT !.queue = Append(@, None)]
<1>1. row \in Database /\ row.base = view.base
  <2>1. Append(view.queue, None) \in Seq(Text \cup {None})
    BY Rows
  <2> QED
    BY <2>1, Rows DEF Database
<1>2. Write(row)
  BY DEF EnqueueInstall
<1>3. TypeOK'
  BY <1>1, <1>2, Written DEF EnqueueInstall, IndInv, TypeOK, Goto, files, locals, history
<1>4. Phases'
  BY <1>1, <1>2, Written DEF EnqueueInstall, IndInv, Phases, Editing, Running, Goto
<1>5. BaseRows' /\ PristineFiles'
  BY <1>1, <1>2, Written DEF EnqueueInstall, IndInv, Phases, BaseRows, PristineFiles,
     BaseIsRevision, PristinePresent, Editing, Running, Goto, files, locals
<1> QED
  BY <1>3, <1>4, <1>5 DEF IndInv

LEMMA BeginRevertInd ==
  ASSUME IndInv, BeginRevert
  PROVE  IndInv'
<1> DEFINE row == [view EXCEPT !.conflict = FALSE]
<1>1. row \in Database /\ row.base = view.base
  BY Rows DEF Database
<1>2. Write(row)
  BY DEF BeginRevert
<1>3. TypeOK'
  BY <1>1, <1>2, Written DEF BeginRevert, IndInv, TypeOK, Goto, files, locals, history
<1>4. Phases'
  BY <1>1, <1>2, Written DEF BeginRevert, IndInv, Phases, Editing, Running, Goto
<1>5. BaseRows' /\ PristineFiles'
  BY <1>1, <1>2, Written DEF BeginRevert, IndInv, Phases, BaseRows, PristineFiles,
     BaseIsRevision, PristinePresent, Editing, Running, Goto, files, locals
<1> QED
  BY <1>3, <1>4, <1>5 DEF IndInv

LEMMA ResolveInd ==
  ASSUME IndInv, Resolve
  PROVE  IndInv'
<1> DEFINE row == [view EXCEPT !.conflict = FALSE]
<1>1. row \in Database /\ row.base = view.base
  BY Rows DEF Database
<1>2. Write(row)
  BY DEF Resolve
<1>3. TypeOK'
  BY <1>1, <1>2, Written, LinesTyped DEF Resolve, IndInv, TypeOK, Goto, files, locals, history
<1>4. Phases'
  BY <1>1, <1>2, Written DEF Resolve, IndInv, Phases, Editing, Running, Goto
<1>5. BaseRows' /\ PristineFiles'
  BY <1>1, <1>2, Written DEF Resolve, IndInv, Phases, BaseRows, PristineFiles,
     BaseIsRevision, PristinePresent, Editing, Running, Goto, files, locals
<1> QED
  BY <1>3, <1>4, <1>5 DEF IndInv

LEMMA VacuumRowInd ==
  ASSUME IndInv, VacuumRow
  PROVE  IndInv'
<1> DEFINE row == [view EXCEPT !.rows = @ \ {work}]
<1>1. row \in Database /\ row.base = view.base
  BY Rows DEF Database
<1>2. Write(row)
  BY DEF VacuumRow
<1>3. TypeOK'
  BY <1>1, <1>2, Written DEF VacuumRow, IndInv, TypeOK, Goto, files, locals, history
<1>4. Phases'
  BY <1>1, <1>2, Written DEF VacuumRow, IndInv, Phases, Editing, Running, Goto
<1>5. BaseRows' /\ PristineFiles'
  BY <1>1, <1>2, Written DEF VacuumRow, IndInv, Phases, BaseRows, PristineFiles,
     BaseIsRevision, PristinePresent, Editing, Running, Goto, files, locals
<1> QED
  BY <1>3, <1>4, <1>5 DEF IndInv

LEMMA CommitUpdateInd ==
  ASSUME IndInv, CommitUpdate
  PROVE  IndInv'
<1>1. TypeOK'
  BY Returned DEF CommitUpdate, IndInv, TypeOK, Goto, Return, files, locals, history
<1>2. Phases'
  BY DEF CommitUpdate, IndInv, Phases, Editing, Running, Goto, Return, files, locals, history
<1>3. BaseRows' /\ PristineFiles'
  BY DEF CommitUpdate, IndInv, Phases, BaseRows, PristineFiles, BaseIsRevision, PristinePresent,
         Editing, Running, Goto, Return, files, locals, history
<1> QED
  BY <1>1, <1>2, <1>3 DEF IndInv

LEMMA QueueEmptyInd ==
  ASSUME IndInv, QueueEmpty
  PROVE  IndInv'
<1>1. TypeOK'
  BY Returned DEF QueueEmpty, IndInv, TypeOK, Goto, Return, files, wcdb, locals, history
<1>2. Phases'
  BY DEF QueueEmpty, IndInv, Phases, Editing, Running, Goto, Return, files, wcdb, locals, history
<1>3. BaseRows' /\ PristineFiles'
  BY DEF QueueEmpty, IndInv, Phases, BaseRows, PristineFiles, BaseIsRevision, PristinePresent,
         Editing, Running, Goto, Return, files, wcdb, locals, history
<1> QED
  BY <1>1, <1>2, <1>3 DEF IndInv

LEMMA HarvestInd ==
  ASSUME IndInv, Harvest
  PROVE  IndInv'
<1>1. TypeOK'
  BY DEF Harvest, IndInv, TypeOK, LooksModified, files, wcdb, history
<1>2. Phases'
  BY DEF Harvest, IndInv, Phases, Editing, Running, LooksModified, files, wcdb, history
<1>3. BaseRows' /\ PristineFiles'
  <2>1. work' \in Text /\ db.base.rev < MaxRevision
    <3>1. Len(repo) < MaxRevision /\ db.base.rev \in 1 .. Len(repo) /\ Len(repo) \in Nat
      BY Revisions DEF Harvest, IndInv, BaseRows, BaseIsRevision
    <3> QED
      BY <3>1, Constants DEF Harvest, IndInv, TypeOK, LooksModified
  <2> QED
    BY <2>1 DEF Harvest, IndInv, Phases, BaseRows, PristineFiles, BaseIsRevision,
                PristinePresent, files, wcdb
<1> QED
  BY <1>1, <1>2, <1>3 DEF IndInv

LEMMA CommitRefusedInd ==
  ASSUME IndInv, CommitRefused
  PROVE  IndInv'
<1>1. TypeOK'
  BY Returned DEF CommitRefused, IndInv, TypeOK, Return, files, wcdb, history
<1>2. Phases'
  BY DEF CommitRefused, IndInv, Phases, Editing, Running, Return, files, wcdb, history
<1>3. BaseRows' /\ PristineFiles'
  BY DEF CommitRefused, IndInv, Phases, BaseRows, PristineFiles, BaseIsRevision, PristinePresent,
         Editing, Running, Return, files, wcdb, history
<1> QED
  BY <1>1, <1>2, <1>3 DEF IndInv

LEMMA BeginPostCommitUpdateInd ==
  ASSUME IndInv, BeginPostCommitUpdate
  PROVE  IndInv'
<1>1. TypeOK'
  BY DEF BeginPostCommitUpdate, IndInv, TypeOK, Goto, files, locals, history
<1>2. Phases'
  BY DEF BeginPostCommitUpdate, IndInv, Phases, Editing, Running, Goto, files, locals, history
<1>3. BaseRows' /\ PristineFiles'
  BY DEF BeginPostCommitUpdate, IndInv, Phases, BaseRows, PristineFiles, BaseIsRevision, PristinePresent,
         Editing, Running, Goto, files, locals, history
<1> QED
  BY <1>1, <1>2, <1>3 DEF IndInv

LEMMA BeginCleanupInd ==
  ASSUME IndInv, BeginCleanup
  PROVE  IndInv'
<1>1. TypeOK'
  BY DEF BeginCleanup, IndInv, TypeOK, files, wcdb, locals, history
<1>2. Phases'
  BY DEF BeginCleanup, IndInv, Phases, Editing, Running, files, wcdb, locals, history
<1>3. BaseRows' /\ PristineFiles'
  BY DEF BeginCleanup, IndInv, Phases, BaseRows, PristineFiles, BaseIsRevision, PristinePresent,
         Editing, Running, files, wcdb, locals, history
<1> QED
  BY <1>1, <1>2, <1>3 DEF IndInv

LEMMA EndCleanupInd ==
  ASSUME IndInv, EndCleanup
  PROVE  IndInv'
<1>1. TypeOK'
  BY Returned DEF EndCleanup, IndInv, TypeOK, Return, files, wcdb, history
<1>2. Phases'
  BY DEF EndCleanup, IndInv, Phases, Editing, Running, Return, files, wcdb, history
<1>3. BaseRows' /\ PristineFiles'
  BY DEF EndCleanup, IndInv, Phases, BaseRows, PristineFiles, BaseIsRevision, PristinePresent,
         Editing, Running, Return, files, wcdb, history
<1> QED
  BY <1>1, <1>2, <1>3 DEF IndInv
LEMMA CommitEditInd ==
  ASSUME IndInv, CommitEdit
  PROVE  IndInv'
<1>1. Len(repo) < MaxRevision /\ work \in Text
  BY DEF CommitEdit, Acceptable, IndInv, BaseRows
<1>2. /\ repo' \in Seq(Text) /\ Len(repo') = Len(repo) + 1 /\ DOMAIN repo' = 1 .. Len(repo) + 1
      /\ \A r \in DOMAIN repo : repo'[r] = repo[r] /\ r \in DOMAIN repo'
      /\ target' = Len(repo) + 1 /\ repo'[target'] = work
  BY <1>1, Revisions DEF CommitEdit, IndInv, TypeOK
<1>3. TypeOK'
  <2>1. Len(repo') \in 1 .. MaxRevision /\ target' \in 1 .. Len(repo')
    BY <1>1, <1>2, Revisions, Constants DEF IndInv
  <2> QED
    BY <1>2, <2>1 DEF CommitEdit, IndInv, TypeOK, Goto, files, wcdb, history
<1>4. Phases'
  BY DEF CommitEdit, IndInv, Phases, Editing, Running, Goto, wcdb
<1>5. BaseRows' /\ PristineFiles'
  BY <1>2 DEF CommitEdit, IndInv, BaseRows, PristineFiles, BaseIsRevision, PristinePresent,
              Goto, files, wcdb
<1> QED
  BY <1>3, <1>4, <1>5 DEF IndInv

LEMMA FinalizeCommittedMetadataInd ==
  ASSUME IndInv, FinalizeCommittedMetadata
  PROVE  IndInv'
<1> DEFINE row == [view EXCEPT !.base = [rev |-> target, text |-> work],
                               !.stat = FALSE, !.rows = @ \cup {work}]
<1>1. work = repo[target] /\ work \in Text /\ target \in 1 .. MaxRevision
  BY Revisions DEF FinalizeCommittedMetadata, IndInv, Phases, BaseRows
<1>2. row \in Database /\ row.base.rev = target /\ row.base.text = work
  BY <1>1, Rows DEF Database
<1>3. Write(row)
  BY DEF FinalizeCommittedMetadata
<1>4. ~open
  BY DEF FinalizeCommittedMetadata, IndInv, Phases, Editing, Running
<1>5. db' = row /\ view' = row /\ open' = open
  BY <1>3, <1>4 DEF Write
<1>6. /\ DOMAIN pristine' = DOMAIN pristine \cup {work}
      /\ \A t \in DOMAIN pristine' : pristine'[t] \in {Blank, t}
  BY DEF FinalizeCommittedMetadata, IndInv, TypeOK
<1>7. pc' = "enqueue" /\ UNCHANGED <<repo, disk, op, target, modified, work, install>>
  BY DEF FinalizeCommittedMetadata, Goto, locals
<1>8. TypeOK'
  BY <1>1, <1>2, <1>5, <1>6, <1>7
     DEF FinalizeCommittedMetadata, IndInv, TypeOK, history
<1>9. Phases'
  BY <1>4, <1>5, <1>7 DEF FinalizeCommittedMetadata, IndInv, Phases, Editing, Running
<1>10. BaseRows' /\ PristineFiles'
  BY <1>1, <1>2, <1>4, <1>5, <1>6, <1>7, Revisions
     DEF IndInv, BaseRows, PristineFiles, BaseIsRevision, PristinePresent
<1> QED
  BY <1>8, <1>9, <1>10 DEF IndInv

LEMMA VacuumFileInd ==
  ASSUME IndInv, NEW t \in view.rows, VacuumFile(t)
  PROVE  IndInv'
<1>1. t \in Text /\ t # view.base.text
  BY Rows DEF VacuumFile
<1>2. /\ DOMAIN pristine' = DOMAIN pristine \ {t}
      /\ \A x \in DOMAIN pristine' : pristine'[x] = pristine[x]
  BY DEF VacuumFile, Restrict
<1>3. ~open /\ db = view
  BY DEF VacuumFile, IndInv, Phases, Editing, Running
<1>4. TypeOK'
  BY <1>1, <1>2 DEF VacuumFile, IndInv, TypeOK, Goto, wcdb, history
<1>5. Phases'
  BY DEF VacuumFile, IndInv, Phases, Editing, Running, Goto, wcdb
<1>6. BaseRows' /\ PristineFiles'
  BY <1>1, <1>2, <1>3 DEF VacuumFile, IndInv, Phases, BaseRows, PristineFiles, BaseIsRevision,
                          PristinePresent, Editing, Running, Goto, wcdb
<1> QED
  BY <1>4, <1>5, <1>6 DEF IndInv

LEMMA InterruptInd ==
  ASSUME IndInv, Interrupt
  PROVE  IndInv'
<1>1. LinesOf(disk) \subseteq SUBSET Mark /\ LinesOf(repo[target]) \subseteq SUBSET Mark
  BY LinesTyped, Revisions DEF IndInv, TypeOK
<1>2. excused' \subseteq SUBSET Mark /\ owed' \subseteq Mark
  BY <1>1 DEF Interrupt, IndInv, TypeOK
<1>3. interrupts' \in 0 .. MaxInterrupts
  BY Constants DEF Interrupt, IndInv, TypeOK
<1>4. /\ UNCHANGED <<repo, disk, pristine, db, saves>>
      /\ view' = db /\ open' = FALSE /\ Return
  BY DEF Interrupt, files
<1>5. TypeOK'
  BY <1>2, <1>3, <1>4, Returned DEF IndInv, TypeOK
<1>6. Phases'
  BY <1>4 DEF Return, Phases, Editing, Running
<1>7. BaseRows' /\ PristineFiles'
  BY <1>4 DEF Return, IndInv, BaseRows, PristineFiles, BaseIsRevision, PristinePresent
<1> QED
  BY <1>5, <1>6, <1>7 DEF IndInv

-----------------------------------------------------------------------------
(***************************************************************************)
(* The invariant holds at first and is kept by every step.                 *)
(***************************************************************************)
LEMMA InitInd == Init => IndInv
<1> DEFINE first == [l \in Lines |-> {0}]
           row == [base |-> [rev |-> 1, text |-> first], stat |-> TRUE,
                   conflict |-> FALSE, queue |-> <<>>, rows |-> {first}]
<1> SUFFICES ASSUME Init
             PROVE  IndInv
  OBVIOUS
<1>1. first \in Text /\ 1 \in 1 .. MaxRevision
  BY Constants DEF Text, Mark
<1>2. repo = <<first>> /\ disk = first /\ pristine = [t \in {first} |-> first]
      /\ db = row /\ view = db
  BY DEF Init
<1> HIDE DEF first
<1>3. row \in Database
  BY <1>1 DEF Database
<1>4. repo \in Seq(Text) /\ Len(repo) = 1 /\ DOMAIN repo = {1} /\ repo[1] = first
  BY <1>1, <1>2
<1>5. DOMAIN pristine = {first} /\ pristine[first] = first
  BY <1>2
<1>6. TypeOK
  <2>1. /\ repo \in Seq(Text) /\ Len(repo) \in 1 .. MaxRevision /\ target \in 1 .. Len(repo)
        /\ disk \in Text \cup {None}
    BY <1>1, <1>2, <1>4 DEF Init
  <2>2. DOMAIN pristine \subseteq Text /\ \A t \in DOMAIN pristine : pristine[t] \in {Blank, t}
    BY <1>1, <1>5
  <2>3. db \in Database /\ view \in Database
    BY <1>2, <1>3
  <2>4. saves \in 0 .. MaxSaves /\ interrupts \in 0 .. MaxInterrupts
    BY Constants DEF Init
  <2>5. /\ open \in BOOLEAN /\ modified \in BOOLEAN /\ op = "idle" /\ pc = "idle"
        /\ work = None /\ install = None /\ owed = {} /\ excused = {}
    BY DEF Init
  <2> QED
    BY <2>1, <2>2, <2>3, <2>4, <2>5 DEF TypeOK
<1>7. Phases
  BY DEF Init, Phases, Editing, Running
<1>8. db.base.rev = 1 /\ db.base.text = first /\ view.base.rev = 1 /\ view.base.text = first
  BY <1>2
<1>9. BaseRows /\ PristineFiles
  BY <1>4, <1>5, <1>8 DEF Init, BaseRows, PristineFiles, BaseIsRevision, PristinePresent
<1> QED
  BY <1>6, <1>7, <1>9 DEF IndInv

\* A step that changes nothing.
LEMMA StutterInd ==
  ASSUME IndInv, UNCHANGED vars
  PROVE  IndInv'
<1>1. TypeOK'
  BY DEF IndInv, TypeOK, vars, files, wcdb, locals, history
<1>2. Phases'
  BY DEF IndInv, Phases, Editing, Running, vars, files, wcdb, locals, history
<1>3. BaseRows' /\ PristineFiles'
  BY DEF IndInv, BaseRows, PristineFiles, BaseIsRevision, PristinePresent,
         vars, files, wcdb, locals, history
<1> QED
  BY <1>1, <1>2, <1>3 DEF IndInv

LEMMA StepInd == IndInv /\ [Next]_vars => IndInv'
<1> SUFFICES ASSUME IndInv, [Next]_vars
             PROVE  IndInv'
  OBVIOUS
<1>1. ASSUME NEW l \in Lines, UserSave(l) \/ OtherCommits(l)
      PROVE  IndInv'
  BY <1>1, UserSaveInd, OtherCommitsInd
<1>2. ASSUME NEW r \in DOMAIN repo, BeginUpdate(r)
      PROVE  IndInv'
  BY <1>2, BeginUpdateInd
<1>3. CASE UpdateStep
  BY <1>3, OpenFileInd, InstallPristineInd, CopyPristineInd, CloseFileInd, CommitUpdateInd
     DEF UpdateStep
<1>4. CASE QueueStep
  BY <1>4, RemoveTargetInd, RenameIntoPlaceInd, RecordFileInfoInd, DeleteItemInd, QueueEmptyInd
     DEF QueueStep
<1>5. CASE CommitStep
  BY <1>5, HarvestInd, CommitEditInd, CommitRefusedInd, PreparePostCommitInd,
     BeginPostCommitUpdateInd, FinalizeCommittedMetadataInd, EnqueueInstallInd
     DEF CommitStep
<1>6. CASE CleanupStep
  BY <1>6, BeginCleanupInd, VacuumFileInd, VacuumRowInd, EndCleanupInd DEF CleanupStep
<1>7. CASE BeginRevert \/ Resolve \/ Interrupt
  BY <1>7, BeginRevertInd, ResolveInd, InterruptInd
<1>8. CASE UNCHANGED vars
  BY <1>8, StutterInd
<1> QED
  BY <1>1, <1>2, <1>3, <1>4, <1>5, <1>6, <1>7, <1>8 DEF Next

LEMMA Invariance == Spec => []IndInv
BY InitInd, StepInd, PTL DEF Spec

-----------------------------------------------------------------------------
(***************************************************************************)
(* What the invariant gives.                                               *)
(***************************************************************************)

\* Every variable keeps its type, whatever the operations, the user, the other
\* committers and the interruptions do: among other things, an operation's
\* target is a revision that exists, and a file of .svn/pristine holds its
\* text or nothing.
THEOREM WcTypeCorrect == Spec => []TypeOK
<1>1. IndInv => TypeOK
  BY DEF IndInv
<1> QED
  BY <1>1, Invariance, PTL

\* The revision and the checksum of the BASE row never come apart: the row
\* written by an update and the one written after a commit
\* (finalizeCommittedMetadata) are those of one revision, although the user
\* saves and others commit in between and any of it may be cut short.
THEOREM BaseRowWhole == Spec => []BaseIsRevision
<1>1. IndInv => BaseIsRevision
  BY DEF IndInv, BaseRows
<1> QED
  BY <1>1, Invariance, PTL

\* wc.db as committed never refers to a pristine the store does not have:
\* installPristine comes before the row, vacuum spares what the row refers to,
\* and a rollback takes back rows and never files.
THEOREM PristineKept == Spec => []PristinePresent
<1>1. IndInv => PristinePresent
  BY DEF IndInv, PristineFiles
<1> QED
  BY <1>1, Invariance, PTL

-----------------------------------------------------------------------------
(***************************************************************************)
(* The user finds his edits again: where an edit that is owed can be.      *)
(***************************************************************************)
\* The edits some revision shows.
Committed == UNION {Marks(repo[r]) : r \in DOMAIN repo}

\* No item of q loses an edit that is owed and in no revision.
ItemsKeep(q) == \A i \in DOMAIN q : owed \subseteq Marks(q[i]) \cup Committed

\* What is owed is where UserTextKept says, and stays there: every text about
\* to replace the file has it, and an operation that will install a pristine
\* began when a revision had it.
OwedInv ==
  /\ owed \subseteq Marks(disk) \cup Marks(install) \cup Committed
  /\ install # None => pc = "removed"
  /\ pc = "removed" => disk = None
  /\ ItemsKeep(db.queue) /\ ItemsKeep(view.queue)
  /\ pc \in Editing => view.queue = db.queue
  /\ pc \in {"pristine", "copy", "close"} /\ ~modified => owed \subseteq Committed
  /\ pc = "enqueue" => owed \subseteq Committed
  /\ pc = "harvested" => owed \subseteq Marks(work) \cup Committed
  /\ op = "commit" /\ pc # "harvested" => owed \subseteq Committed

-----------------------------------------------------------------------------
(***************************************************************************)
(* Marks of texts and of revisions.                                        *)
(***************************************************************************)
LEMMA MarksOfText ==
  ASSUME NEW t \in Text
  PROVE  \A m : m \in Marks(t) <=> \E l \in Lines : m \in t[l]
BY Constants DEF Marks

LEMMA MarksOfNone == Marks(None) = {}
BY DEF Marks

\* The pristine of BASE has only marks some revision shows.
LEMMA PristineCommitted ==
  ASSUME IndInv
  PROVE  /\ Marks(pristine[view.base.text]) \subseteq Committed
         /\ Marks(view.base.text) \subseteq Committed
<1>1. Marks(view.base.text) \subseteq Committed
  BY DEF IndInv, BaseRows, Committed
<1>2. pristine[view.base.text] \in {Blank, view.base.text}
  BY DEF IndInv, TypeOK, PristineFiles
<1>3. Marks(Blank) = {}
  BY MarksOfText, Constants DEF Blank
<1> QED
  BY <1>1, <1>2, <1>3

\* One more revision adds its marks to those committed.
LEMMA CommittedGrows ==
  ASSUME IndInv, NEW t \in Text, repo' = Append(repo, t)
  PROVE  Committed' = Committed \cup Marks(t)
<1>1. /\ DOMAIN repo' = DOMAIN repo \cup {Len(repo) + 1}
      /\ \A r \in DOMAIN repo : repo'[r] = repo[r]
      /\ repo'[Len(repo) + 1] = t
  BY Revisions DEF IndInv, TypeOK
<1> QED
  BY <1>1 DEF Committed

\* What a merge shows is in one of the three files, and what the user's shows
\* and its base does not is kept.
LEMMA MergeKeeps ==
  ASSUME NEW x \in Text, NEW y \in Text, NEW z \in Text
  PROVE  /\ Marks(Merge(x, y, z)) \subseteq Marks(x) \cup Marks(y) \cup Marks(z)
         /\ Marks(y) \subseteq Marks(Merge(x, y, z)) \cup Marks(x)
<1>1. Merge(x, y, z) \in Text
  BY MergeTyped
<1>2. \A l \in Lines : /\ Merge(x, y, z)[l] \subseteq x[l] \cup y[l] \cup z[l]
                        /\ y[l] \subseteq Merge(x, y, z)[l] \cup x[l]
  BY DEF Merge
<1> QED
  BY <1>1, <1>2, MarksOfText

-----------------------------------------------------------------------------
(***************************************************************************)
(* Each action keeps what is owed.                                         *)
(***************************************************************************)
LEMMA UserSaveOwed ==
  ASSUME IndInv, IndInv', OwedInv, NEW l \in Lines, UserSave(l)
  PROVE  OwedInv'
<1>1. /\ disk' = [disk EXCEPT ![l] = {saves + 1}] /\ disk \in Text /\ disk' \in Text
      /\ UNCHANGED <<repo, op, pc, modified, work, install, open>>
      /\ db'.queue = db.queue /\ view'.queue = view.queue
  <2>1. PutFile([disk EXCEPT ![l] = {saves + 1}]) /\ disk # None
    BY DEF UserSave
  <2>2. disk' \in Text
    <3>1. disk \in Text /\ saves \in Nat /\ saves + 1 \in Mark
      BY Constants DEF UserSave, IndInv, TypeOK, Mark
    <3> QED
      BY <2>1, <3>1 DEF PutFile, Text
  <2> QED
    BY <2>1, <2>2 DEF UserSave, PutFile, IndInv, TypeOK, Database, locals
<1>2. Committed' = Committed
  BY <1>1 DEF Committed
<1>3. owed' \subseteq Marks(disk') \cup Marks(install) \cup Committed
  <2> SUFFICES ASSUME NEW m \in owed', m \notin Marks(install), m \notin Committed
               PROVE  m \in Marks(disk')
    OBVIOUS
  <2>1. CASE m \in owed \ disk[l]
    <3>1. PICK k \in Lines : m \in disk[k]
      BY <1>1, <2>1, MarksOfText DEF OwedInv
    <3>2. m \in disk'[k]
      BY <1>1, <2>1, <3>1 DEF Text
    <3> QED
      BY <1>1, <3>2, MarksOfText
  <2>2. CASE m = saves + 1
    <3>1. m \in disk'[l]
      BY <1>1, <2>2 DEF Text
    <3> QED
      BY <1>1, <3>1, MarksOfText
  <2> QED
    BY <2>1, <2>2 DEF UserSave
<1>4. CASE Late
  <2>0. disk # None
    BY DEF UserSave
  <2>1. owed' \subseteq owed
    BY <1>4 DEF UserSave
  <2> QED
    BY <1>1, <1>2, <1>3, <2>0, <2>1 DEF OwedInv, ItemsKeep
<1>5. CASE ~Late
  <2>1. db.queue = <<>> /\ view.queue = <<>>
    BY <1>5 DEF Late, IndInv, Phases, OwedInv, Editing, TypeOK
  <2>2. pc \in {"idle", "open"} /\ op # "commit"
    BY <1>5 DEF Late, IndInv, Phases
  <2>3. ItemsKeep(db.queue)' /\ ItemsKeep(view.queue)'
    BY <1>1, <2>1 DEF ItemsKeep
  <2> QED
    BY <1>1, <1>2, <1>3, <2>1, <2>2, <2>3 DEF OwedInv
<1> QED
  BY <1>4, <1>5

LEMMA OtherCommitsOwed ==
  ASSUME IndInv, OwedInv, NEW l \in Lines, OtherCommits(l)
  PROVE  OwedInv'
<1>1. [repo[Len(repo)] EXCEPT ![l] = {-Len(repo)}] \in Text
  <2>1. repo[Len(repo)] \in Text /\ -Len(repo) \in Mark
    BY Constants, Revisions DEF IndInv, Mark
  <2> QED
    BY <2>1 DEF Text
<1>2. Committed \subseteq Committed'
  BY <1>1, CommittedGrows DEF OtherCommits
<1> QED
  BY <1>2 DEF OtherCommits, OwedInv, ItemsKeep, files, wcdb, locals, history

LEMMA OpenFileOwed ==
  ASSUME IndInv, OwedInv, OpenFile
  PROVE  OwedInv'
<1>1. Committed' = Committed
  BY DEF OpenFile, Committed
<1>2. owed' \subseteq owed
  BY DEF OpenFile
<1>3. ~modified' => owed' \subseteq Committed
  <2>1. install = None
    BY DEF OpenFile, OwedInv
  <2> QED
    BY <2>1, PristineCommitted, MarksOfNone DEF OpenFile, OwedInv
<1> QED
  BY <1>1, <1>2, <1>3 DEF OpenFile, OwedInv, ItemsKeep, Editing, Goto, files, wcdb

LEMMA CloseFileOwed ==
  ASSUME IndInv, IndInv', OwedInv, CloseFile
  PROVE  OwedInv'
<1> DEFINE theirs == repo[target]
           clashes == Clashes(pristine[view.base.text], disk, theirs)
           merged == IF clashes # {} /\ op = "commit" THEN theirs
                     ELSE Merge(pristine[view.base.text], disk, theirs)
           item == IF modified THEN merged ELSE None
<1>1. Committed' = Committed
  BY DEF CloseFile, Committed
<1>2. owed \subseteq Marks(disk) \cup Committed
  BY MarksOfNone DEF OwedInv, CloseFile
<1>3. owed \subseteq Marks(item) \cup Committed
  <2>1. CASE ~modified \/ op = "commit"
    BY <2>1 DEF OwedInv, CloseFile
  <2>2. CASE modified /\ op # "commit"
    <3>1. disk \in Text /\ theirs \in Text
      BY <2>2, Revisions DEF CloseFile, IndInv, TypeOK
    <3>2. item = Merge(pristine[view.base.text], disk, theirs)
      BY <2>2
    <3>3. Marks(disk) \subseteq Marks(item) \cup Marks(pristine[view.base.text])
      BY <3>1, <3>2, Rows, MergeKeeps
    <3> QED
      BY <1>2, <3>3, PristineCommitted
  <2> QED
    BY <2>1, <2>2
<1> HIDE DEF item
<1>4. /\ view'.queue = Append(view.queue, item)
      /\ db'.queue = db.queue
  <2>1. open
    BY DEF CloseFile, IndInv, Phases, Editing
  <2> QED
    BY <2>1, Rows DEF CloseFile, Write, item, Database
<1>5. ItemsKeep(view.queue)'
  <2>1. \A i \in DOMAIN view'.queue : view'.queue[i] = item \/ (i \in DOMAIN view.queue /\ view'.queue[i] = view.queue[i])
    BY <1>4, Rows
  <2>2. owed' = owed
    BY DEF CloseFile, history
  <2> QED
    BY <1>1, <1>3, <2>1, <2>2 DEF OwedInv, ItemsKeep
<1> QED
  BY <1>1, <1>4, <1>5 DEF CloseFile, OwedInv, ItemsKeep, Editing, Goto, files, history

LEMMA RemoveTargetOwed ==
  ASSUME IndInv, OwedInv, RemoveTarget
  PROVE  OwedInv'
<1>1. Committed' = Committed
  BY DEF RemoveTarget, Committed
<1>2. owed \subseteq Marks(install') \cup Committed
  <2>1. 1 \in DOMAIN view.queue /\ Head(view.queue) = view.queue[1]
    BY Rows DEF RemoveTarget
  <2>2. owed \subseteq Marks(Head(view.queue)) \cup Committed
    BY <2>1 DEF OwedInv, ItemsKeep
  <2>3. CASE Head(view.queue) = None
    BY <2>2, <2>3, MarksOfNone
  <2>4. CASE Head(view.queue) # None
    BY <2>2, <2>4 DEF RemoveTarget
  <2> QED
    BY <2>3, <2>4
<1>3. db'.queue = db.queue /\ view'.queue = view.queue
  BY Rows DEF RemoveTarget, PutFile, Database
<1> QED
  BY <1>1, <1>2, <1>3 DEF RemoveTarget, PutFile, OwedInv, ItemsKeep, Editing, Goto, history

LEMMA RenameIntoPlaceOwed ==
  ASSUME IndInv, OwedInv, RenameIntoPlace
  PROVE  OwedInv'
<1>1. Committed' = Committed /\ owed' = owed
  BY DEF RenameIntoPlace, Committed, history
<1>2. db'.queue = db.queue /\ view'.queue = view.queue /\ disk' = install /\ install' = None
  BY Rows DEF RenameIntoPlace, PutFile, Database
<1>3. owed \subseteq Marks(install) \cup Committed
  BY MarksOfNone DEF RenameIntoPlace, OwedInv
<1>4. pc' = "renamed" /\ op' = op /\ pc = "removed" /\ ItemsKeep(db.queue)' /\ ItemsKeep(view.queue)'
  BY <1>1, <1>2 DEF RenameIntoPlace, OwedInv, ItemsKeep, Goto
<1> QED
  BY <1>1, <1>2, <1>3, <1>4 DEF OwedInv, Editing

LEMMA DeleteItemOwed ==
  ASSUME IndInv, OwedInv, DeleteItem
  PROVE  OwedInv'
<1>1. Committed' = Committed /\ owed' = owed
  BY DEF DeleteItem, Committed, history
<1>2. view'.queue = Tail(view.queue) /\ (db'.queue = db.queue \/ db'.queue = view'.queue)
  BY Rows DEF DeleteItem, Write, Database
<1>3. view.queue # <<>>
  BY DEF DeleteItem, IndInv, Phases
<1>4. \A i \in DOMAIN Tail(view.queue) :
        i + 1 \in DOMAIN view.queue /\ Tail(view.queue)[i] = view.queue[i + 1]
  BY <1>3, Rows
<1>5. ItemsKeep(db.queue)' /\ ItemsKeep(view.queue)'
  BY <1>1, <1>2, <1>4 DEF OwedInv, ItemsKeep
<1> QED
  BY <1>1, <1>5 DEF DeleteItem, OwedInv, Editing, Goto, files, locals

LEMMA EnqueueInstallOwed ==
  ASSUME IndInv, OwedInv, EnqueueInstall
  PROVE  OwedInv'
<1>1. Committed' = Committed /\ owed' = owed /\ owed \subseteq Committed
  BY DEF EnqueueInstall, Committed, OwedInv, history
<1>2. view'.queue = Append(view.queue, None) /\ (db'.queue = db.queue \/ db'.queue = view'.queue)
  BY Rows DEF EnqueueInstall, Write, Database
<1>3. ItemsKeep(db.queue)' /\ ItemsKeep(view.queue)'
  BY <1>1, <1>2 DEF OwedInv, ItemsKeep
<1> QED
  BY <1>1, <1>3 DEF EnqueueInstall, OwedInv, Editing, Goto, files

LEMMA CommitEditOwed ==
  ASSUME IndInv, OwedInv, CommitEdit
  PROVE  OwedInv'
<1>1. Committed' = Committed \cup Marks(work)
  BY CommittedGrows DEF CommitEdit, IndInv, BaseRows
<1>2. owed \subseteq Marks(work) \cup Committed
  BY DEF CommitEdit, OwedInv
<1> QED
  BY <1>1, <1>2 DEF CommitEdit, OwedInv, ItemsKeep, Editing, Goto, files, wcdb, history

LEMMA HarvestOwed ==
  ASSUME IndInv, OwedInv, Harvest
  PROVE  OwedInv'
<1>1. Committed' = Committed /\ install = None /\ work' = disk
  BY DEF Harvest, Committed, OwedInv, IndInv, Phases
<1> QED
  BY <1>1, MarksOfNone DEF Harvest, OwedInv, ItemsKeep, Editing, files, wcdb, history

LEMMA InterruptOwed ==
  ASSUME IndInv, OwedInv, Interrupt
  PROVE  OwedInv'
<1>1. Committed' = Committed /\ owed' = owed \ Marks(install)
  BY DEF Interrupt, Committed
<1>2. UNCHANGED <<disk, db>> /\ view' = db /\ op' = "idle" /\ pc' = "idle" /\ install' = None
  BY DEF Interrupt, Return, files
<1> QED
  BY <1>1, <1>2 DEF OwedInv, ItemsKeep, Editing

\* Rows whose queue an action leaves as it is.
LEMMA SameQueues ==
  ASSUME IndInv,
         \/ RecordFileInfo \/ PreparePostCommit \/ BeginRevert \/ Resolve \/ VacuumRow
         \/ FinalizeCommittedMetadata
  PROVE  view'.queue = view.queue /\ (db'.queue = db.queue \/ db'.queue = view.queue)
BY Rows DEF RecordFileInfo, PreparePostCommit, BeginRevert, Resolve, VacuumRow,
            FinalizeCommittedMetadata, Write, Database

\* The actions that change none of the texts and none of the queues.
LEMMA OtherOwed ==
  ASSUME IndInv, OwedInv,
         \/ \E r \in DOMAIN repo : BeginUpdate(r)
         \/ InstallPristine \/ CopyPristine \/ CommitUpdate \/ QueueEmpty
         \/ CommitRefused \/ BeginPostCommitUpdate
         \/ BeginCleanup \/ (\E t \in view.rows : VacuumFile(t)) \/ EndCleanup
         \/ RecordFileInfo \/ PreparePostCommit \/ BeginRevert \/ Resolve \/ VacuumRow
         \/ FinalizeCommittedMetadata
  PROVE  OwedInv'
<1>1. Committed' = Committed
  BY DEF Committed, BeginUpdate, InstallPristine, CopyPristine, CommitUpdate, QueueEmpty,
         CommitRefused, BeginPostCommitUpdate, BeginCleanup, VacuumFile, EndCleanup,
         RecordFileInfo, PreparePostCommit, BeginRevert, Resolve, VacuumRow,
         FinalizeCommittedMetadata
<1>2. CASE \E r \in DOMAIN repo : BeginUpdate(r)
  BY <1>1, <1>2 DEF BeginUpdate, OwedInv, ItemsKeep, IndInv, Phases, Editing, files, history
<1>3. CASE InstallPristine \/ CopyPristine
  BY <1>1, <1>3 DEF InstallPristine, CopyPristine, OwedInv, ItemsKeep, Editing, Goto, wcdb, locals, history
<1>4. CASE CommitUpdate \/ QueueEmpty \/ CommitRefused
  BY <1>1, <1>4 DEF CommitUpdate, QueueEmpty, CommitRefused, OwedInv, ItemsKeep, Editing, Goto,
                    Return, files, wcdb, locals, history
<1>5. CASE BeginPostCommitUpdate \/ BeginCleanup \/ EndCleanup \/ \E t \in view.rows : VacuumFile(t)
  <2>1. CASE BeginPostCommitUpdate
    BY <1>1, <2>1 DEF BeginPostCommitUpdate, OwedInv, ItemsKeep, IndInv, Phases, Editing, Running,
                      Goto, files, locals, history
  <2>2. CASE BeginCleanup \/ EndCleanup
    BY <1>1, <2>2 DEF BeginCleanup, EndCleanup, OwedInv, ItemsKeep, IndInv, Phases, Editing,
                      Return, files, wcdb, locals, history
  <2>3. CASE \E t \in view.rows : VacuumFile(t)
    BY <1>1, <2>3 DEF VacuumFile, OwedInv, ItemsKeep, Editing, Goto, wcdb, history
  <2> QED
    BY <1>5, <2>1, <2>2, <2>3
<1>6. CASE RecordFileInfo \/ PreparePostCommit \/ Resolve \/ VacuumRow \/ FinalizeCommittedMetadata
  <2>1. ItemsKeep(db.queue)' /\ ItemsKeep(view.queue)'
    BY <1>1, <1>6, SameQueues
       DEF RecordFileInfo, PreparePostCommit, Resolve, VacuumRow, FinalizeCommittedMetadata,
           OwedInv, ItemsKeep, history
  <2> QED
    BY <1>1, <1>6, <2>1
       DEF RecordFileInfo, PreparePostCommit, Resolve, VacuumRow, FinalizeCommittedMetadata,
           OwedInv, IndInv, Phases, Editing, Goto, files, locals, history
<1>7. CASE BeginRevert
  BY <1>1, <1>7 DEF BeginRevert, OwedInv, ItemsKeep, IndInv, Phases, Editing, files, locals
<1> QED
  BY <1>2, <1>3, <1>4, <1>5, <1>6, <1>7
LEMMA OwedInit == Init => OwedInv
<1> SUFFICES ASSUME Init PROVE OwedInv
  OBVIOUS
<1>1. /\ owed = {} /\ install = None /\ pc = "idle" /\ op = "idle"
      /\ db.queue = <<>> /\ view.queue = <<>>
  BY DEF Init
<1> QED
  BY <1>1 DEF OwedInv, ItemsKeep, Editing

LEMMA OwedStep == IndInv /\ IndInv' /\ OwedInv /\ [Next]_vars => OwedInv'
<1> SUFFICES ASSUME IndInv, IndInv', OwedInv, [Next]_vars PROVE OwedInv'
  OBVIOUS
<1>1. CASE \E l \in Lines : UserSave(l) \/ OtherCommits(l)
  BY <1>1, UserSaveOwed, OtherCommitsOwed
<1>2. CASE \E r \in DOMAIN repo : BeginUpdate(r)
  BY <1>2, OtherOwed
<1>3. CASE UpdateStep
  BY <1>3, OpenFileOwed, CloseFileOwed, OtherOwed DEF UpdateStep
<1>4. CASE QueueStep
  BY <1>4, RemoveTargetOwed, RenameIntoPlaceOwed, DeleteItemOwed, OtherOwed DEF QueueStep
<1>5. CASE CommitStep
  BY <1>5, HarvestOwed, CommitEditOwed, EnqueueInstallOwed, OtherOwed DEF CommitStep
<1>6. CASE CleanupStep
  BY <1>6, OtherOwed DEF CleanupStep
<1>7. CASE BeginRevert \/ Resolve \/ Interrupt
  BY <1>7, InterruptOwed, OtherOwed
<1>8. CASE UNCHANGED vars
  BY <1>8 DEF OwedInv, ItemsKeep, Committed, vars, files, wcdb, locals, history
<1> QED
  BY <1>1, <1>2, <1>3, <1>4, <1>5, <1>6, <1>7, <1>8 DEF Next

-----------------------------------------------------------------------------
\* An edit the user saved before an operation looked at the file is in the
\* file, in the file about to be renamed into its place, or in a revision,
\* until the user saves over it or reverts: whatever updates, commits and
\* cleanups run, in whatever order their steps fail or die, and whatever work
\* items they leave behind for a later operation to run.
THEOREM EditsKept == Spec => []UserTextKept
<1>1. OwedInv => UserTextKept
  BY DEF OwedInv, UserTextKept, Committed
<1> QED
  BY <1>1, Invariance, OwedInit, OwedStep, PTL DEF Spec
=============================================================================
