--------------------------- MODULE WcRevertProofs ---------------------------
(***************************************************************************)
(* Proofs about WcFile: a commit takes back nothing its author did not     *)
(* touch.  The argument follows every text that is in the file or will be  *)
(* put there, and shows that its lines are those of BASE, edits of the     *)
(* user's, or lines an interruption left (Honest).                         *)
(***************************************************************************)
EXTENDS WcFileProofs

\* Excused, of the lines in X.
ExcusedBy(x, X) == x \in X \/ \E y \in X \ {{}} : y \subseteq x

\* Each line of t is that of base, of base's pristine file, or shows an edit
\* not among seen, but for lines excused by X.
HonestBy(t, base, file, seen, X) ==
  \A l \in Lines : t[l] = base[l] \/ t[l] = file[l] \/ t[l] \ seen # {} \/ ExcusedBy(t[l], X)

Honest(t) == HonestBy(t, view.base.text, pristine[view.base.text], Committed, excused)

-----------------------------------------------------------------------------
\* The marks in use: no revision or save to come has one of them.
Used == (1 - Len(repo)) .. saves

\* Only marks in use are anywhere, and the work items wc.db has committed
\* install pristines.
MarksInv ==
  /\ Committed \subseteq Used
  /\ Marks(disk) \subseteq Used /\ Marks(install) \subseteq Used
  /\ pc = "harvested" => Marks(work) \subseteq Used
  /\ \A i \in DOMAIN view.queue : Marks(view.queue[i]) \subseteq Used
  /\ \A i \in DOMAIN db.queue : db.queue[i] = None

\* A pristine that is not its text is being copied, or was left so and its
\* lines are excused.
TornInv ==
  /\ \A t \in DOMAIN pristine :
        \/ pristine[t] = t
        \/ pc = "copy" /\ t = repo[target]
        \/ LinesOf(t) \subseteq excused
  /\ pc = "copy" => repo[target] # view.base.text

-----------------------------------------------------------------------------
\* The commit is made and BASE not yet bumped.
Unbumped == op = "commit" /\ pc \in {"committed", "prepared"} \cup Editing

\* The file is about to be replaced.
Doomed ==
  \/ pc = "run" /\ view.queue # <<>>
  \/ op = "revert" /\ pc = "enqueue"

\* While a commit runs, the file is what was harvested but for later saves.
HarvestKept ==
  /\ pc = "harvested" \/ Unbumped =>
        disk # None /\ \A l \in Lines : \/ disk[l] = work[l]
                                        \/ disk[l] \ (Committed \cup Marks(work)) # {}
  /\ pc = "harvested" => Honest(work)
  /\ (op = "commit" /\ open /\ pc \in Running) \/ pc = "finalize" => view.base.text = work

\* What is in the file or will be put there is honest unless a conflict is
\* recorded, which no commit passes.
HonestInv ==
  /\ \A i \in DOMAIN view.queue :
        view.queue[i] # None => view.conflict \/ Honest(view.queue[i])
  /\ install # None => view.conflict \/ Honest(install)
  /\ disk # None /\ ~Doomed /\ ~Unbumped => view.conflict \/ Honest(disk)
  /\ HarvestKept
  /\ NoSilentRevert

-----------------------------------------------------------------------------
(***************************************************************************)
(* MarksInv is invariant.                                                  *)
(***************************************************************************)
\* A save takes a mark that is not in use.
LEMMA SaveMarks ==
  ASSUME IndInv, MarksInv, NEW l \in Lines, UserSave(l)
  PROVE  /\ disk \in Text /\ disk' = [disk EXCEPT ![l] = {saves + 1}]
         /\ UNCHANGED <<repo, op, pc, target, modified, work, install, open, pristine, excused>>
         /\ Committed' = Committed
         /\ view'.queue = view.queue /\ db'.queue = db.queue
         /\ view'.base = view.base /\ view'.conflict = view.conflict
         /\ saves + 1 \notin Used /\ Used' = Used \cup {saves + 1}
         /\ disk' \in Text /\ Marks(disk') \subseteq Marks(disk) \cup {saves + 1}
<1>1. /\ disk \in Text /\ disk' = [disk EXCEPT ![l] = {saves + 1}] /\ saves' = saves + 1
      /\ UNCHANGED <<repo, op, pc, target, modified, work, install, open, pristine, excused>>
      /\ saves \in Nat /\ Len(repo) \in Nat \ {0}
  BY Constants DEF UserSave, PutFile, IndInv, TypeOK, locals
<1>2. /\ view'.queue = view.queue /\ db'.queue = db.queue
      /\ view'.base = view.base /\ view'.conflict = view.conflict
  BY Rows DEF UserSave, PutFile, Database
<1>3. saves + 1 \notin Used /\ Used' = Used \cup {saves + 1}
  BY <1>1 DEF Used
<1>4. Committed' = Committed
  BY <1>1 DEF Committed
<1>5. disk' \in Text /\ Marks(disk') \subseteq Marks(disk) \cup {saves + 1}
  <2>1. disk' \in Text
    BY <1>1, Constants DEF Text, Mark, UserSave, IndInv, TypeOK
  <2>2. \A k \in Lines : disk'[k] \subseteq disk[k] \cup {saves + 1}
    BY <1>1 DEF Text
  <2> QED
    BY <1>1, <2>1, <2>2, MarksOfText
<1> QED
  BY <1>1, <1>2, <1>3, <1>4, <1>5

\* So does the revision of another committer.
LEMMA OtherCommitsMarks ==
  ASSUME IndInv, MarksInv, NEW l \in Lines, OtherCommits(l)
  PROVE  /\ UNCHANGED <<disk, pristine, view, db, open, op, pc, target, work, install, saves, excused>>
         /\ -Len(repo) \notin Used /\ Used' = Used \cup {-Len(repo)}
         /\ Committed' \subseteq Committed \cup {-Len(repo)} /\ Committed \subseteq Committed'
<1>1. [repo[Len(repo)] EXCEPT ![l] = {-Len(repo)}] \in Text /\ repo[Len(repo)] \in Text
  <2>1. repo[Len(repo)] \in Text /\ -Len(repo) \in Mark
    BY Constants, Revisions DEF IndInv, Mark, OtherCommits, TypeOK
  <2> QED
    BY <2>1 DEF Text
<1>2. Len(repo) \in Nat \ {0} /\ Len(repo') = Len(repo) + 1 /\ saves \in Nat
  BY <1>1 DEF OtherCommits, IndInv, TypeOK
<1>3. UNCHANGED <<disk, pristine, view, db, open, op, pc, target, work, install, saves, excused>>
  BY DEF OtherCommits, files, wcdb, locals, history
<1>4. -Len(repo) \notin Used /\ Used' = Used \cup {-Len(repo)}
  BY <1>2, <1>3 DEF Used
<1>5. Committed' = Committed \cup Marks([repo[Len(repo)] EXCEPT ![l] = {-Len(repo)}])
  BY <1>1, CommittedGrows DEF OtherCommits
<1>6. Marks([repo[Len(repo)] EXCEPT ![l] = {-Len(repo)}]) \subseteq Marks(repo[Len(repo)]) \cup {-Len(repo)}
  <2>1. \A k \in Lines : [repo[Len(repo)] EXCEPT ![l] = {-Len(repo)}][k] \subseteq repo[Len(repo)][k] \cup {-Len(repo)}
    BY <1>1 DEF Text
  <2> QED
    BY <1>1, <2>1, MarksOfText
<1>7. Marks(repo[Len(repo)]) \subseteq Committed
  BY <1>2, Revisions DEF Committed, IndInv
<1> QED
  BY <1>3, <1>4, <1>5, <1>6, <1>7

LEMMA CommitEditMarks ==
  ASSUME IndInv, MarksInv, CommitEdit
  PROVE  MarksInv'
<1>1. Committed' = Committed \cup Marks(work)
  BY CommittedGrows DEF CommitEdit, IndInv, BaseRows
<1>2. Used \subseteq Used'
  <2>1. Len(repo) \in Nat /\ Len(repo') = Len(repo) + 1 /\ saves' = saves /\ saves \in Nat
    BY DEF CommitEdit, IndInv, TypeOK, BaseRows, history
  <2> QED
    BY <2>1 DEF Used
<1> QED
  BY <1>1, <1>2 DEF CommitEdit, MarksInv, files, wcdb, Goto

\* Actions that make neither a mark nor a revision.
LEMMA SameUsed ==
  ASSUME UNCHANGED <<repo, saves>>
  PROVE  Used' = Used /\ Committed' = Committed
BY DEF Used, Committed

LEMMA CloseFileMarks ==
  ASSUME IndInv, MarksInv, CloseFile
  PROVE  MarksInv'
<1> DEFINE theirs == repo[target]
           clashes == Clashes(pristine[view.base.text], disk, theirs)
           merged == IF clashes # {} /\ op = "commit" THEN theirs
                     ELSE Merge(pristine[view.base.text], disk, theirs)
           item == IF modified THEN merged ELSE None
<1>1. Used' = Used /\ Committed' = Committed
  BY SameUsed DEF CloseFile, history
<1>2. Marks(item) \subseteq Used
  <2>1. theirs \in Text /\ Marks(theirs) \subseteq Committed
    BY Revisions DEF IndInv, Committed
  <2>2. CASE ~modified
    BY <2>2, MarksOfNone
  <2>3. CASE modified
    <3>1. disk \in Text
      BY <2>3 DEF CloseFile, IndInv, TypeOK
    <3>2. Marks(Merge(pristine[view.base.text], disk, theirs))
            \subseteq Marks(pristine[view.base.text]) \cup Marks(disk) \cup Marks(theirs)
      BY <2>1, <3>1, Rows, MergeKeeps
    <3> QED
      BY <2>1, <2>3, <3>2, PristineCommitted DEF MarksInv
  <2> QED
    BY <2>2, <2>3
<1> HIDE DEF item
<1>3. view'.queue = Append(view.queue, item) /\ db'.queue = db.queue
  <2>1. open
    BY DEF CloseFile, IndInv, Phases, Editing
  <2> QED
    BY <2>1, Rows DEF CloseFile, Write, item, Database
<1>4. \A i \in DOMAIN view'.queue :
        view'.queue[i] = item \/ (i \in DOMAIN view.queue /\ view'.queue[i] = view.queue[i])
  BY <1>3, Rows
<1> QED
  BY <1>1, <1>2, <1>3, <1>4 DEF CloseFile, MarksInv, Goto, files

LEMMA RemoveTargetMarks ==
  ASSUME IndInv, MarksInv, RemoveTarget
  PROVE  MarksInv'
<1>1. Used' = Used /\ Committed' = Committed
  BY SameUsed DEF RemoveTarget, history
<1>2. Marks(install') \subseteq Used
  <2>1. 1 \in DOMAIN view.queue /\ Head(view.queue) = view.queue[1]
    BY Rows DEF RemoveTarget
  <2> QED
    BY <2>1, PristineCommitted DEF RemoveTarget, MarksInv
<1>3. db'.queue = db.queue /\ view'.queue = view.queue /\ disk' = None
  BY Rows DEF RemoveTarget, PutFile, Database
<1> QED
  BY <1>1, <1>2, <1>3, MarksOfNone DEF RemoveTarget, MarksInv, Goto

LEMMA RenameIntoPlaceMarks ==
  ASSUME IndInv, MarksInv, RenameIntoPlace
  PROVE  MarksInv'
<1>1. Used' = Used /\ Committed' = Committed
  BY SameUsed DEF RenameIntoPlace, history
<1>2. db'.queue = db.queue /\ view'.queue = view.queue /\ disk' = install /\ install' = None
  BY Rows DEF RenameIntoPlace, PutFile, Database
<1> QED
  BY <1>1, <1>2, MarksOfNone DEF RenameIntoPlace, MarksInv, Goto

LEMMA DeleteItemMarks ==
  ASSUME IndInv, MarksInv, DeleteItem
  PROVE  MarksInv'
<1>1. Used' = Used /\ Committed' = Committed
  BY SameUsed DEF DeleteItem, history
<1>2. /\ view'.queue = Tail(view.queue)
      /\ \/ open /\ db'.queue = db.queue
         \/ ~open /\ db'.queue = view'.queue
  BY Rows DEF DeleteItem, Write, Database
<1>3. view.queue # <<>>
  BY DEF DeleteItem, IndInv, Phases
<1>4. \A i \in DOMAIN Tail(view.queue) :
        i + 1 \in DOMAIN view.queue /\ Tail(view.queue)[i] = view.queue[i + 1]
  BY <1>3, Rows
<1>5. ~open => db = view
  BY DEF IndInv, Phases
<1>6. \A i \in DOMAIN db'.queue : db'.queue[i] = None
  BY <1>2, <1>4, <1>5 DEF MarksInv
<1> QED
  BY <1>1, <1>2, <1>4, <1>6 DEF DeleteItem, MarksInv, Goto, files, locals

LEMMA EnqueueInstallMarks ==
  ASSUME IndInv, MarksInv, EnqueueInstall
  PROVE  MarksInv'
<1>1. Used' = Used /\ Committed' = Committed
  BY SameUsed DEF EnqueueInstall, history
<1>2. /\ view'.queue = Append(view.queue, None)
      /\ \/ open /\ db'.queue = db.queue
         \/ ~open /\ db'.queue = view'.queue
  BY Rows DEF EnqueueInstall, Write, Database
<1>3. \A i \in DOMAIN view'.queue :
        view'.queue[i] = None \/ (i \in DOMAIN view.queue /\ view'.queue[i] = view.queue[i])
  BY <1>2, Rows
<1>4. ~open => db = view
  BY DEF IndInv, Phases
<1>5. \A i \in DOMAIN db'.queue : db'.queue[i] = None
  BY <1>2, <1>3, <1>4 DEF MarksInv
<1> QED
  BY <1>1, <1>2, <1>3, <1>5, MarksOfNone DEF EnqueueInstall, MarksInv, Goto, files

LEMMA InterruptMarks ==
  ASSUME IndInv, MarksInv, Interrupt
  PROVE  MarksInv'
<1>1. Used' = Used /\ Committed' = Committed
  BY SameUsed DEF Interrupt
<1>2. UNCHANGED <<disk, db>> /\ view' = db /\ pc' = "idle" /\ install' = None
  BY DEF Interrupt, Return, files
<1> QED
  BY <1>1, <1>2, MarksOfNone DEF MarksInv

LEMMA OtherMarks ==
  ASSUME IndInv, MarksInv,
         \/ \E r \in DOMAIN repo : BeginUpdate(r)
         \/ OpenFile \/ InstallPristine \/ CopyPristine \/ CommitUpdate \/ QueueEmpty
         \/ Harvest \/ CommitRefused \/ BeginPostCommitUpdate
         \/ BeginCleanup \/ (\E t \in view.rows : VacuumFile(t)) \/ EndCleanup
         \/ RecordFileInfo \/ PreparePostCommit \/ BeginRevert \/ Resolve \/ VacuumRow
         \/ FinalizeCommittedMetadata
  PROVE  MarksInv'
<1>1. UNCHANGED <<repo, saves>>
  BY DEF BeginUpdate, OpenFile, InstallPristine, CopyPristine, CommitUpdate, QueueEmpty,
         Harvest, CommitRefused, BeginPostCommitUpdate, BeginCleanup, VacuumFile, EndCleanup,
         RecordFileInfo, PreparePostCommit, BeginRevert, Resolve, VacuumRow,
         FinalizeCommittedMetadata, history
<1>2. Used' = Used /\ Committed' = Committed
  BY <1>1, SameUsed
<1>3. CASE \/ \E r \in DOMAIN repo : BeginUpdate(r)
           \/ OpenFile \/ InstallPristine \/ CopyPristine
  BY <1>2, <1>3 DEF BeginUpdate, OpenFile, InstallPristine, CopyPristine, MarksInv, Goto, files,
                    wcdb, locals
<1>4. CASE CommitUpdate \/ QueueEmpty \/ CommitRefused
  BY <1>2, <1>4, MarksOfNone DEF CommitUpdate, QueueEmpty, CommitRefused, MarksInv, Goto, Return,
                                 files, wcdb, locals
<1>5. CASE Harvest \/ BeginPostCommitUpdate \/ BeginCleanup
  BY <1>2, <1>5 DEF Harvest, BeginPostCommitUpdate, BeginCleanup, MarksInv, Goto, files, wcdb, locals
<1>6. CASE EndCleanup \/ \E t \in view.rows : VacuumFile(t)
  BY <1>2, <1>6, MarksOfNone DEF EndCleanup, VacuumFile, MarksInv, Goto, Return, files, wcdb
<1>7. CASE RecordFileInfo \/ PreparePostCommit \/ BeginRevert \/ Resolve \/ VacuumRow
           \/ FinalizeCommittedMetadata
  <2>1. /\ view'.queue = view.queue
        /\ \/ open /\ db'.queue = db.queue
           \/ ~open /\ db'.queue = view.queue
    BY <1>7, Rows DEF RecordFileInfo, PreparePostCommit, BeginRevert, Resolve, VacuumRow,
                      FinalizeCommittedMetadata, Write, Database
  <2>2. db'.queue = db.queue
    BY <2>1 DEF IndInv, Phases
  <2>3. UNCHANGED <<disk, install>> /\ (pc' = "harvested" => pc = "harvested" /\ work' = work)
    BY <1>7 DEF RecordFileInfo, PreparePostCommit, BeginRevert, Resolve, VacuumRow,
                FinalizeCommittedMetadata, Goto, files, locals
  <2> QED
    BY <1>2, <2>1, <2>2, <2>3 DEF MarksInv
<1> QED
  BY <1>3, <1>4, <1>5, <1>6, <1>7

LEMMA MarksInit == Init => MarksInv
<1> SUFFICES ASSUME Init PROVE MarksInv
  OBVIOUS
<1> DEFINE first == [l \in Lines |-> {0}]
<1>1. repo = <<first>> /\ DOMAIN repo = {1} /\ repo[1] = first /\ Len(repo) = 1 /\ saves = 0
  BY DEF Init
<1>2. Marks(first) \subseteq {0}
  <2>1. first \in Text
    BY Constants DEF Text, Mark
  <2> QED
    BY <2>1, MarksOfText
<1>3. Used = {0}
  BY <1>1 DEF Used
<1>4. Committed \subseteq {0}
  BY <1>1, <1>2 DEF Committed
<1>5. disk = first /\ install = None /\ pc = "idle" /\ db.queue = <<>> /\ view.queue = <<>>
  BY DEF Init
<1>6. DOMAIN db.queue = {} /\ DOMAIN view.queue = {}
  BY <1>5
<1> HIDE DEF first
<1> QED
  BY <1>2, <1>3, <1>4, <1>5, <1>6, MarksOfNone DEF MarksInv

LEMMA MarksStep == IndInv /\ MarksInv /\ [Next]_vars => MarksInv'
<1> SUFFICES ASSUME IndInv, MarksInv, [Next]_vars PROVE MarksInv'
  OBVIOUS
<1>1. ASSUME NEW l \in Lines, UserSave(l)
      PROVE  MarksInv'
  BY <1>1, SaveMarks DEF MarksInv
<1>2. ASSUME NEW l \in Lines, OtherCommits(l)
      PROVE  MarksInv'
  BY <1>2, OtherCommitsMarks DEF MarksInv
<1>3. CASE \E r \in DOMAIN repo : BeginUpdate(r)
  BY <1>3, OtherMarks
<1>4. CASE UpdateStep
  BY <1>4, CloseFileMarks, OtherMarks DEF UpdateStep
<1>5. CASE QueueStep
  BY <1>5, RemoveTargetMarks, RenameIntoPlaceMarks, DeleteItemMarks, OtherMarks DEF QueueStep
<1>6. CASE CommitStep
  BY <1>6, CommitEditMarks, EnqueueInstallMarks, OtherMarks DEF CommitStep
<1>7. CASE CleanupStep
  BY <1>7, OtherMarks DEF CleanupStep
<1>8. CASE BeginRevert \/ Resolve \/ Interrupt
  BY <1>8, InterruptMarks, OtherMarks
<1>9. CASE UNCHANGED vars
  <2>1. Used' = Used /\ Committed' = Committed
    BY <1>9, SameUsed DEF vars, history
  <2> QED
    BY <1>9, <2>1 DEF MarksInv, vars, files, wcdb, locals
<1> QED
  BY <1>1, <1>2, <1>3, <1>4, <1>5, <1>6, <1>7, <1>8, <1>9 DEF Next

-----------------------------------------------------------------------------
(***************************************************************************)
(* TornInv is invariant.                                                   *)
(***************************************************************************)
LEMMA InstallPristineTorn ==
  ASSUME IndInv, TornInv, InstallPristine
  PROVE  TornInv'
<1>1. UNCHANGED <<repo, view, target, excused>> /\ pc = "pristine"
  BY DEF InstallPristine, wcdb, locals, history
<1>2. CASE repo[target] \in DOMAIN pristine
  BY <1>1, <1>2 DEF InstallPristine, TornInv, Goto
<1>3. CASE repo[target] \notin DOMAIN pristine
  <2>1. /\ DOMAIN pristine' = DOMAIN pristine \cup {repo[target]} /\ pc' = "copy"
        /\ \A t \in DOMAIN pristine : pristine'[t] = pristine[t]
    BY <1>3 DEF InstallPristine, Goto
  <2>2. repo[target] # view.base.text
    BY <1>3 DEF IndInv, PristineFiles
  <2> QED
    BY <1>1, <2>1, <2>2 DEF TornInv
<1> QED
  BY <1>2, <1>3

LEMMA CopyPristineTorn ==
  ASSUME IndInv, TornInv, CopyPristine
  PROVE  TornInv'
<1>1. /\ UNCHANGED <<repo, view, target, excused>> /\ pc' = "close"
      /\ DOMAIN pristine' = DOMAIN pristine
      /\ \A t \in DOMAIN pristine : pristine'[t] = IF t = repo[target] THEN t ELSE pristine[t]
  BY DEF CopyPristine, Goto, wcdb, locals, history
<1> QED
  BY <1>1 DEF TornInv

LEMMA FinalizeTorn ==
  ASSUME IndInv, TornInv, FinalizeCommittedMetadata
  PROVE  TornInv'
<1>1. /\ UNCHANGED excused /\ pc = "finalize" /\ pc' = "enqueue"
      /\ \A t \in DOMAIN pristine' :
           \/ t \in DOMAIN pristine /\ pristine'[t] = pristine[t]
           \/ pristine'[t] = t
  BY DEF FinalizeCommittedMetadata, Goto, history
<1> QED
  BY <1>1 DEF TornInv

LEMMA VacuumFileTorn ==
  ASSUME IndInv, TornInv, NEW t \in view.rows, VacuumFile(t)
  PROVE  TornInv'
<1>1. /\ UNCHANGED excused /\ pc = "vacuum" /\ pc' = "vacuumed"
      /\ \A s \in DOMAIN pristine' : s \in DOMAIN pristine /\ pristine'[s] = pristine[s]
  BY DEF VacuumFile, Goto, history, Restrict
<1> QED
  BY <1>1 DEF TornInv

LEMMA InterruptTorn ==
  ASSUME IndInv, TornInv, Interrupt
  PROVE  TornInv'
<1>1. UNCHANGED pristine /\ pc' = "idle"
  BY DEF Interrupt, Return, files
<1>2. /\ excused \subseteq excused'
      /\ pc = "copy" => LinesOf(repo[target]) \subseteq excused'
  BY DEF Interrupt
<1> QED
  BY <1>1, <1>2 DEF TornInv

LEMMA OtherCommitsTorn ==
  ASSUME IndInv, MarksInv, TornInv, NEW l \in Lines, OtherCommits(l)
  PROVE  TornInv'
<1>1. UNCHANGED <<pristine, view, pc, target, excused>>
  BY OtherCommitsMarks
<1>2. repo'[target] = repo[target]
  BY Revisions DEF OtherCommits, IndInv, TypeOK
<1> QED
  BY <1>1, <1>2 DEF TornInv

\* The other actions leave the pristine files, and copy none.
LEMMA OtherTorn ==
  ASSUME TornInv, pc # "copy", pc' # "copy", UNCHANGED <<pristine, excused>>
  PROVE  TornInv'
BY DEF TornInv

LEMMA TornInit == Init => TornInv
<1> SUFFICES ASSUME Init PROVE TornInv
  OBVIOUS
<1>1. pc = "idle" /\ \A t \in DOMAIN pristine : pristine[t] = t
  BY DEF Init
<1> QED
  BY <1>1 DEF TornInv

LEMMA TornStep == IndInv /\ MarksInv /\ TornInv /\ [Next]_vars => TornInv'
<1> SUFFICES ASSUME IndInv, MarksInv, TornInv, [Next]_vars PROVE TornInv'
  OBVIOUS
<1>1. ASSUME NEW l \in Lines, UserSave(l)
      PROVE  TornInv'
  <2>1. UNCHANGED <<pristine, repo, target, pc, excused>> /\ view'.base = view.base
    BY <1>1, SaveMarks
  <2> QED
    BY <2>1 DEF TornInv
<1>2. ASSUME NEW l \in Lines, OtherCommits(l)
      PROVE  TornInv'
  BY <1>2, OtherCommitsTorn
<1>3. CASE \E r \in DOMAIN repo : BeginUpdate(r)
  BY <1>3, OtherTorn DEF BeginUpdate, IndInv, Phases, files, history
<1>4. CASE UpdateStep
  <2>1. CASE OpenFile
    BY <2>1, OtherTorn DEF OpenFile, Goto, files
  <2>2. CASE CloseFile
    BY <2>2, OtherTorn DEF CloseFile, Goto, files, history
  <2>3. CASE CommitUpdate
    BY <2>3, OtherTorn DEF CommitUpdate, Goto, Return, files, history
  <2> QED
    BY <1>4, <2>1, <2>2, <2>3, InstallPristineTorn, CopyPristineTorn DEF UpdateStep
<1>5. CASE QueueStep
  BY <1>5, OtherTorn DEF QueueStep, RemoveTarget, RenameIntoPlace, RecordFileInfo, DeleteItem,
     QueueEmpty, PutFile, Goto, Return, files, history
<1>6. CASE CommitStep
  <2>1. CASE Harvest
    BY <2>1, OtherTorn DEF Harvest, IndInv, Phases, files, history
  <2>2. CASE CommitEdit \/ CommitRefused \/ PreparePostCommit \/ BeginPostCommitUpdate \/ EnqueueInstall
    BY <2>2, OtherTorn DEF CommitEdit, CommitRefused, PreparePostCommit, BeginPostCommitUpdate,
       EnqueueInstall, Goto, Return, files, history
  <2> QED
    BY <1>6, <2>1, <2>2, FinalizeTorn DEF CommitStep
<1>7. CASE CleanupStep
  <2>1. CASE BeginCleanup \/ VacuumRow \/ EndCleanup
    BY <2>1, OtherTorn DEF BeginCleanup, VacuumRow, EndCleanup, IndInv, Phases, Goto, Return,
       files, history
  <2> QED
    BY <1>7, <2>1, VacuumFileTorn DEF CleanupStep
<1>8. CASE BeginRevert
  BY <1>8, OtherTorn DEF BeginRevert, IndInv, Phases, files
<1>9. CASE Resolve
  <2>1. pc = "idle" /\ pc' = "idle" /\ UNCHANGED pristine /\ excused \subseteq excused'
    BY <1>9 DEF Resolve, IndInv, Phases, files
  <2> QED
    BY <2>1 DEF TornInv
<1>10. CASE UNCHANGED vars
  BY <1>10 DEF TornInv, vars, files, wcdb, locals, history
<1> QED
  BY <1>1, <1>2, <1>3, <1>4, <1>5, <1>6, <1>7, <1>8, <1>9, <1>10, InterruptTorn DEF Next

-----------------------------------------------------------------------------
(***************************************************************************)
(* Honest texts.                                                           *)
(***************************************************************************)
LEMMA ExcusedIs == \A x : Excused(x) <=> ExcusedBy(x, excused)
BY DEF Excused, ExcusedBy

\* A text stays honest while more lines are excused and no mark of it becomes
\* one of those seen.
LEMMA HonestStays ==
  ASSUME NEW t \in Text, NEW b, NEW f, NEW seen, NEW seen2, NEW X, NEW X2,
         HonestBy(t, b, f, seen, X), seen2 \cap Marks(t) \subseteq seen, X \subseteq X2
  PROVE  HonestBy(t, b, f, seen2, X2)
<1> SUFFICES ASSUME NEW l \in Lines
             PROVE  t[l] = b[l] \/ t[l] = f[l] \/ t[l] \ seen2 # {} \/ ExcusedBy(t[l], X2)
  BY DEF HonestBy
<1>1. t[l] = b[l] \/ t[l] = f[l] \/ t[l] \ seen # {} \/ ExcusedBy(t[l], X)
  BY DEF HonestBy
<1>2. ExcusedBy(t[l], X) => ExcusedBy(t[l], X2)
  BY DEF ExcusedBy
<1>3. t[l] \subseteq Marks(t)
  BY MarksOfText
<1> QED
  BY <1>1, <1>2, <1>3

\* BASE, its pristine file, and a text whose lines are excused.
LEMMA HonestTexts ==
  ASSUME NEW t, NEW b, NEW f, NEW seen, NEW X
  PROVE  /\ HonestBy(b, b, f, seen, X) /\ HonestBy(f, b, f, seen, X)
         /\ t # None /\ LinesOf(t) \subseteq X => HonestBy(t, b, f, seen, X)
<1>1. \A l \in Lines : t # None => t[l] \in LinesOf(t)
  BY DEF LinesOf
<1> QED
  BY <1>1 DEF HonestBy, ExcusedBy

\* A save's new line is honest, the others are as they were.
LEMMA HonestSaved ==
  ASSUME NEW t \in Text, NEW b, NEW f, NEW seen, NEW X, NEW l \in Lines, NEW m,
         m \notin seen, HonestBy(t, b, f, seen, X)
  PROVE  HonestBy([t EXCEPT ![l] = {m}], b, f, seen, X)
<1>1. \A k \in Lines : [t EXCEPT ![l] = {m}][k] = IF k = l THEN {m} ELSE t[k]
  BY DEF Text
<1>2. {m} \ seen # {}
  OBVIOUS
<1> QED
  BY <1>1, <1>2 DEF HonestBy

\* What a merge without clash makes of an honest file is honest with respect
\* to the file's new base, also when the pristine it took for the old base was
\* not the old base's text, whose lines are then excused.
LEMMA HonestMerged ==
  ASSUME NEW b \in Text, NEW f \in Text, NEW mine \in Text, NEW theirs \in Text, NEW g,
         NEW seen, NEW X,
         f = b \/ LinesOf(b) \subseteq X,
         Clashes(f, mine, theirs) = {},
         HonestBy(mine, b, f, seen, X)
  PROVE  HonestBy(Merge(f, mine, theirs), theirs, g, seen, X)
<1> DEFINE m == Merge(f, mine, theirs)
<1> SUFFICES ASSUME NEW l \in Lines
             PROVE  m[l] = theirs[l] \/ m[l] \ seen # {} \/ ExcusedBy(m[l], X)
  BY DEF HonestBy
<1>1. m[l] = IF mine[l] = f[l] THEN theirs[l] ELSE mine[l]
  BY DEF Merge
<1>2. f = b \/ ExcusedBy(b[l], X)
  BY Constants DEF LinesOf, ExcusedBy
<1>3. mine[l] = b[l] \/ mine[l] = f[l] \/ mine[l] \ seen # {} \/ ExcusedBy(mine[l], X)
  BY DEF HonestBy
<1> QED
  BY <1>1, <1>2, <1>3

\* A merge of a file that is the new base but for new edits is honest too.
LEMMA HonestAhead ==
  ASSUME NEW f \in Text, NEW mine \in Text, NEW theirs \in Text, NEW g, NEW seen, NEW X,
         Clashes(f, mine, theirs) = {},
         \A l \in Lines : mine[l] = theirs[l] \/ mine[l] \ seen # {}
  PROVE  HonestBy(Merge(f, mine, theirs), theirs, g, seen, X)
BY DEF HonestBy, Merge

-----------------------------------------------------------------------------
(***************************************************************************)
(* HonestInv is invariant.                                                 *)
(***************************************************************************)
\* What the other invariants say of the database between operations: nothing
\* waits to be installed but pristines.
LEMMA Closed ==
  ASSUME IndInv, MarksInv, ~open
  PROVE  db = view /\ \A i \in DOMAIN view.queue : view.queue[i] = None
BY DEF IndInv, Phases, MarksInv

\* No step but a commit's adds to what was there, so none reverts.
LEMMA RevertSame ==
  ASSUME NoSilentRevert, UNCHANGED repo, excused \subseteq excused'
  PROVE  NoSilentRevert'
<1>1. \A r : Fresh(r)' = Fresh(r)
  BY DEF Fresh
<1>2. \A x : ExcusedBy(x, excused) => ExcusedBy(x, excused')
  BY DEF ExcusedBy
<1>3. \A x : ExcusedBy(x, excused') => Excused(x)'
  BY DEF Excused, ExcusedBy
<1> QED
  BY <1>1, <1>2, <1>3, ExcusedIs DEF NoSilentRevert

LEMMA UserSaveHonest ==
  ASSUME IndInv, MarksInv, HonestInv, NEW l \in Lines, UserSave(l)
  PROVE  HonestInv'
<1> DEFINE b == view.base.text  f == pristine[view.base.text]
<1>1. /\ view'.base.text = b /\ pristine'[b] = f /\ Committed' = Committed /\ excused' = excused
      /\ UNCHANGED <<repo, op, pc, work, install, open>>
      /\ view'.queue = view.queue /\ view'.conflict = view.conflict
      /\ disk \in Text /\ disk' = [disk EXCEPT ![l] = {saves + 1}] /\ saves + 1 \notin Used
  BY SaveMarks
<1>2. disk \in Text /\ disk # None /\ disk' # None
  BY SaveMarks, Constants
<1>3. HonestBy(disk, b, f, Committed, excused) => HonestBy(disk', b, f, Committed, excused)
  BY <1>1, HonestSaved DEF MarksInv
<1>4. (\A i \in DOMAIN view.queue :
        view.queue[i] # None => view.conflict \/ Honest(view.queue[i]))'
  BY <1>1 DEF HonestInv, Honest
<1>5. (install # None => view.conflict \/ Honest(install))'
  BY <1>1 DEF HonestInv, Honest
<1>6. (disk # None /\ ~Doomed /\ ~Unbumped => view.conflict \/ Honest(disk))'
  BY <1>1, <1>2, <1>3 DEF HonestInv, Honest, Doomed, Unbumped
<1>7. HarvestKept'
  <2>1. pc = "harvested" \/ Unbumped => Marks(work) \subseteq Used
    <3>1. Unbumped => work = repo[target]
      BY DEF Unbumped, IndInv, BaseRows, Phases
    <3>2. Marks(repo[target]) \subseteq Committed
      BY Revisions DEF IndInv, Committed
    <3> QED
      BY <3>1, <3>2 DEF MarksInv
  <2>2. \A k \in Lines : disk'[k] = IF k = l THEN {saves + 1} ELSE disk[k]
    BY <1>1 DEF Text
  <2>3. ASSUME pc = "harvested" \/ Unbumped, NEW k \in Lines
        PROVE  disk'[k] = work[k] \/ disk'[k] \ (Committed \cup Marks(work)) # {}
    BY <1>1, <2>1, <2>2, <2>3 DEF HonestInv, HarvestKept, MarksInv
  <2> QED
    BY <1>1, <1>2, <2>3 DEF HonestInv, HarvestKept, Unbumped, Honest
<1>8. NoSilentRevert'
  BY <1>1, RevertSame DEF HonestInv
<1> QED
  BY <1>4, <1>5, <1>6, <1>7, <1>8 DEF HonestInv

\* A revision with a line changed to a fresh mark reverts nothing.
LEMMA OtherCommitsReverts ==
  ASSUME IndInv, MarksInv, NoSilentRevert, NEW l \in Lines, OtherCommits(l)
  PROVE  NoSilentRevert'
<1> DEFINE n == Len(repo)  new == [repo[n] EXCEPT ![l] = {-n}]
<1>1. /\ n \in Nat \ {0} /\ DOMAIN repo = 1 .. n /\ DOMAIN repo' = 1 .. (n + 1)
      /\ \A r \in 1 .. n : repo'[r] = repo[r]
      /\ repo'[n + 1] = new
  <2>1. repo \in Seq(Text) /\ Len(repo) \in 1 .. MaxRevision
    BY DEF IndInv, TypeOK
  <2> QED
    BY <2>1, Constants DEF OtherCommits
<1>2. repo[n] \in Text /\ new \in Text /\ new[l] = {-n} /\ \A k \in Lines \ {l} : new[k] = repo[n][k]
  <2>1. repo[n] \in Text /\ -n \in Mark
    BY <1>1, Constants, Revisions DEF IndInv, Mark, OtherCommits
  <2> QED
    BY <2>1 DEF Text
<1>3. excused' = excused /\ -n \notin Used
  BY OtherCommitsMarks
<1> HIDE DEF new
<1>4. ASSUME NEW r \in DOMAIN repo' \ {1}, NEW k \in Lines
      PROVE  (repo[r][k] = repo[r - 1][k] \/ repo[r][k] \cap Fresh(r) # {} \/ Excused(repo[r][k]))'
  <2>1. CASE r \in DOMAIN repo
    <3>1. r - 1 \in 1 .. n /\ \A q \in 1 .. r : repo'[q] = repo[q]
      BY <1>1, <1>4, <2>1
    <3>2. Fresh(r)' = Fresh(r)
      BY <1>1, <2>1, <3>1 DEF Fresh
    <3>3. Excused(repo[r][k]) => Excused(repo[r][k])'
      <4>1. repo'[r][k] = repo[r][k]
        BY <3>1, <2>1, <1>1
      <4> QED
        BY <1>3, <4>1 DEF Excused
    <3> QED
      BY <1>1, <2>1, <3>1, <3>2, <3>3 DEF NoSilentRevert
  <2>2. CASE r = n + 1
    <3>1. CASE k # l
      BY <1>1, <1>2, <2>2, <3>1
    <3>2. CASE k = l
      <4>1. -n \in Marks(new)
        BY <1>2, MarksOfText
      <4>2. \A q \in 1 .. n : -n \notin Marks(repo[q])
        BY <1>1, <1>3 DEF MarksInv, Committed
      <4>3. -n \in Fresh(r)'
        BY <1>1, <2>2, <4>1, <4>2 DEF Fresh
      <4> QED
        BY <1>1, <1>2, <2>2, <3>2, <4>3
    <3> QED
      BY <3>1, <3>2
  <2> QED
    BY <1>1, <2>1, <2>2
<1> QED
  BY <1>4 DEF NoSilentRevert

LEMMA OtherCommitsHonest ==
  ASSUME IndInv, MarksInv, HonestInv, NEW l \in Lines, OtherCommits(l)
  PROVE  HonestInv'
<1> DEFINE b == view.base.text  f == pristine[view.base.text]
<1>1. /\ UNCHANGED <<disk, pristine, view, db, open, op, pc, target, work, install, excused>>
      /\ Committed' \cap Used \subseteq Committed
  BY OtherCommitsMarks DEF MarksInv
<1>2. ASSUME NEW t \in Text, Marks(t) \subseteq Used, HonestBy(t, b, f, Committed, excused)
      PROVE  HonestBy(t, b, f, Committed', excused)
  <2>1. Committed' \cap Marks(t) \subseteq Committed
    BY <1>1, <1>2
  <2> QED
    BY <1>2, <2>1, HonestStays
<1>3. (\A i \in DOMAIN view.queue :
        view.queue[i] # None => view.conflict \/ Honest(view.queue[i]))'
  <2>1. \A i \in DOMAIN view.queue : view.queue[i] # None => view.queue[i] \in Text
    BY Rows
  <2> QED
    BY <1>1, <1>2, <2>1 DEF HonestInv, Honest, MarksInv
<1>4. (install # None => view.conflict \/ Honest(install))'
  BY <1>1, <1>2 DEF HonestInv, Honest, MarksInv, IndInv, TypeOK
<1>5. (disk # None /\ ~Doomed /\ ~Unbumped => view.conflict \/ Honest(disk))'
  BY <1>1, <1>2 DEF HonestInv, Honest, MarksInv, IndInv, TypeOK, Doomed, Unbumped
<1>6. HarvestKept'
  <2>1. ASSUME pc = "harvested" \/ Unbumped, NEW k \in Lines, disk[k] # work[k]
        PROVE  disk[k] \ (Committed' \cup Marks(work)) # {}
    <3>1. PICK m \in disk[k] : m \notin Committed \cup Marks(work)
      BY <2>1 DEF HonestInv, HarvestKept
    <3>2. m \in Marks(disk)
      BY <2>1, MarksOfText DEF HonestInv, HarvestKept, IndInv, TypeOK
    <3> QED
      BY <1>1, <3>1, <3>2 DEF MarksInv
  <2>2. pc = "harvested" => Honest(work)'
    BY <1>1, <1>2 DEF HonestInv, HarvestKept, Honest, MarksInv, IndInv, BaseRows
  <2> QED
    BY <1>1, <2>1, <2>2 DEF HonestInv, HarvestKept, Unbumped
<1>7. NoSilentRevert'
  BY OtherCommitsReverts DEF HonestInv
<1> QED
  BY <1>3, <1>4, <1>5, <1>6, <1>7 DEF HonestInv

\* The steps of an update that put a pristine in place.
LEMMA PristineHonest ==
  ASSUME IndInv, TornInv, HonestInv, InstallPristine \/ CopyPristine
  PROVE  HonestInv'
<1>1. /\ UNCHANGED <<repo, disk, view, open, op, work, install, excused>>
      /\ pc \in Editing /\ pc' \in Editing
  BY DEF InstallPristine, CopyPristine, Goto, Editing, wcdb, locals, history
<1>2. Committed' = Committed
  BY <1>1 DEF Committed
<1>3. pristine'[view.base.text] = pristine[view.base.text]
  BY DEF InstallPristine, CopyPristine, TornInv, IndInv, PristineFiles
<1>4. NoSilentRevert'
  BY <1>1, RevertSame DEF HonestInv
<1>5. HarvestKept'
  BY <1>1, <1>2, <1>3 DEF HonestInv, HarvestKept, Unbumped, Honest, Editing, Running
<1> QED
  BY <1>1, <1>2, <1>3, <1>4, <1>5 DEF HonestInv, Honest, Doomed, Unbumped, Editing

LEMMA CloseFileHonest ==
  ASSUME IndInv, MarksInv, TornInv, OwedInv, HonestInv, CloseFile
  PROVE  HonestInv'
<1> DEFINE b == view.base.text  f == pristine[view.base.text]
           theirs == repo[target]
           clashes == Clashes(f, disk, theirs)
           merged == IF clashes # {} /\ op = "commit" THEN theirs ELSE Merge(f, disk, theirs)
           item == IF modified THEN merged ELSE None
           honest(t) == HonestBy(t, theirs, pristine[theirs], Committed, excused)
<1>1. /\ pc = "close" /\ pc' = "run" /\ (modified => disk # None)
      /\ UNCHANGED <<repo, disk, pristine, op, work, install, excused>>
  BY DEF CloseFile, Goto, files, history
<1>2. Committed' = Committed
  BY <1>1 DEF Committed
<1>3. /\ b \in Text /\ f \in Text /\ theirs \in Text
      /\ f = b \/ LinesOf(b) \subseteq excused
  <2>1. b \in DOMAIN pristine
    BY DEF IndInv, PristineFiles
  <2> QED
    BY <1>1, <2>1, Rows, Revisions DEF IndInv, TornInv
<1>4. /\ view'.base.text = theirs /\ view'.queue = Append(view.queue, item)
      /\ view.conflict => view'.conflict
      /\ modified /\ clashes # {} /\ op # "commit" => view'.conflict
  BY Rows DEF CloseFile, Write, Database
<1>5. modified => view'.conflict \/ honest(merged)
  <2> SUFFICES ASSUME modified, ~view'.conflict PROVE honest(merged)
    OBVIOUS
  <2>1. disk \in Text
    BY <1>1 DEF IndInv, TypeOK
  <2>2. CASE op # "commit"
    <3>1. clashes = {} /\ merged = Merge(f, disk, theirs)
      BY <1>4, <2>2
    <3>2. HonestBy(disk, b, f, Committed, excused)
      BY <1>1, <1>4, <2>2 DEF HonestInv, Doomed, Unbumped, Honest
    <3> QED
      BY <1>3, <2>1, <3>1, <3>2, HonestMerged
  <2>3. CASE op = "commit" /\ clashes # {}
    BY <2>3, HonestTexts
  <2>4. CASE op = "commit" /\ clashes = {}
    <3>1. work = theirs
      BY <1>1, <2>4 DEF IndInv, BaseRows, Phases, Editing
    <3>2. \A l \in Lines : disk[l] = theirs[l] \/ disk[l] \ Committed # {}
      BY <1>1, <2>4, <3>1 DEF HonestInv, HarvestKept, Unbumped, Editing
    <3> QED
      BY <1>3, <2>1, <2>4, <3>2, HonestAhead
  <2> QED
    BY <2>2, <2>3, <2>4
<1> HIDE DEF merged, clashes
<1>6. (\A i \in DOMAIN view.queue :
        view.queue[i] # None => view.conflict \/ Honest(view.queue[i]))'
  <2>1. \A i \in DOMAIN view.queue : view.queue[i] = None
    BY <1>1 DEF MarksInv, OwedInv, Editing
  <2>2. \A i \in DOMAIN view'.queue : view'.queue[i] = item \/ view'.queue[i] = None
    BY <1>4, <2>1, Rows
  <2> QED
    BY <1>1, <1>2, <1>4, <1>5, <2>2 DEF Honest
<1>7. view'.queue # <<>>
  BY <1>4, Rows
<1>8. install = None
  BY <1>1 DEF OwedInv
<1>9. HarvestKept'
  <2>1. op = "commit" => work = theirs
    BY <1>1 DEF IndInv, BaseRows, Phases, Editing
  <2> QED
    BY <1>1, <1>4, <2>1 DEF HarvestKept, Unbumped, Editing
<1>10. NoSilentRevert'
  BY <1>1, RevertSame DEF HonestInv
<1> QED
  BY <1>1, <1>6, <1>7, <1>8, <1>9, <1>10 DEF HonestInv, Doomed

LEMMA RemoveTargetHonest ==
  ASSUME IndInv, HonestInv, RemoveTarget
  PROVE  HonestInv'
<1>1. /\ UNCHANGED <<repo, pristine, open, op, work, excused>>
      /\ pc = "run" /\ pc' = "removed" /\ disk' = None
      /\ view'.base.text = view.base.text /\ view'.queue = view.queue
      /\ view'.conflict = view.conflict
  BY Rows DEF RemoveTarget, PutFile, Goto, history, Database
<1>2. Committed' = Committed
  BY <1>1 DEF Committed
<1>3. view.conflict \/ HonestBy(install', view.base.text, pristine[view.base.text], Committed, excused)
  <2>1. 1 \in DOMAIN view.queue /\ Head(view.queue) = view.queue[1]
    BY Rows DEF RemoveTarget
  <2>2. CASE Head(view.queue) = None
    BY <2>2, HonestTexts DEF RemoveTarget
  <2>3. CASE Head(view.queue) # None
    BY <2>1, <2>3 DEF RemoveTarget, HonestInv, Honest
  <2> QED
    BY <2>2, <2>3
<1>4. HarvestKept'
  BY <1>1 DEF HonestInv, HarvestKept, Unbumped, Editing, Running
<1>5. NoSilentRevert'
  BY <1>1, RevertSame DEF HonestInv
<1> QED
  BY <1>1, <1>2, <1>3, <1>4, <1>5 DEF HonestInv, Honest

LEMMA RenameIntoPlaceHonest ==
  ASSUME IndInv, HonestInv, RenameIntoPlace
  PROVE  HonestInv'
<1>1. /\ UNCHANGED <<repo, pristine, open, op, work, excused>>
      /\ pc = "removed" /\ pc' = "renamed" /\ disk' = install /\ install' = None
      /\ view'.base.text = view.base.text /\ view'.queue = view.queue
      /\ view'.conflict = view.conflict
  BY Rows DEF RenameIntoPlace, PutFile, Goto, history, Database
<1>2. Committed' = Committed
  BY <1>1 DEF Committed
<1>3. HarvestKept'
  BY <1>1 DEF HonestInv, HarvestKept, Unbumped, Editing, Running
<1>4. NoSilentRevert'
  BY <1>1, RevertSame DEF HonestInv
<1> QED
  BY <1>1, <1>2, <1>3, <1>4 DEF HonestInv, Honest

LEMMA DeleteItemHonest ==
  ASSUME IndInv, HonestInv, DeleteItem
  PROVE  HonestInv'
<1>1. /\ UNCHANGED <<repo, disk, pristine, open, op, work, install, excused>>
      /\ pc = "recorded" /\ pc' = "run"
      /\ view'.base.text = view.base.text /\ view'.queue = Tail(view.queue)
      /\ view'.conflict = view.conflict
  BY Rows DEF DeleteItem, Write, Goto, files, locals, history, Database
<1>2. Committed' = Committed
  BY <1>1 DEF Committed
<1>3. \A i \in DOMAIN Tail(view.queue) :
        i + 1 \in DOMAIN view.queue /\ Tail(view.queue)[i] = view.queue[i + 1]
  <2>1. view.queue # <<>>
    BY DEF DeleteItem, IndInv, Phases
  <2> QED
    BY <2>1, Rows
<1>4. HarvestKept'
  BY <1>1 DEF HonestInv, HarvestKept, Unbumped, Editing, Running
<1>5. NoSilentRevert'
  BY <1>1, RevertSame DEF HonestInv
<1>6. (\A i \in DOMAIN view.queue :
        view.queue[i] # None => view.conflict \/ Honest(view.queue[i]))'
  BY <1>1, <1>2, <1>3 DEF HonestInv, Honest
<1> QED
  BY <1>1, <1>2, <1>4, <1>5, <1>6 DEF HonestInv, Honest, Doomed, Unbumped, Editing

LEMMA EnqueueInstallHonest ==
  ASSUME IndInv, HonestInv, EnqueueInstall
  PROVE  HonestInv'
<1>1. /\ UNCHANGED <<repo, disk, pristine, open, op, install, excused>>
      /\ pc = "enqueue" /\ pc' = "run" /\ ~open
      /\ view'.base.text = view.base.text /\ view'.queue = Append(view.queue, None)
      /\ view'.conflict = view.conflict
  BY Rows DEF EnqueueInstall, Write, Goto, files, history, Database, IndInv, Phases, Editing, Running
<1>2. Committed' = Committed
  BY <1>1 DEF Committed
<1>3. HarvestKept'
  BY <1>1 DEF HarvestKept, Unbumped, Editing
<1>4. NoSilentRevert'
  BY <1>1, RevertSame DEF HonestInv
<1>5. (\A i \in DOMAIN view.queue :
        view.queue[i] # None => view.conflict \/ Honest(view.queue[i]))'
  <2>1. \A i \in DOMAIN view'.queue :
          view'.queue[i] = None \/ (i \in DOMAIN view.queue /\ view'.queue[i] = view.queue[i])
    BY <1>1, Rows
  <2> QED
    BY <1>1, <1>2, <2>1 DEF HonestInv, Honest
<1>6. view'.queue # <<>>
  BY <1>1, Rows
<1> QED
  BY <1>1, <1>2, <1>3, <1>4, <1>5, <1>6 DEF HonestInv, Honest, Doomed

LEMMA HarvestHonest ==
  ASSUME IndInv, MarksInv, HonestInv, Harvest
  PROVE  HonestInv'
<1>1. /\ UNCHANGED <<repo, disk, pristine, view, open, install, excused>>
      /\ op = "idle" /\ pc = "idle" /\ op' = "commit" /\ pc' = "harvested" /\ work' = disk
      /\ ~open /\ ~view.conflict /\ disk # None
  BY DEF Harvest, LooksModified, IndInv, Phases, Editing, Running, files, wcdb, history
<1>2. Committed' = Committed
  BY <1>1 DEF Committed
<1>3. HonestBy(disk, view.base.text, pristine[view.base.text], Committed, excused)
  BY <1>1 DEF HonestInv, Honest, Doomed, Unbumped
<1>4. HarvestKept'
  BY <1>1, <1>2, <1>3 DEF HarvestKept, Honest
<1>5. NoSilentRevert'
  BY <1>1, RevertSame DEF HonestInv
<1> QED
  BY <1>1, <1>2, <1>3, <1>4, <1>5 DEF HonestInv, Honest

\* The revision a commit makes differs from the one before, which is its BASE,
\* in honest lines only.
LEMMA CommitEditReverts ==
  ASSUME IndInv, HonestInv, CommitEdit
  PROVE  NoSilentRevert'
<1> DEFINE n == Len(repo)
<1>1. /\ n \in Nat \ {0} /\ DOMAIN repo = 1 .. n /\ DOMAIN repo' = 1 .. (n + 1)
      /\ \A r \in 1 .. n : repo'[r] = repo[r]
      /\ repo'[n + 1] = work /\ work \in Text
  <2>1. repo \in Seq(Text) /\ Len(repo) \in 1 .. MaxRevision /\ work \in Text
    BY DEF IndInv, TypeOK, BaseRows, CommitEdit
  <2> QED
    BY <2>1, Constants DEF CommitEdit
<1>2. /\ excused' = excused
      /\ view.base.text = repo[n] /\ pristine[view.base.text] = repo[n]
      /\ HonestBy(work, repo[n], repo[n], Committed, excused)
  <2>1. ~open /\ db = view
    BY DEF CommitEdit, IndInv, Phases, Editing, Running
  <2>2. view.base.text = repo[n] /\ pristine[view.base.text] = repo[n]
    BY <2>1 DEF CommitEdit, Acceptable, IndInv, BaseRows
  <2> QED
    BY <2>2 DEF CommitEdit, HonestInv, HarvestKept, Honest, history
<1>3. ASSUME NEW r \in DOMAIN repo' \ {1}, NEW k \in Lines
      PROVE  (repo[r][k] = repo[r - 1][k] \/ repo[r][k] \cap Fresh(r) # {} \/ Excused(repo[r][k]))'
  <2>1. CASE r \in DOMAIN repo
    <3>1. r - 1 \in 1 .. n /\ \A q \in 1 .. r : repo'[q] = repo[q]
      BY <1>1, <1>3, <2>1
    <3>2. Fresh(r)' = Fresh(r)
      BY <1>1, <2>1, <3>1 DEF Fresh
    <3>3. Excused(repo[r][k]) => Excused(repo[r][k])'
      <4>1. repo'[r][k] = repo[r][k]
        BY <3>1, <2>1, <1>1
      <4> QED
        BY <1>2, <4>1 DEF Excused
    <3> QED
      BY <1>1, <2>1, <3>1, <3>2, <3>3 DEF NoSilentRevert, HonestInv
  <2>2. CASE r = n + 1
    <3>1. work[k] = repo[n][k] \/ work[k] \ Committed # {} \/ ExcusedBy(work[k], excused)
      BY <1>2 DEF HonestBy
    <3>2. repo'[r][k] = work[k] /\ repo'[r - 1][k] = repo[n][k]
      BY <1>1, <2>2
    <3>3. CASE work[k] \ Committed # {}
      <4>1. PICK m \in work[k] : m \notin Committed
        BY <3>3
      <4>2. m \in Marks(work)
        BY <1>1, <4>1, MarksOfText
      <4>3. \A q \in 1 .. n : m \notin Marks(repo[q])
        BY <1>1, <4>1 DEF Committed
      <4>4. m \in Fresh(r)'
        BY <1>1, <2>2, <4>2, <4>3 DEF Fresh
      <4> QED
        BY <3>2, <4>1, <4>4
    <3>4. CASE ExcusedBy(work[k], excused)
      BY <1>2, <3>2, <3>4 DEF Excused, ExcusedBy
    <3> QED
      BY <3>1, <3>2, <3>3, <3>4
  <2> QED
    BY <1>1, <2>1, <2>2
<1> QED
  BY <1>3 DEF NoSilentRevert

LEMMA CommitEditHonest ==
  ASSUME IndInv, MarksInv, OwedInv, HonestInv, CommitEdit
  PROVE  HonestInv'
<1>1. /\ UNCHANGED <<disk, pristine, view, open, op, work, install, excused>>
      /\ pc = "harvested" /\ pc' = "committed" /\ op = "commit" /\ ~open /\ install = None
  BY DEF CommitEdit, Goto, files, wcdb, history, IndInv, Phases, Editing, Running, OwedInv
<1>2. Committed' = Committed \cup Marks(work)
  BY CommittedGrows DEF CommitEdit, IndInv, BaseRows
<1>3. \A i \in DOMAIN view.queue : view.queue[i] = None
  BY <1>1, Closed
<1>4. HarvestKept'
  BY <1>1, <1>2 DEF HonestInv, HarvestKept
<1>5. NoSilentRevert'
  BY CommitEditReverts
<1> QED
  BY <1>1, <1>3, <1>4, <1>5 DEF HonestInv, Unbumped

LEMMA PreparePostCommitHonest ==
  ASSUME IndInv, MarksInv, OwedInv, HonestInv, PreparePostCommit
  PROVE  HonestInv'
<1>1. /\ UNCHANGED <<repo, disk, pristine, open, op, work, install, excused>>
      /\ pc = "committed" /\ pc' = "prepared" /\ op = "commit" /\ ~open /\ install = None
      /\ view'.queue = view.queue
  BY Rows DEF PreparePostCommit, Write, Goto, files, locals, history, IndInv, Phases, Editing,
              Running, OwedInv, Database
<1>2. Committed' = Committed
  BY <1>1 DEF Committed
<1>3. \A i \in DOMAIN view.queue : view.queue[i] = None
  BY <1>1, Closed
<1>4. HarvestKept'
  BY <1>1, <1>2 DEF HonestInv, HarvestKept, Unbumped
<1>5. NoSilentRevert'
  BY <1>1, RevertSame DEF HonestInv
<1> QED
  BY <1>1, <1>3, <1>4, <1>5 DEF HonestInv, Unbumped

LEMMA FinalizeHonest ==
  ASSUME IndInv, HonestInv, FinalizeCommittedMetadata
  PROVE  HonestInv'
<1> DEFINE b == view.base.text
<1>1. /\ UNCHANGED <<repo, disk, open, op, work, install, excused>>
      /\ pc = "finalize" /\ pc' = "enqueue" /\ op = "commit"
      /\ view'.base.text = work /\ view'.queue = view.queue /\ view'.conflict = view.conflict
  BY Rows DEF FinalizeCommittedMetadata, Write, Goto, locals, history, IndInv, Phases, Database
<1>2. Committed' = Committed
  BY <1>1 DEF Committed
<1>3. work = b /\ pristine'[b] = pristine[b]
  BY <1>1 DEF FinalizeCommittedMetadata, HonestInv, HarvestKept, IndInv, PristineFiles
<1>4. HarvestKept'
  BY <1>1 DEF HarvestKept, Unbumped, Editing, Running
<1>5. NoSilentRevert'
  BY <1>1, RevertSame DEF HonestInv
<1> QED
  BY <1>1, <1>2, <1>3, <1>4, <1>5 DEF HonestInv, Honest, Doomed, Unbumped, Editing

LEMMA BeginRevertHonest ==
  ASSUME IndInv, MarksInv, OwedInv, HonestInv, BeginRevert
  PROVE  HonestInv'
<1>1. /\ UNCHANGED <<repo, install, excused>> /\ ~open /\ install = None
      /\ op' = "revert" /\ pc' = "enqueue" /\ view'.queue = view.queue
  BY Rows DEF BeginRevert, Write, locals, IndInv, Phases, OwedInv, Database, Editing, Running
<1>2. \A i \in DOMAIN view.queue : view.queue[i] = None
  BY <1>1, Closed
<1>3. HarvestKept'
  BY <1>1 DEF HarvestKept, Unbumped
<1>4. NoSilentRevert'
  BY <1>1, RevertSame DEF HonestInv
<1> QED
  BY <1>1, <1>2, <1>3, <1>4 DEF HonestInv, Doomed

LEMMA ResolveHonest ==
  ASSUME IndInv, MarksInv, OwedInv, HonestInv, Resolve
  PROVE  HonestInv'
<1>1. /\ UNCHANGED <<repo, disk, op, pc, install>> /\ ~open /\ install = None /\ op = "idle"
      /\ pc = "idle" /\ view'.queue = view.queue
      /\ excused \subseteq excused' /\ LinesOf(disk) \subseteq excused'
  BY Rows DEF Resolve, Write, locals, files, IndInv, Phases, OwedInv, Database, Editing, Running
<1>2. \A i \in DOMAIN view.queue : view.queue[i] = None
  BY <1>1, Closed
<1>3. HarvestKept'
  BY <1>1 DEF HarvestKept, Unbumped
<1>4. NoSilentRevert'
  BY <1>1, RevertSame DEF HonestInv
<1>5. (disk # None => Honest(disk))'
  BY <1>1, HonestTexts DEF Honest
<1> QED
  BY <1>1, <1>2, <1>3, <1>4, <1>5 DEF HonestInv

LEMMA InterruptHonest ==
  ASSUME MarksInv, HonestInv, Interrupt
  PROVE  HonestInv'
<1>1. /\ UNCHANGED <<repo, disk>> /\ op' = "idle" /\ pc' = "idle" /\ install' = None /\ view' = db
      /\ excused \subseteq excused' /\ LinesOf(disk) \subseteq excused'
  BY DEF Interrupt, Return, files
<1>2. HarvestKept'
  BY <1>1 DEF HarvestKept, Unbumped
<1>3. NoSilentRevert'
  BY <1>1, RevertSame DEF HonestInv
<1>4. (disk # None => Honest(disk))'
  BY <1>1, HonestTexts DEF Honest
<1> QED
  BY <1>1, <1>2, <1>3, <1>4 DEF HonestInv, MarksInv

\* The steps that change neither the file nor what will be put in its place,
\* nor BASE.
LEMMA OtherHonest ==
  ASSUME IndInv, OwedInv, HonestInv,
         \/ \E r \in DOMAIN repo : BeginUpdate(r)
         \/ OpenFile \/ RecordFileInfo \/ CommitUpdate \/ QueueEmpty
         \/ CommitRefused \/ BeginPostCommitUpdate
         \/ CleanupStep
  PROVE  HonestInv'
<1>1. CASE \E r \in DOMAIN repo : BeginUpdate(r)
  <2>1. /\ UNCHANGED <<repo, disk, pristine, view, work, install, excused>>
        /\ op = "idle" /\ pc = "idle" /\ op' = "update" /\ pc' \in {"run", "open"}
    BY <1>1 DEF BeginUpdate, files, history, IndInv, Phases
  <2> QED
    BY <2>1, RevertSame DEF HonestInv, HarvestKept, Honest, Doomed, Unbumped, Committed
<1>2. CASE OpenFile
  <2>1. /\ UNCHANGED <<repo, disk, pristine, view, open, op, work, install, excused>>
        /\ pc = "open" /\ pc' = "pristine"
    BY <1>2 DEF OpenFile, Goto, files, wcdb
  <2> QED
    BY <2>1, RevertSame DEF HonestInv, HarvestKept, Honest, Doomed, Unbumped, Committed, Editing, Running
<1>3. CASE RecordFileInfo
  <2>1. /\ UNCHANGED <<repo, disk, pristine, open, op, work, install, excused>>
        /\ pc = "renamed" /\ pc' = "recorded" /\ view'.queue = view.queue
        /\ view'.base = view.base /\ view'.conflict = view.conflict
    BY <1>3, Rows DEF RecordFileInfo, Write, Goto, files, locals, history, Database
  <2> QED
    BY <2>1, RevertSame DEF HonestInv, HarvestKept, Honest, Doomed, Unbumped, Committed, Editing, Running
<1>4. CASE CommitUpdate \/ QueueEmpty \/ CommitRefused
  <2>1. /\ UNCHANGED <<repo, disk, pristine, view, excused>>
        /\ ~Doomed /\ ~Unbumped
        /\ \/ op' = "idle" /\ pc' = "idle" /\ work' = None /\ install' = None
           \/ /\ op' = op /\ pc = "run" /\ work' = work /\ install' = install
              /\ pc' = "finalize" /\ op = "commit" /\ open
           \/ op' = op /\ pc' = "vacuum" /\ op = "cleanup" /\ install' = install
    BY <1>4 DEF CommitUpdate, QueueEmpty, CommitRefused, Goto, Return, files, wcdb, locals, history,
                Doomed, Unbumped, Editing
  <2>2. HarvestKept' /\ ~Unbumped' /\ ~Doomed'
    BY <2>1 DEF HonestInv, HarvestKept, Unbumped, Doomed, Editing, Running
  <2> QED
    BY <2>1, <2>2, RevertSame DEF HonestInv, Honest, Committed
<1>5. CASE BeginPostCommitUpdate
  <2>1. /\ UNCHANGED <<repo, disk, pristine, view, op, work, install, excused>>
        /\ pc = "prepared" /\ pc' = "open" /\ op = "commit"
    BY <1>5 DEF BeginPostCommitUpdate, Goto, files, locals, history, IndInv, Phases
  <2> QED
    BY <2>1, RevertSame DEF HonestInv, HarvestKept, Honest, Doomed, Unbumped, Committed, Editing, Running
<1>6. CASE CleanupStep
  <2>1. /\ UNCHANGED <<repo, disk, open, excused>>
        /\ view'.base = view.base /\ view'.queue = view.queue /\ view'.conflict = view.conflict
        /\ pristine'[view.base.text] = pristine[view.base.text]
        /\ install' = install \/ install' = None
        /\ \/ pc = "idle" /\ op' = "cleanup" /\ pc' = "run"
           \/ op' = op /\ pc = "vacuum" /\ pc' = "vacuumed"
           \/ op' = op /\ pc = "vacuumed" /\ pc' = "vacuum"
           \/ pc = "vacuum" /\ op' = "idle" /\ pc' = "idle"
    <3>1. CASE BeginCleanup \/ EndCleanup
      BY <1>6, <3>1 DEF BeginCleanup, EndCleanup, Return, files, wcdb, locals, history, IndInv, Phases
    <3>2. CASE VacuumRow
      BY <3>2, Rows DEF VacuumRow, Write, Goto, files, history, Database
    <3>3. CASE \E t \in view.rows : VacuumFile(t)
      BY <3>3 DEF VacuumFile, Restrict, Goto, wcdb, history, IndInv, PristineFiles
    <3> QED
      BY <1>6, <3>1, <3>2, <3>3 DEF CleanupStep
  <2>2. HarvestKept' /\ ~Unbumped' /\ ~Unbumped /\ ~Doomed
    BY <2>1 DEF HarvestKept, Unbumped, Doomed, Editing, Running, IndInv, Phases
  <2> QED
    BY <2>1, <2>2, RevertSame DEF HonestInv, Honest, Committed
<1> QED
  BY <1>1, <1>2, <1>3, <1>4, <1>5, <1>6

LEMMA HonestInit == Init => HonestInv
<1> SUFFICES ASSUME Init PROVE HonestInv
  OBVIOUS
<1> DEFINE first == [l \in Lines |-> {0}]
<1>1. /\ disk = view.base.text /\ install = None /\ pc = "idle" /\ op = "idle" /\ DOMAIN repo = {1}
      /\ view.queue = <<>>
  <2>1. repo = <<first>> /\ disk = first /\ view = db /\ db.base.text = first /\ db.queue = <<>>
        /\ install = None /\ pc = "idle" /\ op = "idle"
    BY DEF Init
  <2> HIDE DEF first
  <2> QED
    BY <2>1
<1>2. DOMAIN view.queue = {}
  BY <1>1
<1>3. Honest(disk)
  BY <1>1, HonestTexts DEF Honest
<1> QED
  BY <1>1, <1>2, <1>3 DEF HonestInv, HarvestKept, Unbumped, NoSilentRevert

LEMMA HonestStep ==
  IndInv /\ MarksInv /\ TornInv /\ OwedInv /\ HonestInv /\ [Next]_vars => HonestInv'
<1> SUFFICES ASSUME IndInv, MarksInv, TornInv, OwedInv, HonestInv, [Next]_vars PROVE HonestInv'
  OBVIOUS
<1>1. CASE \E l \in Lines : UserSave(l) \/ OtherCommits(l)
  BY <1>1, UserSaveHonest, OtherCommitsHonest
<1>2. CASE UpdateStep
  BY <1>2, PristineHonest, CloseFileHonest, OtherHonest DEF UpdateStep
<1>3. CASE QueueStep
  BY <1>3, RemoveTargetHonest, RenameIntoPlaceHonest, DeleteItemHonest, OtherHonest DEF QueueStep
<1>4. CASE CommitStep
  BY <1>4, HarvestHonest, CommitEditHonest, PreparePostCommitHonest, FinalizeHonest,
     EnqueueInstallHonest, OtherHonest DEF CommitStep
<1>5. CASE (\E r \in DOMAIN repo : BeginUpdate(r)) \/ CleanupStep
  BY <1>5, OtherHonest
<1>6. CASE BeginRevert \/ Resolve \/ Interrupt
  BY <1>6, BeginRevertHonest, ResolveHonest, InterruptHonest
<1>7. CASE UNCHANGED vars
  <2>1. UNCHANGED <<repo, disk, pristine, view, open, op, pc, work, install, excused>>
    BY <1>7 DEF vars, files, wcdb, locals, history
  <2> QED
    BY <2>1, RevertSame DEF HonestInv, HarvestKept, Honest, Doomed, Unbumped, Committed
<1> QED
  BY <1>1, <1>2, <1>3, <1>4, <1>5, <1>6, <1>7 DEF Next

-----------------------------------------------------------------------------
\* No revision takes back what an earlier one did to a line unless its author
\* edited that line: the server refuses a commit from an old base revision or
\* base text, a conflict is refused by harvestCommit, and what update and the
\* work queue put in the file is BASE but for edits.  Excused are lines an
\* interrupted operation left in the file behind wc.db's back, lines of a text
\* whose pristine was left torn, and what the user declared resolved.
THEOREM NothingReverted == Spec => []NoSilentRevert
<1>1. HonestInv => NoSilentRevert
  BY DEF HonestInv
<1>2. Spec => [](IndInv /\ MarksInv)
  BY Invariance, MarksInit, MarksStep, PTL DEF Spec
<1>3. Spec => []TornInv
  BY <1>2, TornInit, TornStep, PTL DEF Spec
<1>4. Spec => []OwedInv
  BY Invariance, OwedInit, OwedStep, PTL DEF Spec
<1> QED
  BY <1>1, <1>2, <1>3, <1>4, HonestInit, HonestStep, PTL DEF Spec
=============================================================================
