--------------------------------- MODULE WcTree ---------------------------------
(***************************************************************************)
(* One user's working copy of a repository that others commit to: changes   *)
(* on disk, operations that schedule changes, updates, switches and commits *)
(* in any order, each of them one step.  How two processes share the        *)
(* database of a working copy is modelled in WcFile.                        *)
(***************************************************************************)
EXTENDS WcCommit

CONSTANTS
  Paths,       \* bound: the paths the user works on
  FirstDrive,  \* bound: the commit that was checked out
  OthersDrive, \* bound: the commits others may have made after it
  MaxLocal,    \* bound: changes made locally
  MaxSync,     \* bound: updates, switches, commits and reverts
  MaxSteps     \* bound: operations of both kinds

VARIABLES
  fs,    \* the revisions of the repository
  wc,    \* the working copy
  last,  \* the operation done last, whether it succeeded and what it went to
  left   \* how many local, synchronising and all operations may follow

vars == <<fs, wc, last, left>>

-----------------------------------------------------------------------------

\* half: after some commit the working copy could not be updated.
Op(name, ok, rev) == [op |-> name, ok |-> ok, rev |-> rev, accept |-> "postpone", half |-> FALSE]

First == ReposCommit(EmptyFS, DriveCalls(FirstDrive), OpenedAt(DriveCalls(FirstDrive), 0))

Init ==
  /\ \E drive \in OthersDrive : fs = ReposCommit(First, DriveCalls(drive), OpenedAt(DriveCalls(drive), 1))
  /\ wc = Checkout(First, 1).wc
  /\ last = Op("checkout", TRUE, 1)
  /\ left = [local |-> MaxLocal, sync |-> MaxSync, all |-> MaxSteps]

\* One that fails and changes nothing is no step.
Locally(name, outcome) ==
  /\ left.local > 0 /\ left.all > 0
  /\ outcome.wc # wc
  /\ wc' = outcome.wc
  /\ last' = [Op(name, outcome.ok, -1) EXCEPT !.half = last.half]
  /\ left' = [left EXCEPT !.local = @ - 1, !.all = @ - 1]
  /\ UNCHANGED fs

Synchronise(operation, outcome) ==
  /\ left.sync > 0 /\ left.all > 0
  /\ wc' = outcome.wc
  /\ last' = [operation EXCEPT !.ok = outcome.ok,
                               !.half = last.half \/ (operation.op = "commit" /\ ~outcome.ok)]
  /\ left' = [left EXCEPT !.sync = @ - 1, !.all = @ - 1]

\* The user's editor, outside of any operation.
OnDisk(path) ==
  \/ /\ KindAt(wc.disk, Front(path)) = "dir" /\ KindAt(wc.disk, path) # "dir"
     /\ Locally("edit", Done([wc EXCEPT !.disk = With(@, path, File("mine"))]))
  \/ path \in DOMAIN wc.disk /\ Locally("edit", Done(RemoveAll(wc, path)))

Schedule(path) ==
  \/ \E force \in BOOLEAN : Locally("add", Add(wc, path, force))
  \/ Locally("mkdir", Mkdir(wc, path))
  \/ \E source \in Paths : Locally("copy", Copy(wc, source, path)) \/ Locally("move", Move(wc, source, path))
  \/ \E force, keepLocal \in BOOLEAN : Locally("delete", Delete(wc, path, force, keepLocal))
  \/ Locally("prop", SetProperty(wc, path, "mine"))
  \/ \E choice \in {"working", "theirs"} : Locally("resolve", Resolve(wc, path, choice))

RevertTo(path, depth) ==
  /\ \E removeAdded \in BOOLEAN :
       Synchronise(Op(IF path = <<>> /\ depth = "infinity" THEN "revert_all" ELSE "revert", TRUE, -1),
                   Revert(wc, path, depth, removeAdded))
  /\ UNCHANGED fs

UpdateTo(rev) ==
  /\ \E force \in BOOLEAN, accept \in {"postpone", "theirs"} :
       Synchronise([Op("update", TRUE, rev) EXCEPT !.accept = accept],
                   Update(fs, wc, rev, BaseRow(wc, <<>>).from, Options(force, accept, None)))
  /\ UNCHANGED fs

SetDepth(depth) ==
  /\ Synchronise(Op("depth", TRUE, Youngest(fs)),
                 Update(fs, wc, Youngest(fs), BaseRow(wc, <<>>).from, Options(FALSE, "postpone", depth)))
  /\ UNCHANGED fs

SwitchTo(source) ==
  LET tree == fs[Youngest(fs)].tree IN
  /\ KindAt(tree, source) = "dir" /\ source # BaseRow(wc, <<>>).from
  /\ Synchronise(Op("switch", TRUE, Youngest(fs)),
                 Update(fs, wc, Youngest(fs), source, Options(FALSE, "postpone", None)))
  /\ UNCHANGED fs

Landed(landed, drive) ==
  \/ /\ landed # Refused
     /\ fs' = landed
     /\ Synchronise(Op("commit", TRUE, Youngest(landed)), PostCommit(landed, wc, drive, Youngest(landed)))
  \/ /\ landed = Refused
     /\ Synchronise(Op("refused", FALSE, Youngest(fs)), Error(wc))
     /\ UNCHANGED fs

\* Of a working copy of the root of the repository.
Commit ==
  /\ BaseRow(wc, <<>>).from = <<>>
  /\ \E drive \in {HarvestCommit(wc)} : \E landed \in {CommitTo(fs, wc, drive)} : Landed(landed, drive)

Next ==
  \/ \E path \in Paths : OnDisk(path) \/ Schedule(path)
  \/ \E path \in {<<>>, <<"d">>}, depth \in {"infinity", "files"} : RevertTo(path, depth)
  \/ \E rev \in 1 .. Youngest(fs) : UpdateTo(rev)
  \/ \E depth \in {"files", "immediates"} : SetDepth(depth)
  \/ \E source \in {<<>>, <<"d">>} : SwitchTo(source)
  \/ Commit

Spec == Init /\ [][Next]_vars

-----------------------------------------------------------------------------
(* What a working copy holds *)

\* What BASE has, as the rows say it.
BaseTree(w) ==
  [p \in {q \in Versioned(w) : BaseRow(w, q) # None} |->
     LET row == BaseRow(w, p) IN Node(row.kind, IF row.text = None THEN "" ELSE row.text, row.prop)]

\* What the user sees: the versioned nodes that are not deleted.
View(w) ==
  [p \in {q \in Versioned(w) : Info(w, q).schedule # "delete"} |->
     LET info == Info(w, p)
     IN Node(info.kind, IF info.kind = "file" /\ KindAt(w.disk, p) = "file" THEN w.disk[p].text ELSE "", info.prop)]

\* What the user changed: a node that is not on disk is just restored, an empty
\* directory that is in its way removed.
Changed(w) ==
  {p \in Versioned(w) : LET s == StatusOf(w, p)
                        IN s = Refused \/ s.node \notin {"normal", "missing", "obstructed"} \/ s.prop # "normal"}

\* Another kind of node is where a tree has one.
Obstructed(w, tree) == \E p \in DOMAIN tree : KindAt(w.disk, p) \notin {tree[p].kind, "none"}

\* Nothing is changed locally, and nothing else is there: no file, and no property
\* of a node an update has deleted, which would be one of a later node again.
Clean(w) ==
  /\ Diff(w, <<>>) = {} /\ Unversioned(w, <<>>) = {}
  /\ w.queue = <<>> /\ DOMAIN w.actual \subseteq Versioned(w)

\* No directory was given a depth.
Deep(w) == \A key \in DOMAIN w.nodes : w.nodes[key].depth = "infinity"

Trees == [r \in DOMAIN fs |-> VisibleTree(fs[r].tree)]

\* BASE is at one revision of the root of the repository.
At(w, rev) ==
  \A p \in DOMAIN BaseTree(w) : LET row == BaseRow(w, p) IN row.rev = rev /\ row.from = p

-----------------------------------------------------------------------------
(* Properties *)

\* IMPLEMENTATION_PLAN.md:221: the update editor has "depth & sticky depth".  What
\* a directory has is within the depth it was given, whatever is updated later.
StickyDepth ==
  \A p \in Versioned(wc), n \in 0 .. 1 :
    LET above == SubSeq(p, 1, n)
    IN n < Len(p) /\ BaseRow(wc, p) # None /\ BaseRow(wc, above) # None =>
         WithinTarget(SubSeq(p, n + 1, Len(p)), BaseRow(wc, above).depth, BaseRow(wc, p).kind)

\* What the working copy reports to the repository is what BASE has, after any
\* sequence of operations and failures: an update computed from the report fits
\* (wc/crawl.go, wc/update_editor.go, wc/commit.go finalizeCommittedMetadata).
BaseTrue == StickyDepth /\ ~last.half => Held(Trees, Crawl(wc, "infinity")) = BaseTree(wc)

\* An update of a clean working copy succeeds and ends with the revision asked
\* for, clean; a revert of everything ends with BASE, as it was, on disk
\* (wc/update.go, wc/update_editor.go, wc/local.go Revert).
Restores ==
  [][/\ last'.op \in {"update", "switch"} /\ Clean(wc) /\ Deep(wc) =>
          /\ last'.ok
          /\ View(wc') = Subtree(Trees[last'.rev], BaseRow(wc', <<>>).from)
          /\ Clean(wc')
     /\ last'.op = "revert_all" =>
          /\ BaseTree(wc') = BaseTree(wc)
          /\ (last'.ok /\ Diff(wc', <<>>) = {}) \/ Obstructed(wc, BaseTree(wc))]_vars

\* DeleteEntry takes a node that replaces one of BASE, what is on disk where one
\* is deleted, and a directory that is not on disk with all that was scheduled in
\* it, for unchanged (wc/update_editor.go:367).
Overlooked(w, path) ==
  \E p \in Versioned(w) :
    /\ Under(path, p)
    /\ \/ Info(w, p).schedule \in {"replace", "delete"}
       \/ Info(w, p).kind = "dir" /\ p \notin DOMAIN w.disk

\* The removal of a directory, one that replaces another too, takes what is not
\* versioned in it along (wc/update_editor.go:412).
Swept(before, after, path) ==
  LET NodeAt(w, p) == LET row == BaseRow(w, p) IN IF row = None THEN None ELSE fs[row.rev].tree[row.from].id
  IN /\ path \notin Versioned(before)
     /\ \E n \in 1 .. Len(path) :
          LET above == SubSeq(path, 1, n) IN NodeAt(before, above) \notin {None, NodeAt(after, above)}

\* An update that is to postpone conflicts loses no text of the user, and each
\* local change is one afterwards, in conflict, or what the repository has
\* (wc/update_editor.go, wc/update_props.go).
ChangesKept ==
  [][last'.op \in {"update", "switch", "depth"} /\ last'.accept = "postpone" =>
       /\ \A p \in DOMAIN wc.disk :
            wc.disk[p].text = "mine" /\ (p \in DOMAIN BaseTree(wc) => BaseTree(wc)[p].text # "mine") =>
              \/ p \in DOMAIN wc'.disk /\ wc'.disk[p].text \in {"mine", "<mine|two>", "<mine|one>"}
              \/ Overlooked(wc, p) \/ Swept(wc, wc', p)
       /\ last'.ok =>
            \A p \in Changed(wc) :
              \/ p \in Changed(wc')
              \/ \E n \in 0 .. Len(p) : ActualRow(wc', SubSeq(p, 1, n)).conflict # {}
              \/ p \in DOMAIN BaseTree(wc') \cap DOMAIN View(wc) /\ BaseTree(wc')[p] = View(wc)[p]
              \/ p \notin DOMAIN BaseTree(wc') \cup DOMAIN View(wc)
              \/ Overlooked(wc, p)]_vars

\* Copy and Add schedule nodes below one that is deleted or not versioned
\* (wc/local.go:214, :105).
Detached(w) == \E p \in DOMAIN View(w) \ {<<>>} : KindAt(View(w), Front(p)) # "dir"

\* A property set on a copied node goes into the row of the copy and counts as
\* its source's (wc/local.go:386); the commit does not send it.
CopyProp(w, path) == path \in DOMAIN View(w) /\ Info(w, path).copied

\* A deletion inside of a copy removes the row of the copied node, and nothing
\* is left to send (wc/local.go:318).
CutFromCopy(w, path) ==
  path \notin DOMAIN View(w) /\ \E p \in DOMAIN View(w) : Under(path, p) /\ Info(w, p).copied

\* A deletion whose node an update has deleted as well stays scheduled.
Ghost(w) == \E p \in Versioned(w) : Info(w, p).schedule = "delete" /\ BaseRow(w, p) = None

\* The deletion of a node that an addition replaces comes with the revision of the
\* added one, which has none (wc/commit.go:151), so it is never out of date.
Replaced(w, path) ==
  \E p \in Versioned(w) : Under(path, p) /\ Info(w, p).schedule = "replace" /\ Info(w, p).rev = -1

\* What is deleted or copied is the whole directory of the repository, whatever
\* of it the working copy has.
Sparse(w, path) ==
  ~Deep(w) /\ \E p \in Versioned(w) \ {path} : Under(path, p) /\ Info(w, p).schedule # "normal"

\* A commit that is accepted lands each local change and nothing else, and no
\* change of another to the same node is lost (wc/commit.go, repos/commit.go).
CommitLands ==
  [][last'.op = "commit" /\ ~Detached(wc) =>
       LET ours   == View(wc)
           base   == BaseTree(wc)
           theirs == Trees[Youngest(fs)]
           landed == Trees'[last'.rev]
           Of(tree, p) == IF p \in DOMAIN tree THEN tree[p] ELSE None
       IN \A p \in DOMAIN ours \cup DOMAIN base \cup DOMAIN theirs \cup DOMAIN landed :
            \/ /\ Of(landed, p) = IF Of(ours, p) = Of(base, p) THEN Of(theirs, p) ELSE Of(ours, p)
               /\ Of(theirs, p) \in {Of(base, p), Of(landed, p)}
            \/ Replaced(wc, p) \/ Sparse(wc, p)
            \/ CutFromCopy(wc, p)
            \/ CopyProp(wc, p) /\ p \in DOMAIN landed /\ [ours[p] EXCEPT !.prop = landed[p].prop] = landed[p]]_vars

\* The replacement of a directory is driven first; that of a node in it then finds
\* nothing to delete.
ReplacedWithin(w) ==
  \E p, q \in Versioned(w) : p # q /\ Under(q, p) /\ {Info(w, p).schedule, Info(w, q).schedule} = {"replace"}

\* After it the working copy is clean, at the revision committed; one that is up
\* to date with something to commit and no conflict is accepted.
CommitSettles ==
  [][~Detached(wc) =>
       /\ last'.op = "commit" /\ DOMAIN wc.disk = DOMAIN View(wc) /\ ~Obstructed(wc, View(wc)) =>
            last'.ok /\ At(wc', last'.rev) /\ Diff(wc', <<>>) = {}
       /\ last'.op = "refused" =>
            \/ Diff(wc, <<>>) \in {{}, Refused} \/ ~At(wc, Youngest(fs)) \/ ~Deep(wc) \/ Ghost(wc)
            \/ ReplacedWithin(wc) \/ Obstructed(wc, View(wc))
            \/ \E p \in DOMAIN wc.actual : wc.actual[p].conflict # {}]_vars

\* IMPLEMENTATION_PLAN.md:224 asks of the commit of a working copy "replace" and
\* "out-of-date checks": what others made of a node is not replaced unseen
\* (wc/commit.go driveCommitNode).
ReplaceChecked ==
  [][last'.op = "commit" =>
       \A p \in Versioned(wc) :
         Info(wc, p).schedule = "replace" /\ p \in DOMAIN Trees[Youngest(fs)] =>
           \A q \in DOMAIN Trees[Youngest(fs)] :
             Under(q, p) => q \in DOMAIN BaseTree(wc) /\ BaseTree(wc)[q] = Trees[Youngest(fs)][q]]_vars
=============================================================================
