--------------------------------- MODULE WcRows ---------------------------------
(***************************************************************************)
(* A working copy: the rows of NODES and ACTUAL_NODE, the work queue and    *)
(* the disk, what Info, Status and Diff make of them, and the operations    *)
(* that schedule changes.  Rows are keyed by path and operation depth; rows *)
(* of depth 0 are BASE.  Paths are below the root of the working copy.  A   *)
(* node has one property, "" when it is not set, that is none of svn:*, so  *)
(* a text on disk is the text of the file.  Markers of conflicts, locks,    *)
(* changelists and the marks of a move are left out.                        *)
(***************************************************************************)
EXTENDS RepoCommit

-----------------------------------------------------------------------------
(* Rows.  wc: nodes, actual, queue, disk. *)

\* text: None when the checksum is NULL; rev: -1 when NULL; from: the path in
\* the repository, None when NULL.
Row(presence, kind, text, prop, rev, from) ==
  [presence |-> presence, kind |-> kind, text |-> text, prop |-> prop, rev |-> rev, from |-> from,
   depth |-> "infinity"]

\* The rows of a local addition and of a local deletion.
AddedRow(kind)   == Row("normal", kind, None, "", -1, None)
DeletedRow(kind) == Row("base-deleted", kind, None, "", -1, None)

Versioned(wc) == {key[1] : key \in DOMAIN wc.nodes}

OpDepth(wc, path) == Max({key[2] : key \in {k \in DOMAIN wc.nodes : k[1] = path}})

\* NODES_BASE and NODES_CURRENT
BaseRow(wc, path)    == IF <<path, 0>> \in DOMAIN wc.nodes THEN wc.nodes[<<path, 0>>] ELSE None
CurrentRow(wc, path) == wc.nodes[<<path, OpDepth(wc, path)>>]

PutRow(wc, path, op, row) == [wc EXCEPT !.nodes = With(@, <<path, op>>, row)]

DropRows(wc, keys) == [wc EXCEPT !.nodes = [key \in DOMAIN @ \ keys |-> @[key]]]

\* The WORKING layers of some paths.
Layers(wc, paths) == {key \in DOMAIN wc.nodes : key[1] \in paths /\ key[2] > 0}

\* ACTUAL_NODE: prop is None when it is NULL; a row that says nothing is no row.
NoActual == [prop |-> None, conflict |-> {}]

ActualRow(wc, path) == IF path \in DOMAIN wc.actual THEN wc.actual[path] ELSE NoActual

PutActual(wc, path, row) ==
  [wc EXCEPT !.actual = [p \in (DOMAIN @ \ {path}) \cup (IF row = NoActual THEN {} ELSE {path}) |->
                           IF p = path THEN row ELSE @[p]]]

ClearProps(wc, paths) ==
  FoldSet(LAMBDA p, w : PutActual(w, p, [ActualRow(w, p) EXCEPT !.prop = None]), wc, paths)

ClearActual(wc, paths) == [wc EXCEPT !.actual = [p \in DOMAIN @ \ paths |-> @[p]]]

-----------------------------------------------------------------------------
(* What the rows say *)

ScheduleFor(current, op, base) ==
  IF current.presence = "base-deleted" THEN "delete"
  ELSE IF op = 0 THEN "normal" ELSE IF base # None THEN "replace" ELSE "add"

\* infoFromRows
InfoFromRows(current, op, base, actual) ==
  LET meta == IF current.presence = "base-deleted" /\ base # None THEN base ELSE current
  IN [kind |-> meta.kind, presence |-> current.presence, op |-> op, text |-> meta.text,
      rev |-> meta.rev, from |-> meta.from, depth |-> meta.depth,
      copied   |-> op > 0 /\ current.rev # -1,
      schedule |-> ScheduleFor(current, op, base),
      base     |-> IF base # None THEN base.prop
                   ELSE IF op > 0 /\ current.rev = -1 THEN "" ELSE meta.prop,
      prop     |-> IF actual.prop = None THEN meta.prop ELSE actual.prop,
      conflict |-> actual.conflict]

\* Info, None for a path with no row.
Info(wc, path) ==
  IF path \notin Versioned(wc) THEN None
  ELSE InfoFromRows(CurrentRow(wc, path), OpDepth(wc, path), BaseRow(wc, path), ActualRow(wc, path))

FilesystemStatus(wc, path, info) ==
  LET kind == KindAt(wc.disk, path)
  IN IF kind = "none" THEN "missing"
     ELSE IF kind # info.kind THEN "obstructed"
     ELSE IF info.kind = "dir" THEN "normal"
     ELSE IF info.schedule = "add" /\ ~info.copied THEN "added"
     ELSE IF info.text \in {None, wc.disk[path].text} THEN "normal" ELSE "modified"

Scheduled == [normal |-> "normal", add |-> "added", delete |-> "deleted", replace |-> "replaced"]

NodeStatus(info, file) ==
  IF info.presence = "incomplete" THEN "incomplete"
  ELSE IF info.schedule = "normal" /\ info.conflict # {} THEN "conflicted"
  ELSE IF info.schedule = "normal" THEN file
  ELSE Scheduled[info.schedule]

StatusRecord(info, file) ==
  [node |-> IF file \in {"missing", "obstructed"} THEN file ELSE NodeStatus(info, file),
   text |-> IF file # "normal" THEN file ELSE Scheduled[info.schedule],
   prop |-> IF info.base = info.prop THEN "normal" ELSE "modified",
   conflicted |-> info.conflict # {}]

\* statusForInfo, Refused when the path cannot be looked up on disk.
StatusForInfo(wc, path, info) ==
  IF info.schedule = "delete" THEN StatusRecord(info, "normal")
  ELSE IF Blocked(wc.disk, path) THEN Refused
  ELSE StatusRecord(info, FilesystemStatus(wc, path, info))

StatusOf(wc, path) == StatusForInfo(wc, path, Info(wc, path))

\* The versioned paths below a target, and what is unversioned there.
VersionedBelow(wc, target) == {p \in Versioned(wc) : Under(p, target)}

Unversioned(wc, target) ==
  {p \in DOMAIN wc.disk \ Versioned(wc) :
     Under(p, target) /\ \A n \in Len(target) .. Len(p) - 1 : SubSeq(p, 1, n) \in Versioned(wc)}

StatusFails(wc, target) == \E p \in VersionedBelow(wc, target) : StatusOf(wc, p) = Refused

Differs(status) == status.node # "normal" \/ status.prop # "normal"

\* Diff: the paths that differ, Refused when one cannot be read.
Diff(wc, target) ==
  LET Unreadable(p, info) == info.kind = "file" /\ info.schedule # "delete" /\ p \notin DOMAIN wc.disk
  IN IF StatusFails(wc, target) THEN Refused
     ELSE IF \E p \in VersionedBelow(wc, target) : Differs(StatusOf(wc, p)) /\ Unreadable(p, Info(wc, p)) THEN Refused
     ELSE {p \in VersionedBelow(wc, target) : Differs(StatusOf(wc, p))}

-----------------------------------------------------------------------------
(* The disk and the work queue.  An operation gives the working copy after   *)
(* it and whether it returned without an error.                             *)

Done(wc)  == [wc |-> wc, ok |-> TRUE]
Error(wc) == [wc |-> wc, ok |-> FALSE]

Dir == EmptyDir
File(text) == Node("file", text, "")

\* os.MkdirAll, Refused when a file is in the way.
MkdirAll(disk, path) ==
  LET dirs == {SubSeq(path, 1, n) : n \in 0 .. Len(path)}
  IN IF \E p \in dirs : KindAt(disk, p) = "file" THEN Refused
     ELSE [p \in DOMAIN disk \cup dirs |-> IF p \in DOMAIN disk THEN disk[p] ELSE Dir]

Filled(disk, path) == \E p \in DOMAIN disk : p # path /\ Under(p, path)

Item(op, path) == [op |-> op, path |-> path, text |-> None]

Enqueue(wc, item) == [wc EXCEPT !.queue = Append(@, item)]

\* installFile: from the given text or the pristine one.
InstallText(item, info) ==
  IF info = None THEN None
  ELSE IF item.text # None THEN item.text ELSE IF info.kind = "file" THEN info.text ELSE None

Installed(made, path, text) ==
  IF made = Refused \/ text = None \/ Filled(made, path) THEN Refused ELSE With(made, path, File(text))

InstallFile(wc, item) ==
  Installed(MkdirAll(wc.disk, Front(item.path)), item.path, InstallText(item, Info(wc, item.path)))

\* runWorkItem: what the disk is after it, Refused when it fails.
RunItem(wc, item) ==
  CASE item.op = "file-install" -> InstallFile(wc, item)
    [] item.op = "dir-install"  -> MkdirAll(wc.disk, item.path)
    [] item.op = "file-remove"  -> IF Blocked(wc.disk, item.path) \/ Filled(wc.disk, item.path) THEN Refused
                                   ELSE Without(wc.disk, item.path)
    [] item.op = "dir-remove"   -> IF Blocked(wc.disk, item.path) THEN Refused ELSE Without(wc.disk, item.path)

\* RunWorkQueue: the items in order; one that fails stays, with those behind it.
RunWorkQueue(wc) ==
  LET Ran(s, disk) ==
        IF disk = Refused THEN Error(s.wc) ELSE [s EXCEPT !.wc.disk = disk, !.wc.queue = Tail(@)]
  IN FoldLeft(LAMBDA s, item : IF s.ok THEN Ran(s, RunItem(s.wc, item)) ELSE s, Done(wc), wc.queue)

-----------------------------------------------------------------------------
(* Scheduling *)

RemoveAll(wc, path) == [wc EXCEPT !.disk = Without(@, path)]

\* addPath for everything on disk there; a row that exists keeps its revision.
AddPaths(wc, path) ==
  LET Upsert(w, p) ==
        LET kind == w.disk[p].kind
            key  == <<p, Len(path)>>
        IN PutRow(w, p, Len(path),
                  IF key \in DOMAIN w.nodes
                  THEN [w.nodes[key] EXCEPT !.presence = "normal", !.kind = kind, !.prop = ""]
                  ELSE AddedRow(kind))
  IN FoldSet(LAMBDA p, w : Upsert(w, p), wc, {p \in DOMAIN wc.disk : Under(p, path)})

Add(wc, path, force) ==
  LET parent == Info(wc, Front(path))
  IN IF \/ path = <<>> \/ path \notin DOMAIN wc.disk
        \/ parent = None \/ (Info(wc, path) # None /\ ~force) THEN Error(wc)
     ELSE IF parent.kind # "dir" THEN Error(wc) ELSE Done(AddPaths(wc, path))

\* The directory stays when it cannot be added.
Mkdir(wc, path) ==
  IF KindAt(wc.disk, Front(path)) # "dir" \/ path \in DOMAIN wc.disk THEN Error(wc)
  ELSE Add([wc EXCEPT !.disk = With(@, path, Dir)], path, FALSE)

\* copyTree, Refused when it fails.
CopyTree(disk, source, path) ==
  LET made == IF disk[source].kind = "dir" THEN MkdirAll(disk, path)
              ELSE IF KindAt(disk, Front(path)) = "dir" THEN disk ELSE Refused
  IN IF made = Refused THEN Refused ELSE Grafted(made, disk, source, path)

\* The rows that are current at the source, as BASE or scheduled, become rows
\* of a copy, those of deleted nodes too; the copy on disk stays when a row is
\* there already.
Copy(wc, source, path) ==
  LET copied == CopyTree(wc.disk, source, path)
      after  == [wc EXCEPT !.disk = copied]
      rows   == VersionedBelow(wc, source)
      To(p)  == path \o SubSeq(p, Len(source) + 1, Len(p))
      Insert(w, p) == PutRow(w, To(p), Len(path), [CurrentRow(wc, p) EXCEPT !.presence = "normal"])
  IN IF \/ source = <<>> \/ path = <<>> \/ (path # source /\ Under(path, source))
        \/ Info(wc, source) = None \/ source \notin DOMAIN wc.disk
        \/ path \in DOMAIN wc.disk \/ Blocked(wc.disk, path) THEN Error(wc)
     ELSE IF copied = Refused THEN Error(wc)
     ELSE IF \E p \in rows : <<To(p), Len(path)>> \in DOMAIN wc.nodes THEN Error(after)
     ELSE Done(FoldSet(LAMBDA p, w : Insert(w, p), after, rows))

\* insertDeleteLayer
InsertDeleteLayer(wc, path) ==
  LET cleared == DropRows(wc, Layers(wc, VersionedBelow(wc, path)))
  IN FoldSet(LAMBDA p, w : PutRow(w, p, Len(path), DeletedRow(BaseRow(w, p).kind)),
             cleared, VersionedBelow(cleared, path))

\* checkDeleteSafe
DeleteSafe(wc, path) ==
  /\ ~StatusFails(wc, path)
  /\ Unversioned(wc, path) = {}
  /\ \A p \in VersionedBelow(wc, path) :
       LET status == StatusOf(wc, p)
       IN /\ status.text # "modified" /\ status.prop # "modified" /\ ~status.conflicted
          /\ status.node \notin {"added", "replaced", "missing", "obstructed"}

Delete(wc, path, force, keepLocal) ==
  LET gone == IF OpDepth(wc, path) > 0 /\ BaseRow(wc, path) = None
              THEN DropRows(wc, Layers(wc, VersionedBelow(wc, path)))
              ELSE InsertDeleteLayer(wc, path)
  IN IF path = <<>> \/ Info(wc, path) = None THEN Error(wc)
     ELSE IF ~force /\ ~DeleteSafe(wc, path) THEN Error(wc)
     ELSE IF keepLocal THEN Done(gone)
     ELSE IF Blocked(wc.disk, path) THEN Error(gone) ELSE Done(RemoveAll(gone, path))

\* The source is deleted once it is copied, whatever is in it.
Move(wc, source, path) ==
  LET copy == Copy(wc, source, path)
  IN IF copy.ok THEN Delete(copy.wc, source, TRUE, FALSE) ELSE copy

\* An addition keeps its properties in NODES, everything else in ACTUAL_NODE.
SetProperty(wc, path, value) ==
  LET info == Info(wc, path)
  IN IF info = None THEN Error(wc)
     ELSE IF info.op > 0 /\ info.schedule = "add"
     THEN Done([wc EXCEPT !.nodes[<<path, info.op>>].prop = value])
     ELSE Done(PutActual(wc, path, [ActualRow(wc, path) EXCEPT !.prop = value]))

-----------------------------------------------------------------------------
(* Reverting and resolving *)

\* revertPaths
RevertPaths(wc, path, depth) ==
  {p \in Versioned(wc) :
     \/ p = path
     \/ depth = "infinity" /\ Under(p, path)
     \/ p # <<>> /\ Front(p) = path
        /\ (depth = "immediates" \/ (depth = "files" /\ CurrentRow(wc, p).kind # "dir"))}

\* Directories that BASE has are made at once and files by the work queue, parents
\* first; one directory that cannot be made ends it, before the
\* work queue is run.
Restore(wc, paths) ==
  LET Make(s, p) ==
        LET base == BaseRow(s.wc, p)
            made == MkdirAll(s.wc.disk, p)
        IN IF ~s.ok THEN s
           ELSE IF base = None THEN s
           ELSE IF base.kind = "file" THEN [s EXCEPT !.wc = Enqueue(@, Item("file-install", p))]
           ELSE IF made = Refused THEN Error(s.wc) ELSE [s EXCEPT !.wc.disk = made]
      done == FoldLeft(Make, Done(wc), SortedPaths(paths))
  IN IF done.ok THEN RunWorkQueue(done.wc) ELSE done

\* Mutant: only what was scheduled at a path itself is reverted.
RevertOwnRows(wc, paths) == DropRows(wc, {key \in Layers(wc, paths) : key[2] = Len(key[1])})

RevertRows(wc, paths) == DropRows(wc, Layers(wc, paths))

Revert(wc, path, depth, removeAdded) ==
  LET paths   == RevertPaths(wc, path, depth)
      added   == {p \in paths : OpDepth(wc, p) > 0 /\ BaseRow(wc, p) = None}
      cleared == ClearActual(RevertRows(wc, paths), paths)
  IN Restore(IF removeAdded THEN FoldSet(LAMBDA p, w : RemoveAll(w, p), cleared, added) ELSE cleared, paths)

\* resolveTreeWithIncoming
ResolveTreeWithIncoming(wc, path) ==
  LET rows  == DropRows(wc, Layers(wc, VersionedBelow(wc, path)))
      based == BaseRow(wc, path) # None
      clean == IF based THEN ClearProps(rows, {p \in DOMAIN rows.actual : Under(p, path)})
               ELSE ClearActual(rows, {p \in DOMAIN rows.actual : Under(p, path)})
      bare  == RemoveAll(clean, path)
  IN IF Blocked(wc.disk, path) THEN Error(clean)
     ELSE IF based THEN Restore(bare, VersionedBelow(bare, path)) ELSE Done(bare)

\* ResolveWithChoice.  The paths of the markers of a text conflict are absolute
\* and joined to the directory again: no file is there to be chosen.
Resolve(wc, path, choice) ==
  LET info  == Info(wc, path)
      tree  == IF "tree" \in info.conflict /\ choice = "theirs" THEN ResolveTreeWithIncoming(wc, path)
               ELSE Done(wc)
      clear == PutActual(tree.wc, path, [ActualRow(tree.wc, path) EXCEPT !.conflict = {}])
  IN IF info = None THEN Error(wc)
     ELSE IF "tree" \in info.conflict /\ choice = "base" THEN Error(wc)
     ELSE IF ~tree.ok THEN tree
     ELSE IF "text" \in info.conflict /\ choice # "working" THEN Error(tree.wc)
     ELSE Done(clear)
=============================================================================
