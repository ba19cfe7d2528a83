-------------------------------- MODULE WcUpdate --------------------------------
(***************************************************************************)
(* What connects a working copy with its repository: the crawl that reports *)
(* BASE, the update editor that the session drives with the difference, and *)
(* a commit with what follows it.  The editor writes rows in a transaction  *)
(* and queues what is to happen on disk; closing it runs the work queue and *)
(* commits.  The target is the root of the working copy, over file://.      *)
(***************************************************************************)
EXTENDS WcRows

-----------------------------------------------------------------------------
(* Creating, and reporting BASE *)

\* Create: a root that has nothing yet.
Create(source, rev) ==
  [nodes  |-> [key \in {<<<<>>, 0>>} |-> Row("incomplete", "dir", None, "", rev, source)],
   actual |-> <<>>, queue |-> <<>>, disk |-> [p \in {<<>>} |-> Dir]]

WithinTarget(path, depth, kind) ==
  \/ path = <<>> \/ depth = "infinity"
  \/ Len(path) = 1 /\ (depth = "immediates" \/ (depth = "files" /\ kind # "dir"))

\* crawl: each node whose place does not follow from its parent's.
Crawl(wc, depth) ==
  LET based == {p \in Versioned(wc) : BaseRow(wc, p) # None /\ WithinTarget(p, depth, BaseRow(wc, p).kind)}
      Row0(p) == BaseRow(wc, p)
      Reported(p) ==
        \/ p = <<>>
        \/ Front(p) \notin based
        \/ Row0(p).from # Append(Row0(Front(p)).from, Last(p))
        \/ Row0(p).rev # Row0(Front(p)).rev
        \/ Row0(p).presence = "incomplete"
        \/ Row0(p).kind = "dir" /\ Row0(p).depth # "infinity"
  IN [p \in {q \in based : Reported(q)} |->
        [Entry(Row0(p).rev, Row0(p).from, Row0(p).depth) EXCEPT !.empty = (Row0(p).presence = "incomplete")]]

-----------------------------------------------------------------------------
(* The update editor.  e: wc, dirs (the open directories), file, deleted and *)
(* sources (BASE rows that were deleted, by the place they were at).  o: fs, *)
(* rev, source (the directory updated to), force, accept, setDepth.          *)

\* What the editor holds of a node it is in.  mine and props: the properties
\* on disk and those it will have; text: the text a delta applies to; new: the
\* text received.
Handler(kind, path, props) ==
  [kind |-> kind, path |-> path, base |-> props, mine |-> props, props |-> props, text |-> None, new |-> None,
   depth |-> "infinity", added |-> FALSE, modified |-> FALSE, localDeleted |-> FALSE, localAdded |-> FALSE,
   conflicted |-> FALSE, obstructed |-> FALSE, shadowed |-> FALSE, noop |-> FALSE]

AddedHandler(kind, path) == [Handler(kind, path, "") EXCEPT !.added = TRUE]

\* One on a node that has an Info.
OpenHandler(info, path) ==
  [Handler(info.kind, path, info.base) EXCEPT !.mine = info.prop, !.text = info.text, !.depth = info.depth,
     !.localDeleted = (info.schedule = "delete")]

\* A node added again by the repository over a conflict kept locally.
ConflictedHandler(info, base, path) ==
  [Handler(base.kind, path, base.prop) EXCEPT !.mine = info.prop, !.text = base.text, !.depth = info.depth,
     !.added = TRUE, !.localAdded = TRUE, !.conflicted = TRUE]

Parent(e) == Last(e.dirs)

Enter(e, handler) ==
  IF handler = Refused THEN Refused
  ELSE IF handler.kind = "dir" THEN [e EXCEPT !.dirs = Append(@, handler)] ELSE [e EXCEPT !.file = handler]

\* Mutant: a row that is there keeps its revision.
WriteNodeUnbumped(o, wc, h, presence) ==
  LET old == BaseRow(wc, h.path)
      row == Row(presence, h.kind, IF h.kind = "file" THEN h.text ELSE None, h.props,
                 IF old = None THEN o.rev ELSE old.rev, o.source \o h.path)
  IN PutRow(wc, h.path, 0, [row EXCEPT !.depth = h.depth])

\* updateDirectory.writeNode and updateFile.writeNode
WriteNode(o, wc, h, presence) ==
  LET old == BaseRow(wc, h.path)
      row == Row(presence, h.kind, IF h.kind = "file" THEN h.text ELSE IF old = None THEN None ELSE old.text,
                 h.props, o.rev, o.source \o h.path)
  IN PutRow(wc, h.path, 0,
            [row EXCEPT !.depth = IF h.kind = "dir" THEN h.depth ELSE IF old = None THEN "infinity" ELSE old.depth])

RecordConflict(wc, path, kind) ==
  PutActual(wc, path, [ActualRow(wc, path) EXCEPT !.conflict = @ \cup {kind}])

\* rememberCopySources
Remember(e, path) ==
  LET rows == {BaseRow(e.wc, p) : p \in {q \in VersionedBelow(e.wc, path) : BaseRow(e.wc, q) # None}}
  IN FoldSet(LAMBDA row, sources : With(sources, Place(row.from, row.rev), row), e.sources, rows)

\* copySourceNode
SourceNode(e, place) ==
  LET found == {key \in DOMAIN e.wc.nodes :
                  key[2] = 0 /\ Place(e.wc.nodes[key].from, e.wc.nodes[key].rev) = place}
  IN IF place = <<>> THEN None
     ELSE IF place \in DOMAIN e.sources THEN e.sources[place]
     ELSE IF found = {} THEN None ELSE e.wc.nodes[CHOOSE key \in found : TRUE]

\* A deleted node that was changed stays as an addition with history.
KeepDeleted(wc, path) ==
  LET Keep(w, p) == IF <<p, Len(path)>> \in DOMAIN w.nodes THEN w
                    ELSE PutRow(w, p, Len(path), [BaseRow(w, p) EXCEPT !.presence = "normal"])
  IN FoldSet(LAMBDA p, w : Keep(w, p), wc, {p \in VersionedBelow(wc, path) : BaseRow(wc, p) # None})

\* Whether an incoming deletion meets local changes, Refused when that cannot
\* be told.
LocallyModified(wc, path, info) ==
  LET InDirectory(diff) == IF diff = Refused THEN Refused ELSE diff # {}
      InFile(status)    == IF status = Refused THEN Refused ELSE status.text = "modified" \/ status.prop = "modified"
  IN IF info = None THEN FALSE
     ELSE IF info.schedule = "delete" THEN FALSE
     ELSE IF info.kind = "file" THEN InFile(StatusForInfo(wc, path, info))
     ELSE IF path \notin DOMAIN wc.disk THEN FALSE ELSE InDirectory(Diff(wc, path))

\* The BASE rows at and below a path.
BaseBelow(wc, path) == {key \in DOMAIN wc.nodes : key[2] = 0 /\ Under(key[1], path)}

\* Mutant: what was changed locally is deleted as well.
DropEntryBlindly(o, e, path, info, found) ==
  LET bare == DropRows(e.wc, BaseBelow(e.wc, path))
  IN [e EXCEPT !.wc = IF info = None THEN bare ELSE Enqueue(bare, Item(info.kind \o "-remove", path)),
               !.deleted = @ \cup {path}, !.sources = Remember(e, path)]

\* What is changed here and not given up stays, in conflict.
DropEntry(o, e, path, info, found) ==
  LET Bare(wc) == DropRows(wc, BaseBelow(wc, path))
  IN IF found = Refused THEN Refused
     ELSE [e EXCEPT !.deleted = @ \cup {path}, !.sources = Remember(e, path),
                    !.wc = IF found /\ o.accept # "theirs"
                           THEN RecordConflict(Bare(KeepDeleted(@, path)), path, "tree")
                           ELSE IF info = None THEN Bare(@)
                           ELSE Enqueue(Bare(@), Item(info.kind \o "-remove", path))]

DeleteEntry(o, e, path) ==
  LET info == Info(e.wc, path)
  IN IF Parent(e).obstructed THEN e ELSE DropEntry(o, e, path, info, LocallyModified(e.wc, path, info))

\* materializeCopyDirectory: the rows of a copied directory, when BASE has it
\* whole at the revision copied; Refused when it has not.
Materialize(o, e, path, place, root) ==
  LET inBase  == {key \in DOMAIN e.wc.nodes : key[2] = 0 /\ Under(e.wc.nodes[key].from, place.path)}
      inCache == {p \in DOMAIN e.sources : p.rev = place.rev /\ Under(p.path, place.path)}
      RowAt(p) == IF Place(p, place.rev) \in inCache THEN e.sources[Place(p, place.rev)]
                  ELSE e.wc.nodes[CHOOSE key \in inBase : e.wc.nodes[key].from = p]
      Put(w, from, to, row) ==
        Enqueue(PutRow(w, to, 0, [row EXCEPT !.presence = IF from = place.path THEN "incomplete" ELSE "normal",
                                             !.rev = o.rev, !.from = o.source \o to]),
                Item(row.kind \o "-install", to))
  IN IF root = None THEN Refused
     ELSE IF root.kind # "dir" \/ root.depth # "infinity" THEN Refused
     ELSE IF \E key \in inBase : e.wc.nodes[key].rev # place.rev THEN Refused
     ELSE FoldLeft(LAMBDA w, p : Put(w, p, path \o SubSeq(p, Len(place.path) + 1, Len(p)), RowAt(p)), e.wc,
                   SortedPaths({e.wc.nodes[key].from : key \in inBase} \cup {p.path : p \in inCache}))

\* What is on disk where a node is added, other than what this edit deletes.
InTheWay(e, path) == path \in DOMAIN e.wc.disk /\ path \notin e.deleted

ScheduledAs(info, s) == IF info = None THEN FALSE ELSE info.schedule = s

\* The directory with its row: what it is copied from is made with it.
MakeDirectory(o, e, path, written, source, made) ==
  IF made # Refused
  THEN Enter([e EXCEPT !.wc = made], [Handler("dir", path, source.prop) EXCEPT !.added = TRUE])
  ELSE Enter([e EXCEPT !.wc = Enqueue(written, Item("dir-install", path))], AddedHandler("dir", path))

AddDirectory(o, e, path, place) ==
  LET info   == Info(e.wc, path)
      source == SourceNode(e, place)
      made   == IF place = <<>> THEN Refused ELSE Materialize(o, e, path, place, source)
      Write(h) == Enter([e EXCEPT !.wc = WriteNode(o, @, h, "incomplete")], h)
  IN IF Parent(e).obstructed THEN Write([AddedHandler("dir", path) EXCEPT !.obstructed = TRUE, !.shadowed = TRUE])
     ELSE IF ScheduledAs(info, "delete") THEN Enter(e, [OpenHandler(info, path) EXCEPT !.kind = "dir"])
     ELSE IF ScheduledAs(info, "add") THEN Write([AddedHandler("dir", path) EXCEPT !.localAdded = TRUE])
     ELSE IF InTheWay(e, path) THEN Write([AddedHandler("dir", path) EXCEPT !.obstructed = ~o.force])
     ELSE MakeDirectory(o, e, path, WriteNode(o, e.wc, AddedHandler("dir", path), "incomplete"), source, made)

AddFile(o, e, path, place) ==
  LET info == Info(e.wc, path)
      new  == AddedHandler("file", path)
      CopyOf(from) == IF from = None THEN new
                      ELSE [Handler("file", path, from.prop) EXCEPT !.added = TRUE, !.text = from.text]
  IN Enter(e,
       IF Parent(e).obstructed
       THEN [new EXCEPT !.modified = TRUE, !.obstructed = TRUE, !.shadowed = TRUE]
       ELSE IF ScheduledAs(info, "delete") THEN [OpenHandler(info, path) EXCEPT !.kind = "file"]
       ELSE IF ScheduledAs(info, "add") THEN [new EXCEPT !.localAdded = TRUE]
       ELSE IF InTheWay(e, path) THEN [new EXCEPT !.modified = TRUE, !.obstructed = ~o.force]
       ELSE CopyOf(SourceNode(e, place)))

Noop(kind, path) == [Handler(kind, path, "") EXCEPT !.noop = TRUE]

\* OpenDirectory and OpenFile, of a path that has an Info.
OpenNode(e, kind, path, info, base, status) ==
  IF kind = "file" /\ status = Refused THEN Refused
  ELSE IF "tree" \in info.conflict /\ info.op > 0
  THEN Enter(e, IF base = None THEN Refused ELSE [ConflictedHandler(info, base, path) EXCEPT !.kind = kind])
  ELSE Enter(e, [OpenHandler(info, path) EXCEPT
                   !.kind = kind, !.modified = (kind = "file" /\ status.text = "modified")])

\* Where there is none the node is added.
Open(e, kind, path) ==
  OpenNode(e, kind, path, Info(e.wc, path), BaseRow(e.wc, path), StatusOf(e.wc, path))

\* updateFile.ApplyTextDelta: the pristine of a base that is named is always
\* there; a delta fits the text BASE has.
ReceiveText(h, base, text) ==
  IF base # None /\ h.text \notin {None, base} THEN Refused
  ELSE [h EXCEPT !.new = text, !.text = IF base # None THEN base ELSE @]

\* reconcileUpdateProperties; the rejected property is written beside the node.
Reconcile(o, wc, h) ==
  LET clash  == h.mine \notin {h.base, h.props} /\ h.props # h.base
      merged == IF h.mine = h.base THEN h.props
                ELSE IF ~clash THEN h.mine
                ELSE IF o.accept = "base" THEN h.base ELSE IF o.accept = "theirs" THEN h.props ELSE h.mine
      reject == clash /\ o.accept = "postpone"
      actual == ActualRow(wc, h.path)
  IN IF h.added THEN wc
     ELSE IF reject /\ h.path # <<>> /\ KindAt(wc.disk, Front(h.path)) # "dir" THEN Refused
     ELSE IF reject THEN PutActual(wc, h.path, [prop |-> merged, conflict |-> actual.conflict \cup {"prop"}])
     ELSE PutActual(wc, h.path, [actual EXCEPT !.prop = IF merged = h.props THEN None ELSE merged])

\* What a directory or a file leaves when it is closed: conflicts with what is
\* scheduled here, and a deletion over what is in the way.
Leave(wc, h) ==
  LET Met == IF h.localDeleted \/ (h.localAdded /\ ~h.conflicted) THEN RecordConflict(wc, h.path, "tree") ELSE wc
      Hidden(met) == IF h.obstructed THEN InsertDeleteLayer(met, h.path) ELSE met
  IN IF wc = Refused THEN Refused
     ELSE IF h.obstructed /\ ~h.shadowed THEN RecordConflict(Hidden(Met), h.path, "tree") ELSE Hidden(Met)

CloseDirectory(o, e) ==
  LET h == Parent(e)
      Close(wc) == IF wc = Refused THEN Refused ELSE [e EXCEPT !.wc = wc, !.dirs = Front(@)]
  IN IF h.noop THEN [e EXCEPT !.dirs = Front(@)]
     ELSE Close(Leave(Reconcile(o, WriteNode(o, e.wc, h, "normal"), h), h))

\* diff3.Merge of texts that are one line each, and the choice for a conflict.
MergeTexts(o, base, mine, theirs) ==
  IF mine = base \/ mine = theirs THEN [text |-> theirs, conflict |-> FALSE]
  ELSE IF theirs = base THEN [text |-> mine, conflict |-> FALSE]
  ELSE CASE o.accept \in {"working", "mine"} -> [text |-> mine, conflict |-> FALSE]
         [] o.accept = "base"     -> [text |-> base, conflict |-> FALSE]
         [] o.accept = "theirs"   -> [text |-> theirs, conflict |-> FALSE]
         [] o.accept = "postpone" -> [text |-> "<" \o mine \o "|" \o theirs \o ">", conflict |-> TRUE]

\* updateFile.Close of a file that is given this text, merged or None when there
\* is nothing to merge.
Install(o, e, text, merge) ==
  LET h       == e.file
      started == IF merge = None THEN e.wc
                 ELSE IF merge.conflict THEN PutActual(e.wc, h.path, [ActualRow(e.wc, h.path) EXCEPT !.conflict = {"text"}])
                 ELSE e.wc
      item    == [Item("file-install", h.path) EXCEPT !.text = IF merge = None THEN None ELSE merge.text]
      Queue(wc) == IF h.localDeleted \/ h.localAdded \/ (h.modified /\ merge = None) THEN wc ELSE Enqueue(wc, item)
      Close(written) == IF written = Refused THEN Refused ELSE [e EXCEPT !.file = None, !.wc = Leave(Queue(written), h)]
  IN Close(Reconcile(o, WriteNode(o, started, [h EXCEPT !.text = text], "normal"), h))

\* expected is the text the session's checksum is of.
CloseFile(o, e, expected) ==
  LET h      == e.file
      text   == IF h.new # None THEN h.new ELSE h.text
      merges == h.new # None /\ h.modified /\ h.text # None
  IN IF h.noop THEN [e EXCEPT !.file = None]
     ELSE IF merges /\ KindAt(e.wc.disk, h.path) # "file" THEN Refused
     ELSE IF text \notin {None, expected} THEN Refused
     ELSE Install(o, e, text, IF merges THEN MergeTexts(o, h.text, e.wc.disk[h.path].text, h.new) ELSE None)

\* One call; a call for an open file goes to it, any other to the directory
\* on top.
UpdateCall(o, e, call) ==
  LET p == call.path
      kind   == IF call.op \in {"open_dir", "add_dir", "copy_dir"} THEN "dir" ELSE "file"
      opens  == call.op \in {"open_dir", "open_file"}
      source == IF call.op \in {"copy_dir", "copy_file"} THEN call.source ELSE <<>>
      Prop   == IF e.file # None THEN [e EXCEPT !.file.props = call.text]
                ELSE [e EXCEPT !.dirs[Len(e.dirs)].props = call.text]
      Text(file) == IF file = Refused THEN Refused ELSE [e EXCEPT !.file = file]
      Child  == IF Parent(e).noop \/ (opens /\ Parent(e).obstructed) THEN Enter(e, Noop(kind, p))
                ELSE IF opens /\ Info(e.wc, p) # None THEN Open(e, kind, p)
                ELSE IF kind = "dir" THEN AddDirectory(o, e, p, source) ELSE AddFile(o, e, p, source)
  IN IF e = Refused \/ call = Failing THEN Refused
     ELSE CASE call.op = "close_dir"  -> CloseDirectory(o, e)
            [] call.op = "close_file" -> CloseFile(o, e, o.fs[o.rev].tree[o.source \o p].text)
            [] call.op = "prop"   -> Prop
            [] call.op = "text"   -> Text(ReceiveText(e.file, call.base, call.text))
            [] call.op = "delete" -> IF Parent(e).noop THEN e ELSE DeleteEntry(o, e, p)
            [] OTHER -> Child

\* CloseEdit: a call or a work item that fails rolls the rows back; what the
\* queue has done on disk stays.
CloseEdit(wc, end) ==
  LET Finish(ran) == IF ran.ok THEN ran ELSE Error([wc EXCEPT !.disk = ran.wc.disk])
  IN IF end = Refused THEN Error(wc) ELSE Finish(RunWorkQueue(end.wc))

\* The drive of an editor.
Edit(o, wc, calls) ==
  LET info  == Info(wc, <<>>)
      root  == [OpenHandler(info, <<>>) EXCEPT !.kind = "dir", !.localDeleted = FALSE,
                  !.depth = IF o.setDepth = None THEN info.depth ELSE o.setDepth]
      begun == [wc |-> wc, dirs |-> <<root>>, file |-> None, deleted |-> {}, sources |-> <<>>]
  IN CloseEdit(wc, FoldLeft(LAMBDA e, call : UpdateCall(o, e, call), begun, calls \o <<Call("close_dir", <<>>)>>))

-----------------------------------------------------------------------------
(* Update *)

\* depthPruneCandidates
PruneCandidates(wc, depth) ==
  {p \in Versioned(wc) : ~WithinTarget(p, depth, CurrentRow(wc, p).kind)}

\* checkDepthPrune
PruneSafe(wc, depth) ==
  LET candidates == PruneCandidates(wc, depth)
  IN candidates = {} \/
     (/\ ~StatusFails(wc, <<>>)
      /\ \A p \in candidates :
           LET s == StatusOf(wc, p)
           IN s.node = "normal" /\ s.text # "modified" /\ s.prop # "modified" /\ ~s.conflicted)

\* pruneDepth
PruneDepth(wc, depth) ==
  LET candidates == PruneCandidates(wc, depth)
      rows  == ClearActual(DropRows(wc, {key \in DOMAIN wc.nodes : key[1] \in candidates}), candidates)
      Shallow(key) == key[2] = 0 /\ Len(key[1]) = 1 /\ rows.nodes[key].kind = "dir"
      nodes == [key \in DOMAIN rows.nodes |->
                  IF depth = "immediates" /\ Shallow(key) THEN [rows.nodes[key] EXCEPT !.depth = "empty"]
                  ELSE rows.nodes[key]]
  IN IF candidates = {} THEN wc
     ELSE FoldSet(LAMBDA p, w : RemoveAll(w, p), [rows EXCEPT !.nodes = nodes], candidates)

Options(force, accept, setDepth) == [force |-> force, accept |-> accept, setDepth |-> setDepth]

\* Update and Switch: source is the directory of the repository it is to be at.
Update(fs, wc, rev, source, options) ==
  LET o     == [fs |-> fs, rev |-> rev, source |-> source, force |-> options.force, accept |-> options.accept,
                setDepth |-> options.setDepth]
      depth == IF options.setDepth = None THEN "infinity" ELSE options.setDepth
      Prune(edited) == IF edited.ok /\ options.setDepth # None THEN Done(PruneDepth(edited.wc, depth)) ELSE edited
  IN IF options.setDepth # None /\ ~options.force /\ ~PruneSafe(wc, depth) THEN Error(wc)
     ELSE Prune(Edit(o, wc, FinishReport(fs, rev, source, Crawl(wc, depth), TRUE, depth)))

Checkout(fs, rev) == Update(fs, Create(<<>>, rev), rev, <<>>, Options(FALSE, "postpone", None))
=============================================================================
