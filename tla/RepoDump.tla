-------------------------------- MODULE RepoDump --------------------------------
(***************************************************************************)
(* Dumping a range of revisions as node records and loading them into a     *)
(* repository.  A dump is a sequence of revisions, each with its number and *)
(* its node records in the order they are written.                          *)
(***************************************************************************)
EXTENDS RepoTree

-----------------------------------------------------------------------------
(* Dump *)

\* A snapshot lists every node of a revision but its root.
Snapshot(fs, rev) ==
  [p \in DOMAIN fs[rev].tree \ {<<>>} |->
     LET kind == fs[rev].tree[p].kind IN Change("add", kind, kind = "file", TRUE, None)]

\* Whether a record carries the properties or the text: they were modified, or
\* the node is new and has no source to take them from.
Includes(change, modified) == modified \/ (change.kind \in {"add", "replace"} /\ change.from = None)

\* Mutant: the delta is made from the revision that is dumped.
DeltaSourceNow(rev, path, change) ==
  IF change.from # None THEN change.from ELSE IF change.kind = "modify" THEN Place(path, rev) ELSE None

\* Where the delta of a text is made from, None for a full text.
DeltaSource(rev, path, change) ==
  IF change.from # None THEN change.from
  ELSE IF change.kind = "modify" THEN Place(path, rev - 1) ELSE None

\* A node record; base is the text a delta in it applies to.
DumpNode(fs, rev, path, change, deltas) ==
  LET tree   == fs[rev].tree
      source == DeltaSource(rev, path, change)
      props  == Includes(change, change.props)
      text   == change.nodeKind = "file" /\ Includes(change, change.text)
      record == [path |-> path, kind |-> change.nodeKind, action |-> change.kind, from |-> change.from,
                 prop |-> None, text |-> None, base |-> None, delta |-> deltas]
      isFile(place) == KindAt(fs[place.rev].tree, place.path) = "file"
  IN IF change.kind = "delete" THEN record
     ELSE IF (props /\ path \notin DOMAIN tree) \/ (change.nodeKind = "file" /\ KindAt(tree, path) # "file")
     THEN Refused
     ELSE IF text /\ deltas /\ source # None /\ ~isFile(source) THEN Refused
     ELSE [record EXCEPT !.prop = IF props THEN tree[path].prop ELSE None,
                         !.text = IF text THEN tree[path].text ELSE None,
                         !.base = IF text /\ deltas /\ source # None
                                  THEN fs[source.rev].tree[source.path].text ELSE None]

DumpRevision(fs, rev, snapshot, deltas) ==
  LET changes == IF snapshot THEN Snapshot(fs, rev) ELSE fs[rev].changes
      paths   == SortedPaths(DOMAIN changes)
  IN [number |-> rev,
      nodes  |-> [i \in DOMAIN paths |-> DumpNode(fs, rev, paths[i], changes[paths[i]], deltas)]]

\* The first revision is a snapshot unless the dump is incremental.
Dump(fs, start, end, incremental, deltas) ==
  [i \in 1 .. end - start + 1 |->
     LET rev == start + i - 1
     IN IF rev = 0 THEN [number |-> 0, nodes |-> <<>>]
        ELSE DumpRevision(fs, rev, rev = start /\ ~incremental, deltas)]

-----------------------------------------------------------------------------
(* Load *)

LoadAdd(fs, txn, record, revs) ==
  IF record.action \notin {"add", "replace"} \/ txn = Refused THEN txn
  ELSE IF record.from # None
  THEN CopyNode(fs, txn, IF record.from.rev \in DOMAIN revs THEN revs[record.from.rev] ELSE record.from.rev,
                record.from.path, record.path)
  ELSE MakeNode(txn, record.path, record.kind)

LoadProp(fs, txn, record) ==
  LET Set(current) == IF current = Refused THEN Refused
                      ELSE IF current = record.prop THEN txn ELSE ChangeNodeProp(fs, txn, record.path, record.prop)
  IN IF txn = Refused \/ record.prop = None THEN txn
     ELSE IF record.path \notin DOMAIN txn.nodes THEN Refused
     ELSE Set(TxnProp(fs, txn.nodes[record.path]))

LoadText(fs, txn, record) ==
  IF txn = Refused \/ record.text = None THEN txn
  ELSE IF record.delta THEN ApplyTextDelta(fs, txn, record.path, record.base, record.text)
  ELSE ApplyText(txn, record.path, record.text)

\* applyLoadNode.  A record of the root has an empty path and is not known as
\* one.
ApplyLoadNode(fs, txn, record, revs) ==
  LET Cleared     == IF record.action \in {"delete", "replace"} THEN DeleteNode(txn, record.path) ELSE txn
      Filled(new) == LoadText(fs, LoadProp(fs, new, record), record)
  IN IF txn = Refused \/ record = Refused THEN Refused
     ELSE IF record.path = <<>> THEN Refused
     ELSE Filled(LoadAdd(fs, Cleared, record, revs))

\* Load into fs: each revision is a transaction on the youngest one, and
\* revisions are renumbered.
Load(fs, dump) ==
  LET Loaded(s, txn, number) ==
        IF txn = Refused THEN Refused
        ELSE [fs |-> Committed(s.fs, txn), revs |-> With(s.revs, number, Youngest(s.fs) + 1)]
      Visit(s, revision) ==
        IF s = Refused THEN Refused
        ELSE IF revision.number = 0 THEN [s EXCEPT !.revs = [r \in {0} |-> 0]]
        ELSE Loaded(s, FoldLeft(LAMBDA txn, record : ApplyLoadNode(s.fs, txn, record, s.revs),
                                Begin(s.fs, Youngest(s.fs)), revision.nodes),
                    revision.number)
      Of(last) == IF last = Refused THEN Refused ELSE last.fs
  IN Of(FoldLeft(Visit, [fs |-> fs, revs |-> <<>>], dump))
=============================================================================
