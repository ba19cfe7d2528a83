-------------------------------- MODULE RepoTree --------------------------------
(***************************************************************************)
(* The versioned tree of an FSFS repository: the node-revisions a commit    *)
(* writes, the transaction tree it is built from, the changes it records,   *)
(* and what a revision root answers about copies and history.  A file       *)
(* system is a function from 0 .. youngest to revisions; a revision maps    *)
(* each path that exists to the node-revision found there.  A directory's   *)
(* entries are the paths below it, so a node-revision holds no entry list.  *)
(***************************************************************************)
EXTENDS EditDrive

CONSTANT None    \* no predecessor, no copy source, content not read yet

Place(path, rev) == [path |-> path, rev |-> rev]

Youngest(fs) == CHOOSE r \in DOMAIN fs : r + 1 \notin DOMAIN fs

-----------------------------------------------------------------------------
(* Node-revisions *)

\* from: the copy source; root: the copy the node-revision was made in.
NodeRev(kind, path, rev) ==
  [kind |-> kind, text |-> "", prop |-> "", path |-> path, rev |-> rev, id |-> Place(path, rev),
   pred |-> None, root |-> Place(<<>>, 0), from |-> None]

EmptyFS == [r \in {0} |-> [tree |-> [p \in {<<>>} |-> NodeRev("dir", <<>>, 0)], changes |-> <<>>]]

\* The node at a path of a revision, as a reader of a checkout sees it.
Visible(node) == Node(node.kind, node.text, node.prop)
VisibleTree(tree) == [p \in DOMAIN tree |-> Visible(tree[p])]

-----------------------------------------------------------------------------
(* The transaction tree *)

\* A node not written to yet: its content is found at Place(source, node) of
\* the repository when it is first asked for.
TxnNode(node, source, rev) ==
  [kind |-> node.kind, base |-> node, at |-> Place(source, rev), dirty |-> FALSE, isNew |-> FALSE,
   from |-> None, text |-> None, prop |-> None, textMod |-> FALSE, propMod |-> FALSE]

Begin(fs, rev) ==
  [nodes   |-> [p \in DOMAIN fs[rev].tree |-> TxnNode(fs[rev].tree[p], p, rev)],
   changes |-> <<>>]

MarkDirty(nodes, path) ==
  [p \in DOMAIN nodes |-> IF Under(path, p) THEN [nodes[p] EXCEPT !.dirty = TRUE] ELSE nodes[p]]

Change(kind, nodeKind, text, props, from) ==
  [kind |-> kind, nodeKind |-> nodeKind, text |-> text, props |-> props, from |-> from]

\* Mutant: what is added where something was deleted counts as an addition.
RecordAddAlone(changes, path, change) ==
  LET old == changes[path]
  IN With(changes, path,
          IF path \in DOMAIN changes /\ old.kind = "add" /\ change.kind = "modify"
          THEN Change("add", change.nodeKind, change.text \/ old.text, change.props \/ old.props, old.from)
          ELSE change)

\* A change of a path that was changed already: a deletion and an addition make
\* a replacement, a modification of an addition stays one.
RecordChange(changes, path, change) ==
  LET old    == changes[path]
      merged == IF path \notin DOMAIN changes THEN change
                ELSE IF old.kind = "delete" /\ change.kind = "add" THEN [change EXCEPT !.kind = "replace"]
                ELSE IF old.kind \in {"add", "replace"}
                THEN Change(old.kind, change.nodeKind, change.text \/ old.text, change.props \/ old.props,
                            IF change.from = None THEN old.from ELSE change.from)
                ELSE change
  IN With(changes, path, merged)

Free(nodes, path) ==
  /\ path # <<>> /\ Front(path) \in DOMAIN nodes /\ nodes[Front(path)].kind = "dir"
  /\ path \notin DOMAIN nodes

MakeNode(txn, path, kind) ==
  IF ~Free(txn.nodes, path) THEN Refused
  ELSE LET new == [TxnNode(NodeRev(kind, path, 0), path, 0) EXCEPT
                     !.dirty = TRUE, !.isNew = TRUE, !.text = "", !.prop = "",
                     !.textMod = (kind = "file")]
       IN [nodes   |-> MarkDirty(With(txn.nodes, path, new), path),
           changes |-> RecordChange(txn.changes, path, Change("add", kind, TRUE, FALSE, None))]

DeleteNode(txn, path) ==
  IF path = <<>> \/ path \notin DOMAIN txn.nodes THEN Refused
  ELSE [nodes   |-> MarkDirty(Without(txn.nodes, path), Front(path)),
        changes |-> RecordChange(txn.changes, path,
                                 Change("delete", txn.nodes[path].kind, FALSE, FALSE, None))]

\* The source a copy records, and where the content of what was copied is
\* looked for: the path the source node-revision was created at.
CopySource(fs, rev, path) == fs[rev].tree[path].path

CopyNode(fs, txn, rev, source, path) ==
  IF ~Free(txn.nodes, path) \/ rev \notin DOMAIN fs THEN Refused
  ELSE IF source \notin DOMAIN fs[rev].tree THEN Refused
  ELSE LET tree   == fs[rev].tree
           origin == CopySource(fs, rev, source)
           below  == {p \in DOMAIN tree : Under(p, source)}
           To(p)  == path \o SubSeq(p, Len(source) + 1, Len(p))
           nodes  == [q \in {To(p) : p \in below} |->
                        LET rest == SubSeq(q, Len(path) + 1, Len(q))
                        IN TxnNode(tree[source \o rest], origin \o rest, rev)]
           top    == [nodes[path] EXCEPT !.dirty = TRUE, !.from = Place(origin, rev)]
           all    == [p \in DOMAIN txn.nodes \cup DOMAIN nodes |->
                        IF p = path THEN top ELSE IF p \in DOMAIN nodes THEN nodes[p] ELSE txn.nodes[p]]
       IN [nodes   |-> MarkDirty(all, path),
           changes |-> RecordChange(txn.changes, path,
                                    Change("add", top.kind, FALSE, FALSE, Place(origin, rev)))]

\* What loadProperties or loadContent finds for a node not read yet.
Stored(fs, node) ==
  IF node.at.path \in DOMAIN fs[node.at.rev].tree THEN Visible(fs[node.at.rev].tree[node.at.path])
  ELSE Refused

ChangeNodeProp(fs, txn, path, value) ==
  IF path \notin DOMAIN txn.nodes THEN Refused
  ELSE IF txn.nodes[path].prop = None /\ Stored(fs, txn.nodes[path]) = Refused THEN Refused
  ELSE [nodes   |-> MarkDirty([txn.nodes EXCEPT ![path].prop = value, ![path].propMod = TRUE], path),
        changes |-> RecordChange(txn.changes, path,
                                 Change("modify", txn.nodes[path].kind, FALSE, TRUE, None))]

\* The text a delta is applied to.
TextBase(fs, node) ==
  IF node.text # None THEN node.text
  ELSE LET found == Stored(fs, node)
       IN IF found = Refused THEN Refused ELSE IF found.kind = "file" THEN found.text ELSE Refused

\* A delta against base applies to a file whose text is base.
DeltaApplies(fs, node, base) ==
  /\ TextBase(fs, node) # Refused
  /\ base = None \/ TextBase(fs, node) = base

PutText(txn, path, text) ==
  [nodes   |-> MarkDirty([txn.nodes EXCEPT ![path].text = text, ![path].textMod = TRUE], path),
   changes |-> RecordChange(txn.changes, path, Change("modify", "file", TRUE, FALSE, None))]

\* base: the text the delta was made against, None when there is no checksum.
ApplyTextDelta(fs, txn, path, base, text) ==
  IF path \notin DOMAIN txn.nodes THEN Refused
  ELSE IF txn.nodes[path].kind # "file" \/ ~DeltaApplies(fs, txn.nodes[path], base) THEN Refused
  ELSE PutText(txn, path, text)

ApplyText(txn, path, text) ==
  IF path \notin DOMAIN txn.nodes THEN Refused
  ELSE IF txn.nodes[path].kind # "file" THEN Refused ELSE PutText(txn, path, text)

\* What the transaction root shows of a node.
TxnText(fs, node) == TextBase(fs, node)
TxnProp(fs, node) ==
  IF node.prop # None THEN node.prop
  ELSE IF Stored(fs, node) = Refused THEN Refused ELSE Stored(fs, node).prop

-----------------------------------------------------------------------------
(* Commit *)

CopyRoot(node, path, rev) ==
  IF node.from # None THEN Place(path, rev)
  ELSE IF node.isNew THEN Place(<<>>, 0) ELSE node.base.root

\* The node-revision written for a node that was touched.
NodeRecord(node, path, rev) ==
  [kind |-> node.kind, path |-> path, rev |-> rev,
   id   |-> IF node.isNew THEN Place(path, rev) ELSE node.base.id,
   text |-> IF node.textMod \/ node.isNew THEN node.text ELSE node.base.text,
   prop |-> IF node.propMod \/ node.isNew THEN node.prop ELSE node.base.prop,
   pred |-> IF node.isNew THEN None ELSE node.base,
   root |-> CopyRoot(node, path, rev),
   from |-> node.from]

\* A commit of a transaction based on the youngest revision.
Committed(fs, txn) ==
  LET rev   == Youngest(fs) + 1
      nodes == txn.nodes
      tree  == [p \in DOMAIN nodes |-> IF nodes[p].dirty \/ p = <<>> THEN NodeRecord(nodes[p], p, rev)
                                       ELSE nodes[p].base]
  IN [r \in DOMAIN fs \cup {rev} |-> IF r = rev THEN [tree |-> tree, changes |-> txn.changes] ELSE fs[r]]

-----------------------------------------------------------------------------
(* What a revision root answers *)

\* A path and its parents, up to the root.
Ancestry(path) == [i \in 1 .. Len(path) + 1 |-> SubSeq(path, 1, Len(path) + 1 - i)]

\* The youngest copy a path is in, revision -1 when it is in none.
ClosestCopy(fs, rev, path) ==
  LET Climb(best, at) ==
        LET node == fs[rev].tree[at]
            up   == IF node.root.rev > best.rev /\ node.root.rev > 0 THEN node.root ELSE best
        IN IF node.from # None /\ node.rev > up.rev THEN Place(at, node.rev) ELSE up
  IN FoldLeft(Climb, Place(<<>>, -1), Ancestry(path))

RECURSIVE Line(_)
\* A node-revision and its predecessors, youngest first.
Line(node) == <<node>> \o (IF node.pred = None THEN <<>> ELSE Line(node.pred))

\* The places of a node since a copy.
PlacesSince(copy, line) ==
  LET own == SelectSeq(line, LAMBDA n : copy.rev = -1 \/ n.rev > copy.rev)
  IN [i \in DOMAIN own |-> Place(own[i].path, own[i].rev)]

RECURSIVE NodeHistory(_, _, _, _)
\* The places a path was changed at, youngest first, across copies if asked:
\* the node-revisions written since the closest copy, that copy, and what its
\* source has.
NodeHistory(fs, rev, path, cross) ==
  LET Beyond(here, before) == IF before = Refused THEN Refused ELSE here \o before
      Crossed(here, from, rest) ==
        IF from = None THEN Refused ELSE Beyond(here, NodeHistory(fs, from.rev, from.path \o rest, TRUE))
      Through(here, copy) ==
        IF ~cross THEN here
        ELSE IF copy.path \notin DOMAIN fs[copy.rev].changes THEN Refused
        ELSE Crossed(here, fs[copy.rev].changes[copy.path].from, SubSeq(path, Len(copy.path) + 1, Len(path)))
      Since(copy, places) ==
        IF copy.rev = -1 THEN places ELSE Through(Append(places, Place(path, copy.rev)), copy)
      Of(copy, line) == Since(copy, PlacesSince(copy, line))
  IN IF path \notin DOMAIN fs[rev].tree THEN Refused
     ELSE Of(ClosestCopy(fs, rev, path), Line(fs[rev].tree[path]))
=============================================================================
