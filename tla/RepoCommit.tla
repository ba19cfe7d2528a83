------------------------------- MODULE RepoCommit -------------------------------
(***************************************************************************)
(* A commit: the calls a working copy makes of its changed paths, and the   *)
(* repository's commit editor that makes a transaction of them and checks   *)
(* that what is changed is not out of date.                                 *)
(***************************************************************************)
EXTENDS RepoReport

-----------------------------------------------------------------------------
(* The drive of a working copy's commit *)

\* A local change of a path.  status: deleted, added, replaced or modified;
\* from: the source of a copy; base: the text of the pristine file; text and
\* prop are None where nothing was changed.
Local(status, kind, from, base, text, prop) ==
  [status |-> status, kind |-> kind, from |-> from, base |-> base, text |-> text, prop |-> prop]

InCopiedDir(drive, path) ==
  \E p \in DOMAIN drive : p # path /\ Under(path, p) /\ drive[p].kind = "dir" /\ drive[p].from # None

\* The text the delta is made from; only a plain addition has none.
BaseOf(change) ==
  IF change.status \in {"added", "replaced"} /\ change.from = None THEN None ELSE change.base

\* driveCommitNode
DriveNode(drive, path) ==
  LET change == drive[path]
      added  == change.status \in {"added", "replaced"}
      Enter  == IF ~added \/ InCopiedDir(drive, path) THEN Call("open_" \o change.kind, path)
                ELSE IF change.from = None THEN Call("add_" \o change.kind, path)
                ELSE [Call("copy_" \o change.kind, path) EXCEPT !.source = change.from]
      gone   == IF change.status \in {"deleted", "replaced"} THEN <<Call("delete", path)>> ELSE <<>>
      prop   == IF change.prop = None THEN <<>> ELSE <<[Call("prop", path) EXCEPT !.text = change.prop]>>
      text   == IF change.kind = "file" /\ change.text # None
                THEN <<Delta(path, BaseOf(change), change.text)>> ELSE <<>>
      close  == IF change.kind = "file" THEN <<Call("close_file", path)>> ELSE <<>>
  IN IF change.status = "deleted" THEN [calls |-> gone, open |-> FALSE]
     ELSE [calls |-> gone \o <<Enter>> \o prop \o text \o close, open |-> change.kind = "dir"]

\* Commit: the root's properties, then the changed paths that no deleted
\* directory holds.
DriveCalls(drive) ==
  LET Hidden(path) == \E p \in DOMAIN drive : p # path /\ Under(path, p) /\ drive[p].status = "deleted"
      paths == {p \in DOMAIN drive \ {<<>>} : ~Hidden(p)}
  IN (IF <<>> \in DOMAIN drive THEN <<[Call("prop", <<>>) EXCEPT !.text = drive[<<>>].prop]>> ELSE <<>>)
     \o PathDriver([p \in paths |-> DriveNode(drive, p)])

-----------------------------------------------------------------------------
(* The repository's commit editor; e: txn, added. *)

\* Mutant: a node counts as current when it exists.
OutOfDateWhenGone(fsys, e, path, rev) == path \notin DOMAIN fsys[Youngest(fsys)].tree

\* checkOutOfDate: what was added in this commit is never out of date, nor is what
\* comes with no revision.
OutOfDate(fsys, e, path, rev) ==
  LET tree == fsys[Youngest(fsys)].tree
  IN /\ rev # -1
     /\ \A a \in e.added : ~Under(path, a)
     /\ path \notin DOMAIN tree \/ tree[path].rev > rev

EditorCall(fsys, e, call, rev) ==
  LET p == call.path
      On(txn)    == IF txn = Refused THEN Refused ELSE [e EXCEPT !.txn = txn]
      Added(txn) == IF txn = Refused THEN Refused ELSE [txn |-> txn, added |-> e.added \cup {p}]
      Open(kind) == IF OutOfDate(fsys, e, p, rev) \/ KindAt(e.txn.nodes, p) # kind THEN Refused ELSE e
      Copy       == Added(CopyNode(fsys, e.txn, call.source.rev, call.source.path, p))
  IN CASE call.op \in {"close_dir", "close_file"} -> e
       [] call.op = "open_dir"  -> Open("dir")
       [] call.op = "open_file" -> Open("file")
       [] call.op = "delete"    -> IF OutOfDate(fsys, e, p, rev) THEN Refused ELSE On(DeleteNode(e.txn, p))
       [] call.op = "add_dir"   -> Added(MakeNode(e.txn, p, "dir"))
       [] call.op = "add_file"  -> Added(MakeNode(e.txn, p, "file"))
       [] call.op \in {"copy_dir", "copy_file"} -> Copy
       [] call.op = "prop"      -> On(ChangeNodeProp(fsys, e.txn, p, call.text))
       [] call.op = "text"      -> On(ApplyTextDelta(fsys, e.txn, p, call.base, call.text))

\* A working copy at one revision.
OpenedAt(calls, rev) == [p \in {<<>>} \cup {call.path : call \in ToSet(calls)} |-> rev]

\* GetCommitEditor to CloseEdit; revs: the revision each path is opened at.
ReposCommit(fsys, calls, revs) ==
  LET begun == [txn |-> Begin(fsys, Youngest(fsys)), added |-> {}]
      done  == FoldLeft(LAMBDA e, call : IF e = Refused THEN Refused ELSE EditorCall(fsys, e, call, revs[call.path]),
                        begun, calls)
  IN IF revs[<<>>] > Youngest(fsys) \/ done = Refused THEN Refused ELSE Committed(fsys, done.txn)
=============================================================================
