-------------------------------- MODULE WcCommit --------------------------------
(***************************************************************************)
(* The commit of a whole working copy: its local changes are harvested and  *)
(* driven into the repository's commit editor, the rows they were scheduled *)
(* in are removed, the working copy is updated to the new revision, and     *)
(* what was committed becomes BASE.  Each of these may fail with those      *)
(* before it done.                                                          *)
(***************************************************************************)
EXTENDS WcUpdate

-----------------------------------------------------------------------------
(* The harvest *)

\* The text of the file that was there, as the delta's base.
BaseText(wc, path) ==
  LET info == Info(wc, path)
      base == BaseRow(wc, path)
      text == IF info.schedule = "add" THEN None
              ELSE IF info.schedule = "replace" /\ base.text # None THEN base.text ELSE info.text
  IN IF text = None THEN "" ELSE text

\* commitCopySource
CopiedFrom(info) == IF info.copied /\ info.from # None THEN Place(info.from, info.rev) ELSE None

\* The local change of a path, as driveCommitNode sees it: a node that is
\* missing, obstructed or in conflict is opened like a modified one.
LocalChange(wc, path, info, status) ==
  LET kind == IF status.node \in {"deleted", "added", "replaced"} THEN status.node ELSE "modified"
      sent == info.kind = "file" /\ kind # "deleted"
              /\ (status.text = "modified" \/ (kind \in {"added", "replaced"} /\ CopiedFrom(info) = None))
  IN Local(kind, info.kind, CopiedFrom(info), IF info.kind = "file" THEN BaseText(wc, path) ELSE "",
           IF sent THEN wc.disk[path].text ELSE None,
           IF info.base = info.prop THEN None ELSE info.prop)

HarvestNode(wc, path) == LocalChange(wc, path, Info(wc, path), StatusOf(wc, path))

\* A file whose text cannot be read.
Unread(wc, path) ==
  LET info == Info(wc, path)
  IN info.kind = "file" /\ info.schedule # "delete" /\ KindAt(wc.disk, path) # "file"

\* Mutant: what is in conflict is committed too.
HarvestConflicts(wc, differ) ==
  IF differ = Refused THEN Refused
  ELSE IF \E p \in differ : Unread(wc, p) THEN Refused ELSE [p \in differ |-> HarvestNode(wc, p)]

\* harvestCommit: nothing in conflict, and nothing that is not on disk.
HarvestPaths(wc, differ) ==
  IF differ = Refused THEN Refused
  ELSE IF \E p \in differ : Info(wc, p).conflict # {} \/ Unread(wc, p) THEN Refused
  ELSE [p \in differ |-> HarvestNode(wc, p)]

HarvestCommit(wc) == HarvestPaths(wc, Diff(wc, <<>>))

-----------------------------------------------------------------------------
(* After the commit *)

\* preparePostCommit
PreparePostCommit(wc, drive) ==
  LET gone == {p \in DOMAIN drive \ {<<>>} : drive[p].status = "deleted"}
      Gone(p) == \E q \in gone : Under(p, q)
  IN ClearActual(
       DropRows(wc, Layers(wc, DOMAIN drive \ {<<>>}) \cup {key \in DOMAIN wc.nodes : Gone(key[1])}),
       DOMAIN drive \cup {p \in DOMAIN wc.actual : Gone(p)})

\* finalizeCommittedMetadata: texts are those read at the harvest.
Finalize(wc, before, drive, rev) ==
  LET landed == {p \in DOMAIN drive : drive[p].status # "deleted" /\ <<p, 0>> \in DOMAIN wc.nodes}
  IN [wc EXCEPT !.nodes = [key \in DOMAIN @ |->
        IF key[2] # 0 \/ key[1] \notin landed THEN @[key]
        ELSE IF drive[key[1]].kind = "file"
             THEN [@[key] EXCEPT !.rev = rev, !.text = before.disk[key[1]].text]
             ELSE [@[key] EXCEPT !.rev = rev]]]

PostCommitOptions == Options(TRUE, "theirs", None)

\* What follows a commit that made revision rev.
PostCommit(fs, wc, drive, rev) ==
  LET files == SortedPaths({p \in DOMAIN drive : drive[p].status # "deleted" /\ drive[p].kind = "file"})
      Queued(w) == FoldLeft(LAMBDA v, p : Enqueue(v, Item("file-install", p)), w, files)
      After(updated) == IF updated.ok THEN RunWorkQueue(Queued(Finalize(updated.wc, wc, drive, rev))) ELSE updated
  IN After(Update(fs, PreparePostCommit(wc, drive), rev, <<>>, PostCommitOptions))

\* Commit: the repository after it, Refused when it takes nothing.
CommitTo(fs, wc, drive) ==
  LET Above(path) == {SubSeq(path, 1, n) : n \in 0 .. Len(path)}
  IN IF drive = Refused THEN Refused
     ELSE IF DOMAIN drive = {} \/ ~(UNION {Above(p) : p \in DOMAIN drive} \subseteq Versioned(wc)) THEN Refused
     ELSE ReposCommit(fs, DriveCalls(drive), [p \in Versioned(wc) |-> Info(wc, p).rev])
=============================================================================
