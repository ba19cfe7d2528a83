------------------------------- MODULE RepoReport -------------------------------
(***************************************************************************)
(* Updates, switches and diffs of a file:// session: a client reports the   *)
(* mixed revisions its working copy is at, and the session drives an editor *)
(* with the difference to the revision asked for.  Editor paths are         *)
(* relative to the directory reported.  A replay is the same drive against  *)
(* the revision before.  The target of a report is a directory.             *)
(***************************************************************************)
EXTENDS RepoReads

\* An entry of a report.  source: where in the repository the path comes from.
Entry(rev, source, depth) ==
  [rev |-> rev, source |-> source, depth |-> depth, empty |-> FALSE, deleted |-> FALSE]

\* A delta of a file; base is None when it is made against nothing.
Delta(path, base, text) ==
  [op |-> "text", path |-> path, text |-> text, source |-> <<>>, base |-> base]

PropChange(path, before, after) ==
  IF before = after THEN <<>> ELSE <<[Call("prop", path) EXCEPT !.text = after]>>

\* A call no editor accepts: the drive has failed.
Failing == Call("open_file", <<>>)

\* Whether looking a path up goes through a file, which is an error.
Blocked(tree, path) == \E n \in 1 .. Len(path) - 1 : KindAt(tree, SubSeq(path, 1, n)) = "file"

Children(tree, path) == {Last(p) : p \in {q \in DOMAIN tree : q # <<>> /\ Front(q) = path}}

-----------------------------------------------------------------------------
(* Where the client's version of an editor path is *)

\* Mutant: the depth an entry was reported with is not looked at.
WithinDepthAny(fs, entry, place, rest) == TRUE

WithinDepth(fs, entry, place, rest) ==
  \/ rest = <<>>
  \/ entry.depth = "infinity"
  \/ entry.depth = "immediates" /\ Len(rest) = 1
  \/ entry.depth = "files" /\ Len(rest) = 1 /\ KindAt(fs[place.rev].tree, place.path) = "file"

\* baseLookup: the entry that is closest above decides.
BaseLookup(fs, entries, name) ==
  LET above == {p \in DOMAIN entries : Under(name, p)}
      at    == CHOOSE p \in above : \A q \in above : Len(q) <= Len(p)
      There(entry, rest) == Place(entry.source \o rest, entry.rev)
      Within(entry, rest) ==
        IF /\ ~entry.deleted /\ ~entry.empty /\ entry.rev >= 0
           /\ WithinDepth(fs, entry, There(entry, rest), rest)
        THEN There(entry, rest) ELSE None
  IN Within(entries[at], SubSeq(name, Len(at) + 1, Len(name)))

Excluded(entries, name) == \E p \in DOMAIN entries : entries[p].depth = "exclude" /\ Under(name, p)

-----------------------------------------------------------------------------
(* The drive *)

\* copySource: the copy a node starts, not older than floor.
SourceOf(fs, rev, path, floor) ==
  LET copy  == ClosestCopy(fs, rev, path)
      From(r) == IF path \in DOMAIN fs[r].changes THEN fs[r].changes[path].from ELSE None
      Allowed(from) == IF from # None /\ from.rev >= floor THEN from ELSE None
  IN IF Allowed(From(rev)) # None THEN From(rev)
     ELSE IF copy.rev = -1 \/ copy.path # path THEN None ELSE Allowed(From(copy.rev))

\* d: fs, rev, root (the repository path of the editor's root), entries,
\* ancestry, sources, floor.
OldKind(d, place) ==
  IF place = None THEN "none"
  ELSE IF Blocked(d.fs[place.rev].tree, place.path) THEN "blocked"
  ELSE KindAt(d.fs[place.rev].tree, place.path)

\* What the client has at a place and what there is now, None for nothing.
OldNode(d, place) == IF OldKind(d, place) \in {"file", "dir"} THEN d.fs[place.rev].tree[place.path] ELSE None

NewNode(d, edit) ==
  LET tree == d.fs[d.rev].tree IN IF d.root \o edit \in DOMAIN tree THEN tree[d.root \o edit] ELSE None

\* What the client has there can be turned into the new node.
SameNode(d, old, new) == old.kind = new.kind /\ (d.ancestry => old.id = new.id)

Kept(d, old, new) == IF old # None /\ new # None THEN IF SameNode(d, old, new) THEN old ELSE None ELSE None

\* The calls for a node that is there; below are those for what is in it.
SendNode(path, kept, new, from, below) ==
  LET enter == IF kept # None THEN Call("open_" \o new.kind, path)
               ELSE IF from = None THEN Call("add_" \o new.kind, path)
               ELSE [Call("copy_" \o new.kind, path) EXCEPT !.source = from]
      text  == IF new.kind = "dir" THEN below
               ELSE IF kept = None THEN <<Delta(path, None, new.text)>>
               ELSE IF kept.text = new.text THEN <<>> ELSE <<Delta(path, kept.text, new.text)>>
  IN IF new = None THEN <<>>
     ELSE <<enter>> \o PropChange(path, IF kept = None THEN "" ELSE kept.prop, new.prop)
          \o text \o <<Call("close_" \o new.kind, path)>>

\* The calls that turn what the client has into what there is.
SendEntry(path, old, kept, new, from, below) ==
  (IF old # None /\ kept = None THEN <<Call("delete", path)>> ELSE <<>>) \o SendNode(path, kept, new, from, below)

RECURSIVE DiffDirectory(_, _)
\* diffDirectory: the calls for the entries of one directory of the editor.
DiffDirectory(d, edit) ==
  LET tree == d.fs[d.rev].tree
      Names(place) == SortedPaths({<<n>> : n \in Children(tree, d.root \o edit) \cup
                                     IF OldKind(d, place) = "dir" THEN Children(d.fs[place.rev].tree, place.path) ELSE {}})
      Turn(path, old, new) ==
        SendEntry(path, old, Kept(d, old, new), new,
                  IF d.sources THEN SourceOf(d.fs, d.rev, d.root \o path, d.floor) ELSE None, DiffDirectory(d, path))
      Visit(path, place) ==
        IF Excluded(d.entries, path) THEN <<>>
        ELSE IF OldKind(d, place) = "blocked" THEN <<Failing>> ELSE Turn(path, OldNode(d, place), NewNode(d, path))
      Send(names) == FlattenSeq([i \in DOMAIN names |->
                       Visit(edit \o names[i], BaseLookup(d.fs, d.entries, edit \o names[i]))])
      From(place) == IF OldKind(d, place) \in {"file", "blocked"} \/ KindAt(tree, d.root \o edit) = "file"
                     THEN <<Failing>> ELSE Send(Names(place))
  IN From(BaseLookup(d.fs, d.entries, edit))

\* driveRoots
DriveRoots(d) ==
  LET held == BaseLookup(d.fs, d.entries, <<>>)
      prop == IF OldKind(d, held) \in {"none", "blocked"} THEN "" ELSE d.fs[held.rev].tree[held.path].prop
  IN IF Excluded(d.entries, <<>>) THEN <<>>
     ELSE IF d.root \notin DOMAIN d.fs[d.rev].tree THEN <<Failing>>
     ELSE PropChange(<<>>, prop, d.fs[d.rev].tree[d.root].prop) \o DiffDirectory(d, <<>>)

\* FinishReport, for a directory; source is what it is updated or switched to.
FinishReport(fs, rev, source, entries, sources, depth) ==
  DepthFilter(
    DriveRoots([fs |-> fs, rev |-> rev, root |-> source, floor |-> -1, entries |-> entries,
                ancestry |-> TRUE, sources |-> sources]),
    depth)

\* Replay: the base is the revision before; copies from before the low water
\* mark are sent in full.
Replay(fs, rev, root, floor) ==
  LET before == [Entry(Greatest(rev - 1, 0), root, "infinity") EXCEPT !.empty = (rev = 0)]
  IN DriveRoots([fs |-> fs, rev |-> rev, root |-> root, floor |-> floor, entries |-> [p \in {<<>>} |-> before],
                 ancestry |-> TRUE, sources |-> TRUE])

-----------------------------------------------------------------------------
(* The client's side *)

Subtree(tree, path) ==
  [p \in {SubSeq(q, Len(path) + 1, Len(q)) : q \in {s \in DOMAIN tree : Under(s, path)}} |-> tree[path \o p]]

\* A tree cut down to a depth.
Limited(tree, depth) ==
  [p \in {q \in DOMAIN tree :
            \/ depth = "infinity" \/ q = <<>>
            \/ depth = "immediates" /\ Len(q) = 1
            \/ depth = "files" /\ Len(q) = 1 /\ tree[q].kind = "file"} |-> tree[p]]

\* What a working copy holds that reports these entries: each entry is what was
\* checked out there, over what its parent brought.
Held(trees, entries) ==
  LET Bring(held, p) ==
        LET entry == entries[p]
            brought == Limited(Subtree(trees[entry.rev], entry.source), entry.depth)
        IN IF entry.deleted \/ entry.depth = "exclude" THEN Without(held, p)
           ELSE Grafted(Without(held, p), brought, <<>>, p)
      root == entries[<<>>]
  IN FoldLeft(Bring,
              IF root.empty THEN [p \in {<<>>} |-> EmptyDir]
              ELSE Limited(Subtree(trees[root.rev], root.source), root.depth),
              SortedPaths(DOMAIN entries \ {<<>>}))

\* An editor that applies what it is sent to a tree: a delta has to fit, and an
\* added node starts empty.
Receive(tree, calls) ==
  FoldLeft(LAMBDA t, call :
             IF t = Refused THEN Refused
             ELSE IF call.op = "text" /\ call.base # None /\ KindAt(t, call.path) = "file"
                     /\ t[call.path].text # call.base THEN Refused
             ELSE BuilderCall(t, call),
           tree, calls)
=============================================================================
