-------------------------------- MODULE InMemory --------------------------------
(***************************************************************************)
(* The in-memory session the conformance suite runs beside file://: every   *)
(* revision holds a whole tree, a commit edits a clone of the youngest one, *)
(* and nothing is remembered of copies but the change that made them.       *)
(* Locks are not modelled.                                                  *)
(***************************************************************************)
EXTENDS RepoReport

MemNode(kind) == [kind |-> kind, text |-> "", prop |-> "", created |-> -1]

EmptyMemory == [r \in {0} |-> [tree |-> [p \in {<<>>} |-> MemNode("dir")], changes |-> <<>>]]

-----------------------------------------------------------------------------
(* The commit editor: e holds the cloned tree and the changes made to it. *)

Touch(tree, path) == [tree EXCEPT ![path].created = -1]

\* change: a modification of an addition says nothing new.
MemChange(changes, path, action, source) ==
  LET old == changes[path]
      new == [action |-> action, from |-> source]
  IN IF path \notin DOMAIN changes THEN With(changes, path, new)
     ELSE IF old.action = "delete" /\ action = "add"
     THEN With(changes, path, [new EXCEPT !.action = "replace"])
     ELSE IF action = "modify" /\ old.action \in {"add", "replace"} THEN changes
     ELSE With(changes, path, new)

\* The subtree an added node starts with.
MemCopy(mem, kind, source) ==
  IF source = None THEN [p \in {<<>>} |-> MemNode(kind)]
  ELSE IF source.rev \notin DOMAIN mem THEN Refused
  ELSE IF KindAt(mem[source.rev].tree, source.path) # kind THEN Refused
  ELSE Touch(Subtree(mem[source.rev].tree, source.path), <<>>)

\* What the calls on the parent of a path check: it exists and is not newer
\* than the caller's version.
Current(tree, path, rev) == path \in DOMAIN tree /\ (rev = -1 \/ tree[path].created <= rev)

\* One call; rev is the revision the caller's working copy is at.
MemCall(mem, e, call, rev) ==
  LET p == call.path
      Add(kind, source) ==
        LET copied == MemCopy(mem, kind, source)
        IN IF ~Vacant(e.tree, p) \/ copied = Refused THEN Refused
           ELSE [tree    |-> Touch(Grafted(e.tree, copied, <<>>, p), Front(p)),
                 changes |-> MemChange(e.changes, p, "add", source)]
      Open(kind) == IF KindAt(e.tree, p) = kind /\ Current(e.tree, p, rev) THEN e ELSE Refused
      Modified   == MemChange(e.changes, p, "modify", None)
  IN CASE call.op \in {"close_dir", "close_file"} -> e
       [] call.op = "open_dir"  -> Open("dir")
       [] call.op = "open_file" -> Open("file")
       [] call.op = "delete"    -> IF ~Current(e.tree, p, rev) THEN Refused
                                   ELSE [tree    |-> Touch(Without(e.tree, p), Front(p)),
                                         changes |-> MemChange(e.changes, p, "delete", None)]
       [] call.op = "add_dir"   -> Add("dir", None)
       [] call.op = "add_file"  -> Add("file", None)
       [] call.op = "copy_dir"  -> Add("dir", call.source)
       [] call.op = "copy_file" -> Add("file", call.source)
       [] call.op = "prop"      -> [tree |-> Touch([e.tree EXCEPT ![p].prop = call.text], p), changes |-> Modified]
       [] call.op = "text"      -> IF call.base # None /\ e.tree[p].text # call.base THEN Refused
                                   ELSE [tree    |-> Touch([e.tree EXCEPT ![p].text = call.text], p),
                                         changes |-> Modified]

\* stampMetadata: what was touched was created in the new revision.
Stamped(tree, rev) == [p \in DOMAIN tree |-> IF tree[p].created = -1 THEN [tree[p] EXCEPT !.created = rev]
                                             ELSE tree[p]]

\* A commit that nobody else's commit interrupts.
MemCommit(mem, calls, rev) ==
  LET next == Youngest(mem) + 1
      done == FoldLeft(LAMBDA e, call : IF e = Refused THEN Refused ELSE MemCall(mem, e, call, rev),
                       [tree |-> mem[next - 1].tree, changes |-> <<>>], calls)
  IN IF done = Refused THEN Refused
     ELSE [r \in DOMAIN mem \cup {next} |->
             IF r = next THEN [tree |-> Stamped(done.tree, next), changes |-> done.changes] ELSE mem[r]]

-----------------------------------------------------------------------------
(* Reads *)

MemLocations(mem, path, revs) == [r \in {q \in revs : path \in DOMAIN mem[q].tree} |-> path]

RECURSIVE MemSegments(_, _, _, _, _)
\* Runs of revisions the path exists in, from rev down to end; last is the
\* youngest of the run that is open, -1 when none is.
MemSegments(mem, path, rev, end, last) ==
  LET exists == rev >= end /\ path \in DOMAIN mem[rev].tree
      closed == [path |-> path, last |-> last, first |-> rev + 1]
  IN IF rev < end THEN (IF last = -1 THEN <<>> ELSE <<closed>>)
     ELSE IF exists THEN MemSegments(mem, path, rev - 1, end, IF last = -1 THEN rev ELSE last)
     ELSE (IF last = -1 THEN <<>> ELSE <<closed>>) \o MemSegments(mem, path, rev - 1, end, -1)

MemDeletedRev(mem, path, peg, end) ==
  LET gone == {r \in peg + 1 .. end : path \notin DOMAIN mem[r].tree}
  IN IF gone = {} THEN -1 ELSE CHOOSE r \in gone : \A q \in gone : r <= q

\* logMatches: changes of a parent count too.
LogMatches(changes, paths) ==
  paths = {} \/ \E p \in DOMAIN changes : \E f \in paths : PrefixedBy(p, f) \/ PrefixedBy(f, p)

MemLog(mem, paths, start, end, limit) ==
  LET wanted == SelectSeq(Towards(start, end), LAMBDA r : LogMatches(mem[r].changes, paths))
  IN IF limit > 0 /\ Len(wanted) > limit THEN SubSeq(wanted, 1, limit) ELSE wanted

\* The revisions in which the file at the path differs from the one sent last.
MemFileRevs(mem, path, start, end) ==
  LET Send(s, r) ==
        IF KindAt(mem[r].tree, path) = "file" /\ mem[r].tree[path].text # s.text
        THEN [out |-> Append(s.out, r), text |-> mem[r].tree[path].text] ELSE s
  IN FoldLeft(Send, [out |-> <<>>, text |-> ""], Towards(start, end)).out

MemInherited(mem, path, rev) ==
  SelectSeq([i \in 1 .. Greatest(1, Len(path)) |->
               LET above == SubSeq(path, 1, i - 1)
               IN Place(above, IF above \in DOMAIN mem[rev].tree THEN mem[rev].tree[above].prop ELSE "")],
            LAMBDA inherited : inherited.rev # "")

MemList(mem, path, rev, depth) ==
  LET tree == mem[rev].tree
      RECURSIVE Visit(_, _)
      Visit(at, level) ==
        IF tree[at].kind # "dir" \/ depth = "empty" \/ (level > 0 /\ depth # "infinity") THEN {}
        ELSE UNION {IF depth = "files" /\ tree[p].kind = "dir" THEN {} ELSE {p} \cup Visit(p, level + 1)
                    : p \in {q \in DOMAIN tree : q # <<>> /\ Front(q) = at}}
  IN IF path \notin DOMAIN tree THEN Refused ELSE Visit(path, 0)

-----------------------------------------------------------------------------
(* Reports *)

RECURSIVE DiffDir(_, _, _)
\* The calls that turn one directory of old into the same one of new: deletions
\* first, then every node of new.
DiffDir(old, new, at) ==
  LET gone   == SortedPaths({p \in DOMAIN old : p # <<>> /\ Front(p) = at /\ p \notin DOMAIN new})
      here   == SortedPaths({p \in DOMAIN new : p # <<>> /\ Front(p) = at})
      Visit(p) ==
        LET node  == new[p]
            keep  == KindAt(old, p) = node.kind
            below == IF keep THEN old ELSE Without(old, p)
            prop  == PropChange(p, IF keep THEN old[p].prop ELSE "", node.prop)
            text  == IF node.kind = "dir" THEN DiffDir(below, new, p)
                     ELSE IF keep /\ old[p].text = node.text THEN <<>>
                     ELSE <<Delta(p, IF keep THEN old[p].text ELSE None, node.text)>>
        IN (IF p \in DOMAIN old /\ ~keep THEN <<Call("delete", p)>> ELSE <<>>)
           \o <<Call((IF keep THEN "open_" ELSE "add_") \o node.kind, p)>>
           \o prop \o text \o <<Call("close_" \o node.kind, p)>>
  IN [i \in DOMAIN gone |-> Call("delete", gone[i])] \o FlattenSeq([i \in DOMAIN here |-> Visit(here[i])])

DriveDiff(old, new) ==
  PropChange(<<>>, IF <<>> \in DOMAIN old THEN old[<<>>].prop ELSE "",
             IF <<>> \in DOMAIN new THEN new[<<>>].prop ELSE "")
  \o DiffDir(old, new, <<>>)

\* The entries below the root of a report, parents first.
EntryOrder(entries) == SortedPaths(DOMAIN entries \ {<<>>})

\* FinishReport, for a directory: the client's tree is put together from the
\* entries and compared with the target.
MemFinishReport(mem, rev, source, entries, depth) ==
  LET Found(entry) == Limited(Subtree(mem[entry.rev].tree, entry.source), entry.depth)
      Apply(base, p) ==
        LET entry == entries[p]
            found == Found(entry)
        IN IF entry.deleted \/ entry.depth = "exclude" THEN Without(base, p)
           ELSE IF found = <<>> \/ KindAt(base, Front(p)) # "dir" THEN Without(base, p)
           ELSE Grafted(Without(base, p),
                        IF entry.empty THEN [q \in {<<>>} |-> MemNode(found[<<>>].kind)] ELSE found,
                        <<>>, p)
      root == entries[<<>>]
      base == IF root.empty \/ Found(root) = <<>> THEN [p \in {<<>>} |-> MemNode("dir")] ELSE Found(root)
  IN DepthFilter(DriveDiff(FoldLeft(Apply, base, EntryOrder(entries)), Subtree(mem[rev].tree, source)), depth)

MemReplay(mem, rev) ==
  DriveDiff(IF rev = 0 THEN [p \in {<<>>} |-> MemNode("dir")] ELSE mem[rev - 1].tree, mem[rev].tree)
=============================================================================
