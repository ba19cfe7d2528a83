---------------------------------- MODULE Repos ----------------------------------
(***************************************************************************)
(* Working copies that commit to a repository, and what is read back: the   *)
(* drive of a commit, the repository's commit editor on a transaction, the  *)
(* same drive on the in-memory session, and after every commit the history, *)
(* the reports, the dump and the listings of both.  A commit is one step;   *)
(* how commits of several processes interleave is modelled in FsfsStore and *)
(* FsfsMerge, and what a concurrent commit merges there.                    *)
(***************************************************************************)
EXTENDS InMemory, RepoDump, RepoCommit

CONSTANTS
  LocalChanges(_, _, _),  \* the changes a working copy at a revision of some trees may commit
  MaxRev                  \* bound: the youngest revision reached

VARIABLES
  fs,     \* the revisions of the repository
  mem,    \* the revisions of the in-memory session
  truth,  \* the revisions as the commits meant them, each node with where it was before
  last    \* the commit tried last: the revision it was made at, its changes and who accepted it

vars == <<fs, mem, truth, last>>

-----------------------------------------------------------------------------
(* What a commit means: each node with the place it comes from. *)

Known(node, was) == [kind |-> node.kind, text |-> node.text, prop |-> node.prop, was |-> was]

KnownTree(tree, rev) == [p \in DOMAIN tree |-> Known(tree[p], Place(p, rev))]

Meant(trees, drive) ==
  LET young == Youngest(trees)
      Apply(tree, p) ==
        LET change  == drive[p]
            cleared == IF change.status \in {"deleted", "replaced"} THEN Without(tree, p) ELSE tree
            new     == IF change.status \notin {"added", "replaced"} THEN cleared
                       ELSE IF change.from = None
                       THEN With(cleared, p, Known(Node(change.kind, "", ""), None))
                       ELSE Grafted(cleared, KnownTree(trees[change.from.rev], change.from.rev),
                                    change.from.path, p)
            Edited(old, value) == IF value = None THEN old ELSE value
        IN IF p \notin DOMAIN new THEN new
           ELSE [new EXCEPT ![p].text = Edited(@, change.text), ![p].prop = Edited(@, change.prop)]
      next == FoldLeft(Apply, KnownTree(trees[young], young), SortedPaths(DOMAIN drive))
  IN [r \in DOMAIN trees \cup {young + 1} |-> IF r = young + 1 THEN next ELSE trees[r]]

-----------------------------------------------------------------------------

Init ==
  /\ fs = EmptyFS
  /\ mem = EmptyMemory
  /\ truth = [r \in {0} |-> [p \in {<<>>} |-> Known(EmptyDir, None)]]
  /\ last = [rev |-> 0, drive |-> <<>>, repos |-> TRUE, mem |-> TRUE]

\* The working copy is at rev; what both sessions accept is committed.
Commit(rev, drive, onRepos, onMem) ==
  /\ onRepos # Refused /\ onMem # Refused
  /\ fs' = onRepos /\ mem' = onMem
  /\ truth' = Meant(truth, drive)
  /\ last' = [rev |-> rev, drive |-> drive, repos |-> TRUE, mem |-> TRUE]

\* One of them, or both, refuse it.
Refuse(rev, drive, onRepos, onMem) ==
  /\ onRepos = Refused \/ onMem = Refused
  /\ last' = [rev |-> rev, drive |-> drive, repos |-> onRepos # Refused, mem |-> onMem # Refused]
  /\ UNCHANGED <<fs, mem, truth>>

\* The working copy is at the youngest revision or one behind.
Next ==
  LET young == Youngest(fs) IN
  /\ young < MaxRev
  /\ last.repos /\ last.mem
  /\ \E rev \in {r \in {young - 1, young} : r >= 0} : \E drive \in LocalChanges(truth, rev, young + 1) :
     \E calls \in {DriveCalls(drive)} :
     \E onRepos \in {ReposCommit(fs, calls, OpenedAt(calls, rev))}, onMem \in {MemCommit(mem, calls, rev)} :
       Commit(rev, drive, onRepos, onMem) \/ Refuse(rev, drive, onRepos, onMem)

Spec == Init /\ [][Next]_vars

-----------------------------------------------------------------------------
(* Properties.  Each is about the youngest revision: every revision of a     *)
(* history is the youngest of a state.                                       *)

Young == Youngest(fs)

\* A commit was made: after a refusal nothing is new to look at.
Landed == last.repos /\ last.mem

\* The revision the last commit was tried on.
TriedOn == IF Landed THEN Young - 1 ELSE Young

RECURSIVE TrueAt(_, _)
\* Where the node at a place was at a revision, None when nowhere.
TrueAt(place, rev) ==
  LET was == truth[place.rev][place.path].was
  IN IF place.rev = rev THEN place.path
     ELSE IF place.rev < rev \/ was = None THEN None ELSE TrueAt(was, rev)

RECURSIVE BornAt(_)
\* The place a node was first added at.
BornAt(place) ==
  LET was == truth[place.rev][place.path].was IN IF was = None THEN place ELSE BornAt(was)

RECURSIVE CopiedOnce(_)
\* A node was copied, or a directory above it, at some time.
CopiedOnce(place) ==
  LET was == truth[place.rev][place.path].was
  IN was # None /\ (was # Place(place.path, place.rev - 1) \/ CopiedOnce(was))

\* A path at which a revision starts a copy.
StartsCopy(rev, path) ==
  LET was == truth[rev][path].was
  IN /\ path # <<>> /\ was # None /\ was # Place(path, rev - 1)
     /\ \/ was.path = <<>> \/ Last(was.path) # Last(path)
        \/ truth[rev][Front(path)].was # Place(Front(was.path), was.rev)

\* A node that came with a copied directory and was not changed since:
\* txnRoot.Copy names the place its source was created at.
Lazy(place) == fs[place.rev].tree[place.path].path # place.path

\* A revision copies such a node, and so records the wrong source.
LazySource(rev) == \E p \in DOMAIN truth[rev] : StartsCopy(rev, p) /\ Lazy(truth[rev][p].was)

\* nodeHistory looks for a node in the source of the copy it was added in.
BornInCopy(path) ==
  LET born == BornAt(Place(path, Young))
  IN \E n \in 1 .. Len(born.path) - 1 : CopiedOnce(Place(SubSeq(born.path, 1, n), born.rev))

\* A revision did something to the node at a path, or below it.
ChangedBelow(rev, path) ==
  LET was == truth[rev][path].was
      below == {p \in DOMAIN truth[rev] : Under(p, path)}
      Edited(p) == LET old == truth[truth[rev][p].was.rev][truth[rev][p].was.path]
                   IN old.text # truth[rev][p].text \/ old.prop # truth[rev][p].prop
  IN \/ \E p \in below : truth[rev][p].was = None \/ StartsCopy(rev, p) \/ Edited(p)
     \/ was # None /\ \E q \in DOMAIN truth[was.rev] :
          Under(q, was.path) /\ path \o SubSeq(q, Len(was.path) + 1, Len(q)) \notin DOMAIN truth[rev]

\* The changes a log of the path can tell of: of the root only its own, for
\* changesMatch finds no path below the filter "".
Listable(rev, path) ==
  IF path = <<>> THEN truth[rev][path].prop # truth[rev - 1][path].prop ELSE ChangedBelow(rev, path)

LogOf(path) == [paths |-> <<path>>, start |-> Young, end |-> 0, strict |-> FALSE, limit |-> 0, merged |-> FALSE]

\* What the history of a path says, where the node exists, is what the commits
\* did to it: where it was, the segments that place is in, the revisions that
\* changed it and the contents a file had.
HistoryOf(path) ==
  LET At(r) == TrueAt(Place(path, Young), r)
      alive == {r \in 0 .. Young : At(r) # None}
      \* the source of a copy counts from its last change on, not up to the copy
      Gap(r) == \E c \in alive \ {0} :
                  LET was == truth[c][At(c)].was
                  IN was \notin {None, Place(At(c), c - 1)} /\ r \in fs[was.rev].tree[was.path].rev + 1 .. was.rev
      Rewritten(r) == r - 1 \notin alive \/ truth[r][At(r)].text # truth[r - 1][At(r - 1)].text
      Told(locations, segments, listed) ==
        /\ locations # Refused
        /\ \A r \in {q \in alive : ~Gap(q)} :
             /\ r \in DOMAIN locations /\ locations[r] = At(r)
             /\ {s.path : s \in {t \in segments : t.first <= r /\ r <= t.last}} = {At(r)}
             /\ r > 0 => (r \in listed <=> Listable(r, At(r)))
      Points(points) ==
        /\ \A p \in points : p.rev \in alive /\ p.path = At(p.rev)
        /\ \A r \in alive : r > 0 /\ Rewritten(r) => \E p \in points : p.rev = r
  IN /\ Told(GetLocations(fs, path, Young, 0 .. Young), ToSet(GetLocationSegments(fs, path, Young, Young, 0)),
             ToSet(Log(fs, LogOf(path))))
     /\ truth[Young][path].kind = "file" =>
          Points({s.point : s \in ToSet(GetFileRevs(fs, path, 0, Young, FALSE))})

\* The mergeinfo of a path that was never copied is what its log says it merged,
\* and a log with merges lists each revision once, those of the plain log and
\* those merged from a place they changed.
MergesOf(path) ==
  LET Changes(r) == MergeinfoChanges(fs, r, {path})
      Listed(plain, all, own) ==
        /\ Len(all) = Cardinality(ToSet(all)) /\ plain \subseteq ToSet(all)
        /\ ~CopiedOnce(Place(path, Young)) =>
             /\ path \in DOMAIN own =>
                  \A m \in own[path] : \E r \in plain : [source |-> m[1], rev |-> m[2], added |-> TRUE] \in Changes(r)
             /\ \A r \in plain : TrueAt(Place(path, Young), r) = path =>
                  \A c \in Changes(r) : ChangesMatch(fs[c.rev].changes, {c.source}) => c.rev \in ToSet(all)
  IN Listed(ToSet(Log(fs, LogOf(path))), Log(fs, [LogOf(path) EXCEPT !.merged = TRUE]),
            GetMergeinfo(fs, path, Young, FALSE, FALSE))

\* A node is reached through every commit, copy and move by the history of its
\* path, and nothing else is (repos/repos.go, fs/fsfs/tree.go nodeHistory),
\* unless a copy on the way lost its source or the node was added in a copy.  A
\* log of the root tells of changes of the root alone (Listable).
HistoryRight ==
  Landed /\ (\A r \in 1 .. Young : ~LazySource(r)) =>
    \A p \in DOMAIN truth[Young] : BornInCopy(p) \/ (HistoryOf(p) /\ MergesOf(p))

-----------------------------------------------------------------------------

Seen(tree) == [p \in DOMAIN tree |-> Visible(tree[p])]

\* What was at a path, and below it, is still what the working copy has.
UntouchedBelow(path, rev) ==
  /\ \A r \in rev .. TriedOn : Subtree(Seen(truth[r]), path) = Subtree(Seen(truth[rev]), path)
  /\ TrueAt(Place(path, TriedOn), rev) = path

\* The node itself is, with the names in it.
UntouchedNode(path, rev) ==
  /\ path \in DOMAIN truth[TriedOn] /\ TrueAt(Place(path, TriedOn), rev) = path
  /\ Visible(truth[TriedOn][path]) = Visible(truth[rev][path])
  /\ Children(truth[TriedOn], path) = Children(truth[rev], path)

\* The paths a commit opens or deletes.
Entered == {p \in DOMAIN last.drive \ {<<>>} : last.drive[p].status # "added" /\ ~InCopiedDir(last.drive, p)}

CopiesLazy == \E p \in DOMAIN last.drive : last.drive[p].from # None /\ Lazy(last.drive[p].from)

\* A working copy names the checksum of an empty file as the base of a file it
\* copied and changed (wc/diff.go, wc/commit.go:331), which no editor accepts.
EmptyBase == \E p \in DOMAIN last.drive :
  LET change == last.drive[p] IN change.from # None /\ change.text # None /\ change.base = ""


-----------------------------------------------------------------------------

Trees == [r \in DOMAIN fs |-> VisibleTree(fs[r].tree)]

\* Bound: working copies are at most two revisions behind.
Recent == {r \in DOMAIN fs : r + 2 >= Young}

\* The reports of working copies checked out at one revision, in one of them a
\* path at another revision, or deleted.
Reports ==
  LET Whole(rev) == [p \in {<<>>} |-> Entry(rev, <<>>, "infinity")]
      Mixed(rev) == {With(Whole(rev), p, Entry(at, p, "infinity")) :
                       <<p, at>> \in {<<q, r>> \in (DOMAIN Trees[rev] \ {<<>>}) \X (Recent \ {rev}) :
                                        q \in DOMAIN Trees[r]}}
      Gone(rev)  == {With(Whole(rev), p, [Entry(rev, p, "infinity") EXCEPT !.deleted = TRUE]) :
                       p \in DOMAIN Trees[rev] \ {<<>>}}
      Shallow(rev) == {[p \in {<<>>} |-> Entry(rev, <<>>, d)] : d \in {"empty", "files", "immediates"}}
      New(rev)     == [p \in {<<>>} |-> [Entry(rev, <<>>, "infinity") EXCEPT !.empty = TRUE]]
  IN UNION {{Whole(r)} \cup Mixed(r) \cup Gone(r) \cup Shallow(r) : r \in Recent} \cup {New(Young)}

\* The repository's session compares by the paths of the report: below a
\* directory that is another node now it still looks for what the old one had,
\* and it never asks for a path reported by itself that neither the revision of
\* its parent nor the target has.
ReportMisread(entries, source) ==
  LET held(p) == BaseLookup(fs, entries, p)
      target  == Subtree(fs[Young].tree, source)
      Has(p)  == held(p) # None /\ held(p).path \in DOMAIN Trees[held(p).rev]
      There(p) == fs[held(p).rev].tree[held(p).path]
  IN \/ \E p \in DOMAIN target \ {<<>>} :
          /\ target[p].kind = "dir" /\ Has(p) /\ There(p).id # target[p].id
          /\ There(p).kind = "file" \/ Children(Trees[held(p).rev], held(p).path) # {}
     \/ \E p \in DOMAIN entries \ {<<>>} :
          p \notin DOMAIN target /\ p \notin DOMAIN Trees[held(Front(p)).rev]

Request(entries, source, depth) == [entries |-> entries, source |-> source, depth |-> depth]

\* Updates, updates limited to a depth, and switches to another directory.
Requests ==
  {Request(entries, <<>>, "infinity") : entries \in Reports}
  \cup {Request([p \in {<<>>} |-> Entry(r, <<>>, d)], <<>>, d) :
          r \in Recent, d \in {"empty", "files", "immediates"}}
  \cup {Request([x \in {<<>>} |-> Entry(Young, p, "infinity")], q, "infinity") :
          p, q \in {x \in DOMAIN Trees[Young] : Trees[Young][x].kind = "dir"}}

\* Both sessions turn what the working copy holds into what it asks for.
Drives(q) ==
  LET Turned(held, wanted) ==
        /\ \/ ReportMisread(q.entries, q.source)
           \/ Receive(held, FinishReport(fs, Young, q.source, q.entries, FALSE, q.depth)) = wanted
        /\ Receive(held, MemFinishReport(mem, Young, q.source, q.entries, q.depth)) = wanted
  IN Turned(Held(Trees, q.entries), Limited(Subtree(Trees[Young], q.source), q.depth))

\* The update of a mixed-revision working copy, one limited to a depth, a switch
\* and a replay give an editor calls it can apply, and leave it with what was
\* asked for (ra/ralocal/report.go, ra/inmem).
ReportLands ==
  Landed =>
    /\ \A q \in Requests : Drives(q)
    /\ Young > 0 =>
         /\ \/ ReportMisread([p \in {<<>>} |-> Entry(Young - 1, <<>>, "infinity")], <<>>)
            \/ Receive(Trees[Young - 1], Replay(fs, Young, <<>>, Young)) = Trees[Young]
         /\ Receive(Trees[Young - 1], MemReplay(mem, Young)) = Trees[Young]

-----------------------------------------------------------------------------

\* A node that both revisions have at one path.
Stayed(path, rev) == path \in DOMAIN truth[rev] /\ truth[rev][path].was = Place(path, rev - 1)
Was(path, rev) == truth[rev - 1][path]

\* What a dump cannot carry: properties of the root, which Load does not know;
\* the property of a file whose text the same commit changed, because the last
\* change of a path is recorded alone; a copy that names the wrong source; and
\* as a delta the text of a file changed inside a directory that the same commit
\* copied.
DumpLoses(rev, deltas) ==
  \/ truth[rev][<<>>].prop # Was(<<>>, rev).prop
  \/ \E p \in DOMAIN truth[rev] : /\ Stayed(p, rev)
                                  /\ truth[rev][p].prop # Was(p, rev).prop /\ truth[rev][p].text # Was(p, rev).text
  \/ LazySource(rev)
  \/ deltas /\ \E p \in DOMAIN fs[rev].changes :
                 /\ fs[rev].changes[p].kind = "modify" /\ ~Stayed(p, rev)

\* A dump of all revisions loads into a repository with the same trees, and one
\* of the youngest revision alone into one with its tree, with texts in full or
\* as deltas (repos/dump.go, repos/load.go).
DumpLoads ==
  LET Whole(tree) == [tree EXCEPT ![<<>>].prop = ""]
      All(loaded)      == loaded # Refused /\ \A r \in DOMAIN fs : VisibleTree(loaded[r].tree) = Trees[r]
      Latest(snapshot) == snapshot # Refused /\ VisibleTree(snapshot[1].tree) = Whole(Trees[Young])
  IN Landed => \A deltas \in BOOLEAN :
       /\ (\A r \in 1 .. Young : ~DumpLoses(r, deltas)) => All(Load(EmptyFS, Dump(fs, 0, Young, FALSE, deltas)))
       /\ Young > 0 => Latest(Load(EmptyFS, Dump(fs, Young, Young, FALSE, deltas)))

-----------------------------------------------------------------------------

\* The path held one node, of one kind, in a run of revisions up to now.
Settled(path, rev) ==
  \A r \in rev + 1 .. Young : path \in DOMAIN truth[r] /\ truth[r][path].was = Place(path, r - 1)

\* The repository's session makes a segment of each change.
Covered(segments) == UNION {{Place(s.path, r) : r \in s.first .. s.last} : s \in ToSet(segments)}

\* The in-memory session answers as the repository does (ra/inmem, ra/ratest):
\* listings, deleted revisions, inherited properties, the log and the actions
\* in it, and, where a path stayed with its node, its places and contents.
BackendsAgree ==
  Landed =>
    /\ \A p \in DOMAIN fs[Young].tree :
         /\ \A depth \in {"empty", "files", "immediates", "infinity"} :
              DOMAIN List(fs, p, Young, depth) = MemList(mem, p, Young, depth)
         /\ GetInheritedProps(fs, p, Young) = MemInherited(mem, p, Young)
         /\ \A r \in 0 .. Young - 1 :
              p \in DOMAIN fs[r].tree => GetDeletedRev(fs, p, r, Young) = MemDeletedRev(mem, p, r, Young)
         /\ \A r \in 0 .. Young :
              Settled(p, r) /\ BornAt(Place(p, Young)) = Place(p, r) /\ ~BornInCopy(p) =>
              LET alive == r .. Young IN
              /\ GetLocations(fs, p, Young, alive) = MemLocations(mem, p, alive)
              /\ Covered(GetLocationSegments(fs, p, Young, Young, r)) = Covered(MemSegments(mem, p, Young, r, -1))
              /\ fs[Young].tree[p].kind = "file" =>
                   {s.point.rev : s \in {t \in ToSet(GetFileRevs(fs, p, r, Young, FALSE)) : t.text}}
                     = ToSet(MemFileRevs(mem, p, r, Young))
    /\ Log(fs, [LogOf(<<>>) EXCEPT !.paths = <<>>]) = MemLog(mem, {}, Young, 0, 0)
    /\ Log(fs, LogOf(<<>>)) = MemLog(mem, {<<>>}, Young, 0, 0)
    /\ DOMAIN fs[Young].changes = DOMAIN mem[Young].changes
    /\ \A p \in DOMAIN fs[Young].changes : fs[Young].changes[p].kind = mem[Young].changes[p].action
=============================================================================
