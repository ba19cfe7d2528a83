------------------------------- MODULE RepoReads -------------------------------
(***************************************************************************)
(* The questions a session asks a repository about its past: where a node   *)
(* was at a revision, the log of a path, the revisions of a file, what was  *)
(* merged, and the listing of a directory.  Mergeinfo is a relation between *)
(* source paths and revisions; the rangelists it is kept in are modelled in *)
(* Mergeinfo.                                                               *)
(***************************************************************************)
EXTENDS RepoTree

CONSTANT MergedBy(_)   \* the mergeinfo a property value stands for: pairs <<source path, revision>>

Least(a, b) == IF a < b THEN a ELSE b
Greatest(a, b) == IF a > b THEN a ELSE b

-----------------------------------------------------------------------------
(* Locations *)

\* The history of a path, its first place moved up to the revision asked at.
HistoryAt(fs, path, rev, cross) ==
  LET Until(history) == IF history = Refused \/ history = <<>> THEN history
                        ELSE [history EXCEPT ![1].rev = Greatest(@, rev)]
  IN Until(NodeHistory(fs, rev, path, cross))

\* Mutant: a place is taken to begin at the revision the older one ends at.
LocationLate(history, rev) ==
  {i \in DOMAIN history : /\ rev <= history[i].rev
                          /\ i = Len(history) \/ rev >= history[i + 1].rev}

\* The entries of a history that say where the node was at a revision.
Covering(history, rev) ==
  {i \in DOMAIN history : /\ rev <= history[i].rev
                          /\ i = Len(history) \/ rev > history[i + 1].rev}

\* historyLocation
HistoryLocation(history, rev) ==
  IF Covering(history, rev) = {} THEN None
  ELSE history[CHOOSE i \in Covering(history, rev) : \A j \in Covering(history, rev) : i <= j].path

GetLocations(fs, path, peg, revs) ==
  LET Locate(history) ==
        IF history = Refused THEN Refused
        ELSE [r \in {q \in revs : HistoryLocation(history, q) # None} |-> HistoryLocation(history, r)]
  IN Locate(HistoryAt(fs, path, peg, TRUE))

\* Segments from start down to end.
GetLocationSegments(fs, path, peg, start, end) ==
  LET Segment(history, i) ==
        [path |-> history[i].path, last |-> Least(history[i].rev, start),
         first |-> IF i = Len(history) THEN end ELSE Greatest(end, history[i + 1].rev + 1)]
      Segments(history) ==
        IF history = Refused THEN Refused
        ELSE SelectSeq([i \in DOMAIN history |-> Segment(history, i)], LAMBDA s : s.first <= s.last)
  IN Segments(HistoryAt(fs, path, peg, TRUE))

\* The first revision after peg in which the path does not exist.
GetDeletedRev(fs, path, peg, end) ==
  LET gone == {r \in peg + 1 .. end : path \notin DOMAIN fs[r].tree}
  IN IF gone = {} THEN -1 ELSE CHOOSE r \in gone : \A q \in gone : r <= q

-----------------------------------------------------------------------------
(* Mergeinfo *)

\* changed == filter || HasPrefix(changed, filter+"/"): for the root the prefix is
\* "/", with which no cleaned path begins, so that only the root passes its filter.
PrefixedBy(path, filter) == path = filter \/ (filter # <<>> /\ Under(path, filter))

MergeinfoAt(fs, rev, path) ==
  IF rev \in DOMAIN fs /\ path \in DOMAIN fs[rev].tree THEN MergedBy(fs[rev].tree[path].prop) ELSE {}

\* mergeSourceMapper: what to append to a merge source of a changed path to get
\* the source of the targets; empty when the change is not about them.
SourceSuffixes(changed, targets) ==
  IF targets = {} THEN {<<>>}
  ELSE {<<>> : t \in {u \in targets : PrefixedBy(changed, u)}}
       \cup {SubSeq(t, Len(changed) + 1, Len(t)) : t \in {u \in targets : PrefixedBy(u, changed) /\ u # changed}}

\* The merges a revision added to the mergeinfo of its targets, or took away.
MergeinfoChanges(fs, rev, targets) ==
  UNION {LET before == MergeinfoAt(fs, rev - 1, p)
             after  == MergeinfoAt(fs, rev, p)
         IN {[source |-> m[1] \o x, rev |-> m[2], added |-> m \in after] :
               m \in (before \cup after) \ (before \cap after), x \in SourceSuffixes(p, targets)}
         : p \in DOMAIN fs[rev].changes}

RECURSIVE NearestMergeinfo(_, _, _)
NearestMergeinfo(tree, path, inherit) ==
  IF MergedBy(tree[path].prop) # {} \/ ~inherit \/ path = <<>> THEN MergedBy(tree[path].prop)
  ELSE NearestMergeinfo(tree, Front(path), inherit)

\* GetMergeinfo for one path: its own or inherited mergeinfo, and that of what
\* is below it.
GetMergeinfo(fs, path, rev, inherit, descendants) ==
  LET tree  == fs[rev].tree
      own   == IF NearestMergeinfo(tree, path, inherit) = {} THEN {} ELSE {path}
      below == IF descendants THEN {p \in DOMAIN tree : Under(p, path) /\ MergedBy(tree[p].prop) # {}} ELSE {}
  IN [p \in own \cup below |-> IF p \in below THEN MergedBy(tree[p].prop)
                               ELSE NearestMergeinfo(tree, path, inherit)]

\* What the directories above a path have; the root takes itself for one.
GetInheritedProps(fs, path, rev) ==
  SelectSeq([i \in 1 .. Greatest(1, Len(path)) |-> Place(SubSeq(path, 1, i - 1), fs[rev].tree[SubSeq(path, 1, i - 1)].prop)],
            LAMBDA inherited : inherited.rev # "")

-----------------------------------------------------------------------------
(* Log *)

ChangesMatch(changes, paths) ==
  paths = {} \/ \E p \in DOMAIN changes : \E f \in paths : PrefixedBy(p, f)

RECURSIVE MergedEntries(_, _, _, _, _)
\* The revisions that revision rev merged into its targets, with what those
\* merged in turn; delivered revisions are left out.
MergedEntries(fs, rev, targets, down, delivered) ==
  LET merges  == MergeinfoChanges(fs, rev, targets)
      revs    == {m.rev : m \in merges}
      Rank(r) == IF down THEN Cardinality({q \in revs : q >= r}) ELSE Cardinality({q \in revs : q <= r})
      ordered == [i \in 1 .. Cardinality(revs) |-> CHOOSE r \in revs : Rank(r) = i]
      Visit(s, r) ==
        LET sources == {m.source : m \in {n \in merges : n.rev = r}}
            below   == MergedEntries(fs, r, sources, down, s.delivered \cup {r})
        IN IF r \in s.delivered \/ ~ChangesMatch(fs[r].changes, sources) THEN s
           ELSE [out |-> s.out \o <<r>> \o below.out, delivered |-> below.delivered]
  IN FoldLeft(Visit, [out |-> <<>>, delivered |-> delivered], ordered)

Towards(start, end) ==
  IF start <= end THEN [i \in 1 .. end - start + 1 |-> start + i - 1]
  ELSE [i \in 1 .. start - end + 1 |-> start - i + 1]

\* o: paths, start, end, strict, limit, merged.
LogOfHistories(fs, o, histories) ==
  LET Located(r) == {HistoryLocation(histories[i], r) : i \in DOMAIN histories} \ {None}
      Wanted(r) == o.paths = <<>> \/ (Located(r) # {} /\ ChangesMatch(fs[r].changes, Located(r)))
      Merged(s, r) == IF o.merged THEN MergedEntries(fs, r, Located(r), o.start > o.end, s.delivered \cup {r})
                      ELSE [out |-> <<>>, delivered |-> s.delivered \cup {r}]
      Deliver(s, r, merged) ==
        [out |-> s.out \o <<r>> \o merged.out, delivered |-> merged.delivered, count |-> s.count + 1]
      Visit(s, r) == IF (o.limit > 0 /\ s.count >= o.limit) \/ r \in s.delivered \/ ~Wanted(r) THEN s
                     ELSE Deliver(s, r, Merged(s, r))
  IN IF \E i \in DOMAIN histories : histories[i] = Refused THEN Refused
     ELSE FoldLeft(Visit, [out |-> <<>>, delivered |-> {}, count |-> 0], Towards(o.start, o.end)).out

Log(fs, o) == LogOfHistories(fs, o, [i \in DOMAIN o.paths |-> HistoryAt(fs, o.paths[i], o.start, ~o.strict)])

-----------------------------------------------------------------------------
(* File revisions *)

Point(path, rev, merged) == [path |-> path, rev |-> rev, merged |-> merged]

\* The places of a file's history between two revisions, and the one before
\* them, in the order the revisions are asked for.
InterestingPoints(fs, path, start, end, merged) ==
  LET high == Greatest(start, end)
      low  == Least(start, end)
      Take(s, item) ==
        IF s.stop \/ item.rev > high THEN s
        ELSE IF item.rev < low /\ s.baseline THEN [s EXCEPT !.stop = TRUE]
        ELSE [s EXCEPT !.points = <<Point(item.path, item.rev, merged)>> \o @,
                       !.baseline = @ \/ item.rev <= low]
      Ordered(points) == IF start > end THEN Reverse(points) ELSE points
      Points(history) ==
        IF history = Refused THEN Refused
        ELSE Ordered(FoldLeft(Take, [points |-> <<>>, baseline |-> FALSE, stop |-> FALSE], history).points)
  IN IF KindAt(fs[high].tree, path) # "file" THEN Refused ELSE Points(NodeHistory(fs, high, path, TRUE))

\* The ranges a rangelist keeps a set of revisions in, open at the start.
Ranges(revs) ==
  {[start |-> a - 1, end |-> b] :
     <<a, b>> \in {<<x, y>> \in revs \X revs :
                     /\ x <= y /\ x .. y \subseteq revs /\ x - 1 \notin revs /\ y + 1 \notin revs}}

\* The points of the sources that were merged at a point.
MergedPoints(fs, merges, start, end) ==
  LET Wanted(source) == {r \in Ranges({m.rev : m \in {n \in merges : n.source = source}}) :
                           r.end >= start /\ Least(end, r.end) >= Greatest(start, r.start)}
  IN {InterestingPoints(fs, source, Greatest(start, range.start), Least(end, range.end), TRUE) :
        <<source, range>> \in UNION {{source} \X Wanted(source) : source \in {m.source : m \in merges}}}

RECURSIVE WithMerged(_, _, _, _, _)
\* addMergedFileRevisions; todo is the points not looked into yet.
WithMerged(fs, points, todo, start, end) ==
  LET Extend(point, new) == WithMerged(fs, points \cup new, (todo \ {point}) \cup new, start, end)
      Look(point, found) ==
        IF Refused \in found THEN Refused
        ELSE Extend(point, {p \in UNION {ToSet(f) : f \in found} :
                              \A q \in points : <<p.path, p.rev>> # <<q.path, q.rev>>})
      At(point) == Look(point, MergedPoints(fs, MergeinfoChanges(fs, point.rev, {point.path}), start, end))
  IN IF todo = {} THEN points ELSE At(CHOOSE p \in todo : TRUE)

RECURSIVE InOrder(_)
\* By revision, the main line first.
InOrder(points) ==
  LET Later(p, q) == p.rev > q.rev \/ (p.rev = q.rev /\ p.merged /\ ~q.merged)
      first == CHOOSE p \in points : \A q \in points : ~Later(p, q)
  IN IF points = {} THEN <<>> ELSE <<first>> \o InOrder(points \ {first})

\* sendFileRevisions: the points with what changed since the one sent before.
Sent(fs, points) ==
  LET Send(s, p) ==
        IF s = Refused \/ KindAt(fs[p.rev].tree, p.path) # "file" THEN Refused
        ELSE LET node == fs[p.rev].tree[p.path]
             IN [out  |-> Append(s.out, [point |-> p, text |-> node.text # s.text, prop |-> node.prop # s.prop]),
                 text |-> node.text, prop |-> node.prop]
      last == FoldLeft(Send, [out |-> <<>>, text |-> None, prop |-> ""], points)
  IN IF last = Refused THEN Refused ELSE last.out

GetFileRevs(fs, path, start, end, merged) ==
  LET Send(all) == IF all = Refused THEN Refused ELSE Sent(fs, InOrder(all))
      Of(points) == IF points = Refused THEN Refused
                    ELSE IF merged THEN Send(WithMerged(fs, ToSet(points), ToSet(points), start, end))
                    ELSE Sent(fs, points)
  IN IF merged /\ start > end THEN Refused ELSE Of(InterestingPoints(fs, path, start, end, FALSE))

-----------------------------------------------------------------------------
(* Directories *)

\* Dirent: the fields a listing asks for.
Dirent(fs, rev, path) ==
  LET node == fs[rev].tree[path]
  IN [kind |-> node.kind, hasProps |-> node.prop # "", created |-> node.rev]

RECURSIVE Walk(_, _, _, _)
\* What the walk of a listing visits below a directory.
Walk(tree, at, level, depth) ==
  IF tree[at].kind # "dir" \/ depth = "empty" THEN {}
  ELSE LET entered == {p \in DOMAIN tree :
                         /\ p # <<>> /\ Front(p) = at
                         /\ ~(depth = "files" /\ tree[p].kind = "dir")
                         /\ level = 0 \/ depth = "infinity"}
       IN entered \cup UNION {Walk(tree, p, level + 1, depth) : p \in entered}

List(fs, path, rev, depth) ==
  IF path \notin DOMAIN fs[rev].tree THEN Refused
  ELSE [p \in Walk(fs[rev].tree, path, 0, depth) |-> Dirent(fs, rev, p)]
=============================================================================
