------------------------------ MODULE Algorithms ------------------------------
(***************************************************************************)
(* The library's pure algorithms, each against what it should compute:     *)
(* rangelist arithmetic, text deltas and svndiff, line differences and     *)
(* three-way merges, and tree drives.  A behaviour picks a problem, solves *)
(* it with the code's algorithm and stops; the invariants compare the      *)
(* answer with a definition that does not share the algorithm.             *)
(***************************************************************************)
EXTENDS Mergeinfo, DeltaStream, LineDiff, EditDrive

CONSTANTS
  Rangelists, Revisions,         \* rangelists to combine, and the revisions they speak of
  Sources, Targets,              \* texts to delta
  Views, OpLists,                \* operations on a source view, as another program made them
  ByteStrings,                   \* bytes to read an integer from
  Texts,                         \* texts to compare line by line
  Trees, ActionLists,            \* repository trees and lists of changes to them
  Imports,                       \* local trees to import
  Unsolved

VARIABLES problem, answer
vars == <<problem, answer>>

Problems ==
       [kind : {"rangelists"}, a : Rangelists, b : Rangelists]
  \cup [kind : {"delta"}, source : Sources, target : Targets, version : {0, 1}]
  \cup [kind : {"window"}, source : Views, ops : OpLists]
  \cup [kind : {"integer"}, bytes : ByteStrings]
  \cup [kind : {"diff"}, old : Texts, new : Texts, exact : BOOLEAN, context : 0 .. 1]
  \cup [kind : {"merge"}, base : Texts, mine : Texts, theirs : Texts]
  \cup [kind : {"drive"}, base : Trees, actions : ActionLists]
  \cup [kind : {"import"}, base : Trees, local : Imports]

Init == problem \in Problems /\ answer = Unsolved

Solve(kind, Solution) ==
  /\ problem.kind = kind /\ answer = Unsolved
  /\ answer' = Solution
  /\ UNCHANGED problem

SolveRangelists ==
  Solve("rangelists",
        LET a == problem.a
            b == problem.b
            Kept(c) == MergeRangelists(RemoveRangelist(Deleted(a, b, c), a, c), Added(a, b, c))
        IN [normal |-> Normalize(a), merged |-> MergeRangelists(a, b),
            removed |-> [c \in BOOLEAN |-> RemoveRangelist(a, b, c)],
            common  |-> [c \in BOOLEAN |-> IntersectRangelists(a, b, c)],
            patched |-> [c \in BOOLEAN |-> Kept(c)], inheritable |-> Inheritable(a),
            revs |-> ToRevs(a), parsed |-> ParseRangelist(Format(Normalize(a)))])

SolveDelta ==
  Solve("delta",
        LET Target(decoded) == IF decoded = Failed THEN Failed ELSE ApplyStream(problem.source, decoded)
            Sent(windows) ==
              [windows |-> windows,
               target  |-> Target(DecodeStream([i \in DOMAIN windows |->
                                                  EncodeWindow(windows[i], problem.version)],
                                               problem.version))]
        IN Sent(TxDeltaStream(problem.source, problem.target)))

SolveWindow ==
  Solve("window",
        LET Total(ops) == FoldLeft(LAMBDA sum, op : sum + op.length, 0, ops)
            fresh == Total(SelectSeq(problem.ops, LAMBDA op : op.kind = "new"))
            Sent(window) ==
              [window |-> window,
               read   |-> IF Valid(window) THEN NextWindow(EncodeWindow(window, 0), 0, 0) ELSE Failed,
               target |-> ApplyWindow(problem.source, window)]
        IN Sent([sourceOffset |-> 0, sourceLength |-> Len(problem.source),
                 targetLength |-> Total(problem.ops), ops |-> problem.ops,
                 newData |-> [i \in 1 .. fresh |-> i - 1]]))

SolveInteger == Solve("integer", ConsumeVarint(problem.bytes, 0))

Compare(x, y) == Same(problem.exact, x, y)

SolveDiff ==
  Solve("diff",
        LET ops == Operations(problem.old, problem.new, problem.exact)
            origins == [i \in DOMAIN problem.old |-> i]
        IN [ops |-> ops, hunks |-> Hunks(ops, problem.context),
            origins |-> CarryOrigins(problem.old, problem.new, origins, 0, problem.exact)])

SolveMerge ==
  Solve("merge", [ours |-> MergeTexts(problem.base, problem.mine, problem.theirs),
                  swapped |-> MergeTexts(problem.base, problem.theirs, problem.mine)])

SolveDrive ==
  Solve("drive",
        LET calls == MuccCalls(problem.base, problem.actions)
        IN [calls |-> calls, tree |-> CommitDrive(problem.base, calls),
            built |-> BuilderDrive(problem.base, calls),
            filtered |-> [depth \in {"empty", "files", "immediates", "infinity"} |->
                            BuilderDrive(problem.base, DepthFilter(calls, depth))]])

SolveImport ==
  Solve("import",
        LET actions == ImportActions(problem.local.tree, problem.local.at, problem.local.parents)
        IN Mucc(problem.base, actions))

Next == \/ SolveRangelists \/ SolveDelta \/ SolveWindow \/ SolveInteger
        \/ SolveDiff \/ SolveMerge \/ SolveDrive \/ SolveImport

Spec == Init /\ [][Next]_vars

Solved(kind) == problem.kind = kind /\ answer # Unsolved

-----------------------------------------------------------------------------
(* Rangelists *)

Marks(list) == [r \in Revisions |-> Mark(list, r)]

\* A revision stays under an eraser: fully if it is not erased, and, when
\* inheritance matters, if it was merged with the other inheritance.
Erased(m, e, c) == IF e # "absent" /\ (c => e = m) THEN "absent" ELSE m

\* Half-open ranges that touch, nest or differ in inheritance are merged,
\* subtracted, intersected, compared, printed and parsed as the sets of revisions
\* they stand for, and come out in canonical form (mergeinfo/mergeinfo.go).
RangelistAlgebra ==
  Solved("rangelists") =>
    LET a == Marks(problem.a)
        b == Marks(problem.b)
        Is(list, M(_)) == Canonical(list) /\ \A r \in Revisions : Mark(list, r) = M(r)
    IN /\ Is(answer.normal, LAMBDA r : a[r])
       /\ Is(answer.merged, LAMBDA r : IF "subtree" \in {a[r], b[r]} THEN "subtree"
                                       ELSE IF "node" \in {a[r], b[r]} THEN "node" ELSE "absent")
       /\ \A c \in BOOLEAN : Is(answer.removed[c], LAMBDA r : Erased(b[r], a[r], c))
       /\ \A c \in BOOLEAN :
            Is(answer.common[c],
               LAMBDA r : IF "absent" \in {a[r], b[r]} \/ (c /\ a[r] # b[r]) THEN "absent"
                          ELSE IF "subtree" \in {a[r], b[r]} THEN "subtree" ELSE "node")
       /\ Is(answer.patched[TRUE], LAMBDA r : b[r])
       /\ ToRevs(answer.patched[FALSE]) = ToRevs(problem.b)
       /\ Is(answer.inheritable, LAMBDA r : IF a[r] = "subtree" THEN a[r] ELSE "absent")
       /\ answer.revs = {r \in Revisions : a[r] # "absent"}
       /\ answer.normal # <<>> => answer.parsed = answer.normal

-----------------------------------------------------------------------------
(* Deltas *)

\* The integer some bytes spell, when they end one and it fits.
Spelt(bytes) ==
  LET ends == {i \in DOMAIN bytes : bytes[i] < Group}
      n    == CHOOSE i \in ends : \A j \in ends : i <= j
      value == FoldLeft(LAMBDA v, b : v * Group + (b % Group), 0, SubSeq(bytes, 1, n))
  IN IF ends = {} THEN Failed
     ELSE IF n > Groups \/ value >= 2 ^ Width THEN Failed
     ELSE [value |-> value, position |-> n]

\* New data that was stored because it would not shrink, with its own length
\* before it, may be longer than the limit the reader puts on both.
StoredTooLong(windows, version) ==
  \E i \in DOMAIN windows : Len(Section(windows[i].newData, version)) > MaxWindowSize

\* A delta found against any source, sent as svndiff and applied, gives the
\* target, unless a stored section is refused for its length prefix; windows that
\* copy from their own target survive as well; an integer is read as spelt or
\* refused, never cut (delta/xdelta.go, txstream.go, svndiff_*.go, varint.go).
DeltaFaithful ==
  /\ Solved("delta") =>
       /\ \A i \in DOMAIN answer.windows :
            /\ Valid(answer.windows[i])
            /\ answer.windows[i].sourceLength <= MaxWindowSize
            /\ answer.windows[i].targetLength <= MaxWindowSize
       /\ answer.target = IF StoredTooLong(answer.windows, problem.version) THEN Failed
                          ELSE problem.target
  /\ Solved("window") =>
       /\ answer.target # Failed <=> Valid(answer.window)
       /\ answer.target # Failed /\ answer.window.targetLength <= MaxWindowSize =>
            /\ Len(answer.target) = answer.window.targetLength
            /\ answer.read = answer.window
  /\ Solved("integer") => answer = Spelt(problem.bytes)

-----------------------------------------------------------------------------
(* Line differences *)

\* The length of a longest common subsequence, by trying them all.
LongestCommon(old, new) ==
  LET Matchings(k) == {m \in [1 .. k -> (DOMAIN old) \X (DOMAIN new)] :
                         /\ \A i \in 1 .. k : Compare(old[m[i][1]], new[m[i][2]])
                         /\ \A i \in 1 .. k - 1 : m[i][1] < m[i + 1][1] /\ m[i][2] < m[i + 1][2]}
      sizes == {k \in 0 .. Len(old) : Matchings(k) # {}}
  IN CHOOSE k \in sizes : \A j \in sizes : j <= k

\* What patch makes of a text with some hunks: each replaces its old lines where
\* it says they are.
Patched(old, hunks) ==
  LET Apply(s, h) ==
        [lines |-> s.lines \o SubSeq(old, s.position, h.oldStart - 1) \o Lines(New(h.body)),
         position |-> h.oldStart + h.oldCount,
         placed |-> s.placed /\ h.oldStart >= s.position
                    /\ h.newStart = Len(s.lines) + (h.oldStart - s.position) + 1
                    /\ h.newCount = Len(New(h.body)) /\ h.oldCount = Len(Old(h.body))]
      last == FoldLeft(Apply, [lines |-> <<>>, position |-> 1, placed |-> TRUE], hunks)
  IN [lines |-> last.lines \o SubSeq(old, last.position, Len(old)), placed |-> last.placed]

Alike(x, y) == Len(x) = Len(y) /\ \A i \in DOMAIN x : Compare(x[i], y[i])

\* The operations account for every line of both texts and keep as many as can
\* be kept; the hunks, applied in order at the places they name, give the new
\* text; each line blame carries over keeps its own origin (internal/diff).
DiffFaithful ==
  Solved("diff") =>
    LET kept == SelectSeq(answer.origins, LAMBDA r : r # 0)
        patch == Patched(problem.old, answer.hunks)
    IN /\ Lines(New(answer.ops)) = problem.new
       /\ Alike(Lines(Old(answer.ops)), problem.old)
       /\ Len(kept) = LongestCommon(problem.old, problem.new)
       /\ \A i \in 1 .. Len(kept) - 1 : kept[i] < kept[i + 1]
       /\ \A i \in DOMAIN problem.new :
            answer.origins[i] # 0 => Compare(problem.old[answer.origins[i]], problem.new[i])
       /\ patch.placed /\ Alike(patch.lines, problem.new)

\* Two hunks that leave a base line or an end between them, or at least do not
\* start together.
Apart(h, k) == h.start # k.start /\ (h.end <= k.start \/ k.end <= h.start)

Contents(merge) == FlattenSeq([i \in DOMAIN merge.contents |-> merge.contents[i].lines])

\* Every hunk of either side applied once, when they are apart.
BothApplied(base, mine, theirs) ==
  LET all == ToSet(Differences(base, mine)) \cup ToSet(Differences(base, theirs))
  IN ApplyHunks(base, 0, Len(base),
                [i \in 1 .. Cardinality(all) |->
                   CHOOSE h \in all : Cardinality({k \in all : k.start < h.start}) = i - 1])

\* A merge never faults; it takes the other side where one side is unchanged,
\* does not depend on which side is mine, applies changes that are apart and
\* identical changes once, and conflicts only where changes meet (internal/diff3).
MergeSound ==
  Solved("merge") =>
    LET m == problem.mine
        t == problem.theirs
        apart == \A h \in ToSet(Differences(problem.base, m)) :
                   \A k \in ToSet(Differences(problem.base, t)) : h = k \/ Apart(h, k)
        ours  == answer.ours
    IN /\ \A i \in DOMAIN ours.contents : ours.contents[i].kind # "fault"
       /\ ours.conflicted = answer.swapped.conflicted
       /\ ~ours.conflicted => Contents(ours) = Contents(answer.swapped)
       /\ m = problem.base \/ m = t => ~ours.conflicted /\ Contents(ours) = t
       /\ apart => ~ours.conflicted /\ Contents(ours) = BothApplied(problem.base, m, t)

-----------------------------------------------------------------------------
(* Drives *)

Opens == {"open_dir", "add_dir", "copy_dir"}

\* The directories open after some calls.
OpenAfter(calls) ==
  FoldLeft(LAMBDA open, c : IF c.op \in Opens THEN Append(open, c.path)
                            ELSE IF c.op = "close_dir" THEN Front(open) ELSE open,
           << <<>> >>, calls)

\* Each call is made on the innermost open directory, and the innermost is
\* closed first.
WellNested(calls) ==
  \A i \in DOMAIN calls :
    LET top == Last(OpenAfter(SubSeq(calls, 1, i - 1))) IN
    CASE calls[i].op = "close_dir" -> calls[i].path = top
      [] calls[i].op \in Opens \cup {"add_file", "copy_file", "open_file", "delete"} ->
           calls[i].path # <<>> => Front(calls[i].path) = top
      [] OTHER -> TRUE

\* A sibling whose name continues the directory's with a byte below the
\* separator sorts between the directory and what is in it.
SortsBetween(path, paths) ==
  \E p, q \in paths : Before(path, p) /\ Before(p, q) /\ Under(q, path) /\ ~Under(p, path)

\* The changes made one after the other, paths in order.
Do(base, tree, a) ==
  LET p == a.path
      kind == KindAt(tree, p)
  IN IF tree = Refused THEN Refused
     ELSE CASE a.kind = "mkdir" -> IF kind = "dir" /\ a.allowExisting THEN tree
                                   ELSE CommitCall(base, tree, Call("add_dir", p))
            [] a.kind = "put"   -> IF kind = "file" /\ ~a.requireNew
                                   THEN [tree EXCEPT ![p].text = a.text]
                                   ELSE IF Vacant(tree, p) THEN With(tree, p, Node("file", a.text, ""))
                                   ELSE Refused
            [] a.kind = "delete" -> CommitCall(base, tree, Call("delete", p))
            [] a.kind = "copy"  -> CommitCall(base, tree, [Call("copy_dir", p) EXCEPT !.source = a.source])
            [] a.kind = "prop"  -> CommitCall(base, tree, [Call("prop", p) EXCEPT !.text = a.text])

InOrder(base, actions) ==
  LET paths == SortedPaths({a.path : a \in ToSet(actions)})
      On(p) == SelectSeq(actions, LAMBDA a : a.path = p)
  IN FoldLeft(LAMBDA tree, a : IF tree = Refused THEN Refused ELSE Do(base, tree, a), base,
              FlattenSeq([i \in DOMAIN paths |-> On(paths[i])]))

\* What may be refused although it makes sense one by one: a deletion after
\* something else was done to the path, a directory made twice, a kind looked up
\* at the base under a directory replaced or copied since, or taken from the hint
\* of a property change to a node that is yet to be made.
Twice(actions, first, second) ==
  \E i, j \in DOMAIN actions : /\ i < j /\ actions[i].path = actions[j].path
                               /\ actions[i].kind \in first /\ actions[j].kind = second

LooksStale(base, actions) ==
  \/ Twice(actions, {"mkdir", "put", "copy", "prop"}, "delete")
  \/ Twice(actions, {"mkdir", "copy", "prop"}, "mkdir")
  \/ \E a, b \in ToSet(actions) :
       a.kind \in {"delete", "copy"} /\ a.path # b.path /\ Under(b.path, a.path)
  \/ \E a \in ToSet(actions) :
       a.kind = "prop" /\ a.nodeKind # "none" /\ KindAt(base, a.path) = "none"

\* A filtered drive without deletions: the nodes the depth reaches are as the
\* whole drive leaves them, the others as they were.
Filtered(base, built, depth) ==
  LET Reaches(p) ==
        /\ \A n \in 1 .. Len(p) - 1 : AllowsDirectory(depth, n)
        /\ IF built[p].kind = "dir" THEN AllowsDirectory(depth, Len(p)) ELSE AllowsFile(depth, Len(p))
      left == {p \in DOMAIN built : p \in DOMAIN base \/ Reaches(p)}
  IN [p \in left |-> IF Reaches(p) THEN built[p] ELSE base[p]]

\* A local tree laid over the repository's: directories are shared, files new.
Imported(base, local, at, parents) ==
  LET Place(p) == at \o p
      places == {Place(p) : p \in DOMAIN local}
      above  == IF parents THEN {SubSeq(at, 1, i) : i \in 1 .. Len(at) - 1} ELSE {}
      Want(q) == IF q \in places THEN local[SubSeq(q, Len(at) + 1, Len(q))] ELSE EmptyDir
      Clash(q) == q \in DOMAIN base /\ ~(base[q].kind = "dir" /\ Want(q).kind = "dir")
  IN IF \/ \E q \in places \cup above : Clash(q)
        \/ KindAt(base, Front(at)) # "dir" /\ Front(at) \notin above
     THEN Refused
     ELSE [q \in DOMAIN base \cup places \cup above |-> IF q \in DOMAIN base THEN base[q] ELSE Want(q)]

\* A drive of several changes that succeeds leaves the tree that the changes make
\* one by one, and it is refused only where they would be or where the kinds it
\* looked up are stale; its calls nest, and a directory is opened again only when
\* a sibling sorts into it; a depth filter takes away whole nodes; an import adds
\* the local tree or nothing
\* (client/mucc.go, delta/pathdriver.go, depthfilter.go, repos/commit.go).
DriveLands ==
  /\ Solved("drive") =>
       LET want == InOrder(problem.base, problem.actions)
           paths == {a.path : a \in ToSet(problem.actions)}
           opened(p) == {i \in DOMAIN answer.calls : answer.calls[i].op \in Opens
                                                     /\ answer.calls[i].path = p}
       IN /\ answer.tree # Refused => answer.tree = want
          /\ want # Refused /\ answer.tree = Refused => LooksStale(problem.base, problem.actions)
          /\ answer.tree # Refused => /\ WellNested(answer.calls)
                                      /\ OpenAfter(answer.calls) = << <<>> >>
                                      /\ \A p \in {c.path : c \in ToSet(answer.calls)} :
                                           Cardinality(opened(p)) > 1 => SortsBetween(p, paths)
          /\ answer.built # Refused /\ (\A c \in ToSet(answer.calls) : c.op # "delete") =>
               \A depth \in DOMAIN answer.filtered :
                 answer.filtered[depth] = Filtered(problem.base, answer.built, depth)
  /\ Solved("import") =>
       answer = Imported(problem.base, problem.local.tree, problem.local.at, problem.local.parents)
=============================================================================
