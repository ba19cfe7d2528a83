------------------------------- MODULE LineDiff -------------------------------
(***************************************************************************)
(* Line-based differences: the operations that turn one text into another, *)
(* the hunks a unified diff prints, the revisions blame carries along, and *)
(* the three-way merge an update or a merge makes of a file.  A text is a  *)
(* sequence of lines; exact tells whether lines are compared as they are.  *)
(***************************************************************************)
EXTENDS Integers, Sequences, FiniteSets, SequencesExt

CONSTANT SameLine(_, _)    \* a comparison that ignores something

Same(exact, x, y) == IF exact THEN x = y ELSE SameLine(x, y)

\* The table of longest common subsequences of what follows two positions.
Common(old, new, exact) ==
  LET table[o \in 0 .. Len(old), n \in 0 .. Len(new)] ==
        IF o = Len(old) \/ n = Len(new) THEN 0
        ELSE IF Same(exact, old[o + 1], new[n + 1]) THEN table[o + 1, n + 1] + 1
        ELSE IF table[o + 1, n] >= table[o, n + 1] THEN table[o + 1, n]
        ELSE table[o, n + 1]
  IN table

\* One step of the walk along the table from a position in each text.
Step(old, new, table, exact, o, n) ==
  CASE o < Len(old) /\ n < Len(new) /\ Same(exact, old[o + 1], new[n + 1]) -> "equal"
    [] n < Len(new) /\ (o = Len(old) \/ table[o, n + 1] > table[o + 1, n])
       /\ ~(o < Len(old) /\ Same(exact, old[o + 1], new[n + 1])) -> "add"
    [] OTHER -> "delete"

Operations(old, new, exact) ==
  LET table == Common(old, new, exact)
      Walk(s, k) ==
        IF s.o = Len(old) /\ s.n = Len(new) THEN s
        ELSE LET kind == Step(old, new, table, exact, s.o, s.n) IN
             [o |-> s.o + (IF kind = "add" THEN 0 ELSE 1),
              n |-> s.n + (IF kind = "delete" THEN 0 ELSE 1),
              ops |-> Append(s.ops, [kind |-> kind,
                                     line |-> IF kind = "delete" THEN old[s.o + 1]
                                              ELSE new[s.n + 1]])]
  IN FoldLeft(Walk, [o |-> 0, n |-> 0, ops |-> <<>>],
              [k \in 1 .. Len(old) + Len(new) |-> k]).ops

Old(ops) == SelectSeq(ops, LAMBDA op : op.kind # "add")
New(ops) == SelectSeq(ops, LAMBDA op : op.kind # "delete")
Lines(ops) == [i \in DOMAIN ops |-> ops[i].line]

\* Mutant: counts the context of one of the two changes.
ShareHunkNear(gap, context) == gap <= context

ShareHunk(gap, context) == gap <= 2 * context + 1

\* unified: the changes no more than 2 * context + 1 operations apart share a hunk.
Hunks(ops, context) ==
  LET changes == SelectSeq([i \in DOMAIN ops |-> i], LAMBDA i : ops[i].kind # "equal")
      Extend(groups, i) ==
        IF groups # <<>> /\ ShareHunk(i - Last(groups).last, context)
        THEN [groups EXCEPT ![Len(groups)].last = i]
        ELSE Append(groups, [first |-> i, last |-> i])
      groups_ == FoldLeft(Extend, <<>>, changes)
      Hunk(g) ==
        LET start == IF g.first - context < 1 THEN 1 ELSE g.first - context
            end   == IF g.last + context > Len(ops) THEN Len(ops) ELSE g.last + context
            before == SubSeq(ops, 1, start - 1)
            body   == SubSeq(ops, start, end)
        IN [oldStart |-> Len(Old(before)) + 1, oldCount |-> Len(Old(body)),
            newStart |-> Len(New(before)) + 1, newCount |-> Len(New(body)), body |-> body]
  IN [i \in DOMAIN groups_ |-> Hunk(groups_[i])]

\* CarryOrigins: what blame knows of each line after one more revision.
CarryOrigins(old, new, origins, revision, exact) ==
  LET Carry(s, op) ==
        CASE op.kind = "equal"  -> [o |-> s.o + 1,
                                    result |-> Append(s.result, IF s.o < Len(origins)
                                                                THEN origins[s.o + 1] ELSE revision)]
          [] op.kind = "delete" -> [s EXCEPT !.o = @ + 1]
          [] op.kind = "add"    -> [s EXCEPT !.result = Append(@, revision)]
  IN FoldLeft(Carry, [o |-> 0, result |-> <<>>], Operations(old, new, exact)).result

-----------------------------------------------------------------------------
(* Three-way merge *)


\* differences: runs of deletions and additions between equal lines; a hunk
\* replaces base lines start + 1 .. end.
Differences(base, target) ==
  LET ops == Operations(base, target, TRUE)
      Collect(s, op) ==
        LET o == s.o + (IF op.kind = "add" THEN 0 ELSE 1)
            lines == IF op.kind = "add" THEN <<op.line>> ELSE <<>>
        IN IF op.kind = "equal" THEN [s EXCEPT !.o = o, !.open = FALSE]
           ELSE IF s.open
           THEN [s EXCEPT !.o = o, !.hunks[Len(s.hunks)].end = o,
                          !.hunks[Len(s.hunks)].lines = @ \o lines]
           ELSE [o |-> o, open |-> TRUE,
                 hunks |-> Append(s.hunks, [start |-> s.o, end |-> o, lines |-> lines])]
  IN FoldLeft(Collect, [o |-> 0, open |-> FALSE, hunks |-> <<>>], ops).hunks

\* Mutant: an insertion at the far end of a region is taken into it.
TouchesLoosely(change, start, end) ==
  IF start = end THEN change.start = start
  ELSE IF change.start = change.end THEN change.start >= start /\ change.start <= end
  ELSE change.start < end /\ change.end > start

Touches(change, start, end) ==
  IF start = end THEN change.start = start
  ELSE IF change.start = change.end THEN change.start >= start /\ change.start < end
  ELSE change.start < end /\ change.end > start

\* How many hunks of a list, from one on, are in the region, each stretching it.
RECURSIVE Absorb(_, _, _, _)
Absorb(hunks, from, start, end) ==
  IF from < Len(hunks) /\ Touches(hunks[from + 1], start, end)
  THEN Absorb(hunks, from + 1, start, IF hunks[from + 1].end > end THEN hunks[from + 1].end ELSE end)
  ELSE [to |-> from, end |-> end]

\* The region that starts at next: absorbed from mine and theirs in turn until
\* neither adds a hunk.
RECURSIVE Region(_, _, _, _, _, _)
Region(mine, theirs, mineEnd, theirEnd, next, end) ==
  LET m == Absorb(mine, mineEnd, next, end)
      t == Absorb(theirs, theirEnd, next, m.end)
  IN IF m.to = mineEnd /\ t.to = theirEnd
     THEN [mineEnd |-> mineEnd, theirEnd |-> theirEnd, end |-> end]
     ELSE Region(mine, theirs, m.to, t.to, next, t.end)

\* apply: base lines start + 1 .. end with the changes made to them
ApplyHunks(base, start, end, changes) ==
  LET Replace(s, change) ==
        [lines |-> s.lines \o SubSeq(base, s.position + 1, change.start) \o change.lines,
         position |-> change.end]
      last == FoldLeft(Replace, [lines |-> <<>>, position |-> start], changes)
  IN last.lines \o SubSeq(base, last.position + 1, end)

Fault == [kind |-> "fault", lines |-> <<>>]
Text(lines) == [kind |-> "text", lines |-> lines]
Conflict(mine, base, theirs) ==
  [kind |-> "conflict", mine |-> mine, base |-> base, theirs |-> theirs]

\* Merge, as the pieces it writes; a fault is the panic of slicing backwards.
RECURSIVE Pieces(_, _, _, _, _, _)
Pieces(base, mine, theirs, position, m, t) ==
  LET starts == (IF m < Len(mine) THEN {mine[m + 1].start} ELSE {})
                \cup (IF t < Len(theirs) THEN {theirs[t + 1].start} ELSE {})
      Result(region, lines, mineResult, theirResult) ==
        CASE region.mineEnd = m -> Text(theirResult)
          [] region.mineEnd > m /\ (region.theirEnd = t \/ mineResult = theirResult) -> Text(mineResult)
          [] OTHER -> Conflict(mineResult, lines, theirResult)
      From(next, region) ==
        <<Text(SubSeq(base, position + 1, next)),
          Result(region, SubSeq(base, next + 1, region.end),
                 ApplyHunks(base, next, region.end, SubSeq(mine, m + 1, region.mineEnd)),
                 ApplyHunks(base, next, region.end, SubSeq(theirs, t + 1, region.theirEnd)))>>
        \o Pieces(base, mine, theirs, region.end, region.mineEnd, region.theirEnd)
      At(next) == IF position > next THEN <<Fault>>
                  ELSE From(next, Region(mine, theirs, m, t, next, next))
  IN IF starts = {} THEN <<Text(SubSeq(base, position + 1, Len(base)))>>
     ELSE At(CHOOSE s \in starts : \A s2 \in starts : s <= s2)

MergeTexts(base, mine, theirs) ==
  LET Merged(pieces) == [contents   |-> pieces,
                         conflicted |-> \E p \in ToSet(pieces) : p.kind = "conflict"]
  IN Merged(Pieces(base, Differences(base, mine), Differences(base, theirs), 0, 0, 0))
=============================================================================
