------------------------------ MODULE Mergeinfo ------------------------------
(***************************************************************************)
(* Rangelists: which revisions of a source have been merged, and whether   *)
(* for the whole subtree.  A range (start, end] does not contain its       *)
(* start.  Every operation sweeps the boundaries of its operands and asks  *)
(* of each piece between two boundaries whether it belongs to the result.  *)
(***************************************************************************)
EXTENDS Integers, Sequences, FiniteSets, SequencesExt

Ranges(bound) ==
  {r \in [start : 0 .. bound, end : 0 .. bound, inheritable : BOOLEAN] : r.start < r.end}

\* The stretches between neighbouring boundaries.
Stretches(bounds) ==
  {p \in bounds \X bounds : p[1] < p[2] /\ ~\E x \in bounds : p[1] < x /\ x < p[2]}

\* combine: the stretches that are present, joined where they touch and agree.
Combine(piece) ==
  LET Extend(list, p) ==
        IF ~piece[p].present THEN list
        ELSE IF list # <<>> /\ Last(list).end = p[1] /\ Last(list).inheritable = piece[p].inheritable
             THEN [list EXCEPT ![Len(list)].end = p[2]]
             ELSE Append(list, [start |-> p[1], end |-> p[2], inheritable |-> piece[p].inheritable])
  IN FoldLeft(Extend, <<>>, SetToSortSeq(DOMAIN piece, LAMBDA p, q : p[1] < q[1]))

Bounds(list) == UNION {{r.start, r.end} : r \in ToSet(list)}

\* covers: the ranges of a list around a stretch
Covers(list, p) ==
  LET around == {r \in ToSet(list) : r.start <= p[1] /\ p[2] <= r.end} IN
  [present |-> around # {}, inheritable |-> \E r \in around : r.inheritable]

\* Normalize: whatever order and overlaps; an inheritable range prevails.
Normalize(list) ==
  LET bounds == Bounds(SelectSeq(list, LAMBDA r : r.start >= 0 /\ r.start < r.end))
  IN Combine([p \in Stretches(bounds) |-> Covers(list, p)])

\* The sweep over two lists: what each has in every stretch of both.
Sweep(first, second) ==
  LET a == Normalize(first)
      b == Normalize(second)
  IN [p \in Stretches(Bounds(a) \cup Bounds(b)) |-> [a |-> Covers(a, p), b |-> Covers(b, p)]]

MergeRangelists(first, second) ==
  LET both == Sweep(first, second)
  IN Combine([p \in DOMAIN both |->
       [present     |-> both[p].a.present \/ both[p].b.present,
        inheritable |-> both[p].a.inheritable \/ both[p].b.inheritable]])

IntersectRangelists(first, second, considerInheritance) ==
  LET both == Sweep(first, second)
  IN Combine([p \in DOMAIN both |->
       [present     |-> /\ both[p].a.present /\ both[p].b.present
                        /\ considerInheritance => both[p].a.inheritable = both[p].b.inheritable,
        inheritable |-> both[p].a.inheritable \/ both[p].b.inheritable]])

\* Mutant: erases whatever the inheritance.
RemoveRangelistCareless(eraser, whiteboard, considerInheritance) ==
  LET both == Sweep(eraser, whiteboard)
  IN Combine([p \in DOMAIN both |->
       [present |-> both[p].b.present /\ ~both[p].a.present, inheritable |-> both[p].b.inheritable]])

RemoveRangelist(eraser, whiteboard, considerInheritance) ==
  LET both      == Sweep(eraser, whiteboard)
      Erased(c) == c.a.present /\ (considerInheritance => c.a.inheritable = c.b.inheritable)
  IN Combine([p \in DOMAIN both |->
       [present |-> both[p].b.present /\ ~Erased(both[p]), inheritable |-> both[p].b.inheritable]])

\* DiffRangelists
Deleted(from, to, considerInheritance) == RemoveRangelist(to, from, considerInheritance)
Added(from, to, considerInheritance)   == RemoveRangelist(from, to, considerInheritance)

ReverseRangelist(list) ==
  [i \in DOMAIN list |->
     LET r == list[Len(list) + 1 - i] IN [r EXCEPT !.start = r.end, !.end = r.start]]

Inheritable(list) == SelectSeq(Normalize(list), LAMBDA r : r.inheritable)

ToRevs(list) == UNION {(r.start + 1) .. r.end : r \in ToSet(Normalize(list))}

(***************************************************************************)
(* Text.  A field of a rangelist is "first" or "first-last", perhaps with  *)
(* a star.                                                                 *)
(***************************************************************************)
Field(r) ==
  [first  |-> IF r.start = r.end - 1 THEN r.end
              ELSE IF r.start - 1 = r.end THEN -r.start
              ELSE IF r.start < r.end THEN r.start + 1 ELSE r.start,
   last   |-> IF r.start < r.end THEN r.end ELSE r.end + 1,
   paired |-> r.start \notin {r.end - 1, r.end + 1},
   star   |-> ~r.inheritable]

\* Rangelist.String; an empty range has no text.
Format(list) == LET full == SelectSeq(list, LAMBDA r : r.start # r.end) IN
                [i \in DOMAIN full |-> Field(full[i])]

Malformed == [malformed |-> TRUE]

ParsedRange(f) == [start       |-> f.first - 1,
                   end         |-> IF f.paired THEN f.last ELSE f.first,
                   inheritable |-> ~f.star]

ParseRangelist(fields) ==
  LET list == [i \in DOMAIN fields |-> ParsedRange(fields[i])]
      Overlap(r, s) == r.start < s.end /\ s.start < r.end
  IN IF \/ fields = <<>>
        \/ \E f \in ToSet(fields) : f.first <= 0 \/ (f.paired /\ f.last <= f.first)
        \/ \E r, s \in ToSet(list) : Overlap(r, s) /\ r.inheritable # s.inheritable
     THEN Malformed ELSE Normalize(list)

(***************************************************************************)
(* Mergeinfo: a rangelist for each source path that has one.               *)
(***************************************************************************)
Of(info, path) == IF path \in DOMAIN info THEN info[path] ELSE <<>>

\* Sources of which nothing is left are left out.
CombineMergeinfo(info) == [p \in {q \in DOMAIN info : info[q] # <<>>} |-> info[p]]

MergeMergeinfo(first, second) ==
  CombineMergeinfo([p \in DOMAIN first \cup DOMAIN second |-> MergeRangelists(Of(first, p), Of(second, p))])

RemoveMergeinfo(eraser, whiteboard, considerInheritance) ==
  CombineMergeinfo([p \in DOMAIN eraser \cup DOMAIN whiteboard |->
                      RemoveRangelist(Of(eraser, p), Of(whiteboard, p), considerInheritance)])

InheritableMergeinfo(info) == CombineMergeinfo([p \in DOMAIN info |-> Inheritable(info[p])])

-----------------------------------------------------------------------------
(***************************************************************************)
(* What the operations should compute.                                     *)
(***************************************************************************)
\* The state of one revision under a list: absent, or merged for the node
\* alone, or for its subtree.
Mark(list, rev) ==
  LET over == {r \in ToSet(list) : r.start < rev /\ rev <= r.end} IN
  IF over = {} THEN "absent"
  ELSE IF \E r \in over : r.inheritable THEN "subtree" ELSE "node"

Canonical(list) ==
  /\ \A r \in ToSet(list) : r.start < r.end
  /\ \A i \in 1 .. Len(list) - 1 :
       \/ list[i].end < list[i + 1].start
       \/ list[i].end = list[i + 1].start /\ list[i].inheritable # list[i + 1].inheritable
=============================================================================
