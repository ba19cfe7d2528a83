----------------------------- MODULE MCAlgorithms -----------------------------
(* Small problems for TLC. *)
EXTENDS Algorithms

MCRevisions  == 1 .. 3
MCRangelists == SeqOf(Ranges(3), 2)
MCTexts3     == SeqOf({"a", "A", "b"}, 3)
MCSources    == SeqOf(0 .. 1, 5)
MCTargets    == SeqOf(0 .. 1, 5)
MCViews      == {<<10, 11, 12>>}
MCOpLists    ==
  LET ops == [kind : {"source", "target"}, offset : 0 .. 2, length : 1 .. 2]
             \cup [kind : {"new"}, offset : {0}, length : 1 .. 2]
      Fresh(list, i) == FoldLeft(LAMBDA sum, op : IF op.kind = "new" THEN sum + op.length ELSE sum,
                                 0, SubSeq(list, 1, i - 1))
  IN {[i \in DOMAIN list |-> IF list[i].kind = "new" THEN [list[i] EXCEPT !.offset = Fresh(list, i)]
                             ELSE list[i]] : list \in SeqOf(ops, 3)}
MCByteStrings == SeqOf(0 .. 7, 4)
MCSameLine(x, y) == x = y \/ {x, y} = {"a", "A"}

\* "d-" continues "d" with a byte below the separator.
MCBytes(name) == CASE name = "d" -> <<2>> [] name = "d-" -> <<2, 0>>
                   [] name = "e" -> <<3>> [] name = "f" -> <<4>>

Dir == EmptyDir
File == Node("file", "old", "")
MCTrees ==
  { (<<>> :> Dir),
    (<<>> :> Dir) @@ (<<"d">> :> Dir) @@ (<<"d", "f">> :> File),
    (<<>> :> Dir) @@ (<<"d">> :> File) @@ (<<"e">> :> Dir) @@ (<<"e", "f">> :> File) }

Paths == {<<"d">>, <<"d-">>, <<"d", "f">>, <<"e">>, <<"e", "f">>}
Changes ==
  LET Fresh(k, p) == [Action(k, p) EXCEPT !.text = "new"] IN
       {[Fresh("mkdir", p) EXCEPT !.allowExisting = b] : p \in {<<"d">>, <<"d-">>, <<"e">>}, b \in BOOLEAN}
  \cup {[Fresh("put", p) EXCEPT !.requireNew = b] : p \in Paths \ {<<"e">>}, b \in {FALSE}}
  \cup {Fresh("delete", p) : p \in {<<"d">>, <<"d", "f">>}}
  \cup {[Fresh("copy", <<"e">>) EXCEPT !.source = <<"d">>, !.nodeKind = "dir"],
        [Fresh("copy", <<"d", "f">>) EXCEPT !.source = <<"e", "f">>, !.nodeKind = "file"]}
  \cup {[Fresh("prop", p) EXCEPT !.nodeKind = k] :
          p \in {<<>>, <<"d">>, <<"e", "f">>}, k \in {"none", "dir"}}
MCActionLists == (SeqOf(Changes, 3) \ {<<>>})
  \cup {MkdirActions(p, b) : p \in {<<"d">>, <<"d", "e", "f">>, <<"e", "d-">>}, b \in BOOLEAN}
  \cup {MoveActions(p, q, "dir") : p \in {<<"d">>, <<"e">>}, q \in {<<"d-">>, <<"d", "e">>, <<"e">>}}

MCImports ==
  [tree : {(<<>> :> Node("file", "old", "set")), (<<>> :> Dir) @@ (<<"f">> :> File),
           (<<>> :> Dir) @@ (<<"d">> :> Dir) @@ (<<"d", "f">> :> File) @@ (<<"d-">> :> File)},
   at : {<<"d">>, <<"d", "e">>, <<"e">>}, parents : BOOLEAN]
=============================================================================
