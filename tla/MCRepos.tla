-------------------------------- MODULE MCRepos --------------------------------
(* Two directories, a file in each, and commits of one kind each for TLC. *)
EXTENDS Repos

MCBytes(name) == CASE name = "d" -> <<2>> [] name = "e" -> <<3>> [] name = "f" -> <<4>>

Paths == {<<"d">>, <<"e">>, <<"d", "f">>, <<"e", "f">>}

\* The mergeinfo that revision r writes says that r - 1 of /d was merged.
MCMergedBy(prop) ==
  {<<<<"d">>, r - 1>> : r \in {q \in 2 .. MaxRev : prop = "p" \o ToString(q)}}

One(path, change) == [p \in {path} |-> change]
Two(path, change, other, otherChange) == With(One(path, change), other, otherChange)

MCLocalChanges(trees, at, rev) ==
  LET tree  == trees[at]
      t     == "t" \o ToString(rev)
      p     == "p" \o ToString(rev)
      here  == DOMAIN tree
      files == {q \in here : tree[q].kind = "file"}
      free  == {q \in Paths : Vacant(tree, q)}
      Kind(q)    == tree[q].kind
      Edit(q)    == Local("modified", "file", None, tree[q].text, t, None)
      Prop(q)    == Local("modified", Kind(q), None, tree[q].text, None, p)
      Both(q)    == Local("modified", "file", None, tree[q].text, t, p)
      Gone(q)    == Local("deleted", Kind(q), None, "", None, None)
      New(s, k)  == Local(s, k, None, "", IF k = "file" THEN t ELSE None, None)
      \* a copy of what was at a path in revision r; a working copy compares a
      \* copied file with an empty one, Mucc sends its text with no checksum
      Copy(s, q, r) == Local(s, trees[r][q].kind, Place(q, r), None, None, None)
      sources    == {<<q, r>> \in (here \ {<<>>}) \X {at - 1, at} : r >= 0 /\ q \in DOMAIN trees[r]}
      copies     == {<<q, r, s>> \in here \X {at - 1, at} \X free :
                       r >= 0 /\ q # <<>> /\ q \in DOMAIN trees[r] /\ ~Under(s, q)}
      edits      == {One(q, Edit(q)) : q \in files} \cup {One(q, Prop(q)) : q \in here}
                    \cup {One(q, Both(q)) : q \in files}
      removals   == {One(q, Gone(q)) : q \in here \ {<<>>}}
      additions  == {One(q, New("added", k)) : q \in free, k \in {"dir", "file"}}
      plainCopies == {One(c[3], Copy("added", c[1], c[2])) : c \in copies}
      editedCopies == {One(c[3], [Copy("added", c[1], c[2]) EXCEPT !.text = t, !.base = b]) :
                         <<b, c>> \in {None, ""} \X {d \in copies : trees[d[2]][d[1]].kind = "file"}}
      \* a copied directory with a child edited, deleted or added
      deepCopies == UNION {
        LET child == c[1] \o <<"f">>
            to    == c[3] \o <<"f">>
            has   == child \in DOMAIN trees[c[2]]
            top   == Copy("added", c[1], c[2])
        IN IF has
           THEN {Two(c[3], top, to, Local("modified", "file", None, None, t, None)),
                 Two(c[3], top, to, [Copy("added", child, c[2]) EXCEPT !.text = t, !.base = ""]),
                 Two(c[3], top, to, Gone(child))}
           ELSE {}
        : c \in {d \in copies : d[2] = at /\ trees[d[2]][d[1]].kind = "dir" /\ Len(d[3]) = 1
                                /\ KindAt(trees[d[2]], d[1] \o <<"f">>) # "dir"}}
      moves      == {Two(c[3], Copy("added", c[1], c[2]), c[1], Gone(c[1])) : c \in {d \in copies : d[2] = at}}
      replaced   == {One(q, New("replaced", k)) : q \in here \ {<<>>}, k \in {"dir", "file"}}
                    \cup {One(q, Copy("replaced", s[1], s[2])) :
                            <<q, s>> \in {<<x, y>> \in (here \ {<<>>}) \X sources :
                                            x # y[1] /\ ~Under(x, y[1]) /\ ~Under(y[1], x)}}
  IN IF rev = 1 THEN {Two(<<"d">>, New("added", "dir"), <<"d", "f">>, New("added", "file"))}
     ELSE IF rev = MaxRev THEN {One(q, Edit(q)) : q \in files} \cup removals \cup {One(q, New("added", "file")) : q \in free}
     ELSE edits \cup removals \cup additions \cup plainCopies \cup editedCopies \cup deepCopies
          \cup moves \cup replaced
=============================================================================
