-------------------------------- MODULE MCWcTree --------------------------------
(* A directory with a file and one commit of each kind by others, for TLC. *)
EXTENDS WcTree

MCBytes(name) == CASE name = "d" -> <<2>> [] name = "e" -> <<3>> [] name = "f" -> <<4>>

MCMergedBy(prop) == {}

D == <<"d">>
E == <<"e">>
DF == <<"d", "f">>
EF == <<"e", "f">>

MCPaths == {D, E, DF, EF}
MCTop == {D}

One(path, change) == [p \in {path} |-> change]
Two(path, change, other, otherChange) == With(One(path, change), other, otherChange)

Edited    == Local("modified", "file", None, "one", "two", None)
Prop(k)   == Local("modified", k, None, "one", None, "two")
Gone(k)   == Local("deleted", k, None, "", None, None)
New(s, k) == Local(s, k, None, "", IF k = "file" THEN "two" ELSE None, None)
CopyOfD   == Local("added", "dir", Place(D, 1), "", None, None)

MCFirstDrive == Two(D, Local("added", "dir", None, "", None, None), DF, Local("added", "file", None, "", "one", None))
MCFirstFile  == One(D, Local("added", "file", None, "", "one", None))

MCOthersDrive ==
  {One(DF, Edited), One(DF, Prop("file")), One(D, Prop("dir")), One(DF, Gone("file")), One(D, Gone("dir")),
   One(E, New("added", "file")), One(E, New("added", "dir")), One(DF, New("replaced", "file")),
   Two(D, New("replaced", "dir"), DF, New("added", "file")), One(E, CopyOfD), Two(E, CopyOfD, D, Gone("dir"))}
MCOthersEdit == {One(D, Edited)}
=============================================================================
