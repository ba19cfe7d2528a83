--------------------------- MODULE MCRaDavSession ---------------------------
(***************************************************************************)
(* Instances of RaDavSession for TLC.                                      *)
(***************************************************************************)
EXTENDS RaDavSession, TLC

K(call, n, text, from, added, prop) ==
    [call |-> call, name |-> n, text |-> text, from |-> from, added |-> added, prop |-> prop]
Root == K("OpenRoot", "", None, None, FALSE, FALSE)
Done == <<K("CloseDirectory", "", None, None, FALSE, FALSE), K("CloseEdit", "", None, None, FALSE, FALSE)>>
Drive(body) == <<Root>> \o body \o Done

Edit(n, text) == <<K("OpenFile", n, None, None, FALSE, FALSE), K("CloseFile", n, text, None, FALSE, FALSE)>>
Create(n, text) == <<K("AddFile", n, None, None, TRUE, FALSE), K("CloseFile", n, text, None, TRUE, FALSE)>>
Delete(n) == <<K("DeleteEntry", n, None, None, FALSE, FALSE)>>
Open(n, body, prop) == <<K("OpenDirectory", n, None, None, FALSE, FALSE)>> \o body
                         \o <<K("CloseDirectory", n, None, None, FALSE, prop)>>
Make(n, from, body) == <<K("AddDirectory", n, None, from, TRUE, FALSE)>> \o body
                         \o <<K("CloseDirectory", n, None, from, TRUE, FALSE)>>
Restore(n, from) == <<K("AddFile", n, None, from, TRUE, FALSE), K("CloseFile", n, "more", from, TRUE, TRUE)>>

Commit(body, keep) == [kind |-> "commit", drive |-> Drive(body), keep |-> keep]
LockAll(names, steal) == [kind |-> "lock", names |-> names, steal |-> steal]
UnlockAll(names, break) == [kind |-> "unlock", names |-> names, break |-> break]
Revprop(value, old, dontCare) == [kind |-> "revprop", value |-> value, old |-> old, dontCare |-> dontCare]
Update(anchor, n) == [kind |-> "update", anchor |-> anchor, name |-> n]

Digest(strong, usable) == [scheme |-> "digest", strong |-> strong, usable |-> usable]
Basic == [scheme |-> "basic"]
Digests == <<Basic, Digest(FALSE, TRUE)>>
NoDigest == <<Digest(TRUE, FALSE), Basic>>

Right1 == <<"right">>
Right2 == <<"old", "right">>
Wrong == <<"old">>

CONSTANTS c1, c2
Cast(p1, w1, p2, offered, props) ==
    [prog |-> (c1 :> p1) @@ (c2 :> p2), wallet |-> (c1 :> w1) @@ (c2 :> Right1),
     offer |-> offered, withProps |-> props]

EditF == <<Commit(Edit("f", "new"), FALSE)>>
LockAndEdit == <<LockAll(<<"d/g", "f">>, TRUE), Commit(Open("d", Edit("d/g", "new"), TRUE), FALSE)>>
ReplaceD == <<Commit(Delete("d") \o Make("d", None, Create("d/g", "new")), FALSE)>>
RestoreAll == <<Commit(Delete("f") \o Restore("f", 0) \o Delete("d") \o Make("d", 0, <<>>), TRUE)>>
Again == <<Commit(Delete("g"), FALSE), Commit(Create("g", "new"), FALSE)>>
LockUnlock == <<LockAll(<<"f">>, FALSE), UnlockAll(<<"d/g", "f">>, TRUE)>>
Log == <<Revprop("log", None, FALSE), Revprop(None, None, TRUE)>>

MCCasts ==
    { Cast(EditF, Right1, EditF, Digests, FALSE),
      Cast(EditF, Right2, LockAndEdit, Digests, TRUE),
      Cast(LockAndEdit, Right1, LockUnlock, Digests, TRUE),
      Cast(ReplaceD, Right1, LockAndEdit, NoDigest, FALSE),
      Cast(RestoreAll, Right1, EditF, NoDigest, TRUE),
      Cast(Again, Right2, Again, NoDigest, TRUE),
      Cast(Again, Right1, RestoreAll, NoDigest, FALSE),
      Cast(Log, Right2, Log, Digests, TRUE),
      Cast(EditF, Wrong, <<Update("", "f")>>, Digests, TRUE),
      Cast(EditF, Right1, <<Update("", "f")>>, NoDigest, TRUE) }

MCUpdates == {Cast(<<Commit(Open("d", Edit("d/g", "new"), FALSE), FALSE)>>, Right1, <<Update("d", "g")>>, NoDigest, TRUE)}
=============================================================================
