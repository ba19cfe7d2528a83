----------------------------- MODULE MCFsfsStore -----------------------------
(* Small instances of FsfsStore.  Changes are plain modifications of a path: *)
(* two changes conflict when they are to the same path.                      *)
EXTENDS FsfsStore, TLC

CONSTANTS t1, t2, p1, p2

MCThreads == {t1, t2}
MCProcsApart == {t1, t2}
MCApart == [t \in MCThreads |-> t]
MCProcsShared == {t1}
MCShared == [t \in MCThreads |-> t1]
MCPaths == {p1, p2}
MCOnePath == {p1}
MCPathOf == [c \in MCPaths |-> c]
MCOnePathOf == [c \in MCOnePath |-> c]
MCSymmetry == Permutations(MCThreads) \cup Permutations(MCPaths)
MCConflict == {<<c, d>> \in MCPaths \X MCPaths : c = d}
MCOneConflict == {<<p1, p1>>}
==============================================================================
