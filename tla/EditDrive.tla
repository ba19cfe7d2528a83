------------------------------- MODULE EditDrive -------------------------------
(***************************************************************************)
(* Driving a tree editor: several changes to a repository made in one      *)
(* drive (mkdir, put, delete, copy, property), an import, the path driver  *)
(* that puts their calls in depth-first order, the depth filter, and the   *)
(* editors that receive the calls: the repository's commit editor and the  *)
(* in-memory tree builder.  A path is a sequence of names, <<>> the root; a *)
(* tree maps the paths that exist to their nodes.  A drive is the sequence *)
(* of calls it makes; an editor's refusal ends it.                         *)
(***************************************************************************)
EXTENDS Integers, Sequences, FiniteSets, SequencesExt

CONSTANTS
  Bytes(_),  \* the bytes of a name, as numbers; the separator is Separator
  Separator,
  Refused    \* the outcome of a drive the editor refuses

-----------------------------------------------------------------------------
(* Paths and trees *)

Node(kind, text, prop) == [kind |-> kind, text |-> text, prop |-> prop]
EmptyDir == Node("dir", "", "")

KindAt(tree, path) == IF path \in DOMAIN tree THEN tree[path].kind ELSE "none"

Under(path, parent) == IsPrefix(parent, path)

Without(tree, path) == [p \in {q \in DOMAIN tree : ~Under(q, path)} |-> tree[p]]

With(tree, path, node) == [p \in DOMAIN tree \cup {path} |-> IF p = path THEN node ELSE tree[p]]

\* A subtree of one tree put at a vacant path of another.
Grafted(tree, source, from, to) ==
  LET moved == {to \o SubSeq(p, Len(from) + 1, Len(p)) : p \in {q \in DOMAIN source : Under(q, from)}}
  IN [p \in DOMAIN tree \cup moved |->
        IF p \in moved THEN source[from \o SubSeq(p, Len(to) + 1, Len(p))] ELSE tree[p]]

\* What sort.Strings sees of a name and what follows it.
NameBytes(path, i) == Bytes(path[i]) \o (IF i < Len(path) THEN <<Separator>> ELSE <<>>)

BytesBefore(a, b) ==
  \E n \in 0 .. Len(a) :
    /\ n < Len(b) /\ \A i \in 1 .. n : a[i] = b[i]
    /\ n = Len(a) \/ a[n + 1] < b[n + 1]

Before(p, q) ==
  LET same == CHOOSE n \in 0 .. Len(p) : /\ n <= Len(q) /\ \A i \in 1 .. n : p[i] = q[i]
                                         /\ n = Len(p) \/ n = Len(q) \/ p[n + 1] # q[n + 1]
  IN /\ same < Len(q)
     /\ same = Len(p) \/ BytesBefore(NameBytes(p, same + 1), NameBytes(q, same + 1))

SortedPaths(paths) ==
  [i \in 1 .. Cardinality(paths) |->
     CHOOSE p \in paths : Cardinality({q \in paths : Before(q, p)}) = i - 1]

-----------------------------------------------------------------------------
(* PathDriver *)

\* A call on the editor.
Call(op, path) == [op |-> op, path |-> path, text |-> "", source |-> <<>>]

\* The directories to close, deepest first, so that the stack's top is an
\* ancestor of parent.
Popped(stack, parent) == SelectSeq(stack, LAMBDA d : Under(parent, d))

\* Directories between the stack's top and parent, to be opened.
Between(top, parent) == [i \in 1 .. Len(parent) - Len(top) |-> SubSeq(parent, 1, Len(top) + i)]

Closes(dirs) == [i \in DOMAIN dirs |-> Call("close_dir", dirs[Len(dirs) + 1 - i])]

\* node: for each path, the calls made for it and whether they leave a directory
\* open.
PathDriver(node) ==
  LET Visit(s, path) ==
        LET kept   == Popped(s.stack, Front(path))
            opened == Between(Last(kept), Front(path))
        IN [calls |-> s.calls
                      \o Closes(SubSeq(s.stack, Len(kept) + 1, Len(s.stack)))
                      \o [i \in DOMAIN opened |-> Call("open_dir", opened[i])]
                      \o node[path].calls,
            stack |-> kept \o opened \o (IF node[path].open THEN <<path>> ELSE <<>>)]
      last == FoldLeft(Visit, [calls |-> <<>>, stack |-> << <<>> >>], SortedPaths(DOMAIN node))
  IN last.calls \o Closes(Tail(last.stack))

-----------------------------------------------------------------------------
(* The commit editor of a repository, on a transaction begun at base *)

Vacant(tree, path) == KindAt(tree, Front(path)) = "dir" /\ path \notin DOMAIN tree

CommitCall(base, tree, call) ==
  LET p == call.path IN
  CASE call.op \in {"close_dir", "close_file"} -> tree
    [] call.op = "delete"   -> IF p \in DOMAIN tree THEN Without(tree, p) ELSE Refused
    [] call.op = "open_dir" -> IF KindAt(tree, p) = "dir" THEN tree ELSE Refused
    [] call.op = "open_file" -> IF KindAt(tree, p) = "file" THEN tree ELSE Refused
    [] call.op = "add_dir"  -> IF Vacant(tree, p) THEN With(tree, p, EmptyDir) ELSE Refused
    [] call.op = "add_file" -> IF Vacant(tree, p) THEN With(tree, p, Node("file", "", "")) ELSE Refused
    [] call.op \in {"copy_dir", "copy_file"} ->
                               IF Vacant(tree, p) /\ call.source \in DOMAIN base
                               THEN Grafted(tree, base, call.source, p) ELSE Refused
    [] call.op = "text"     -> IF KindAt(tree, p) = "file"
                               THEN [tree EXCEPT ![p].text = call.text] ELSE Refused
    [] call.op = "prop"     -> IF p \in DOMAIN tree
                               THEN [tree EXCEPT ![p].prop = call.text] ELSE Refused

CommitDrive(base, calls) ==
  FoldLeft(LAMBDA tree, call : IF tree = Refused THEN Refused ELSE CommitCall(base, tree, call),
           base, calls)

-----------------------------------------------------------------------------
(* Several changes in one drive *)

Action(kind, path) ==
  [kind |-> kind, path |-> path, source |-> <<>>, text |-> "", nodeKind |-> "none",
   allowExisting |-> FALSE, requireNew |-> FALSE]

\* Mutant: takes the kind for granted that the actions will find.
StartKindBlind(base, actions, path) == "none"

\* The kind a node starts with: what the base has there, or what a property
\* change on it says it will be.
StartKind(base, actions, path) ==
  LET hints == SelectSeq(actions, LAMBDA a : a.path = path /\ a.kind = "prop" /\ a.nodeKind # "none")
  IN IF KindAt(base, path) # "none" \/ hints = <<>> THEN KindAt(base, path) ELSE hints[1].nodeKind

\* One action of driveMuccNode: dir and file say what is open at the path, and
\* kind what the code believes is there.
MuccAction(s, a) ==
  LET Make(op)  == [Call(op, a.path) EXCEPT !.source = a.source]
      Put       == [Call("text", a.path) EXCEPT !.text = a.text]
      Prop      == [Call("prop", a.path) EXCEPT !.text = a.text]
      Open      == IF s.kind = "dir" THEN "open_dir" ELSE "open_file"
      isOpen    == s.dir \/ s.file
      Fails     == [s EXCEPT !.failed = TRUE]
  IN CASE s.failed -> s
       [] ~s.failed /\ a.kind = "mkdir" ->
            IF isOpen \/ (s.kind # "none" /\ ~(s.kind = "dir" /\ a.allowExisting)) THEN Fails
            ELSE [s EXCEPT !.dir = TRUE,
                           !.calls = Append(@, Make(IF s.kind = "dir" THEN "open_dir" ELSE "add_dir"))]
       [] ~s.failed /\ a.kind = "put" ->
            IF ~s.file /\ a.requireNew /\ s.kind # "none" THEN Fails
            ELSE [s EXCEPT !.file = TRUE,
                           !.calls = @ \o (IF s.file THEN <<Put>>
                                           ELSE <<Make(IF s.kind = "file" THEN "open_file"
                                                       ELSE "add_file"), Put>>)]
       [] ~s.failed /\ a.kind = "delete" ->
            IF isOpen THEN Fails
            ELSE [s EXCEPT !.kind = "none", !.calls = Append(@, Call("delete", a.path))]
       [] ~s.failed /\ a.kind = "copy" ->
            [s EXCEPT !.dir = @ \/ a.nodeKind = "dir", !.file = @ \/ a.nodeKind # "dir",
                      !.calls = Append(@, Make(IF a.nodeKind = "dir" THEN "copy_dir" ELSE "copy_file"))]
       [] ~s.failed /\ a.kind = "prop" ->
            IF ~isOpen /\ s.kind = "none" THEN Fails
            ELSE [s EXCEPT !.dir  = @ \/ (~isOpen /\ s.kind = "dir"),
                           !.file = @ \/ (~isOpen /\ s.kind = "file"),
                           !.calls = @ \o (IF isOpen THEN <<Prop>> ELSE <<Call(Open, a.path), Prop>>)]

\* driveMuccNode; a failure is a call no editor accepts.
MuccNode(base, actions, path) ==
  LET own  == SelectSeq(actions, LAMBDA a : a.path = path)
      last == FoldLeft(MuccAction,
                       [kind |-> StartKind(base, actions, path), dir |-> FALSE, file |-> FALSE,
                        failed |-> FALSE, calls |-> <<>>], own)
  IN [calls |-> IF last.failed THEN Append(last.calls, Call("open_file", <<>>))
                ELSE IF last.file THEN Append(last.calls, Call("close_file", path))
                ELSE last.calls,
      open  |-> last.dir /\ ~last.file]

MuccCalls(base, actions) ==
  LET own == SelectSeq(actions, LAMBDA a : a.path = <<>>)
      paths == {a.path : a \in ToSet(actions)} \ {<<>>}
  IN (IF \E a \in ToSet(own) : a.kind # "prop" THEN <<Call("open_file", <<>>)>>
      ELSE [i \in DOMAIN own |-> [Call("prop", <<>>) EXCEPT !.text = own[i].text]])
     \o PathDriver([p \in paths |-> MuccNode(base, actions, p)])

Mucc(base, actions) == CommitDrive(base, MuccCalls(base, actions))

\* The actions of an import: a directory for each directory of the local tree,
\* existing or not, and a new file for each file.
ImportActions(local, destination, parents) ==
  LET Mkdir(p)  == [Action("mkdir", p) EXCEPT !.allowExisting = TRUE]
      isDir     == local[<<>>].kind = "dir"
      deepest   == IF isDir THEN Len(destination) ELSE Len(destination) - 1
      above     == IF parents THEN [i \in 1 .. deepest |-> Mkdir(SubSeq(destination, 1, i))]
                   ELSE IF isDir THEN <<Mkdir(destination)>> ELSE <<>>
      below     == SortedPaths(IF isDir THEN DOMAIN local \ {<<>>} ELSE DOMAIN local)
      Put(p)    == [Action("put", destination \o p) EXCEPT !.text = local[p].text, !.requireNew = TRUE]
      Prop(p)   == [Action("prop", destination \o p) EXCEPT !.text = local[p].prop]
      Make(p)   == IF local[p].kind = "dir" THEN <<Mkdir(destination \o p)>>
                   ELSE IF local[p].prop = "" THEN <<Put(p)>> ELSE <<Put(p), Prop(p)>>
  IN above \o FlattenSeq([i \in DOMAIN below |-> Make(below[i])])

\* MkdirURL, with or without the parents
MkdirActions(path, parents) ==
  IF parents
  THEN [i \in DOMAIN path |-> [Action("mkdir", SubSeq(path, 1, i)) EXCEPT !.allowExisting = TRUE]]
  ELSE <<Action("mkdir", path)>>

\* MoveURL: the copy is taken from the base, so the deletion may come first.
MoveActions(source, destination, kind) ==
  <<Action("delete", source),
    [Action("copy", destination) EXCEPT !.source = source, !.nodeKind = kind]>>

-----------------------------------------------------------------------------
(* The depth filter *)

AllowsDirectory(depth, level) ==
  \/ depth = "infinity"
  \/ depth = "immediates" /\ level <= 1
  \/ depth \in {"empty", "files"} /\ level = 0

AllowsFile(depth, level) ==
  \/ depth = "infinity"
  \/ depth \in {"immediates", "files"} /\ level <= 1
  \/ depth = "empty" /\ level = 0

\* DepthFilter: what it swallows it swallows with all that is below; s.swallowed
\* holds the directories and files whose calls go to a no-op editor.
DepthFilter(calls, depth) ==
  LET Pass(s, call) ==
        LET level    == Len(call.path)
            onParent == call.op \in {"open_dir", "add_dir", "copy_dir", "open_file", "add_file",
                                     "copy_file", "delete"}
            isDir    == call.op \in {"open_dir", "add_dir", "copy_dir"}
            handle   == IF onParent THEN Front(call.path) ELSE call.path
            allowed  == onParent => IF isDir THEN AllowsDirectory(depth, level)
                                    ELSE AllowsFile(depth, level)
        IN IF \E d \in s.swallowed : Under(handle, d) THEN s
           ELSE IF allowed THEN [s EXCEPT !.calls = Append(@, call)]
           ELSE IF call.op = "delete" THEN s
           ELSE [s EXCEPT !.swallowed = @ \cup {call.path}]
  IN FoldLeft(Pass, [calls |-> <<>>, swallowed |-> {}], calls).calls

-----------------------------------------------------------------------------
(* TreeBuilder: like the commit editor, but a copy starts empty. *)
BuilderCall(tree, call) ==
  LET vacant == call.path \notin DOMAIN tree IN
  CASE call.op = "copy_dir"  -> IF vacant THEN With(tree, call.path, EmptyDir) ELSE Refused
    [] call.op = "copy_file" -> IF vacant THEN With(tree, call.path, Node("file", "", "")) ELSE Refused
    [] OTHER -> CommitCall(tree, tree, call)

BuilderDrive(tree, calls) ==
  FoldLeft(LAMBDA t, call : IF t = Refused THEN Refused ELSE BuilderCall(t, call), tree, calls)
=============================================================================
