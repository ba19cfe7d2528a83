------------------------------ MODULE FsfsMerge ------------------------------
(***************************************************************************)
(* Transaction trees of fs/fsfs: what the tree operations of a TxnRoot do  *)
(* to the tree in memory and to the changed-paths list, and how Commit     *)
(* merges that tree with revisions committed since the transaction began   *)
(* (mergeYoungest, changesConflict, mergeTxnDirectory).                    *)
(*                                                                         *)
(* Each operation is one action: TxnRoot's run under Transaction.mu, and   *)
(* Commit under db/write-lock, whose steps are module FsfsStore.           *)
(*                                                                         *)
(* Abstracted: a file's text and a node property are marks naming who      *)
(* wrote them.  A path is the sequence of its names, the root is <<>>, and *)
(* a tree is a function from the paths that exist in it.                   *)
(***************************************************************************)
EXTENDS Naturals, Sequences

CONSTANTS
    Txns,       \* clients, each with at most one open transaction; also marks
    Paths,      \* paths the model can hold, closed under parents
    Imported,   \* the tree of revision 1: a function from paths to kinds
    Original,   \* the mark of what revision 1 contains
    None,       \* absence
    MaxRev,     \* bound: youngest revision
    MaxOps      \* bound: tree operations over all transactions

Kinds == {"file", "dir"}
Marks == Txns \cup {Original}

IsAncestor(p, q) == Len(p) < Len(q) /\ p = SubSeq(q, 1, Len(p))
Covers(p, q) == p = q \/ IsAncestor(p, q)
Parent(p) == SubSeq(p, 1, Len(p) - 1)

\* q with its prefix p replaced by r.
Moved(q, p, r) == r \o SubSeq(q, Len(p) + 1, Len(q))

\* The names that paths are made of.
Names == UNION {{p[i] : i \in DOMAIN p} : p \in Paths}

ASSUME PathsAssumption ==
    /\ Paths \subseteq Seq(Names)
    /\ <<>> \in Paths
    /\ \A p \in Paths \ {<<>>} : Parent(p) \in Paths
    /\ DOMAIN Imported \subseteq Paths
    /\ \A p \in DOMAIN Imported : Imported[p] \in Kinds
    /\ <<>> \in DOMAIN Imported
    /\ \A p \in DOMAIN Imported \ {<<>>} :
          Parent(p) \in DOMAIN Imported /\ Imported[Parent(p)] = "dir"
    /\ Imported[<<>>] = "dir"
    /\ None \notin Marks
    /\ Original \notin Txns
    /\ {MaxRev, MaxOps} \subseteq Nat

VARIABLES
    youngest,
    revision,   \* 0..youngest -> [tree, changes, wrote, overText, overProps]
    open,       \* Txns -> the open transaction, or None
    ops         \* tree operations so far, for the bound

vars == <<youngest, revision, open, ops>>

Tree(r) == revision[r].tree

\* f with k mapped to v, and f without the keys in S.
Put(f, k, v) == [x \in DOMAIN f \cup {k} |-> IF x = k THEN v ELSE f[x]]
Without(f, S) == [x \in DOMAIN f \ S |-> f[x]]
Nothing == [x \in {} |-> None]

\* A node revision: kind, text, properties and the path it was created at.
Node(kind, p, mark) ==
    [kind |-> kind, text |-> IF kind = "file" THEN mark ELSE None, props |-> {}, cpath |-> p]

\* A changed-paths entry, without its path.
Change(kind, text, props, from) == [kind |-> kind, text |-> text, props |-> props, from |-> from]

Init ==
    /\ youngest = 1
    /\ revision = [r \in 0..1 |->
            [tree |-> IF r = 0 THEN [p \in {<<>>} |-> Node("dir", p, None)]
                      ELSE [p \in DOMAIN Imported |-> Node(Imported[p], p, Original)],
             changes |-> IF r = 0 THEN Nothing
                         ELSE [p \in DOMAIN Imported \ {<<>>} |-> Change("add", TRUE, FALSE, None)],
             wrote |-> Nothing, overText |-> Nothing, overProps |-> Nothing]]
    /\ open = [t \in Txns |-> None]
    /\ ops = 0

\* newTxnNode: a node not touched by the transaction.  at is where its base
\* is read from: a revision root and a path in it.
Clean(node, r, p) ==
    [node |-> node, at |-> <<r, p>>, dirty |-> FALSE, newNode |-> FALSE,
     textModified |-> FALSE, propsModified |-> FALSE]

(***************************************************************************)
(* Tree operations.  wrote, overText and overProps are history: the text   *)
(* each path was given, and the text and the properties the transaction's  *)
(* base had there when it was last written.                                *)
(***************************************************************************)
Begin(t, r) ==
    /\ open[t] = None
    /\ youngest < MaxRev                            \* bound
    /\ open' = [open EXCEPT ![t] =
            [base |-> r, tree |-> [p \in DOMAIN Tree(r) |-> Clean(Tree(r)[p], r, p)],
             changes |-> Nothing, wrote |-> Nothing, overText |-> Nothing, overProps |-> Nothing]]
    /\ UNCHANGED <<youngest, revision, ops>>

Abort(t) ==
    /\ open[t] # None
    /\ open' = [open EXCEPT ![t] = None]
    /\ UNCHANGED <<youngest, revision, ops>>

\* markDirty on p and its ancestors.
MarkDirty(tree, p) ==
    [q \in DOMAIN tree |-> IF Covers(q, p) THEN [tree[q] EXCEPT !.dirty = TRUE] ELSE tree[q]]

\* A second change to a path is folded into the first one.  A modification
\* after a modification replaces the record, flags included.
RecordChange(changes, p, c) ==
    LET prev == changes[p] IN
    Put(changes, p,
        IF p \notin DOMAIN changes THEN c
        ELSE IF prev.kind = "delete" /\ c.kind = "add" THEN [c EXCEPT !.kind = "replace"]
        ELSE IF prev.kind \in {"add", "replace"}
        THEN [kind |-> prev.kind, text |-> c.text \/ prev.text, props |-> c.props \/ prev.props,
              from |-> IF c.from = None THEN prev.from ELSE c.from]
        ELSE c)

\* The new state x of transaction t, one operation later.
Operate(t, x) ==
    /\ ops' = ops + 1
    /\ open' = [open EXCEPT ![t] = x]
    /\ UNCHANGED <<youngest, revision>>

\* p can be made: its parent is a directory and has no such entry.
Vacant(tree, p) ==
    /\ p \notin DOMAIN tree
    /\ p # <<>>
    /\ Parent(p) \in DOMAIN tree /\ tree[Parent(p)].node.kind = "dir"

MakeNode(t, p, kind) ==
    /\ open[t] # None
    /\ LET x == open[t]
           made == [Clean(Node(kind, p, t), None, p) EXCEPT
                        !.dirty = TRUE, !.newNode = TRUE, !.textModified = (kind = "file")]
       IN /\ Vacant(x.tree, p)
          /\ Operate(t, [x EXCEPT
                !.tree = MarkDirty(Put(@, p, made), p),
                !.changes = RecordChange(@, p, Change("add", TRUE, FALSE, None)),
                !.wrote = Put(@, p, made.node.text)])

Delete(t, p) ==
    /\ open[t] # None
    /\ LET x == open[t]
           gone == {q \in DOMAIN x.tree : Covers(p, q)}
       IN /\ p \in DOMAIN x.tree \ {<<>>}
          /\ Operate(t, [x EXCEPT
                !.tree = MarkDirty(Without(@, gone), p),
                !.changes = RecordChange(@, p, Change("delete", FALSE, FALSE, None)),
                !.wrote = Without(@, gone)])

\* Copy records, and reads the copied node from, the path the source was
\* created at, which is not src when src was itself copied with its parent.
Copy(t, r, src, dst) ==
    /\ open[t] # None
    /\ src \in DOMAIN Tree(r)
    /\ LET x == open[t]
           from == Tree(r)[src].cpath
           below == {q \in DOMAIN Tree(r) : Covers(src, q)}
           copy == [p \in {Moved(q, src, dst) : q \in below} |->
                        Clean(Tree(r)[Moved(p, dst, src)], r, Moved(p, dst, from))]
       IN /\ Vacant(x.tree, dst)
          /\ DOMAIN copy \subseteq Paths            \* bound
          /\ Operate(t, [x EXCEPT
                !.tree = MarkDirty([p \in DOMAIN @ \cup DOMAIN copy |->
                                        IF p \in DOMAIN copy THEN copy[p] ELSE @[p]], dst),
                !.changes = RecordChange(@, dst, Change("add", FALSE, FALSE, <<r, from>>))])

\* The base of a node can be read at its revision root and path.
Readable(n) == ~n.newNode => n.at[2] \in DOMAIN Tree(n.at[1])

\* The node that x's base has at p.  A failed merge may have brought it in from
\* a later revision.
BaseOf(x, p) ==
    LET n == x.tree[p] IN
    IF p \in DOMAIN Tree(x.base) THEN Tree(x.base)[p]
    ELSE IF ~n.newNode /\ n.at[2] = p /\ Readable(n) THEN Tree(n.at[1])[p]
    ELSE Node("dir", p, None)

\* over with v noted for p, unless x replaced the subtree that p is in and its
\* base had no p: then p replaces nothing.
Noted(over, x, p, v) ==
    IF \/ p \in DOMAIN Tree(x.base)
       \/ \A q \in DOMAIN x.changes : Covers(q, p) => x.changes[q].kind # "replace"
    THEN Put(over, p, v) ELSE Without(over, {p})

\* loadProperties: the node's own properties once changed, its base's before.
LoadedProps(n) ==
    IF n.newNode \/ n.propsModified THEN n.node.props ELSE Tree(n.at[1])[n.at[2]].props

ChangeNodeProp(t, p) ==
    /\ open[t] # None
    /\ p \in DOMAIN open[t].tree
    /\ LET x == open[t]
           n == x.tree[p]
       IN /\ ~n.propsModified => Readable(n)
          /\ \E props \in {LoadedProps(n) \cup {t}, LoadedProps(n) \ {Original}} :
                Operate(t, [x EXCEPT
                    !.tree = MarkDirty([@ EXCEPT ![p].node.props = props,
                                                 ![p].propsModified = TRUE], p),
                    !.changes = RecordChange(@, p, Change("modify", FALSE, TRUE, None)),
                    !.overProps = Noted(@, x, p, BaseOf(x, p).props)])

ApplyText(t, p) ==
    /\ open[t] # None
    /\ p \in DOMAIN open[t].tree
    /\ open[t].tree[p].node.kind = "file"
    /\ LET x == open[t] IN
       Operate(t, [x EXCEPT
            !.tree = MarkDirty([@ EXCEPT ![p].node.text = t, ![p].textModified = TRUE], p),
            !.changes = RecordChange(@, p, Change("modify", TRUE, FALSE, None)),
            !.wrote = Put(@, p, t),
            !.overText = Noted(@, x, p, BaseOf(x, p).text)])

\* ApplyTextDelta needs the old text first; its window handler then does what
\* ApplyText does.
ApplyTextDelta(t, p) ==
    /\ open[t] # None
    /\ p \in DOMAIN open[t].tree
    /\ ~open[t].tree[p].textModified => Readable(open[t].tree[p])
    /\ ApplyText(t, p)

(***************************************************************************)
(* Merging with the youngest revision                                      *)
(***************************************************************************)
\* Mutant: property changes never conflict.
ChangesConflictTextOnly(p, local, q, upstream) ==
    \/ /\ p = q
       /\ \/ local.kind # "modify" \/ upstream.kind # "modify"
          \/ local.text /\ upstream.text
    \/ IsAncestor(q, p) /\ upstream.kind \in {"delete", "replace"}
    \/ IsAncestor(p, q) /\ local.kind \in {"add", "delete", "replace"}

ChangesConflict(p, local, q, upstream) ==
    \/ /\ p = q
       /\ \/ local.kind # "modify" \/ upstream.kind # "modify"
          \/ local.text /\ upstream.text
          \/ local.props /\ upstream.props
    \/ IsAncestor(q, p) /\ upstream.kind \in {"delete", "replace"}
    \/ IsAncestor(p, q) /\ local.kind \in {"add", "delete", "replace"}

\* Mutant: a transaction with a new base is compared with one revision too few.
ConflictsFromSecond(t) ==
    \E r \in (open[t].base + 2)..youngest :
        \E p \in DOMAIN open[t].changes, q \in DOMAIN revision[r].changes :
            ChangesConflict(p, open[t].changes[p], q, revision[r].changes[q])

Conflicts(t) ==
    \E r \in (open[t].base + 1)..youngest :
        \E p \in DOMAIN open[t].changes, q \in DOMAIN revision[r].changes :
            ChangesConflict(p, open[t].changes[p], q, revision[r].changes[q])

\* The nodes mergeTxnDirectory descends to: from the root along dirty nodes
\* that are not new and that the youngest revision has too.
Visited(t, p) ==
    \A n \in 1..Len(p) :
        LET q == SubSeq(p, 1, n) IN
        /\ q \in DOMAIN open[t].tree /\ q \in DOMAIN Tree(youngest)
        /\ open[t].tree[q].dirty /\ ~open[t].tree[q].newNode

\* Those that are a file on one side and a directory on the other: the merge
\* fails at the first of them it meets.
KindChanged(t) ==
    {p \in DOMAIN open[t].tree :
        Visited(t, p) /\ open[t].tree[p].node.kind # Tree(youngest)[p].kind}

\* The node at which the descent towards p ends.
Stop(t, p) ==
    SubSeq(p, 1, CHOOSE n \in 1..Len(p) :
                    /\ ~Visited(t, SubSeq(p, 1, n))
                    /\ Visited(t, SubSeq(p, 1, n - 1)))

\* The transaction's own subtree stays, because its root is dirty.
Kept(t, p) ==
    LET q == Stop(t, p) IN q \in DOMAIN open[t].tree /\ open[t].tree[q].dirty

\* Mutant: the youngest revision's text wins over a modified one.
RebasedNodeForgets(t, p) ==
    LET n == open[t].tree[p]
        latest == Tree(youngest)[p]
    IN [n EXCEPT
            !.at = <<youngest, p>>,
            !.node.text = latest.text,
            !.node.props = IF n.propsModified THEN @ ELSE latest.props,
            !.node.cpath = latest.cpath]

\* A visited node keeps what was modified and takes the rest from the
\* youngest revision.
RebasedNode(t, p) ==
    LET n == open[t].tree[p]
        latest == Tree(youngest)[p]
    IN [n EXCEPT
            !.at = <<youngest, p>>,
            !.node.text = IF n.textModified THEN @ ELSE latest.text,
            !.node.props = IF n.propsModified THEN @ ELSE latest.props,
            !.node.cpath = latest.cpath]

\* Mutant: a node the transaction did not touch stays as it was.
MergedTreeKeepsClean(t) ==
    LET mine == open[t].tree
        latest == Tree(youngest)
        Stays(p) == IF Visited(t, p) THEN TRUE
                    ELSE IF Kept(t, p) THEN p \in DOMAIN mine ELSE p \in DOMAIN latest
    IN [p \in {q \in Paths : Stays(q)} |->
            IF Visited(t, p) THEN RebasedNode(t, p)
            ELSE IF Kept(t, p) \/ p \in DOMAIN mine THEN mine[p]
            ELSE Clean(latest[p], youngest, p)]

\* mergeTxnDirectory: visited nodes are rebased; below the last of them the
\* subtree is the transaction's if it is dirty, the youngest revision's if
\* not, and also the youngest revision's if the transaction has none.
MergedTree(t) ==
    LET mine == open[t].tree
        latest == Tree(youngest)
        Stays(p) == IF Visited(t, p) THEN TRUE
                    ELSE IF Kept(t, p) THEN p \in DOMAIN mine ELSE p \in DOMAIN latest
    IN [p \in {q \in Paths : Stays(q)} |->
            IF Visited(t, p) THEN RebasedNode(t, p)
            ELSE IF Kept(t, p) THEN mine[p]
            ELSE Clean(latest[p], youngest, p)]

\* Mutant: the transaction is merged with its own base too.
RebasedAlways(t) == [open[t] EXCEPT !.base = youngest, !.tree = MergedTree(t)]

\* mergeYoungest, when the youngest revision is not the base already.
Rebased(t) ==
    IF open[t].base = youngest THEN open[t]
    ELSE [open[t] EXCEPT !.base = youngest, !.tree = MergedTree(t)]

\* A dirty node becomes a new node revision created at its path; its text and
\* properties are its own if modified, its base's if not.
Built(tree) ==
    [p \in DOMAIN tree |->
        IF tree[p].dirty \/ p = <<>> THEN [tree[p].node EXCEPT !.cpath = p] ELSE tree[p].node]

MayMerge(t) == open[t].base = youngest \/ (~Conflicts(t) /\ KindChanged(t) = {})

\* mergeTxnDirectory fails at k.  It takes the children of a directory in any
\* order, so those it has done by then are merged and the others are not.
MergeFails(t) ==
    /\ open[t] # None
    /\ open[t].base < youngest
    /\ ~Conflicts(t)
    /\ \E k \in KindChanged(t) :
       LET mine == open[t].tree
           beside == {c \in DOMAIN mine \ {<<>>} :
                        /\ IsAncestor(Parent(c), k) /\ ~Covers(c, k)
                        /\ \A p \in KindChanged(t) : ~Covers(c, p)}
       IN \E done \in SUBSET beside :
          LET Done(p) == \E c \in done : Covers(c, p) IN
          open' = [open EXCEPT ![t].tree =
             [p \in {q \in DOMAIN mine : ~Done(q)} \cup {q \in DOMAIN MergedTree(t) : Done(q)} |->
                 IF Done(p) THEN MergedTree(t)[p] ELSE mine[p]]]
    /\ UNCHANGED <<youngest, revision, ops>>

\* A commit that conflicts changes nothing.
Commit(t) ==
    /\ open[t] # None
    /\ youngest < MaxRev                            \* bound
    /\ MayMerge(t)
    /\ LET x == Rebased(t) IN
       /\ revision' = [r \in 0..(youngest + 1) |->
                IF r <= youngest THEN revision[r]
                ELSE [tree |-> Built(x.tree), changes |-> x.changes, wrote |-> x.wrote,
                      overText |-> x.overText, overProps |-> x.overProps]]
       /\ youngest' = youngest + 1
       /\ open' = [open EXCEPT ![t] = None]
       /\ UNCHANGED ops

\* Commit fails after the merge (a path lock, a failed write): the rebased
\* transaction stays open and may be changed and committed again.
CommitFails(t) ==
    /\ open[t] # None
    /\ MayMerge(t)
    /\ open' = [open EXCEPT ![t] = Rebased(t)]
    /\ UNCHANGED <<youngest, revision, ops>>

Next ==
    \E t \in Txns :
        \/ \E r \in 0..youngest : Begin(t, r)
        \/ Abort(t)
        \/ /\ open[t] # None /\ ops < MaxOps            \* bound
           /\ \/ \E p \in Paths :
                    \/ \E kind \in Kinds : MakeNode(t, p, kind)
                    \/ Delete(t, p)
                    \/ ChangeNodeProp(t, p)
                    \/ ApplyText(t, p)
                    \/ ApplyTextDelta(t, p)
              \/ \E r \in 0..youngest, src \in Paths, dst \in Paths : Copy(t, r, src, dst)
        \/ Commit(t)
        \/ CommitFails(t)
        \/ MergeFails(t)

Spec == Init /\ [][Next]_vars
-----------------------------------------------------------------------------
(***************************************************************************)
(* Properties                                                              *)
(***************************************************************************)
\* Revision q changes the text, or the properties, of p and its changed-paths
\* list does not say so: the flags were lost in RecordChange.
TextUnreported(q, p) ==
    /\ p \in DOMAIN Tree(q) \cap DOMAIN Tree(q - 1)
    /\ Tree(q)[p].text # Tree(q - 1)[p].text
    /\ p \in DOMAIN revision[q].changes /\ revision[q].changes[p].kind = "modify"
    /\ ~revision[q].changes[p].text

PropsUnreported(q, p) ==
    /\ p \in DOMAIN Tree(q) \cap DOMAIN Tree(q - 1)
    /\ Tree(q)[p].props # Tree(q - 1)[p].props
    /\ p \in DOMAIN revision[q].changes /\ revision[q].changes[p].kind = "modify"
    /\ ~revision[q].changes[p].props

\* No lost update: when a revision says it modified the text or properties of
\* a path, the text or properties it replaces are those its author's
\* transaction was based on when it wrote them, whatever was merged since,
\* unless a revision in between changed them without saying so.
NoLostUpdate ==
    \A r \in 2..youngest :
        \A p \in DOMAIN revision[r].changes \cap DOMAIN Tree(r - 1) :
            LET c == revision[r].changes[p] IN
            c.kind = "modify" =>
                /\ c.text /\ p \in DOMAIN revision[r].overText =>
                      \/ Tree(r - 1)[p].text = revision[r].overText[p]
                      \/ \E q \in 2..(r - 1) : TextUnreported(q, p)
                /\ c.props /\ p \in DOMAIN revision[r].overProps =>
                      \/ Tree(r - 1)[p].props = revision[r].overProps[p]
                      \/ \E q \in 2..(r - 1) : PropsUnreported(q, p)

\* A merge brings in every unrelated upstream change and nothing else: away
\* from the paths a revision says it changed, its tree is the tree before.
NothingElseChanges ==
    \A r \in 2..youngest :
        \A p \in Paths :
            (\A q \in DOMAIN revision[r].changes : ~Covers(q, p)) =>
                /\ p \in DOMAIN Tree(r) <=> p \in DOMAIN Tree(r - 1)
                /\ p \in DOMAIN Tree(r) =>
                      /\ Tree(r)[p].kind = Tree(r - 1)[p].kind
                      /\ Tree(r)[p].text = Tree(r - 1)[p].text
                      /\ Tree(r)[p].props = Tree(r - 1)[p].props

\* Every node a transaction made and every text it wrote, and did not delete
\* again, is in the revision it becomes, through any number of merges.
WorkLands ==
    \A r \in 2..youngest :
        \A p \in DOMAIN revision[r].wrote :
            p \in DOMAIN Tree(r) /\ Tree(r)[p].text = revision[r].wrote[p]
==============================================================================
