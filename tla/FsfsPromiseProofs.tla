------------------------- MODULE FsfsPromiseProofs -------------------------
(***************************************************************************)
(* Proofs about FsfsPromise: the tree operations and the merge keep the    *)
(* promise of fs.FS.  FsfsMergeProofs has the types and the invariant of   *)
(* the trees that these proofs start from.                                 *)
(***************************************************************************)
EXTENDS FsfsPromise, FsfsMergeProofs

\* A record of a modification says what was modified.
Telling(changes) ==
  \A p \in DOMAIN changes : changes[p].kind = "modify" => changes[p].text \/ changes[p].props

\* The records of x agree with the revisions between what their author saw
\* and the base that x has now.
Agrees(x, sees) ==
  /\ DOMAIN sees = DOMAIN x.changes
  /\ \A p \in DOMAIN x.changes :
        /\ sees[p] \in 0..x.base
        /\ \A r \in (sees[p] + 1)..x.base : \A q \in DOMAIN revision[r].changes :
              ~ChangesConflict(p, x.changes[p], q, revision[r].changes[q])

SeenInv ==
  \A t \in Txns : open[t] # None => Telling(open[t].changes) /\ Agrees(open[t], seen[t])

\* The author of a change looked before the revision that has it.
LandedInv ==
  \A r \in 1..youngest : \A p \in DOMAIN revision[r].changes : landed[r][p] \in 0..(r - 1)

PromiseInv == WorkInv /\ SeenInv /\ LandedInv

-----------------------------------------------------------------------------
(***************************************************************************)
(* Records.                                                                *)
(***************************************************************************)
\* recordChange loses neither flag of a modification: what it leaves is the
\* change it was given, or the kind is that of the record it folds it into.
LEMMA RecordTells ==
  ASSUME NEW f \in Partial(PathChange), NEW p \in Paths, NEW c \in PathChange,
         Telling(f), c.kind = "modify" => c.text \/ c.props
  PROVE  RecordChange(f, p, c) \in Partial(PathChange) /\ Telling(RecordChange(f, p, c))
<1> DEFINE g == RecordChange(f, p, c)
           prev == f[p]
<1>1. /\ g \in Partial(PathChange)
      /\ \A q : q \in DOMAIN g <=> q \in DOMAIN f \/ q = p
      /\ \A q \in DOMAIN f : q # p => g[q] = f[q]
  BY RecordChangeIs
<1>2. g[p] = IF p \notin DOMAIN f THEN c
             ELSE IF prev.kind = "delete" /\ c.kind = "add" THEN [c EXCEPT !.kind = "replace"]
             ELSE IF prev.kind \in {"add", "replace"}
             THEN [kind |-> prev.kind, text |-> c.text \/ prev.text,
                   props |-> c.props \/ prev.props,
                   from |-> IF c.from = None THEN prev.from ELSE c.from]
             ELSE c
  BY DEF RecordChange, Put
<1> HIDE DEF g, prev
<1>3. g[p].kind = "modify" => g[p] = c
  <2>1. [c EXCEPT !.kind = "replace"].kind = "replace"
    BY DEF PathChange
  <2> QED
    BY <1>2, <2>1
<1>4. ASSUME NEW q \in DOMAIN g, g[q].kind = "modify"
      PROVE  g[q].text \/ g[q].props
  <2>1. CASE q = p
    BY <1>3, <1>4, <2>1
  <2>2. CASE q # p
    BY <1>1, <1>4, <2>2 DEF Telling
  <2> QED
    BY <2>1, <2>2
<1> QED
  BY <1>1, <1>4 DEF Telling, g

\* Under changesConflict a change that tells what it did excludes itself.
LEMMA ConflictsWithItself ==
  ASSUME NEW p, NEW c, c.kind = "modify" => c.text \/ c.props
  PROVE  ChangesConflict(p, c, p, c)
BY DEF ChangesConflict

\* The records of a transaction or a revision are among Records.
LEMMA RecordIs ==
  ASSUME NEW f \in Partial(PathChange), NEW p \in DOMAIN f
  PROVE  p \in Paths /\ f[p] \in PathChange /\ <<p, f[p]>> \in Records
<1>1. p \in Paths /\ f[p] \in PathChange
  BY PartialIs
<1>2. PathChange = [kind : {"add", "delete", "replace", "modify"}, text : BOOLEAN,
                    props : BOOLEAN, from : {None} \cup (Nat \X Paths)]
  BY DEF PathChange, ChangeKinds
<1>3. <<p, f[p]>> \in Records
  BY <1>1, <1>2 DEF Records
<1> QED
  BY <1>1, <1>3

LEMMA RejectedIs ==
  ASSUME NEW p, NEW c, NEW q, NEW d, <<p, c>> \in Records, <<q, d>> \in Records
  PROVE  << <<p, c>>, <<q, d>> >> \in Rejected <=> ChangesConflict(p, c, q, d)
BY DEF Rejected

-----------------------------------------------------------------------------
(***************************************************************************)
(* What a step does to the transactions: it ends one, gives it a record    *)
(* that tells what was done, or takes it, unless it conflicts, to the      *)
(* youngest revision with the records it has.                              *)
(***************************************************************************)
Continues(t, y) ==
  \/ y = None
  \/ /\ Telling(y.changes)
     /\ y.base \in 0..youngest
     /\ open[t] # None => \/ y.base = open[t].base
                          \/ y.base = youngest /\ ~Conflicts(t)

Retells(t) ==
  /\ UNCHANGED <<youngest, revision>>
  /\ \E y : open' = [open EXCEPT ![t] = y] /\ Continues(t, y)

\* The transaction an operation finds.
LEMMA OpenTells ==
  ASSUME WorkInv, SeenInv, NEW t \in Txns, open[t] # None
  PROVE  /\ open[t] \in Transaction
         /\ open[t].base \in 0..youngest
         /\ open[t].changes \in Partial(PathChange)
         /\ Telling(open[t].changes)
BY TransactionIs DEF WorkInv, SeenInv

\* An operation that records c for p.
LEMMA OperateTells ==
  ASSUME WorkInv, SeenInv, NEW t \in Txns, open[t] # None,
         NEW p \in Paths, NEW c \in PathChange, c.kind = "modify" => c.text \/ c.props,
         NEW y, Operate(t, y),
         y.base = open[t].base, y.changes = RecordChange(open[t].changes, p, c)
  PROVE  Retells(t)
<1>1. /\ open[t].changes \in Partial(PathChange) /\ Telling(open[t].changes)
      /\ open[t].base \in 0..youngest
  BY OpenTells
<1>2. Telling(y.changes)
  BY <1>1, RecordTells
<1>3. y.base \in 0..youngest
  BY <1>1
<1>4. Continues(t, y)
  BY <1>2, <1>3 DEF Continues
<1> QED
  BY <1>4 DEF Operate, Retells

LEMMA MakeNodeTells ==
  ASSUME WorkInv, SeenInv, NEW t \in Txns, NEW p \in Paths, NEW kind \in Kinds,
         MakeNode(t, p, kind)
  PROVE  Retells(t)
<1> DEFINE x == open[t]
           n == [Clean(Node(kind, p, t), None, p) EXCEPT
                    !.dirty = TRUE, !.newNode = TRUE, !.textModified = (kind = "file")]
           f == MarkDirty(Put(x.tree, p, n), p)
           c == RecordChange(x.changes, p, Change("add", TRUE, FALSE, None))
           w == Put(x.wrote, p, n.node.text)
           y == [x EXCEPT !.tree = f, !.changes = c, !.wrote = w]
<1>1. open[t] # None /\ Operate(t, y)
  BY DEF MakeNode
<1>2. open[t] \in Transaction
  BY <1>1, OpenTells
<1> HIDE DEF f, c, w
<1>3. y.base = x.base /\ y.changes = c
  BY <1>2 DEF Transaction
<1>4. /\ Change("add", TRUE, FALSE, None) \in PathChange
      /\ Change("add", TRUE, FALSE, None).kind # "modify"
  BY DEF Change, PathChange, ChangeKinds
<1> HIDE DEF y
<1> QED
  BY <1>1, <1>3, <1>4, OperateTells DEF c

LEMMA DeleteTells ==
  ASSUME WorkInv, SeenInv, NEW t \in Txns, NEW p \in Paths, Delete(t, p)
  PROVE  Retells(t)
<1> DEFINE x == open[t]
           gone == {q \in DOMAIN x.tree : Covers(p, q)}
           f == MarkDirty(Without(x.tree, gone), p)
           c == RecordChange(x.changes, p, Change("delete", FALSE, FALSE, None))
           w == Without(x.wrote, gone)
           y == [x EXCEPT !.tree = f, !.changes = c, !.wrote = w]
<1>1. open[t] # None /\ Operate(t, y)
  BY DEF Delete
<1>2. open[t] \in Transaction
  BY <1>1, OpenTells
<1> HIDE DEF f, c, w
<1>3. y.base = x.base /\ y.changes = c
  BY <1>2 DEF Transaction
<1>4. /\ Change("delete", FALSE, FALSE, None) \in PathChange
      /\ Change("delete", FALSE, FALSE, None).kind # "modify"
  BY DEF Change, PathChange, ChangeKinds
<1> HIDE DEF y
<1> QED
  BY <1>1, <1>3, <1>4, OperateTells DEF c

LEMMA CopyTells ==
  ASSUME WorkInv, SeenInv, NEW t \in Txns, NEW r \in 0..youngest, NEW src \in Paths,
         NEW dst \in Paths, Copy(t, r, src, dst)
  PROVE  Retells(t)
<1> DEFINE x == open[t]
           from == Tree(r)[src].cpath
           copied == Change("add", FALSE, FALSE, <<r, from>>)
           f == MarkDirty(Grafted(x.tree, CopyOf(r, src, dst)), dst)
           c == RecordChange(x.changes, dst, copied)
           y == [x EXCEPT !.tree = f, !.changes = c]
<1>1. open[t] # None /\ src \in DOMAIN Tree(r) /\ Operate(t, y)
  BY DEF Copy, CopyOf, Grafted
<1>2. open[t] \in Transaction /\ Typed
  BY <1>1, OpenTells DEF WorkInv
<1> HIDE DEF f, c
<1>3. y.base = x.base /\ y.changes = c
  BY <1>2 DEF Transaction
<1>4. copied \in PathChange /\ copied.kind # "modify"
  <2>1. Tree(r)[src] \in NodeRevision
    BY <1>1, <1>2, RevisionTree
  <2>2. from \in Paths
    BY <2>1 DEF NodeRevision
  <2>3. r \in Nat
    BY <1>2 DEF Typed
  <2> HIDE DEF from
  <2> QED
    BY <2>2, <2>3 DEF Change, PathChange, ChangeKinds
<1> HIDE DEF y, copied
<1> QED
  BY <1>1, <1>3, <1>4, OperateTells DEF c

LEMMA ApplyTextTells ==
  ASSUME WorkInv, SeenInv, NEW t \in Txns, NEW p \in Paths, ApplyText(t, p)
  PROVE  Retells(t)
<1> DEFINE x == open[t]
           f == MarkDirty([x.tree EXCEPT ![p].node.text = t, ![p].textModified = TRUE], p)
           c == RecordChange(x.changes, p, Change("modify", TRUE, FALSE, None))
           w == Put(x.wrote, p, t)
           o == Noted(x.overText, x, p, BaseOf(x, p).text)
           y == [x EXCEPT !.tree = f, !.changes = c, !.wrote = w, !.overText = o]
<1>1. open[t] # None /\ Operate(t, y)
  BY DEF ApplyText
<1>2. open[t] \in Transaction
  BY <1>1, OpenTells
<1> HIDE DEF f, c, w, o
<1>3. y.base = x.base /\ y.changes = c
  BY <1>2 DEF Transaction
<1>4. /\ Change("modify", TRUE, FALSE, None) \in PathChange
      /\ Change("modify", TRUE, FALSE, None).text
  BY DEF Change, PathChange, ChangeKinds
<1> HIDE DEF y
<1> QED
  BY <1>1, <1>3, <1>4, OperateTells DEF c

LEMMA ChangeNodePropTells ==
  ASSUME WorkInv, SeenInv, NEW t \in Txns, NEW p \in Paths, ChangeNodeProp(t, p)
  PROVE  Retells(t)
<1> DEFINE x == open[t]
           f(props) == MarkDirty([x.tree EXCEPT ![p].node.props = props,
                                                ![p].propsModified = TRUE], p)
           c == RecordChange(x.changes, p, Change("modify", FALSE, TRUE, None))
           o == Noted(x.overProps, x, p, BaseOf(x, p).props)
           y(props) == [x EXCEPT !.tree = f(props), !.changes = c, !.overProps = o]
<1>1. open[t] # None /\ \E props : Operate(t, y(props))
  BY ZenonT(60) DEF ChangeNodeProp
<1>2. PICK props : Operate(t, y(props))
  BY <1>1
<1>3. open[t] \in Transaction
  BY <1>1, OpenTells
<1> HIDE DEF f, c, o
<1>4. y(props).base = x.base /\ y(props).changes = c
  BY <1>3 DEF Transaction
<1>5. /\ Change("modify", FALSE, TRUE, None) \in PathChange
      /\ Change("modify", FALSE, TRUE, None).props
  BY DEF Change, PathChange, ChangeKinds
<1> HIDE DEF y
<1> QED
  BY <1>1, <1>2, <1>4, <1>5, OperateTells DEF c

LEMMA BeginTells ==
  ASSUME WorkInv, NEW t \in Txns, NEW r \in 0..youngest, Begin(t, r)
  PROVE  Retells(t)
<1> DEFINE f == [p \in DOMAIN Tree(r) |-> Clean(Tree(r)[p], r, p)]
           x == [base |-> r, tree |-> f, changes |-> Nothing, wrote |-> Nothing,
                 overText |-> Nothing, overProps |-> Nothing]
<1>1. open[t] = None /\ open' = [open EXCEPT ![t] = x] /\ UNCHANGED <<youngest, revision>>
  BY DEF Begin
<1>2. Telling(x.changes)
  BY NothingIs DEF Telling
<1>3. x.base \in 0..youngest
  OBVIOUS
<1>4. Continues(t, x)
  BY <1>1, <1>2, <1>3 DEF Continues
<1> HIDE DEF x
<1> QED
  BY <1>1, <1>4 DEF Retells

LEMMA CommitFailsTells ==
  ASSUME WorkInv, SeenInv, NEW t \in Txns, CommitFails(t)
  PROVE  Retells(t)
<1>1. /\ open[t] # None /\ MayMerge(t) /\ open' = [open EXCEPT ![t] = Rebased(t)]
      /\ UNCHANGED <<youngest, revision>>
  BY DEF CommitFails
<1>2. Rebased(t).base = youngest /\ Rebased(t).changes = open[t].changes
  BY <1>1, RebasedSound
<1>3. Telling(open[t].changes) /\ youngest \in 0..youngest
  BY <1>1, OpenTells DEF WorkInv, Typed
<1>4. Continues(t, Rebased(t))
  BY <1>1, <1>2, <1>3 DEF Continues, MayMerge
<1> QED
  BY <1>1, <1>4 DEF Retells

LEMMA MergeFailsTells ==
  ASSUME WorkInv, SeenInv, NEW t \in Txns, MergeFails(t)
  PROVE  Retells(t)
<1> DEFINE x == open[t]
<1>1. open[t] # None /\ UNCHANGED <<youngest, revision>>
  BY DEF MergeFails
<1>2. PICK done : open' = [open EXCEPT ![t].tree = Mixed(t, done)]
  BY DEF MergeFails, Mixed
<1> DEFINE m == Mixed(t, done)
           y == [x EXCEPT !.tree = m]
<1>3. open' = [open EXCEPT ![t] = y]
  BY <1>2 DEF x
<1>4. x \in Transaction /\ x.base \in 0..youngest /\ Telling(x.changes)
  BY <1>1, OpenTells
<1> HIDE DEF m
<1>5. y.base = x.base /\ y.changes = x.changes
  BY <1>4 DEF Transaction
<1> HIDE DEF y
<1>6. Continues(t, y)
  BY <1>4, <1>5 DEF Continues
<1> QED
  BY <1>1, <1>3, <1>6 DEF Retells

LEMMA StepTells ==
  ASSUME WorkInv, SeenInv, Next
  PROVE  \E t \in Txns : Commit(t) \/ Retells(t)
<1>1. PICK t \in Txns :
        \/ \E r \in 0..youngest : Begin(t, r)
        \/ Abort(t)
        \/ \E p \in Paths :
              \/ \E kind \in Kinds : MakeNode(t, p, kind)
              \/ Delete(t, p)
              \/ ChangeNodeProp(t, p)
              \/ ApplyText(t, p)
              \/ ApplyTextDelta(t, p)
        \/ \E r \in 0..youngest, src \in Paths, dst \in Paths : Copy(t, r, src, dst)
        \/ Commit(t)
        \/ CommitFails(t)
        \/ MergeFails(t)
  BY DEF Next
<1>2. CASE \E r \in 0..youngest : Begin(t, r)
  BY <1>2, BeginTells
<1>3. CASE Abort(t)
  BY <1>3 DEF Abort, Retells, Continues
<1>4. CASE \E p \in Paths : \E kind \in Kinds : MakeNode(t, p, kind)
  BY <1>4, MakeNodeTells
<1>5. CASE \E p \in Paths : Delete(t, p)
  BY <1>5, DeleteTells
<1>6. CASE \E p \in Paths : ChangeNodeProp(t, p)
  BY <1>6, ChangeNodePropTells
<1>7. CASE \E p \in Paths : ApplyText(t, p) \/ ApplyTextDelta(t, p)
  BY <1>7, ApplyTextTells DEF ApplyTextDelta
<1>8. CASE \E r \in 0..youngest, src \in Paths, dst \in Paths : Copy(t, r, src, dst)
  BY <1>8, CopyTells
<1>9. CASE Commit(t)
  BY <1>9
<1>10. CASE CommitFails(t)
  BY <1>10, CommitFailsTells
<1>11. CASE MergeFails(t)
  BY <1>11, MergeFailsTells
<1> QED
  BY <1>1, <1>2, <1>3, <1>4, <1>5, <1>6, <1>7, <1>8, <1>9, <1>10, <1>11

-----------------------------------------------------------------------------
(***************************************************************************)
(* The invariant.                                                          *)
(***************************************************************************)
\* What authors saw, when one transaction goes on or ends and the revisions
\* there are stay as they are.
LEMMA SeenStep ==
  ASSUME WorkInv, SeenInv, Sees, NEW t \in Txns, NEW y,
         open' = [open EXCEPT ![t] = y], Continues(t, y),
         \A r \in 0..youngest : revision'[r] = revision[r]
  PROVE  SeenInv'
<1>1. open \in [Txns -> Transaction \cup {None}] /\ youngest \in Nat
  BY DEF WorkInv, Typed
<1> SUFFICES ASSUME NEW u \in Txns, open'[u] # None
             PROVE  Telling(open'[u].changes) /\ Agrees(open[u], seen[u])'
  BY DEF SeenInv, Telling
<1> DEFINE z == open'[u]
<1>2. /\ Telling(z.changes) /\ z.base \in 0..youngest
      /\ open[u] # None => \/ z.base = open[u].base
                           \/ z.base = youngest /\ ~Conflicts(u)
  <2>1. CASE u = t
    BY <1>1, <2>1 DEF Continues
  <2>2. CASE u # t
    <3>1. z = open[u]
      BY <1>1, <2>2
    <3> QED
      BY <3>1, OpenTells
  <2> QED
    BY <2>1, <2>2
<1>3. seen'[u] = [p \in DOMAIN z.changes |->
                    IF SameRecord(u, p) THEN seen[u][p] ELSE z.base]
  BY DEF Sees
<1>4. ASSUME NEW p \in DOMAIN z.changes
      PROVE  /\ seen'[u][p] \in 0..z.base
             /\ \A r \in (seen'[u][p] + 1)..z.base : \A q \in DOMAIN revision'[r].changes :
                   ~ChangesConflict(p, z.changes[p], q, revision'[r].changes[q])
  <2>1. CASE ~SameRecord(u, p)
    <3>1. seen'[u][p] = z.base
      BY <1>3, <2>1
    <3>2. (z.base + 1)..z.base = {} /\ z.base \in 0..z.base
      BY <1>2
    <3> QED
      BY <3>1, <3>2
  <2>2. CASE SameRecord(u, p)
    <3> DEFINE x == open[u]
               s == seen[u][p]
    <3>1. x # None /\ p \in DOMAIN x.changes /\ z.changes[p] = x.changes[p] /\ seen'[u][p] = s
      BY <1>3, <2>2 DEF SameRecord
    <3>2. /\ s \in 0..x.base /\ x.base \in 0..youngest
          /\ \A r \in (s + 1)..x.base : \A q \in DOMAIN revision[r].changes :
                ~ChangesConflict(p, x.changes[p], q, revision[r].changes[q])
      BY <3>1, OpenTells DEF SeenInv, Agrees
    <3>3. z.base \in Nat /\ z.base <= youngest /\ x.base <= z.base
      BY <1>1, <1>2, <3>1, <3>2
    <3> HIDE DEF s
    <3>4. s \in 0..z.base
      <4> DEFINE b == z.base
                 c == x.base
      <4>1. c \in 0..youngest /\ s \in 0..c /\ b \in Nat /\ c <= b
        BY <3>2, <3>3
      <4> HIDE DEF b, c
      <4>2. s \in 0..b
        BY <4>1
      <4> QED
        BY <4>2 DEF b
    <3>5. ASSUME NEW r \in (s + 1)..z.base, NEW q \in DOMAIN revision[r].changes
          PROVE  r \in 0..youngest /\ ~ChangesConflict(p, x.changes[p], q, revision[r].changes[q])
      <4>1. r \in 0..youngest
        BY <1>1, <3>3, <3>4
      <4>2. CASE r <= x.base
        <5>1. r \in (s + 1)..x.base
          BY <3>2, <3>3, <4>1, <4>2
        <5> QED
          BY <3>2, <4>1, <5>1
      <4>3. CASE ~(r <= x.base)
        <5>1. ~(z.base = x.base)
          BY <3>2, <3>3, <4>1, <4>3
        <5>2. z.base = youngest /\ ~Conflicts(u)
          BY <1>2, <3>1, <5>1
        <5>3. r \in (x.base + 1)..youngest
          BY <1>1, <3>2, <4>1, <4>3
        <5> QED
          BY <3>1, <4>1, <5>2, <5>3 DEF Conflicts
      <4> QED
        BY <4>2, <4>3
    <3>6. \A r \in (s + 1)..z.base : r \in 0..youngest
      BY <1>1, <3>3, <3>4
    <3>7. \A r \in (s + 1)..z.base : \A q \in DOMAIN revision'[r].changes :
             ~ChangesConflict(p, z.changes[p], q, revision'[r].changes[q])
      BY <3>1, <3>5, <3>6
    <3> QED
      BY <3>1, <3>4, <3>7
  <2> QED
    BY <2>1, <2>2
<1>5. DOMAIN seen'[u] = DOMAIN z.changes
  BY <1>3
<1> QED
  BY <1>2, <1>4, <1>5 DEF Agrees

\* What Commit publishes.
LEMMA CommitPublishes ==
  ASSUME WorkInv, SeenInv, Lands, NEW t \in Txns, Commit(t)
  PROVE  /\ open[t] # None /\ MayMerge(t)
         /\ youngest \in Nat /\ youngest' = youngest + 1
         /\ open' = [open EXCEPT ![t] = None]
         /\ DOMAIN revision' = 0..youngest'
         /\ \A r \in 0..youngest : revision'[r] = revision[r] /\ landed'[r] = landed[r]
         /\ revision'[youngest'].changes = open[t].changes
         /\ landed'[youngest'] = seen[t]
<1>1. /\ open[t] # None /\ MayMerge(t) /\ youngest' = youngest + 1
      /\ open' = [open EXCEPT ![t] = None]
      /\ revision' = [r \in 0..(youngest + 1) |->
              IF r <= youngest THEN revision[r]
              ELSE [tree |-> Built(Rebased(t).tree), changes |-> Rebased(t).changes,
                    wrote |-> Rebased(t).wrote, overText |-> Rebased(t).overText,
                    overProps |-> Rebased(t).overProps]]
  BY DEF Commit
<1>2. youngest \in Nat /\ open \in [Txns -> Transaction \cup {None}]
  BY DEF WorkInv, Typed
<1>3. Rebased(t).changes = open[t].changes
  BY <1>1, RebasedSound
<1>4. PICK u \in Txns :
        /\ open[u] # None /\ open'[u] = None
        /\ landed' = [r \in 0..youngest' |-> IF r <= youngest THEN landed[r] ELSE seen[u]]
  BY <1>1, <1>2 DEF Lands
<1>5. u = t
  BY <1>1, <1>2, <1>4
<1>6. /\ ~(youngest + 1 <= youngest) /\ youngest + 1 \in 0..(youngest + 1)
      /\ \A r \in 0..youngest : r <= youngest /\ r \in 0..(youngest + 1)
  BY <1>2
<1> QED
  BY <1>1, <1>2, <1>3, <1>4, <1>5, <1>6

LEMMA PromiseStep ==
  PromiseInv /\ [PromiseNext]_promiseVars => PromiseInv'
<1> SUFFICES ASSUME PromiseInv, [PromiseNext]_promiseVars
             PROVE  PromiseInv'
  OBVIOUS
<1>1. WorkInv /\ SeenInv /\ LandedInv /\ youngest \in Nat
  BY DEF PromiseInv, WorkInv, Typed
<1>2. WorkInv'
  BY <1>1, WorkInductive DEF PromiseNext, promiseVars
<1>3. CASE UNCHANGED promiseVars
  <2>1. UNCHANGED <<youngest, revision, open, seen, landed>>
    BY <1>3 DEF promiseVars, vars
  <2>2. SeenInv'
    BY <1>1, <2>1 DEF SeenInv, Agrees, Telling
  <2>3. LandedInv'
    BY <1>1, <2>1 DEF LandedInv
  <2> QED
    BY <1>2, <2>2, <2>3 DEF PromiseInv
<1>4. CASE PromiseNext
  <2>1. PICK t \in Txns : Commit(t) \/ Retells(t)
    BY <1>1, <1>4, StepTells DEF PromiseNext
  <2>2. CASE Retells(t)
    <3>1. PICK y : open' = [open EXCEPT ![t] = y] /\ Continues(t, y)
      BY <2>2 DEF Retells
    <3>2. UNCHANGED <<youngest, revision>>
      BY <2>2 DEF Retells
    <3>3. SeenInv'
      BY <1>1, <1>4, <3>1, <3>2, SeenStep DEF PromiseNext
    <3>4. LandedInv'
      BY <1>1, <1>4, <3>2 DEF LandedInv, PromiseNext, Lands
    <3> QED
      BY <1>2, <3>3, <3>4 DEF PromiseInv
  <2>3. CASE Commit(t)
    <3>1. /\ open[t] # None /\ youngest' = youngest + 1
          /\ open' = [open EXCEPT ![t] = None]
          /\ \A r \in 0..youngest : revision'[r] = revision[r] /\ landed'[r] = landed[r]
          /\ revision'[youngest'].changes = open[t].changes
          /\ landed'[youngest'] = seen[t]
      BY <1>1, <1>4, <2>3, CommitPublishes DEF PromiseNext
    <3>2. Continues(t, None)
      BY DEF Continues
    <3>3. SeenInv'
      BY <1>1, <1>4, <3>1, <3>2, SeenStep DEF PromiseNext
    <3>4. ASSUME NEW r \in 1..youngest', NEW p \in DOMAIN revision'[r].changes
          PROVE  landed'[r][p] \in 0..(r - 1)
      <4>1. CASE r \in 1..youngest
        BY <1>1, <3>1, <3>4, <4>1 DEF LandedInv
      <4>2. CASE r = youngest'
        <5>1. seen[t][p] \in 0..open[t].base /\ open[t].base \in 0..youngest
          BY <1>1, <3>1, <3>4, <4>2, OpenTells DEF SeenInv, Agrees
        <5>2. seen[t][p] \in 0..youngest
          BY <1>1, <5>1
        <5> QED
          BY <1>1, <3>1, <4>2, <5>2
      <4> QED
        BY <1>1, <3>1, <4>1, <4>2
    <3>5. LandedInv'
      BY <3>4 DEF LandedInv
    <3> QED
      BY <1>2, <3>3, <3>5 DEF PromiseInv
  <2> QED
    BY <2>1, <2>2, <2>3
<1> QED
  BY <1>3, <1>4

LEMMA PromiseStart ==
  PromiseInit => PromiseInv
<1> SUFFICES ASSUME PromiseInit
             PROVE  PromiseInv
  OBVIOUS
<1>1. WorkInv
  BY InitialWork DEF PromiseInit
<1>2. SeenInv
  BY DEF PromiseInit, Init, SeenInv
<1>3. LandedInv
  <2>1. youngest = 1 /\ landed = [r \in 0..1 |-> [p \in DOMAIN revision[r].changes |-> 0]]
    BY DEF PromiseInit, Init
  <2> QED
    BY <2>1 DEF LandedInv
<1> QED
  BY <1>1, <1>2, <1>3 DEF PromiseInv

-----------------------------------------------------------------------------
(***************************************************************************)
(* The promise.                                                            *)
(***************************************************************************)
\* An entry of the history, and its edits.
LEMMA EntryIs ==
  ASSUME NEW r \in 0..youngest
  PROVE  /\ Recorded[r].val = None
         /\ \A e : e \in Recorded[r].edits <=>
               \E p \in DOMAIN revision[r].changes :
                  e = [change |-> <<p, revision[r].changes[p]>>, seen |-> landed[r][p]]
BY DEF Recorded

LEMMA CommitKeepsPromise ==
  ASSUME PromiseInv, PromiseInv', Lands, NEW t \in Txns, Commit(t)
  PROVE  History!HCommit
<1> DEFINE x == open[t]
           n == Recorded'[youngest']
<1>1. WorkInv /\ SeenInv /\ LandedInv
  BY DEF PromiseInv
<1>2. /\ x # None /\ MayMerge(t)
      /\ youngest \in Nat /\ youngest' = youngest + 1
      /\ \A r \in 0..youngest : revision'[r] = revision[r] /\ landed'[r] = landed[r]
      /\ revision'[youngest'].changes = x.changes
      /\ landed'[youngest'] = seen[t]
  BY <1>1, CommitPublishes
<1>3. DOMAIN Recorded' = 0..youngest'
  BY DEF Recorded
<1>4. \A r \in 0..youngest : Recorded'[r] = Recorded[r]
  <2> TAKE r \in 0..youngest
  <2> DEFINE Entry(changes, sees) ==
               [txn   |-> None,
                edits |-> {[change |-> <<p, changes[p]>>, seen |-> sees[p]] : p \in DOMAIN changes},
                val   |-> None]
  <2>1. r \in 0..youngest'
    BY <1>2
  <2>2. /\ Recorded[r] = Entry(revision[r].changes, landed[r])
        /\ Recorded'[r] = Entry(revision'[r].changes, landed'[r])
    BY <2>1 DEF Recorded
  <2> HIDE DEF Entry
  <2> QED
    BY <1>2, <2>2
<1>5. /\ n.val = None
      /\ \A e : e \in n.edits <=>
            \E p \in DOMAIN x.changes : e = [change |-> <<p, x.changes[p]>>, seen |-> seen[t][p]]
  <2>1. youngest' \in 0..youngest'
    BY <1>2
  <2>2. n = [txn   |-> None,
             edits |-> {[change |-> <<p, revision'[youngest'].changes[p]>>,
                         seen |-> landed'[youngest'][p]] :
                           p \in DOMAIN revision'[youngest'].changes},
             val   |-> None]
    BY <2>1 DEF Recorded
  <2> QED
    BY <1>2, <2>2
<1> HIDE DEF n
<1>6. ASSUME NEW p \in DOMAIN x.changes, NEW r \in (seen[t][p] + 1)..youngest,
             NEW q \in DOMAIN revision[r].changes
      PROVE  /\ r \in 1..youngest
             /\ ~ChangesConflict(p, x.changes[p], q, revision[r].changes[q])
  <2>1. /\ seen[t][p] \in 0..x.base /\ x.base \in 0..youngest
        /\ \A m \in (seen[t][p] + 1)..x.base : \A d \in DOMAIN revision[m].changes :
              ~ChangesConflict(p, x.changes[p], d, revision[m].changes[d])
    BY <1>1, <1>2, OpenTells DEF SeenInv, Agrees
  <2>2. r \in 1..youngest
    BY <1>2, <2>1
  <2>3. CASE r <= x.base
    <3>1. r \in (seen[t][p] + 1)..x.base
      BY <1>2, <2>1, <2>2, <2>3
    <3> QED
      BY <2>1, <2>2, <3>1
  <2>4. CASE ~(r <= x.base)
    <3>1. x.base # youngest /\ r \in (x.base + 1)..youngest
      BY <1>2, <2>1, <2>2, <2>4
    <3>2. ~Conflicts(t)
      BY <1>2, <3>1 DEF MayMerge
    <3> QED
      BY <2>2, <3>1, <3>2 DEF Conflicts
  <2> QED
    BY <2>3, <2>4
<1>7. ASSUME NEW p \in DOMAIN x.changes
      PROVE  <<p, x.changes[p]>> \in Records
  BY <1>1, <1>2, OpenTells, RecordIs
<1>8. ASSUME NEW r \in 0..youngest, NEW q \in DOMAIN revision[r].changes
      PROVE  <<q, revision[r].changes[q]>> \in Records
  <2>1. revision[r].changes \in Partial(PathChange)
    BY <1>1 DEF WorkInv, Typed, Revision
  <2> QED
    BY <2>1, RecordIs
<1>9. ASSUME NEW e \in n.edits, NEW r \in (e.seen + 1)..youngest, NEW d \in Recorded[r].edits
      PROVE  <<e.change, d.change>> \notin Rejected
  <2>1. PICK p \in DOMAIN x.changes :
          e = [change |-> <<p, x.changes[p]>>, seen |-> seen[t][p]]
    BY <1>5
  <2>2. seen[t][p] \in 0..x.base /\ x.base \in 0..youngest
    BY <1>1, <1>2, OpenTells DEF SeenInv, Agrees
  <2>3. r \in (seen[t][p] + 1)..youngest /\ r \in 0..youngest
    BY <1>2, <2>1, <2>2
  <2>4. PICK q \in DOMAIN revision[r].changes :
          d = [change |-> <<q, revision[r].changes[q]>>, seen |-> landed[r][q]]
    BY <2>3, EntryIs
  <2>5. ~ChangesConflict(p, x.changes[p], q, revision[r].changes[q])
    BY <1>6, <2>3
  <2>6. <<p, x.changes[p]>> \in Records /\ <<q, revision[r].changes[q]>> \in Records
    BY <1>7, <1>8, <2>3
  <2> QED
    BY <2>1, <2>4, <2>5, <2>6, RejectedIs
<1>10. ASSUME NEW r \in 1..youngest
       PROVE  Recorded[r].edits \cap n.edits = {}
  <2> SUFFICES ASSUME NEW e \in Recorded[r].edits, e \in n.edits
               PROVE  FALSE
    OBVIOUS
  <2>1. r \in 0..youngest
    BY <1>2
  <2>2. PICK p \in DOMAIN x.changes :
          e = [change |-> <<p, x.changes[p]>>, seen |-> seen[t][p]]
    BY <1>5
  <2>3. PICK q \in DOMAIN revision[r].changes :
          e = [change |-> <<q, revision[r].changes[q]>>, seen |-> landed[r][q]]
    BY <2>1, EntryIs
  <2>4. p = q /\ x.changes[p] = revision[r].changes[q] /\ seen[t][p] = landed[r][q]
    BY <2>2, <2>3
  <2>5. landed[r][q] \in 0..(r - 1)
    BY <1>1 DEF LandedInv
  <2>6. r \in (seen[t][p] + 1)..youngest
    BY <1>2, <2>4, <2>5
  <2>7. ~ChangesConflict(p, x.changes[p], p, x.changes[p])
    BY <1>6, <2>4, <2>6
  <2>8. x.changes[p].kind = "modify" => x.changes[p].text \/ x.changes[p].props
    BY <1>1, <1>2 DEF SeenInv, Telling
  <2> QED
    BY <2>7, <2>8, ConflictsWithItself
<1>11. History!MayFollow(n)
  BY <1>5, <1>9, <1>10 DEF History!MayFollow
<1> QED
  BY <1>2, <1>3, <1>4, <1>11 DEF History!HCommit, n

\* Every step keeps the promise of fs.FS: each revision is the next one, changes
\* no other, and carries only changes that agree with everything committed since
\* their author looked, however often the transaction was rebased by commits
\* that failed (recordChange, changesConflict, mergeYoungest, Commit).
THEOREM PromiseKept == PromiseSpec => KeepsPromise
<1>1. ASSUME PromiseInv, PromiseInv', [PromiseNext]_promiseVars
      PROVE  [History!HNext]_<<youngest, Recorded>>
  <2>1. CASE UNCHANGED promiseVars
    BY <2>1 DEF promiseVars, vars, Recorded
  <2>2. CASE PromiseNext
    <3>1. PICK t \in Txns : Commit(t) \/ Retells(t)
      BY <1>1, <2>2, StepTells DEF PromiseInv, PromiseNext
    <3>2. CASE Commit(t)
      BY <1>1, <2>2, <3>2, CommitKeepsPromise DEF PromiseNext, History!HNext
    <3>3. CASE Retells(t)
      BY <2>2, <3>3 DEF Retells, PromiseNext, Lands, Recorded
    <3> QED
      BY <3>1, <3>2, <3>3
  <2> QED
    BY <1>1, <2>1, <2>2
<1> QED
  BY <1>1, PromiseStart, PromiseStep, PTL DEF PromiseSpec, KeepsPromise
=============================================================================
