--------------------------- MODULE FsfsHistoryProofs ---------------------------
(***************************************************************************)
(* Proofs about what the revisions of FsfsMerge make of each other, for    *)
(* every instance: that a merge changes nothing the revision does not      *)
(* report, and that no update is lost.                                     *)
(***************************************************************************)
EXTENDS FsfsMergeProofs

-----------------------------------------------------------------------------
(***************************************************************************)
(* What the changed-paths list ch says of a path: that p is at or below a  *)
(* path added or replaced, or deleted or replaced; and that s was added    *)
(* where nothing else was.                                                 *)
(***************************************************************************)
Renewed(ch, p) ==
  \E q \in DOMAIN ch : Covers(q, p) /\ ch[q].kind \in {"add", "replace"}

Removed(ch, p) ==
  \E q \in DOMAIN ch : Covers(q, p) /\ ch[q].kind \in {"delete", "replace"}

Brought(ch, s) ==
  /\ s \in DOMAIN ch /\ ch[s].kind = "add"
  /\ \A q \in DOMAIN ch : Covers(q, s) /\ ch[q].kind \in {"add", "replace"} => q = s

(***************************************************************************)
(* An open transaction with the base b: what its tree and its changes have *)
(* to do with the revisions since b.  A failed merge leaves parts of the   *)
(* tree at a later revision than the base.                                 *)
(***************************************************************************)
\* Some revision since b had room for s: a parent and no s.
Gap(b, s) ==
  \E k \in b..youngest : s \notin DOMAIN Tree(k) /\ Parent(s) \in DOMAIN Tree(k)

\* n is what some revision since b had at p, but for what n modifies.
Based(b, n, p) ==
  \E k \in b..youngest :
     /\ n.at = <<k, p>> /\ p \in DOMAIN Tree(k)
     /\ n.node.kind = Tree(k)[p].kind
     /\ ~n.textModified => n.node.text = Tree(k)[p].text
     /\ ~n.propsModified => n.node.props = Tree(k)[p].props

\* The changes account for the node n at p, and for the absence of c.
Reported(n, p, ch) ==
  /\ n.dirty => \E c \in DOMAIN ch : Covers(p, c)
  /\ n.newNode => p \in DOMAIN ch /\ ch[p].kind \in {"add", "replace"}
  /\ n.textModified \/ n.propsModified => p \in DOMAIN ch

Absent(b, c, ch) ==
  \/ Renewed(ch, Parent(c))
  \/ c \in DOMAIN ch /\ ch[c].kind # "modify"
  \/ Gap(b, c)

TreeTraced(b, f, ch) ==
  /\ \A p \in DOMAIN f : Reported(f[p], p, ch) /\ (Renewed(ch, p) \/ Based(b, f[p], p))
  /\ \A c \in Paths \ {<<>>} : Parent(c) \in DOMAIN f /\ c \notin DOMAIN f => Absent(b, c, ch)

AddsTraced(b, ch) ==
  \A s \in DOMAIN ch : Brought(ch, s) => s # <<>> /\ Gap(b, s)

(***************************************************************************)
(* Texts and properties alike: w says which.                               *)
(***************************************************************************)
Fields == {"text", "props"}
Part(n, w) == IF w = "text" THEN n.text ELSE n.props     \* of a node or a change
Over(x, w) == IF w = "text" THEN x.overText ELSE x.overProps
Unreported(r, p, w) == IF w = "text" THEN TextUnreported(r, p) ELSE PropsUnreported(r, p)

\* Revision k has v at p, but for changes that were not reported.
Matches(k, p, w, v) ==
  Part(Tree(k)[p], w) = v \/ \E r \in 2..k : Unreported(r, p, w)

\* v is what some revision since b had at p, or p is in a subtree that was
\* added where some revision since b had none.
Settled(b, ch, p, w, v) ==
  \/ \E k \in b..youngest : p \in DOMAIN Tree(k) /\ Matches(k, p, w, v)
  \/ \E s \in DOMAIN ch : Covers(s, p) /\ ch[s].kind = "add" /\ s # <<>> /\ Gap(b, s)

OverTraced(b, ch, over, w) ==
  \A p \in DOMAIN ch :
     /\ ch[p].kind = "modify" /\ Part(ch[p], w) /\ p \in DOMAIN over
     => Settled(b, ch, p, w, over[p])

Traced(x) ==
  /\ TreeTraced(x.base, x.tree, x.changes)
  /\ AddsTraced(x.base, x.changes)
  /\ \A w \in Fields : OverTraced(x.base, x.changes, Over(x, w), w)

(***************************************************************************)
(* A revision: what its changes say of the trees before and after it.      *)
(***************************************************************************)
StepTraced(before, after, ch) ==
  /\ \A p \in DOMAIN before : p \notin DOMAIN after => Removed(ch, p)
  /\ \A p \in DOMAIN after :
        \/ Renewed(ch, p)
        \/ /\ p \in DOMAIN before
           /\ after[p].kind = before[p].kind
           /\ p \notin DOMAIN ch =>
                 after[p].text = before[p].text /\ after[p].props = before[p].props
  /\ \A s \in DOMAIN ch : Brought(ch, s) => s \notin DOMAIN before

History ==
  /\ 1 <= youngest
  /\ \A r \in 1..youngest : StepTraced(Tree(r - 1), Tree(r), revision[r].changes)
  /\ \A p \in DOMAIN revision[1].changes : revision[1].changes[p].kind # "modify"
  /\ NoLostUpdate

HistoryInv ==
  /\ WorkInv
  /\ History
  /\ \A t \in Txns : open[t] # None => Traced(open[t])


-----------------------------------------------------------------------------
(***************************************************************************)
(* Topmost paths.                                                          *)
(***************************************************************************)
\* The prefixes of a path, by their lengths.
LEMMA PrefixLengths ==
  ASSUME NEW p \in Paths, NEW q \in Paths, Covers(q, p)
  PROVE  Len(q) \in 0..Len(p) /\ q = Up(p, Len(q))
<1>1. p \in Seq(Names) /\ q \in Seq(Names)
  BY PathTypes
<1>2. Len(q) <= Len(p) /\ q = Up(p, Len(q))
  BY <1>1, CoversIsUp
<1> DEFINE m == Len(q)
           n == Len(p)
<1>3. m \in Nat /\ n \in Nat /\ m <= n
  BY <1>1, <1>2
<1> HIDE DEF m, n
<1>4. m \in 0..n
  BY <1>3
<1> QED
  BY <1>2, <1>4 DEF m, n

LEMMA PrefixPaths ==
  ASSUME NEW p \in Paths, NEW n \in 0..Len(p)
  PROVE  /\ Up(p, n) \in Paths
         /\ Len(Up(p, n)) = n
         /\ Covers(Up(p, n), p)
         /\ n = 0 => Up(p, n) = <<>>
         /\ n # 0 => /\ n - 1 \in 0..Len(p)
                     /\ Up(p, n) # <<>>
                     /\ Parent(Up(p, n)) = Up(p, n - 1)
<1>1. p \in Seq(Names)
  BY PathTypes
<1>2. Up(p, n) \in Seq(Names) /\ Len(Up(p, n)) = n /\ Covers(Up(p, n), p)
  BY <1>1, UpIs, CoversIsUp
<1>3. Up(p, n) \in Paths
  BY <1>2, PathsClosed
<1>4. Up(p, 0) = <<>>
  <2>1. 0 \in 0..n
    OBVIOUS
  <2> QED
    BY <1>1, <2>1, UpOfUp
<1>5. ASSUME n # 0
      PROVE  /\ n - 1 \in 0..Len(p)
             /\ Up(p, n) # <<>>
             /\ Parent(Up(p, n)) = Up(p, n - 1)
  <2> DEFINE l == Len(p)
  <2>1. l \in Nat /\ n \in 0..l
    BY <1>1
  <2> HIDE DEF l
  <2>2. n - 1 \in 0..l /\ n - 1 \in 0..n
    BY <1>5, <2>1
  <2>3. Up(p, n) # <<>>
    BY <1>2, <1>5
  <2>4. Parent(Up(p, n)) = Up(Up(p, n), n - 1)
    BY <1>2 DEF Parent, Up
  <2>5. Up(Up(p, n), n - 1) = Up(p, n - 1)
    BY <1>1, <2>2, UpOfUp
  <2> QED
    BY <2>2, <2>3, <2>4, <2>5 DEF l
<1> QED
  BY <1>2, <1>3, <1>4, <1>5

\* On the way to a path that is missing there is a first one that is.
LEMMA FirstMissing ==
  ASSUME NEW D \in SUBSET Paths, <<>> \in D, NEW p \in Paths \ D
  PROVE  \E c \in Paths \ {<<>>} : Covers(c, p) /\ c \notin D /\ Parent(c) \in D
<1> DEFINE S == {n \in 0..Len(p) : Up(p, n) \notin D}
<1>1. Covers(p, p)
  BY PathTypes
<1>2. Len(p) \in S
  BY <1>1, PrefixLengths
<1>3. S \in SUBSET Nat
  OBVIOUS
<1>4. PICK n \in S : \A m \in S : n <= m
  <2> HIDE DEF S
  <2> QED
    BY <1>2, <1>3, LeastNatural
<1>5. n \in 0..Len(p) /\ n \in Nat /\ Up(p, n) \notin D
  BY <1>3, <1>4
<1>6. n # 0
  BY <1>5, PrefixPaths
<1>7. /\ Up(p, n) \in Paths /\ Up(p, n) # <<>> /\ Covers(Up(p, n), p)
      /\ Parent(Up(p, n)) = Up(p, n - 1) /\ n - 1 \in 0..Len(p)
  BY <1>5, <1>6, PrefixPaths
<1>8. n - 1 \notin S
  <2> HIDE DEF S
  <2>1. ~(n <= n - 1)
    BY <1>5
  <2> QED
    BY <1>4, <2>1
<1>9. Up(p, n - 1) \in D
  BY <1>7, <1>8
<1> QED
  BY <1>5, <1>7, <1>9

\* Of the changes that renew a path, the topmost replaces or adds anew.
LEMMA TopRenewed ==
  ASSUME NEW ch \in Partial(PathChange), NEW p \in Paths, Renewed(ch, p)
  PROVE  \E q \in DOMAIN ch : Covers(q, p) /\ (ch[q].kind = "replace" \/ Brought(ch, q))
<1> DEFINE R == {q \in DOMAIN ch : Covers(q, p) /\ ch[q].kind \in {"add", "replace"}}
           S == {Len(q) : q \in R}
<1>1. DOMAIN ch \subseteq Paths
  BY PartialIs
<1>2. \A q \in R : q \in Paths /\ Len(q) \in 0..Len(p) /\ q = Up(p, Len(q))
  BY <1>1, PrefixLengths
<1>3. S \in SUBSET Nat
  BY <1>2
<1>4. S # {}
  BY DEF Renewed
<1>5. PICK n \in S : \A m \in S : n <= m
  <2> HIDE DEF S
  <2> QED
    BY <1>3, <1>4, LeastNatural
<1>6. PICK q \in R : n = Len(q)
  BY <1>5
<1>7. ASSUME NEW a \in DOMAIN ch, Covers(a, q), ch[a].kind \in {"add", "replace"}
      PROVE  a = q
  <2>1. a \in Seq(Names) /\ q \in Seq(Names) /\ p \in Seq(Names) /\ a \in Paths /\ q \in Paths
    BY <1>1, PathTypes
  <2>2. Covers(a, p)
    BY <1>7, <2>1, CoversOrder
  <2>3. a \in R
    BY <1>7, <2>2
  <2>4. n <= Len(a)
    BY <1>5, <2>3
  <2>5. Len(a) \in 0..Len(q)
    BY <1>7, <2>1, PrefixLengths
  <2>6. Len(a) = n
    <3> DEFINE l == Len(a)
    <3>1. n <= l /\ l \in 0..n /\ n \in Nat
      BY <1>3, <1>6, <2>4, <2>5
    <3> HIDE DEF l
    <3>2. l = n
      BY <3>1
    <3> QED
      BY <3>2 DEF l
  <2> QED
    BY <1>2, <1>6, <2>3, <2>6
<1>8. ch[q].kind = "add" => Brought(ch, q)
  BY <1>7 DEF Brought
<1> QED
  BY <1>6, <1>8

-----------------------------------------------------------------------------
(***************************************************************************)
(* Recording a change keeps what the changes account for.                  *)
(***************************************************************************)
LEMMA RecordKinds ==
  ASSUME NEW f \in Partial(PathChange), NEW p \in Paths, NEW c \in PathChange
  PROVE  LET g == RecordChange(f, p, c)
         IN  /\ g \in Partial(PathChange)
             /\ \A q : q \in DOMAIN g <=> q \in DOMAIN f \/ q = p
             /\ \A q \in DOMAIN f : q # p => g[q] = f[q]
             /\ \A q \in DOMAIN f : f[q].kind \in {"add", "replace"} => g[q].kind = f[q].kind
             /\ g[p].kind = "modify" => g[p] = c
             /\ c.kind # "modify" => g[p].kind # "modify"
             /\ c.kind = "add" => g[p].kind \in {"add", "replace"}
             /\ g[p].kind = "add" =>
                  \/ p \in DOMAIN f /\ f[p].kind = "add"
                  \/ c.kind = "add" /\ (p \in DOMAIN f => f[p].kind = "modify")
<1> DEFINE g == RecordChange(f, p, c)
           prev == f[p]
           folded == [kind |-> prev.kind, text |-> c.text \/ prev.text,
                      props |-> c.props \/ prev.props,
                      from |-> IF c.from = None THEN prev.from ELSE c.from]
           v == IF p \notin DOMAIN f THEN c
                ELSE IF prev.kind = "delete" /\ c.kind = "add" THEN [c EXCEPT !.kind = "replace"]
                ELSE IF prev.kind \in {"add", "replace"} THEN folded
                ELSE c
<1>1. /\ g \in Partial(PathChange)
      /\ \A q : q \in DOMAIN g <=> q \in DOMAIN f \/ q = p
      /\ \A q \in DOMAIN f : q # p => g[q] = f[q]
      /\ g[p] \in PathChange
  BY RecordChangeIs
<1>2. g[p] = v
  BY DEF RecordChange, Put
<1>3. p \in DOMAIN f => prev \in PathChange
  BY PartialIs
<1>4. [c EXCEPT !.kind = "replace"].kind = "replace"
  BY DEF PathChange
<1>5. folded.kind = prev.kind
  OBVIOUS
<1>6. p \in DOMAIN f => prev.kind \in ChangeKinds
  BY <1>3 DEF PathChange
<1>7. c.kind \in ChangeKinds
  BY DEF PathChange
<1> HIDE DEF g, folded, prev
<1>8. /\ p \in DOMAIN f /\ prev.kind \in {"add", "replace"} => g[p].kind = prev.kind
      /\ g[p].kind = "modify" => g[p] = c
      /\ c.kind # "modify" => g[p].kind # "modify"
      /\ c.kind = "add" => g[p].kind \in {"add", "replace"}
      /\ g[p].kind = "add" =>
           \/ p \in DOMAIN f /\ prev.kind = "add"
           \/ c.kind = "add" /\ (p \in DOMAIN f => prev.kind = "modify")
  BY <1>2, <1>4, <1>5, <1>6, <1>7 DEF ChangeKinds
<1> QED
  BY <1>1, <1>8 DEF g, prev

LEMMA StillRenewed ==
  ASSUME NEW f \in Partial(PathChange), NEW p \in Paths, NEW c \in PathChange,
         NEW q, Renewed(f, q)
  PROVE  Renewed(RecordChange(f, p, c), q)
<1> DEFINE g == RecordChange(f, p, c)
<1>1. /\ \A a : a \in DOMAIN g <=> a \in DOMAIN f \/ a = p
      /\ \A a \in DOMAIN f : f[a].kind \in {"add", "replace"} => g[a].kind = f[a].kind
  BY RecordKinds
<1> HIDE DEF g
<1>2. Renewed(g, q)
  BY <1>1 DEF Renewed
<1> QED
  BY <1>2 DEF g

LEMMA RecordTree ==
  ASSUME NEW b, NEW f, NEW ch \in Partial(PathChange), TreeTraced(b, f, ch),
         NEW p \in Paths, NEW c \in PathChange, c.kind = "modify" => p \in DOMAIN f
  PROVE  TreeTraced(b, f, RecordChange(ch, p, c))
<1> DEFINE g == RecordChange(ch, p, c)
<1>1. /\ \A q : q \in DOMAIN g <=> q \in DOMAIN ch \/ q = p
      /\ \A q \in DOMAIN ch : q # p => g[q] = ch[q]
      /\ \A q \in DOMAIN ch : ch[q].kind \in {"add", "replace"} => g[q].kind = ch[q].kind
      /\ c.kind # "modify" => g[p].kind # "modify"
  BY RecordKinds
<1>2. \A q : Renewed(ch, q) => Renewed(g, q)
  BY StillRenewed
<1> HIDE DEF g
<1>3. ASSUME NEW q \in DOMAIN f
      PROVE  Reported(f[q], q, g) /\ (Renewed(g, q) \/ Based(b, f[q], q))
  <2>1. Reported(f[q], q, ch) /\ (Renewed(ch, q) \/ Based(b, f[q], q))
    BY DEF TreeTraced
  <2>2. Reported(f[q], q, g)
    BY <1>1, <2>1 DEF Reported
  <2> QED
    BY <1>2, <2>1, <2>2
<1>4. ASSUME NEW a \in Paths \ {<<>>}, Parent(a) \in DOMAIN f, a \notin DOMAIN f
      PROVE  Absent(b, a, g)
  <2>1. Absent(b, a, ch)
    BY <1>4 DEF TreeTraced
  <2>2. CASE Renewed(ch, Parent(a))
    BY <1>2, <2>2 DEF Absent
  <2>3. CASE a \in DOMAIN ch /\ ch[a].kind # "modify"
    <3>1. a = p => c.kind # "modify"
      BY <1>4
    <3> QED
      BY <1>1, <2>3, <3>1 DEF Absent
  <2>4. CASE Gap(b, a)
    BY <2>4 DEF Absent
  <2> QED
    BY <2>1, <2>2, <2>3, <2>4 DEF Absent
<1>5. TreeTraced(b, f, g)
  BY <1>3, <1>4 DEF TreeTraced
<1> QED
  BY <1>5 DEF g

\* A change that adds is recorded where there is a parent and no node.
LEMMA RecordAdds ==
  ASSUME NEW b, NEW f, NEW ch \in Partial(PathChange), TreeTraced(b, f, ch), AddsTraced(b, ch),
         NEW p \in Paths, NEW c \in PathChange,
         c.kind = "add" => p # <<>> /\ Parent(p) \in DOMAIN f /\ p \notin DOMAIN f
  PROVE  AddsTraced(b, RecordChange(ch, p, c))
<1> DEFINE g == RecordChange(ch, p, c)
<1>1. /\ g \in Partial(PathChange)
      /\ \A q : q \in DOMAIN g <=> q \in DOMAIN ch \/ q = p
      /\ \A q \in DOMAIN ch : q # p => g[q] = ch[q]
      /\ \A q \in DOMAIN ch : ch[q].kind \in {"add", "replace"} => g[q].kind = ch[q].kind
      /\ g[p].kind = "add" =>
           \/ p \in DOMAIN ch /\ ch[p].kind = "add"
           \/ c.kind = "add" /\ (p \in DOMAIN ch => ch[p].kind = "modify")
  BY RecordKinds
<1> HIDE DEF g
<1> SUFFICES ASSUME NEW s \in DOMAIN g, Brought(g, s)
             PROVE  s # <<>> /\ Gap(b, s)
  BY DEF AddsTraced, g
<1>2. \A q \in DOMAIN ch : Covers(q, s) /\ ch[q].kind \in {"add", "replace"} => q = s
  BY <1>1 DEF Brought
<1>3. CASE s \in DOMAIN ch /\ ch[s].kind = "add"
  <2>1. Brought(ch, s)
    BY <1>2, <1>3 DEF Brought
  <2> QED
    BY <1>3, <2>1 DEF AddsTraced
<1>4. CASE ~(s \in DOMAIN ch /\ ch[s].kind = "add")
  <2>1. s = p /\ c.kind = "add" /\ (p \in DOMAIN ch => ch[p].kind = "modify")
    BY <1>1, <1>4 DEF Brought
  <2>2. p # <<>> /\ Parent(p) \in DOMAIN f /\ p \notin DOMAIN f
    BY <2>1
  <2>3. Absent(b, p, ch)
    BY <2>2 DEF TreeTraced
  <2>4. ~Renewed(ch, Parent(p))
    <3> SUFFICES ASSUME NEW q \in DOMAIN ch, Covers(q, Parent(p)),
                        ch[q].kind \in {"add", "replace"}
                 PROVE  FALSE
      BY DEF Renewed
    <3>1. p \in Seq(Names) /\ q \in Paths /\ q \in Seq(Names) /\ Parent(p) \in Seq(Names)
      BY <2>2, PartialIs, PathTypes
    <3>2. Covers(Parent(p), p)
      BY <2>2, <3>1, CoversParent
    <3>3. Covers(q, p)
      BY <3>1, <3>2, CoversOrder
    <3>4. q = p
      BY <1>2, <2>1, <3>3
    <3>5. p \in DOMAIN ch /\ ch[p].kind = "modify"
      BY <2>1, <3>4
    <3> QED
      BY <3>4, <3>5
  <2> QED
    BY <2>1, <2>2, <2>3, <2>4 DEF Absent
<1> QED
  BY <1>3, <1>4

\* What a transaction replaces, after a change has been recorded for p.
LEMMA RecordOver ==
  ASSUME NEW b, NEW ch \in Partial(PathChange), NEW p \in Paths, NEW c \in PathChange,
         NEW w, NEW over, NEW over2, OverTraced(b, ch, over, w),
         \A q : q # p => /\ q \in DOMAIN over2 <=> q \in DOMAIN over
                         /\ q \in DOMAIN over => over2[q] = over[q],
         c.kind = "modify" /\ Part(c, w) /\ p \in DOMAIN over2 => Settled(b, ch, p, w, over2[p])
  PROVE  OverTraced(b, RecordChange(ch, p, c), over2, w)
<1> DEFINE g == RecordChange(ch, p, c)
<1>1. /\ \A q : q \in DOMAIN g <=> q \in DOMAIN ch \/ q = p
      /\ \A q \in DOMAIN ch : q # p => g[q] = ch[q]
      /\ \A q \in DOMAIN ch : ch[q].kind \in {"add", "replace"} => g[q].kind = ch[q].kind
      /\ g[p].kind = "modify" => g[p] = c
  BY RecordKinds
<1> HIDE DEF g
<1>2. ASSUME NEW q, NEW v, Settled(b, ch, q, w, v)
      PROVE  Settled(b, g, q, w, v)
  BY <1>1, <1>2 DEF Settled
<1>3. ASSUME NEW q \in DOMAIN g, g[q].kind = "modify", Part(g[q], w), q \in DOMAIN over2
      PROVE  Settled(b, g, q, w, over2[q])
  <2>1. CASE q = p
    BY <1>1, <1>2, <1>3, <2>1
  <2>2. CASE q # p
    <3>1. q \in DOMAIN ch /\ g[q] = ch[q] /\ q \in DOMAIN over /\ over2[q] = over[q]
      BY <1>1, <1>3, <2>2
    <3>2. Settled(b, ch, q, w, over[q])
      BY <1>3, <3>1 DEF OverTraced
    <3> QED
      BY <1>2, <3>1, <3>2
  <2> QED
    BY <2>1, <2>2
<1>4. OverTraced(b, g, over2, w)
  BY <1>3 DEF OverTraced
<1> QED
  BY <1>4 DEF g

\* What BaseOf and Noted remember of the base is settled.
LEMMA NotedSettled ==
  ASSUME WorkInv, NEW t \in Txns, open[t] # None, Traced(open[t]),
         NEW p \in DOMAIN open[t].tree, NEW w, NEW S, NEW over \in Partial(S),
         Part(BaseOf(open[t], p), w) \in S
  PROVE  LET x == open[t]
             over2 == Noted(over, x, p, Part(BaseOf(x, p), w))
         IN  /\ p \in Paths
             /\ \A q : q # p => /\ q \in DOMAIN over2 <=> q \in DOMAIN over
                                /\ q \in DOMAIN over => over2[q] = over[q]
             /\ p \in DOMAIN over2 => Settled(x.base, x.changes, p, w, over2[p])
<1> DEFINE x == open[t]
           v == Part(BaseOf(x, p), w)
           over2 == Noted(over, x, p, v)
           n == x.tree[p]
           b == x.base
           ch == x.changes
           inBase == p \in DOMAIN Tree(b)
           unreplaced == \A q \in DOMAIN ch : Covers(q, p) => ch[q].kind # "replace"
<1>1. /\ p \in Paths /\ ch \in Partial(PathChange) /\ n \in TxnNode
      /\ b \in 0..youngest /\ youngest \in Nat /\ v \in S
  <2>1. Typed
    BY DEF WorkInv
  <2> QED
    BY <2>1, TransactionIs DEF Typed
<1>2. /\ Reported(n, p, ch) /\ (Renewed(ch, p) \/ Based(b, n, p))
      /\ AddsTraced(b, ch)
  BY DEF Traced, TreeTraced
<1>3. b \in b..youngest
  BY <1>1
<1>4. BaseOf(x, p) = IF inBase THEN Tree(b)[p]
                     ELSE IF ~n.newNode /\ n.at[2] = p /\ Readable(n) THEN Tree(n.at[1])[p]
                     ELSE Node("dir", p, None)
  BY DEF BaseOf
<1>5. over2 = IF inBase \/ unreplaced THEN Put(over, p, v) ELSE Without(over, {p})
  BY DEF Noted
<1> HIDE DEF x, n, b, ch, inBase, unreplaced, over2, v
<1>6. /\ p \in DOMAIN Put(over, p, v) /\ Put(over, p, v)[p] = v
      /\ \A q : q # p => /\ q \in DOMAIN Put(over, p, v) <=> q \in DOMAIN over
                         /\ q \in DOMAIN over => Put(over, p, v)[q] = over[q]
  BY <1>1, PutIs
<1>7. /\ p \notin DOMAIN Without(over, {p})
      /\ \A q : q # p => /\ q \in DOMAIN Without(over, {p}) <=> q \in DOMAIN over
                         /\ q \in DOMAIN over => Without(over, {p})[q] = over[q]
  BY WithoutIs
<1>8. \A q : q # p => /\ q \in DOMAIN over2 <=> q \in DOMAIN over
                      /\ q \in DOMAIN over => over2[q] = over[q]
  BY <1>5, <1>6, <1>7
<1>9. ASSUME p \in DOMAIN over2
      PROVE  Settled(b, ch, p, w, over2[p])
  <2>1. (inBase \/ unreplaced) /\ over2[p] = v
    BY <1>5, <1>6, <1>7, <1>9
  <2>2. CASE inBase
    <3>1. v = Part(Tree(b)[p], w) /\ p \in DOMAIN Tree(b)
      BY <1>4, <2>2 DEF v, x, inBase
    <3>2. Matches(b, p, w, v)
      BY <3>1 DEF Matches
    <3> QED
      BY <1>3, <2>1, <3>1, <3>2 DEF Settled
  <2>3. CASE ~inBase /\ Renewed(ch, p)
    <3>1. PICK q \in DOMAIN ch : Covers(q, p) /\ (ch[q].kind = "replace" \/ Brought(ch, q))
      BY <1>1, <2>3, TopRenewed
    <3>2. Brought(ch, q)
      BY <2>1, <2>3, <3>1 DEF unreplaced
    <3>3. ch[q].kind = "add" /\ q # <<>> /\ Gap(b, q)
      BY <1>2, <3>2 DEF AddsTraced, Brought
    <3> QED
      BY <3>1, <3>3 DEF Settled
  <2>4. CASE ~inBase /\ ~Renewed(ch, p)
    <3>1. PICK k \in b..youngest : n.at = <<k, p>> /\ p \in DOMAIN Tree(k)
      BY <1>2, <2>4 DEF Based
    <3>2. ~n.newNode
      <4>1. n.newNode => Renewed(ch, p)
        BY <1>1, <1>2, PathTypes DEF Reported, Renewed
      <4> QED
        BY <2>4, <4>1
    <3>3. n.at[1] = k /\ n.at[2] = p
      BY <3>1
    <3>4. Readable(n)
      BY <3>1, <3>3 DEF Readable
    <3>5. BaseOf(x, p) = Tree(k)[p]
      BY <1>4, <2>4, <3>2, <3>3, <3>4
    <3>6. Matches(k, p, w, v)
      BY <3>5 DEF Matches, v
    <3> QED
      BY <2>1, <3>1, <3>6 DEF Settled
  <2> QED
    BY <2>2, <2>3, <2>4
<1> QED
  BY <1>1, <1>8, <1>9 DEF x, b, ch, over2, v

-----------------------------------------------------------------------------
(***************************************************************************)
(* What the tree operations do to a tree is accounted for, once the change *)
(* has been recorded.                                                      *)
(***************************************************************************)
LEMMA MarkTraced ==
  ASSUME NEW b, NEW f \in Partial(TxnNode), NEW ch, TreeTraced(b, f, ch),
         NEW p \in DOMAIN ch
  PROVE  TreeTraced(b, MarkDirty(f, p), ch)
<1> DEFINE g == MarkDirty(f, p)
<1>1. /\ \A q : q \in DOMAIN g <=> q \in DOMAIN f
      /\ \A q \in DOMAIN f :
            /\ g[q].node = f[q].node /\ g[q].at = f[q].at
            /\ g[q].newNode = f[q].newNode
            /\ g[q].textModified = f[q].textModified
            /\ g[q].propsModified = f[q].propsModified
            /\ g[q].dirty <=> (f[q].dirty \/ Covers(q, p))
  BY MarkDirtyIs
<1> HIDE DEF g
<1>2. ASSUME NEW q \in DOMAIN g
      PROVE  Reported(g[q], q, ch) /\ (Renewed(ch, q) \/ Based(b, g[q], q))
  <2>1. Reported(f[q], q, ch) /\ (Renewed(ch, q) \/ Based(b, f[q], q))
    BY <1>1 DEF TreeTraced
  <2>2. Reported(g[q], q, ch)
    BY <1>1, <2>1 DEF Reported
  <2>3. Based(b, f[q], q) => Based(b, g[q], q)
    BY <1>1 DEF Based
  <2> QED
    BY <2>1, <2>2, <2>3
<1>3. TreeTraced(b, g, ch)
  BY <1>1, <1>2 DEF TreeTraced
<1> QED
  BY <1>3 DEF g

LEMMA PutTraced ==
  ASSUME NEW b, NEW f \in Partial(TxnNode), NEW ch, TreeTraced(b, f, ch),
         NEW p \in Paths, NEW n \in TxnNode, Reported(n, p, ch),
         Renewed(ch, p) \/ (p \in DOMAIN f /\ Based(b, n, p))
  PROVE  TreeTraced(b, Put(f, p, n), ch)
<1> DEFINE g == Put(f, p, n)
<1>1. /\ \A q : q \in DOMAIN g <=> q \in DOMAIN f \/ q = p
      /\ g[p] = n
      /\ \A q \in DOMAIN f : q # p => g[q] = f[q]
  BY PutIs
<1> HIDE DEF g
<1>2. ASSUME NEW q \in DOMAIN g
      PROVE  Reported(g[q], q, ch) /\ (Renewed(ch, q) \/ Based(b, g[q], q))
  BY <1>1 DEF TreeTraced
<1>3. ASSUME NEW c \in Paths \ {<<>>}, Parent(c) \in DOMAIN g, c \notin DOMAIN g
      PROVE  Absent(b, c, ch)
  <2>1. CASE Parent(c) \in DOMAIN f
    BY <1>1, <1>3, <2>1 DEF TreeTraced
  <2>2. CASE Parent(c) \notin DOMAIN f
    BY <1>1, <1>3, <2>2 DEF Absent
  <2> QED
    BY <2>1, <2>2
<1>4. TreeTraced(b, g, ch)
  BY <1>2, <1>3 DEF TreeTraced
<1> QED
  BY <1>4 DEF g

LEMMA WithoutTraced ==
  ASSUME NEW b, NEW f \in Partial(TxnNode), NEW ch, TreeTraced(b, f, ch),
         NEW p \in Paths, p \in DOMAIN ch, ch[p].kind # "modify",
         NEW gone, gone = {q \in DOMAIN f : Covers(p, q)}
  PROVE  TreeTraced(b, Without(f, gone), ch)
<1> DEFINE g == Without(f, gone)
<1>1. /\ \A q : q \in DOMAIN g <=> q \in DOMAIN f \ gone
      /\ \A q \in DOMAIN f \ gone : g[q] = f[q]
  BY WithoutIs
<1> HIDE DEF g
<1>2. ASSUME NEW q \in DOMAIN g
      PROVE  Reported(g[q], q, ch) /\ (Renewed(ch, q) \/ Based(b, g[q], q))
  BY <1>1 DEF TreeTraced
<1>3. ASSUME NEW c \in Paths \ {<<>>}, Parent(c) \in DOMAIN g, c \notin DOMAIN g
      PROVE  Absent(b, c, ch)
  <2>1. CASE c \notin DOMAIN f
    BY <1>1, <1>3, <2>1 DEF TreeTraced
  <2>2. CASE c \in DOMAIN f
    <3>1. Covers(p, c) /\ ~Covers(p, Parent(c))
      BY <1>1, <1>3, <2>2
    <3>2. c = p
      BY <3>1, AboveParent
    <3> QED
      BY <3>2 DEF Absent
  <2> QED
    BY <2>1, <2>2
<1>4. TreeTraced(b, g, ch)
  BY <1>2, <1>3 DEF TreeTraced
<1> QED
  BY <1>4 DEF g

LEMMA GraftTraced ==
  ASSUME NEW b, NEW f \in Partial(TxnNode), NEW ch \in Partial(PathChange), TreeTraced(b, f, ch),
         NEW dst \in DOMAIN ch, ch[dst].kind \in {"add", "replace"},
         NEW c, \A p \in DOMAIN c :
                   /\ Covers(dst, p)
                   /\ ~c[p].dirty /\ ~c[p].newNode /\ ~c[p].textModified /\ ~c[p].propsModified
  PROVE  TreeTraced(b, Grafted(f, c), ch)
<1> DEFINE g == Grafted(f, c)
<1>1. /\ \A q : q \in DOMAIN g <=> q \in DOMAIN f \/ q \in DOMAIN c
      /\ \A q \in DOMAIN c : g[q] = c[q]
      /\ \A q \in DOMAIN f : q \notin DOMAIN c => g[q] = f[q]
  BY DEF Grafted
<1>2. \A q \in DOMAIN c : Renewed(ch, q)
  BY DEF Renewed
<1> HIDE DEF g
<1>3. ASSUME NEW q \in DOMAIN g
      PROVE  Reported(g[q], q, ch) /\ (Renewed(ch, q) \/ Based(b, g[q], q))
  <2>1. CASE q \in DOMAIN c
    BY <1>1, <1>2, <2>1 DEF Reported
  <2>2. CASE q \notin DOMAIN c
    BY <1>1, <2>2 DEF TreeTraced
  <2> QED
    BY <2>1, <2>2
<1>4. ASSUME NEW a \in Paths \ {<<>>}, Parent(a) \in DOMAIN g, a \notin DOMAIN g
      PROVE  Absent(b, a, ch)
  <2>1. CASE Parent(a) \in DOMAIN c
    BY <1>2, <2>1 DEF Absent
  <2>2. CASE Parent(a) \notin DOMAIN c
    BY <1>1, <1>4, <2>2 DEF TreeTraced
  <2> QED
    BY <2>1, <2>2
<1>5. TreeTraced(b, g, ch)
  BY <1>3, <1>4 DEF TreeTraced
<1> QED
  BY <1>5 DEF g

-----------------------------------------------------------------------------
(***************************************************************************)
(* What one state says of a transaction, the next says too as long as the  *)
(* revisions stay and the transaction is the same.                         *)
(***************************************************************************)
\* The next state has the revisions of this one, and maybe more.
Keeps ==
  /\ youngest \in Nat /\ youngest' \in Nat /\ youngest <= youngest'
  /\ \A k \in 0..youngest : revision'[k] = revision[k]

LEMMA KeepsGap ==
  ASSUME Keeps, NEW b \in 0..youngest, NEW s, Gap(b, s)
  PROVE  \E k \in b..youngest' :
            s \notin DOMAIN revision'[k].tree /\ Parent(s) \in DOMAIN revision'[k].tree
<1>1. PICK k \in b..youngest : s \notin DOMAIN Tree(k) /\ Parent(s) \in DOMAIN Tree(k)
  BY DEF Gap
<1>2. k \in 0..youngest /\ k \in b..youngest'
  BY <1>1 DEF Keeps
<1>3. revision'[k] = revision[k]
  BY <1>2 DEF Keeps
<1> QED
  BY <1>1, <1>2, <1>3 DEF Tree

LEMMA KeepsBased ==
  ASSUME Keeps, NEW b \in 0..youngest, NEW n, NEW p, Based(b, n, p)
  PROVE  \E k \in b..youngest' :
            /\ n.at = <<k, p>> /\ p \in DOMAIN revision'[k].tree
            /\ n.node.kind = revision'[k].tree[p].kind
            /\ ~n.textModified => n.node.text = revision'[k].tree[p].text
            /\ ~n.propsModified => n.node.props = revision'[k].tree[p].props
<1>1. PICK k \in b..youngest :
         /\ n.at = <<k, p>> /\ p \in DOMAIN Tree(k)
         /\ n.node.kind = Tree(k)[p].kind
         /\ ~n.textModified => n.node.text = Tree(k)[p].text
         /\ ~n.propsModified => n.node.props = Tree(k)[p].props
  BY DEF Based
<1>2. k \in 0..youngest /\ k \in b..youngest'
  BY <1>1 DEF Keeps
<1>3. revision'[k] = revision[k]
  BY <1>2 DEF Keeps
<1> QED
  BY <1>1, <1>2, <1>3 DEF Tree

LEMMA KeepsMatches ==
  ASSUME Keeps, NEW k \in 0..youngest, NEW p, NEW w, NEW v, Matches(k, p, w, v)
  PROVE  Matches(k, p, w, v)'
<1>1. revision'[k] = revision[k]
  BY DEF Keeps
<1>2. CASE Part(Tree(k)[p], w) = v
  BY <1>1, <1>2 DEF Matches, Part, Tree
<1>3. CASE \E r \in 2..k : Unreported(r, p, w)
  <2>1. PICK r \in 2..k : Unreported(r, p, w)
    BY <1>3
  <2>2. r \in 0..youngest /\ r - 1 \in 0..youngest
    BY <2>1 DEF Keeps
  <2>3. revision'[r] = revision[r] /\ revision'[r - 1] = revision[r - 1]
    BY <2>2 DEF Keeps
  <2>4. Unreported(r, p, w)'
    BY <2>1, <2>3 DEF Unreported, TextUnreported, PropsUnreported, Tree
  <2> QED
    BY <2>1, <2>4 DEF Matches
<1> QED
  BY <1>2, <1>3 DEF Matches

LEMMA KeepsSettled ==
  ASSUME Keeps, NEW b \in 0..youngest, NEW ch, NEW p, NEW w, NEW v, Settled(b, ch, p, w, v)
  PROVE  Settled(b, ch, p, w, v)'
<1>1. CASE \E k \in b..youngest : p \in DOMAIN Tree(k) /\ Matches(k, p, w, v)
  <2>1. PICK k \in b..youngest : p \in DOMAIN Tree(k) /\ Matches(k, p, w, v)
    BY <1>1
  <2>2. k \in 0..youngest /\ k \in b..youngest'
    BY <2>1 DEF Keeps
  <2>3. revision'[k] = revision[k]
    BY <2>2 DEF Keeps
  <2>4. Matches(k, p, w, v)'
    BY <2>1, <2>2, KeepsMatches
  <2> QED
    BY <2>1, <2>2, <2>3, <2>4 DEF Settled, Tree
<1>2. CASE \E s \in DOMAIN ch : Covers(s, p) /\ ch[s].kind = "add" /\ s # <<>> /\ Gap(b, s)
  BY <1>2, KeepsGap DEF Settled, Gap, Tree
<1> QED
  BY <1>1, <1>2 DEF Settled

LEMMA KeepsTraced ==
  ASSUME Keeps, NEW u \in Txns, NEW x, Traced(x), x.base \in 0..youngest, open'[u] = x
  PROVE  Traced(open[u])'
<1> DEFINE b == x.base
           f == x.tree
           ch == x.changes
<1>1. b \in 0..youngest /\ TreeTraced(b, f, ch) /\ AddsTraced(b, ch)
  BY DEF Traced
<1>2. TreeTraced(b, f, ch)'
  <2>1. ASSUME NEW p \in DOMAIN f
        PROVE  Reported(f[p], p, ch) /\ (Renewed(ch, p) \/ Based(b, f[p], p)')
    <3>1. Reported(f[p], p, ch) /\ (Renewed(ch, p) \/ Based(b, f[p], p))
      BY <1>1 DEF TreeTraced
    <3> DEFINE n == f[p]
    <3> HIDE DEF n
    <3>2. Based(b, n, p) => Based(b, n, p)'
      BY <1>1, KeepsBased DEF Based, Tree
    <3> QED
      BY <3>1, <3>2 DEF n
  <2>2. ASSUME NEW c \in Paths \ {<<>>}, Parent(c) \in DOMAIN f, c \notin DOMAIN f
        PROVE  Absent(b, c, ch)'
    BY <1>1, <2>2, KeepsGap DEF TreeTraced, Absent, Gap, Tree
  <2> QED
    BY <2>1, <2>2 DEF TreeTraced
<1>3. AddsTraced(b, ch)'
  BY <1>1, KeepsGap DEF AddsTraced, Gap, Tree
<1>4. ASSUME NEW w \in Fields
      PROVE  OverTraced(b, ch, Over(x, w), w)'
  <2>1. OverTraced(b, ch, Over(x, w), w)
    BY DEF Traced
  <2> DEFINE over == Over(x, w)
  <2>2. ASSUME NEW p \in DOMAIN ch, ch[p].kind = "modify", Part(ch[p], w), p \in DOMAIN over
        PROVE  Settled(b, ch, p, w, over[p])'
    <3>1. Settled(b, ch, p, w, over[p])
      BY <2>1, <2>2 DEF OverTraced
    <3> DEFINE v == over[p]
    <3> HIDE DEF v
    <3> QED
      BY <1>1, <3>1, KeepsSettled DEF v
  <2> QED
    BY <2>2 DEF OverTraced
<1> QED
  BY <1>2, <1>3, <1>4 DEF Traced

-----------------------------------------------------------------------------
(***************************************************************************)
(* Every tree operation keeps the invariant.                               *)
(***************************************************************************)
LEMMA SameHistory ==
  ASSUME History, UNCHANGED <<youngest, revision>>
  PROVE  History'
BY DEF History, NoLostUpdate, TextUnreported, PropsUnreported, Tree

\* A step that gives one transaction another state, or ends it.
LEMMA OpenHistory ==
  ASSUME HistoryInv, WorkInv', NEW t \in Txns, NEW x, open' = [open EXCEPT ![t] = x],
         x = None \/ (Traced(x) /\ x.base \in 0..youngest), UNCHANGED <<youngest, revision>>
  PROVE  HistoryInv'
<1>1. /\ WorkInv /\ History /\ Typed /\ youngest \in Nat
      /\ open \in [Txns -> Transaction \cup {None}]
  BY DEF HistoryInv, WorkInv, Typed
<1>2. History'
  BY <1>1, SameHistory
<1>3. Keeps
  BY <1>1 DEF Keeps
<1>4. ASSUME NEW u \in Txns, open'[u] # None
      PROVE  Traced(open[u])'
  <2> DEFINE y == open'[u]
  <2>1. CASE u = t
    <3>1. open'[u] = x
      BY <1>1, <2>1
    <3> QED
      BY <1>3, <1>4, <3>1, KeepsTraced
  <2>2. CASE u # t
    <3>1. open'[u] = open[u] /\ open[u] # None
      BY <1>1, <1>4, <2>2
    <3>2. Traced(open[u])
      BY <3>1 DEF HistoryInv
    <3>3. open[u].base \in 0..youngest
      BY <1>1, <3>1, TransactionIs
    <3> DEFINE z == open[u]
    <3>4. Traced(z) /\ z.base \in 0..youngest /\ open'[u] = z
      BY <3>1, <3>2, <3>3
    <3> HIDE DEF z
    <3> QED
      BY <1>3, <3>4, KeepsTraced
  <2> QED
    BY <2>1, <2>2
<1> QED
  BY <1>2, <1>4 DEF HistoryInv

\* An operation that records c for p, leads to the tree f and says of the
\* texts and properties replaced ot and op.
LEMMA OperateHistory ==
  ASSUME HistoryInv, WorkInv', NEW t \in Txns, open[t] # None,
         NEW p \in Paths, NEW c \in PathChange, NEW f, NEW w, NEW ot, NEW op,
         UNCHANGED <<youngest, revision>>,
         open' = [open EXCEPT ![t] =
            [open[t] EXCEPT !.tree = f, !.changes = RecordChange(open[t].changes, p, c),
                            !.wrote = w, !.overText = ot, !.overProps = op]],
         c.kind = "add" => Vacant(open[t].tree, p),
         TreeTraced(open[t].base, f, RecordChange(open[t].changes, p, c)),
         OverTraced(open[t].base, RecordChange(open[t].changes, p, c), ot, "text"),
         OverTraced(open[t].base, RecordChange(open[t].changes, p, c), op, "props")
  PROVE  HistoryInv'
<1> DEFINE x == open[t]
           g == RecordChange(x.changes, p, c)
           y == [x EXCEPT !.tree = f, !.changes = g, !.wrote = w, !.overText = ot, !.overProps = op]
<1>1. /\ Typed /\ Traced(x)
      /\ x \in Transaction /\ x.base \in 0..youngest /\ x.changes \in Partial(PathChange)
  BY TransactionIs DEF HistoryInv, WorkInv
<1>2. AddsTraced(x.base, g)
  <2>1. TreeTraced(x.base, x.tree, x.changes) /\ AddsTraced(x.base, x.changes)
    BY <1>1 DEF Traced
  <2>2. c.kind = "add" => p # <<>> /\ Parent(p) \in DOMAIN x.tree /\ p \notin DOMAIN x.tree
    BY DEF Vacant
  <2> HIDE DEF x
  <2> QED
    BY <1>1, <2>1, <2>2, RecordAdds
<1>3. /\ TreeTraced(x.base, f, g)
      /\ OverTraced(x.base, g, ot, "text") /\ OverTraced(x.base, g, op, "props")
  OBVIOUS
<1>4. open' = [open EXCEPT ![t] = y]
  OBVIOUS
<1> HIDE DEF x, g
<1>5. /\ y.base = x.base /\ y.tree = f /\ y.changes = g
      /\ y.overText = ot /\ y.overProps = op
  BY <1>1 DEF Transaction
<1> HIDE DEF y
<1>6. Over(y, "text") = ot /\ Over(y, "props") = op
  BY <1>5 DEF Over
<1>7. \A u \in Fields : u = "text" \/ u = "props"
  BY DEF Fields
<1>8. Traced(y) /\ y.base \in 0..youngest
  BY <1>1, <1>2, <1>3, <1>5, <1>6, <1>7 DEF Traced
<1> QED
  BY <1>4, <1>8, OpenHistory

\* A recorded change that modifies nothing leaves what is replaced as it was.
LEMMA OverStays ==
  ASSUME NEW x, Traced(x), x.changes \in Partial(PathChange), NEW w \in Fields,
         NEW p \in Paths, NEW c \in PathChange, c.kind # "modify" \/ ~Part(c, w)
  PROVE  OverTraced(x.base, RecordChange(x.changes, p, c), Over(x, w), w)
<1>1. OverTraced(x.base, x.changes, Over(x, w), w)
  BY DEF Traced
<1> DEFINE over == Over(x, w)
           b == x.base
           ch == x.changes
<1>2. OverTraced(b, ch, over, w) /\ ch \in Partial(PathChange)
  BY <1>1
<1> HIDE DEF over, b, ch
<1>3. OverTraced(b, RecordChange(ch, p, c), over, w)
  BY <1>2, RecordOver
<1> QED
  BY <1>3 DEF over, b, ch

LEMMA OpenIs ==
  ASSUME HistoryInv, NEW t \in Txns, open[t] # None
  PROVE  /\ WorkInv /\ Typed /\ youngest \in Nat
         /\ open[t] \in Transaction /\ Traced(open[t])
         /\ open[t].base \in 0..youngest
         /\ open[t].tree \in Partial(TxnNode)
         /\ IsTxnTree(open[t].tree)
         /\ open[t].changes \in Partial(PathChange)
         /\ open[t].overText \in Partial(Texts)
         /\ open[t].overProps \in Partial(SUBSET Marks)
         /\ DOMAIN open[t].tree \subseteq Paths
         /\ DOMAIN open[t].changes \subseteq Paths
         /\ \A p \in DOMAIN open[t].tree : open[t].tree[p] \in TxnNode
         /\ TreeTraced(open[t].base, open[t].tree, open[t].changes)
         /\ AddsTraced(open[t].base, open[t].changes)
         /\ Over(open[t], "text") = open[t].overText
         /\ Over(open[t], "props") = open[t].overProps
<1>1. WorkInv /\ Typed /\ youngest \in Nat /\ Traced(open[t])
  BY DEF HistoryInv, WorkInv, Typed
<1>2. /\ open[t] \in Transaction /\ open[t].base \in 0..youngest /\ IsTxnTree(open[t].tree)
      /\ DOMAIN open[t].tree \subseteq Paths
      /\ \A p \in DOMAIN open[t].tree : open[t].tree[p] \in TxnNode
  BY <1>1, TransactionIs
<1>3. /\ open[t].tree \in Partial(TxnNode) /\ open[t].changes \in Partial(PathChange)
      /\ open[t].overText \in Partial(Texts) /\ open[t].overProps \in Partial(SUBSET Marks)
  BY <1>2, TransactionFields
<1>4. DOMAIN open[t].changes \subseteq Paths
  BY <1>3, PartialIs
<1>5. /\ TreeTraced(open[t].base, open[t].tree, open[t].changes)
      /\ AddsTraced(open[t].base, open[t].changes)
  BY <1>1 DEF Traced
<1> QED
  BY <1>1, <1>2, <1>3, <1>4, <1>5 DEF Over

LEMMA MakeNodeHistory ==
  ASSUME HistoryInv, WorkInv', NEW t \in Txns, NEW p \in Paths, NEW kind \in Kinds,
         MakeNode(t, p, kind)
  PROVE  HistoryInv'
<1> DEFINE x == open[t]
           n == [Clean(Node(kind, p, t), None, p) EXCEPT
                    !.dirty = TRUE, !.newNode = TRUE, !.textModified = (kind = "file")]
           h == Put(x.tree, p, n)
           f == MarkDirty(h, p)
           c == Change("add", TRUE, FALSE, None)
           g == RecordChange(x.changes, p, c)
           w == Put(x.wrote, p, n.node.text)
<1>1. /\ open[t] # None /\ Vacant(x.tree, p)
      /\ Operate(t, [x EXCEPT !.tree = f, !.changes = g, !.wrote = w])
  BY DEF MakeNode
<1>2. /\ x \in Transaction /\ Traced(x)
      /\ x.tree \in Partial(TxnNode) /\ x.changes \in Partial(PathChange)
      /\ TreeTraced(x.base, x.tree, x.changes)
      /\ Over(x, "text") = x.overText /\ Over(x, "props") = x.overProps
  BY <1>1, OpenIs
<1>3. c \in PathChange /\ c.kind = "add"
  BY DEF Change, PathChange, ChangeKinds
<1>4. n \in TxnNode
  <2> DEFINE node == Node(kind, p, t)
             isFile == kind = "file"
             m == [Clean(node, None, p) EXCEPT
                     !.dirty = TRUE, !.newNode = TRUE, !.textModified = isFile]
  <2>1. node \in NodeRevision
    BY DEF Node, NodeRevision, Kinds, Marks
  <2>2. p \in Seq(Names) /\ isFile \in BOOLEAN
    BY PathTypes
  <2> HIDE DEF node, isFile
  <2>3. m \in TxnNode
    BY <2>1, <2>2 DEF Clean, TxnNode
  <2> QED
    BY <2>3 DEF node, isFile
<1> HIDE DEF n, c
<1>5. /\ g \in Partial(PathChange) /\ p \in DOMAIN g /\ g[p].kind \in {"add", "replace"}
  BY <1>2, <1>3, RecordKinds
<1>6. TreeTraced(x.base, x.tree, g)
  BY <1>2, <1>3, RecordTree
<1>7. /\ OverTraced(x.base, g, x.overText, "text")
      /\ OverTraced(x.base, g, x.overProps, "props")
  <2> HIDE DEF x
  <2> QED
    BY <1>2, <1>3, OverStays DEF Fields
<1>8. Covers(p, p)
  BY PathTypes
<1> HIDE DEF g
<1>9. TreeTraced(x.base, h, g)
  <2>1. Reported(n, p, g) /\ Renewed(g, p)
    BY <1>5, <1>8 DEF Reported, Renewed
  <2> HIDE DEF x
  <2> QED
    BY <1>2, <1>4, <1>6, <2>1, PutTraced
<1>10. h \in Partial(TxnNode)
  BY <1>2, <1>4, PutIs
<1>11. TreeTraced(x.base, f, g)
  <2> HIDE DEF x, h
  <2> QED
    BY <1>5, <1>9, <1>10, MarkTraced
<1>12. open' = [open EXCEPT ![t] =
                  [x EXCEPT !.tree = f, !.changes = g, !.wrote = w,
                            !.overText = x.overText, !.overProps = x.overProps]]
  <2> DEFINE y == [x EXCEPT !.tree = f, !.changes = g, !.wrote = w]
             z == [x EXCEPT !.tree = f, !.changes = g, !.wrote = w,
                            !.overText = x.overText, !.overProps = x.overProps]
  <2>1. open' = [open EXCEPT ![t] = y]
    BY <1>1 DEF Operate
  <2> HIDE DEF x, f, w
  <2>2. y = z
    BY <1>2 DEF Transaction
  <2> HIDE DEF y, z
  <2>3. open' = [open EXCEPT ![t] = z]
    BY <2>1, <2>2
  <2> QED
    BY <2>3 DEF z, x
<1>13. UNCHANGED <<youngest, revision>>
  BY <1>1 DEF Operate
<1> HIDE DEF f, w
<1> QED
  BY <1>1, <1>3, <1>7, <1>11, <1>12, <1>13, OperateHistory DEF g

LEMMA DeleteHistory ==
  ASSUME HistoryInv, WorkInv', NEW t \in Txns, NEW p \in Paths, Delete(t, p)
  PROVE  HistoryInv'
<1> DEFINE x == open[t]
           gone == {q \in DOMAIN x.tree : Covers(p, q)}
           h == Without(x.tree, gone)
           f == MarkDirty(h, p)
           c == Change("delete", FALSE, FALSE, None)
           g == RecordChange(x.changes, p, c)
           w == Without(x.wrote, gone)
<1>1. /\ open[t] # None
      /\ Operate(t, [x EXCEPT !.tree = f, !.changes = g, !.wrote = w])
  BY DEF Delete
<1>2. /\ x \in Transaction /\ Traced(x)
      /\ x.tree \in Partial(TxnNode) /\ x.changes \in Partial(PathChange)
      /\ TreeTraced(x.base, x.tree, x.changes)
      /\ Over(x, "text") = x.overText /\ Over(x, "props") = x.overProps
  BY <1>1, OpenIs
<1>3. c \in PathChange /\ c.kind = "delete"
  BY DEF Change, PathChange, ChangeKinds
<1> HIDE DEF c
<1>4. g \in Partial(PathChange) /\ p \in DOMAIN g /\ g[p].kind # "modify"
  BY <1>2, <1>3, RecordKinds
<1>5. TreeTraced(x.base, x.tree, g)
  BY <1>2, <1>3, RecordTree
<1>6. /\ OverTraced(x.base, g, x.overText, "text")
      /\ OverTraced(x.base, g, x.overProps, "props")
  <2> HIDE DEF x
  <2> QED
    BY <1>2, <1>3, OverStays DEF Fields
<1> HIDE DEF g
<1>7. TreeTraced(x.base, h, g)
  BY <1>2, <1>4, <1>5, WithoutTraced
<1>8. h \in Partial(TxnNode)
  BY <1>2, WithoutIs
<1>9. TreeTraced(x.base, f, g)
  <2> HIDE DEF x, h
  <2> QED
    BY <1>4, <1>7, <1>8, MarkTraced
<1>10. open' = [open EXCEPT ![t] =
                  [x EXCEPT !.tree = f, !.changes = g, !.wrote = w,
                            !.overText = x.overText, !.overProps = x.overProps]]
  <2> DEFINE y == [x EXCEPT !.tree = f, !.changes = g, !.wrote = w]
             z == [x EXCEPT !.tree = f, !.changes = g, !.wrote = w,
                            !.overText = x.overText, !.overProps = x.overProps]
  <2>1. open' = [open EXCEPT ![t] = y]
    BY <1>1 DEF Operate
  <2> HIDE DEF x, f, w
  <2>2. y = z
    BY <1>2 DEF Transaction
  <2> HIDE DEF y, z
  <2>3. open' = [open EXCEPT ![t] = z]
    BY <2>1, <2>2
  <2> QED
    BY <2>3 DEF z, x
<1>11. UNCHANGED <<youngest, revision>>
  BY <1>1 DEF Operate
<1> HIDE DEF f, w
<1> QED
  BY <1>1, <1>3, <1>6, <1>9, <1>10, <1>11, OperateHistory DEF g

LEMMA CopyHistory ==
  ASSUME HistoryInv, WorkInv', NEW t \in Txns, NEW r \in 0..youngest,
         NEW src \in Paths, NEW dst \in Paths, Copy(t, r, src, dst)
  PROVE  HistoryInv'
<1> DEFINE x == open[t]
           from == Tree(r)[src].cpath
           copy == CopyOf(r, src, dst)
           h == Grafted(x.tree, copy)
           f == MarkDirty(h, dst)
           c == Change("add", FALSE, FALSE, <<r, from>>)
           g == RecordChange(x.changes, dst, c)
           w == x.wrote
<1>1. /\ open[t] # None /\ src \in DOMAIN Tree(r) /\ Vacant(x.tree, dst)
      /\ DOMAIN copy \subseteq Paths
      /\ Operate(t, [x EXCEPT !.tree = f, !.changes = g])
  BY DEF Copy, CopyOf, Grafted
<1>2. /\ x \in Transaction /\ Traced(x) /\ Typed /\ youngest \in Nat
      /\ x.tree \in Partial(TxnNode) /\ x.changes \in Partial(PathChange)
      /\ TreeTraced(x.base, x.tree, x.changes)
      /\ Over(x, "text") = x.overText /\ Over(x, "props") = x.overProps
  BY <1>1, OpenIs
<1>3. c \in PathChange /\ c.kind = "add"
  <2>1. Tree(r)[src] \in NodeRevision
    BY <1>1, <1>2, RevisionTree
  <2>2. from \in Paths
    BY <2>1 DEF NodeRevision
  <2>3. r \in Nat
    BY <1>2
  <2> HIDE DEF from
  <2> QED
    BY <2>2, <2>3 DEF Change, PathChange, ChangeKinds
<1>4. /\ copy \in Partial(TxnNode)
      /\ \A p \in DOMAIN copy :
            /\ Covers(dst, p)
            /\ ~copy[p].dirty /\ ~copy[p].newNode
            /\ ~copy[p].textModified /\ ~copy[p].propsModified
  BY <1>1, <1>2, CopyIs
<1> HIDE DEF c, copy
<1>5. /\ g \in Partial(PathChange) /\ dst \in DOMAIN g /\ g[dst].kind \in {"add", "replace"}
  BY <1>2, <1>3, RecordKinds
<1>6. TreeTraced(x.base, x.tree, g)
  BY <1>2, <1>3, RecordTree
<1>7. /\ OverTraced(x.base, g, x.overText, "text")
      /\ OverTraced(x.base, g, x.overProps, "props")
  <2> HIDE DEF x
  <2> QED
    BY <1>2, <1>3, OverStays DEF Fields
<1> HIDE DEF g
<1>8. TreeTraced(x.base, h, g)
  <2> HIDE DEF x
  <2> QED
    BY <1>2, <1>4, <1>5, <1>6, GraftTraced
<1>9. h \in Partial(TxnNode)
  <2>1. /\ DOMAIN x.tree \subseteq Paths /\ DOMAIN copy \subseteq Paths
        /\ \A p \in DOMAIN x.tree : x.tree[p] \in TxnNode
        /\ \A p \in DOMAIN copy : copy[p] \in TxnNode
    BY <1>2, <1>4, PartialIs
  <2>2. /\ DOMAIN h = DOMAIN x.tree \cup DOMAIN copy
        /\ h = [p \in DOMAIN h |-> h[p]]
        /\ \A p \in DOMAIN h : h[p] = IF p \in DOMAIN copy THEN copy[p] ELSE x.tree[p]
    BY DEF Grafted
  <2> HIDE DEF x, h
  <2>3. DOMAIN h \subseteq Paths /\ \A p \in DOMAIN h : h[p] \in TxnNode
    BY <2>1, <2>2
  <2> QED
    BY <2>2, <2>3, PartialIs
<1>10. TreeTraced(x.base, f, g)
  <2> HIDE DEF x, h
  <2> QED
    BY <1>5, <1>8, <1>9, MarkTraced
<1>11. open' = [open EXCEPT ![t] =
                  [x EXCEPT !.tree = f, !.changes = g, !.wrote = w,
                            !.overText = x.overText, !.overProps = x.overProps]]
  <2> DEFINE y == [x EXCEPT !.tree = f, !.changes = g]
             z == [x EXCEPT !.tree = f, !.changes = g, !.wrote = x.wrote,
                            !.overText = x.overText, !.overProps = x.overProps]
  <2>1. open' = [open EXCEPT ![t] = y]
    BY <1>1 DEF Operate
  <2> HIDE DEF x, f
  <2>2. y = z
    BY <1>2 DEF Transaction
  <2> HIDE DEF y, z
  <2>3. open' = [open EXCEPT ![t] = z]
    BY <2>1, <2>2
  <2> QED
    BY <2>3 DEF z, x
<1>12. UNCHANGED <<youngest, revision>>
  BY <1>1 DEF Operate
<1> HIDE DEF f, w
<1> QED
  BY <1>1, <1>3, <1>7, <1>10, <1>11, <1>12, OperateHistory DEF g

\* A node that differs from the tree's at p in what it modifies only.
LEMMA ModifyTraced ==
  ASSUME NEW b, NEW f \in Partial(TxnNode), NEW ch, TreeTraced(b, f, ch),
         NEW p \in DOMAIN f, p \in Paths, p \in DOMAIN ch, NEW n \in TxnNode,
         n.at = f[p].at, n.newNode = f[p].newNode, n.node.kind = f[p].node.kind,
         \/ /\ n.textModified /\ n.propsModified = f[p].propsModified
            /\ n.node.props = f[p].node.props
         \/ /\ n.propsModified /\ n.textModified = f[p].textModified
            /\ n.node.text = f[p].node.text
  PROVE  TreeTraced(b, MarkDirty(Put(f, p, n), p), ch)
<1>1. Reported(f[p], p, ch) /\ (Renewed(ch, p) \/ Based(b, f[p], p))
  BY DEF TreeTraced
<1>2. Covers(p, p)
  BY PathTypes
<1>3. Reported(n, p, ch)
  BY <1>1, <1>2 DEF Reported
<1>4. Based(b, f[p], p) => Based(b, n, p)
  BY DEF Based
<1>5. TreeTraced(b, Put(f, p, n), ch) /\ Put(f, p, n) \in Partial(TxnNode)
  BY <1>1, <1>3, <1>4, PutTraced, PutIs
<1> QED
  BY <1>5, MarkTraced

LEMMA ApplyTextHistory ==
  ASSUME HistoryInv, WorkInv', NEW t \in Txns, NEW p \in Paths, ApplyText(t, p)
  PROVE  HistoryInv'
<1> DEFINE x == open[t]
           o == x.tree[p]
           n == [o EXCEPT !.node.text = t, !.textModified = TRUE]
           f == MarkDirty(Put(x.tree, p, n), p)
           c == Change("modify", TRUE, FALSE, None)
           g == RecordChange(x.changes, p, c)
           w == Put(x.wrote, p, t)
           v == BaseOf(x, p).text
           ot == Noted(x.overText, x, p, v)
           z == [x EXCEPT !.tree = f, !.changes = g, !.wrote = w,
                          !.overText = ot, !.overProps = x.overProps]
<1>1. open[t] # None /\ p \in DOMAIN x.tree /\ UNCHANGED <<youngest, revision>>
  BY DEF ApplyText, Operate
<1>2. /\ x \in Transaction /\ Traced(x) /\ WorkInv
      /\ x.tree \in Partial(TxnNode) /\ x.changes \in Partial(PathChange)
      /\ x.overText \in Partial(Texts)
      /\ TreeTraced(x.base, x.tree, x.changes)
      /\ o \in TxnNode
      /\ Over(x, "text") = x.overText /\ Over(x, "props") = x.overProps
  BY <1>1, OpenIs
<1>3. [x.tree EXCEPT ![p].node.text = t, ![p].textModified = TRUE] = Put(x.tree, p, n)
  <2> DEFINE h == x.tree
             a == [h EXCEPT ![p].node.text = t, ![p].textModified = TRUE]
             b == Put(h, p, n)
  <2>1. h = [q \in DOMAIN h |-> h[q]] /\ p \in DOMAIN h
    BY SMTT(60), <1>1, <1>2, PartialIs
  <2>2. DOMAIN a = DOMAIN h /\ a = [q \in DOMAIN h |-> a[q]]
    OBVIOUS
  <2>3. DOMAIN b = DOMAIN h /\ b = [q \in DOMAIN h |-> b[q]]
    BY <2>1 DEF Put
  <2>4. \A q \in DOMAIN h : a[q] = b[q]
    BY <2>1, <1>2 DEF Put, TxnNode, NodeRevision
  <2> HIDE DEF a, b, h
  <2>5. a = b
    BY <2>2, <2>3, <2>4
  <2> QED
    BY <2>5 DEF a, b, h
<1>4. open' = [open EXCEPT ![t] = z]
  <2> DEFINE y == [x EXCEPT !.tree = f, !.changes = g, !.wrote = w, !.overText = ot]
  <2>1. open' = [open EXCEPT ![t] = y]
    BY <1>3 DEF ApplyText, Operate
  <2> HIDE DEF x, f, g, w, ot
  <2>2. y = z
    BY <1>2 DEF Transaction
  <2> HIDE DEF y, z
  <2>3. open' = [open EXCEPT ![t] = z]
    BY <2>1, <2>2
  <2> QED
    BY <2>3 DEF z, x
<1>5. c \in PathChange /\ c.kind = "modify" /\ Part(c, "text") /\ ~Part(c, "props")
  BY DEF Change, PathChange, ChangeKinds, Part
<1>6. /\ n \in TxnNode /\ n.at = o.at /\ n.newNode = o.newNode /\ n.node.kind = o.node.kind
      /\ n.textModified /\ n.propsModified = o.propsModified /\ n.node.props = o.node.props
  <2>1. o \in TxnNode /\ t \in Marks
    BY <1>2 DEF Marks
  <2> HIDE DEF o
  <2> QED
    BY <2>1 DEF TxnNode, NodeRevision
<1> HIDE DEF c, n
<1>7. g \in Partial(PathChange) /\ p \in DOMAIN g
  BY <1>2, <1>5, RecordKinds
<1>8. TreeTraced(x.base, x.tree, g)
  BY <1>1, <1>2, <1>5, RecordTree
<1>9. OverTraced(x.base, g, x.overProps, "props")
  <2> HIDE DEF x
  <2> QED
    BY <1>2, <1>5, OverStays DEF Fields
<1>10. OverTraced(x.base, g, ot, "text")
  <2>1. BaseOf(x, p) \in NodeRevision
    BY <1>1, <1>2, BaseOfIs
  <2>2. v \in Texts /\ v = Part(BaseOf(x, p), "text")
    BY <2>1 DEF NodeRevision, Texts, Part
  <2>3. ot = Noted(x.overText, x, p, Part(BaseOf(x, p), "text"))
    BY <2>2
  <2>4. /\ \A q : q # p => /\ q \in DOMAIN ot <=> q \in DOMAIN x.overText
                           /\ q \in DOMAIN x.overText => ot[q] = x.overText[q]
        /\ p \in DOMAIN ot => Settled(x.base, x.changes, p, "text", ot[p])
    BY SMTT(60), <1>1, <1>2, <2>2, <2>3, NotedSettled
  <2>5. OverTraced(x.base, x.changes, x.overText, "text")
    <3>1. OverTraced(x.base, x.changes, Over(x, "text"), "text")
      BY <1>2 DEF Traced, Fields
    <3> HIDE DEF x
    <3> QED
      BY <1>2, <3>1
  <2> DEFINE over == x.overText
             ch == x.changes
             b == x.base
  <2>6. ch \in Partial(PathChange)
    BY <1>2
  <2> HIDE DEF ot, over, ch, b, x
  <2>7. OverTraced(b, RecordChange(ch, p, c), ot, "text")
    BY <1>5, <2>4, <2>5, <2>6, RecordOver DEF over, ch, b
  <2> QED
    BY <2>7 DEF ch, b
<1> HIDE DEF g
<1>11. TreeTraced(x.base, f, g)
  <2>1. p \in DOMAIN x.tree /\ n.at = x.tree[p].at /\ n.newNode = x.tree[p].newNode
    BY <1>1, <1>6
  <2>2. /\ n.node.kind = x.tree[p].node.kind /\ n.propsModified = x.tree[p].propsModified
        /\ n.node.props = x.tree[p].node.props
    BY <1>6
  <2> HIDE DEF x
  <2> QED
    BY <1>2, <1>6, <1>7, <1>8, <2>1, <2>2, ModifyTraced
<1>12. c.kind # "add"
  BY <1>5
<1> HIDE DEF f, w, ot
<1> QED
  BY <1>1, <1>4, <1>5, <1>9, <1>10, <1>11, <1>12, OperateHistory DEF g

LEMMA ChangeNodePropHistory ==
  ASSUME HistoryInv, WorkInv', NEW t \in Txns, NEW p \in Paths, ChangeNodeProp(t, p)
  PROVE  HistoryInv'
<1> DEFINE x == open[t]
           o == x.tree[p]
           c == Change("modify", FALSE, TRUE, None)
           g == RecordChange(x.changes, p, c)
           v == BaseOf(x, p).props
           op == Noted(x.overProps, x, p, v)
<1>1. /\ open[t] # None /\ p \in DOMAIN x.tree /\ (~o.propsModified => Readable(o))
      /\ UNCHANGED <<youngest, revision>>
  BY DEF ChangeNodeProp, Operate
<1>2. /\ x \in Transaction /\ Traced(x) /\ WorkInv /\ Typed
      /\ x.tree \in Partial(TxnNode) /\ x.changes \in Partial(PathChange)
      /\ x.overProps \in Partial(SUBSET Marks) /\ IsTxnTree(x.tree)
      /\ TreeTraced(x.base, x.tree, x.changes)
      /\ o \in TxnNode
      /\ Over(x, "text") = x.overText /\ Over(x, "props") = x.overProps
  BY <1>1, OpenIs
<1>3. LoadedProps(o) \in SUBSET Marks
  <2>1. CASE o.newNode \/ o.propsModified
    BY SMTT(60), <2>1, <1>2 DEF LoadedProps, TxnNode, NodeRevision
  <2>2. CASE ~(o.newNode \/ o.propsModified)
    <3> DEFINE r == o.at[1]
               q == o.at[2]
    <3>1. r \in 0..youngest /\ q \in DOMAIN Tree(r)
      BY <2>2, <1>1, <1>2 DEF IsTxnTree, Readable
    <3>2. Tree(r)[q] \in NodeRevision
      BY SMTT(60), <3>1, <1>2, RevisionTree
    <3>3. Tree(r)[q].props \in SUBSET Marks
      BY <3>2 DEF NodeRevision
    <3> QED
      BY <2>2, <3>3 DEF LoadedProps
  <2> QED
    BY <2>1, <2>2
<1>4. PICK props \in {LoadedProps(o) \cup {t}, LoadedProps(o) \ {Original}} :
         Operate(t, [x EXCEPT
            !.tree = MarkDirty([x.tree EXCEPT ![p].node.props = props,
                                              ![p].propsModified = TRUE], p),
            !.changes = g, !.overProps = op])
  BY DEF ChangeNodeProp
<1>5. props \in SUBSET Marks
  BY <1>3, <1>4 DEF Marks
<1> DEFINE n == [o EXCEPT !.node.props = props, !.propsModified = TRUE]
           f == MarkDirty(Put(x.tree, p, n), p)
           w == x.wrote
           z == [x EXCEPT !.tree = f, !.changes = g, !.wrote = w,
                          !.overText = x.overText, !.overProps = op]
<1>6. [x.tree EXCEPT ![p].node.props = props, ![p].propsModified = TRUE] = Put(x.tree, p, n)
  <2> DEFINE h == x.tree
             a == [h EXCEPT ![p].node.props = props, ![p].propsModified = TRUE]
             b == Put(h, p, n)
  <2>1. h = [q \in DOMAIN h |-> h[q]] /\ p \in DOMAIN h
    BY SMTT(60), <1>1, <1>2, PartialIs
  <2>2. DOMAIN a = DOMAIN h /\ a = [q \in DOMAIN h |-> a[q]]
    OBVIOUS
  <2>3. DOMAIN b = DOMAIN h /\ b = [q \in DOMAIN h |-> b[q]]
    BY <2>1 DEF Put
  <2>4. \A q \in DOMAIN h : a[q] = b[q]
    BY <2>1, <1>2 DEF Put, TxnNode, NodeRevision
  <2> HIDE DEF a, b, h
  <2>5. a = b
    BY <2>2, <2>3, <2>4
  <2> QED
    BY <2>5 DEF a, b, h
<1>7. open' = [open EXCEPT ![t] = z]
  <2> DEFINE y == [x EXCEPT !.tree = f, !.changes = g, !.overProps = op]
  <2>1. open' = [open EXCEPT ![t] = y]
    BY <1>4, <1>6 DEF Operate
  <2> HIDE DEF x, f, g, op
  <2>2. y = z
    BY <1>2 DEF Transaction
  <2> HIDE DEF y, z
  <2>3. open' = [open EXCEPT ![t] = z]
    BY <2>1, <2>2
  <2> QED
    BY <2>3 DEF z, x
<1>8. c \in PathChange /\ c.kind = "modify" /\ Part(c, "props") /\ ~Part(c, "text")
  BY DEF Change, PathChange, ChangeKinds, Part
<1>9. /\ n \in TxnNode /\ n.at = o.at /\ n.newNode = o.newNode /\ n.node.kind = o.node.kind
      /\ n.propsModified /\ n.textModified = o.textModified /\ n.node.text = o.node.text
  <2> HIDE DEF o
  <2> QED
    BY <1>2, <1>5 DEF TxnNode, NodeRevision
<1> HIDE DEF c, n
<1>10. g \in Partial(PathChange) /\ p \in DOMAIN g
  BY <1>2, <1>8, RecordKinds
<1>11. TreeTraced(x.base, x.tree, g)
  BY <1>1, <1>2, <1>8, RecordTree
<1>12. OverTraced(x.base, g, x.overText, "text")
  <2> HIDE DEF x
  <2> QED
    BY <1>2, <1>8, OverStays DEF Fields
<1>13. OverTraced(x.base, g, op, "props")
  <2>1. BaseOf(x, p) \in NodeRevision
    BY <1>1, <1>2, BaseOfIs
  <2>2. v \in SUBSET Marks /\ v = Part(BaseOf(x, p), "props")
    BY <2>1 DEF NodeRevision, Part
  <2>3. op = Noted(x.overProps, x, p, Part(BaseOf(x, p), "props"))
    BY <2>2
  <2>4. /\ \A q : q # p => /\ q \in DOMAIN op <=> q \in DOMAIN x.overProps
                           /\ q \in DOMAIN x.overProps => op[q] = x.overProps[q]
        /\ p \in DOMAIN op => Settled(x.base, x.changes, p, "props", op[p])
    <3> DEFINE S == SUBSET Marks
    <3>1. x.overProps \in Partial(S) /\ Part(BaseOf(x, p), "props") \in S
      BY <1>2, <2>2
    <3> HIDE DEF S, op, v
    <3>2. /\ open[t] # None /\ Traced(x) /\ WorkInv /\ p \in DOMAIN x.tree
      BY <1>1, <1>2
    <3> QED
      BY <2>3, <3>1, <3>2, NotedSettled
  <2>5. OverTraced(x.base, x.changes, x.overProps, "props")
    <3>1. OverTraced(x.base, x.changes, Over(x, "props"), "props")
      BY <1>2 DEF Traced, Fields
    <3> HIDE DEF x
    <3> QED
      BY <1>2, <3>1
  <2> DEFINE over == x.overProps
             ch == x.changes
             b == x.base
  <2>6. ch \in Partial(PathChange)
    BY <1>2
  <2> HIDE DEF op, over, ch, b, x
  <2>7. OverTraced(b, RecordChange(ch, p, c), op, "props")
    BY <1>8, <2>4, <2>5, <2>6, RecordOver DEF over, ch, b
  <2> QED
    BY <2>7 DEF ch, b
<1> HIDE DEF g
<1>14. TreeTraced(x.base, f, g)
  <2>1. p \in DOMAIN x.tree /\ n.at = x.tree[p].at /\ n.newNode = x.tree[p].newNode
    BY <1>1, <1>9
  <2>2. /\ n.node.kind = x.tree[p].node.kind /\ n.textModified = x.tree[p].textModified
        /\ n.node.text = x.tree[p].node.text
    BY <1>9
  <2> HIDE DEF x
  <2> QED
    BY <1>2, <1>9, <1>10, <1>11, <2>1, <2>2, ModifyTraced
<1>15. c.kind # "add"
  BY <1>8
<1> HIDE DEF f, w, op
<1> QED
  BY <1>1, <1>7, <1>8, <1>12, <1>13, <1>14, <1>15, OperateHistory DEF g

LEMMA BeginHistory ==
  ASSUME HistoryInv, WorkInv', NEW t \in Txns, NEW r \in 0..youngest, Begin(t, r)
  PROVE  HistoryInv'
<1> DEFINE f == [p \in DOMAIN Tree(r) |-> Clean(Tree(r)[p], r, p)]
           x == [base |-> r, tree |-> f, changes |-> Nothing, wrote |-> Nothing,
                 overText |-> Nothing, overProps |-> Nothing]
<1>1. open' = [open EXCEPT ![t] = x] /\ UNCHANGED <<youngest, revision>>
  BY DEF Begin
<1>2. youngest \in Nat /\ r \in r..youngest
  BY DEF HistoryInv, WorkInv, Typed
<1>3. \A p : p \notin DOMAIN Nothing
  BY NothingIs
<1>4. TreeTraced(r, f, Nothing)
  <2>1. ASSUME NEW p \in DOMAIN f
        PROVE  Reported(f[p], p, Nothing) /\ Based(r, f[p], p)
    <3> DEFINE n == Tree(r)[p]
    <3>1. p \in DOMAIN Tree(r) /\ f[p] = Clean(n, r, p)
      OBVIOUS
    <3> HIDE DEF n, f
    <3>2. /\ f[p].node = n /\ f[p].at = <<r, p>> /\ ~f[p].dirty /\ ~f[p].newNode
          /\ ~f[p].textModified /\ ~f[p].propsModified
      BY <3>1 DEF Clean
    <3> QED
      BY <1>2, <3>1, <3>2 DEF Reported, Based, n
  <2>2. ASSUME NEW c \in Paths \ {<<>>}, Parent(c) \in DOMAIN f, c \notin DOMAIN f
        PROVE  Absent(r, c, Nothing)
    BY <1>2, <2>2 DEF Absent, Gap
  <2> HIDE DEF f
  <2> QED
    BY <2>1, <2>2 DEF TreeTraced
<1>5. AddsTraced(r, Nothing)
  BY <1>3 DEF AddsTraced
<1>6. \A w \in Fields : \A over : OverTraced(r, Nothing, over, w)
  BY <1>3 DEF OverTraced
<1> HIDE DEF f
<1>7. Traced(x) /\ x.base = r
  BY <1>4, <1>5, <1>6 DEF Traced
<1> HIDE DEF x
<1> QED
  BY <1>1, <1>7, OpenHistory

-----------------------------------------------------------------------------
(***************************************************************************)
(* Without a conflict, the revisions since the base have left alone what   *)
(* the transaction's changes depend on.                                    *)
(***************************************************************************)
\* What holds of a revision and of each one after a revision it holds of.
LEMMA Climb ==
  ASSUME NEW y \in Nat, NEW k \in 0..y, NEW A, k \in A,
         \A j \in k..y : j \in A /\ j + 1 <= y => j + 1 \in A
  PROVE  \A j \in k..y : j \in A
<1> SUFFICES ASSUME NEW i \in k..y, i \notin A
             PROVE  FALSE
  OBVIOUS
<1> DEFINE S == {j \in k..y : j \notin A}
<1>1. S \in SUBSET Nat /\ S # {}
  OBVIOUS
<1>2. PICK m \in S : \A n \in S : m <= n
  <2> HIDE DEF S
  <2> QED
    BY <1>1, LeastNatural
<1>3. m \in k..y /\ m \notin A /\ m # k
  BY <1>2
<1>4. m - 1 \in k..y /\ ~(m <= m - 1) /\ (m - 1) + 1 = m /\ m <= y
  BY <1>3
<1>5. m - 1 \in A
  BY <1>2, <1>4
<1> QED
  BY <1>3, <1>4, <1>5

\* How revision r follows from the one before.
LEMMA Follows ==
  ASSUME HistoryInv, NEW j \in Nat, j + 1 <= youngest
  PROVE  /\ StepTraced(Tree(j), Tree(j + 1), revision[j + 1].changes)
         /\ revision[j + 1].changes \in Partial(PathChange)
         /\ DOMAIN revision[j + 1].changes \subseteq Paths
         /\ DOMAIN Tree(j) \subseteq Paths /\ DOMAIN Tree(j + 1) \subseteq Paths
         /\ IsTree(Tree(j)) /\ IsTree(Tree(j + 1))
<1>1. Typed /\ youngest \in Nat /\ History
  BY DEF HistoryInv, WorkInv, Typed
<1>2. j \in 0..youngest /\ j + 1 \in 0..youngest /\ j + 1 \in 1..youngest /\ (j + 1) - 1 = j
  BY <1>1
<1>3. StepTraced(Tree((j + 1) - 1), Tree(j + 1), revision[j + 1].changes)
  BY <1>1, <1>2 DEF History
<1>4. revision[j + 1] \in Revision
  BY <1>1, <1>2, RevisionTree
<1>5. revision[j + 1].changes \in Partial(PathChange)
  BY <1>4 DEF Revision
<1> QED
  BY <1>1, <1>2, <1>3, <1>5, RevisionTree, PartialIs

\* There is a conflict if a later revision changed something in the way.
LEMMA NoConflict ==
  ASSUME HistoryInv, NEW t \in Txns, open[t] # None, ~Conflicts(t),
         NEW j \in open[t].base..youngest, j + 1 <= youngest,
         NEW c \in DOMAIN open[t].changes, NEW q \in DOMAIN revision[j + 1].changes
  PROVE  ~ChangesConflict(c, open[t].changes[c], q, revision[j + 1].changes[q])
<1>1. open[t].base \in 0..youngest /\ youngest \in Nat
  BY OpenIs
<1> DEFINE b == open[t].base
<1>2. j + 1 \in (b + 1)..youngest
  <2>1. b \in Nat /\ j \in b..youngest
    BY <1>1
  <2> HIDE DEF b
  <2> QED
    BY <1>1, <2>1
<1> QED
  BY <1>2 DEF Conflicts

\* A path at or above a change stays.
LEMMA StaysThere ==
  ASSUME HistoryInv, NEW t \in Txns, open[t] # None, ~Conflicts(t),
         NEW c \in DOMAIN open[t].changes, NEW p \in Paths, Covers(p, c),
         NEW k \in open[t].base..youngest, p \in DOMAIN Tree(k)
  PROVE  \A j \in k..youngest : p \in DOMAIN Tree(j)
<1> DEFINE b == open[t].base
           A == {j \in Nat : p \in DOMAIN Tree(j)}
<1>1. b \in 0..youngest /\ youngest \in Nat /\ c \in Paths
  BY OpenIs
<1>2. k \in b..youngest
  OBVIOUS
<1> HIDE DEF b
<1>3. k \in 0..youngest /\ k \in A
  BY <1>1, <1>2
<1>4. ASSUME NEW j \in k..youngest, j \in A, j + 1 <= youngest
      PROVE  j + 1 \in A
  <2>1. j \in Nat /\ j + 1 \in Nat /\ j \in b..youngest
    BY <1>1, <1>2
  <2>2. /\ StepTraced(Tree(j), Tree(j + 1), revision[j + 1].changes)
        /\ DOMAIN revision[j + 1].changes \subseteq Paths
    BY <1>4, <2>1, Follows
  <2>3. SUFFICES ASSUME p \notin DOMAIN Tree(j + 1)
                 PROVE  FALSE
    BY <2>1
  <2>4. Removed(revision[j + 1].changes, p)
    BY <1>4, <2>2, <2>3 DEF StepTraced
  <2>5. PICK q \in DOMAIN revision[j + 1].changes :
           Covers(q, p) /\ revision[j + 1].changes[q].kind \in {"delete", "replace"}
    BY <2>4 DEF Removed
  <2>6. p \in Seq(Names) /\ q \in Seq(Names) /\ c \in Seq(Names)
    BY <1>1, <2>2, PathTypes
  <2>7. q = c \/ IsAncestor(q, c)
    BY <2>5, <2>6, CoversOrder DEF Covers
  <2>8. ~ChangesConflict(c, open[t].changes[c], q, revision[j + 1].changes[q])
    BY <1>4, <2>1, NoConflict DEF b
  <2> QED
    BY <2>5, <2>7, <2>8 DEF ChangesConflict
<1> HIDE DEF A
<1>5. \A j \in k..youngest : j \in A
  BY <1>1, <1>3, <1>4, Climb
<1> QED
  BY <1>5 DEF A

\* What renews a path that a change of the transaction is about, and is not a
\* conflict, adds a path above it that was not there before.
LEMMA RenewedAbove ==
  ASSUME HistoryInv, NEW t \in Txns, open[t] # None, ~Conflicts(t),
         NEW j \in open[t].base..youngest, j + 1 <= youngest,
         NEW c \in DOMAIN open[t].changes, Renewed(revision[j + 1].changes, c)
  PROVE  \E q \in Paths : c # <<>> /\ Covers(q, Parent(c)) /\ q \notin DOMAIN Tree(j)
<1> DEFINE up == revision[j + 1].changes
<1>1. open[t].base \in 0..youngest /\ youngest \in Nat /\ c \in Paths
  BY OpenIs
<1>2. j \in Nat
  <2> DEFINE b == open[t].base
  <2>1. b \in 0..youngest /\ j \in b..youngest
    BY <1>1
  <2> HIDE DEF b
  <2> QED
    BY <1>1, <2>1
<1>3. StepTraced(Tree(j), Tree(j + 1), up) /\ up \in Partial(PathChange) /\ DOMAIN up \subseteq Paths
  BY <1>2, Follows
<1>4. Renewed(up, c)
  OBVIOUS
<1>5. \A q \in DOMAIN up : ~ChangesConflict(c, open[t].changes[c], q, up[q])
  BY NoConflict
<1> HIDE DEF up
<1>6. PICK q \in DOMAIN up : Covers(q, c) /\ (up[q].kind = "replace" \/ Brought(up, q))
  BY <1>1, <1>3, <1>4, TopRenewed
<1>7. q # c
  BY <1>5, <1>6 DEF ChangesConflict, Brought
<1>8. Brought(up, q)
  BY <1>5, <1>6, <1>7 DEF ChangesConflict, Covers
<1>9. q \notin DOMAIN Tree(j)
  BY <1>3, <1>8 DEF StepTraced
<1>10. q \in Paths /\ c # <<>> /\ Covers(q, Parent(c))
  BY <1>1, <1>3, <1>6, <1>7, AboveParent
<1> QED
  BY <1>9, <1>10

\* A path that the transaction adds stays free.
LEMMA StaysAway ==
  ASSUME HistoryInv, NEW t \in Txns, open[t] # None, ~Conflicts(t),
         NEW s \in DOMAIN open[t].changes, s # <<>>,
         NEW k \in open[t].base..youngest, s \notin DOMAIN Tree(k), Parent(s) \in DOMAIN Tree(k)
  PROVE  \A j \in k..youngest : s \notin DOMAIN Tree(j) /\ Parent(s) \in DOMAIN Tree(j)
<1> DEFINE b == open[t].base
           A == {j \in Nat : s \notin DOMAIN Tree(j)}
<1>1. b \in 0..youngest /\ youngest \in Nat /\ s \in Paths
  BY OpenIs
<1>2. k \in b..youngest
  OBVIOUS
<1>3. Parent(s) \in Paths /\ Covers(Parent(s), s)
  <2>1. s \in Seq(Names) /\ Parent(s) \in Paths
    BY <1>1, PathTypes
  <2> QED
    BY <2>1, CoversParent
<1>4. \A j \in k..youngest : Parent(s) \in DOMAIN Tree(j)
  BY <1>3, StaysThere
<1> HIDE DEF b
<1>5. k \in 0..youngest /\ k \in A
  BY <1>1, <1>2
<1>6. ASSUME NEW j \in k..youngest, j \in A, j + 1 <= youngest
      PROVE  j + 1 \in A
  <2>1. j \in Nat /\ j + 1 \in Nat /\ j \in b..youngest
    BY <1>1, <1>2
  <2>2. StepTraced(Tree(j), Tree(j + 1), revision[j + 1].changes) /\ IsTree(Tree(j))
    BY <1>6, <2>1, Follows
  <2>3. SUFFICES ASSUME s \in DOMAIN Tree(j + 1)
                 PROVE  FALSE
    BY <2>1
  <2>4. Renewed(revision[j + 1].changes, s)
    BY <1>6, <2>2, <2>3 DEF StepTraced
  <2>5. PICK q \in Paths : Covers(q, Parent(s)) /\ q \notin DOMAIN Tree(j)
    BY <1>6, <2>1, <2>4, RenewedAbove DEF b
  <2> QED
    BY <1>4, <1>6, <2>2, <2>5 DEF IsTree
<1> HIDE DEF A
<1>7. \A j \in k..youngest : j \in A
  BY <1>1, <1>5, <1>6, Climb
<1> QED
  BY <1>4, <1>7 DEF A

\* What the transaction modifies stays what it was, but for what was not
\* reported.
LEMMA StaysSame ==
  ASSUME HistoryInv, NEW t \in Txns, open[t] # None, ~Conflicts(t), NEW w \in Fields, NEW v,
         NEW p \in DOMAIN open[t].changes, Part(open[t].changes[p], w),
         NEW k \in open[t].base..youngest, p \in DOMAIN Tree(k), Matches(k, p, w, v)
  PROVE  \A j \in k..youngest : p \in DOMAIN Tree(j) /\ Matches(j, p, w, v)
<1> DEFINE b == open[t].base
           A == {j \in Nat : Matches(j, p, w, v)}
           mine == open[t].changes[p]
<1>1. b \in 0..youngest /\ youngest \in Nat /\ p \in Paths
  BY OpenIs
<1>2. k \in b..youngest
  OBVIOUS
<1>3. Covers(p, p)
  BY <1>1, PathTypes
<1>4. \A j \in k..youngest : p \in DOMAIN Tree(j)
  BY <1>1, <1>3, StaysThere
<1> HIDE DEF b
<1>5. k \in 0..youngest /\ k \in A
  BY <1>1, <1>2
<1>6. ASSUME NEW j \in k..youngest, j \in A, j + 1 <= youngest
      PROVE  j + 1 \in A
  <2> DEFINE up == revision[j + 1].changes
             same == Part(Tree(j + 1)[p], w) = Part(Tree(j)[p], w)
  <2>1. j \in Nat /\ j + 1 \in Nat /\ j \in b..youngest /\ j + 1 \in k..youngest
    BY <1>1, <1>2, <1>6
  <2>2. StepTraced(Tree(j), Tree(j + 1), up) /\ IsTree(Tree(j))
    BY <1>6, <2>1, Follows
  <2>3. p \in DOMAIN Tree(j) /\ p \in DOMAIN Tree(j + 1)
    BY <1>4, <2>1
  <2>4. Matches(j, p, w, v)
    BY <1>6
  <2>5. ~Renewed(up, p)
    <3> SUFFICES ASSUME Renewed(up, p)
                 PROVE  FALSE
      OBVIOUS
    <3>1. PICK q \in Paths : p # <<>> /\ Covers(q, Parent(p)) /\ q \notin DOMAIN Tree(j)
      BY <1>6, <2>1, RenewedAbove DEF b
    <3>2. Parent(p) \in Paths /\ Covers(Parent(p), p) /\ p \in Seq(Names) /\ q \in Seq(Names)
          /\ Parent(p) \in Seq(Names)
      BY <1>1, <3>1, PathTypes, CoversParent
    <3>3. Covers(q, p)
      BY <3>1, <3>2, CoversOrder
    <3> QED
      BY <2>2, <2>3, <3>1, <3>3 DEF IsTree
  <2>6. CASE p \notin DOMAIN up
    <3>1. same
      BY <2>2, <2>3, <2>5, <2>6 DEF StepTraced, Part
    <3>2. 2..j \subseteq 2..(j + 1)
      BY <2>1
    <3>3. Matches(j + 1, p, w, v)
      BY <2>4, <3>1, <3>2 DEF Matches
    <3> QED
      BY <2>1, <3>3
  <2>7. CASE p \in DOMAIN up
    <3>1. ~ChangesConflict(p, mine, p, up[p])
      BY <1>6, <2>1, <2>7, NoConflict DEF b
    <3>2. up[p].kind = "modify" /\ ~Part(up[p], w)
      BY <3>1 DEF ChangesConflict, Part, Fields
    <3>3. j + 1 # 1
      <4>1. History
        BY DEF HistoryInv
      <4> QED
        BY <2>7, <3>2, <4>1 DEF History
    <3>4. (j + 1) - 1 = j /\ j + 1 \in 2..(j + 1) /\ 2..j \subseteq 2..(j + 1)
      BY <2>1, <3>3
    <3>5. same \/ Unreported(j + 1, p, w)
      BY <2>3, <2>7, <3>2, <3>4 DEF Unreported, TextUnreported, PropsUnreported, Part, Fields
    <3>6. Matches(j + 1, p, w, v)
      BY <2>4, <3>4, <3>5 DEF Matches
    <3> QED
      BY <2>1, <3>6
  <2> QED
    BY <2>6, <2>7
<1> HIDE DEF A
<1>7. \A j \in k..youngest : j \in A
  BY <1>1, <1>5, <1>6, Climb
<1> QED
  BY <1>4, <1>7 DEF A

-----------------------------------------------------------------------------
(***************************************************************************)
(* Merging keeps the tree accounted for, by the changes and the youngest   *)
(* revision alone.                                                         *)
(***************************************************************************)
LEMMA VisitedBelow ==
  ASSUME NEW t, NEW s \in Paths, s # <<>>, Visited(t, Parent(s)),
         s \in DOMAIN open[t].tree, s \in DOMAIN Tree(youngest),
         open[t].tree[s].dirty, ~open[t].tree[s].newNode
  PROVE  Visited(t, s)
<1> DEFINE l == Len(s)
           u == Parent(s)
<1>1. s \in Seq(Names) /\ u \in Seq(Names) /\ Len(u) = l - 1 /\ l > 0 /\ l \in Nat
  <2>1. s \in Seq(Names)
    BY PathTypes
  <2> QED
    BY <2>1, CoversParent
<1>2. u = Up(s, l - 1)
  BY DEF Parent, Up
<1>3. \A n \in 1..Len(u) :
         /\ Up(u, n) \in DOMAIN open[t].tree /\ Up(u, n) \in DOMAIN Tree(youngest)
         /\ open[t].tree[Up(u, n)].dirty /\ ~open[t].tree[Up(u, n)].newNode
  BY DEF Visited, Up
<1>4. ASSUME NEW n \in 1..l
      PROVE  /\ Up(s, n) \in DOMAIN open[t].tree /\ Up(s, n) \in DOMAIN Tree(youngest)
             /\ open[t].tree[Up(s, n)].dirty /\ ~open[t].tree[Up(s, n)].newNode
  <2> DEFINE m == l - 1
  <2>1. /\ Len(u) = m /\ u = Up(s, m)
        /\ m \in 0..l /\ l \in 0..l /\ 0 \in 0..l
        /\ n = l \/ (n \in 1..m /\ n \in 0..m)
    <3> HIDE DEF l, u
    <3> QED
      BY <1>1, <1>2
  <2>2. Up(s, l) = s
    <3>1. 0 \in 0..0 /\ 0 \in 0..Len(s)
      BY <2>1
    <3> QED
      BY <1>1, <3>1, UpOfUp
  <2>3. CASE n = l
    BY <2>2, <2>3
  <2>4. CASE n \in 1..m /\ n \in 0..m
    <3>1. Up(Up(s, m), n) = Up(s, n)
      <4> HIDE DEF m
      <4>1. m \in 0..Len(s) /\ n \in 0..m
        BY <2>1, <2>4
      <4> HIDE DEF l, u
      <4> QED
        BY <1>1, <4>1, UpOfUp
    <3>2. n \in 1..Len(u) /\ Up(u, n) = Up(s, n)
      <4> HIDE DEF m, u
      <4> QED
        BY <2>1, <2>4, <3>1
    <3> QED
      BY <1>3, <3>2
  <2> QED
    BY <2>1, <2>3, <2>4
<1> QED
  BY <1>4 DEF Visited, Up

\* A subtree that stays in spite of the youngest revision was added or
\* replaced: a dirty node that is not new would have been visited.
LEMMA KeptRenewed ==
  ASSUME HistoryInv, NEW t \in Txns, open[t] # None, ~Conflicts(t),
         NEW p \in Paths, ~Visited(t, p), Kept(t, p)
  PROVE  Renewed(open[t].changes, p)
<1> DEFINE s == Stop(t, p)
           x == open[t]
           ch == x.changes
           n == x.tree[s]
<1>1. /\ x.base \in 0..youngest /\ youngest \in Nat
      /\ TreeTraced(x.base, x.tree, ch) /\ DOMAIN x.tree \subseteq Paths
      /\ DOMAIN ch \subseteq Paths
  BY OpenIs
<1>2. p \in Seq(Names)
  BY PathTypes
<1>3. /\ s \in Seq(Names) /\ Covers(s, p) /\ s # <<>> /\ Visited(t, Parent(s))
      /\ \A q \in Seq(Names) : Covers(q, p) => (Visited(t, q) <=> ~Covers(s, q))
  BY <1>2, StopIs
<1>4. s \in DOMAIN x.tree /\ n.dirty
  BY DEF Kept
<1> HIDE DEF s
<1>5. ~Visited(t, s) /\ s \in Paths /\ Covers(s, s)
  BY <1>1, <1>3, <1>4, PathTypes
<1>6. Reported(n, s, ch) /\ (Renewed(ch, s) \/ Based(x.base, n, s))
  BY <1>1, <1>4 DEF TreeTraced
<1>7. CASE Renewed(ch, s)
  <2>1. PICK q \in DOMAIN ch : Covers(q, s) /\ ch[q].kind \in {"add", "replace"}
    BY <1>7 DEF Renewed
  <2>2. q \in Seq(Names)
    BY <1>1, PathTypes
  <2>3. Covers(q, p)
    BY <1>2, <1>3, <2>1, <2>2, CoversOrder
  <2> QED
    BY <2>1, <2>3 DEF Renewed
<1>8. CASE ~Renewed(ch, s)
  <2>1. PICK k \in x.base..youngest : s \in DOMAIN Tree(k)
    BY <1>6, <1>8 DEF Based
  <2>2. PICK c \in DOMAIN ch : Covers(s, c)
    BY <1>4, <1>6 DEF Reported
  <2>3. youngest \in k..youngest
    <3> DEFINE b == x.base
    <3>1. b \in 0..youngest /\ k \in b..youngest
      BY <1>1, <2>1
    <3> HIDE DEF b
    <3> QED
      BY <1>1, <3>1
  <2>4. s \in DOMAIN Tree(youngest)
    BY <1>5, <2>1, <2>2, <2>3, StaysThere
  <2>5. ~n.newNode
    BY <1>5, <1>6, <1>8 DEF Reported, Renewed
  <2> QED
    BY SMTT(60), <1>3, <1>4, <1>5, <2>4, <2>5, VisitedBelow
<1> QED
  BY <1>7, <1>8

LEMMA MergedNode ==
  ASSUME HistoryInv, NEW t \in Txns, open[t] # None, ~Conflicts(t),
         NEW p \in Paths, p \in DOMAIN MergedTree(t)
  PROVE  /\ Reported(MergedTree(t)[p], p, open[t].changes)
         /\ p \notin KindChanged(t) =>
              Renewed(open[t].changes, p) \/ Based(youngest, MergedTree(t)[p], p)
<1> DEFINE x == open[t]
           ch == x.changes
           n == MergedTree(t)[p]
           o == x.tree[p]
           latest == Tree(youngest)[p]
<1>1. /\ Typed /\ youngest \in Nat /\ youngest \in 0..youngest
      /\ TreeTraced(x.base, x.tree, ch)
      /\ \A q \in DOMAIN x.tree : x.tree[q] \in TxnNode
  BY OpenIs
<1>2. youngest \in youngest..youngest
  BY <1>1
<1>3. /\ Visited(t, p) => /\ p \in DOMAIN x.tree /\ p \in DOMAIN Tree(youngest)
                          /\ n = RebasedNode(t, p)
      /\ ~Visited(t, p) /\ Kept(t, p) => p \in DOMAIN x.tree /\ n = o
      /\ ~Visited(t, p) /\ ~Kept(t, p) =>
           p \in DOMAIN Tree(youngest) /\ n = Clean(latest, youngest, p)
  BY <1>1, MergedIs
<1>4. p \in DOMAIN x.tree => Reported(o, p, ch)
  BY <1>1 DEF TreeTraced
<1>5. CASE Visited(t, p)
  <2>1. o \in TxnNode /\ latest \in NodeRevision
    BY SMTT(60), <1>1, <1>3, <1>5, RevisionTree
  <2>2. /\ n.dirty = o.dirty /\ n.newNode = o.newNode
        /\ n.textModified = o.textModified /\ n.propsModified = o.propsModified
        /\ n.node.kind = o.node.kind
        /\ ~n.textModified => n.node.text = latest.text
        /\ ~n.propsModified => n.node.props = latest.props
    <3> DEFINE m == RebasedNode(t, p)
    <3>1. /\ m.dirty = o.dirty /\ m.newNode = o.newNode
          /\ m.textModified = o.textModified /\ m.propsModified = o.propsModified
          /\ m.node.kind = o.node.kind
          /\ ~m.textModified => m.node.text = latest.text
          /\ ~m.propsModified => m.node.props = latest.props
      BY <1>1, <2>1, RebasedIs
    <3>2. n = m
      BY <1>3, <1>5
    <3> HIDE DEF m, n, o, latest
    <3> QED
      BY <3>1, <3>2
  <2>3. n.at = <<youngest, p>>
    BY Zenon, <1>3, <1>5, <2>1 DEF RebasedNode, TxnNode
  <2>4. p \notin KindChanged(t) => o.node.kind = latest.kind
    BY <1>3, <1>5 DEF KindChanged
  <2> HIDE DEF n, o
  <2>5. Reported(n, p, ch)
    BY <1>3, <1>4, <1>5, <2>2 DEF Reported
  <2>6. p \notin KindChanged(t) => Based(youngest, n, p)
    BY <1>2, <1>3, <1>5, <2>2, <2>3, <2>4 DEF Based
  <2> QED
    BY <2>5, <2>6 DEF n
<1>6. CASE ~Visited(t, p) /\ Kept(t, p)
  BY <1>3, <1>4, <1>6, KeptRenewed
<1>7. CASE ~Visited(t, p) /\ ~Kept(t, p)
  <2>1. /\ n.node = latest /\ n.at = <<youngest, p>> /\ ~n.dirty /\ ~n.newNode
        /\ ~n.textModified /\ ~n.propsModified
    BY <1>3, <1>7 DEF Clean
  <2> HIDE DEF n
  <2>2. Reported(n, p, ch)
    BY <2>1 DEF Reported
  <2>3. Based(youngest, n, p)
    BY <1>2, <1>3, <1>7, <2>1 DEF Based
  <2> QED
    BY <2>2, <2>3 DEF n
<1> QED
  BY <1>5, <1>6, <1>7

LEMMA MergedAbsent ==
  ASSUME HistoryInv, NEW t \in Txns, open[t] # None, ~Conflicts(t),
         NEW c \in Paths \ {<<>>}, Parent(c) \in DOMAIN MergedTree(t), c \notin DOMAIN MergedTree(t)
  PROVE  \/ Renewed(open[t].changes, Parent(c))
         \/ c \notin DOMAIN Tree(youngest) /\ Parent(c) \in DOMAIN Tree(youngest)
<1> DEFINE p == Parent(c)
<1>1. Typed
  BY OpenIs
<1>2. c \in Seq(Names) /\ p \in Paths /\ p \in Seq(Names)
  BY PathTypes
<1>3. Covers(p, c)
  BY <1>2, CoversParent
<1>4. \A q \in Paths :
         /\ Visited(t, q) =>
              q \in DOMAIN MergedTree(t) /\ q \in DOMAIN open[t].tree /\ q \in DOMAIN Tree(youngest)
         /\ ~Visited(t, q) /\ Kept(t, q) =>
              (q \in DOMAIN MergedTree(t) <=> q \in DOMAIN open[t].tree)
         /\ ~Visited(t, q) /\ ~Kept(t, q) =>
              (q \in DOMAIN MergedTree(t) <=> q \in DOMAIN Tree(youngest))
  BY <1>1, MergedIs
<1>5. p \in DOMAIN MergedTree(t)
  OBVIOUS
<1> HIDE DEF p
<1>6. ~Visited(t, c)
  BY <1>4
<1>7. CASE Visited(t, p)
  <2>1. Stop(t, c) = c
    <3> DEFINE s == Stop(t, c)
    <3>1. /\ s \in Seq(Names) /\ Covers(s, c)
          /\ \A q \in Seq(Names) : Covers(q, c) => (Visited(t, q) <=> ~Covers(s, q))
      BY <1>2, <1>6, StopIs
    <3> HIDE DEF s
    <3>2. ~Covers(s, p)
      BY <1>2, <1>3, <1>7, <3>1
    <3>3. s = c
      BY <1>2, <3>1, <3>2, CoversParent DEF p
    <3> QED
      BY <3>3 DEF s
  <2>2. ~Kept(t, c)
    BY <1>4, <1>6, <2>1 DEF Kept
  <2> QED
    BY <1>2, <1>4, <1>6, <1>7, <2>2 DEF p
<1>8. CASE ~Visited(t, p)
  <2>1. Kept(t, p) <=> Kept(t, c)
    BY <1>2, <1>3, <1>8, KeptAlike
  <2>2. CASE Kept(t, p)
    BY <1>2, <1>8, <2>2, KeptRenewed DEF p
  <2>3. CASE ~Kept(t, p)
    BY <1>2, <1>4, <1>5, <1>6, <1>8, <2>1, <2>3 DEF p
  <2> QED
    BY <2>2, <2>3
<1> QED
  BY <1>7, <1>8

LEMMA MergedTraced ==
  ASSUME HistoryInv, NEW t \in Txns, open[t] # None, ~Conflicts(t), KindChanged(t) = {}
  PROVE  TreeTraced(youngest, MergedTree(t), open[t].changes)
<1> DEFINE m == MergedTree(t)
           ch == open[t].changes
<1>1. Typed /\ youngest \in Nat /\ youngest \in youngest..youngest
  BY OpenIs
<1>2. DOMAIN m \subseteq Paths
  BY <1>1, MergedIs, PartialIs
<1>3. ASSUME NEW p \in DOMAIN m
      PROVE  Reported(m[p], p, ch) /\ (Renewed(ch, p) \/ Based(youngest, m[p], p))
  BY <1>2, MergedNode
<1>4. ASSUME NEW c \in Paths \ {<<>>}, Parent(c) \in DOMAIN m, c \notin DOMAIN m
      PROVE  Absent(youngest, c, ch)
  <2>1. \/ Renewed(ch, Parent(c))
        \/ c \notin DOMAIN Tree(youngest) /\ Parent(c) \in DOMAIN Tree(youngest)
    BY <1>4, MergedAbsent
  <2> QED
    BY <1>1, <2>1 DEF Absent, Gap
<1> HIDE DEF m, ch
<1>5. TreeTraced(youngest, m, ch)
  BY <1>3, <1>4 DEF TreeTraced
<1> QED
  BY <1>5 DEF m, ch

\* A merge that fails half-way: below the paths of done the tree is merged.
LEMMA MixedTraced ==
  ASSUME HistoryInv, NEW t \in Txns, open[t] # None, ~Conflicts(t),
         NEW done \in SUBSET (DOMAIN open[t].tree \ {<<>>}),
         \A c \in done : /\ Visited(t, Parent(c))
                         /\ \A p \in KindChanged(t) : ~Covers(c, p)
  PROVE  TreeTraced(open[t].base, Mixed(t, done), open[t].changes)
<1> DEFINE x == open[t]
           mine == x.tree
           m == MergedTree(t)
           f == Mixed(t, done)
           ch == x.changes
           b == x.base
           Done(p) == \E c \in done : Covers(c, p)
<1>1. /\ Typed /\ youngest \in Nat /\ b \in 0..youngest
      /\ TreeTraced(b, mine, ch) /\ DOMAIN mine \subseteq Paths
  BY OpenIs
<1>2. youngest \in b..youngest
  <2> HIDE DEF b
  <2> QED
    BY <1>1
<1>3. DOMAIN m \subseteq Paths
  BY <1>1, MergedIs, PartialIs
<1>4. /\ \A p : p \in DOMAIN f <=> \/ p \in DOMAIN mine /\ ~Done(p)
                                   \/ p \in DOMAIN m /\ Done(p)
      /\ \A p \in DOMAIN f : f[p] = IF Done(p) THEN m[p] ELSE mine[p]
  BY DEF Mixed
<1>5. \A n, p : Based(youngest, n, p) => Based(b, n, p)
  <2> HIDE DEF b
  <2>1. \A k \in youngest..youngest : k \in b..youngest
    BY <1>1, <1>2
  <2> QED
    BY <2>1 DEF Based
<1> HIDE DEF f
<1>6. ASSUME NEW p \in DOMAIN f
      PROVE  Reported(f[p], p, ch) /\ (Renewed(ch, p) \/ Based(b, f[p], p))
  <2>1. CASE Done(p)
    <3>1. p \in DOMAIN m /\ p \in Paths /\ f[p] = m[p] /\ p \notin KindChanged(t)
      BY <1>3, <1>4, <2>1
    <3>2. Reported(m[p], p, ch) /\ (Renewed(ch, p) \/ Based(youngest, m[p], p))
      BY <3>1, MergedNode
    <3> QED
      BY <1>5, <3>1, <3>2
  <2>2. CASE ~Done(p)
    BY <1>1, <1>4, <2>2 DEF TreeTraced
  <2> QED
    BY <2>1, <2>2
<1>7. ASSUME NEW c \in Paths \ {<<>>}, Parent(c) \in DOMAIN f, c \notin DOMAIN f
      PROVE  Absent(b, c, ch)
  <2> DEFINE p == Parent(c)
  <2>1. c \in Seq(Names) /\ p \in Paths /\ p \in Seq(Names) /\ Covers(p, c)
    BY PathTypes, CoversParent
  <2>2. Done(p) => Done(c)
    <3> SUFFICES ASSUME NEW a \in done, Covers(a, p)
                 PROVE  Covers(a, c)
      OBVIOUS
    <3>1. a \in Seq(Names)
      BY <1>1, PathTypes
    <3> QED
      BY <2>1, <3>1, CoversOrder
  <2>3. CASE Done(p)
    <3>1. p \in DOMAIN m /\ c \notin DOMAIN m
      BY <1>4, <1>7, <2>2, <2>3
    <3>2. \/ Renewed(ch, p)
          \/ c \notin DOMAIN Tree(youngest) /\ p \in DOMAIN Tree(youngest)
      BY <3>1, MergedAbsent
    <3> HIDE DEF b, ch
    <3> QED
      BY <1>2, <3>2 DEF Absent, Gap
  <2>4. CASE ~Done(p) /\ ~Done(c)
    <3>1. p \in DOMAIN mine /\ c \notin DOMAIN mine
      BY <1>4, <1>7, <2>4
    <3> QED
      BY <1>1, <3>1 DEF TreeTraced
  <2>5. CASE ~Done(p) /\ Done(c)
    <3>1. PICK a \in done : Covers(a, c)
      BY <2>5
    <3>2. a = c
      <4>1. a \in Paths
        BY <1>1
      <4> QED
        BY <2>5, <3>1, <4>1, AboveParent
    <3>3. Visited(t, p) /\ c \in DOMAIN mine
      BY <3>2
    <3>4. c \notin DOMAIN m
      BY <1>4, <1>7, <2>5
    <3>5. p \in DOMAIN m /\ p \in DOMAIN Tree(youngest)
      BY <1>1, <2>1, <3>3, MergedIs
    <3>6. \/ Renewed(ch, p)
          \/ c \notin DOMAIN Tree(youngest) /\ p \in DOMAIN Tree(youngest)
      BY <3>4, <3>5, MergedAbsent
    <3> HIDE DEF b, ch
    <3> QED
      BY <1>2, <3>6 DEF Absent, Gap
  <2> QED
    BY <2>3, <2>4, <2>5
<1> HIDE DEF b, ch
<1>8. TreeTraced(b, f, ch)
  BY <1>6, <1>7 DEF TreeTraced
<1> QED
  BY <1>8 DEF b, f, ch

LEMMA MergeFailsHistory ==
  ASSUME HistoryInv, WorkInv', NEW t \in Txns, MergeFails(t)
  PROVE  HistoryInv'
<1> DEFINE x == open[t]
           mine == x.tree
<1>1. open[t] # None /\ ~Conflicts(t) /\ UNCHANGED <<youngest, revision>>
  BY DEF MergeFails
<1>2. /\ x \in Transaction /\ Traced(x) /\ DOMAIN mine \subseteq Paths
      /\ x.base \in 0..youngest
  BY <1>1, OpenIs
<1>3. PICK k \in KindChanged(t) :
        LET beside == {c \in DOMAIN mine \ {<<>>} :
                        /\ IsAncestor(Parent(c), k) /\ ~Covers(c, k)
                        /\ \A p \in KindChanged(t) : ~Covers(c, p)}
        IN \E done \in SUBSET beside : open' = [open EXCEPT ![t].tree = Mixed(t, done)]
  BY DEF MergeFails, Mixed
<1> DEFINE beside == {c \in DOMAIN mine \ {<<>>} :
                        /\ IsAncestor(Parent(c), k) /\ ~Covers(c, k)
                        /\ \A p \in KindChanged(t) : ~Covers(c, p)}
<1>4. PICK done \in SUBSET beside : open' = [open EXCEPT ![t].tree = Mixed(t, done)]
  BY <1>3
<1>5. ASSUME NEW c \in done
      PROVE  c \in DOMAIN mine \ {<<>>} /\ Visited(t, Parent(c))
             /\ \A p \in KindChanged(t) : ~Covers(c, p)
  <2>1. k \in Paths /\ Visited(t, k) /\ c \in Paths /\ c # <<>> /\ Covers(Parent(c), k)
    BY <1>2, <1>4 DEF KindChanged, Covers
  <2>2. k \in Seq(Names) /\ Parent(c) \in Seq(Names)
    BY <2>1, PathTypes
  <2>3. Visited(t, Parent(c))
    BY <2>1, <2>2, VisitedDown
  <2> QED
    BY <1>4, <2>3
<1>6. done \in SUBSET (DOMAIN mine \ {<<>>})
  BY <1>5
<1>7. TreeTraced(x.base, Mixed(t, done), x.changes)
  BY <1>1, <1>5, <1>6, MixedTraced
<1> DEFINE f == Mixed(t, done)
           y == [x EXCEPT !.tree = f]
<1>8. open' = [open EXCEPT ![t] = y]
  BY <1>4
<1> HIDE DEF f, x
<1>9. /\ y.base = x.base /\ y.tree = f /\ y.changes = x.changes
      /\ y.overText = x.overText /\ y.overProps = x.overProps
  BY <1>2 DEF Transaction
<1> HIDE DEF y
<1>10. \A w \in Fields : Over(y, w) = Over(x, w)
  BY <1>9 DEF Over
<1>11. Traced(y)
  BY <1>2, <1>7, <1>9, <1>10 DEF Traced, f
<1>12. y.base \in 0..youngest
  BY <1>2, <1>9
<1> QED
  BY <1>1, <1>8, <1>11, <1>12, OpenHistory

LEMMA RebasedTraced ==
  ASSUME HistoryInv, NEW t \in Txns, open[t] # None, MayMerge(t)
  PROVE  Traced(Rebased(t)) /\ Rebased(t).base = youngest
<1> DEFINE x == open[t]
           b == x.base
           ch == x.changes
           m == MergedTree(t)
           y == [x EXCEPT !.base = youngest, !.tree = m]
<1>1. /\ x \in Transaction /\ Traced(x) /\ youngest \in Nat /\ b \in 0..youngest
      /\ AddsTraced(b, ch)
  BY OpenIs
<1>2. CASE b = youngest
  BY <1>1, <1>2 DEF Rebased
<1>3. CASE b # youngest
  <2>1. Rebased(t) = y
    BY <1>3 DEF Rebased
  <2>2. ~Conflicts(t) /\ KindChanged(t) = {}
    BY <1>3 DEF MayMerge
  <2>3. TreeTraced(youngest, m, ch)
    BY <2>2, MergedTraced
  <2>4. ASSUME NEW k \in b..youngest
        PROVE  youngest \in k..youngest /\ youngest \in youngest..youngest
    <3> HIDE DEF b
    <3> QED
      BY <1>1
  <2>5. ASSUME NEW s \in DOMAIN ch, s # <<>>, Gap(b, s)
        PROVE  Gap(youngest, s)
    <3>1. PICK k \in b..youngest : s \notin DOMAIN Tree(k) /\ Parent(s) \in DOMAIN Tree(k)
      BY <2>5 DEF Gap
    <3>2. s \notin DOMAIN Tree(youngest) /\ Parent(s) \in DOMAIN Tree(youngest)
      BY <2>2, <2>4, <2>5, <3>1, StaysAway
    <3>3. youngest \in youngest..youngest
      BY <2>4, <3>1
    <3> QED
      BY <3>2, <3>3 DEF Gap
  <2>6. AddsTraced(youngest, ch)
    <3> HIDE DEF b, ch
    <3> QED
      BY <1>1, <2>5 DEF AddsTraced
  <2>7. ASSUME NEW w \in Fields, NEW p \in DOMAIN ch, NEW v,
               ch[p].kind = "modify", Part(ch[p], w), Settled(b, ch, p, w, v)
        PROVE  Settled(youngest, ch, p, w, v)
    <3>1. CASE \E k \in b..youngest : p \in DOMAIN Tree(k) /\ Matches(k, p, w, v)
      <4>1. PICK k \in b..youngest : p \in DOMAIN Tree(k) /\ Matches(k, p, w, v)
        BY <3>1
      <4>2. p \in DOMAIN Tree(youngest) /\ Matches(youngest, p, w, v)
        BY <2>2, <2>4, <2>7, <4>1, StaysSame
      <4>3. youngest \in youngest..youngest
        BY <2>4, <4>1
      <4> QED
        BY <4>2, <4>3 DEF Settled
    <3>2. CASE \E s \in DOMAIN ch :
                  Covers(s, p) /\ ch[s].kind = "add" /\ s # <<>> /\ Gap(b, s)
      <4> HIDE DEF b, ch
      <4> QED
        BY <2>5, <3>2 DEF Settled
    <3> QED
      BY <2>7, <3>1, <3>2 DEF Settled
  <2>8. ASSUME NEW w \in Fields
        PROVE  OverTraced(youngest, ch, Over(x, w), w)
    <3> DEFINE over == Over(x, w)
    <3>1. OverTraced(b, ch, over, w)
      BY <1>1 DEF Traced
    <3> HIDE DEF over, b, ch
    <3>2. OverTraced(youngest, ch, over, w)
      BY <2>7, <3>1 DEF OverTraced
    <3> QED
      BY <3>2 DEF over
  <2> HIDE DEF x, m
  <2>9. /\ y.base = youngest /\ y.tree = m /\ y.changes = x.changes
        /\ y.overText = x.overText /\ y.overProps = x.overProps
    BY <1>1 DEF Transaction
  <2> HIDE DEF y
  <2>10. \A w \in Fields : Over(y, w) = Over(x, w)
    BY <2>9 DEF Over
  <2>11. Traced(y)
    BY <2>3, <2>6, <2>8, <2>9, <2>10 DEF Traced
  <2> QED
    BY <2>1, <2>9, <2>11
<1> QED
  BY <1>2, <1>3

LEMMA CommitFailsHistory ==
  ASSUME HistoryInv, WorkInv', NEW t \in Txns, CommitFails(t)
  PROVE  HistoryInv'
<1>1. /\ open[t] # None /\ MayMerge(t) /\ open' = [open EXCEPT ![t] = Rebased(t)]
      /\ UNCHANGED <<youngest, revision>>
  BY DEF CommitFails
<1>2. youngest \in Nat
  BY <1>1, OpenIs
<1>3. Traced(Rebased(t)) /\ Rebased(t).base \in 0..youngest
  BY <1>1, <1>2, RebasedTraced
<1> QED
  BY <1>1, <1>3, OpenHistory

-----------------------------------------------------------------------------
(***************************************************************************)
(* The revision that a transaction becomes.                                *)
(***************************************************************************)
LEMMA BuiltStep ==
  ASSUME Typed, NEW x, Sound(x), Traced(x), x.base = youngest
  PROVE  StepTraced(Tree(youngest), Built(x.tree), x.changes)
<1> DEFINE f == x.tree
           g == Built(f)
           ch == x.changes
           before == Tree(youngest)
<1>1. /\ f \in Partial(TxnNode) /\ ch \in Partial(PathChange) /\ IsTxnTree(f)
      /\ TreeTraced(youngest, f, ch) /\ AddsTraced(youngest, ch)
  BY TransactionFields DEF Sound, Traced
<1>2. youngest \in 0..youngest /\ youngest \in Nat /\ \A k \in youngest..youngest : k = youngest
  BY DEF Typed
<1>3. DOMAIN before \subseteq Paths /\ IsTree(before)
  BY <1>2, RevisionTree
<1>4. /\ \A p : p \in DOMAIN g <=> p \in DOMAIN f
      /\ \A p \in DOMAIN f : /\ g[p].text = f[p].node.text
                             /\ g[p].kind = f[p].node.kind
                             /\ g[p].props = f[p].node.props
  BY <1>1, BuiltIs
<1>5. /\ DOMAIN f \subseteq Paths /\ DOMAIN ch \subseteq Paths /\ <<>> \in DOMAIN f
      /\ \A p \in DOMAIN f, q \in Paths : Covers(q, p) => q \in DOMAIN f
  BY <1>1, PartialIs DEF IsTxnTree, IsTree
<1>6. \A s : Gap(youngest, s) => s \notin DOMAIN before /\ Parent(s) \in DOMAIN before
  BY <1>2 DEF Gap
<1> HIDE DEF f, g, ch, before
<1>7. ASSUME NEW s \in DOMAIN ch, Brought(ch, s)
      PROVE  s \notin DOMAIN before
  BY <1>1, <1>6, <1>7 DEF AddsTraced
\* What is gone was deleted, or its place was replaced.
<1>8. ASSUME NEW p \in DOMAIN before, p \notin DOMAIN g
      PROVE  Removed(ch, p)
  <2>1. p \in Paths /\ p \in Paths \ DOMAIN f
    BY <1>3, <1>4, <1>8
  <2>2. PICK c \in Paths \ {<<>>} : Covers(c, p) /\ c \notin DOMAIN f /\ Parent(c) \in DOMAIN f
    BY <1>5, <2>1, FirstMissing
  <2>3. c \in DOMAIN before
    BY <1>3, <2>2 DEF IsTree
  <2>4. c \in Seq(Names) /\ p \in Seq(Names) /\ Parent(c) \in Paths /\ Parent(c) \in Seq(Names)
    BY <2>1, <2>2, PathTypes
  <2>5. Covers(Parent(c), c)
    BY <2>2, <2>4, CoversParent
  <2>6. ASSUME Renewed(ch, c)
        PROVE  Removed(ch, p)
    <3>1. PICK q \in DOMAIN ch : Covers(q, c) /\ (ch[q].kind = "replace" \/ Brought(ch, q))
      BY <1>1, <2>2, <2>6, TopRenewed
    <3>2. q \in Paths /\ q \in Seq(Names)
      BY <1>5, PathTypes
    <3>3. q \in DOMAIN before
      BY <1>3, <2>3, <3>1, <3>2 DEF IsTree
    <3>4. ch[q].kind = "replace"
      BY <1>7, <3>1, <3>3
    <3>5. Covers(q, p)
      BY <2>2, <2>4, <3>1, <3>2, CoversOrder
    <3> QED
      BY <3>4, <3>5 DEF Removed
  <2>7. Absent(youngest, c, ch)
    BY <1>1, <2>2 DEF TreeTraced
  <2>8. CASE Renewed(ch, Parent(c))
    <3>1. PICK q \in DOMAIN ch : Covers(q, Parent(c)) /\ ch[q].kind \in {"add", "replace"}
      BY <2>8 DEF Renewed
    <3>2. q \in Seq(Names)
      BY <1>5, PathTypes
    <3>3. Covers(q, c)
      BY <2>4, <2>5, <3>1, <3>2, CoversOrder
    <3>4. Renewed(ch, c)
      BY <3>1, <3>3 DEF Renewed
    <3> QED
      BY <2>6, <3>4
  <2>9. CASE c \in DOMAIN ch /\ ch[c].kind # "modify"
    <3>1. ch[c].kind \in ChangeKinds
      <4>1. ch[c] \in PathChange
        BY <1>1, <2>9, PartialIs
      <4> QED
        BY <4>1 DEF PathChange
    <3>2. CASE ch[c].kind = "add"
      <4>1. Renewed(ch, c)
        BY <2>4, <2>9, <3>2, CoversOrder DEF Renewed
      <4> QED
        BY <2>6, <4>1
    <3>3. CASE ch[c].kind # "add"
      BY <2>2, <2>9, <3>1, <3>3 DEF ChangeKinds, Removed
    <3> QED
      BY <3>2, <3>3
  <2>10. CASE Gap(youngest, c)
    BY <1>6, <2>3, <2>10
  <2> QED
    BY <2>7, <2>8, <2>9, <2>10 DEF Absent
<1>9. ASSUME NEW p \in DOMAIN g
      PROVE  \/ Renewed(ch, p)
             \/ /\ p \in DOMAIN before
                /\ g[p].kind = before[p].kind
                /\ p \notin DOMAIN ch =>
                      g[p].text = before[p].text /\ g[p].props = before[p].props
  <2> DEFINE n == f[p]
  <2>1. Reported(n, p, ch) /\ (Renewed(ch, p) \/ Based(youngest, n, p))
    BY <1>1, <1>4 DEF TreeTraced
  <2>2. g[p].text = n.node.text /\ g[p].kind = n.node.kind /\ g[p].props = n.node.props
    BY <1>4
  <2>3. Based(youngest, n, p) =>
           /\ p \in DOMAIN before
           /\ n.node.kind = before[p].kind
           /\ ~n.textModified => n.node.text = before[p].text
           /\ ~n.propsModified => n.node.props = before[p].props
    BY <1>2 DEF Based, before
  <2>4. n.textModified \/ n.propsModified => p \in DOMAIN ch
    BY <2>1 DEF Reported
  <2> HIDE DEF n
  <2> QED
    BY <2>1, <2>2, <2>3, <2>4
<1>10. StepTraced(before, g, ch)
  BY <1>7, <1>8, <1>9 DEF StepTraced
<1> QED
  BY <1>10 DEF before, g, f, ch

LEMMA BuiltOver ==
  ASSUME Typed, NEW x, Sound(x), Traced(x), x.base = youngest, NEW w \in Fields,
         NEW p \in DOMAIN x.changes, p \in DOMAIN Tree(youngest),
         x.changes[p].kind = "modify", Part(x.changes[p], w), p \in DOMAIN Over(x, w)
  PROVE  Matches(youngest, p, w, Over(x, w)[p])
<1> DEFINE over == Over(x, w)
           v == over[p]
           ch == x.changes
<1>1. youngest \in 0..youngest /\ \A k \in youngest..youngest : k = youngest
  BY DEF Typed
<1>2. DOMAIN Tree(youngest) \subseteq Paths /\ IsTree(Tree(youngest))
  BY <1>1, RevisionTree
<1>3. ch \in Partial(PathChange)
  BY TransactionFields DEF Sound
<1>4. DOMAIN ch \subseteq Paths
  BY <1>3, PartialIs
<1>5. OverTraced(youngest, ch, over, w)
  BY DEF Traced
<1> HIDE DEF over
<1>6. Settled(youngest, ch, p, w, v)
  BY <1>5 DEF OverTraced, over
<1> HIDE DEF v, ch
<1>7. ASSUME NEW s \in DOMAIN ch, Covers(s, p), Gap(youngest, s)
      PROVE  FALSE
  <2>1. s \notin DOMAIN Tree(youngest)
    BY <1>1, <1>7 DEF Gap
  <2> QED
    BY <1>2, <1>4, <1>7, <2>1 DEF IsTree
<1>8. Matches(youngest, p, w, v)
  BY <1>1, <1>6, <1>7 DEF Settled
<1> QED
  BY <1>8 DEF v, over

LEMMA CommitHistory ==
  ASSUME HistoryInv, WorkInv', NEW t \in Txns, Commit(t)
  PROVE  HistoryInv'
<1> DEFINE x == Rebased(t)
           b == Built(x.tree)
           new == [tree |-> b, changes |-> x.changes, wrote |-> x.wrote,
                   overText |-> x.overText, overProps |-> x.overProps]
           y == youngest + 1
<1>1. /\ open[t] # None /\ MayMerge(t)
      /\ revision' = [r \in 0..y |-> IF r <= youngest THEN revision[r] ELSE new]
      /\ youngest' = y
      /\ open' = [open EXCEPT ![t] = None]
  BY DEF Commit
<1>2. /\ WorkInv /\ Typed /\ History /\ youngest \in Nat /\ 1 <= youngest
      /\ open \in [Txns -> Transaction \cup {None}]
  BY DEF HistoryInv, WorkInv, Typed, History
<1>3. /\ y \in Nat /\ ~(y <= youngest) /\ youngest <= y /\ y - 1 = youngest
      /\ 1 \in 0..youngest /\ youngest \in 0..youngest
  BY <1>2
<1>4. Sound(x) /\ x \in Transaction /\ Traced(x) /\ x.base = youngest
  BY <1>1, <1>2, RebasedSound, RebasedTraced DEF Sound
<1>5. StepTraced(Tree(youngest), b, x.changes)
  BY <1>2, <1>4, BuiltStep
<1> HIDE DEF x, b
<1>6. /\ new.tree = b /\ new.changes = x.changes
      /\ new.overText = x.overText /\ new.overProps = x.overProps
  OBVIOUS
<1> HIDE DEF new
<1>7. /\ \A r \in 0..youngest : revision'[r] = revision[r]
      /\ revision'[y] = new
  <2>1. \A r \in 0..youngest : r \in 0..y /\ r <= youngest
    BY <1>3
  <2>2. y \in 0..y
    BY <1>3
  <2> HIDE DEF y
  <2> QED
    BY <1>1, <1>3, <2>1, <2>2
<1>8. \A r : /\ r \in 1..y => r = y \/ (r \in 1..youngest /\ r \in 0..youngest /\ r - 1 \in 0..youngest)
             /\ r \in 2..y => r = y \/ (r \in 2..youngest /\ r \in 0..youngest /\ r - 1 \in 0..youngest)
  BY <1>2
<1>9. Keeps
  BY <1>1, <1>2, <1>3, <1>7 DEF Keeps
<1> HIDE DEF y
<1>10. \A r \in 1..y : StepTraced(revision'[r - 1].tree, revision'[r].tree, revision'[r].changes)
  <2>1. ASSUME NEW r \in 1..y, r = y
        PROVE  StepTraced(revision'[r - 1].tree, revision'[r].tree, revision'[r].changes)
    <3>1. r - 1 = youngest /\ revision'[r - 1] = revision[youngest] /\ revision'[r] = new
      BY <1>3, <1>7, <2>1
    <3> QED
      BY <1>5, <1>6, <3>1 DEF Tree
  <2>2. ASSUME NEW r \in 1..y, r # y
        PROVE  StepTraced(revision'[r - 1].tree, revision'[r].tree, revision'[r].changes)
    <3>1. r \in 1..youngest /\ r \in 0..youngest /\ r - 1 \in 0..youngest
      BY <1>8, <2>2
    <3>2. revision'[r] = revision[r] /\ revision'[r - 1] = revision[r - 1]
      BY <1>7, <3>1
    <3>3. StepTraced(Tree(r - 1), Tree(r), revision[r].changes)
      BY <1>2, <3>1 DEF History
    <3> QED
      BY <3>2, <3>3 DEF Tree
  <2> QED
    BY <2>1, <2>2
<1>11. revision'[1] = revision[1]
  BY <1>3, <1>7
\* What the new revision replaces is what the transaction was based on.
<1>12. ASSUME NEW p \in DOMAIN revision'[y].changes \cap DOMAIN revision'[y - 1].tree,
              revision'[y].changes[p].kind = "modify", NEW w \in Fields,
              Part(revision'[y].changes[p], w), p \in DOMAIN Over(revision'[y], w)
       PROVE  \/ Part(revision'[youngest].tree[p], w) = Over(revision'[y], w)[p]
              \/ \E r \in 2..youngest : Unreported(r, p, w)'
  <2>1. revision'[y] = new /\ revision'[y - 1] = revision[youngest]
    BY <1>3, <1>7
  <2>2. Over(new, w) = Over(x, w)
    BY <1>6 DEF Over
  <2>3. /\ p \in DOMAIN x.changes /\ p \in DOMAIN Tree(youngest) /\ x.changes[p].kind = "modify"
        /\ Part(x.changes[p], w) /\ p \in DOMAIN Over(x, w)
    BY <1>6, <1>12, <2>1, <2>2 DEF Tree
  <2>4. Matches(youngest, p, w, Over(x, w)[p])
    BY <1>2, <1>4, <2>3, BuiltOver
  <2> DEFINE v == Over(x, w)[p]
  <2>5. \A k \in 0..youngest : Matches(k, p, w, v) =>
           Part(revision'[k].tree[p], w) = v \/ \E r \in 2..k : Unreported(r, p, w)'
    <3> HIDE DEF v
    <3> QED
      BY <1>9, KeepsMatches DEF Matches, Tree
  <2>6. \/ Part(revision'[youngest].tree[p], w) = v
        \/ \E r \in 2..youngest : Unreported(r, p, w)'
    BY <1>3, <2>4, <2>5
  <2> QED
    BY <2>1, <2>2, <2>6
<1>13. ASSUME NEW r \in 2..y,
              NEW p \in DOMAIN revision'[r].changes \cap DOMAIN revision'[r - 1].tree,
              revision'[r].changes[p].kind = "modify"
       PROVE  /\ revision'[r].changes[p].text /\ p \in DOMAIN revision'[r].overText =>
                    \/ revision'[r - 1].tree[p].text = revision'[r].overText[p]
                    \/ \E q \in 2..(r - 1) : TextUnreported(q, p)'
              /\ revision'[r].changes[p].props /\ p \in DOMAIN revision'[r].overProps =>
                    \/ revision'[r - 1].tree[p].props = revision'[r].overProps[p]
                    \/ \E q \in 2..(r - 1) : PropsUnreported(q, p)'
  <2>1. CASE r = y
    <3>1. r - 1 = youngest
      BY <1>3, <2>1
    <3>2. "text" \in Fields /\ "props" \in Fields
      BY DEF Fields
    <3>3. \A n : /\ Part(n, "text") = n.text /\ Part(n, "props") = n.props
                 /\ Over(n, "text") = n.overText /\ Over(n, "props") = n.overProps
      BY DEF Part, Over
    <3>4. \A q : /\ Unreported(q, p, "text")' <=> TextUnreported(q, p)'
                 /\ Unreported(q, p, "props")' <=> PropsUnreported(q, p)'
      BY DEF Unreported
    <3> QED
      BY <1>12, <1>13, <2>1, <3>1, <3>2, <3>3, <3>4
  <2>2. CASE r # y
    <3>1. r \in 2..youngest /\ r \in 0..youngest /\ r - 1 \in 0..youngest
      BY <1>8, <2>2
    <3>2. revision'[r] = revision[r] /\ revision'[r - 1] = revision[r - 1]
      BY <1>7, <3>1
    <3>3. \A q \in 2..(r - 1) : q \in 0..youngest /\ q - 1 \in 0..youngest
      BY <1>2, <3>1
    <3>4. \A q \in 2..(r - 1) : /\ TextUnreported(q, p) => TextUnreported(q, p)'
                                /\ PropsUnreported(q, p) => PropsUnreported(q, p)'
      BY SMTT(60), <1>7, <3>3 DEF TextUnreported, PropsUnreported, Tree
    <3>5. /\ revision[r].changes[p].text /\ p \in DOMAIN revision[r].overText =>
                \/ Tree(r - 1)[p].text = revision[r].overText[p]
                \/ \E q \in 2..(r - 1) : TextUnreported(q, p)
          /\ revision[r].changes[p].props /\ p \in DOMAIN revision[r].overProps =>
                \/ Tree(r - 1)[p].props = revision[r].overProps[p]
                \/ \E q \in 2..(r - 1) : PropsUnreported(q, p)
      BY SMTT(60), <1>2, <1>13, <3>1, <3>2 DEF History, NoLostUpdate, Tree
    <3> QED
      BY <3>2, <3>4, <3>5 DEF Tree
  <2> QED
    BY <2>1, <2>2
<1>14. NoLostUpdate'
  BY <1>1, <1>13 DEF NoLostUpdate, Tree
<1>15. 1 <= youngest'
  BY <1>1, <1>2 DEF y
<1>16. History'
  BY <1>1, <1>2, <1>10, <1>11, <1>14, <1>15 DEF History, Tree
<1>17. ASSUME NEW u \in Txns, open'[u] # None
       PROVE  Traced(open[u])'
  <2>1. u # t
    BY <1>1, <1>2, <1>17
  <2>2. open'[u] = open[u] /\ open[u] # None
    BY <1>1, <1>2, <1>17, <2>1
  <2> DEFINE z == open[u]
  <2>3. Traced(z) /\ z.base \in 0..youngest /\ open'[u] = z
    BY <1>2, <2>2, TransactionIs DEF HistoryInv
  <2> HIDE DEF z
  <2> QED
    BY <1>9, <2>3, KeepsTraced
<1> QED
  BY <1>16, <1>17 DEF HistoryInv

-----------------------------------------------------------------------------
(***************************************************************************)
(* The invariant, and what it gives.                                       *)
(***************************************************************************)
LEMMA InitialHistory ==
  Init => HistoryInv
<1> SUFFICES ASSUME Init
             PROVE  HistoryInv
  OBVIOUS
<1> DEFINE zero == [p \in {<<>>} |-> Node("dir", p, None)]
           one == [p \in DOMAIN Imported |-> Node(Imported[p], p, Original)]
           ch == [p \in DOMAIN Imported \ {<<>>} |-> Change("add", TRUE, FALSE, None)]
<1>1. /\ youngest = 1 /\ open = [t \in Txns |-> None]
      /\ Tree(0) = zero /\ Tree(1) = one /\ revision[1].changes = ch
  <2>1. /\ revision[0] = [tree |-> zero, changes |-> Nothing, wrote |-> Nothing,
                          overText |-> Nothing, overProps |-> Nothing]
        /\ revision[1] = [tree |-> one, changes |-> ch, wrote |-> Nothing,
                          overText |-> Nothing, overProps |-> Nothing]
    BY DEF Init
  <2>2. youngest = 1 /\ open = [t \in Txns |-> None]
    BY DEF Init
  <2> HIDE DEF zero, one, ch
  <2> QED
    BY <2>1, <2>2 DEF Tree
<1>2. WorkInv
  BY InitialWork
<1>3. /\ \A p : p \in DOMAIN zero <=> p = <<>>
      /\ zero[<<>>].kind = "dir" /\ zero[<<>>].text = None /\ zero[<<>>].props = {}
  BY DEF Node
<1>4. <<>> \in DOMAIN Imported /\ Imported[<<>>] = "dir" /\ DOMAIN Imported \subseteq Paths
  BY PathsAssumption
<1>5. /\ \A p : p \in DOMAIN one <=> p \in DOMAIN Imported
      /\ one[<<>>].kind = "dir" /\ one[<<>>].text = None /\ one[<<>>].props = {}
  BY <1>4 DEF Node
<1>6. /\ \A p : p \in DOMAIN ch <=> p \in DOMAIN Imported /\ p # <<>>
      /\ \A p \in DOMAIN ch : ch[p].kind = "add"
  BY DEF Change
<1> HIDE DEF zero, one, ch
<1>7. ASSUME NEW p \in DOMAIN one, p # <<>>
      PROVE  Renewed(ch, p)
  <2>1. p \in DOMAIN ch /\ Covers(p, p)
    BY <1>5, <1>6, <1>7 DEF Covers
  <2> QED
    BY <1>6, <2>1 DEF Renewed
<1>8. \A s \in DOMAIN ch : s \notin DOMAIN zero
  BY <1>3, <1>6
<1>9. StepTraced(zero, one, ch)
  <2>1. ASSUME NEW p \in DOMAIN zero
        PROVE  p \in DOMAIN one
    BY <1>3, <1>4, <1>5
  <2>2. ASSUME NEW p \in DOMAIN one, ~Renewed(ch, p)
        PROVE  /\ p \in DOMAIN zero /\ one[p].kind = zero[p].kind
               /\ one[p].text = zero[p].text /\ one[p].props = zero[p].props
    <3>1. p = <<>>
      BY <1>7, <2>2
    <3> QED
      BY <1>3, <1>5, <3>1
  <2> QED
    BY <1>8, <2>1, <2>2 DEF StepTraced
<1>10. NoLostUpdate
  <2>1. \A r \in 2..youngest : FALSE
    BY <1>1
  <2> QED
    BY <2>1 DEF NoLostUpdate
<1>11. \A r \in 1..youngest : r = 1 /\ r - 1 = 0
  BY <1>1
<1>12. History
  BY <1>1, <1>6, <1>9, <1>10, <1>11 DEF History
<1> QED
  BY <1>1, <1>2, <1>12 DEF HistoryInv

LEMMA HistoryInductive ==
  HistoryInv /\ [Next]_vars => HistoryInv'
<1> SUFFICES ASSUME HistoryInv, [Next]_vars
             PROVE  HistoryInv'
  OBVIOUS
<1>1. WorkInv'
  <2>1. WorkInv
    BY DEF HistoryInv
  <2> QED
    BY <2>1, WorkInductive
<1>2. CASE UNCHANGED vars
  <2>1. /\ UNCHANGED <<youngest, revision, open>> /\ youngest \in Nat /\ History /\ Typed
    BY <1>2 DEF vars, HistoryInv, WorkInv, Typed
  <2>2. Keeps
    BY <2>1 DEF Keeps
  <2>3. ASSUME NEW u \in Txns, open'[u] # None
        PROVE  Traced(open[u])'
    <3> DEFINE z == open[u]
    <3>1. Traced(z) /\ z.base \in 0..youngest /\ open'[u] = z
      BY <2>1, <2>3, TransactionIs DEF HistoryInv
    <3> HIDE DEF z
    <3> QED
      BY <2>2, <3>1, KeepsTraced
  <2>4. History'
    BY <2>1, SameHistory
  <2> QED
    BY <1>1, <2>3, <2>4 DEF HistoryInv
<1>3. CASE Next
  <2>1. PICK t \in Txns :
          \/ \E r \in 0..youngest : Begin(t, r)
          \/ Abort(t)
          \/ \E p \in Paths :
                \/ \E kind \in Kinds : MakeNode(t, p, kind)
                \/ Delete(t, p)
                \/ ChangeNodeProp(t, p)
                \/ ApplyText(t, p)
                \/ ApplyTextDelta(t, p)
          \/ \E r \in 0..youngest, src \in Paths, dst \in Paths : Copy(t, r, src, dst)
          \/ Commit(t)
          \/ CommitFails(t)
          \/ MergeFails(t)
    BY <1>3 DEF Next
  <2>2. CASE \E r \in 0..youngest : Begin(t, r)
    BY <1>1, <2>2, BeginHistory
  <2>3. CASE Abort(t)
    <3>1. open' = [open EXCEPT ![t] = None] /\ UNCHANGED <<youngest, revision>>
      BY <2>3 DEF Abort
    <3> QED
      BY <1>1, <3>1, OpenHistory
  <2>4. CASE \E p \in Paths : \E kind \in Kinds : MakeNode(t, p, kind)
    BY <1>1, <2>4, MakeNodeHistory
  <2>5. CASE \E p \in Paths : Delete(t, p)
    BY <1>1, <2>5, DeleteHistory
  <2>6. CASE \E p \in Paths : ChangeNodeProp(t, p)
    BY <1>1, <2>6, ChangeNodePropHistory
  <2>7. CASE \E p \in Paths : ApplyText(t, p) \/ ApplyTextDelta(t, p)
    BY <1>1, <2>7, ApplyTextHistory DEF ApplyTextDelta
  <2>8. CASE \E r \in 0..youngest, src \in Paths, dst \in Paths : Copy(t, r, src, dst)
    BY <1>1, <2>8, CopyHistory
  <2>9. CASE Commit(t)
    BY <1>1, <2>9, CommitHistory
  <2>10. CASE CommitFails(t)
    BY <1>1, <2>10, CommitFailsHistory
  <2>11. CASE MergeFails(t)
    BY <1>1, <2>11, MergeFailsHistory
  <2> QED
    BY <2>1, <2>2, <2>3, <2>4, <2>5, <2>6, <2>7, <2>8, <2>9, <2>10, <2>11
<1> QED
  BY <1>2, <1>3

LEMMA HistoryAlways == Spec => []HistoryInv
BY InitialHistory, HistoryInductive, PTL DEF Spec

\* Away from the paths that a revision's changed-paths list covers, its tree is
\* the tree before, whatever revisions its transaction was merged with, failed
\* commits and half-done merges included (mergeYoungest, mergeTxnDirectory,
\* recordChange, Commit).
THEOREM NothingElse == Spec => []NothingElseChanges
<1>1. HistoryInv => NothingElseChanges
  <2> SUFFICES ASSUME HistoryInv, NEW r \in 2..youngest, NEW p \in Paths,
                      \A q \in DOMAIN revision[r].changes : ~Covers(q, p)
               PROVE  /\ p \in DOMAIN Tree(r) <=> p \in DOMAIN Tree(r - 1)
                      /\ p \in DOMAIN Tree(r) =>
                            /\ Tree(r)[p].kind = Tree(r - 1)[p].kind
                            /\ Tree(r)[p].text = Tree(r - 1)[p].text
                            /\ Tree(r)[p].props = Tree(r - 1)[p].props
    BY DEF NothingElseChanges
  <2> DEFINE ch == revision[r].changes
  <2>1. youngest \in Nat
    BY DEF HistoryInv, WorkInv, Typed
  <2>2. r \in 1..youngest
    BY <2>1
  <2>3. StepTraced(Tree(r - 1), Tree(r), ch)
    BY <2>2 DEF HistoryInv, History
  <2>4. ~Renewed(ch, p) /\ ~Removed(ch, p) /\ p \notin DOMAIN ch
    BY DEF Renewed, Removed, Covers
  <2> HIDE DEF ch
  <2> QED
    BY <2>3, <2>4 DEF StepTraced
<1> QED
  BY <1>1, HistoryAlways, PTL

\* When a revision reports that it modified the text or the properties of a
\* path, what it replaces is what its author's transaction was based on,
\* whatever was merged in between, unless an earlier revision changed them
\* without reporting it (changesConflict, mergeYoungest, recordChange).
THEOREM NoUpdateIsLost == Spec => []NoLostUpdate
<1>1. HistoryInv => NoLostUpdate
  BY DEF HistoryInv, History
<1> QED
  BY <1>1, HistoryAlways, PTL
=============================================================================
