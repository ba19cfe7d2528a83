--------------------------- MODULE FsfsStoreProofs ---------------------------
(***************************************************************************)
(* Proofs about FsfsStore for every set of goroutines, paths, changes and  *)
(* tokens and every bound, when no two goroutines that use the repository  *)
(* share a process (the shipped command line tools: one call at a time in  *)
(* each process).  Without that hypothesis the properties are false.       *)
(***************************************************************************)
EXTENDS FsfsStore, TLAPS

\* The hypothesis under which db/write-lock excludes.
OnePerProcess == \A t, u \in Threads : ProcOf[t] = ProcOf[u] => t = u

-----------------------------------------------------------------------------
(***************************************************************************)
(* The inductive invariant                                                 *)
(***************************************************************************)
Reqs == CommitReqs \cup PropReqs \cup LockReqs

CommitLabels == {"merged", "checked", "wroteRev", "wroteProps", "published", "dropped"}

\* Whoever is in the write section holds the lock.
LockHeld == \A t \in Threads : pc[t] \in WriteLabels => writeLock = ProcOf[t]

\* What the arguments of a call and the transaction in hand are at each label.
InHand ==
    \A t \in Threads :
        /\ pc[t] \in WriteLabels \cup {"want"} => req[t] \in Reqs
        /\ pc[t] \in CommitLabels => req[t] \in CommitReqs
        /\ pc[t] = "young" => req[t] \in CommitReqs \cup PropReqs
        /\ pc[t] = "propOk" => req[t] \in PropReqs
        /\ pc[t] \in {"idle", "beginWant", "beginNamed", "beginMade"} => edits[t] = {}
        /\ pc[t] \in {"beginNamed", "beginMade", "open"} => txn[t] \in TxnIds
        /\ pc[t] \in WriteLabels \cup {"want"} /\ req[t] \in CommitReqs => txn[t] \in TxnIds

\* The local variable youngest is not stale while it is used.
YoungFresh ==
    \A t \in Threads :
        /\ pc[t] \in {"young", "merged", "checked", "wroteRev", "wroteProps", "propOk"}
              => young[t] = current
        /\ pc[t] \in {"published", "dropped"} => young[t] + 1 = current
        /\ pc[t] \in {"merged", "checked", "wroteRev", "wroteProps"} => base[t] = young[t]
        /\ pc[t] \in {"wroteRev", "wroteProps"} => young[t] + 1 \in Revs
        /\ pc[t] = "propOk" => req[t].rev <= current

\* What a committer has written so far is still there.
Written ==
    \A t \in Threads :
        /\ pc[t] \in {"wroteRev", "wroteProps"} =>
              revFile[young[t] + 1] = [txn |-> txn[t], edits |-> edits[t], onto |-> base[t]]
        /\ pc[t] = "wroteProps" => revProps[young[t] + 1] = [txn |-> txn[t], val |-> None]
        /\ pc[t] \in {"published", "dropped"} => revFile[young[t] + 1].txn = txn[t]

\* A recorded edit is compatible with all that was committed between what its
\* author saw and the revision its transaction is based on.
EditsClean ==
    \A t \in Threads :
        /\ base[t] <= current
        /\ \A e \in edits[t] :
              /\ e.seen <= base[t]
              /\ \A q \in (e.seen + 1)..base[t] :
                    \A d \in revFile[q].edits : <<e.change, d.change>> \notin Conflict

\* An edit in a revision was made against an older one.
SeenBefore == \A r \in 0..current : \A e \in revFile[r].edits : e.seen < r

IndInv ==
    /\ TypeOK
    /\ LockHeld
    /\ InHand
    /\ YoungFresh
    /\ Written
    /\ EditsClean
    /\ SeenBefore
    /\ RevisionsComplete
    /\ ReturnedDurable
    /\ NoConflictMissed

\* The mutual exclusion db/write-lock gives one goroutine per process.
LEMMA Exclusive ==
    ASSUME OnePerProcess, LockHeld
    PROVE  WriteSerialized
BY DEF OnePerProcess, LockHeld, WriteSerialized

\* A request's kind tells what it is.
LEMMA Kinds ==
    ASSUME NEW q \in Reqs
    PROVE  /\ q.kind = "commit" <=> q \in CommitReqs
           /\ q.kind = "prop" <=> q \in PropReqs
<1>1. q \in CommitReqs => q.kind = "commit"
    BY DEF CommitReqs
<1>2. q \in PropReqs => q.kind = "prop"
    BY DEF PropReqs
<1>3. q \in LockReqs => q.kind \in {"lock", "unlock"}
    BY DEF LockReqs
<1> QED
    BY <1>1, <1>2, <1>3 DEF Reqs

\* The records of the visible revisions.
LEMMA RevTyped ==
    ASSUME DiskType, RevisionsComplete
    PROVE  /\ current \in Nat
           /\ \A r \in 0..current :
                 /\ r \in Revs
                 /\ revFile[r] \in RevRecs
                 /\ revProps[r] \in PropRecs
                 /\ \A e \in revFile[r].edits : e \in Edits /\ e.seen \in Nat
<1> USE ConstAssumption
<1>1. current \in Nat /\ \A r \in 0..current : r \in Revs
    BY DEF DiskType, Revs
<1>2. \A r \in 0..current : revFile[r] \in RevRecs /\ revProps[r] \in PropRecs
    BY <1>1 DEF DiskType, RevisionsComplete
<1>3. \A x \in RevRecs : \A e \in x.edits : e \in Edits
    BY DEF RevRecs
<1>4. \A e \in Edits : e.seen \in Nat
    BY DEF Edits, Revs
<1> QED
    BY <1>1, <1>2, <1>3, <1>4

\* The facts about visible revisions depend on nothing but their files.
LEMMA HistoryFrame ==
    ASSUME SeenBefore, RevisionsComplete, ReturnedDurable, NoConflictMissed,
           UNCHANGED <<current, revFile, revProps, returned>>
    PROVE  SeenBefore' /\ RevisionsComplete' /\ ReturnedDurable' /\ NoConflictMissed'
BY DEF SeenBefore, RevisionsComplete, ReturnedDurable, NoConflictMissed

\* Isolation of the visible revisions depends on nothing but their files.
LEMMA NoConflictFrame ==
    ASSUME DiskType, RevisionsComplete, NoConflictMissed, UNCHANGED current,
           \A r \in 1..current : revFile'[r] = revFile[r]
    PROVE  NoConflictMissed'
<1>1. \A r \in 1..current : \A e \in revFile[r].edits : e.seen \in Nat
    BY RevTyped
<1>2. \A r \in 1..current : \A e \in revFile[r].edits :
          \A q \in (e.seen + 1)..(r - 1) : q \in 1..current
    BY <1>1, RevTyped
<1> QED
    BY <1>2 DEF NoConflictMissed

\* A goroutine leaves the write section, and the revisions up to db/current
\* are what they were but for the value of a property.
LEMMA LeaveInd ==
    ASSUME OnePerProcess, IndInv, NEW t \in Threads, pc[t] \in WriteLabels,
           \/ Return(t)
           \/ Forget(t) /\ writeLock' = Unlocked(t, writeLock) /\ UNCHANGED txnLock,
           DiskType', ReturnedDurable', UNCHANGED current,
           \A r \in 0..current : /\ revFile'[r] = revFile[r]
                                 /\ revProps'[r] # None
                                 /\ revProps'[r].txn = revProps[r].txn
    PROVE  IndInv'
<1> USE ConstAssumption, NoneAssumption DEF IndInv, TypeOK
<1>a. \A u \in Threads : u # t => pc[u] \notin WriteLabels
    BY Exclusive DEF WriteSerialized
<1>b. PICK l \in {"idle", "open"} :
        /\ pc' = [pc EXCEPT ![t] = l]
        /\ l = "idle" => Forget(t)
        /\ l = "open" => /\ req[t].kind = "commit"
                         /\ young' = [young EXCEPT ![t] = 0]
                         /\ req' = [req EXCEPT ![t] = None]
                         /\ UNCHANGED <<txn, base, edits>>
    BY DEF Return, Forget, Goto
<1>c. writeLock' = Unlocked(t, writeLock) /\ txnLock' = txnLock
    BY DEF Return
<1>d. \A u \in Threads : pc'[u] \notin WriteLabels
    BY <1>a, <1>b DEF MemoryType, WriteLabels
<1>e. \A u \in Threads : u # t => UNCHANGED <<pc[u], txn[u], base[u], edits[u], young[u], req[u]>>
    BY <1>b DEF MemoryType, Forget
<1>1. MemoryType'
  <2>1. CASE l = "idle"
      BY <1>b, <1>c, <2>1 DEF MemoryType, Forget, Goto, Unlocked, Labels, Revs
  <2>2. CASE l = "open"
      BY <1>b, <1>c, <2>2 DEF MemoryType, Unlocked, Labels, Revs
  <2> QED
      BY <2>1, <2>2
<1>2. LockHeld'
    BY <1>d DEF LockHeld
<1>3. InHand'
  <2>1. ASSUME NEW u \in Threads, u # t
        PROVE  InHand!(u)'
      BY <1>e, <2>1 DEF InHand
  <2>2. InHand!(t)'
    <3>1. CASE l = "idle"
        BY <1>b, <3>1 DEF InHand, MemoryType, Forget, Goto, WriteLabels, CommitLabels
    <3>2. CASE l = "open"
      <4>1. req[t] \in CommitReqs
          BY <1>b, <3>2, Kinds DEF InHand
      <4> QED
          BY <1>b, <3>2, <4>1 DEF InHand, MemoryType, WriteLabels, CommitLabels
    <3> QED
        BY <3>1, <3>2
  <2> QED
      BY <2>1, <2>2 DEF InHand
<1>4. YoungFresh' /\ Written'
    BY <1>d DEF YoungFresh, Written, WriteLabels
<1>6. EditsClean'
  <2>1. \A u \in Threads : \/ base'[u] = base[u] /\ edits'[u] = edits[u]
                           \/ base'[u] = 0 /\ edits'[u] = {}
      BY <1>b, <1>e DEF Forget, MemoryType
  <2>2. \A u \in Threads : \A e \in edits[u] : e.seen \in Nat /\ base[u] \in Nat
      BY DEF MemoryType, Edits, Revs
  <2>3. current \in Nat
      BY DEF DiskType, Revs
  <2> QED
      BY <2>1, <2>2, <2>3 DEF EditsClean
<1>7. SeenBefore' /\ NoConflictMissed' /\ RevisionsComplete'
  <2>1. current \in Nat
      BY DEF DiskType, Revs
  <2>2. SeenBefore'
      BY DEF SeenBefore
  <2>3. RevisionsComplete'
      BY <2>1 DEF RevisionsComplete
  <2>4. NoConflictMissed'
      BY <2>1, NoConflictFrame
  <2> QED
      BY <2>2, <2>3, <2>4
<1> QED
    BY <1>1, <1>2, <1>3, <1>4, <1>6, <1>7

\* A number returned beside an error promises nothing.
LEMMA ReturnedError ==
    ASSUME IndInv, NEW t \in Threads, returned' = Returned(t, None), UNCHANGED current,
           \A r \in 0..current : revFile'[r] = revFile[r]
    PROVE  returned' \subseteq [txn : TxnIds \cup {None}, rev : Nat] /\ ReturnedDurable'
<1> USE ConstAssumption DEF IndInv, TypeOK
<1>1. young[t] + 1 \in Nat
    BY DEF MemoryType, Revs
<1>2. returned' \subseteq [txn : TxnIds \cup {None}, rev : Nat]
    BY <1>1 DEF DiskType, Returned
<1>3. \A a \in returned' : a.txn # None => a \in returned
    BY DEF Returned
<1>4. \A a \in returned : a.rev \in Nat
    BY DEF DiskType
<1>5. \A a \in returned : a.rev <= current => a.rev \in 0..current
    BY <1>4 DEF DiskType, Revs
<1> QED
    BY <1>2, <1>3, <1>5 DEF ReturnedDurable

\* Choosing a base revision keeps the invariant.
LEMMA BeginTxnInd ==
    ASSUME OnePerProcess, IndInv, NEW t \in Threads, NEW b \in Revs, BeginTxn(t, b)
    PROVE  IndInv'
<1> USE ConstAssumption, NoneAssumption DEF IndInv, disk, memory, BeginTxn, Goto
<1>1. TypeOK'
    BY DEF TypeOK, DiskType, MemoryType, InHand, YoungFresh, Labels, TxnIds, Revs, Edits, RevRecs, PropRecs
<1>2. LockHeld'
    BY DEF TypeOK, MemoryType, LockHeld, WriteLabels, OnePerProcess
<1>3. InHand'
    BY DEF TypeOK, DiskType, MemoryType, InHand, WriteLabels, CommitLabels, TxnIds, Reqs
<1>4. YoungFresh'
    BY DEF TypeOK, DiskType, MemoryType, InHand, YoungFresh, WriteLabels, Revs
<1>5. Written'
    BY DEF TypeOK, DiskType, MemoryType, YoungFresh, Written, WriteLabels, Revs
<1>6. EditsClean'
    BY SMTT(60) DEF TypeOK, DiskType, MemoryType, EditsClean, InHand, YoungFresh, Revs, Edits
<1>7. SeenBefore' /\ RevisionsComplete' /\ ReturnedDurable' /\ NoConflictMissed'
    BY HistoryFrame
<1> QED
    BY <1>1, <1>2, <1>3, <1>4, <1>5, <1>6, <1>7

\* An edit is made against the transaction's base, so nothing lies in between.
LEMMA EditInd ==
    ASSUME OnePerProcess, IndInv, NEW t \in Threads, NEW c \in Changes, Edit(t, c)
    PROVE  IndInv'
<1> USE ConstAssumption, NoneAssumption DEF IndInv, disk, memory, Edit, Edits
<1>1. TypeOK'
    BY SMTT(60) DEF TypeOK, DiskType, MemoryType, InHand, YoungFresh, Labels, TxnIds, Revs, Edits, RevRecs, PropRecs
<1>2. LockHeld'
    BY DEF TypeOK, MemoryType, LockHeld, WriteLabels, OnePerProcess
<1>3. InHand'
    BY DEF TypeOK, DiskType, MemoryType, InHand, WriteLabels, CommitLabels, TxnIds, Reqs
<1>4. YoungFresh'
    BY DEF TypeOK, DiskType, MemoryType, InHand, YoungFresh, WriteLabels, Revs
<1>5. Written'
    BY DEF TypeOK, DiskType, MemoryType, YoungFresh, Written, WriteLabels, Revs
<1>6. EditsClean'
    BY DEF TypeOK, DiskType, MemoryType, EditsClean, InHand, YoungFresh, Revs, Edits
<1>7. SeenBefore' /\ RevisionsComplete' /\ ReturnedDurable' /\ NoConflictMissed'
    BY HistoryFrame
<1> QED
    BY <1>1, <1>2, <1>3, <1>4, <1>5, <1>6, <1>7

\* Giving up before the lock keeps the invariant.
LEMMA BeginCancelledInd ==
    ASSUME OnePerProcess, IndInv, NEW t \in Threads, BeginCancelled(t)
    PROVE  IndInv'
<1> USE ConstAssumption, NoneAssumption DEF IndInv, disk, memory, BeginCancelled, Goto
<1>1. TypeOK'
    BY DEF TypeOK, DiskType, MemoryType, InHand, YoungFresh, Labels, TxnIds, Revs, Edits, RevRecs, PropRecs
<1>2. LockHeld'
    BY DEF TypeOK, MemoryType, LockHeld, WriteLabels, OnePerProcess
<1>3. InHand'
    BY DEF TypeOK, DiskType, MemoryType, InHand, WriteLabels, CommitLabels, TxnIds, Reqs
<1>4. YoungFresh'
    BY DEF TypeOK, DiskType, MemoryType, InHand, YoungFresh, WriteLabels, Revs
<1>5. Written'
    BY DEF TypeOK, DiskType, MemoryType, YoungFresh, Written, WriteLabels, Revs
<1>6. EditsClean'
    BY DEF TypeOK, DiskType, MemoryType, EditsClean, InHand, YoungFresh, Revs, Edits
<1>7. SeenBefore' /\ RevisionsComplete' /\ ReturnedDurable' /\ NoConflictMissed'
    BY HistoryFrame
<1> QED
    BY <1>1, <1>2, <1>3, <1>4, <1>5, <1>6, <1>7

\* Naming the transaction keeps the invariant.
LEMMA ReadTxnCurrentInd ==
    ASSUME OnePerProcess, IndInv, NEW t \in Threads, ReadTxnCurrent(t)
    PROVE  IndInv'
<1> USE ConstAssumption, NoneAssumption DEF IndInv, disk, memory, ReadTxnCurrent, Goto, MayLock
<1>1. TypeOK'
    BY DEF TypeOK, DiskType, MemoryType, InHand, YoungFresh, Labels, TxnIds, Revs, Edits, RevRecs, PropRecs
<1>2. LockHeld'
    BY DEF TypeOK, MemoryType, LockHeld, WriteLabels, OnePerProcess
<1>3. InHand'
    BY DEF TypeOK, DiskType, MemoryType, InHand, WriteLabels, CommitLabels, TxnIds, Reqs
<1>4. YoungFresh'
    BY DEF TypeOK, DiskType, MemoryType, InHand, YoungFresh, WriteLabels, Revs
<1>5. Written'
    BY DEF TypeOK, DiskType, MemoryType, YoungFresh, Written, WriteLabels, Revs
<1>6. EditsClean'
    BY DEF TypeOK, DiskType, MemoryType, EditsClean, InHand, YoungFresh, Revs, Edits
<1>7. SeenBefore' /\ RevisionsComplete' /\ ReturnedDurable' /\ NoConflictMissed'
    BY HistoryFrame
<1> QED
    BY <1>1, <1>2, <1>3, <1>4, <1>5, <1>6, <1>7

\* Making the directory, or failing to, keeps the invariant.
LEMMA CreateTxnInd ==
    ASSUME OnePerProcess, IndInv, NEW t \in Threads, CreateTxn(t)
    PROVE  IndInv'
<1> USE ConstAssumption, NoneAssumption DEF IndInv, disk, memory, CreateTxn, BeginFails, Goto, Unlocked
<1>1. TypeOK'
  <2>1. txn[t] \in TxnIds
      BY DEF InHand
  <2>2. DiskType'
      BY <2>1 DEF TypeOK, DiskType
  <2>3. MemoryType'
      BY <2>1 DEF TypeOK, MemoryType, Labels, Revs
  <2> QED
      BY <2>2, <2>3 DEF TypeOK
<1>2. LockHeld'
    BY DEF TypeOK, MemoryType, LockHeld, WriteLabels, OnePerProcess
<1>3. InHand'
    BY DEF TypeOK, DiskType, MemoryType, InHand, WriteLabels, CommitLabels, TxnIds, Reqs
<1>4. YoungFresh'
    BY DEF TypeOK, DiskType, MemoryType, InHand, YoungFresh, WriteLabels, Revs
<1>5. Written'
    BY SMTT(60) DEF TypeOK, DiskType, MemoryType, YoungFresh, Written, WriteLabels, Revs
<1>6. EditsClean'
    BY DEF TypeOK, DiskType, MemoryType, EditsClean, InHand, YoungFresh, Revs, Edits
<1>7. SeenBefore' /\ RevisionsComplete' /\ ReturnedDurable' /\ NoConflictMissed'
    BY HistoryFrame
<1> QED
    BY <1>1, <1>2, <1>3, <1>4, <1>5, <1>6, <1>7

\* Writing the counter, or failing to, keeps the invariant.
LEMMA BumpTxnCurrentInd ==
    ASSUME OnePerProcess, IndInv, NEW t \in Threads, BumpTxnCurrent(t)
    PROVE  IndInv'
<1> USE ConstAssumption, NoneAssumption DEF IndInv, disk, memory, BumpTxnCurrent, BeginFails, Goto, Unlocked
<1>1. TypeOK'
  <2>1. txn[t] \in TxnIds /\ txn[t][2] + 1 \in Nat
      BY DEF InHand, TxnIds
  <2>2. DiskType'
      BY <2>1 DEF TypeOK, DiskType
  <2>3. MemoryType'
      BY <2>1 DEF TypeOK, MemoryType, Labels, Revs
  <2> QED
      BY <2>2, <2>3 DEF TypeOK
<1>2. LockHeld'
    BY DEF TypeOK, MemoryType, LockHeld, WriteLabels, OnePerProcess
<1>3. InHand'
    BY DEF TypeOK, DiskType, MemoryType, InHand, WriteLabels, CommitLabels, TxnIds, Reqs
<1>4. YoungFresh'
    BY DEF TypeOK, DiskType, MemoryType, InHand, YoungFresh, WriteLabels, Revs
<1>5. Written'
    BY SMTT(60) DEF TypeOK, DiskType, MemoryType, YoungFresh, Written, WriteLabels, Revs
<1>6. EditsClean'
  <2>1. UNCHANGED <<current, revFile, edits>> /\ edits[t] = {} /\ current \in Nat
      BY DEF TypeOK, DiskType, InHand, Revs
  <2>2. \A u \in Threads : base'[u] = base[u] \/ (base'[u] = 0 /\ edits[u] = {})
      BY <2>1 DEF TypeOK, MemoryType
  <2> QED
      BY <2>1, <2>2 DEF EditsClean
<1>7. SeenBefore' /\ RevisionsComplete' /\ ReturnedDurable' /\ NoConflictMissed'
    BY HistoryFrame
<1> QED
    BY <1>1, <1>2, <1>3, <1>4, <1>5, <1>6, <1>7

\* Dropping a transaction keeps the invariant.
LEMMA AbortInd ==
    ASSUME OnePerProcess, IndInv, NEW t \in Threads, Abort(t)
    PROVE  IndInv'
<1> USE ConstAssumption, NoneAssumption DEF IndInv, disk, memory, Abort, Forget, Goto
<1>1. TypeOK'
    BY SMTT(60) DEF TypeOK, DiskType, MemoryType, InHand, YoungFresh, Labels, TxnIds, Revs, Edits, RevRecs, PropRecs
<1>2. LockHeld'
    BY DEF TypeOK, MemoryType, LockHeld, WriteLabels, OnePerProcess
<1>3. InHand'
    BY DEF TypeOK, DiskType, MemoryType, InHand, WriteLabels, CommitLabels, TxnIds, Reqs
<1>4. YoungFresh'
    BY DEF TypeOK, DiskType, MemoryType, InHand, YoungFresh, WriteLabels, Revs
<1>5. Written'
    BY DEF TypeOK, DiskType, MemoryType, YoungFresh, Written, WriteLabels, Revs
<1>6. EditsClean'
    BY DEF TypeOK, DiskType, MemoryType, EditsClean, InHand, YoungFresh, Revs, Edits
<1>7. SeenBefore' /\ RevisionsComplete' /\ ReturnedDurable' /\ NoConflictMissed'
    BY HistoryFrame
<1> QED
    BY <1>1, <1>2, <1>3, <1>4, <1>5, <1>6, <1>7

\* Calling Commit keeps the invariant.
LEMMA CommitCallInd ==
    ASSUME OnePerProcess, IndInv, NEW t \in Threads, NEW q \in CommitReqs, Call(t, "open", q)
    PROVE  IndInv'
<1> USE ConstAssumption, NoneAssumption DEF IndInv, disk, memory, Call, Goto
<1>1. TypeOK'
    BY DEF TypeOK, DiskType, MemoryType, InHand, YoungFresh, Labels, TxnIds, Revs, Edits, RevRecs, PropRecs
<1>2. LockHeld'
    BY DEF TypeOK, MemoryType, LockHeld, WriteLabels, OnePerProcess
<1>3. InHand'
    BY DEF TypeOK, DiskType, MemoryType, InHand, WriteLabels, CommitLabels, TxnIds, Reqs
<1>4. YoungFresh'
    BY DEF TypeOK, DiskType, MemoryType, InHand, YoungFresh, WriteLabels, Revs
<1>5. Written'
    BY DEF TypeOK, DiskType, MemoryType, YoungFresh, Written, WriteLabels, Revs
<1>6. EditsClean'
    BY DEF TypeOK, DiskType, MemoryType, EditsClean, InHand, YoungFresh, Revs, Edits
<1>7. SeenBefore' /\ RevisionsComplete' /\ ReturnedDurable' /\ NoConflictMissed'
    BY HistoryFrame
<1> QED
    BY <1>1, <1>2, <1>3, <1>4, <1>5, <1>6, <1>7

\* Calling ChangeRevisionProp, Lock or Unlock keeps the invariant.
LEMMA PropCallInd ==
    ASSUME OnePerProcess, IndInv, NEW t \in Threads, NEW q \in PropReqs \cup LockReqs, Call(t, "idle", q)
    PROVE  IndInv'
<1> USE ConstAssumption, NoneAssumption DEF IndInv, disk, memory, Call, Goto
<1>1. TypeOK'
    BY DEF TypeOK, DiskType, MemoryType, InHand, YoungFresh, Labels, TxnIds, Revs, Edits, RevRecs, PropRecs
<1>2. LockHeld'
    BY DEF TypeOK, MemoryType, LockHeld, WriteLabels, OnePerProcess
<1>3. InHand'
  <2>1. q \in Reqs /\ q.kind # "commit"
      BY DEF Reqs, PropReqs, LockReqs
  <2>2. q \notin CommitReqs
      BY <2>1, Kinds
  <2> QED
      BY <2>1, <2>2 DEF TypeOK, MemoryType, InHand, WriteLabels, CommitLabels
<1>4. YoungFresh'
    BY DEF TypeOK, DiskType, MemoryType, InHand, YoungFresh, WriteLabels, Revs
<1>5. Written'
    BY DEF TypeOK, DiskType, MemoryType, YoungFresh, Written, WriteLabels, Revs
<1>6. EditsClean'
    BY DEF TypeOK, DiskType, MemoryType, EditsClean, InHand, YoungFresh, Revs, Edits
<1>7. SeenBefore' /\ RevisionsComplete' /\ ReturnedDurable' /\ NoConflictMissed'
    BY HistoryFrame
<1> QED
    BY <1>1, <1>2, <1>3, <1>4, <1>5, <1>6, <1>7

\* The lock is granted to one process, so to one goroutine.
LEMMA AcquireInd ==
    ASSUME OnePerProcess, IndInv, NEW t \in Threads, Acquire(t)
    PROVE  IndInv'
<1> USE ConstAssumption, NoneAssumption DEF IndInv, disk, memory, Acquire, Goto, MayLock
<1>1. TypeOK'
    BY DEF TypeOK, DiskType, MemoryType, InHand, YoungFresh, Labels, TxnIds, Revs, Edits, RevRecs, PropRecs
<1>2. LockHeld'
  <2>1. \A u \in Threads : ProcOf[u] # None
      OBVIOUS
  <2>2. \A u \in Threads : pc[u] \in WriteLabels => ProcOf[u] = ProcOf[t]
      BY <2>1 DEF LockHeld
  <2> QED
      BY <2>2 DEF TypeOK, MemoryType, LockHeld
<1>3. InHand'
    BY DEF TypeOK, DiskType, MemoryType, InHand, WriteLabels, CommitLabels, TxnIds, Reqs
<1>4. YoungFresh'
    BY DEF TypeOK, DiskType, MemoryType, InHand, YoungFresh, WriteLabels, Revs
<1>5. Written'
    BY DEF TypeOK, DiskType, MemoryType, YoungFresh, Written, WriteLabels, Revs
<1>6. EditsClean'
    BY DEF TypeOK, DiskType, MemoryType, EditsClean, InHand, YoungFresh, Revs, Edits
<1>7. SeenBefore' /\ RevisionsComplete' /\ ReturnedDurable' /\ NoConflictMissed'
    BY HistoryFrame
<1> QED
    BY <1>1, <1>2, <1>3, <1>4, <1>5, <1>6, <1>7

\* db/current is read under the lock and cannot go stale.
LEMMA ReadYoungestInd ==
    ASSUME OnePerProcess, IndInv, NEW t \in Threads, ReadYoungest(t)
    PROVE  IndInv'
<1> USE ConstAssumption, NoneAssumption DEF IndInv, disk, memory, ReadYoungest, Goto
<1>a. \A u \in Threads : u # t => pc[u] \notin WriteLabels
    BY Exclusive DEF WriteSerialized, WriteLabels
<1>b. req[t] \in Reqs /\ req[t] \in CommitReqs \cup PropReqs \cup LockReqs
    BY DEF InHand, WriteLabels, Reqs
<1>c. /\ req[t].kind = "commit" <=> req[t] \in CommitReqs
      /\ req[t].kind = "prop" <=> req[t] \in PropReqs
    BY <1>b, Kinds
<1>1. TypeOK'
    BY <1>a, <1>b, <1>c DEF TypeOK, DiskType, MemoryType, InHand, YoungFresh, Labels, TxnIds, Revs, Edits, RevRecs, PropRecs
<1>2. LockHeld'
    BY <1>a, <1>b, <1>c DEF TypeOK, MemoryType, LockHeld, WriteLabels, OnePerProcess
<1>3. InHand'
    BY <1>a, <1>b, <1>c DEF TypeOK, DiskType, MemoryType, InHand, WriteLabels, CommitLabels, TxnIds, Reqs
<1>4. YoungFresh'
    BY <1>a, <1>b, <1>c DEF TypeOK, DiskType, MemoryType, InHand, YoungFresh, WriteLabels, Revs
<1>5. Written'
    BY <1>a, <1>b, <1>c DEF TypeOK, DiskType, MemoryType, YoungFresh, Written, WriteLabels, Revs
<1>6. EditsClean'
    BY <1>a, <1>b, <1>c DEF TypeOK, DiskType, MemoryType, EditsClean, InHand, YoungFresh, Revs, Edits
<1>7. SeenBefore' /\ RevisionsComplete' /\ ReturnedDurable' /\ NoConflictMissed'
    BY HistoryFrame
<1> QED
    BY <1>1, <1>2, <1>3, <1>4, <1>5, <1>6, <1>7

\* The conflict check covers all revisions the transaction had not been checked against.
LEMMA MergeYoungestInd ==
    ASSUME OnePerProcess, IndInv, NEW t \in Threads, MergeYoungest(t)
    PROVE  IndInv'
<1> USE ConstAssumption, NoneAssumption DEF IndInv, disk, memory, Goto
<1>a. \A u \in Threads : u # t => pc[u] \notin WriteLabels
    BY Exclusive DEF MergeYoungest, WriteSerialized, WriteLabels
<1>b. req[t] \in Reqs /\ req[t] \in CommitReqs \cup PropReqs \cup LockReqs
    BY DEF MergeYoungest, InHand, WriteLabels, Reqs
<1>c. /\ req[t].kind = "commit" <=> req[t] \in CommitReqs
      /\ req[t].kind = "prop" <=> req[t] \in PropReqs
    BY <1>b, Kinds
<1>1. CASE /\ pc[t] = "young"
           /\ Return(t)
           /\ UNCHANGED <<disk, returned>>
  <2>1. DiskType'
      BY <1>1 DEF TypeOK, DiskType
  <2>2. \A r \in 0..current : r \in Revs /\ r # young[t] + 1
      BY <1>1 DEF TypeOK, DiskType, MemoryType, YoungFresh, Revs
  <2>3. \A r \in 0..current : /\ revFile'[r] = revFile[r]
                              /\ revProps'[r] # None
                              /\ revProps'[r].txn = revProps[r].txn
      BY <1>1, <2>2 DEF TypeOK, DiskType, RevisionsComplete
  <2>4. ReturnedDurable'
      BY <1>1, <2>3 DEF TypeOK, DiskType, ReturnedDurable, Revs
  <2> QED
      BY <1>1, <2>1, <2>3, <2>4, LeaveInd DEF WriteLabels
<1>2. CASE /\ pc[t] = "young"
           /\ req[t].kind = "commit"
           /\ ~OutOfDate(t)
           /\ base' = [base EXCEPT ![t] = young[t]]
           /\ Goto(t, "merged")
           /\ UNCHANGED <<disk, returned, writeLock, txnLock, txn, edits, young, req>>
  <2>1. TypeOK'
      BY <1>a, <1>b, <1>c, <1>2 DEF TypeOK, DiskType, MemoryType, InHand, YoungFresh, Labels, TxnIds, Revs, Edits, RevRecs, PropRecs
  <2>2. LockHeld'
      BY <1>a, <1>b, <1>c, <1>2 DEF TypeOK, MemoryType, LockHeld, WriteLabels, OnePerProcess
  <2>3. InHand'
      BY <1>a, <1>b, <1>c, <1>2 DEF TypeOK, DiskType, MemoryType, InHand, WriteLabels, CommitLabels, TxnIds, Reqs
  <2>4. YoungFresh'
      BY <1>a, <1>b, <1>c, <1>2 DEF TypeOK, DiskType, MemoryType, InHand, YoungFresh, WriteLabels, Revs
  <2>5. Written'
      BY <1>a, <1>b, <1>c, <1>2 DEF TypeOK, DiskType, MemoryType, YoungFresh, Written, WriteLabels, Revs
  <2>6. EditsClean'
    <3>1. young[t] = current /\ base[t] \in Nat /\ young[t] \in Nat
        BY <1>2 DEF TypeOK, MemoryType, YoungFresh, Revs
    <3>2. ASSUME NEW e \in edits[t]
          PROVE  /\ e.seen <= young[t]
                 /\ \A q \in (e.seen + 1)..young[t] :
                       \A d \in revFile[q].edits : <<e.change, d.change>> \notin Conflict
      <4>1. e.seen \in Nat /\ e.seen <= base[t] /\ base[t] <= current
          BY DEF TypeOK, MemoryType, EditsClean, Edits, Revs
      <4>2. \A q \in (e.seen + 1)..young[t] : q \in (e.seen + 1)..base[t] \/ q \in (base[t] + 1)..young[t]
          BY <3>1, <4>1
      <4>3. \A q \in (base[t] + 1)..young[t] :
                \A d \in revFile[q].edits : <<e.change, d.change>> \notin Conflict
          BY <1>2 DEF OutOfDate
      <4> QED
          BY <3>1, <4>1, <4>2, <4>3 DEF EditsClean
    <3> QED
        BY <1>2, <3>1, <3>2 DEF TypeOK, MemoryType, EditsClean, Revs
  <2>7. SeenBefore' /\ RevisionsComplete' /\ ReturnedDurable' /\ NoConflictMissed'
      BY <1>2, HistoryFrame
  <2> QED
      BY <2>1, <2>2, <2>3, <2>4, <2>5, <2>6, <2>7
<1> QED
    BY <1>1, <1>2 DEF MergeYoungest

\* The lock check changes nothing but the program counter.
LEMMA CheckLocksInd ==
    ASSUME OnePerProcess, IndInv, NEW t \in Threads, CheckLocks(t)
    PROVE  IndInv'
<1> USE ConstAssumption, NoneAssumption DEF IndInv, disk, memory, Goto
<1>a. \A u \in Threads : u # t => pc[u] \notin WriteLabels
    BY Exclusive DEF CheckLocks, WriteSerialized, WriteLabels
<1>b. req[t] \in Reqs /\ req[t] \in CommitReqs \cup PropReqs \cup LockReqs
    BY DEF CheckLocks, InHand, WriteLabels, Reqs
<1>c. /\ req[t].kind = "commit" <=> req[t] \in CommitReqs
      /\ req[t].kind = "prop" <=> req[t] \in PropReqs
    BY <1>b, Kinds
<1>1. CASE /\ pc[t] = "merged"
           /\ Return(t)
           /\ UNCHANGED <<disk, returned>>
  <2>1. DiskType'
      BY <1>1 DEF TypeOK, DiskType
  <2>2. \A r \in 0..current : r \in Revs /\ r # young[t] + 1
      BY <1>1 DEF TypeOK, DiskType, MemoryType, YoungFresh, Revs
  <2>3. \A r \in 0..current : /\ revFile'[r] = revFile[r]
                              /\ revProps'[r] # None
                              /\ revProps'[r].txn = revProps[r].txn
      BY <1>1, <2>2 DEF TypeOK, DiskType, RevisionsComplete
  <2>4. ReturnedDurable'
      BY <1>1, <2>3 DEF TypeOK, DiskType, ReturnedDurable, Revs
  <2> QED
      BY <1>1, <2>1, <2>3, <2>4, LeaveInd DEF WriteLabels
<1>2. CASE /\ pc[t] = "merged"
           /\ Goto(t, "checked")
           /\ UNCHANGED <<disk, returned, writeLock, txnLock, memory>>
  <2>1. TypeOK'
      BY <1>a, <1>b, <1>c, <1>2 DEF TypeOK, DiskType, MemoryType, InHand, YoungFresh, Labels, TxnIds, Revs, Edits, RevRecs, PropRecs
  <2>2. LockHeld'
      BY <1>a, <1>b, <1>c, <1>2 DEF TypeOK, MemoryType, LockHeld, WriteLabels, OnePerProcess
  <2>3. InHand'
      BY <1>a, <1>b, <1>c, <1>2 DEF TypeOK, DiskType, MemoryType, InHand, WriteLabels, CommitLabels, TxnIds, Reqs
  <2>4. YoungFresh'
      BY <1>a, <1>b, <1>c, <1>2 DEF TypeOK, DiskType, MemoryType, InHand, YoungFresh, WriteLabels, Revs
  <2>5. Written'
      BY <1>a, <1>b, <1>c, <1>2 DEF TypeOK, DiskType, MemoryType, YoungFresh, Written, WriteLabels, Revs
  <2>6. EditsClean'
      BY <1>a, <1>b, <1>c, <1>2 DEF TypeOK, DiskType, MemoryType, EditsClean, InHand, YoungFresh, Revs, Edits
  <2>7. SeenBefore' /\ RevisionsComplete' /\ ReturnedDurable' /\ NoConflictMissed'
      BY <1>2, HistoryFrame
  <2> QED
      BY <2>1, <2>2, <2>3, <2>4, <2>5, <2>6, <2>7
<1> QED
    BY <1>1, <1>2 DEF CheckLocks

\* The file written is above db/current, so no visible revision changes.
LEMMA WriteRevFileInd ==
    ASSUME OnePerProcess, IndInv, NEW t \in Threads, WriteRevFile(t)
    PROVE  IndInv'
<1> USE ConstAssumption, NoneAssumption DEF IndInv, disk, memory, WriteRevFile, Goto
<1>a. \A u \in Threads : u # t => pc[u] \notin WriteLabels
    BY Exclusive DEF WriteSerialized, WriteLabels
<1>b. req[t] \in Reqs /\ req[t] \in CommitReqs \cup PropReqs \cup LockReqs
    BY DEF InHand, WriteLabels, Reqs
<1>c. /\ req[t].kind = "commit" <=> req[t] \in CommitReqs
      /\ req[t].kind = "prop" <=> req[t] \in PropReqs
    BY <1>b, Kinds
<1>1. TypeOK'
    BY ZenonT(60), <1>a, <1>b, <1>c DEF TypeOK, DiskType, MemoryType, InHand, YoungFresh, Labels, TxnIds, Revs, Edits, RevRecs, PropRecs
<1>2. LockHeld'
    BY <1>a, <1>b, <1>c DEF TypeOK, MemoryType, LockHeld, WriteLabels, OnePerProcess
<1>3. InHand'
    BY <1>a, <1>b, <1>c DEF TypeOK, DiskType, MemoryType, InHand, WriteLabels, CommitLabels, TxnIds, Reqs
<1>4. YoungFresh'
    BY <1>a, <1>b, <1>c DEF TypeOK, DiskType, MemoryType, InHand, YoungFresh, WriteLabels, Revs
<1>5. Written'
    BY <1>a, <1>b, <1>c DEF TypeOK, DiskType, MemoryType, YoungFresh, Written, WriteLabels, Revs
<1>6. EditsClean'
    BY <1>a, <1>b, <1>c DEF TypeOK, DiskType, MemoryType, EditsClean, InHand, YoungFresh, Revs, Edits
<1>7. SeenBefore'
    BY <1>a, <1>b, <1>c DEF TypeOK, DiskType, MemoryType, YoungFresh, SeenBefore, Revs
<1>8. RevisionsComplete'
    BY <1>a, <1>b, <1>c DEF TypeOK, DiskType, MemoryType, YoungFresh, RevisionsComplete, Revs
<1>9. ReturnedDurable'
    BY <1>a, <1>b, <1>c DEF TypeOK, DiskType, MemoryType, YoungFresh, ReturnedDurable, Revs
<1>10. NoConflictMissed'
  <2>1. current' = current /\ \A r \in 1..current : revFile'[r] = revFile[r]
      BY RevTyped DEF TypeOK, DiskType, MemoryType, YoungFresh, Revs
  <2> QED
      BY <2>1, NoConflictFrame DEF TypeOK
<1> QED
    BY <1>1, <1>2, <1>3, <1>4, <1>5, <1>6, <1>7, <1>8, <1>9, <1>10

\* The revprop file written, or the revision file removed, is above db/current.
LEMMA WriteRevpropsInd ==
    ASSUME OnePerProcess, IndInv, NEW t \in Threads, WriteRevprops(t)
    PROVE  IndInv'
<1> USE ConstAssumption, NoneAssumption DEF IndInv, disk, memory, Goto
<1>a. \A u \in Threads : u # t => pc[u] \notin WriteLabels
    BY Exclusive DEF WriteRevprops, WriteSerialized, WriteLabels
<1>b. req[t] \in Reqs /\ req[t] \in CommitReqs \cup PropReqs \cup LockReqs
    BY DEF WriteRevprops, InHand, WriteLabels, Reqs
<1>c. /\ req[t].kind = "commit" <=> req[t] \in CommitReqs
      /\ req[t].kind = "prop" <=> req[t] \in PropReqs
    BY <1>b, Kinds
<1>1. CASE /\ pc[t] = "wroteRev"
           /\ revFile' \in {revFile, [revFile EXCEPT ![young[t] + 1] = None]}
           /\ Return(t)
           /\ returned' = Returned(t, None)
           /\ UNCHANGED <<current, revProps, txnSeq, txnDirs, pathLocks>>
  <2>2. \A r \in 0..current : r \in Revs /\ r # young[t] + 1
      BY <1>1 DEF TypeOK, DiskType, MemoryType, YoungFresh, Revs
  <2>3. \A r \in 0..current : /\ revFile'[r] = revFile[r]
                              /\ revProps'[r] # None
                              /\ revProps'[r].txn = revProps[r].txn
      BY <1>1, <2>2 DEF TypeOK, DiskType, RevisionsComplete
  <2>4. returned' \subseteq [txn : TxnIds \cup {None}, rev : Nat] /\ ReturnedDurable'
      BY <1>1, <2>3, ReturnedError
  <2>5. DiskType'
      BY <1>1, <2>4 DEF TypeOK, DiskType
  <2> QED
      BY <1>1, <2>3, <2>4, <2>5, LeaveInd DEF WriteLabels
<1>2. CASE /\ pc[t] = "wroteRev"
           /\ txn[t] \in txnDirs
           /\ revProps' = [revProps EXCEPT ![young[t] + 1] = [txn |-> txn[t], val |-> None]]
           /\ Goto(t, "wroteProps")
           /\ UNCHANGED <<current, revFile, txnSeq, txnDirs, pathLocks, writeLock, txnLock, memory, returned>>
  <2>1. TypeOK'
      BY <1>a, <1>b, <1>c, <1>2 DEF TypeOK, DiskType, MemoryType, InHand, YoungFresh, Labels, TxnIds, Revs, Edits, RevRecs, PropRecs
  <2>2. LockHeld'
      BY <1>a, <1>b, <1>c, <1>2 DEF TypeOK, MemoryType, LockHeld, WriteLabels, OnePerProcess
  <2>3. InHand'
      BY <1>a, <1>b, <1>c, <1>2 DEF TypeOK, DiskType, MemoryType, InHand, WriteLabels, CommitLabels, TxnIds, Reqs
  <2>4. YoungFresh'
      BY <1>a, <1>b, <1>c, <1>2 DEF TypeOK, DiskType, MemoryType, InHand, YoungFresh, WriteLabels, Revs
  <2>5. Written'
      BY <1>a, <1>b, <1>c, <1>2 DEF TypeOK, DiskType, MemoryType, YoungFresh, Written, WriteLabels, Revs
  <2>6. EditsClean'
      BY <1>a, <1>b, <1>c, <1>2 DEF TypeOK, DiskType, MemoryType, EditsClean, InHand, YoungFresh, Revs, Edits
  <2>7. SeenBefore'
      BY <1>a, <1>b, <1>c, <1>2 DEF TypeOK, DiskType, MemoryType, YoungFresh, SeenBefore, Revs
  <2>8. RevisionsComplete'
      BY <1>a, <1>b, <1>c, <1>2 DEF TypeOK, DiskType, MemoryType, YoungFresh, RevisionsComplete, Revs
  <2>9. ReturnedDurable'
      BY <1>a, <1>b, <1>c, <1>2 DEF TypeOK, DiskType, MemoryType, YoungFresh, ReturnedDurable, Revs
  <2>10. NoConflictMissed'
      BY <1>a, <1>b, <1>c, <1>2 DEF TypeOK, DiskType, MemoryType, YoungFresh, NoConflictMissed, Revs
  <2> QED
      BY <2>1, <2>2, <2>3, <2>4, <2>5, <2>6, <2>7, <2>8, <2>9, <2>10
<1> QED
    BY <1>1, <1>2 DEF WriteRevprops

\* The revision that becomes visible is complete and isolated.
LEMMA WriteCurrentInd ==
    ASSUME OnePerProcess, IndInv, NEW t \in Threads, WriteCurrent(t)
    PROVE  IndInv'
<1> USE ConstAssumption, NoneAssumption DEF IndInv, disk, memory, Goto
<1>a. \A u \in Threads : u # t => pc[u] \notin WriteLabels
    BY Exclusive DEF WriteCurrent, WriteSerialized, WriteLabels
<1>b. req[t] \in Reqs /\ req[t] \in CommitReqs \cup PropReqs \cup LockReqs
    BY DEF WriteCurrent, InHand, WriteLabels, Reqs
<1>c. /\ req[t].kind = "commit" <=> req[t] \in CommitReqs
      /\ req[t].kind = "prop" <=> req[t] \in PropReqs
    BY <1>b, Kinds
<1>1. CASE /\ pc[t] = "wroteProps"
           /\ revFile' \in {revFile, [revFile EXCEPT ![young[t] + 1] = None]}
           /\ revProps' \in {revProps, [revProps EXCEPT ![young[t] + 1] = None]}
           /\ Return(t)
           /\ returned' = Returned(t, None)
           /\ UNCHANGED <<current, txnSeq, txnDirs, pathLocks>>
  <2>2. \A r \in 0..current : r \in Revs /\ r # young[t] + 1
      BY <1>1 DEF TypeOK, DiskType, MemoryType, YoungFresh, Revs
  <2>3. \A r \in 0..current : /\ revFile'[r] = revFile[r]
                              /\ revProps'[r] # None
                              /\ revProps'[r].txn = revProps[r].txn
      BY <1>1, <2>2 DEF TypeOK, DiskType, RevisionsComplete
  <2>4. returned' \subseteq [txn : TxnIds \cup {None}, rev : Nat] /\ ReturnedDurable'
      BY <1>1, <2>3, ReturnedError
  <2>5. DiskType'
      BY <1>1, <2>4 DEF TypeOK, DiskType
  <2> QED
      BY <1>1, <2>3, <2>4, <2>5, LeaveInd DEF WriteLabels
<1>2. CASE /\ pc[t] = "wroteProps"
           /\ current' = young[t] + 1
           /\ Goto(t, "published")
           /\ UNCHANGED <<revFile, revProps, txnSeq, txnDirs, pathLocks, writeLock, txnLock, memory, returned>>
  <2>1. TypeOK'
      BY <1>a, <1>b, <1>c, <1>2 DEF TypeOK, DiskType, MemoryType, InHand, YoungFresh, Labels, TxnIds, Revs, Edits, RevRecs, PropRecs
  <2>2. LockHeld'
      BY <1>a, <1>b, <1>c, <1>2 DEF TypeOK, MemoryType, LockHeld, WriteLabels, OnePerProcess
  <2>3. InHand'
      BY <1>a, <1>b, <1>c, <1>2 DEF TypeOK, DiskType, MemoryType, InHand, WriteLabels, CommitLabels, TxnIds, Reqs
  <2>4. YoungFresh'
      BY <1>a, <1>b, <1>c, <1>2 DEF TypeOK, DiskType, MemoryType, InHand, YoungFresh, WriteLabels, Revs
  <2>5. Written'
      BY <1>a, <1>b, <1>c, <1>2 DEF TypeOK, DiskType, MemoryType, YoungFresh, Written, WriteLabels, Revs
  <2>6. EditsClean'
      BY <1>a, <1>b, <1>c, <1>2 DEF TypeOK, DiskType, MemoryType, EditsClean, InHand, YoungFresh, Revs, Edits
  <2>7. SeenBefore'
    <3>1. current \in Nat /\ current' = current + 1 /\ young[t] = current /\ base[t] = current
        BY <1>2, RevTyped DEF TypeOK, YoungFresh
    <3>2. revFile[current'] = [txn |-> txn[t], edits |-> edits[t], onto |-> base[t]]
        BY <1>2, <3>1 DEF Written
    <3>3. \A e \in edits[t] : e.seen \in Nat /\ e.seen <= current
        BY <3>1 DEF TypeOK, MemoryType, EditsClean, Edits, Revs
    <3>4. \A e \in edits[t] : e.seen < current'
        BY <3>1, <3>3
    <3>5. \A r \in 0..current' : r \in 0..current \/ r = current'
        BY <3>1
    <3> QED
        BY <1>2, <3>2, <3>4, <3>5 DEF SeenBefore
  <2>8. RevisionsComplete'
    <3>1. current \in Nat /\ current' = current + 1 /\ young[t] = current /\ base[t] = current
        BY <1>2, RevTyped DEF TypeOK, YoungFresh
    <3>2. /\ revFile[current'] = [txn |-> txn[t], edits |-> edits[t], onto |-> base[t]]
          /\ revProps[current'] = [txn |-> txn[t], val |-> None]
        BY <1>2, <3>1 DEF Written
    <3>3. revFile[current'] \in RevRecs /\ revProps[current'] \in PropRecs
      <4>1. txn[t] \in TxnIds /\ edits[t] \subseteq Edits /\ base[t] \in Revs
          BY <1>2, <1>b, <1>c DEF TypeOK, MemoryType, InHand, WriteLabels, CommitLabels
      <4> QED
          BY <3>2, <4>1 DEF RevRecs, PropRecs
    <3>4. revFile[current'] # None /\ revProps[current'] # None
        BY <3>3
    <3>5. revFile[current'].txn = revProps[current'].txn /\ revFile[current'].onto = current' - 1
        BY <3>1, <3>2
    <3>6. \A r \in 0..current' : r \in 0..current \/ r = current'
        BY <3>1
    <3> QED
        BY <1>2, <3>4, <3>5, <3>6 DEF RevisionsComplete
  <2>9. ReturnedDurable'
      BY <1>a, <1>b, <1>c, <1>2 DEF TypeOK, DiskType, MemoryType, YoungFresh, ReturnedDurable, Revs
  <2>10. NoConflictMissed'
    <3>1. current \in Nat /\ current' = current + 1 /\ young[t] = current /\ base[t] = current
        BY <1>2, RevTyped DEF TypeOK, YoungFresh
    <3>2. revFile[current'] = [txn |-> txn[t], edits |-> edits[t], onto |-> base[t]]
        BY <1>2, <3>1 DEF Written
    <3>3. ASSUME NEW r \in 1..current', NEW e \in revFile[r].edits, NEW q \in (e.seen + 1)..(r - 1),
                 NEW d \in revFile[q].edits
          PROVE  <<e.change, d.change>> \notin Conflict
      <4>1. CASE r \in 1..current
          BY <4>1 DEF NoConflictMissed
      <4>2. CASE r = current'
          BY <3>1, <3>2, <4>2 DEF EditsClean
      <4> QED
          BY <3>1, <4>1, <4>2
    <3> QED
        BY <1>2, <3>3 DEF NoConflictMissed
  <2> QED
      BY <2>1, <2>2, <2>3, <2>4, <2>5, <2>6, <2>7, <2>8, <2>9, <2>10
<1> QED
    BY <1>1, <1>2 DEF WriteCurrent

\* Dropping path locks touches no revision.
LEMMA DropLocksInd ==
    ASSUME OnePerProcess, IndInv, NEW t \in Threads, DropLocks(t)
    PROVE  IndInv'
<1> USE ConstAssumption, NoneAssumption DEF IndInv, disk, memory, DropLocks, Goto
<1>a. \A u \in Threads : u # t => pc[u] \notin WriteLabels
    BY Exclusive DEF WriteSerialized, WriteLabels
<1>b. req[t] \in Reqs /\ req[t] \in CommitReqs \cup PropReqs \cup LockReqs
    BY DEF InHand, WriteLabels, Reqs
<1>c. /\ req[t].kind = "commit" <=> req[t] \in CommitReqs
      /\ req[t].kind = "prop" <=> req[t] \in PropReqs
    BY <1>b, Kinds
<1>1. TypeOK'
    BY <1>a, <1>b, <1>c DEF TypeOK, DiskType, MemoryType, InHand, YoungFresh, Labels, TxnIds, Revs, Edits, RevRecs, PropRecs
<1>2. LockHeld'
    BY <1>a, <1>b, <1>c DEF TypeOK, MemoryType, LockHeld, WriteLabels, OnePerProcess
<1>3. InHand'
    BY <1>a, <1>b, <1>c DEF TypeOK, DiskType, MemoryType, InHand, WriteLabels, CommitLabels, TxnIds, Reqs
<1>4. YoungFresh'
    BY <1>a, <1>b, <1>c DEF TypeOK, DiskType, MemoryType, InHand, YoungFresh, WriteLabels, Revs
<1>5. Written'
    BY <1>a, <1>b, <1>c DEF TypeOK, DiskType, MemoryType, YoungFresh, Written, WriteLabels, Revs
<1>6. EditsClean'
    BY <1>a, <1>b, <1>c DEF TypeOK, DiskType, MemoryType, EditsClean, InHand, YoungFresh, Revs, Edits
<1>7. SeenBefore' /\ RevisionsComplete' /\ ReturnedDurable' /\ NoConflictMissed'
    BY HistoryFrame
<1> QED
    BY <1>1, <1>2, <1>3, <1>4, <1>5, <1>6, <1>7

\* The compare step changes nothing but the program counter.
LEMMA CheckRevpropInd ==
    ASSUME OnePerProcess, IndInv, NEW t \in Threads, CheckRevprop(t)
    PROVE  IndInv'
<1> USE ConstAssumption, NoneAssumption DEF IndInv, disk, memory, Goto
<1>a. \A u \in Threads : u # t => pc[u] \notin WriteLabels
    BY Exclusive DEF CheckRevprop, WriteSerialized, WriteLabels
<1>b. req[t] \in Reqs /\ req[t] \in CommitReqs \cup PropReqs \cup LockReqs
    BY DEF CheckRevprop, InHand, WriteLabels, Reqs
<1>c. /\ req[t].kind = "commit" <=> req[t] \in CommitReqs
      /\ req[t].kind = "prop" <=> req[t] \in PropReqs
    BY <1>b, Kinds
<1>1. CASE /\ pc[t] = "young"
           /\ Return(t)
           /\ UNCHANGED <<disk, returned>>
  <2>1. DiskType'
      BY <1>1 DEF TypeOK, DiskType
  <2>2. \A r \in 0..current : r \in Revs /\ r # young[t] + 1
      BY <1>1 DEF TypeOK, DiskType, MemoryType, YoungFresh, Revs
  <2>3. \A r \in 0..current : /\ revFile'[r] = revFile[r]
                              /\ revProps'[r] # None
                              /\ revProps'[r].txn = revProps[r].txn
      BY <1>1, <2>2 DEF TypeOK, DiskType, RevisionsComplete
  <2>4. ReturnedDurable'
      BY <1>1, <2>3 DEF TypeOK, DiskType, ReturnedDurable, Revs
  <2> QED
      BY <1>1, <2>1, <2>3, <2>4, LeaveInd DEF WriteLabels
<1>2. CASE /\ pc[t] = "young"
           /\ req[t].kind = "prop"
           /\ PropAccepted(t)
           /\ Goto(t, "propOk")
           /\ UNCHANGED <<disk, returned, writeLock, txnLock, memory>>
  <2>1. TypeOK'
      BY <1>a, <1>b, <1>c, <1>2 DEF TypeOK, DiskType, MemoryType, InHand, YoungFresh, Labels, TxnIds, Revs, Edits, RevRecs, PropRecs
  <2>2. LockHeld'
      BY <1>a, <1>b, <1>c, <1>2 DEF TypeOK, MemoryType, LockHeld, WriteLabels, OnePerProcess
  <2>3. InHand'
      BY <1>a, <1>b, <1>c, <1>2 DEF TypeOK, DiskType, MemoryType, InHand, WriteLabels, CommitLabels, TxnIds, Reqs
  <2>4. YoungFresh'
      BY <1>a, <1>b, <1>c, <1>2 DEF TypeOK, DiskType, MemoryType, InHand, YoungFresh, WriteLabels, Revs, PropAccepted
  <2>5. Written'
      BY <1>a, <1>b, <1>c, <1>2 DEF TypeOK, DiskType, MemoryType, YoungFresh, Written, WriteLabels, Revs
  <2>6. EditsClean'
      BY <1>a, <1>b, <1>c, <1>2 DEF TypeOK, DiskType, MemoryType, EditsClean, InHand, YoungFresh, Revs, Edits
  <2>7. SeenBefore' /\ RevisionsComplete' /\ ReturnedDurable' /\ NoConflictMissed'
      BY <1>2, HistoryFrame
  <2> QED
      BY <2>1, <2>2, <2>3, <2>4, <2>5, <2>6, <2>7
<1> QED
    BY <1>1, <1>2 DEF CheckRevprop

\* An early error writes nothing.
LEMMA FailEarlyInd ==
    ASSUME OnePerProcess, IndInv, NEW t \in Threads, FailEarly(t)
    PROVE  IndInv'
<1> USE DEF IndInv, disk, FailEarly
<1>1. returned' \subseteq [txn : TxnIds \cup {None}, rev : Nat] /\ ReturnedDurable'
  <2>1. CASE UNCHANGED returned
      BY <2>1 DEF TypeOK, DiskType, ReturnedDurable
  <2>2. CASE returned' = Returned(t, None)
      BY <2>2, ReturnedError
  <2> QED
      BY <2>1, <2>2
<1>2. DiskType'
    BY <1>1 DEF TypeOK, DiskType
<1>3. \A r \in 0..current : revProps[r] # None
    BY DEF RevisionsComplete
<1> QED
    BY <1>1, <1>2, <1>3, LeaveInd DEF WriteLabels

\* What Commit returns at the end is the revision it published.
LEMMA RemoveTxnInd ==
    ASSUME OnePerProcess, IndInv, NEW t \in Threads, RemoveTxn(t)
    PROVE  IndInv'
<1> USE DEF IndInv, RemoveTxn
<1>1. txn[t] \in TxnIds /\ young[t] + 1 = current /\ current \in Revs
    BY DEF TypeOK, DiskType, InHand, YoungFresh, WriteLabels, CommitLabels
<1>2. revFile[current].txn = txn[t]
    BY <1>1 DEF Written
<1>3. \E name \in {None, txn[t]} : returned' = returned \cup {[txn |-> name, rev |-> current]}
    BY <1>1 DEF Returned
<1>4. DiskType'
  <2>1. current \in Nat
      BY <1>1, ConstAssumption DEF Revs
  <2>2. returned' \subseteq [txn : TxnIds \cup {None}, rev : Nat]
      BY <1>1, <1>3, <2>1 DEF TypeOK, DiskType
  <2>3. txnDirs' \subseteq TxnIds
      BY DEF TypeOK, DiskType
  <2> QED
      BY <2>2, <2>3 DEF TypeOK, DiskType
<1>5. ReturnedDurable'
    BY <1>1, <1>2, <1>3 DEF ReturnedDurable, Revs
<1>6. \A r \in 0..current : revProps[r] # None
    BY DEF RevisionsComplete
<1> QED
    BY <1>4, <1>5, <1>6, LeaveInd DEF WriteLabels

\* Only the value in the revprop file of a visible revision changes.
LEMMA WriteRevpropInd ==
    ASSUME OnePerProcess, IndInv, NEW t \in Threads, WriteRevprop(t)
    PROVE  IndInv'
<1> USE NoneAssumption, ConstAssumption DEF IndInv, WriteRevprop
<1>1. req[t] \in PropReqs /\ req[t].rev <= current
    BY DEF InHand, YoungFresh
<1>2. /\ req[t].rev \in Revs /\ req[t].rev \in 0..current
      /\ req[t].new \in Vals \cup {None}
    BY <1>1 DEF PropReqs, TypeOK, DiskType, Revs
<1>3. revProps[req[t].rev] \in PropRecs
    BY <1>2, RevTyped DEF TypeOK
<1>4. ASSUME NEW x \in PropRecs
      PROVE  /\ [x EXCEPT !.val = req[t].new] \in PropRecs
             /\ [x EXCEPT !.val = req[t].new].txn = x.txn
    BY <1>2 DEF PropRecs
<1>5. /\ revProps' \in [Revs -> PropRecs \cup {None}]
      /\ \A r \in 0..current : revProps'[r] # None /\ revProps'[r].txn = revProps[r].txn
  <2>1. CASE revProps' = [revProps EXCEPT ![req[t].rev].val = req[t].new]
    <3>1. revProps' = [revProps EXCEPT ![req[t].rev] = [revProps[req[t].rev] EXCEPT !.val = req[t].new]]
        BY <2>1
    <3>2. \A r \in 0..current : r \in Revs /\ revProps[r] # None
        BY RevTyped DEF TypeOK
    <3> QED
        BY <1>2, <1>3, <1>4, <3>1, <3>2 DEF TypeOK, DiskType
  <2>2. CASE UNCHANGED revProps
      BY <2>2 DEF TypeOK, DiskType, RevisionsComplete
  <2> QED
      BY <2>1, <2>2
<1>6. DiskType' /\ ReturnedDurable'
    BY <1>5 DEF TypeOK, DiskType, ReturnedDurable
<1> QED
    BY <1>5, <1>6, LeaveInd DEF WriteLabels

\* Lock and Unlock touch no revision.
LEMMA ApplyLockInd ==
    ASSUME OnePerProcess, IndInv, NEW t \in Threads, ApplyLock(t)
    PROVE  IndInv'
<1> USE DEF IndInv, ApplyLock
<1>1. req[t] \in Reqs
    BY DEF InHand, WriteLabels
<1>2. req[t] \in LockReqs
    BY <1>1 DEF Reqs, CommitReqs, PropReqs
<1>3. req[t].token \in Tokens
    BY <1>2 DEF LockReqs
<1>4. pathLocks' \in [Paths -> Tokens \cup {None}]
    BY <1>3 DEF TypeOK, DiskType
<1>5. DiskType' /\ ReturnedDurable'
    BY <1>4 DEF TypeOK, DiskType, ReturnedDurable
<1>6. \A r \in 0..current : revProps[r] # None
    BY DEF RevisionsComplete
<1> QED
    BY <1>5, <1>6, LeaveInd DEF WriteLabels

\* A lock that expires touches no revision.
LEMMA ExpireInd ==
    ASSUME IndInv, NEW p \in Paths, Expire(p)
    PROVE  IndInv'
<1> USE DEF IndInv, Expire, memory
<1>1. TypeOK'
    BY DEF TypeOK, DiskType, MemoryType
<1>2. LockHeld' /\ InHand' /\ YoungFresh' /\ Written' /\ EditsClean'
    BY DEF LockHeld, InHand, YoungFresh, Written, EditsClean
<1>3. SeenBefore' /\ RevisionsComplete' /\ ReturnedDurable' /\ NoConflictMissed'
    BY HistoryFrame
<1> QED
    BY <1>1, <1>2, <1>3

\* A dead process leaves the visible revisions as they are.
LEMMA CrashInd ==
    ASSUME IndInv, NEW x \in Procs, Crash(x)
    PROVE  IndInv'
<1> USE ConstAssumption DEF IndInv, Crash, disk
<1>1. DiskType'
    BY DEF TypeOK, DiskType
<1>2. MemoryType'
    BY DEF TypeOK, MemoryType, Labels, Revs
<1>3. LockHeld'
    BY DEF TypeOK, MemoryType, LockHeld, WriteLabels
<1>4. InHand'
    BY DEF TypeOK, MemoryType, InHand, WriteLabels, CommitLabels
<1>5. YoungFresh' /\ Written'
    BY DEF TypeOK, MemoryType, YoungFresh, Written
<1>6. EditsClean'
  <2>1. current \in Nat
      BY DEF TypeOK, DiskType, Revs
  <2> QED
      BY <2>1 DEF EditsClean
<1>7. SeenBefore' /\ RevisionsComplete' /\ ReturnedDurable' /\ NoConflictMissed'
    BY HistoryFrame
<1> QED
    BY <1>1, <1>2, <1>3, <1>4, <1>5, <1>6, <1>7 DEF TypeOK

\* A new repository satisfies the invariant.
LEMMA InitInd == Init => IndInv
<1> SUFFICES ASSUME Init
             PROVE  IndInv
    OBVIOUS
<1> USE ConstAssumption, NoneAssumption DEF Init
<1>1. 0 \in Revs /\ \A r \in 0..0 : r = 0
    BY DEF Revs
<1>2. TypeOK
    BY <1>1 DEF TypeOK, DiskType, MemoryType, Labels, RevRecs, PropRecs
<1>3. LockHeld /\ InHand /\ YoungFresh /\ Written /\ EditsClean
    BY DEF LockHeld, InHand, YoungFresh, Written, EditsClean, WriteLabels, CommitLabels
<1>4. revFile[0] = [txn |-> None, edits |-> {}, onto |-> 0]
      /\ revProps[0] = [txn |-> None, val |-> None]
    BY <1>1
<1>5. revFile[0] # None /\ revProps[0] # None
  <2>1. revFile[0] \in RevRecs /\ revProps[0] \in PropRecs
      BY <1>1, <1>4 DEF RevRecs, PropRecs
  <2> QED
      BY <2>1
<1>6. SeenBefore /\ RevisionsComplete
    BY <1>1, <1>4, <1>5 DEF SeenBefore, RevisionsComplete
<1>7. ReturnedDurable /\ NoConflictMissed
    BY DEF ReturnedDurable, NoConflictMissed
<1> QED
    BY <1>2, <1>3, <1>6, <1>7 DEF IndInv

\* Every step keeps the invariant.
LEMMA StepInd == OnePerProcess /\ IndInv /\ [Next]_vars => IndInv'
<1> SUFFICES ASSUME OnePerProcess, IndInv, [Next]_vars
             PROVE  IndInv'
    OBVIOUS
<1>1. ASSUME NEW t \in Threads, Step(t)
      PROVE  IndInv'
    BY <1>1, ReadTxnCurrentInd, CreateTxnInd, BumpTxnCurrentInd, AcquireInd, ReadYoungestInd,
       MergeYoungestInd, CheckLocksInd, WriteRevFileInd, WriteRevpropsInd, WriteCurrentInd,
       DropLocksInd, RemoveTxnInd, CheckRevpropInd, WriteRevpropInd, ApplyLockInd DEF Step
<1>2. ASSUME NEW t \in Threads, Start(t)
      PROVE  IndInv'
  <2>1. ASSUME Commit(t)
        PROVE  IndInv'
      BY <2>1, CommitCallInd DEF Commit
  <2>2. ASSUME ChangeRevisionProp(t) \/ LockOrUnlock(t)
        PROVE  IndInv'
      BY <2>2, PropCallInd DEF ChangeRevisionProp, LockOrUnlock
  <2> QED
      BY <1>2, <2>1, <2>2, BeginTxnInd, EditInd, AbortInd DEF Start
<1>3. ASSUME NEW t \in Threads, BeginCancelled(t) \/ FailEarly(t)
      PROVE  IndInv'
    BY <1>3, BeginCancelledInd, FailEarlyInd
<1>4. ASSUME NEW x \in Procs, Crash(x)
      PROVE  IndInv'
    BY <1>4, CrashInd
<1>5. ASSUME NEW p \in Paths, Expire(p)
      PROVE  IndInv'
    BY <1>5, ExpireInd
<1>6. CASE UNCHANGED vars
  <2> USE <1>6 DEF vars, disk, memory, IndInv
  <2>1. TypeOK' /\ LockHeld' /\ InHand' /\ YoungFresh' /\ Written' /\ EditsClean'
      BY DEF TypeOK, DiskType, MemoryType, LockHeld, InHand, YoungFresh, Written, EditsClean
  <2>2. SeenBefore' /\ RevisionsComplete' /\ ReturnedDurable' /\ NoConflictMissed'
      BY HistoryFrame
  <2> QED
      BY <2>1, <2>2
<1> QED
    BY <1>1, <1>2, <1>3, <1>4, <1>5, <1>6 DEF Next

-----------------------------------------------------------------------------
(***************************************************************************)
(* Theorems                                                                *)
(***************************************************************************)
\* With one goroutine per process the invariant holds in every state.
LEMMA Invariance == OnePerProcess => (Spec => []IndInv)
<1> DEFINE J == OnePerProcess /\ IndInv
<1>1. OnePerProcess /\ Init => J
    BY InitInd
<1>2. J /\ [Next]_vars => J'
    BY StepInd DEF OnePerProcess
<1>3. J => IndInv
    OBVIOUS
<1> HIDE DEF J
<1> QED
    BY <1>1, <1>2, <1>3, PTL DEF Spec

\* Files, locks and memory keep their types: no commit, failed write or crash
\* leaves a value of another kind behind.
THEOREM TypeCorrect == OnePerProcess => (Spec => []TypeOK)
<1>1. IndInv => TypeOK
    BY DEF IndInv
<1> QED
    BY <1>1, Invariance, PTL

\* With one goroutine in each process db/write-lock serializes what withWriteLock runs.
THEOREM WritesSerialize == OnePerProcess => (Spec => []WriteSerialized)
<1>1. OnePerProcess /\ IndInv => WriteSerialized
    BY Exclusive DEF IndInv
<1>2. OnePerProcess => OnePerProcess'
    BY DEF OnePerProcess
<1> QED
    BY <1>1, <1>2, Invariance, PTL DEF Spec

\* Every revision up to db/current is complete, after any failed write and any
\* crash in Commit.
THEOREM HistoryComplete == OnePerProcess => (Spec => []RevisionsComplete)
<1>1. IndInv => RevisionsComplete
    BY DEF IndInv
<1> QED
    BY <1>1, Invariance, PTL

\* A revision number Commit returned without an error stays its caller's.
THEOREM Durability == OnePerProcess => (Spec => []ReturnedDurable)
<1>1. IndInv => ReturnedDurable
    BY DEF IndInv
<1> QED
    BY <1>1, Invariance, PTL

\* mergeYoungest lets no change through over a conflicting one its author had
\* not seen.
THEOREM Isolation == OnePerProcess => (Spec => []NoConflictMissed)
<1>1. IndInv => NoConflictMissed
    BY DEF IndInv
<1> QED
    BY <1>1, Invariance, PTL

\* An edit of two revisions would conflict with itself.
LEMMA NoRepeat == IndInv => CommittedOnce
<1> SUFFICES ASSUME IndInv, NEW q \in 1..current, NEW r \in 1..current, q < r,
                    NEW e \in revFile[q].edits \cap revFile[r].edits
             PROVE  FALSE
  <2>1. IndInv => current \in Nat
      BY RevTyped DEF IndInv, TypeOK
  <2> QED
      BY <2>1 DEF CommittedOnce
<1>1. current \in Nat /\ e \in Edits /\ e.seen \in Nat
    BY RevTyped DEF IndInv, TypeOK
<1>2. e.seen < q
    BY <1>1 DEF IndInv, SeenBefore
<1>3. q \in (e.seen + 1)..(r - 1)
    BY <1>1, <1>2
<1>4. <<e.change, e.change>> \notin Conflict
    BY <1>3 DEF IndInv, NoConflictMissed
<1>5. e.change \in Changes
    BY <1>1 DEF Edits
<1> QED
    BY <1>4, <1>5, ConstAssumption

\* A retried Commit does not publish an edit twice: the conflict relation is
\* reflexive, so the transaction conflicts with its own revision.
THEOREM NoEditTwice == OnePerProcess => (Spec => []CommittedOnce)
BY NoRepeat, Invariance, PTL

-----------------------------------------------------------------------------
(***************************************************************************)
(* What was checked under the lock still holds when it is acted upon       *)
(***************************************************************************)
CheckedLabels == {"checked", "wroteRev", "wroteProps"}

\* The outcome of CheckLocks, or of CheckRevprop, is not out of date.
CheckStands(t) ==
    /\ pc[t] \in CheckedLabels => ~LockedOut(t)
    /\ pc[t] = "propOk" => PropAccepted(t)

ChecksStand == \A t \in Threads : CheckStands(t)

\* A check stands while its goroutine's memory and the revision properties
\* stay and path locks at most expire.
LEMMA CheckFrame ==
    ASSUME TypeOK, InHand, NEW t \in Threads, CheckStands(t),
           pc'[t] \in CheckedLabels \cup {"propOk"},
           UNCHANGED <<pc[t], edits[t], req[t], young[t], revProps>>,
           \A p \in Paths : pathLocks'[p] \in {pathLocks[p], None}
    PROVE  CheckStands(t)'
<1>1. \A e \in edits[t] : PathOf[e.change] \in Paths
    BY ConstAssumption DEF TypeOK, MemoryType, Edits
<1>2. LockedOut(t)' => LockedOut(t)
    BY <1>1 DEF LockedOut
<1>3. PropAccepted(t) => PropAccepted(t)'
    BY DEF PropAccepted
<1> QED
    BY <1>2, <1>3 DEF CheckStands

\* No step makes a check out of date: path locks and revision properties
\* change only under db/write-lock, but for locks that expire.
LEMMA ChecksInd ==
    ASSUME OnePerProcess, IndInv, ChecksStand, [Next]_vars
    PROVE  ChecksStand'
<1> SUFFICES ASSUME NEW u \in Threads, pc'[u] \in CheckedLabels \cup {"propOk"}
             PROVE  CheckStands(u)'
    BY DEF ChecksStand, CheckStands
<1> USE DEF CheckedLabels
<1>a. TypeOK /\ InHand /\ CheckStands(u) /\ pc \in [Threads -> Labels]
    BY DEF IndInv, TypeOK, MemoryType, ChecksStand
<1>b. ASSUME NEW t \in Threads, t # u, pc'[u] = pc[u]
      PROVE  pc[t] \notin WriteLabels
    BY <1>b, Exclusive DEF IndInv, WriteSerialized, WriteLabels
<1>1. ASSUME NEW t \in Threads, Step(t), t # u
      PROVE  CheckStands(u)'
  <2>1. pc'[u] = pc[u]
      BY <1>1, <1>a DEF Step, ReadTxnCurrent, CreateTxn, BumpTxnCurrent, BeginFails, Acquire,
             ReadYoungest, MergeYoungest, CheckLocks, WriteRevFile, WriteRevprops, WriteCurrent,
             DropLocks, RemoveTxn, CheckRevprop, WriteRevprop, ApplyLock, Return, Forget, Goto
  <2>2. ReadTxnCurrent(t) \/ CreateTxn(t) \/ BumpTxnCurrent(t) \/ Acquire(t)
      BY <1>1, <1>b, <2>1 DEF Step, WriteLabels, ReadYoungest, MergeYoungest, CheckLocks,
             WriteRevFile, WriteRevprops, WriteCurrent, DropLocks, RemoveTxn, CheckRevprop,
             WriteRevprop, ApplyLock
  <2>3. UNCHANGED <<edits, req, young, revProps, pathLocks>>
      BY <2>2 DEF ReadTxnCurrent, CreateTxn, BumpTxnCurrent, Acquire, disk, memory
  <2> QED
      BY SMTT(60), <1>a, <2>1, <2>3, CheckFrame
<1>2. ASSUME Step(u)
      PROVE  CheckStands(u)'
  <2>1. CheckLocks(u) \/ WriteRevFile(u) \/ WriteRevprops(u) \/ CheckRevprop(u)
      BY <1>2, <1>a DEF Step, ReadTxnCurrent, CreateTxn, BumpTxnCurrent, BeginFails, Acquire,
             ReadYoungest, MergeYoungest, WriteCurrent,
             DropLocks, RemoveTxn, WriteRevprop, ApplyLock, Return, Forget, Goto
  <2>2. CASE CheckLocks(u)
    <3>1. pc'[u] = "checked" /\ ~LockedOut(u) /\ UNCHANGED <<pathLocks, edits, req>>
        BY <2>2, <1>a DEF CheckLocks, Return, Forget, Goto, disk, memory
    <3> QED
        BY <3>1 DEF CheckStands, LockedOut
  <2>3. CASE WriteRevFile(u) \/ WriteRevprops(u)
    <3>1. /\ pc[u] \in CheckedLabels /\ pc'[u] \in CheckedLabels
          /\ UNCHANGED <<pathLocks, edits, req>>
        BY <2>3, <1>a DEF WriteRevFile, WriteRevprops, Return, Forget, Goto, memory
    <3> QED
        BY <1>a, <3>1 DEF CheckStands, LockedOut
  <2>4. CASE CheckRevprop(u)
    <3>1. pc'[u] = "propOk" /\ PropAccepted(u) /\ UNCHANGED <<revProps, young, req>>
        BY <2>4, <1>a DEF CheckRevprop, Return, Forget, Goto, disk, memory
    <3> QED
        BY <3>1 DEF CheckStands, PropAccepted
  <2> QED
      BY SMTT(60), <2>1, <2>2, <2>3, <2>4
<1>3. ASSUME NEW t \in Threads, Start(t) \/ BeginCancelled(t) \/ FailEarly(t)
      PROVE  CheckStands(u)'
  <2>1. t # u /\ pc'[u] = pc[u]
      BY <1>3, <1>a DEF Start, BeginTxn, Edit, Abort, Commit, ChangeRevisionProp, LockOrUnlock,
             Call, BeginCancelled, FailEarly, Return, Forget, Goto
  <2>2. UNCHANGED <<edits[u], req[u], young[u], revProps, pathLocks>>
      BY <1>3, <1>a, <2>1 DEF TypeOK, MemoryType, Start, BeginTxn, Edit, Abort, Commit,
             ChangeRevisionProp, LockOrUnlock, Call, BeginCancelled, FailEarly, Return, Forget,
             disk, memory
  <2> QED
      BY <1>a, <2>1, <2>2, CheckFrame
<1>4. ASSUME NEW x \in Procs, Crash(x)
      PROVE  CheckStands(u)'
  <2>1. ProcOf[u] # x
      BY <1>4 DEF Crash
  <2>2. UNCHANGED <<pc[u], edits[u], req[u], young[u], revProps, pathLocks>>
      BY <1>4, <1>a, <2>1 DEF Crash, TypeOK, MemoryType, disk
  <2> QED
      BY <1>a, <2>2, CheckFrame
<1>5. ASSUME NEW p \in Paths, Expire(p)
      PROVE  CheckStands(u)'
  <2>1. \A q \in Paths : pathLocks'[q] \in {pathLocks[q], None}
      BY <1>5, <1>a DEF Expire, TypeOK, DiskType
  <2> QED
      BY <1>5, <1>a, <2>1, CheckFrame DEF Expire, memory
<1>6. CASE UNCHANGED vars
    BY <1>6, <1>a, CheckFrame DEF vars, disk, memory
<1> QED
    BY <1>1, <1>2, <1>3, <1>4, <1>5, <1>6 DEF Next

\* The checks stand in every state.
LEMMA ChecksAlwaysStand == OnePerProcess => (Spec => []ChecksStand)
<1> DEFINE J == OnePerProcess /\ IndInv /\ ChecksStand
<1>1. OnePerProcess /\ Init => J
    BY InitInd DEF Init, ChecksStand, CheckStands, CheckedLabels
<1>2. J /\ [Next]_vars => J'
    BY StepInd, ChecksInd DEF OnePerProcess
<1>3. J => ChecksStand
    OBVIOUS
<1> HIDE DEF J
<1> QED
    BY <1>1, <1>2, <1>3, PTL DEF Spec

\* Commit publishes no change to a path that is locked against it: between
\* checkCommitLocks and the rename of db/current nobody takes or steals a lock.
THEOREM LocksHonoured == OnePerProcess => (Spec => LocksRespected)
<1> DEFINE A == \A t \in Threads : pc[t] = "wroteProps" /\ pc'[t] = "published" => ~LockedOut(t)
<1>1. ChecksStand => A
    BY DEF ChecksStand, CheckStands, CheckedLabels
<1>2. ChecksStand /\ [Next]_vars => [A]_vars
    BY <1>1
<1> HIDE DEF A
<1>3. OnePerProcess => (Spec => [][A]_vars)
    BY <1>2, ChecksAlwaysStand, PTL DEF Spec
<1> QED
    BY <1>3 DEF A, LocksRespected

\* ChangeRevisionProp replaces no value but the one its caller expected, in
\* every interleaving with other calls and with commits.
THEOREM PropSwap == OnePerProcess => (Spec => RevpropSwap)
<1> DEFINE A == \A t \in Threads :
                    /\ pc[t] = "propOk"
                    /\ revProps'[req[t].rev] # revProps[req[t].rev]
                    /\ req[t].old # DontCare
                    => revProps[req[t].rev].val = req[t].old
<1>1. ChecksStand => A
    BY DEF ChecksStand, CheckStands, PropAccepted
<1>2. ChecksStand /\ [Next]_vars => [A]_vars
    BY <1>1
<1> HIDE DEF A
<1>3. OnePerProcess => (Spec => [][A]_vars)
    BY <1>2, ChecksAlwaysStand, PTL DEF Spec
<1> QED
    BY <1>3 DEF A, RevpropSwap

-----------------------------------------------------------------------------
(***************************************************************************)
(* Refinement: the files implement the abstract history                    *)
(***************************************************************************)
\* A step that keeps db/current and the files up to it is a stutter.
LEMMA Quiet ==
    ASSUME UNCHANGED current,
           \A r \in 0..current : revFile'[r] = revFile[r] /\ revProps'[r] = revProps[r]
    PROVE  UNCHANGED <<current, Visible>>
BY DEF Visible

\* Renaming db/current into place appends one revision.
LEMMA PublishIsCommit ==
    ASSUME OnePerProcess, IndInv, IndInv', NEW t \in Threads, pc[t] = "wroteProps",
           current' = young[t] + 1, UNCHANGED <<revFile, revProps>>
    PROVE  History!HCommit
<1>1. current \in Nat /\ current' = current + 1 /\ young[t] = current
    BY RevTyped DEF IndInv, TypeOK, YoungFresh
<1>2. \A r \in 0..current : r \in 0..current'
    BY <1>1
<1>3. DOMAIN Visible' = 0..current'
    BY DEF Visible
<1>4. \A r \in 0..current : Visible'[r] = Visible[r]
    BY <1>1, <1>2 DEF Visible
<1>5. current' \in 0..current' /\ current' \in 1..current'
    BY <1>1
<1>6. Visible'[current'] = [txn |-> revFile[current'].txn, edits |-> revFile[current'].edits,
                            val |-> revProps[current'].val]
    BY <1>5 DEF Visible
<1>a. /\ revFile[current'] = [txn |-> txn[t], edits |-> edits[t], onto |-> base[t]]
      /\ revProps[current'] = [txn |-> txn[t], val |-> None]
    BY <1>1 DEF IndInv, Written
<1>7. Visible'[current'].val = None
    BY <1>6, <1>a
<1>8. ASSUME NEW e \in Visible'[current'].edits, NEW q \in (e.seen + 1)..current,
             NEW d \in Visible[q].edits
      PROVE  <<e.change, d.change>> \notin Conflict
  <2>1. e \in revFile'[current'].edits /\ q \in (e.seen + 1)..(current' - 1)
      BY <1>1, <1>6
  <2>2. e.seen \in Nat
      BY <1>a, <2>1 DEF IndInv, TypeOK, MemoryType, Edits, Revs
  <2>3. q \in 0..current
      BY <1>1, <2>2
  <2>4. d \in revFile'[q].edits
      BY <2>3 DEF Visible
  <2> QED
      BY <1>5, <2>1, <2>4 DEF IndInv, NoConflictMissed
<1>9. ASSUME NEW q \in 1..current, Visible[q].txn = Visible'[current'].txn
      PROVE  Visible[q].edits \cap Visible'[current'].edits = {}
  <2>1. q \in 0..current /\ q \in 1..current' /\ q # current'
      BY <1>1
  <2>2. IndInv' => CommittedOnce'
      BY NoRepeat, PTL
  <2> QED
      BY <1>5, <1>6, <1>9, <2>1, <2>2 DEF CommittedOnce, Visible
<1>10. History!MayFollow(Visible'[current'])
    BY <1>7, <1>8, <1>9 DEF History!MayFollow
<1> QED
    BY <1>1, <1>3, <1>4, <1>10 DEF History!HCommit

\* Every step of the files is a step of the history or a stutter.
LEMMA StepRefines ==
    ASSUME OnePerProcess, IndInv, IndInv', [Next]_vars
    PROVE  [History!HNext]_<<current, Visible>>
<1> DEFINE Same == UNCHANGED <<current, revFile, revProps>>
<1>1. Same => UNCHANGED <<current, Visible>>
    BY Quiet
<1>2. ASSUME NEW t \in Threads, Step(t)
      PROVE  [History!HNext]_<<current, Visible>>
  <2>0. \A r \in 0..current : young[t] = current => r # young[t] + 1
      BY RevTyped DEF IndInv, TypeOK
  <2>1. CASE WriteRevFile(t)
    <3>1. young[t] = current
        BY <2>1 DEF WriteRevFile, IndInv, YoungFresh
    <3>2. \A r \in 0..current : revFile'[r] = revFile[r]
        BY <2>0, <2>1, <3>1, RevTyped DEF WriteRevFile, IndInv, TypeOK, DiskType
    <3> QED
        BY <2>1, <3>2, Quiet DEF WriteRevFile
  <2>2. CASE WriteRevprops(t)
    <3>1. young[t] = current
        BY <2>2 DEF WriteRevprops, IndInv, YoungFresh
    <3>2. \A r \in 0..current : revFile'[r] = revFile[r] /\ revProps'[r] = revProps[r]
        BY <2>0, <2>2, <3>1, RevTyped DEF WriteRevprops, IndInv, TypeOK, DiskType
    <3> QED
        BY <2>2, <3>2, Quiet DEF WriteRevprops
  <2>3. CASE WriteCurrent(t)
    <3>1. young[t] = current
        BY <2>3 DEF WriteCurrent, IndInv, YoungFresh
    <3>2. CASE current' = young[t] + 1
        BY <2>3, <3>1, <3>2, PublishIsCommit, RevTyped
           DEF WriteCurrent, History!HNext, IndInv, TypeOK
    <3>3. CASE UNCHANGED current
      <4>1. \A r \in 0..current : revFile'[r] = revFile[r] /\ revProps'[r] = revProps[r]
          BY <2>0, <2>3, <3>1, <3>3, RevTyped DEF WriteCurrent, IndInv, TypeOK, DiskType
      <4> QED
          BY <3>3, <4>1, Quiet
    <3> QED
        BY <2>3, <3>2, <3>3 DEF WriteCurrent
  <2>4. CASE WriteRevprop(t)
    <3>1. req[t] \in PropReqs /\ req[t].rev <= current
        BY <2>4 DEF WriteRevprop, IndInv, InHand, YoungFresh
    <3>2. req[t].rev \in 0..current
        BY <3>1 DEF PropReqs, IndInv, TypeOK, DiskType, Revs
    <3>3. CASE UNCHANGED revProps
        BY <1>1, <2>4, <3>3 DEF WriteRevprop
    <3>4. CASE revProps' = [revProps EXCEPT ![req[t].rev].val = req[t].new]
      <4>1. UNCHANGED <<current, revFile>>
          BY <2>4 DEF WriteRevprop
      <4>2. \A r \in (0..current) \ {req[t].rev} : revProps'[r] = revProps[r]
          BY <3>4, RevTyped DEF IndInv, TypeOK, DiskType
      <4>3. /\ DOMAIN Visible' = 0..current
            /\ \A q \in (0..current) \ {req[t].rev} : Visible'[q] = Visible[q]
            /\ Visible'[req[t].rev].txn = Visible[req[t].rev].txn
            /\ Visible'[req[t].rev].edits = Visible[req[t].rev].edits
          BY <3>2, <4>1, <4>2 DEF Visible
      <4> QED
          BY <3>2, <4>1, <4>3 DEF History!HSetProp, History!HNext
    <3> QED
        BY <2>4, <3>3, <3>4 DEF WriteRevprop
  <2>5. CASE ReadTxnCurrent(t) \/ CreateTxn(t) \/ BumpTxnCurrent(t) \/ Acquire(t) \/ ReadYoungest(t)
      BY <1>1, <2>5 DEF ReadTxnCurrent, CreateTxn, BumpTxnCurrent, Acquire, ReadYoungest, disk
  <2>6. CASE MergeYoungest(t) \/ CheckLocks(t) \/ DropLocks(t) \/ RemoveTxn(t) \/ CheckRevprop(t)
             \/ ApplyLock(t)
      BY <1>1, <2>6 DEF MergeYoungest, CheckLocks, DropLocks, RemoveTxn, CheckRevprop, ApplyLock, disk
  <2> QED
      BY <1>2, <2>1, <2>2, <2>3, <2>4, <2>5, <2>6 DEF Step
<1>3. ASSUME NEW t \in Threads, Start(t) \/ BeginCancelled(t) \/ FailEarly(t)
      PROVE  Same
    BY <1>3 DEF Start, BeginTxn, Edit, Abort, Commit, ChangeRevisionProp, LockOrUnlock, Call,
                BeginCancelled, FailEarly, disk
<1>4. ASSUME NEW x \in Procs, Crash(x)
      PROVE  Same
    BY <1>4 DEF Crash, disk
<1>5. ASSUME NEW p \in Paths, Expire(p)
      PROVE  Same
    BY <1>5 DEF Expire
<1>6. CASE UNCHANGED vars
    BY <1>1, <1>6 DEF vars, disk
<1> QED
    BY <1>1, <1>2, <1>3, <1>4, <1>5, <1>6 DEF Next

\* A new repository is an empty history.
LEMMA InitRefines == Init => History!HInit
<1> SUFFICES ASSUME Init
             PROVE  History!HInit
    OBVIOUS
<1>1. 0..0 = {0} /\ 0 \in Revs
    BY ConstAssumption DEF Revs
<1>2. /\ revFile[0] = [txn |-> None, edits |-> {}, onto |-> 0]
      /\ revProps[0] = [txn |-> None, val |-> None]
    BY <1>1 DEF Init
<1>3. Visible = [r \in {0} |-> [txn |-> None, edits |-> {}, val |-> None]]
    BY <1>1, <1>2 DEF Visible, Init
<1> QED
    BY <1>3 DEF Init, History!HInit, History!Empty

\* The FSFS files implement the abstract history: revisions appear whole and
\* in order, without a missed conflict or a repeated edit, and stay.
THEOREM Refinement == OnePerProcess => (Spec => IsHistory)
<1>1. OnePerProcess /\ IndInv /\ IndInv' /\ [Next]_vars => [History!HNext]_(History!hvars)
    BY StepRefines DEF History!hvars
<1>2. OnePerProcess => OnePerProcess'
    BY DEF OnePerProcess
<1> QED
    BY <1>1, <1>2, Invariance, InitRefines, PTL DEF Spec, IsHistory, History!HSpec
==============================================================================
