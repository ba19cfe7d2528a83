------------------------------ MODULE FsfsStore ------------------------------
(***************************************************************************)
(* The on-disk protocol of fs/fsfs: how goroutines of several processes    *)
(* create transactions (BeginTxn), commit them as new revisions (Commit),  *)
(* abort them, change revision properties (ChangeRevisionProp) and take or *)
(* drop path locks (Lock, Unlock), with db/write-lock and                  *)
(* db/txn-current-lock as the only coordination.                           *)
(*                                                                         *)
(* One action is one file-system operation that another process, or a      *)
(* crash, can observe: reading db/current, renaming a revision file into   *)
(* place, renaming a revprop file, renaming db/current, removing the       *)
(* transaction directory.  Every write may fail, with the clean-up the     *)
(* code does then, and a process may die between any two actions.          *)
(*                                                                         *)
(* Abstracted: a tree edit is a member of Changes (one entry of the        *)
(* changed-paths list), and changesConflict is the relation Conflict;      *)
(* module FsfsMerge has both in detail.  A path's lock is its token.       *)
(***************************************************************************)
EXTENDS Naturals, FiniteSets

CONSTANTS
    Threads,    \* goroutines that call into fs/fsfs
    Procs,      \* operating-system processes
    ProcOf,     \* the process each goroutine belongs to
    Paths,      \* repository paths
    Changes,    \* changed-path entries
    PathOf,     \* the path of an entry
    Conflict,   \* <<local, upstream>> pairs changesConflict rejects
    Tokens,     \* path-lock tokens
    Vals,       \* values of the revision property under change
    None,       \* absence: no file, no lock, no value
    DontCare,   \* a caller of ChangeRevisionProp that does not compare
    MaxRev,     \* bound: revisions the model can hold
    MaxTxn      \* bound: transaction numbers handed out

Revs == 0..MaxRev

\* A transaction's name, "<base>-<sequence>".
TxnIds == Revs \X Nat

\* A recorded change, with the base revision its author saw (history only).
Edits == [change : Changes, seen : Revs]

\* A revision file: which transaction wrote it, its changed paths, and the
\* revision whose tree the written tree was merged with.
RevRecs == [txn : TxnIds \cup {None}, edits : SUBSET Edits, onto : Revs]

PropRecs == [txn : TxnIds \cup {None}, val : Vals \cup {None}]

CommitReqs == [kind : {"commit"}, tokens : [Paths -> Tokens \cup {None}], keep : BOOLEAN]

\* old = DontCare stands for the flag dontCare.
PropReqs == [kind : {"prop"}, rev : Revs, old : Vals \cup {None, DontCare}, new : Vals \cup {None}]

LockReqs == [kind : {"lock", "unlock"}, path : Paths, token : Tokens, force : BOOLEAN]

ASSUME ConstAssumption ==
    /\ ProcOf \in [Threads -> Procs]
    /\ PathOf \in [Changes -> Paths]
    /\ Conflict \subseteq Changes \X Changes
    /\ \A c \in Changes : <<c, c>> \in Conflict
    /\ MaxRev \in Nat
    /\ MaxTxn \in Nat

ASSUME NoneAssumption ==
    /\ None \notin Procs \cup Tokens \cup Vals \cup TxnIds \cup RevRecs \cup PropRecs
                   \cup CommitReqs \cup PropReqs \cup LockReqs
    /\ DontCare \notin Vals \cup {None}

VARIABLES
    \* ---- the repository directory
    current,    \* db/current
    revFile,    \* db/revs/<shard>/<r>
    revProps,   \* db/revprops/<shard>/<r>
    txnSeq,     \* db/txn-current
    txnDirs,    \* db/transactions/*.txn with their protorevs
    pathLocks,  \* db/locks
    \* ---- advisory file locks, each owned by a process
    writeLock,  \* db/write-lock
    txnLock,    \* db/txn-current-lock
    \* ---- goroutine memory
    pc,         \* where the goroutine is
    txn,        \* Transaction.name
    base,       \* Transaction.base
    edits,      \* Transaction.changes
    young,      \* the local variable youngest
    req,        \* arguments of the call in progress
    \* ---- history
    returned    \* the numbers Commit has returned, for which transaction or beside an error

disk == <<current, revFile, revProps, txnSeq, txnDirs, pathLocks>>
memory == <<txn, base, edits, young, req>>
vars == <<disk, writeLock, txnLock, pc, memory, returned>>

Init ==
    /\ current = 0
    /\ revFile = [r \in Revs |-> IF r = 0 THEN [txn |-> None, edits |-> {}, onto |-> 0] ELSE None]
    /\ revProps = [r \in Revs |-> IF r = 0 THEN [txn |-> None, val |-> None] ELSE None]
    /\ txnSeq = 0
    /\ txnDirs = {}
    /\ pathLocks = [p \in Paths |-> None]
    /\ writeLock = None
    /\ txnLock = None
    /\ pc = [t \in Threads |-> "idle"]
    /\ txn = [t \in Threads |-> None]
    /\ base = [t \in Threads |-> 0]
    /\ edits = [t \in Threads |-> {}]
    /\ young = [t \in Threads |-> 0]
    /\ req = [t \in Threads |-> None]
    /\ returned = {}

Goto(t, l) == pc' = [pc EXCEPT ![t] = l]

\* How many goroutines are at one of the labels L (for the bounds).
Busy(L) == Cardinality({t \in Threads : pc[t] \in L})

(***************************************************************************)
(* withWriteLock: fcntl(F_SETLKW) grants a lock the caller's own process   *)
(* already holds, and fcntl(F_UNLCK), or closing any descriptor of the     *)
(* file, drops the process's lock whichever goroutine took it.             *)
(***************************************************************************)
MayLock(t, lock) == lock \in {None, ProcOf[t]}

\* Mutant: the deferred unlock is missing.
NotUnlocked(t, lock) == lock

Unlocked(t, lock) == IF lock = ProcOf[t] THEN None ELSE lock

(***************************************************************************)
(* BeginTxn                                                                *)
(***************************************************************************)
\* Mutant: the transaction starts one revision too high.
BeginTxnHigh(t, b) ==
    /\ pc[t] = "idle"
    /\ b <= current
    /\ txnSeq + Busy({"beginWant", "beginNamed", "beginMade"}) < MaxTxn
    /\ base' = [base EXCEPT ![t] = b + 1]
    /\ Goto(t, "beginWant")
    /\ UNCHANGED <<disk, writeLock, txnLock, txn, edits, young, req, returned>>

\* The check of base against youngest, before any lock is taken.
BeginTxn(t, b) ==
    /\ pc[t] = "idle"
    /\ b <= current
    /\ txnSeq + Busy({"beginWant", "beginNamed", "beginMade"}) < MaxTxn     \* bound
    /\ base' = [base EXCEPT ![t] = b]
    /\ Goto(t, "beginWant")
    /\ UNCHANGED <<disk, writeLock, txnLock, txn, edits, young, req, returned>>

\* txn-current-lock is granted and txn-current read; the name is now fixed.
ReadTxnCurrent(t) ==
    /\ pc[t] = "beginWant"
    /\ MayLock(t, txnLock)
    /\ txnLock' = ProcOf[t]
    /\ txn' = [txn EXCEPT ![t] = <<base[t], txnSeq>>]
    /\ Goto(t, "beginNamed")
    /\ UNCHANGED <<disk, writeLock, base, edits, young, req, returned>>

BeginFails(t) ==
    /\ txnLock' = Unlocked(t, txnLock)
    /\ txn' = [txn EXCEPT ![t] = None]
    /\ base' = [base EXCEPT ![t] = 0]
    /\ Goto(t, "idle")

\* The context is cancelled while BeginTxn waits for the lock.
BeginCancelled(t) ==
    /\ pc[t] = "beginWant"
    /\ base' = [base EXCEPT ![t] = 0]
    /\ Goto(t, "idle")
    /\ UNCHANGED <<disk, writeLock, txnLock, txn, edits, young, req, returned>>

\* Transaction.create.  Mkdir refuses an existing directory; a later failure
\* removes what was made; a context cancelled by the end leaves it all behind.
CreateTxn(t) ==
    /\ pc[t] = "beginNamed"
    /\ \/ /\ txn[t] \in txnDirs
          /\ BeginFails(t)
          /\ UNCHANGED txnDirs
       \/ /\ txn[t] \notin txnDirs
          /\ txnDirs' = txnDirs \cup {txn[t]}
          /\ \/ /\ Goto(t, "beginMade")
                /\ UNCHANGED <<txnLock, txn, base>>
             \/ BeginFails(t)
       \/ /\ txn[t] \notin txnDirs
          /\ BeginFails(t)
          /\ UNCHANGED txnDirs
    /\ UNCHANGED <<current, revFile, revProps, txnSeq, pathLocks, writeLock, edits, young, req,
                   returned>>

\* txn-current takes the next number, or cannot be written.
BumpTxnCurrent(t) ==
    /\ pc[t] = "beginMade"
    /\ \/ /\ txnSeq' = txn[t][2] + 1
          /\ txnLock' = Unlocked(t, txnLock)
          /\ Goto(t, "open")
          /\ UNCHANGED <<txnDirs, txn, base>>
       \/ /\ txnDirs' = txnDirs \ {txn[t]}
          /\ BeginFails(t)
          /\ UNCHANGED txnSeq
    /\ UNCHANGED <<current, revFile, revProps, pathLocks, writeLock, edits, young, req, returned>>

(***************************************************************************)
(* An open transaction                                                     *)
(***************************************************************************)
\* One tree operation on the transaction root.  Operations that change a
\* path a second time are in FsfsMerge (recordChange).
Edit(t, c) ==
    /\ pc[t] = "open"
    /\ \A e \in edits[t] : PathOf[e.change] # PathOf[c]
    /\ edits' = [edits EXCEPT ![t] = @ \cup {[change |-> c, seen |-> base[t]]}]
    /\ UNCHANGED <<disk, writeLock, txnLock, pc, txn, base, young, req, returned>>

Forget(t) ==
    /\ txn' = [txn EXCEPT ![t] = None]
    /\ base' = [base EXCEPT ![t] = 0]
    /\ edits' = [edits EXCEPT ![t] = {}]
    /\ young' = [young EXCEPT ![t] = 0]
    /\ req' = [req EXCEPT ![t] = None]
    /\ Goto(t, "idle")

\* Abort removes the directory and the protorev; when it cannot, and when the
\* caller drops a transaction whose Commit failed, they stay behind.
Abort(t) ==
    /\ pc[t] = "open"
    /\ txnDirs' \in {txnDirs, txnDirs \ {txn[t]}}
    /\ Forget(t)
    /\ UNCHANGED <<current, revFile, revProps, txnSeq, pathLocks, writeLock, txnLock, returned>>

(***************************************************************************)
(* Calls that run under db/write-lock                                      *)
(***************************************************************************)
Call(t, from, q) ==
    /\ pc[t] = from
    /\ req' = [req EXCEPT ![t] = q]
    /\ Goto(t, "want")
    /\ UNCHANGED <<disk, writeLock, txnLock, txn, base, edits, young, returned>>

Commit(t) ==
    /\ current + Cardinality({u \in Threads : req[u] \in CommitReqs}) < MaxRev     \* bound
    /\ \E q \in CommitReqs : Call(t, "open", q)

ChangeRevisionProp(t) == \E q \in PropReqs : Call(t, "idle", q)

LockOrUnlock(t) == \E q \in LockReqs : Call(t, "idle", q)

Acquire(t) ==
    /\ pc[t] = "want"
    /\ MayLock(t, writeLock)
    /\ writeLock' = ProcOf[t]
    /\ Goto(t, "held")
    /\ UNCHANGED <<disk, txnLock, memory, returned>>

\* withWriteLock returns: the deferred unlock, and the goroutine is back with
\* its open transaction (Commit failed) or with nothing in hand.
Return(t) ==
    /\ writeLock' = Unlocked(t, writeLock)
    /\ IF req[t].kind = "commit"
       THEN /\ Goto(t, "open")
            /\ young' = [young EXCEPT ![t] = 0]
            /\ req' = [req EXCEPT ![t] = None]
            /\ UNCHANGED <<txn, base, edits>>
       ELSE Forget(t)
    /\ UNCHANGED txnLock

\* Commit sets its result when the locks are checked, before the revision is
\* built, and returns it whatever happens next; before that it returns no number.
\* Of a number returned beside an error only the number is kept.
Returned(t, name) == returned \cup {[txn |-> name, rev |-> young[t] + 1]}

\* An error before anything was written: the context is cancelled, or a file
\* cannot be read or a temporary file cannot be made.
FailEarly(t) ==
    /\ \/ /\ pc[t] \in {"held", "young", "merged"}
          /\ UNCHANGED returned
       \/ /\ pc[t] = "checked"
          /\ returned' = Returned(t, None)
    /\ Return(t)
    /\ UNCHANGED disk

ReadYoungest(t) ==
    /\ pc[t] = "held"
    /\ req[t].kind \in {"commit", "prop"}
    /\ young' = [young EXCEPT ![t] = current]
    /\ Goto(t, "young")
    /\ UNCHANGED <<disk, writeLock, txnLock, txn, base, edits, req, returned>>

(***************************************************************************)
(* Commit                                                                  *)
(***************************************************************************)
\* Mutant: the first revision after the base is not looked at.
OutOfDateFromSecond(t) ==
    \E e \in edits[t], r \in (base[t] + 2)..young[t] :
        \E d \in revFile[r].edits : <<e.change, d.change>> \in Conflict

\* Mutant: the youngest revision is not looked at.
OutOfDateToLast(t) ==
    \E e \in edits[t], r \in (base[t] + 1)..young[t] :
        r < young[t] /\ \E d \in revFile[r].edits : <<e.change, d.change>> \in Conflict

\* Some recorded change conflicts with one committed after the base.
OutOfDate(t) ==
    \E e \in edits[t], r \in (base[t] + 1)..young[t] :
        \E d \in revFile[r].edits : <<e.change, d.change>> \in Conflict

\* mergeYoungest: a conflict fails the commit; otherwise the transaction is
\* rebased in memory, and stays rebased whatever happens next.
MergeYoungest(t) ==
    /\ pc[t] = "young"
    /\ req[t].kind = "commit"
    /\ \/ /\ OutOfDate(t)
          /\ Return(t)
       \/ /\ ~OutOfDate(t)
          /\ base' = [base EXCEPT ![t] = young[t]]
          /\ Goto(t, "merged")
          /\ UNCHANGED <<writeLock, txnLock, txn, edits, young, req>>
    /\ UNCHANGED <<disk, returned>>

\* A changed path is locked, and the caller did not present its token.
LockedOut(t) ==
    \E e \in edits[t] :
        LET p == PathOf[e.change] IN pathLocks[p] \notin {None, req[t].tokens[p]}

\* Mutant: a commit that presents no token is not checked.
CheckLocksLax(t) ==
    /\ pc[t] = "merged"
    /\ \/ /\ LockedOut(t) /\ \E p \in Paths : req[t].tokens[p] # None
          /\ Return(t)
       \/ /\ ~LockedOut(t) \/ \A p \in Paths : req[t].tokens[p] = None
          /\ Goto(t, "checked")
          /\ UNCHANGED <<writeLock, txnLock, memory>>
    /\ UNCHANGED <<disk, returned>>

CheckLocks(t) ==
    /\ pc[t] = "merged"
    /\ \/ /\ LockedOut(t)
          /\ Return(t)
       \/ /\ ~LockedOut(t)
          /\ Goto(t, "checked")
          /\ UNCHANGED <<writeLock, txnLock, memory>>
    /\ UNCHANGED <<disk, returned>>

\* Mutant: the file of the youngest revision is written instead of the next.
WriteRevFileYoungest(t) ==
    /\ pc[t] = "checked"
    /\ young[t] < MaxRev
    /\ revFile' = [revFile EXCEPT ![young[t]] =
                        [txn |-> txn[t], edits |-> edits[t], onto |-> base[t]]]
    /\ Goto(t, "wroteRev")
    /\ UNCHANGED <<current, revProps, txnSeq, txnDirs, pathLocks, writeLock, txnLock, memory,
                   returned>>

\* The revision file is renamed into place, over a leftover of an earlier
\* commit that died if there is one.
WriteRevFile(t) ==
    /\ pc[t] = "checked"
    /\ young[t] < MaxRev                            \* bound
    /\ revFile' = [revFile EXCEPT ![young[t] + 1] =
                        [txn |-> txn[t], edits |-> edits[t], onto |-> base[t]]]
    /\ Goto(t, "wroteRev")
    /\ UNCHANGED <<current, revProps, txnSeq, txnDirs, pathLocks, writeLock, txnLock, memory,
                   returned>>

\* The transaction's properties become the revision's, or they are unreadable
\* or cannot be written and the revision file is removed again, if it can be.
WriteRevprops(t) ==
    /\ pc[t] = "wroteRev"
    /\ \/ /\ txn[t] \in txnDirs
          /\ revProps' = [revProps EXCEPT ![young[t] + 1] = [txn |-> txn[t], val |-> None]]
          /\ Goto(t, "wroteProps")
          /\ UNCHANGED <<revFile, writeLock, txnLock, memory, returned>>
       \/ /\ revFile' \in {revFile, [revFile EXCEPT ![young[t] + 1] = None]}
          /\ returned' = Returned(t, None)
          /\ Return(t)
          /\ UNCHANGED revProps
    /\ UNCHANGED <<current, txnSeq, txnDirs, pathLocks>>

\* Mutant: the clean-up after a failed rename removes the wrong revprop file.
WriteCurrentCleansYoungest(t) ==
    /\ pc[t] = "wroteProps"
    /\ \/ /\ current' = young[t] + 1
          /\ Goto(t, "published")
          /\ UNCHANGED <<revFile, revProps, writeLock, txnLock, memory, returned>>
       \/ /\ revFile' = [revFile EXCEPT ![young[t] + 1] = None]
          /\ revProps' = [revProps EXCEPT ![young[t]] = None]
          /\ returned' = Returned(t, None)
          /\ Return(t)
          /\ UNCHANGED current
    /\ UNCHANGED <<txnSeq, txnDirs, pathLocks>>

\* Renaming db/current makes the revision visible; failing, both files are
\* removed, each if it can be.
WriteCurrent(t) ==
    /\ pc[t] = "wroteProps"
    /\ \/ /\ current' = young[t] + 1
          /\ Goto(t, "published")
          /\ UNCHANGED <<revFile, revProps, writeLock, txnLock, memory, returned>>
       \/ /\ revFile' \in {revFile, [revFile EXCEPT ![young[t] + 1] = None]}
          /\ revProps' \in {revProps, [revProps EXCEPT ![young[t] + 1] = None]}
          /\ returned' = Returned(t, None)
          /\ Return(t)
          /\ UNCHANGED current
    /\ UNCHANGED <<txnSeq, txnDirs, pathLocks>>

\* Without keepLocks, the locks whose tokens were presented for changed paths
\* are removed, as far as their files can be removed.
DropLocks(t) ==
    /\ pc[t] = "published"
    /\ \E drop \in SUBSET {p \in Paths : /\ ~req[t].keep
                                        /\ \E e \in edits[t] : PathOf[e.change] = p
                                        /\ pathLocks[p] = req[t].tokens[p]} :
          pathLocks' = [p \in Paths |-> IF p \in drop THEN None ELSE pathLocks[p]]
    /\ Goto(t, "dropped")
    /\ UNCHANGED <<current, revFile, revProps, txnSeq, txnDirs, writeLock, txnLock, memory,
                   returned>>

\* Mutant: Commit returns the revision it merged with.
RemoveTxnReturnsYoungest(t) ==
    /\ pc[t] = "dropped"
    /\ returned' = returned \cup {[txn |-> txn[t], rev |-> young[t]]}
    /\ txnDirs' = txnDirs \ {txn[t]}
    /\ Forget(t)
    /\ writeLock' = Unlocked(t, writeLock)
    /\ UNCHANGED <<current, revFile, revProps, txnSeq, pathLocks, txnLock>>

\* removeData, then the lock is released.  When the directory or the protorev
\* lock cannot be removed the committed revision is returned with an error,
\* and the caller still holds the transaction.
RemoveTxn(t) ==
    /\ pc[t] = "dropped"
    /\ \/ /\ txnDirs' = txnDirs \ {txn[t]}
          /\ returned' = Returned(t, txn[t])
          /\ Forget(t)
          /\ writeLock' = Unlocked(t, writeLock)
          /\ UNCHANGED txnLock
       \/ /\ Return(t)
          /\ returned' = Returned(t, None)
          /\ txnDirs' \in {txnDirs, txnDirs \ {txn[t]}}
    /\ UNCHANGED <<current, revFile, revProps, txnSeq, pathLocks>>

(***************************************************************************)
(* ChangeRevisionProp, Lock, Unlock                                        *)
(***************************************************************************)
\* Mutant: the value is replaced without comparing it.
PropAcceptedBlindly(t) == req[t].rev <= young[t]

\* The revision exists, and the property has the value the caller saw.
PropAccepted(t) ==
    /\ req[t].rev <= young[t]
    /\ req[t].old \in {DontCare, revProps[req[t].rev].val}

CheckRevprop(t) ==
    /\ pc[t] = "young"
    /\ req[t].kind = "prop"
    /\ \/ /\ ~PropAccepted(t)
          /\ Return(t)
       \/ /\ PropAccepted(t)
          /\ Goto(t, "propOk")
          /\ UNCHANGED <<writeLock, txnLock, memory>>
    /\ UNCHANGED <<disk, returned>>

WriteRevprop(t) ==
    /\ pc[t] = "propOk"
    /\ \/ revProps' = [revProps EXCEPT ![req[t].rev].val = req[t].new]
       \/ UNCHANGED revProps                        \* the rename failed
    /\ Return(t)
    /\ UNCHANGED <<current, revFile, txnSeq, txnDirs, pathLocks, returned>>

\* Lock writes the lock file unless the path is locked and steal is not set;
\* Unlock removes it when it exists and the token is right or breakLock set.
ApplyLock(t) ==
    /\ pc[t] = "held"
    /\ req[t].kind \in {"lock", "unlock"}
    /\ LET p == req[t].path IN
       IF req[t].kind = "lock"
       THEN pathLocks' = IF pathLocks[p] = None \/ req[t].force
                         THEN [pathLocks EXCEPT ![p] = req[t].token] ELSE pathLocks
       ELSE pathLocks' = IF req[t].force \/ pathLocks[p] = req[t].token
                         THEN [pathLocks EXCEPT ![p] = None] ELSE pathLocks
    /\ Return(t)
    /\ UNCHANGED <<current, revFile, revProps, txnSeq, txnDirs, returned>>

(***************************************************************************)
(* The environment                                                         *)
(***************************************************************************)
\* A lock's expiration date passes: GetLock no longer reports it.
Expire(p) ==
    /\ pathLocks[p] # None
    /\ pathLocks' = [pathLocks EXCEPT ![p] = None]
    /\ UNCHANGED <<current, revFile, revProps, txnSeq, txnDirs, writeLock, txnLock, pc, memory,
                   returned>>

\* A process dies: its goroutines are gone, the kernel drops its locks, the
\* files stay as they are.
Crash(x) ==
    /\ \E t \in Threads : ProcOf[t] = x /\ pc[t] # "idle"
    /\ pc' = [t \in Threads |-> IF ProcOf[t] = x THEN "idle" ELSE pc[t]]
    /\ txn' = [t \in Threads |-> IF ProcOf[t] = x THEN None ELSE txn[t]]
    /\ base' = [t \in Threads |-> IF ProcOf[t] = x THEN 0 ELSE base[t]]
    /\ edits' = [t \in Threads |-> IF ProcOf[t] = x THEN {} ELSE edits[t]]
    /\ young' = [t \in Threads |-> IF ProcOf[t] = x THEN 0 ELSE young[t]]
    /\ req' = [t \in Threads |-> IF ProcOf[t] = x THEN None ELSE req[t]]
    /\ writeLock' = IF writeLock = x THEN None ELSE writeLock
    /\ txnLock' = IF txnLock = x THEN None ELSE txnLock
    /\ UNCHANGED <<disk, returned>>

\* What a goroutine does once it is inside a call.
Step(t) ==
    \/ ReadTxnCurrent(t) \/ CreateTxn(t) \/ BumpTxnCurrent(t)
    \/ Acquire(t) \/ ReadYoungest(t)
    \/ MergeYoungest(t) \/ CheckLocks(t) \/ WriteRevFile(t) \/ WriteRevprops(t)
    \/ WriteCurrent(t) \/ DropLocks(t) \/ RemoveTxn(t)
    \/ CheckRevprop(t) \/ WriteRevprop(t) \/ ApplyLock(t)

\* The calls its caller may make.
Start(t) ==
    \/ \E b \in Revs : BeginTxn(t, b)
    \/ \E c \in Changes : Edit(t, c)
    \/ Abort(t) \/ Commit(t) \/ ChangeRevisionProp(t) \/ LockOrUnlock(t)

Next ==
    \/ \E t \in Threads : Step(t) \/ Start(t) \/ BeginCancelled(t) \/ FailEarly(t)
    \/ \E x \in Procs : Crash(x)
    \/ \E p \in Paths : Expire(p)

Spec == Init /\ [][Next]_vars

\* A goroutine inside a call keeps running, and the kernel does not pass over
\* a blocked fcntl(F_SETLKW) for ever.  Callers, faults and crashes are free.
Fairness ==
    \A t \in Threads :
        /\ WF_vars(Step(t))
        /\ SF_vars(Acquire(t))
        /\ SF_vars(ReadTxnCurrent(t))

FairSpec == Spec /\ Fairness
-----------------------------------------------------------------------------
(***************************************************************************)
(* Properties                                                              *)
(***************************************************************************)
Labels ==
    {"idle", "beginWant", "beginNamed", "beginMade", "open", "want", "held", "young", "merged",
     "checked", "wroteRev", "wroteProps", "published", "dropped", "propOk"}

\* Labels inside the function withWriteLock runs on db/write-lock.
WriteLabels ==
    {"held", "young", "merged", "checked", "wroteRev", "wroteProps", "published", "dropped",
     "propOk"}

DiskType ==
    /\ current \in Revs
    /\ revFile \in [Revs -> RevRecs \cup {None}]
    /\ revProps \in [Revs -> PropRecs \cup {None}]
    /\ txnSeq \in Nat
    /\ txnDirs \subseteq TxnIds
    /\ pathLocks \in [Paths -> Tokens \cup {None}]
    /\ returned \subseteq [txn : TxnIds \cup {None}, rev : Nat]

MemoryType ==
    /\ writeLock \in Procs \cup {None}
    /\ txnLock \in Procs \cup {None}
    /\ pc \in [Threads -> Labels]
    /\ txn \in [Threads -> TxnIds \cup {None}]
    /\ base \in [Threads -> Revs]
    /\ edits \in [Threads -> SUBSET Edits]
    /\ young \in [Threads -> Revs]
    /\ req \in [Threads -> CommitReqs \cup PropReqs \cup LockReqs \cup {None}]

\* Type invariant of the repository files, the locks and goroutine memory.
TypeOK == DiskType /\ MemoryType

\* "Writes serialize on the FSFS write-lock": no two goroutines are inside
\* withWriteLock on db/write-lock at once.  It holds for goroutines of different
\* processes; two of one process are both granted the fcntl lock.
WriteSerialized ==
    \A t, u \in Threads : pc[t] \in WriteLabels /\ pc[u] \in WriteLabels => t = u

\* Whatever writes failed and whichever processes died, every revision up to
\* db/current has its revision file and its revprop file, both written by the
\* same transaction, and its tree was merged with the one just before it.
RevisionsComplete ==
    \A r \in 0..current :
        /\ revFile[r] # None
        /\ revProps[r] # None
        /\ revFile[r].txn = revProps[r].txn
        /\ r > 0 => revFile[r].onto = r - 1

\* A revision number that Commit returns without an error names the caller's
\* transaction for ever: it is visible, and no later commit takes it over, not
\* even when earlier commits were told the same number beside an error.  Beside
\* an error the number says nothing: it may be the caller's revision, or nobody's,
\* or become another transaction's.
ReturnedDurable ==
    \A a \in returned : a.txn # None => a.rev <= current /\ revFile[a.rev].txn = a.txn

\* First committer wins: nothing committed between the revision an author saw
\* and the revision that carries the edit conflicts with the edit, across
\* merges, failed commits, retries and edits made after a retry.
NoConflictMissed ==
    \A r \in 1..current :
        \A e \in revFile[r].edits :
            \A q \in (e.seen + 1)..(r - 1) :
                \A d \in revFile[q].edits : <<e.change, d.change>> \notin Conflict

\* No edit of a transaction lands in two revisions, also when Commit is
\* retried after it reported an error for a revision that was published.
CommittedOnce ==
    \A q, r \in 1..current :
        revFile[q].txn = revFile[r].txn /\ revFile[q].edits \cap revFile[r].edits # {} => q = r

\* When db/current moves on, no changed path carries a lock whose token the
\* committer did not present: none was taken or stolen since the check.
LocksRespected ==
    [][\A t \in Threads :
            pc[t] = "wroteProps" /\ pc'[t] = "published" => ~LockedOut(t)]_vars

\* ChangeRevisionProp is a compare-and-swap: unless told not to care it only
\* replaces the value its caller expected.
RevpropSwap ==
    [][\A t \in Threads :
            /\ pc[t] = "propOk"
            /\ revProps'[req[t].rev] # revProps[req[t].rev]
            /\ req[t].old # DontCare
            => revProps[req[t].rev].val = req[t].old]_vars

\* Every call ends: no failure path keeps db/write-lock or txn-current-lock.
CallsReturn ==
    \A t \in Threads : pc[t] \notin {"idle", "open"} ~> pc[t] \in {"idle", "open"}

\* The history the repository files stand for: the revisions up to db/current,
\* with the edits of the revision file and the value of the revprop file.
Visible ==
    [r \in 0..current |->
        [txn |-> revFile[r].txn, edits |-> revFile[r].edits, val |-> revProps[r].val]]

History == INSTANCE RepoHistory WITH youngest <- current, revision <- Visible

\* Every behaviour of the files is a behaviour of the abstract history: a
\* revision appears whole and at once, after the youngest, with no conflict
\* missed and no edit repeated, and never changes or goes away.
IsHistory == History!HSpec
==============================================================================
