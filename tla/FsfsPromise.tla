----------------------------- MODULE FsfsPromise -----------------------------
(***************************************************************************)
(* The tree operations and the merge of FsfsMerge against the promise of   *)
(* fs.FS in RepoHistory, which the files of FsfsStore also keep.  FsfsStore *)
(* takes for granted that changesConflict is a relation under which a      *)
(* change excludes itself, and that an edit is checked against everything  *)
(* committed since its author looked; here both are what recordChange,     *)
(* changesConflict and the rebasing of failed commits really do.           *)
(*                                                                         *)
(* Two history variables are added to FsfsMerge.  They follow from the     *)
(* steps, and no guard reads them.                                         *)
(***************************************************************************)
EXTENDS FsfsMerge

VARIABLES
    seen,       \* Txns -> for each changed path, the base its record was made against
    landed      \* 0..youngest -> the same for each path the revision changed

promiseVars == <<vars, seen, landed>>

\* What open[t] has recorded for p has not changed in this step.
SameRecord(t, p) ==
    /\ open[t] # None
    /\ p \in DOMAIN open[t].changes
    /\ open'[t].changes[p] = open[t].changes[p]

\* A record that a call writes or folds is made against the base the
\* transaction has then; one that a merge carries along keeps its own.
Sees ==
    seen' = [t \in Txns |->
                IF open'[t] = None THEN Nothing
                ELSE [p \in DOMAIN open'[t].changes |->
                        IF SameRecord(t, p) THEN seen[t][p] ELSE open'[t].base]]

\* The transaction that becomes a revision leaves what it saw there.
Lands ==
    IF youngest' = youngest THEN UNCHANGED landed
    ELSE \E t \in Txns :
            /\ open[t] # None /\ open'[t] = None
            /\ landed' = [r \in 0..youngest' |-> IF r <= youngest THEN landed[r] ELSE seen[t]]

PromiseInit ==
    /\ Init
    /\ seen = [t \in Txns |-> Nothing]
    /\ landed = [r \in 0..1 |-> [p \in DOMAIN revision[r].changes |-> 0]]

PromiseNext == Next /\ Sees /\ Lands

PromiseSpec == PromiseInit /\ [][PromiseNext]_promiseVars
-----------------------------------------------------------------------------
\* Changed paths with their records, and the pairs changesConflict rejects.
Records ==
    Paths \X [kind : {"add", "delete", "replace", "modify"}, text : BOOLEAN, props : BOOLEAN,
              from : {None} \cup (Nat \X Paths)]

Rejected ==
    {pair \in Records \X Records :
        ChangesConflict(pair[1][1], pair[1][2], pair[2][1], pair[2][2])}

\* The history the revisions stand for: what each changed, and what the author
\* of each change had seen.
Recorded ==
    [r \in 0..youngest |->
        [txn   |-> None,
         edits |-> {[change |-> <<p, revision[r].changes[p]>>, seen |-> landed[r][p]] :
                        p \in DOMAIN revision[r].changes},
         val   |-> None]]

History == INSTANCE RepoHistory WITH Conflict <- Rejected, revision <- Recorded

\* Every step keeps the promise of fs.FS: revisions appear one at a time, never
\* change, and carry only changes that agree with everything committed since
\* their author looked, through failed commits, half-done merges and records
\* that are folded after the transaction was rebased; none lands twice
\* (recordChange, changesConflict, mergeYoungest, Commit).
KeepsPromise == [][History!HNext]_<<youngest, Recorded>>
\* The author of a change had not seen the revision before the one it is in.
MergedSince(r, p) == landed[r][p] < r - 1

\* The transaction deleted p and later copied to a directory above it.
CopiedOver(r, p) ==
    \E q \in DOMAIN revision[r].changes :
        IsAncestor(q, p) /\ revision[r].changes[q].from # None

\* A path a revision reports as deleted is not in it (Delete, mergeYoungest,
\* recordChange), unless a copy brought it again; but mergeTxnDirectory brings
\* back an entry it finds in the youngest tree, so after a merge the deletion may
\* have been undone, and then what is there is just what was there before.
DeletesLand ==
    \A r \in 2..youngest :
        \A p \in DOMAIN revision[r].changes \cap DOMAIN Tree(r) :
            revision[r].changes[p].kind = "delete" =>
                \/ CopiedOver(r, p)
                \/ /\ MergedSince(r, p) /\ p \in DOMAIN Tree(r - 1)
                   /\ \A q \in {x \in Paths : Covers(p, x)} \ DOMAIN revision[r].wrote :
                        q \in DOMAIN Tree(r) /\ q \notin DOMAIN revision[r].changes =>
                            q \in DOMAIN Tree(r - 1) /\ Tree(r)[q] = Tree(r - 1)[q]

==============================================================================
