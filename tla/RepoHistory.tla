----------------------------- MODULE RepoHistory -----------------------------
(***************************************************************************)
(* What fs.FS promises its callers about history, with no files, locks or  *)
(* processes: a numbered list of revisions that only ever grows at its     *)
(* young end, one atomic commit at a time.  A revision never changes once  *)
(* it is there, except for the value of its revision property.             *)
(*                                                                         *)
(* An entry is [txn, edits, val]; an edit is [change, seen] where seen is  *)
(* the revision its author looked at when making it.                       *)
(***************************************************************************)
EXTENDS Naturals

CONSTANTS
    Conflict,   \* <<local, upstream>> pairs of changes that exclude each other
    None        \* no transaction, no property value

VARIABLES
    youngest,
    revision    \* 0..youngest -> entries

hvars == <<youngest, revision>>

Empty == [txn |-> None, edits |-> {}, val |-> None]

HInit ==
    /\ youngest = 0
    /\ revision = [r \in {0} |-> Empty]

\* n may follow the revisions there are: everything that was committed since
\* the author of an edit looked is compatible with it, and no edit of the
\* same transaction is there already.
MayFollow(n) ==
    /\ n.val = None
    /\ \A e \in n.edits :
          \A q \in (e.seen + 1)..youngest :
              \A d \in revision[q].edits : <<e.change, d.change>> \notin Conflict
    /\ \A q \in 1..youngest : revision[q].txn = n.txn => revision[q].edits \cap n.edits = {}

HCommit ==
    /\ youngest' = youngest + 1
    /\ DOMAIN revision' = 0..youngest'
    /\ \A r \in 0..youngest : revision'[r] = revision[r]
    /\ MayFollow(revision'[youngest'])

HSetProp ==
    /\ youngest' = youngest
    /\ DOMAIN revision' = 0..youngest
    /\ \E r \in 0..youngest :
          /\ \A q \in 0..youngest \ {r} : revision'[q] = revision[q]
          /\ revision'[r].txn = revision[r].txn
          /\ revision'[r].edits = revision[r].edits

HNext == HCommit \/ HSetProp

HSpec == HInit /\ [][HNext]_hvars
==============================================================================
