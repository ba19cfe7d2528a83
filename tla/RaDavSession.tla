---------------------------- MODULE RaDavSession ----------------------------
(***************************************************************************)
(* The ra_dav client: src/radav.  A session sends one HTTP request at a    *)
(* time through a round tripper that answers authentication challenges,    *)
(* and drives on it the HTTPv2 commit (POST, the edits, MERGE, and DELETE  *)
(* of the transaction when it fails), locks, revision property changes and *)
(* the file fetches of an update.                                          *)
(*                                                                         *)
(* A step is one attempt at one request, so the requests of several        *)
(* sessions interleave freely.  An attempt may be lost on the way, and its *)
(* answer may be lost after the server has carried it out.                 *)
(*                                                                         *)
(* The server is not under src/: it is modelled from the statuses the      *)
(* client expects and from what the client's headers ask of it.            *)
(***************************************************************************)
EXTENDS Naturals, Sequences, FiniteSets

CONSTANTS
    Clients,      \* sessions, each used by one caller
    None,
    Casts,        \* what the callers do (sequences of stages), the credentials their
                  \* providers and prompt give in order, the challenges the server puts
                  \* in an answer in order, whether it takes create-txn-with-props
    Right,        \* the credentials the server accepts
    MaxTries,     \* how often a caller starts a failed commit again
    MaxLost,      \* requests and answers lost in a behaviour
    MaxAged       \* nonces the server lets expire in a behaviour

MaxAuthAttempts == 8

(* What a caller's providers give is a sequence of credentials.            *)
Credentials ==
    UNION {UNION {{cast.wallet[c][i] : i \in DOMAIN cast.wallet[c]} : c \in Clients} : cast \in Casts}

ASSUME WalletAssumption ==
    /\ None \notin Credentials
    /\ \A cast \in Casts : cast.wallet \in [Clients -> Seq(Credentials)]

(* What a caller does is a sequence of stages.  A commit drives the editor *)
(* as delta.Editor asks: OpenRoot once and first, CloseEdit last.          *)
Stages ==
    UNION {UNION {{cast.prog[c][i] : i \in DOMAIN cast.prog[c]} : c \in Clients} : cast \in Casts}
StageKinds == {"commit", "lock", "unlock", "revprop", "update"}
EditorCalls == {"OpenRoot", "DeleteEntry", "AddDirectory", "OpenDirectory", "AddFile", "OpenFile",
                "CloseFile", "CloseDirectory", "CloseEdit"}

(* The repository: a file f, a directory d with a file g in it, and a file *)
(* g of the root.                                                          *)
Names == {"d", "d/g", "f", "g"}

ASSUME StageAssumption ==
    /\ None \notin Nat
    /\ \A cast \in Casts : cast.prog \in [Clients -> Seq(Stages)]
    /\ \A s \in Stages :
          /\ s.kind \in StageKinds
          /\ s.kind = "commit" =>
                LET n == Len(s.drive) IN
                /\ s.drive \in Seq({s.drive[i] : i \in DOMAIN s.drive}) \ {<<>>}
                /\ \A i \in 1..n : s.drive[i].call \in EditorCalls
                /\ \A i \in 1..n : s.drive[i].call = "OpenRoot" <=> i = 1
                /\ s.drive[n].call = "CloseEdit"
          /\ s.kind \in {"lock", "unlock"} => s.names \in Seq(Names)

Below(n) == IF n = "d" THEN {"d", "d/g"} ELSE {n}
Above(n) == IF n = "d/g" THEN {"d", "d/g"} ELSE {n}
Dir(n) == IF n = "d/g" THEN "d" ELSE ""
File(text) == [kind |-> "file", text |-> text, prop |-> FALSE]
Directory == [kind |-> "dir", text |-> None, prop |-> FALSE]

VARIABLES
    srv,       \* the repository: hist, txns, locks, msg (a revision property), serial
    era,       \* the nonce the server takes, and the last count it saw of each client
    offer,     \* the challenges it puts in an answer
    withProps, \* it takes create-txn-with-props
    lost,      \* requests and answers lost so far
    aged,      \* nonces that have expired so far
    kept,      \* authRoundTripper.states
    try,       \* the request in hand: its own authentication state, rejected, attempts
    todo,      \* requests left of the call in progress
    ed,        \* the commit editor
    youngest,  \* ServerInfo.Youngest
    prog,      \* the stages a caller has left
    wallet,    \* its credentials
    calls,     \* editor calls left of its drive
    tokens,    \* the lock tokens it has been given
    tries,     \* how often it has started the stage
    told,      \* what it was told of the last stage that ended
    fetched,   \* the file its last update left: revision, node, text
    denied,    \* it was told that its credentials are exhausted
    excused    \* what is on the server and could not be known to the client

network == <<era, offer, withProps, lost, aged>>
session == <<kept, try, todo, ed, youngest>>
caller == <<prog, wallet, calls, tokens, tries, told, fetched, denied, excused>>
vars == <<srv, network, session, caller>>

head == Len(srv.hist) - 1
Revision(r) == srv.hist[r + 1]
Tree(r) == Revision(r).tree
Stage(c) == Head(prog[c])

-----------------------------------------------------------------------------
(* Authentication: authrt.go, auth.go.                                     *)

(* challengeRank, and the challenges selectAuthChallenge can use.          *)
Rank(ch) == CASE ch.scheme = "digest" /\ ch.strong -> 3
              [] ch.scheme = "digest" /\ ~ch.strong -> 2
              [] ch.scheme = "basic" -> 1
              [] OTHER -> 0
Usable(ch) == \/ ch.scheme = "basic"
              \/ ch.scheme = "digest" /\ ch.usable

(* The first usable challenge of the highest rank (the sort is stable).    *)
SelectAuthChallenge(offered) ==
    LET Fit == {i \in DOMAIN offered : Usable(offered[i])}
    IN  IF Fit = {} THEN None
        ELSE offered[CHOOSE i \in Fit : \A j \in Fit :
                 \/ Rank(offered[i]) > Rank(offered[j])
                 \/ Rank(offered[i]) = Rank(offered[j]) /\ i <= j]

(* The next credentials that were not rejected; the prompt comes last.     *)
GetCredentialsAfter(purse, rejected) ==
    LET Left == {i \in DOMAIN purse : purse[i] \notin rejected}
    IN  IF Left = {} THEN None
        ELSE purse[CHOOSE i \in Left : \A j \in Left : i <= j]

NoTry == [state |-> None, rejected |-> {}, attempts |-> 0]

(* authorize counts the uses of a nonce in the request's own copy of the   *)
(* state.                                                                  *)
Authorize(state) ==
    IF state = None \/ state.scheme = "basic" THEN state
    ELSE [state EXCEPT !.count = @ + 1]

(* What the server makes of the credentials a request carries.  A digest   *)
(* with the right password but an expired nonce, or a count it has seen,   *)
(* is answered stale=true.                                                 *)
Verdict(c, state) ==
    IF state = None \/ state.cred # Right THEN "refused"
    ELSE IF state.scheme = "basic" THEN "admitted"
    ELSE IF state.nonce # era.nonce \/ state.count <= era.seen[c] THEN "stale"
    ELSE "admitted"

(* A challenge is answered with the same credentials when it only says     *)
(* that the nonce is stale.                                                *)
ReusableNever(stale, state, ch) == FALSE
Reusable(stale, state, ch) == stale /\ state # None /\ state.scheme = ch.scheme

AnswerChallenge(c, t, stale) ==
    LET ch == SelectAuthChallenge(offer)
        rejected == IF t.state # None THEN t.rejected \cup {t.state.cred} ELSE t.rejected
        cred == GetCredentialsAfter(wallet[c], rejected)
        Ends(why) == [next |-> NoTry, ends |-> why]
    IN  IF ch = None THEN Ends("unanswerable")
        ELSE IF Reusable(stale, t.state, ch)
             THEN [next |-> [t EXCEPT !.state.nonce = era.nonce, !.state.count = 0, !.attempts = @ + 1],
                   ends |-> "not"]
        ELSE IF cred = None THEN Ends("exhausted")
        ELSE [next |-> [state |-> [scheme |-> ch.scheme, cred |-> cred, nonce |-> era.nonce, count |-> 0],
                        rejected |-> rejected, attempts |-> t.attempts + 1],
              ends |-> "not"]

-----------------------------------------------------------------------------
(* The requests of a commit: commit.go.                                    *)

NoEditor == [txn |-> None, live |-> FALSE, done |-> FALSE, open |-> 0, deleted |-> {},
             added |-> {}, tokens |-> [n \in Names |-> None], keep |-> FALSE]

(* A request: its method, the node it names, the revision and the tokens   *)
(* its headers carry, what it brings, and the statuses the client accepts. *)
Req(method, n, rev, held, what, accepts) ==
    [method |-> method, name |-> n, rev |-> rev, held |-> held, what |-> what, accepts |-> accepts]

(* mutationHeaders: the base revision, and the token of the node itself.   *)
VersionNameNone(rev) == None
VersionName(rev) == rev
MutationTokens(e, n) == IF n \in Names /\ n \notin e.deleted THEN {e.tokens[n]} \ {None} ELSE {}

(* recursiveLockHeaders: the tokens at and below the node.                 *)
RecursiveTokens(e, n) == {e.tokens[m] : m \in Below(n) \ e.deleted} \ {None}

WasDeleted(e, n) == Above(n) \cap e.deleted # {}

(* An editor call and the requests it sends.                               *)
CopyRequest(e, k) == Req("COPY", k.name, None, RecursiveTokens(e, k.name), k.from, {"created"})

CreateTransaction ==
    <<Req("POST", "", None, {}, None, {"created"})>>
      \o IF withProps THEN <<>> ELSE <<Req("TXNPROPS", "", None, {}, None, {"multistatus"})>>

DeleteTransaction(inner) == Req("ABORT", "", None, {}, inner, {"nocontent", "notfound"})

AddDirectory(e, k) ==
    IF k.from # None THEN <<CopyRequest(e, k)>>
    ELSE <<Req("MKCOL", k.name, None, RecursiveTokens(e, k.name), None, {"created"})>>

AddFile(e, k) ==
    IF k.from # None THEN <<CopyRequest(e, k)>>
    ELSE IF Dir(k.name) \notin e.added /\ ~WasDeleted(e, k.name)
         THEN <<Req("HEAD", k.name, None, {}, None, {"notfound"})>>
    ELSE <<>>

Proppatch(e, k, rev) ==
    IF k.prop THEN <<Req("PROPPATCH", k.name, VersionName(rev), MutationTokens(e, k.name), None, {"multistatus"})>>
    ELSE <<>>

CloseFile(e, k, rev) ==
    LET fresh == k.added /\ k.from = None
    IN  (IF k.text # None \/ fresh
         THEN <<Req("PUT", k.name, VersionName(rev), MutationTokens(e, k.name), k.text,
                    IF fresh THEN {"created"} ELSE {"nocontent"})>>
         ELSE <<>>) \o Proppatch(e, k, rev)

(* MERGE carries every token, and frees the locks unless they are kept.    *)
MergeTransactionCreated(e) ==
    <<Req("MERGE", "", None, {e.tokens[n] : n \in Names} \ {None}, ~e.keep, {"created"})>>
MergeTransaction(e) ==
    <<Req("MERGE", "", None, {e.tokens[n] : n \in Names} \ {None}, ~e.keep, {"ok"})>>

(* The requests of the next editor call of the drive.                      *)
Requests(c, k) ==
    LET e == ed[c]
        rev == IF k.added THEN None ELSE youngest[c]
    IN  CASE k.call = "OpenRoot" -> CreateTransaction
          [] k.call = "DeleteEntry" ->
                 <<Req("DELETE", k.name, VersionName(youngest[c]), MutationTokens(e, k.name), None, {"nocontent"})>>
          [] k.call = "AddDirectory" -> AddDirectory(e, k)
          [] k.call = "OpenDirectory" -> <<>>
          [] k.call = "AddFile" -> AddFile(e, k)
          [] k.call = "OpenFile" -> <<>>
          [] k.call = "CloseFile" -> CloseFile(e, k, rev)
          [] k.call = "CloseDirectory" -> Proppatch(e, k, rev)
          [] k.call = "CloseEdit" -> MergeTransaction(e)

(* What a call does to the editor before its requests and after them.      *)
Started(e, k) ==
    IF k.call \in {"CloseFile", "CloseDirectory"} THEN [e EXCEPT !.open = @ - 1] ELSE e

Settled(e, k) ==
    CASE k.call = "DeleteEntry" -> [e EXCEPT !.deleted = @ \cup {k.name}]
      [] k.call = "AddDirectory" -> [e EXCEPT !.open = @ + 1, !.added = @ \cup {k.name}]
      [] k.call \in {"OpenRoot", "OpenDirectory", "AddFile", "OpenFile"} -> [e EXCEPT !.open = @ + 1]
      [] OTHER -> e

-----------------------------------------------------------------------------
(* The server.  Serve is the answer to a request of c and the repository   *)
(* after it.                                                               *)
Answer(status, value, store) == [status |-> status, value |-> value, srv |-> store]
Refusal(status) == Answer(status, None, srv)

Txn(c) == srv.txns[ed[c].txn]

(* A node that the transaction has not changed is out of date when it was  *)
(* changed after the revision the client names.                            *)
OutOfDate(txn, n, rev) ==
    rev # None /\ n \in Names \ txn.touched /\ Revision(txn.base).cr[n] > rev

Barred(nodes, held) == \E n \in nodes : srv.locks[n] # None /\ srv.locks[n].token \notin held

Change(c, tree, touched) ==
    LET t == ed[c].txn
    IN  [srv EXCEPT !.txns[t].tree = tree, !.txns[t].touched = @ \cup touched]

SetNodes(tree, nodes, value) == [n \in Names |-> IF n \in nodes THEN value ELSE tree[n]]

Serve_Edit(c, r) ==
    LET txn == Txn(c)
        n == r.name
        here == txn.tree[n]
    IN  IF r.method = "DELETE" THEN
            IF here = None THEN Refusal("notfound")
            ELSE IF OutOfDate(txn, n, r.rev) THEN Refusal("conflict")
            ELSE IF Barred({n}, r.held) THEN Refusal("locked")
            ELSE Answer("nocontent", None, Change(c, SetNodes(txn.tree, Below(n), None), Below(n)))
        ELSE IF r.method = "MKCOL" THEN
            IF here # None THEN Refusal("exists")
            ELSE Answer("created", None, Change(c, SetNodes(txn.tree, {n}, Directory), {n}))
        ELSE IF r.method = "COPY" THEN
            IF here # None THEN Refusal("exists")
            ELSE IF Tree(r.what)[n] = None THEN Refusal("notfound")
            ELSE Answer("created", None,
                     Change(c, [m \in Names |-> IF m \in Below(n) THEN Tree(r.what)[m] ELSE txn.tree[m]], Below(n)))
        ELSE IF r.method = "PUT" THEN
            IF \E d \in Above(n) \ {n} : txn.tree[d] = None THEN Refusal("conflict")
            ELSE IF OutOfDate(txn, n, r.rev) THEN Refusal("conflict")
            ELSE IF here # None /\ Barred({n}, r.held) THEN Refusal("locked")
            ELSE LET text == IF r.what = None THEN "" ELSE r.what
                     prop == here # None /\ here.prop
                 IN  Answer(IF here = None THEN "created" ELSE "nocontent", None,
                            Change(c, SetNodes(txn.tree, {n}, [File(text) EXCEPT !.prop = prop]), {n}))
        ELSE \* PROPPATCH
            IF here = None THEN Refusal("notfound")
            ELSE IF OutOfDate(txn, n, r.rev) THEN Refusal("conflict")
            ELSE IF here.kind = "file" /\ Barred({n}, r.held) THEN Refusal("locked")
            ELSE Answer("multistatus", None, Change(c, SetNodes(txn.tree, {n}, [here EXCEPT !.prop = TRUE]), {n}))

(* MERGE makes a revision of the transaction unless what it changed has    *)
(* been changed since its base.                                            *)
Serve_Merge(c, r) ==
    LET txn == Txn(c)
        old == Revision(head)
        Changed == {n \in Names : old.cr[n] > txn.base}
        Clash == \/ txn.touched \cap Changed # {}
                 \/ \E n \in txn.touched : Dir(n) \in Names /\ old.tree[Dir(n)] = None /\ txn.tree[n] # None
                                            /\ Dir(n) \notin txn.touched
        tree == [n \in Names |-> IF n \in txn.touched THEN txn.tree[n] ELSE old.tree[n]]
        Bubbled == UNION {Above(n) : n \in txn.touched}
        cr == [n \in Names |-> IF n \in Bubbled THEN head + 1 ELSE old.cr[n]]
        Freed == {n \in Names : srv.locks[n] # None /\ r.what /\ srv.locks[n].token \in r.held}
    IN  IF Clash THEN Refusal("conflict")
        ELSE IF Barred(txn.touched, r.held) THEN Refusal("locked")
        ELSE Answer("ok", head + 1,
                 [srv EXCEPT !.hist = Append(@, [tree |-> tree, cr |-> cr, by |-> [client |-> c, left |-> Len(prog[c]), drive |-> Stage(c).drive]]),
                             !.txns = [t \in DOMAIN @ \ {ed[c].txn} |-> @[t]],
                             !.locks = [n \in Names |-> IF n \in Freed THEN None ELSE @[n]]])

Serve(c, r) ==
    LET n == r.name
        new == srv.serial + 1
    IN  CASE r.method = "POST" ->
              Answer("created", new,
                  [srv EXCEPT !.serial = new,
                       !.txns = [t \in DOMAIN @ \cup {new} |->
                           IF t = new THEN [base |-> head, tree |-> Tree(head), touched |-> {}, by |-> c] ELSE @[t]]])
          [] r.method = "TXNPROPS" -> Answer("multistatus", None, srv)
          [] r.method = "HEAD" -> Refusal(IF Tree(head)[n] = None THEN "notfound" ELSE "ok")
          [] r.method = "MERGE" -> Serve_Merge(c, r)
          [] r.method = "ABORT" ->
              IF ed[c].txn \in DOMAIN srv.txns
              THEN Answer("nocontent", None, [srv EXCEPT !.txns = [t \in DOMAIN @ \ {ed[c].txn} |-> @[t]]])
              ELSE Refusal("notfound")
          [] r.method = "LOCK" ->
              IF Tree(head)[n] = None \/ Revision(head).cr[n] > r.rev THEN Refusal("outofdate")
              ELSE IF srv.locks[n] # None /\ ~r.what THEN Refusal("locked")
              ELSE Answer("ok", new, [srv EXCEPT !.serial = new, !.locks[n] = [token |-> new, owner |-> c]])
          [] r.method = "GETLOCK" -> Answer("ok", IF srv.locks[n] = None THEN None ELSE srv.locks[n].token, srv)
          [] r.method = "UNLOCK" ->
              IF srv.locks[n] = None \/ srv.locks[n].token \notin r.held THEN Refusal("nolock")
              ELSE IF srv.locks[n].owner # c /\ ~r.what THEN Refusal("mismatch")
              ELSE Answer("nocontent", None, [srv EXCEPT !.locks[n] = None])
          [] r.method = "PROPFIND" -> Answer("ok", srv.msg, srv)
          [] r.method = "PROPSET" ->
              IF r.what.checked /\ srv.msg # r.what.old THEN Refusal("mismatch")
              ELSE Answer("multistatus", None, [srv EXCEPT !.msg = r.what.new])
          [] r.method = "REPORT" -> Answer("ok", head, srv)
          [] r.method = "GET" -> Answer("ok", [base |-> Tree(r.what.baseRev)[r.what.baseName],
                                               target |-> Tree(r.what.rev)[n]], srv)
          [] OTHER -> Serve_Edit(c, r)
-----------------------------------------------------------------------------
(* The client.                                                             *)

Init ==
    /\ srv = [hist |-> <<[tree |-> [n \in Names |-> IF n = "d" THEN Directory ELSE File(n)],
                          cr |-> [n \in Names |-> 0], by |-> None]>>,
              txns |-> <<>>, locks |-> [n \in Names |-> None], msg |-> None, serial |-> 0]
    /\ era = [nonce |-> 1, seen |-> [c \in Clients |-> 0]]
    /\ \E cast \in Casts :
          /\ offer = cast.offer /\ withProps = cast.withProps
          /\ prog = cast.prog /\ wallet = cast.wallet
    /\ lost = 0 /\ aged = 0
    /\ kept = [c \in Clients |-> None]
    /\ try = [c \in Clients |-> NoTry]
    /\ todo = [c \in Clients |-> <<>>]
    /\ ed = [c \in Clients |-> NoEditor]
    /\ youngest = [c \in Clients |-> 0]
    /\ calls = [c \in Clients |-> <<>>]
    /\ tokens = [c \in Clients |-> [n \in Names |-> None]]
    /\ tries = [c \in Clients |-> 0]
    /\ told = [c \in Clients |-> "nothing"]
    /\ fetched = [c \in Clients |-> None]
    /\ denied = [c \in Clients |-> FALSE]
    /\ excused = {}

(* lock: one LOCK for each path, in order.                                 *)
LockRequests(s, c) ==
    [i \in DOMAIN s.names |-> Req("LOCK", s.names[i], youngest[c], {}, s.steal, {"ok"})]

(* unlock: the token comes from the caller or, to break a lock, from the   *)
(* server; a path without a token is an error that sends nothing.          *)
UnlockPath(n, token, break) == Req("UNLOCK", n, None, {token}, break, {"nocontent"})
UnlockRequests(s, c) ==
    LET Of(n) == IF tokens[c][n] # None THEN <<UnlockPath(n, tokens[c][n], s.break)>>
                 ELSE IF s.break THEN <<Req("GETLOCK", n, None, {}, None, {"ok"})>>
                 ELSE <<>>
        From[i \in 0..Len(s.names)] == IF i = 0 THEN <<>> ELSE From[i - 1] \o Of(s.names[i])
    IN  From[Len(s.names)]

(* changeRevProp: to delete a property whatever its value, the client      *)
(* reads it and then asks for the deletion of that value.                  *)
PropSet(checked, old, new) ==
    Req("PROPSET", "", None, {}, [checked |-> checked, old |-> old, new |-> new], {"multistatus"})
ChangeRevProp(s) ==
    IF s.value = None /\ s.dontCare THEN <<Req("PROPFIND", "", None, {}, None, {"ok"})>>
    ELSE <<PropSet(~s.dontCare, s.old, s.value)>>

(* An update of one file: the session's anchor and the name below it.      *)
Node(s) == IF s.anchor = "" THEN s.name ELSE s.anchor \o "/" \o s.name

(* httpV2RevisionURL: the delta base of a file the report opens.           *)
DeltaBase(s) == s.name

FetchDelta(s, c, rev) ==
    Req("GET", Node(s), None, {}, [rev |-> rev, baseRev |-> youngest[c], baseName |-> DeltaBase(s)], {"ok"})

(* A window copies from the base it was made against: another base gives   *)
(* another text.  A base that is no file makes the answer a full text.     *)
Patched(text, answer) ==
    IF answer.base = None \/ answer.base.kind = "dir" THEN answer.target.text
    ELSE IF answer.base.text = text THEN answer.target.text
    ELSE <<"mixed", text, answer.base.text>>

Set(f, c, v) == [f EXCEPT ![c] = v]

(* A caller begins the next stage, or a commit that failed again.          *)
Begin(c) ==
    /\ prog[c] # <<>> /\ ~denied[c]
    /\ \/ tries[c] = 0
       \/ tries[c] < MaxTries /\ told[c] = "failed" /\ Stage(c).kind = "commit"
    /\ tries' = Set(tries, c, tries[c] + 1)
    /\ told' = Set(told, c, "busy")
    /\ LET s == Stage(c)
       IN  CASE s.kind = "commit" ->
                 /\ ed' = Set(ed, c, [NoEditor EXCEPT !.tokens = tokens[c], !.keep = s.keep])
                 /\ calls' = Set(calls, c, s.drive)
                 /\ UNCHANGED todo
             [] s.kind = "lock" -> todo' = Set(todo, c, LockRequests(s, c)) /\ UNCHANGED <<ed, calls>>
             [] s.kind = "unlock" -> todo' = Set(todo, c, UnlockRequests(s, c)) /\ UNCHANGED <<ed, calls>>
             [] s.kind = "revprop" -> todo' = Set(todo, c, ChangeRevProp(s)) /\ UNCHANGED <<ed, calls>>
             [] s.kind = "update" ->
                 /\ todo' = Set(todo, c, <<Req("REPORT", "", None, {}, None, {"ok"})>>)
                 /\ UNCHANGED <<ed, calls>>
    /\ UNCHANGED <<srv, network, kept, try, youngest, prog, wallet, tokens, fetched, denied, excused>>

(* The next call of the drive; a call without requests is done at once.    *)
EditorCall(c) ==
    /\ todo[c] = <<>> /\ calls[c] # <<>>
    /\ LET k == Head(calls[c])
           e == Started(ed[c], k)
           sends == Requests(c, k)
       IN  /\ k.call = "CloseEdit" => ed[c].live /\ ed[c].open = 0
           /\ todo' = Set(todo, c, sends)
           /\ ed' = Set(ed, c, IF sends = <<>> THEN Settled(e, k) ELSE e)
           /\ calls' = IF sends = <<>> THEN Set(calls, c, Tail(calls[c])) ELSE calls
    /\ UNCHANGED <<srv, network, kept, try, youngest, prog, wallet, tokens, tries, fetched, told, denied, excused>>

(* A stage ends when it has no request and no call left.                   *)
Leave(c) ==
    /\ prog[c] # <<>> /\ tries[c] > 0 /\ todo[c] = <<>> /\ calls[c] = <<>>
    /\ prog' = Set(prog, c, Tail(prog[c]))
    /\ tries' = Set(tries, c, 0)
    /\ UNCHANGED <<srv, network, session, wallet, calls, tokens, told, fetched, denied, excused>>

(* The caller of a failed drive aborts the edit: AbortEdit deletes the     *)
(* transaction it knows of.                                                *)
AbortEditOpen(c, e) ==
    IF e.live /\ e.open > 0 THEN <<DeleteTransaction(FALSE)>> ELSE <<>>
AbortEdit(c, e) ==
    IF e.live /\ e.txn # None THEN <<DeleteTransaction(FALSE)>> ELSE <<>>

(* What follows a request that failed; the server may have made unknown    *)
(* of it.                                                                  *)
RequestFails(c, r, unknown) ==
    LET e == ed[c]
        commit == Stage(c).kind = "commit"
        inner == r.method = "TXNPROPS"
        next == IF inner THEN <<DeleteTransaction(TRUE)>>
                ELSE IF r.method = "ABORT" /\ ~r.what THEN <<>>
                ELSE IF commit THEN AbortEdit(c, e)
                ELSE IF r.method \in {"LOCK", "UNLOCK", "GETLOCK"} THEN Tail(todo[c])
                ELSE <<>>
        given == r.method = "ABORT" /\ ~r.what /\ e.txn # None
    IN  /\ todo' = Set(todo, c, next)
        /\ calls' = Set(calls, c, <<>>)
        /\ told' = Set(told, c, IF commit /\ next # <<>> THEN "busy" ELSE "failed")
        /\ ed' = Set(ed, c, IF commit /\ next = <<>> THEN [e EXCEPT !.done = TRUE] ELSE e)
        /\ excused' = excused \cup unknown \cup IF given THEN {<<"txn", e.txn>>} ELSE {}

(* What the client makes of the answer to a request it was waiting for.    *)
Accepted(c, r, ans) ==
    LET e == ed[c]
        rest == Tail(todo[c])
        Next(more) == todo' = Set(todo, c, more \o rest)
        Keep == UNCHANGED <<ed, calls, youngest, tokens, told>>
    IN  /\ UNCHANGED excused
        /\ r.method # "GET" => UNCHANGED fetched
        /\ CASE r.method = "POST" ->
                  /\ ed' = Set(ed, c, IF rest = <<>> THEN Settled([e EXCEPT !.txn = ans.value, !.live = TRUE], Head(calls[c]))
                                      ELSE [e EXCEPT !.txn = ans.value, !.live = TRUE])
                  /\ calls' = IF rest = <<>> THEN Set(calls, c, Tail(calls[c])) ELSE calls
                  /\ Next(<<>>) /\ UNCHANGED <<youngest, tokens, told>>
              [] r.method = "ABORT" ->
                  /\ ed' = Set(ed, c, [e EXCEPT !.live = FALSE, !.txn = None, !.done = TRUE])
                  /\ told' = Set(told, c, "failed")
                  /\ Next(<<>>) /\ UNCHANGED <<calls, youngest, tokens>>
              [] r.method = "MERGE" ->
                  /\ ed' = Set(ed, c, [e EXCEPT !.done = TRUE, !.txn = None])
                  /\ youngest' = Set(youngest, c, ans.value)
                  /\ tokens' = IF e.keep THEN tokens ELSE Set(tokens, c, [n \in Names |-> None])
                  /\ told' = Set(told, c, "committed")
                  /\ calls' = Set(calls, c, <<>>)
                  /\ Next(<<>>)
              [] r.method \in {"TXNPROPS", "HEAD", "DELETE", "MKCOL", "COPY", "PUT", "PROPPATCH"} ->
                  /\ ed' = IF rest = <<>> THEN Set(ed, c, Settled(e, Head(calls[c]))) ELSE ed
                  /\ calls' = IF rest = <<>> THEN Set(calls, c, Tail(calls[c])) ELSE calls
                  /\ Next(<<>>) /\ UNCHANGED <<youngest, tokens, told>>
              [] r.method = "LOCK" ->
                  /\ tokens' = [tokens EXCEPT ![c][r.name] = ans.value]
                  /\ Next(<<>>) /\ UNCHANGED <<ed, calls, youngest, told>>
              [] r.method = "GETLOCK" ->
                  /\ Next(IF ans.value = None THEN <<>> ELSE <<UnlockPath(r.name, ans.value, TRUE)>>)
                  /\ Keep
              [] r.method = "UNLOCK" ->
                  /\ tokens' = [tokens EXCEPT ![c][r.name] = None]
                  /\ Next(<<>>) /\ UNCHANGED <<ed, calls, youngest, told>>
              [] r.method = "PROPFIND" ->
                  /\ Next(IF ans.value = None THEN <<>> ELSE <<PropSet(TRUE, ans.value, None)>>)
                  /\ Keep
              [] r.method = "PROPSET" ->
                  /\ told' = Set(told, c, "changed")
                  /\ Next(<<>>) /\ UNCHANGED <<ed, calls, youngest, tokens>>
              [] r.method = "REPORT" ->
                  /\ Next(IF Tree(ans.value)[Node(Stage(c))] \in {None, Tree(youngest[c])[Node(Stage(c))]} THEN <<>>
                          ELSE <<FetchDelta(Stage(c), c, ans.value)>>)
                  /\ Keep
              [] r.method = "GET" ->
                  /\ fetched' = Set(fetched, c, [at |-> r.what.rev, node |-> r.name,
                                           text |-> Patched(Tree(youngest[c])[r.name].text, ans.value)])
                  /\ Next(<<>>) /\ Keep

-----------------------------------------------------------------------------
(* Attempts at the request in hand: RoundTrip, requestBody.                *)
Sending(c) == todo[c] # <<>> /\ ~denied[c]
InHand(c) == Head(todo[c])
Carried(c) == [(IF try[c] = NoTry THEN [NoTry EXCEPT !.state = kept[c]] ELSE try[c]) EXCEPT !.state = Authorize(@)]

(* 401: another attempt, unless there is no way to answer or it was the    *)
(* last one.                                                               *)
Challenged(c) ==
    LET t == Carried(c)
        verdict == Verdict(c, t.state)
        answer == AnswerChallenge(c, t, verdict = "stale")
        over == answer.ends # "not" \/ answer.next.attempts = MaxAuthAttempts
    IN  /\ Sending(c) /\ verdict # "admitted"
        /\ IF over
           THEN /\ try' = Set(try, c, NoTry)
                /\ denied' = Set(denied, c, answer.ends = "exhausted")
                /\ RequestFails(c, InHand(c), {})
           ELSE /\ try' = Set(try, c, answer.next)
                /\ UNCHANGED <<denied, todo, calls, told, ed, excused>>
        /\ UNCHANGED <<srv, network, kept, youngest, prog, wallet, tokens, tries, fetched>>

(* The server carries the request out.  What is remembered of the          *)
(* authentication is what the answered attempt carried, or the nonce the   *)
(* server asks to use next.                                                *)
Answered(c) ==
    LET t == Carried(c)
        r == InHand(c)
        ans == Serve(c, r)
        digest == t.state # None /\ t.state.scheme = "digest"
        Seen == IF digest THEN [era EXCEPT !.seen[c] = t.state.count] ELSE era
    IN  /\ Sending(c) /\ Verdict(c, t.state) = "admitted"
        /\ \/ /\ era' = Seen /\ kept' = Set(kept, c, t.state) /\ UNCHANGED aged
           \/ /\ digest /\ aged < MaxAged /\ aged' = aged + 1
              /\ era' = [nonce |-> era.nonce + 1, seen |-> [d \in Clients |-> 0]]
              /\ kept' = Set(kept, c, [t.state EXCEPT !.nonce = era.nonce + 1, !.count = 0])
        /\ try' = Set(try, c, NoTry)
        /\ srv' = ans.srv
        /\ IF ans.status \in r.accepts THEN Accepted(c, r, ans)
           ELSE RequestFails(c, r, {}) /\ UNCHANGED <<youngest, tokens, fetched>>
        /\ UNCHANGED <<offer, withProps, lost, prog, wallet, tries, denied>>

(* The request does not arrive, or the server fails it.                    *)
RequestLost(c) ==
    /\ Sending(c) /\ Verdict(c, Carried(c).state) = "admitted" /\ lost < MaxLost
    /\ lost' = lost + 1
    /\ try' = Set(try, c, NoTry)
    /\ RequestFails(c, InHand(c), {})
    /\ UNCHANGED <<srv, era, offer, withProps, aged, kept, youngest, prog, wallet, tokens, tries, fetched, denied>>

(* The server carries the request out and its answer is lost: what it made *)
(* is unknown to the client.                                               *)
Unknown(r, ans) ==
    CASE r.method = "POST" -> {<<"txn", ans.value>>}
      [] r.method = "MERGE" /\ ans.status = "ok" -> {<<"rev", ans.value>>}
      [] r.method = "LOCK" /\ ans.status = "ok" -> {<<"lock", ans.value>>}
      [] OTHER -> {}

AnswerLost(c) ==
    LET t == Carried(c)
        r == InHand(c)
        ans == Serve(c, r)
    IN  /\ Sending(c) /\ Verdict(c, t.state) = "admitted" /\ lost < MaxLost
        /\ lost' = lost + 1
        /\ try' = Set(try, c, NoTry)
        /\ srv' = ans.srv
        /\ era' = IF t.state.scheme = "digest" THEN [era EXCEPT !.seen[c] = t.state.count] ELSE era
        /\ RequestFails(c, r, Unknown(r, ans))
        /\ UNCHANGED <<offer, withProps, aged, kept, youngest, prog, wallet, tokens, tries, fetched, denied>>

(* The server lets the nonce it gave expire.                               *)
Age ==
    /\ aged < MaxAged /\ aged' = aged + 1
    /\ era' = [nonce |-> era.nonce + 1, seen |-> [c \in Clients |-> 0]]
    /\ UNCHANGED <<srv, offer, withProps, lost, session, caller>>

Next ==
    \/ \E c \in Clients : \/ Begin(c) \/ EditorCall(c) \/ Leave(c)
                         \/ Challenged(c) \/ Answered(c) \/ RequestLost(c) \/ AnswerLost(c)
    \/ Age

Spec == Init /\ [][Next]_vars
-----------------------------------------------------------------------------
(* What the effects of a drive are, call by call.                          *)
Effect(k, tree) ==
    CASE k.call = "DeleteEntry" -> SetNodes(tree, Below(k.name), None)
      [] k.call = "AddDirectory" /\ k.from = None -> SetNodes(tree, {k.name}, Directory)
      [] k.call \in {"AddDirectory", "AddFile"} /\ k.from # None ->
             [n \in Names |-> IF n \in Below(k.name) THEN Tree(k.from)[n] ELSE tree[n]]
      [] k.call = "CloseFile" /\ k.added /\ k.from = None ->
             SetNodes(tree, {k.name}, [File(IF k.text = None THEN "" ELSE k.text) EXCEPT !.prop = k.prop])
      [] k.call = "CloseFile" /\ ~(k.added /\ k.from = None) ->
             SetNodes(tree, {k.name}, [tree[k.name] EXCEPT !.text = IF k.text = None THEN @ ELSE k.text,
                                                           !.prop = @ \/ k.prop])
      [] k.call = "CloseDirectory" /\ k.prop -> SetNodes(tree, {k.name}, [tree[k.name] EXCEPT !.prop = TRUE])
      [] OTHER -> tree

Applied(drive, tree) ==
    LET After[i \in 0..Len(drive)] == IF i = 0 THEN tree ELSE Effect(drive[i], After[i - 1])
    IN  After[Len(drive)]

(* The revisions of client c made when left of its stages were left.       *)
Made(c, left) == {r \in 1..head : Revision(r).by.client = c /\ Revision(r).by.left = left}

(* A drive makes at most one revision, however often its caller starts it  *)
(* again after lost requests and answers, and that revision is the one     *)
(* before it with the drive's changes (commit.go, the requests of the      *)
(* editor calls and the headers of mutationHeaders).                       *)
DriveMadeOnce ==
    \A r \in 1..head :
        /\ Tree(r) = Applied(Revision(r).by.drive, Tree(r - 1))
        /\ Made(Revision(r).by.client, Revision(r).by.left) = {r}

(* A caller is told that its drive was committed, and as which revision,   *)
(* when that revision is the drive's.  It is told of a failure only when   *)
(* no try of the drive has made a revision, or when the answer to the      *)
(* MERGE that made it was lost (commit.go, CloseEdit and AbortEdit).       *)
CommitTruth ==
    \A c \in Clients :
        /\ told[c] = "committed" =>
              youngest[c] \in Made(c, IF tries[c] > 0 THEN Len(prog[c]) ELSE Len(prog[c]) + 1)
        /\ told[c] = "failed" /\ tries[c] > 0 /\ Stage(c).kind = "commit" =>
              \A r \in Made(c, Len(prog[c])) : <<"rev", r>> \in excused

(* A transaction the server holds belongs to an edit that is still open,   *)
(* and a lock it holds is one whose token its owner has, unless the answer *)
(* that named it was lost or the client was told that it stays             *)
(* (commit.go, createTransaction and AbortEdit; locks.go, lock and the     *)
(* release of locks by MERGE).                                             *)
NothingLeftBehind ==
    /\ \A t \in DOMAIN srv.txns :
          \/ <<"txn", t>> \in excused
          \/ ed[srv.txns[t].by].txn = t /\ ~ed[srv.txns[t].by].done
    /\ \A n \in Names : srv.locks[n] # None =>
          \/ <<"lock", srv.locks[n].token>> \in excused
          \/ tokens[srv.locks[n].owner][n] = srv.locks[n].token

(* A caller whose providers hold the right credentials is never told that  *)
(* they are exhausted, whatever nonces expire and answers are lost         *)
(* (authrt.go, RoundTrip).                                                 *)
RightPasswordEnough ==
    \A c \in Clients : denied[c] => Right \notin {wallet[c][i] : i \in DOMAIN wallet[c]}
=============================================================================
