------------------------- MODULE RaDavSessionProofs -------------------------
(***************************************************************************)
(* Proofs about RaDavSession for every set of clients, credentials and     *)
(* challenges, for every sequence of stages and every drive, and for every *)
(* number of lost messages and expired nonces.                             *)
(***************************************************************************)
EXTENDS RaDavSession, SequenceTheorems, WellFoundedInduction, TLAPS

-----------------------------------------------------------------------------
(***************************************************************************)
(* Authentication.                                                         *)
(***************************************************************************)
\* What is remembered of an authentication is always of the scheme that
\* selectAuthChallenge prefers.
AuthState ==
  [scheme : {SelectAuthChallenge(offer).scheme}, cred : Credentials, nonce : Nat, count : Nat]

\* The authentication state of a request in hand: it has not rejected the
\* right credentials.
AuthTry ==
  [state : AuthState \cup {None}, rejected : SUBSET (Credentials \ {Right}), attempts : Nat]

Era == [nonce : Nat, seen : [Clients -> Nat]]

\* A request in hand has not rejected the right credentials, and a caller is
\* told that his are exhausted only when the right ones are not among them.
AuthInv ==
  /\ wallet \in [Clients -> Seq(Credentials)]
  /\ era \in Era
  /\ kept \in [Clients -> AuthState \cup {None}]
  /\ try \in [Clients -> AuthTry]
  /\ denied \in [Clients -> BOOLEAN]
  /\ RightPasswordEnough

\* A set of naturals has a least element.
LEMMA LeastNatural ==
  ASSUME NEW S \in SUBSET Nat, S # {}
  PROVE  \E n \in S : \A m \in S : n <= m
<1> DEFINE R == OpToRel(<, Nat)
<1>1. IsWellFoundedOn(R, Nat)
  BY NatLessThanWellFounded
<1>2. \A x, y \in Nat : y < x => <<y, x>> \in R
  BY DEF OpToRel
<1> HIDE DEF R
<1>3. PICK x \in S : \A y \in S : ~(<<y, x>> \in R)
  BY <1>1, WFMin
<1>4. \A y \in S : ~(y < x)
  BY <1>2, <1>3
<1> QED
  BY <1>4

\* GetCredentialsAfter gives credentials of the wallet that were not rejected,
\* and none only when all of them were.
LEMMA NextCredentials ==
  ASSUME NEW purse \in Seq(Credentials), NEW rejected
  PROVE  LET cred == GetCredentialsAfter(purse, rejected)
         IN  /\ cred # None => cred \in Credentials \ rejected
             /\ cred = None => \A i \in DOMAIN purse : purse[i] \in rejected
<1> DEFINE Left == {i \in DOMAIN purse : purse[i] \notin rejected}
<1>1. CASE Left = {}
  BY <1>1 DEF GetCredentialsAfter
<1>2. CASE Left # {}
  <2>1. PICK n \in Left : \A m \in Left : n <= m
    <3>1. Left \in SUBSET Nat
      OBVIOUS
    <3> QED
      BY <1>2, <3>1, LeastNatural
  <2> DEFINE least == CHOOSE i \in Left : \A j \in Left : i <= j
  <2>2. least \in Left
    BY <2>1
  <2>3. GetCredentialsAfter(purse, rejected) = purse[least]
    BY <1>2 DEF GetCredentialsAfter
  <2> QED
    BY <2>2, <2>3, WalletAssumption
<1> QED
  BY <1>1, <1>2

\* Authorize keeps the scheme and the credentials.
LEMMA AuthorizeTyped ==
  ASSUME NEW s \in AuthState \cup {None}
  PROVE  /\ Authorize(s) \in AuthState \cup {None}
         /\ s # None /\ Authorize(s) # None => Authorize(s).cred = s.cred
BY DEF Authorize, AuthState

\* The server remembers a count.
LEMMA SeenTyped ==
  ASSUME NEW e \in Era, NEW c \in Clients, NEW n \in Nat
  PROVE  [e EXCEPT !.seen[c] = n] \in Era
<1>1. [e EXCEPT !.seen[c] = n] = [nonce |-> e.nonce, seen |-> [e.seen EXCEPT ![c] = n]]
  BY DEF Era
<1> QED
  BY <1>1 DEF Era

\* What an attempt carries: kept for a first attempt, otherwise its own.
LEMMA CarriedTyped ==
  ASSUME AuthInv, NEW c \in Clients
  PROVE  Carried(c) \in AuthTry
<1> DEFINE own == IF try[c] = NoTry THEN [NoTry EXCEPT !.state = kept[c]] ELSE try[c]
<1>1. own \in AuthTry
  BY DEF AuthInv, AuthTry, NoTry
<1>2. Carried(c) = [own EXCEPT !.state = Authorize(@)]
  BY DEF Carried
<1> HIDE DEF own
<1>3. Carried(c) = [state |-> Authorize(own.state), rejected |-> own.rejected, attempts |-> own.attempts]
  BY <1>1, <1>2 DEF AuthTry
<1> QED
  BY <1>1, <1>3, AuthorizeTyped DEF AuthTry

LEMMA NoTryTyped == NoTry \in AuthTry
BY DEF NoTry, AuthTry

\* An attempt that is challenged is answered without rejecting the right
\* credentials: with the right ones the challenge can only be a stale nonce.
LEMMA AnswerKeeps ==
  ASSUME AuthInv, NEW c \in Clients,
         NEW t \in AuthTry,
         Verdict(c, t.state) # "admitted"
  PROVE  LET answer == AnswerChallenge(c, t, Verdict(c, t.state) = "stale")
         IN  /\ answer.next \in AuthTry
             /\ answer.ends = "exhausted" => Right \notin {wallet[c][i] : i \in DOMAIN wallet[c]}
<1> DEFINE ch == SelectAuthChallenge(offer)
           stale == Verdict(c, t.state) = "stale"
           rejected == IF t.state # None THEN t.rejected \cup {t.state.cred} ELSE t.rejected
           cred == GetCredentialsAfter(wallet[c], rejected)
           answer == AnswerChallenge(c, t, stale)
<1>1. era.nonce \in Nat /\ wallet[c] \in Seq(Credentials)
  BY DEF AuthInv, Era
<1>2. t.state # None => t.state \in AuthState /\ t.state.scheme = ch.scheme /\ t.state.cred \in Credentials
  BY DEF AuthState, AuthTry
<1>3. CASE ch = None
  BY <1>3, NoTryTyped DEF AnswerChallenge
<1>4. CASE ch # None /\ Reusable(stale, t.state, ch)
  <2>1. answer = [next |-> [t EXCEPT !.state.nonce = era.nonce, !.state.count = 0, !.attempts = @ + 1],
                  ends |-> "not"]
    BY <1>4 DEF AnswerChallenge
  <2>2. t.state \in AuthState
    BY <1>2, <1>4 DEF Reusable
  <2>3. answer.next \in AuthTry
    <3> DEFINE more == t.attempts + 1
               again == [t EXCEPT !.state.nonce = era.nonce, !.state.count = 0, !.attempts = more]
    <3>1. more \in Nat
      BY DEF AuthTry
    <3>2. answer.next = again
      BY <2>1
    <3> HIDE DEF more
    <3>3. again \in AuthTry
      BY <1>1, <2>2, <3>1 DEF AuthTry, AuthState
    <3> QED
      BY <3>2, <3>3
  <2> QED
    BY <2>1, <2>3
<1>5. CASE ch # None /\ ~Reusable(stale, t.state, ch)
  <2>1. rejected \in SUBSET (Credentials \ {Right})
    <3>1. t.state # None => t.state.cred # Right
      BY <1>2, <1>5 DEF Verdict, Reusable
    <3> QED
      BY <1>2, <3>1 DEF AuthTry
  <2>2. /\ cred # None => cred \in Credentials \ rejected
        /\ cred = None => \A i \in DOMAIN wallet[c] : wallet[c][i] \in rejected
    BY <1>1, NextCredentials
  <2>3. CASE cred = None
    BY <1>5, <2>1, <2>2, <2>3, NoTryTyped DEF AnswerChallenge
  <2>4. CASE cred # None
    <3>1. answer = [next |-> [state |-> [scheme |-> ch.scheme, cred |-> cred, nonce |-> era.nonce, count |-> 0],
                              rejected |-> rejected, attempts |-> t.attempts + 1],
                    ends |-> "not"]
      BY <1>5, <2>4 DEF AnswerChallenge
    <3> HIDE DEF rejected, cred
    <3>2. [scheme |-> ch.scheme, cred |-> cred, nonce |-> era.nonce, count |-> 0] \in AuthState
      BY <1>1, <2>2, <2>4 DEF AuthState
    <3> QED
      BY <2>1, <3>1, <3>2 DEF AuthTry
  <2> QED
    BY <2>3, <2>4
<1> QED
  BY <1>3, <1>4, <1>5

LEMMA AuthInit == Init => AuthInv
<1> SUFFICES ASSUME Init PROVE AuthInv
  OBVIOUS
<1>1. wallet \in [Clients -> Seq(Credentials)]
  BY WalletAssumption DEF Init
<1> QED
  BY <1>1, NoTryTyped DEF Init, AuthInv, Era, RightPasswordEnough

LEMMA SetTyped ==
  ASSUME NEW S, NEW f \in [Clients -> S], NEW c \in Clients, NEW v \in S
  PROVE  Set(f, c, v) \in [Clients -> S]
BY DEF Set

\* The challenges and the credentials stay.
LEMMA AuthSame ==
  ASSUME AuthInv, UNCHANGED <<offer, wallet>>,
         era' \in Era, kept' \in [Clients -> AuthState \cup {None}], try' \in [Clients -> AuthTry],
         UNCHANGED denied
  PROVE  AuthInv'
<1>1. AuthState' = AuthState
  BY DEF AuthState
<1>2. AuthTry' = AuthTry
  BY <1>1 DEF AuthTry
<1>3. Era' = Era
  BY DEF Era
<1> QED
  BY <1>1, <1>2, <1>3 DEF AuthInv, RightPasswordEnough

LEMMA ChallengedAuth ==
  ASSUME AuthInv, NEW c \in Clients, Challenged(c)
  PROVE  AuthInv'
<1> DEFINE t == Carried(c)
           answer == AnswerChallenge(c, t, Verdict(c, t.state) = "stale")
<1>1. /\ answer.next \in AuthTry
      /\ answer.ends = "exhausted" => Right \notin {wallet[c][i] : i \in DOMAIN wallet[c]}
  BY CarriedTyped, AnswerKeeps DEF Challenged
<1>2. /\ UNCHANGED <<era, offer, kept, wallet>>
      /\ \/ try' = Set(try, c, NoTry) /\ denied' = Set(denied, c, answer.ends = "exhausted")
         \/ try' = Set(try, c, answer.next) /\ UNCHANGED denied
  BY DEF Challenged, network
<1>3. try' \in [Clients -> AuthTry]
  <2> HIDE DEF answer
  <2> QED
    BY <1>1, <1>2, NoTryTyped DEF AuthInv, Set
<1>4. AuthState' = AuthState
  BY <1>2 DEF AuthState
<1>5. AuthTry' = AuthTry /\ Era' = Era
  BY <1>4 DEF AuthTry, Era
<1> HIDE DEF answer
<1>6. denied' \in [Clients -> BOOLEAN] /\ RightPasswordEnough'
  <2>1. CASE UNCHANGED denied
    BY <1>2, <2>1 DEF AuthInv, RightPasswordEnough
  <2>2. CASE denied' = Set(denied, c, answer.ends = "exhausted")
    <3>1. denied' \in [Clients -> BOOLEAN]
      BY <2>2, SetTyped DEF AuthInv
    <3>2. \A d \in Clients : denied'[d] => denied[d] \/ (d = c /\ answer.ends = "exhausted")
      BY <2>2 DEF AuthInv, Set
    <3> QED
      BY <1>1, <1>2, <3>1, <3>2 DEF AuthInv, RightPasswordEnough
  <2> QED
    BY <1>2, <2>1, <2>2
<1> QED
  BY <1>2, <1>3, <1>4, <1>5, <1>6 DEF AuthInv

LEMMA AnsweredAuth ==
  ASSUME AuthInv, NEW c \in Clients, Answered(c)
  PROVE  AuthInv'
<1> DEFINE s == Carried(c).state
           next == era.nonce + 1
           fresh == [s EXCEPT !.nonce = next, !.count = 0]
<1>1. s \in AuthState \cup {None} /\ s # None
  BY CarriedTyped DEF Answered, Verdict, AuthTry
<1>2. /\ UNCHANGED <<offer, wallet, denied>> /\ try' = Set(try, c, NoTry)
      /\ \/ era' = [era EXCEPT !.seen[c] = s.count] /\ kept' = Set(kept, c, s)
         \/ era' = era /\ kept' = Set(kept, c, s)
         \/ /\ era' = [nonce |-> era.nonce + 1, seen |-> [d \in Clients |-> 0]]
            /\ kept' = Set(kept, c, fresh)
  BY DEF Answered
<1> HIDE DEF s
<1>3. era \in Era /\ era.nonce \in Nat /\ s.count \in Nat /\ fresh \in AuthState
  <2>1. era \in Era /\ era.nonce \in Nat
    BY DEF AuthInv, Era
  <2>2. s \in AuthState
    BY <1>1
  <2>3. s.count \in Nat
    BY <2>2 DEF AuthState
  <2>4. next \in Nat
    BY <2>1
  <2> HIDE DEF next
  <2>5. fresh \in AuthState
    BY <2>2, <2>4 DEF AuthState
  <2> QED
    BY <2>1, <2>3, <2>5
<1> HIDE DEF fresh
<1>4. era' \in Era
  <2>1. [nonce |-> era.nonce + 1, seen |-> [d \in Clients |-> 0]] \in Era
    BY <1>3 DEF Era
  <2> QED
    BY <1>2, <1>3, <2>1, SeenTyped
<1>5. kept' \in [Clients -> AuthState \cup {None}]
  <2>1. s \in AuthState \cup {None} /\ fresh \in AuthState \cup {None}
    BY <1>1, <1>3
  <2> QED
    BY <1>2, <2>1 DEF AuthInv, Set
<1>6. try' \in [Clients -> AuthTry]
  BY <1>2, NoTryTyped, SetTyped DEF AuthInv
<1> QED
  BY <1>2, <1>4, <1>5, <1>6, AuthSame

LEMMA LostAuth ==
  ASSUME AuthInv, NEW c \in Clients, RequestLost(c) \/ AnswerLost(c)
  PROVE  AuthInv'
<1> DEFINE s == Carried(c).state
<1>1. s \in AuthState \cup {None} /\ s # None
  BY CarriedTyped DEF RequestLost, AnswerLost, Verdict, AuthTry
<1>2. /\ UNCHANGED <<offer, wallet, denied, kept>> /\ try' = Set(try, c, NoTry)
      /\ era' = era \/ era' = [era EXCEPT !.seen[c] = s.count]
  BY DEF RequestLost, AnswerLost
<1> HIDE DEF s
<1>3. era \in Era /\ s.count \in Nat
  BY <1>1 DEF AuthInv, AuthState
<1>4. era' \in Era
  BY <1>2, <1>3, SeenTyped
<1>5. try' \in [Clients -> AuthTry]
  BY <1>2, NoTryTyped, SetTyped DEF AuthInv
<1> QED
  BY <1>2, <1>4, <1>5, AuthSame DEF AuthInv

LEMMA AuthStep == AuthInv /\ [Next]_vars => AuthInv'
<1> SUFFICES ASSUME AuthInv, [Next]_vars PROVE AuthInv'
  OBVIOUS
<1>1. ASSUME NEW c \in Clients, Begin(c) \/ EditorCall(c) \/ Leave(c)
      PROVE  AuthInv'
  <2>1. UNCHANGED <<offer, wallet, era, kept, try, denied>>
    BY <1>1 DEF Begin, EditorCall, Leave, network, session
  <2> QED
    BY <2>1, AuthSame DEF AuthInv
<1>2. CASE Age
  <2>1. UNCHANGED <<offer, wallet, kept, try, denied>> /\ era' \in Era
    BY <1>2 DEF Age, session, caller, AuthInv, Era
  <2> QED
    BY <2>1, AuthSame DEF AuthInv
<1>3. CASE UNCHANGED vars
  <2>1. UNCHANGED <<offer, wallet, era, kept, try, denied>>
    BY <1>3 DEF vars, network, session, caller
  <2> QED
    BY <2>1, AuthSame DEF AuthInv
<1> QED
  BY <1>1, <1>2, <1>3, ChallengedAuth, AnsweredAuth, LostAuth DEF Next

\* A caller whose providers hold the right credentials is never told that they
\* are exhausted, whatever the server offers, whatever nonces expire and
\* whatever requests and answers are lost: RoundTrip rejects credentials only
\* after an answer that does not say stale=true for the scheme they were used
\* with, and selectAuthChallenge always prefers the same scheme.
THEOREM RightPassword == Spec => []RightPasswordEnough
<1>1. AuthInv => RightPasswordEnough
  BY DEF AuthInv
<1> QED
  BY <1>1, AuthInit, AuthStep, PTL DEF Spec

-----------------------------------------------------------------------------
(***************************************************************************)
(* What is left on the server.                                             *)
(***************************************************************************)
IsSeq(q) == q \in Seq({q[i] : i \in DOMAIN q})

\* Records with the fields of an editor, of a transaction and of the store.
IsEditor(e) ==
  e = [txn |-> e.txn, live |-> e.live, done |-> e.done, open |-> e.open, deleted |-> e.deleted,
       added |-> e.added, tokens |-> e.tokens, keep |-> e.keep]

IsTxn(x) == x = [base |-> x.base, tree |-> x.tree, touched |-> x.touched, by |-> x.by]

IsStore(s) ==
  /\ s = [hist |-> s.hist, txns |-> s.txns, locks |-> s.locks, msg |-> s.msg, serial |-> s.serial]
  /\ s.serial \in Nat
  /\ DOMAIN s.txns \subseteq Nat
  /\ \A t \in DOMAIN s.txns : IsTxn(s.txns[t]) /\ s.txns[t].by \in Clients
  /\ s.locks = [n \in Names |-> s.locks[n]]
  /\ \A n \in Names : s.locks[n] # None => s.locks[n].token \in Nat /\ s.locks[n].owner \in Clients

EditMethods == {"TXNPROPS", "HEAD", "DELETE", "MKCOL", "COPY", "PUT", "PROPPATCH"}
OtherMethods == {"LOCK", "UNLOCK", "GETLOCK", "PROPFIND", "PROPSET", "REPORT", "GET"}

All(q, methods) == \A i \in DOMAIN q : q[i].method \in methods

\* A request accepts only the answers that say it was carried out.
Strict(r) ==
  /\ r.method = "LOCK" => r.accepts = {"ok"}
  /\ r.method = "UNLOCK" => r.accepts = {"nocontent"}

\* What is left of a drive: CloseEdit is to come, OpenRoot is not.
Driving(q) ==
  /\ IsSeq(q) /\ q # <<>>
  /\ \A i \in DOMAIN q : q[i].call \in EditorCalls
  /\ \A i \in DOMAIN q : q[i].call = "OpenRoot" => i = 1
  /\ q[Len(q)].call = "CloseEdit"

\* The editor has no transaction that is its to delete.
Quiet(c) == ed[c].txn = None \/ ed[c].done

(***************************************************************************)
(* The places of a commit: between two editor calls, in the requests of    *)
(* OpenRoot, of a call that edits, of CloseEdit, and in an abort.          *)
(***************************************************************************)
Between(c) ==
  /\ todo[c] = <<>> /\ Driving(calls[c])
  /\ calls[c][1].call = "OpenRoot" => ed[c].txn = None

Opening(c) ==
  /\ Driving(calls[c]) /\ calls[c][1].call = "OpenRoot" /\ ed[c].txn = None
  /\ IsSeq(todo[c]) /\ todo[c] # <<>>
  /\ todo[c][1].method = "POST" /\ todo[c][1].accepts = {"created"}
  /\ \A i \in DOMAIN todo[c] : i # 1 => todo[c][i].method = "TXNPROPS"

Changing(c) ==
  /\ Driving(calls[c]) /\ calls[c][1].call # "CloseEdit"
  /\ IsSeq(todo[c]) /\ todo[c] # <<>> /\ All(todo[c], EditMethods)

Merging(c) ==
  /\ Driving(calls[c]) /\ calls[c][1].call = "CloseEdit"
  /\ todo[c] = <<Req("MERGE", "", None, {ed[c].tokens[n] : n \in Names} \ {None}, ~ed[c].keep, {"ok"})>>

Aborting(c) ==
  /\ calls[c] = <<>>
  /\ \E inner \in BOOLEAN : todo[c] = <<DeleteTransaction(inner)>>

\* A commit in progress; and one that is over, whatever became of it.
Busy(c) ==
  /\ told[c] = "busy" /\ ~ed[c].done
  /\ ed[c].txn # None => ed[c].live
  /\ ed[c].tokens = tokens[c]
  /\ Between(c) \/ Opening(c) \/ Changing(c) \/ Merging(c) \/ Aborting(c)

Over(c) == todo[c] = <<>> /\ calls[c] = <<>> /\ Quiet(c)

InStage(c, kinds) == tries[c] > 0 /\ prog[c] # <<>> /\ Stage(c).kind \in kinds

OtherStage(c) ==
  /\ InStage(c, StageKinds \ {"commit"})
  /\ IsSeq(todo[c]) /\ All(todo[c], OtherMethods) /\ \A i \in DOMAIN todo[c] : Strict(todo[c][i])
  /\ calls[c] = <<>> /\ Quiet(c)

ClientPlace(c) ==
  \/ tries[c] = 0 /\ Over(c)
  \/ OtherStage(c)
  \/ InStage(c, {"commit"}) /\ (Busy(c) \/ Over(c))

LeftInv ==
  /\ IsStore(srv)
  /\ prog \in [Clients -> Seq(Stages)]
  /\ tries \in [Clients -> Nat]
  /\ tokens \in [Clients -> [Names -> Nat \cup {None}]]
  /\ ed = [c \in Clients |-> ed[c]] /\ \A c \in Clients : IsEditor(ed[c])
  /\ \A c \in Clients : ed[c].txn \in Nat \cup {None} /\ ed[c].done \in BOOLEAN /\ ed[c].live \in BOOLEAN
  /\ todo = [c \in Clients |-> todo[c]] /\ calls = [c \in Clients |-> calls[c]]
  /\ told = [c \in Clients |-> told[c]]
  /\ \A c \in Clients : ClientPlace(c)
  /\ NothingLeftBehind

-----------------------------------------------------------------------------
(***************************************************************************)
(* Sequences.                                                              *)
(***************************************************************************)
LEMMA SeqOf ==
  ASSUME NEW S, NEW q \in Seq(S)
  PROVE  IsSeq(q)
<1>1. Len(q) \in Nat /\ DOMAIN q = 1..Len(q) /\ q \in [1..Len(q) -> S]
  BY LenProperties
<1>2. q \in [1..Len(q) -> {q[i] : i \in DOMAIN q}]
  BY <1>1
<1> QED
  BY SMTT(60), <1>1, <1>2, IsASeq DEF IsSeq

LEMMA SeqSingle ==
  ASSUME NEW x
  PROVE  /\ IsSeq(<<x>>) /\ <<x>> # <<>> /\ Len(<<x>>) = 1
         /\ Tail(<<x>>) = <<>> /\ Head(<<x>>) = x
         /\ \A i \in DOMAIN <<x>> : i = 1 /\ <<x>>[i] = x
<1>1. <<x>> \in Seq({x})
  OBVIOUS
<1>2. IsSeq(<<x>>)
  BY <1>1, SeqOf
<1> QED
  BY <1>2

LEMMA SeqEmpty == IsSeq(<<>>) /\ \A i \in DOMAIN <<>> : FALSE
<1>1. <<>> \in Seq({})
  OBVIOUS
<1>2. IsSeq(<<>>)
  BY <1>1, SeqOf
<1> QED
  BY <1>2

LEMMA SeqTail ==
  ASSUME NEW q, IsSeq(q), q # <<>>
  PROVE  /\ 1 \in DOMAIN q /\ Head(q) = q[1] /\ Len(q) \in Nat \ {0}
         /\ IsSeq(Tail(q)) /\ Len(Tail(q)) = Len(q) - 1
         /\ \A i \in DOMAIN Tail(q) : i + 1 \in DOMAIN q /\ i + 1 # 1 /\ Tail(q)[i] = q[i + 1]
<1> DEFINE S == {q[i] : i \in DOMAIN q}
<1>1. q \in Seq(S)
  BY DEF IsSeq
<1> HIDE DEF S
<1>2. Len(q) \in Nat /\ DOMAIN q = 1..Len(q) /\ Len(q) # 0
  BY <1>1, EmptySeq, LenProperties
<1>3. Tail(q) \in Seq(S) /\ Len(Tail(q)) = Len(q) - 1 /\ Head(q) = q[1]
      /\ \A i \in 1..Len(Tail(q)) : Tail(q)[i] = q[i + 1]
  BY <1>1, HeadTailProperties
<1>4. IsSeq(Tail(q)) /\ DOMAIN Tail(q) = 1..Len(Tail(q))
  BY <1>3, SeqOf, LenProperties
<1> DEFINE n == Len(q)
<1>5. n \in Nat /\ n # 0 /\ DOMAIN q = 1..n /\ DOMAIN Tail(q) = 1..(n - 1)
  BY <1>2, <1>3, <1>4
<1>6. \A i \in DOMAIN Tail(q) : Tail(q)[i] = q[i + 1]
  BY <1>3, <1>4
<1> HIDE DEF n
<1>7. 1 \in 1..n /\ \A i \in 1..(n - 1) : i + 1 \in 1..n /\ i + 1 # 1
  BY <1>5
<1>8. 1 \in DOMAIN q /\ n \in Nat \ {0}
      /\ \A i \in DOMAIN Tail(q) : i + 1 \in DOMAIN q /\ i + 1 # 1
  BY <1>5, <1>7
<1> QED
  BY <1>3, <1>4, <1>6, <1>8 DEF n

LEMMA SeqConcat ==
  ASSUME NEW p, NEW q, IsSeq(p), IsSeq(q)
  PROVE  /\ IsSeq(p \o q)
         /\ \A i \in DOMAIN (p \o q) : \/ \E j \in DOMAIN p : (p \o q)[i] = p[j]
                                       \/ \E j \in DOMAIN q : (p \o q)[i] = q[j]
<1> DEFINE S == {p[i] : i \in DOMAIN p}
           T == {q[i] : i \in DOMAIN q}
<1>1. p \in Seq(S \cup T) /\ q \in Seq(S \cup T)
  BY SeqMonotonic DEF IsSeq
<1>2. p \o q \in Seq(S \cup T)
  BY <1>1, ConcatProperties
<1>3. IsSeq(p \o q)
  BY <1>2, SeqOf
<1>4. \A i \in DOMAIN (p \o q) : (p \o q)[i] \in S \cup T
  BY <1>2, ElementOfSeq, LenProperties
<1> QED
  BY <1>3, <1>4

LEMMA AllTail ==
  ASSUME NEW q, IsSeq(q), q # <<>>, NEW methods, All(q, methods)
  PROVE  Head(q).method \in methods /\ All(Tail(q), methods)
BY SeqTail DEF All

\* What is left of a drive after a call that is not the last.
LEMMA DrivingTail ==
  ASSUME NEW q, Driving(q)
  PROVE  /\ Head(q) = q[1] /\ q[1].call \in EditorCalls
         /\ q[1].call # "CloseEdit" => Driving(Tail(q)) /\ Tail(q)[1].call # "OpenRoot"
<1> DEFINE n == Len(q)
           r == Tail(q)
<1>1. /\ IsSeq(q) /\ q # <<>> /\ 1 \in DOMAIN q /\ Head(q) = q[1] /\ n \in Nat \ {0}
      /\ IsSeq(r) /\ Len(r) = n - 1
      /\ \A i \in DOMAIN r : i + 1 \in DOMAIN q /\ i + 1 # 1 /\ r[i] = q[i + 1]
  BY SeqTail DEF Driving
<1>2. q[1].call \in EditorCalls /\ q[n].call = "CloseEdit"
  BY <1>1 DEF Driving
<1>3. ASSUME q[1].call # "CloseEdit"
      PROVE  Driving(r) /\ r[1].call # "OpenRoot"
  <2>1. n # 1
    BY <1>2, <1>3
  <2>2. DOMAIN r = 1..Len(r)
    BY <1>1, LenProperties DEF IsSeq
  <2> HIDE DEF n, r
  <2>3. n - 1 \in 1..(n - 1) /\ 1 \in 1..(n - 1) /\ (n - 1) + 1 = n /\ Len(r) # 0
    BY <1>1, <2>1
  <2>4. DOMAIN r = 1..(n - 1)
    BY <1>1, <2>2
  <2>5. r[Len(r)].call = "CloseEdit"
    BY <1>1, <1>2, <2>3, <2>4
  <2>6. r # <<>>
    BY <2>3
  <2>7. \A i \in DOMAIN r : r[i].call \in EditorCalls /\ r[i].call # "OpenRoot"
    BY <1>1 DEF Driving
  <2>8. r[1].call # "OpenRoot"
    BY <2>3, <2>4, <2>7
  <2> QED
    BY <1>1, <2>5, <2>6, <2>7, <2>8 DEF Driving
<1> QED
  BY <1>1, <1>2, <1>3

-----------------------------------------------------------------------------
(***************************************************************************)
(* What the server makes of a request, as far as transactions and locks    *)
(* go.                                                                     *)
(***************************************************************************)
LEMMA StoreFields ==
  ASSUME NEW s, IsStore(s), NEW x
  PROVE  /\ [s EXCEPT !.txns = x] = [hist |-> s.hist, txns |-> x, locks |-> s.locks,
                                     msg |-> s.msg, serial |-> s.serial]
         /\ [s EXCEPT !.locks = x] = [hist |-> s.hist, txns |-> s.txns, locks |-> x,
                                      msg |-> s.msg, serial |-> s.serial]
         /\ [s EXCEPT !.msg = x] = [hist |-> s.hist, txns |-> s.txns, locks |-> s.locks,
                                    msg |-> x, serial |-> s.serial]
         /\ [s EXCEPT !.hist = x] = [hist |-> x, txns |-> s.txns, locks |-> s.locks,
                                    msg |-> s.msg, serial |-> s.serial]
         /\ [s EXCEPT !.serial = x] = [hist |-> s.hist, txns |-> s.txns, locks |-> s.locks,
                                       msg |-> s.msg, serial |-> x]
<1> DEFINE h == s.hist
           t == s.txns
           l == s.locks
           m == s.msg
           k == s.serial
<1>1. s = [hist |-> h, txns |-> t, locks |-> l, msg |-> m, serial |-> k]
  BY DEF IsStore
<1> HIDE DEF h, t, l, m, k
<1> QED
  BY <1>1

Merged(s, x, y, z) == [s EXCEPT !.hist = x, !.txns = y, !.locks = z]

LEMMA MergeFields ==
  ASSUME NEW s, IsStore(s), NEW x, NEW y, NEW z
  PROVE  Merged(s, x, y, z)
           = [hist |-> x, txns |-> y, locks |-> z, msg |-> s.msg, serial |-> s.serial]
<1> DEFINE a == [s EXCEPT !.hist = x]
           b == [a EXCEPT !.txns = y]
           d == [b EXCEPT !.locks = z]
           m == s.msg
           k == s.serial
<1>1. a = [hist |-> x, txns |-> s.txns, locks |-> s.locks, msg |-> m, serial |-> k]
  BY ZenonT(60), StoreFields
<1>2. Merged(s, x, y, z) = d
  BY DEF Merged
<1> HIDE DEF a, m, k
<1>3. b = [hist |-> x, txns |-> y, locks |-> s.locks, msg |-> m, serial |-> k]
  BY <1>1
<1> HIDE DEF b
<1>4. d = [hist |-> x, txns |-> y, locks |-> z, msg |-> m, serial |-> k]
  BY <1>3
<1> QED
  BY <1>2, <1>4 DEF m, k

LEMMA TxnFields ==
  ASSUME NEW x, IsTxn(x), NEW v
  PROVE  /\ [x EXCEPT !.tree = v] = [base |-> x.base, tree |-> v, touched |-> x.touched, by |-> x.by]
         /\ [x EXCEPT !.touched = v] = [base |-> x.base, tree |-> x.tree, touched |-> v, by |-> x.by]
<1> DEFINE b == x.base
           t == x.tree
           u == x.touched
           y == x.by
<1>1. x = [base |-> b, tree |-> t, touched |-> u, by |-> y]
  BY DEF IsTxn
<1> HIDE DEF b, t, u, y
<1> QED
  BY <1>1

\* The parts of a store that matter here.
IsTxns(x) ==
  DOMAIN x \subseteq Nat /\ \A t \in DOMAIN x : IsTxn(x[t]) /\ x[t].by \in Clients

IsLocks(x) ==
  /\ x = [n \in Names |-> x[n]]
  /\ \A n \in Names : x[n] # None => x[n].token \in Nat /\ x[n].owner \in Clients

LEMMA StoreIs ==
  ASSUME NEW h, NEW x, NEW l, NEW m, NEW k \in Nat, IsTxns(x), IsLocks(l)
  PROVE  IsStore([hist |-> h, txns |-> x, locks |-> l, msg |-> m, serial |-> k])
BY DEF IsStore, IsTxns, IsLocks

LEMMA StoreParts ==
  ASSUME NEW s, IsStore(s)
  PROVE  IsTxns(s.txns) /\ IsLocks(s.locks) /\ s.serial \in Nat
BY DEF IsStore, IsTxns, IsLocks

\* An edit of a transaction.
LEMMA ChangeIs ==
  ASSUME IsStore(srv), NEW c \in Clients, NEW tree, NEW touched
  PROVE  LET s == Change(c, tree, touched)
         IN  /\ IsStore(s) /\ s.locks = srv.locks /\ DOMAIN s.txns = DOMAIN srv.txns
             /\ s.hist = srv.hist
             /\ \A t \in DOMAIN s.txns : s.txns[t].by = srv.txns[t].by
<1> DEFINE t == ed[c].txn
           old == srv.txns
           one == [old EXCEPT ![t] = [old[t] EXCEPT !.tree = tree]]
           new == [one EXCEPT ![t] = [one[t] EXCEPT !.touched = @ \cup touched]]
           s == Change(c, tree, touched)
<1>1. s = [srv EXCEPT !.txns[t].tree = tree, !.txns[t].touched = @ \cup touched]
  BY DEF Change
<1>2. /\ IsTxns(old) /\ IsLocks(srv.locks) /\ srv.serial \in Nat
      /\ srv = [hist |-> srv.hist, txns |-> old, locks |-> srv.locks,
                msg |-> srv.msg, serial |-> srv.serial]
  BY StoreParts DEF IsStore
<1> DEFINE h == srv.hist
           l == srv.locks
           m == srv.msg
           k == srv.serial
<1>3. s = [hist |-> h, txns |-> new, locks |-> l, msg |-> m, serial |-> k]
  <2>1. srv = [hist |-> h, txns |-> old, locks |-> l, msg |-> m, serial |-> k]
    BY <1>2
  <2> DEFINE mid == [srv EXCEPT !.txns = one]
  <2>2. s = [mid EXCEPT !.txns = new]
    BY <1>1, <2>1
  <2>3. mid = [hist |-> h, txns |-> one, locks |-> l, msg |-> m, serial |-> k]
    BY StoreFields
  <2> HIDE DEF mid, new, one
  <2> QED
    BY <2>2, <2>3
<1>4. /\ DOMAIN new = DOMAIN old
      /\ \A u \in DOMAIN new : IsTxn(new[u]) /\ new[u].by = old[u].by
  <2>1. DOMAIN one = DOMAIN old /\ DOMAIN new = DOMAIN old
    OBVIOUS
  <2>2. ASSUME NEW u \in DOMAIN old, u # t
        PROVE  new[u] = old[u]
    BY <2>2
  <2>3. ASSUME t \in DOMAIN old
        PROVE  IsTxn(new[t]) /\ new[t].by = old[t].by
    <3> DEFINE x == old[t]
               y == [x EXCEPT !.tree = tree]
               z == [y EXCEPT !.touched = @ \cup touched]
    <3>1. new[t] = z
      BY <2>3
    <3>2. IsTxn(x)
      BY <1>2, <2>3 DEF IsTxns
    <3> HIDE DEF x
    <3> DEFINE more == y.touched \cup touched
    <3>3. y = [base |-> x.base, tree |-> tree, touched |-> x.touched, by |-> x.by]
      BY <3>2, TxnFields
    <3> HIDE DEF y
    <3>4. IsTxn(y) /\ y.by = x.by
      BY <3>3 DEF IsTxn
    <3>5. z = [base |-> y.base, tree |-> y.tree, touched |-> more, by |-> y.by]
      BY <3>4, TxnFields
    <3> HIDE DEF z, more
    <3>6. IsTxn(z) /\ z.by = x.by
      BY <3>4, <3>5 DEF IsTxn
    <3> QED
      BY <3>1, <3>6 DEF x
  <2>4. \A u \in DOMAIN old : IsTxn(old[u])
    BY <1>2 DEF IsTxns
  <2> HIDE DEF new, one, old
  <2> QED
    BY <2>1, <2>2, <2>3, <2>4
<1>5. IsTxns(new)
  BY <1>2, <1>4 DEF IsTxns
<1> HIDE DEF new, s
<1>6. IsStore(s)
  BY <1>2, <1>3, <1>5, StoreIs
<1>7. s.txns = new /\ s.locks = srv.locks /\ s.hist = srv.hist
  BY <1>3
<1> QED
  BY <1>4, <1>6, <1>7 DEF s

\* The store s has no transaction and no lock that srv has not.
NoMore(s) ==
  /\ IsStore(s)
  /\ \A t \in DOMAIN s.txns : t \in DOMAIN srv.txns /\ s.txns[t].by = srv.txns[t].by
  /\ \A n \in Names : s.locks[n] = None \/ s.locks[n] = srv.locks[n]

LEMMA EditServed ==
  ASSUME NEW c, NEW r
  PROVE  LET a == Serve_Edit(c, r)
         IN  a.srv = srv \/ \E tree, touched : a.srv = Change(c, tree, touched)
BY DEF Serve_Edit, Answer, Refusal

LEMMA EditNoMore ==
  ASSUME IsStore(srv), NEW c \in Clients, NEW r
  PROVE  NoMore(Serve_Edit(c, r).srv)
<1> DEFINE a == Serve_Edit(c, r)
<1>1. a.srv = srv \/ \E tree, touched : a.srv = Change(c, tree, touched)
  BY EditServed
<1> HIDE DEF a
<1>2. NoMore(srv)
  BY DEF NoMore
<1>3. \A tree, touched : NoMore(Change(c, tree, touched))
  BY ChangeIs DEF NoMore
<1>4. NoMore(a.srv)
  BY <1>1, <1>2, <1>3
<1> QED
  BY <1>4 DEF a

\* POST makes a transaction of the client's.
LEMMA PostServed ==
  ASSUME IsStore(srv), NEW c \in Clients, NEW r, r.method = "POST"
  PROVE  LET a == Serve(c, r)
         IN  /\ IsStore(a.srv) /\ a.srv.locks = srv.locks
             /\ a.status = "created" /\ a.value \in Nat
             /\ \A t \in DOMAIN a.srv.txns :
                   \/ t = a.value /\ a.srv.txns[t].by = c
                   \/ t \in DOMAIN srv.txns /\ a.srv.txns[t].by = srv.txns[t].by
<1> DEFINE new == srv.serial + 1
           old == srv.txns
           made == [base |-> head, tree |-> Tree(head), touched |-> {}, by |-> c]
           txns == [t \in DOMAIN old \cup {new} |-> IF t = new THEN made ELSE old[t]]
           s == [srv EXCEPT !.serial = new, !.txns = txns]
           a == Serve(c, r)
<1>1. a.status = "created" /\ a.value = new /\ a.srv = s
  BY DEF Serve, Answer
<1>2. IsTxns(old) /\ IsLocks(srv.locks) /\ srv.serial \in Nat /\ new \in Nat
  BY StoreParts
<1>3. IsTxn(made) /\ made.by = c
  BY DEF IsTxn
<1>4. /\ \A t : t \in DOMAIN txns <=> t \in DOMAIN old \/ t = new
      /\ \A t \in DOMAIN txns : txns[t] = IF t = new THEN made ELSE old[t]
  OBVIOUS
<1>5. s = [hist |-> srv.hist, txns |-> txns, locks |-> srv.locks, msg |-> srv.msg, serial |-> new]
  <2> DEFINE mid == [srv EXCEPT !.serial = new]
  <2>1. mid = [hist |-> srv.hist, txns |-> srv.txns, locks |-> srv.locks, msg |-> srv.msg,
               serial |-> new]
    BY StoreFields
  <2>2. s = [mid EXCEPT !.txns = txns]
    BY DEF IsStore
  <2> HIDE DEF txns, new, mid
  <2> QED
    BY <2>1, <2>2
<1> HIDE DEF made, txns, new, s, a
<1>6. IsTxns(txns)
  BY <1>2, <1>3, <1>4 DEF IsTxns
<1>7. IsStore(s) /\ s.locks = srv.locks /\ s.txns = txns
  BY <1>2, <1>5, <1>6, StoreIs
<1>8. \A t \in DOMAIN txns : \/ t = new /\ txns[t].by = c
                             \/ t \in DOMAIN old /\ txns[t].by = old[t].by
  BY <1>3, <1>4
<1> QED
  BY <1>1, <1>2, <1>7, <1>8 DEF a, old

\* LOCK, when it succeeds, gives the client a lock with a new token.
LEMMA LockServed ==
  ASSUME IsStore(srv), NEW c \in Clients, NEW r, r.method = "LOCK"
  PROVE  LET a == Serve(c, r)
         IN  /\ IsStore(a.srv) /\ a.srv.txns = srv.txns
             /\ a.status # "ok" => a.srv = srv
             /\ a.status = "ok" =>
                   /\ a.value \in Nat
                   /\ \A n \in Names : a.srv.locks[n] = IF n = r.name
                                                        THEN [token |-> a.value, owner |-> c]
                                                        ELSE srv.locks[n]
<1> DEFINE new == srv.serial + 1
           lock == [token |-> new, owner |-> c]
           locks == [srv.locks EXCEPT ![r.name] = lock]
           s == [srv EXCEPT !.serial = new, !.locks = locks]
           a == Serve(c, r)
<1>1. \/ a.srv = srv /\ a.status # "ok"
      \/ a.srv = s /\ a.status = "ok" /\ a.value = new
  BY DEF Serve, Answer, Refusal
<1>2. IsTxns(srv.txns) /\ IsLocks(srv.locks) /\ srv.serial \in Nat /\ new \in Nat
  BY StoreParts
<1>3. DOMAIN srv.locks = Names
  BY <1>2 DEF IsLocks
<1>4. \A n \in Names : locks[n] = IF n = r.name THEN lock ELSE srv.locks[n]
  BY <1>3
<1>5. locks = [n \in Names |-> locks[n]]
  BY <1>3
<1>6. s = [hist |-> srv.hist, txns |-> srv.txns, locks |-> locks, msg |-> srv.msg, serial |-> new]
  <2> DEFINE mid == [srv EXCEPT !.serial = new]
  <2>1. mid = [hist |-> srv.hist, txns |-> srv.txns, locks |-> srv.locks, msg |-> srv.msg,
               serial |-> new]
    BY StoreFields
  <2>2. s = [mid EXCEPT !.locks = locks]
    BY DEF IsStore
  <2> HIDE DEF locks, new, mid
  <2> QED
    BY <2>1, <2>2
<1>7. lock.token = new /\ lock.owner = c
  OBVIOUS
<1> HIDE DEF lock, locks, new, s, a
<1>8. IsLocks(locks)
  BY <1>2, <1>4, <1>5, <1>7 DEF IsLocks
<1>9. IsStore(s) /\ s.locks = locks /\ s.txns = srv.txns
  BY <1>2, <1>6, <1>8, StoreIs
<1> QED
  BY <1>1, <1>2, <1>4, <1>9 DEF a, lock

\* ABORT and a MERGE that succeeds end the transaction; the MERGE frees the
\* locks it is asked to.
LEMMA EndServed ==
  ASSUME IsStore(srv), NEW c \in Clients, NEW r, r.method \in {"ABORT", "MERGE"}
  PROVE  LET a == Serve(c, r)
         IN  /\ NoMore(a.srv)
             /\ r.method = "ABORT" => ed[c].txn \notin DOMAIN a.srv.txns
             /\ r.method = "MERGE" /\ a.status = "ok" =>
                   /\ ed[c].txn \notin DOMAIN a.srv.txns
                   /\ r.what => \A n \in Names :
                        srv.locks[n] # None /\ srv.locks[n].token \in r.held => a.srv.locks[n] = None
<1> DEFINE a == Serve(c, r)
           old == srv.txns
           left == [t \in DOMAIN old \ {ed[c].txn} |-> old[t]]
<1>1. /\ IsTxns(old) /\ IsLocks(srv.locks) /\ srv.serial \in Nat
      /\ srv = [hist |-> srv.hist, txns |-> old, locks |-> srv.locks,
                msg |-> srv.msg, serial |-> srv.serial]
  BY StoreParts DEF IsStore
<1>2. /\ DOMAIN left = DOMAIN old \ {ed[c].txn}
      /\ \A t \in DOMAIN left : left[t] = old[t]
  OBVIOUS
<1>3. NoMore(srv)
  BY DEF NoMore
<1> HIDE DEF left
<1>4. IsTxns(left)
  BY <1>1, <1>2 DEF IsTxns
<1>5. CASE r.method = "ABORT"
  <2>1. a = IF ed[c].txn \in DOMAIN srv.txns
            THEN Answer("nocontent", None, [srv EXCEPT !.txns = left])
            ELSE Refusal("notfound")
    BY <1>5 DEF Serve, left
  <2> DEFINE s == [srv EXCEPT !.txns = left]
  <2>2. s = [hist |-> srv.hist, txns |-> left, locks |-> srv.locks,
             msg |-> srv.msg, serial |-> srv.serial]
    BY StoreFields
  <2> HIDE DEF s
  <2>3. IsStore(s) /\ s.txns = left /\ s.locks = srv.locks
    BY <1>1, <1>4, <2>2, StoreIs
  <2>4. NoMore(s) /\ ed[c].txn \notin DOMAIN s.txns
    BY <1>2, <2>3 DEF NoMore
  <2>5. \/ ed[c].txn \notin DOMAIN srv.txns /\ a.srv = srv
        \/ a.srv = s
    BY <2>1 DEF Answer, Refusal, s
  <2> HIDE DEF a
  <2>6. NoMore(a.srv) /\ ed[c].txn \notin DOMAIN a.srv.txns
    BY <1>3, <2>4, <2>5
  <2> QED
    BY <1>5, <2>6 DEF a
<1>6. CASE r.method = "MERGE"
  <2> DEFINE Freed == {n \in Names : srv.locks[n] # None /\ r.what /\ srv.locks[n].token \in r.held}
             locks == [n \in Names |-> IF n \in Freed THEN None ELSE srv.locks[n]]
  <2>1. \/ a.srv = srv /\ a.status # "ok"
        \/ \E entry : a.srv = [srv EXCEPT !.hist = Append(@, entry), !.txns = left, !.locks = locks]
    BY Zenon, <1>6 DEF Serve, Serve_Merge, Answer, Refusal, left
  <2>2. \A n \in Names : /\ locks[n] = None \/ locks[n] = srv.locks[n]
                         /\ srv.locks[n] # None /\ r.what /\ srv.locks[n].token \in r.held =>
                              locks[n] = None
    OBVIOUS
  <2>3. locks = [n \in Names |-> locks[n]]
    OBVIOUS
  <2> HIDE DEF locks, a
  <2>4. IsLocks(locks)
    BY <1>1, <2>2, <2>3 DEF IsLocks
  <2>5. ASSUME NEW entry
        PROVE  [srv EXCEPT !.hist = Append(@, entry), !.txns = left, !.locks = locks]
                 = [hist |-> Append(srv.hist, entry), txns |-> left, locks |-> locks,
                    msg |-> srv.msg, serial |-> srv.serial]
    <3> DEFINE more == Append(srv.hist, entry)
    <3> HIDE DEF more
    <3>1. Merged(srv, more, left, locks)
            = [hist |-> more, txns |-> left, locks |-> locks, msg |-> srv.msg, serial |-> srv.serial]
      BY MergeFields
    <3> QED
      BY <3>1 DEF more, Merged
  <2>6. ASSUME a.srv # srv \/ a.status = "ok"
        PROVE  IsStore(a.srv) /\ a.srv.txns = left /\ a.srv.locks = locks
    <3>1. PICK entry : a.srv = [hist |-> Append(srv.hist, entry), txns |-> left, locks |-> locks,
                                msg |-> srv.msg, serial |-> srv.serial]
      BY <2>1, <2>5, <2>6
    <3> QED
      BY <1>1, <1>4, <2>4, <3>1, StoreIs
  <2>7. ASSUME a.srv # srv \/ a.status = "ok"
        PROVE  NoMore(a.srv)
    BY <1>2, <2>2, <2>6, <2>7 DEF NoMore
  <2> QED
    BY <1>2, <1>3, <1>6, <2>2, <2>6, <2>7 DEF a
<1> QED
  BY <1>5, <1>6

\* UNLOCK, when it succeeds, removes the lock.
LEMMA UnlockServed ==
  ASSUME IsStore(srv), NEW c \in Clients, NEW r, r.method = "UNLOCK"
  PROVE  LET a == Serve(c, r)
         IN  /\ NoMore(a.srv)
             /\ a.status = "nocontent" /\ r.name \in Names => a.srv.locks[r.name] = None
<1> DEFINE a == Serve(c, r)
           locks == [srv.locks EXCEPT ![r.name] = None]
           s == [srv EXCEPT !.locks = locks]
<1>1. \/ a.srv = srv /\ a.status # "nocontent"
      \/ a.srv = s
  BY DEF Serve, Answer, Refusal
<1>2. IsTxns(srv.txns) /\ IsLocks(srv.locks) /\ srv.serial \in Nat
  BY StoreParts
<1>3. DOMAIN srv.locks = Names
  BY <1>2 DEF IsLocks
<1>4. /\ \A n \in Names : locks[n] = IF n = r.name THEN None ELSE srv.locks[n]
      /\ locks = [n \in Names |-> locks[n]]
  BY <1>3
<1>5. s = [hist |-> srv.hist, txns |-> srv.txns, locks |-> locks, msg |-> srv.msg,
           serial |-> srv.serial]
  <2> HIDE DEF locks
  <2> QED
    BY StoreFields
<1> HIDE DEF locks, s, a
<1>6. IsLocks(locks)
  BY <1>2, <1>4 DEF IsLocks
<1>7. IsStore(s) /\ s.locks = locks /\ s.txns = srv.txns
  BY <1>2, <1>5, <1>6, StoreIs
<1>8. NoMore(s) /\ NoMore(srv)
  BY <1>4, <1>7 DEF NoMore
<1> QED
  BY <1>1, <1>4, <1>7, <1>8 DEF a

\* Any other request leaves transactions and locks as they are.
LEMMA OthersServed ==
  ASSUME IsStore(srv), NEW c \in Clients, NEW r,
         r.method \notin {"POST", "LOCK", "ABORT", "MERGE", "UNLOCK"}
  PROVE  NoMore(Serve(c, r).srv)
<1> DEFINE a == Serve(c, r)
<1>1. NoMore(srv)
  BY DEF NoMore
<1>2. \/ a = Serve_Edit(c, r)
      \/ a.srv = srv
      \/ \E m : a.srv = [srv EXCEPT !.msg = m]
  <2>1. CASE r.method \in {"TXNPROPS", "HEAD", "GETLOCK", "PROPFIND", "REPORT", "GET"}
    BY <2>1 DEF Serve, Answer, Refusal
  <2>2. CASE r.method = "PROPSET"
    BY <2>2 DEF Serve, Answer, Refusal
  <2>3. CASE r.method \notin {"TXNPROPS", "HEAD", "GETLOCK", "PROPFIND", "REPORT", "GET", "PROPSET"}
    BY <2>3 DEF Serve
  <2> QED
    BY <2>1, <2>2, <2>3
<1>3. ASSUME NEW m
      PROVE  NoMore([srv EXCEPT !.msg = m])
  <2> DEFINE s == [srv EXCEPT !.msg = m]
  <2>1. s = [hist |-> srv.hist, txns |-> srv.txns, locks |-> srv.locks, msg |-> m,
             serial |-> srv.serial]
    BY StoreFields
  <2> HIDE DEF s
  <2>2. IsStore(s) /\ s.locks = srv.locks /\ s.txns = srv.txns
    BY <2>1, StoreParts, StoreIs
  <2>3. NoMore(s)
    BY <2>2 DEF NoMore
  <2> QED
    BY <2>3 DEF s
<1> HIDE DEF a
<1>4. NoMore(a.srv)
  BY <1>1, <1>2, <1>3, EditNoMore
<1> QED
  BY <1>4 DEF a

-----------------------------------------------------------------------------
(***************************************************************************)
(* A step of one client.                                                   *)
(***************************************************************************)
\* g is f but for what it gives c.
Moves(f, g, c) ==
  g = [d \in Clients |-> g[d]] /\ \A d \in Clients : d # c => g[d] = f[d]

LEMMA MovesSet ==
  ASSUME NEW f, f = [d \in Clients |-> f[d]], NEW c \in Clients, NEW v
  PROVE  Moves(f, Set(f, c, v), c) /\ Set(f, c, v)[c] = v /\ Moves(f, f, c)
<1> DEFINE g == Set(f, c, v)
<1>1. DOMAIN f = Clients
  OBVIOUS
<1>2. /\ g = [d \in Clients |-> g[d]] /\ g[c] = v
      /\ \A d \in Clients : d # c => g[d] = f[d]
  BY <1>1 DEF Set
<1> HIDE DEF g
<1>3. Moves(f, g, c) /\ g[c] = v
  BY <1>2 DEF Moves
<1>4. Moves(f, f, c)
  BY DEF Moves
<1> QED
  BY <1>3, <1>4 DEF g

\* What the step leaves of the client's own parts.
Parts(c) ==
  /\ prog[c] \in Seq(Stages) /\ tries[c] \in Nat
  /\ tokens[c] \in [Names -> Nat \cup {None}]
  /\ IsEditor(ed[c]) /\ ed[c].txn \in Nat \cup {None}
  /\ ed[c].done \in BOOLEAN /\ ed[c].live \in BOOLEAN

Mapped ==
  /\ prog = [c \in Clients |-> prog[c]] /\ tries = [c \in Clients |-> tries[c]]
  /\ tokens = [c \in Clients |-> tokens[c]] /\ ed = [c \in Clients |-> ed[c]]
  /\ todo = [c \in Clients |-> todo[c]] /\ calls = [c \in Clients |-> calls[c]]
  /\ told = [c \in Clients |-> told[c]]

LEMMA MovesNone ==
  ASSUME Mapped, NEW c \in Clients
  PROVE  /\ Moves(prog, prog, c) /\ Moves(tries, tries, c) /\ Moves(tokens, tokens, c)
         /\ Moves(ed, ed, c) /\ Moves(todo, todo, c) /\ Moves(calls, calls, c) /\ Moves(told, told, c)
BY DEF Mapped, Moves

LEMMA LeftParts ==
  ASSUME LeftInv
  PROVE  Mapped /\ \A c \in Clients : Parts(c) /\ ClientPlace(c)
BY DEF LeftInv, Mapped, Parts

\* Only c moves.
Alone(c) ==
  /\ Moves(prog, prog', c) /\ Moves(tries, tries', c) /\ Moves(tokens, tokens', c)
  /\ Moves(ed, ed', c) /\ Moves(todo, todo', c) /\ Moves(calls, calls', c) /\ Moves(told, told', c)

\* Every transaction and lock that the step leaves is excused, or its owner
\* knows of it, as before or since the step.
TxnsKept(c) ==
  \A t \in DOMAIN srv'.txns :
    \/ <<"txn", t>> \in excused'
    \/ srv'.txns[t].by = c /\ ed'[c].txn = t /\ ~ed'[c].done
    \/ /\ t \in DOMAIN srv.txns /\ srv'.txns[t].by = srv.txns[t].by
       /\ srv.txns[t].by = c /\ ed[c].txn = t /\ ~ed[c].done => ed'[c].txn = t /\ ~ed'[c].done

LocksKept(c) ==
  \A n \in Names : srv'.locks[n] # None =>
    \/ <<"lock", srv'.locks[n].token>> \in excused'
    \/ srv'.locks[n].owner = c /\ tokens'[c][n] = srv'.locks[n].token
    \/ /\ srv'.locks[n] = srv.locks[n]
       /\ tokens[c][n] = srv.locks[n].token /\ srv.locks[n].owner = c =>
             tokens'[c][n] = srv.locks[n].token

LEMMA PlaceSame ==
  ASSUME NEW d \in Clients, ClientPlace(d),
         prog'[d] = prog[d], tries'[d] = tries[d], tokens'[d] = tokens[d], ed'[d] = ed[d],
         todo'[d] = todo[d], calls'[d] = calls[d], told'[d] = told[d]
  PROVE  ClientPlace(d)'
<1>1. /\ prog'[d] = prog[d] /\ tries'[d] = tries[d] /\ tokens'[d] = tokens[d] /\ ed'[d] = ed[d]
      /\ todo'[d] = todo[d] /\ calls'[d] = calls[d] /\ told'[d] = told[d]
  OBVIOUS
<1>2. Stage(d)' = Stage(d) /\ Quiet(d)' = Quiet(d)
  BY <1>1 DEF Stage, Quiet
<1>3. Between(d)' = Between(d) /\ Opening(d)' = Opening(d) /\ Changing(d)' = Changing(d)
  BY <1>1 DEF Between, Opening, Changing
<1>4. Merging(d)' = Merging(d) /\ Aborting(d)' = Aborting(d)
  BY <1>1 DEF Merging, Aborting
<1>5. Busy(d)' = Busy(d)
  BY <1>1, <1>3, <1>4 DEF Busy
<1>6. Over(d)' = Over(d)
  BY <1>1, <1>2 DEF Over
<1>7. \A kinds : InStage(d, kinds)' = InStage(d, kinds)
  BY <1>1, <1>2 DEF InStage
<1>8. OtherStage(d)' = OtherStage(d)
  BY <1>1, <1>2, <1>7 DEF OtherStage
<1> QED
  BY <1>1, <1>5, <1>6, <1>7, <1>8 DEF ClientPlace

LEMMA OthersPlace ==
  ASSUME NEW c \in Clients, Alone(c), NEW d \in Clients, d # c, ClientPlace(d)
  PROVE  ClientPlace(d)'
<1>1. /\ prog'[d] = prog[d] /\ tries'[d] = tries[d] /\ tokens'[d] = tokens[d] /\ ed'[d] = ed[d]
      /\ todo'[d] = todo[d] /\ calls'[d] = calls[d] /\ told'[d] = told[d]
  BY DEF Alone, Moves
<1> QED
  BY <1>1, PlaceSame

LEMMA StepLeft ==
  ASSUME LeftInv, NEW c \in Clients, Alone(c), IsStore(srv'), Parts(c)', ClientPlace(c)',
         excused \subseteq excused', TxnsKept(c), LocksKept(c)
  PROVE  LeftInv'
<1>1. Mapped'
  BY DEF Alone, Moves, Mapped
<1>2. \A d \in Clients : Parts(d)'
  <2> SUFFICES ASSUME NEW d \in Clients, d # c PROVE Parts(d)'
    OBVIOUS
  <2>1. prog'[d] = prog[d] /\ tries'[d] = tries[d] /\ tokens'[d] = tokens[d] /\ ed'[d] = ed[d]
    BY DEF Alone, Moves
  <2> QED
    BY <2>1, LeftParts DEF Parts
<1>3. \A d \in Clients : ClientPlace(d)'
  BY OthersPlace, LeftParts
<1>4. NothingLeftBehind'
  <2>1. \A d \in Clients : d # c => ed'[d] = ed[d] /\ tokens'[d] = tokens[d]
    BY DEF Alone, Moves
  <2>2. ASSUME NEW t \in DOMAIN srv'.txns
        PROVE  \/ <<"txn", t>> \in excused'
               \/ ed'[srv'.txns[t].by].txn = t /\ ~ed'[srv'.txns[t].by].done
    <3>1. srv'.txns[t].by \in Clients
      BY DEF IsStore
    <3>2. t \in DOMAIN srv.txns => \/ <<"txn", t>> \in excused
                                   \/ ed[srv.txns[t].by].txn = t /\ ~ed[srv.txns[t].by].done
      BY DEF LeftInv, NothingLeftBehind
    <3> QED
      BY <2>1, <3>1, <3>2 DEF TxnsKept
  <2>3. ASSUME NEW n \in Names, srv'.locks[n] # None
        PROVE  \/ <<"lock", srv'.locks[n].token>> \in excused'
               \/ tokens'[srv'.locks[n].owner][n] = srv'.locks[n].token
    <3>1. srv'.locks[n].owner \in Clients
      BY <2>3 DEF IsStore
    <3>2. srv.locks[n] # None => \/ <<"lock", srv.locks[n].token>> \in excused
                                 \/ tokens[srv.locks[n].owner][n] = srv.locks[n].token
      BY DEF LeftInv, NothingLeftBehind
    <3> QED
      BY <2>1, <2>3, <3>1, <3>2 DEF LocksKept
  <2> QED
    BY <2>2, <2>3 DEF NothingLeftBehind
<1>5. /\ prog' \in [Clients -> Seq(Stages)] /\ tries' \in [Clients -> Nat]
      /\ tokens' \in [Clients -> [Names -> Nat \cup {None}]]
  BY <1>1, <1>2 DEF Mapped, Parts
<1> QED
  BY <1>1, <1>2, <1>3, <1>4, <1>5 DEF LeftInv, Mapped, Parts

-----------------------------------------------------------------------------
(***************************************************************************)
(* The requests of the stages that are no commit.                          *)
(***************************************************************************)
Modest(q) ==
  IsSeq(q) /\ All(q, OtherMethods) /\ \A i \in DOMAIN q : Strict(q[i])

LEMMA ModestSingle ==
  ASSUME NEW r, r.method \in OtherMethods, Strict(r)
  PROVE  Modest(<<r>>)
BY SeqSingle DEF Modest, All

LEMMA ModestEmpty == Modest(<<>>)
BY SeqEmpty DEF Modest, All

LEMMA ModestConcat ==
  ASSUME NEW p, NEW q, Modest(p), Modest(q)
  PROVE  Modest(p \o q)
<1> DEFINE r == p \o q
<1>1. /\ IsSeq(r)
      /\ \A i \in DOMAIN r : \/ \E j \in DOMAIN p : r[i] = p[j]
                             \/ \E j \in DOMAIN q : r[i] = q[j]
  BY SMTT(60), SeqConcat DEF Modest
<1> HIDE DEF r
<1>2. \A i \in DOMAIN r : r[i].method \in OtherMethods /\ Strict(r[i])
  BY <1>1 DEF Modest, All
<1>3. Modest(r)
  BY <1>1, <1>2 DEF Modest, All
<1> QED
  BY <1>3 DEF r

LEMMA ModestTail ==
  ASSUME NEW q, Modest(q), q # <<>>
  PROVE  Head(q).method \in OtherMethods /\ Strict(Head(q)) /\ Modest(Tail(q))
BY SeqTail DEF Modest, All

LEMMA ModestLock ==
  ASSUME NEW c \in Clients, NEW s \in Stages, s.kind = "lock"
  PROVE  Modest(LockRequests(s, c))
<1> DEFINE q == LockRequests(s, c)
           n == Len(s.names)
<1>1. s.names \in Seq(Names)
  BY StageAssumption
<1>2. n \in Nat /\ DOMAIN s.names = 1..n
  BY <1>1, LenProperties
<1>3. /\ q = [i \in 1..n |-> Req("LOCK", s.names[i], youngest[c], {}, s.steal, {"ok"})]
  BY <1>2 DEF LockRequests
<1> HIDE DEF n
<1>4. /\ DOMAIN q = 1..n
      /\ \A i \in 1..n : q[i] = Req("LOCK", s.names[i], youngest[c], {}, s.steal, {"ok"})
      /\ q \in [1..n -> {q[i] : i \in DOMAIN q}]
  BY <1>3
<1> HIDE DEF q
<1>5. IsSeq(q)
  BY <1>2, <1>4, IsASeq DEF IsSeq
<1>6. \A i \in DOMAIN q : q[i].method = "LOCK" /\ q[i].accepts = {"ok"}
  BY <1>4 DEF Req
<1>7. Modest(q)
  BY <1>5, <1>6 DEF Modest, All, OtherMethods, Strict
<1> QED
  BY <1>7 DEF q

\* f adds the pieces up one by one, as far as m.
Adds(f, m, piece) ==
  f = [i \in 0..m |-> IF i = 0 THEN <<>> ELSE f[i - 1] \o piece[i]]

\* There is such a function, however long the list of pieces.
LEMMA AddsExists ==
  ASSUME NEW piece, NEW n \in Nat
  PROVE  \E f : Adds(f, n, piece)
<1> DEFINE Bad == {m \in Nat : \A f : ~Adds(f, m, piece)}
<1>1. SUFFICES ASSUME Bad # {} PROVE FALSE
  OBVIOUS
<1>2. PICK m \in Bad : \A k \in Bad : m <= k
  BY <1>1, LeastNatural
<1>3. m \in Nat /\ \A f : ~Adds(f, m, piece)
  BY <1>2
<1>4. m # 0
  <2>1. Adds([i \in 0..0 |-> <<>>], 0, piece)
    BY DEF Adds
  <2> QED
    BY <1>3, <2>1
<1>5. m - 1 \in Nat /\ m - 1 \notin Bad
  BY <1>2, <1>3, <1>4
<1>6. PICK f : Adds(f, m - 1, piece)
  BY <1>5
<1> DEFINE g == [i \in 0..m |-> IF i = m THEN f[m - 1] \o piece[m] ELSE f[i]]
<1>7. \A i \in 0..(m - 1) : f[i] = IF i = 0 THEN <<>> ELSE f[i - 1] \o piece[i]
  BY <1>6 DEF Adds
<1>8. \A i \in 0..m : g[i] = IF i = 0 THEN <<>> ELSE g[i - 1] \o piece[i]
  <2> SUFFICES ASSUME NEW i \in 0..m
               PROVE  g[i] = IF i = 0 THEN <<>> ELSE g[i - 1] \o piece[i]
    OBVIOUS
  <2>1. CASE i = m
    <3>0. m \in 0..m /\ m - 1 \in 0..m /\ m - 1 # m
      BY <1>3, <1>4
    <3>1. g[m] = f[m - 1] \o piece[m]
      BY <3>0
    <3>2. g[m - 1] = f[m - 1]
      BY <3>0
    <3> QED
      BY <1>4, <2>1, <3>1, <3>2
  <2>2. CASE i # m
    <3>1. i \in 0..(m - 1) /\ g[i] = f[i]
      BY <1>3, <2>2
    <3>2. i # 0 => i - 1 \in 0..m /\ i - 1 # m
      BY <1>3, <2>2
    <3>3. i # 0 => g[i - 1] = f[i - 1]
      BY <3>2
    <3> QED
      BY <1>7, <3>1, <3>3
  <2> QED
    BY <2>1, <2>2
<1>9. g = [i \in 0..m |-> g[i]]
  OBVIOUS
<1> HIDE DEF g
<1>10. Adds(g, m, piece)
  BY <1>8, <1>9 DEF Adds
<1> QED
  BY <1>3, <1>10

\* Modest pieces add up to a modest sequence.
LEMMA AddsModest ==
  ASSUME NEW piece, NEW n \in Nat, NEW f, Adds(f, n, piece),
         \A i \in 1..n : Modest(piece[i])
  PROVE  Modest(f[n])
<1> DEFINE Bad == {m \in 0..n : ~Modest(f[m])}
<1>0. Bad \in SUBSET Nat
  OBVIOUS
<1>1. SUFFICES ASSUME Bad # {} PROVE FALSE
  OBVIOUS
<1>2. PICK m \in Bad : \A k \in Bad : m <= k
  BY <1>0, <1>1, LeastNatural
<1>3. m \in 0..n /\ ~Modest(f[m])
  BY <1>2
<1>4. f[m] = IF m = 0 THEN <<>> ELSE f[m - 1] \o piece[m]
  BY <1>3 DEF Adds
<1>5. m # 0
  BY <1>3, <1>4, ModestEmpty
<1>6. m - 1 \in 0..n /\ m - 1 \notin Bad /\ m \in 1..n
  BY <1>2, <1>3, <1>5
<1>7. Modest(f[m - 1]) /\ Modest(piece[m])
  BY <1>6
<1> QED
  BY <1>3, <1>4, <1>5, <1>7, ModestConcat

LEMMA ModestUnlock ==
  ASSUME NEW c \in Clients, NEW s \in Stages, s.kind = "unlock"
  PROVE  Modest(UnlockRequests(s, c))
<1> DEFINE n == Len(s.names)
           Of(m) == IF tokens[c][m] # None THEN <<UnlockPath(m, tokens[c][m], s.break)>>
                    ELSE IF s.break THEN <<Req("GETLOCK", m, None, {}, None, {"ok"})>>
                    ELSE <<>>
           piece == [i \in 1..n |-> Of(s.names[i])]
           From == CHOOSE f : f = [i \in 0..n |-> IF i = 0 THEN <<>> ELSE f[i - 1] \o Of(s.names[i])]
<1>1. n \in Nat
  BY StageAssumption, LenProperties
<1>2. \A m : Modest(Of(m))
  <2> TAKE m
  <2>1. Modest(<<UnlockPath(m, tokens[c][m], s.break)>>)
    BY ModestSingle DEF UnlockPath, Req, OtherMethods, Strict
  <2>2. Modest(<<Req("GETLOCK", m, None, {}, None, {"ok"})>>)
    BY ModestSingle DEF Req, OtherMethods, Strict
  <2> QED
    BY <2>1, <2>2, ModestEmpty
<1>3. UnlockRequests(s, c) = From[n]
  BY DEF UnlockRequests
<1> HIDE DEF n
<1>4. PICK f : Adds(f, n, piece)
  BY <1>1, AddsExists
<1>5. \A g : Adds(g, n, piece) <=> g = [i \in 0..n |-> IF i = 0 THEN <<>> ELSE g[i - 1] \o Of(s.names[i])]
  <2> HIDE DEF Of
  <2>1. \A g : [i \in 0..n |-> IF i = 0 THEN <<>> ELSE g[i - 1] \o piece[i]]
               = [i \in 0..n |-> IF i = 0 THEN <<>> ELSE g[i - 1] \o Of(s.names[i])]
    <3>1. \A i \in 0..n : i # 0 => piece[i] = Of(s.names[i])
      BY SMTT(60), <1>1
    <3> HIDE DEF piece
    <3> QED
      BY <3>1
  <2> HIDE DEF piece
  <2> QED
    BY <2>1 DEF Adds
<1>6. Adds(From, n, piece)
  BY <1>4, <1>5
<1>7. \A i \in 1..n : Modest(piece[i])
  BY <1>2
<1> HIDE DEF From, piece
<1>8. Modest(From[n])
  BY <1>1, <1>6, <1>7, AddsModest
<1> QED
  BY <1>3, <1>8

LEMMA ModestRevProp ==
  ASSUME NEW s
  PROVE  Modest(ChangeRevProp(s))
<1> DEFINE find == Req("PROPFIND", "", None, {}, None, {"ok"})
           set == PropSet(~s.dontCare, s.old, s.value)
<1>1. find.method = "PROPFIND" /\ set.method = "PROPSET"
  BY DEF PropSet, Req
<1> HIDE DEF find, set
<1>2. Modest(<<find>>) /\ Modest(<<set>>)
  BY <1>1, ModestSingle DEF OtherMethods, Strict
<1> QED
  BY <1>2 DEF ChangeRevProp, find, set

-----------------------------------------------------------------------------
(***************************************************************************)
(* The steps of a caller.                                                  *)
(***************************************************************************)
LEMMA EditorFields ==
  ASSUME NEW e, IsEditor(e), NEW v
  PROVE  /\ [e EXCEPT !.txn = v] =
              [txn |-> v, live |-> e.live, done |-> e.done, open |-> e.open, deleted |-> e.deleted,
               added |-> e.added, tokens |-> e.tokens, keep |-> e.keep]
         /\ [e EXCEPT !.live = v] =
              [txn |-> e.txn, live |-> v, done |-> e.done, open |-> e.open, deleted |-> e.deleted,
               added |-> e.added, tokens |-> e.tokens, keep |-> e.keep]
         /\ [e EXCEPT !.done = v] =
              [txn |-> e.txn, live |-> e.live, done |-> v, open |-> e.open, deleted |-> e.deleted,
               added |-> e.added, tokens |-> e.tokens, keep |-> e.keep]
         /\ [e EXCEPT !.open = v] =
              [txn |-> e.txn, live |-> e.live, done |-> e.done, open |-> v, deleted |-> e.deleted,
               added |-> e.added, tokens |-> e.tokens, keep |-> e.keep]
         /\ [e EXCEPT !.deleted = v] =
              [txn |-> e.txn, live |-> e.live, done |-> e.done, open |-> e.open, deleted |-> v,
               added |-> e.added, tokens |-> e.tokens, keep |-> e.keep]
         /\ [e EXCEPT !.added = v] =
              [txn |-> e.txn, live |-> e.live, done |-> e.done, open |-> e.open, deleted |-> e.deleted,
               added |-> v, tokens |-> e.tokens, keep |-> e.keep]
         /\ [e EXCEPT !.tokens = v] =
              [txn |-> e.txn, live |-> e.live, done |-> e.done, open |-> e.open, deleted |-> e.deleted,
               added |-> e.added, tokens |-> v, keep |-> e.keep]
         /\ [e EXCEPT !.keep = v] =
              [txn |-> e.txn, live |-> e.live, done |-> e.done, open |-> e.open, deleted |-> e.deleted,
               added |-> e.added, tokens |-> e.tokens, keep |-> v]
<1> DEFINE a == e.txn
           b == e.live
           d == e.done
           o == e.open
           f == e.deleted
           g == e.added
           t == e.tokens
           k == e.keep
<1>1. e = [txn |-> a, live |-> b, done |-> d, open |-> o, deleted |-> f,
           added |-> g, tokens |-> t, keep |-> k]
  BY DEF IsEditor
<1> HIDE DEF a, b, d, o, f, g, t, k
<1> QED
  BY <1>1

\* The editors e and f have the same transaction and the same tokens.
Alike(e, f) ==
  /\ IsEditor(f) /\ f.txn = e.txn /\ f.live = e.live /\ f.done = e.done
  /\ f.tokens = e.tokens /\ f.keep = e.keep

LEMMA EditorAlike ==
  ASSUME NEW e, IsEditor(e), NEW v
  PROVE  /\ Alike(e, e) /\ Alike(e, [e EXCEPT !.open = v])
         /\ Alike(e, [e EXCEPT !.deleted = v]) /\ Alike(e, [e EXCEPT !.added = v])
<1> DEFINE o == [e EXCEPT !.open = v]
           d == [e EXCEPT !.deleted = v]
           a == [e EXCEPT !.added = v]
<1>1. /\ o = [txn |-> e.txn, live |-> e.live, done |-> e.done, open |-> v, deleted |-> e.deleted,
              added |-> e.added, tokens |-> e.tokens, keep |-> e.keep]
      /\ d = [txn |-> e.txn, live |-> e.live, done |-> e.done, open |-> e.open, deleted |-> v,
              added |-> e.added, tokens |-> e.tokens, keep |-> e.keep]
      /\ a = [txn |-> e.txn, live |-> e.live, done |-> e.done, open |-> e.open, deleted |-> e.deleted,
              added |-> v, tokens |-> e.tokens, keep |-> e.keep]
  BY ZenonT(60), EditorFields
<1> HIDE DEF o, d, a
<1>2. Alike(e, o)
  BY <1>1 DEF Alike, IsEditor
<1>3. Alike(e, d)
  BY <1>1 DEF Alike, IsEditor
<1>4. Alike(e, a)
  BY <1>1 DEF Alike, IsEditor
<1>5. Alike(e, e)
  BY DEF Alike
<1> QED
  BY <1>2, <1>3, <1>4, <1>5 DEF o, d, a

LEMMA AlikeAlike ==
  ASSUME NEW e, NEW f, NEW g, Alike(e, f), Alike(f, g)
  PROVE  Alike(e, g)
BY DEF Alike

LEMMA CallAlike ==
  ASSUME NEW e, IsEditor(e), NEW k
  PROVE  Alike(e, Started(e, k)) /\ Alike(e, Settled(e, k))
<1>1. Alike(e, Started(e, k))
  <2> DEFINE less == e.open - 1
             f == [e EXCEPT !.open = less]
  <2>1. Started(e, k) = e \/ Started(e, k) = f
    BY DEF Started
  <2> HIDE DEF less
  <2>2. Alike(e, e) /\ Alike(e, f)
    BY EditorAlike
  <2> QED
    BY <2>1, <2>2
<1>2. Alike(e, Settled(e, k))
  <2> DEFINE more == e.open + 1
             f == [e EXCEPT !.open = more]
             gone == e.deleted \cup {k.name}
             g == [e EXCEPT !.deleted = gone]
             fresh == f.added \cup {k.name}
             h == [f EXCEPT !.added = fresh]
  <2>1. \/ Settled(e, k) = e \/ Settled(e, k) = f \/ Settled(e, k) = g \/ Settled(e, k) = h
    BY DEF Settled
  <2> HIDE DEF more, gone, fresh
  <2>2. Alike(e, e) /\ Alike(e, f) /\ Alike(e, g)
    BY EditorAlike
  <2> HIDE DEF f
  <2>3. Alike(f, h)
    BY ZenonT(60), <2>2, EditorAlike DEF Alike
  <2>4. Alike(e, h)
    BY <2>2, <2>3, AlikeAlike
  <2> HIDE DEF g, h
  <2> QED
    BY <2>1, <2>2, <2>4
<1> QED
  BY <1>1, <1>2

LEMMA StageIs ==
  ASSUME LeftInv, NEW c \in Clients, prog[c] # <<>>
  PROVE  Stage(c) \in Stages /\ Stage(c).kind \in StageKinds
<1>1. prog[c] \in Seq(Stages)
  BY DEF LeftInv
<1>2. Stage(c) \in Stages
  BY <1>1, HeadTailProperties DEF Stage
<1> QED
  BY <1>2, StageAssumption

LEMMA DriveIs ==
  ASSUME NEW s \in Stages, s.kind = "commit"
  PROVE  Driving(s.drive)
<1> DEFINE q == s.drive
           n == Len(q)
<1>1. /\ q \in Seq({q[i] : i \in DOMAIN q}) \ {<<>>}
      /\ \A i \in 1..n : q[i].call \in EditorCalls
      /\ \A i \in 1..n : q[i].call = "OpenRoot" <=> i = 1
      /\ q[n].call = "CloseEdit"
  BY StageAssumption
<1> HIDE DEF q
<1>2. DOMAIN q = 1..n
  BY <1>1, LenProperties
<1>3. Driving(q)
  BY <1>1, <1>2 DEF Driving, IsSeq
<1> QED
  BY <1>3 DEF q

\* The editor of a commit that begins.
Fresh(t, k) == [NoEditor EXCEPT !.tokens = t, !.keep = k]

IsFresh(e, t) ==
  /\ IsEditor(e) /\ e.txn = None /\ e.live = FALSE /\ e.done = FALSE
  /\ e.tokens = t

LEMMA FreshEditor ==
  ASSUME NEW t, NEW k
  PROVE  IsFresh(Fresh(t, k), t)
<1> DEFINE m == [NoEditor EXCEPT !.tokens = t]
           e == [m EXCEPT !.keep = k]
           w == NoEditor
<1>1. /\ w.txn = None /\ w.live = FALSE /\ w.done = FALSE /\ w.open = 0
      /\ w.deleted = {} /\ w.added = {} /\ IsEditor(w)
  BY DEF NoEditor, IsEditor
<1>2. m = [txn |-> w.txn, live |-> w.live, done |-> w.done, open |-> w.open, deleted |-> w.deleted,
           added |-> w.added, tokens |-> t, keep |-> w.keep]
  BY <1>1, EditorFields
<1> HIDE DEF m, w
<1>3. IsEditor(m) /\ m.txn = None /\ m.live = FALSE /\ m.done = FALSE /\ m.tokens = t
  BY <1>1, <1>2 DEF IsEditor
<1>4. e = [txn |-> m.txn, live |-> m.live, done |-> m.done, open |-> m.open, deleted |-> m.deleted,
           added |-> m.added, tokens |-> m.tokens, keep |-> k]
  BY <1>3, EditorFields
<1> HIDE DEF e
<1>5. IsFresh(e, t)
  BY <1>3, <1>4 DEF IsEditor, IsFresh
<1> QED
  BY <1>5 DEF e, m, Fresh

\* A stage begins when nothing of the last one is left.
LEMMA BeginOver ==
  ASSUME LeftInv, NEW c \in Clients, Begin(c)
  PROVE  Over(c)
<1>1. ClientPlace(c) /\ Stage(c).kind \in StageKinds
  BY LeftParts, StageIs DEF Begin
<1>2. CASE tries[c] = 0
  BY <1>1, <1>2 DEF ClientPlace, OtherStage, InStage
<1>3. CASE told[c] = "failed" /\ Stage(c).kind = "commit"
  BY <1>1, <1>3 DEF ClientPlace, OtherStage, InStage, Busy
<1> QED
  BY <1>2, <1>3 DEF Begin

LEMMA BeginLeft ==
  ASSUME LeftInv, NEW c \in Clients, Begin(c)
  PROVE  LeftInv'
<1> DEFINE s == Stage(c)
           n == tries[c] + 1
<1>1. /\ Mapped /\ Parts(c) /\ IsStore(srv)
  BY LeftParts DEF LeftInv
<1>2. todo[c] = <<>> /\ calls[c] = <<>> /\ Quiet(c)
  BY BeginOver DEF Over
<1>3. /\ prog[c] # <<>> /\ UNCHANGED <<srv, prog, tokens, excused>>
      /\ tries' = Set(tries, c, n) /\ told' = Set(told, c, "busy")
  BY DEF Begin
<1>4. n \in Nat \ {0}
  BY <1>1 DEF Parts
<1>5. s \in Stages /\ s.kind \in StageKinds /\ s' = s
  BY <1>3, StageIs DEF Stage
<1> HIDE DEF n
<1>6. /\ Moves(tries, tries', c) /\ tries'[c] = n /\ Moves(told, told', c) /\ told'[c] = "busy"
      /\ Moves(prog, prog', c) /\ Moves(tokens, tokens', c)
      /\ Moves(ed, ed, c) /\ Moves(todo, todo, c) /\ Moves(calls, calls, c)
  BY ZenonT(60), <1>1, <1>3, MovesSet DEF Mapped
<1>7. \A kinds : s.kind \in kinds => InStage(c, kinds)'
  BY <1>3, <1>4, <1>5, <1>6 DEF InStage
<1>8. IsStore(srv') /\ excused \subseteq excused' /\ LocksKept(c)
  BY <1>1, <1>3 DEF LocksKept
<1>9. CASE s.kind = "commit"
  <2> DEFINE e == Fresh(tokens[c], s.keep)
  <2>1. ed' = Set(ed, c, e) /\ calls' = Set(calls, c, s.drive) /\ todo' = todo
    BY <1>9 DEF Begin, Fresh
  <2>2. /\ IsEditor(e) /\ e.txn = None /\ e.live = FALSE /\ e.done = FALSE
        /\ e.tokens = tokens[c]
    <3>1. IsFresh(e, tokens[c])
      BY FreshEditor
    <3> HIDE DEF e
    <3> QED
      BY <3>1 DEF IsFresh
  <2> HIDE DEF e
  <2>3. /\ Moves(ed, ed', c) /\ ed'[c] = e /\ Moves(calls, calls', c) /\ calls'[c] = s.drive
        /\ Moves(todo, todo', c) /\ todo'[c] = <<>>
    BY SMTT(60), <1>1, <1>2, <2>1, MovesSet DEF Mapped
  <2>4. Alone(c)
    BY <1>6, <2>3 DEF Alone
  <2>5. Parts(c)'
    BY <1>1, <1>3, <1>4, <1>6, <2>2, <2>3 DEF Parts
  <2>6. Driving(s.drive)
    BY <1>5, <1>9, DriveIs
  <2>7. Between(c)'
    BY <2>2, <2>3, <2>6 DEF Between
  <2>8. Busy(c)'
    BY <1>3, <1>6, <2>2, <2>3, <2>7 DEF Busy
  <2>9. ClientPlace(c)'
    BY <1>7, <1>9, <2>8 DEF ClientPlace
  <2>10. TxnsKept(c)
    <3>1. \A t \in DOMAIN srv.txns : t # None
      BY <1>1, StageAssumption DEF IsStore
    <3> QED
      BY <1>2, <1>3, <3>1 DEF TxnsKept, Quiet
  <2> QED
    BY <1>8, <2>4, <2>5, <2>9, <2>10, StepLeft
<1>10. CASE s.kind # "commit"
  <2>1. UNCHANGED <<ed, calls>>
    BY <1>5, <1>10 DEF Begin, StageKinds
  <2>2. PICK q : todo' = Set(todo, c, q) /\ Modest(q)
    <3>1. CASE s.kind = "lock"
      BY <1>5, <3>1, ModestLock DEF Begin
    <3>2. CASE s.kind = "unlock"
      BY <1>5, <3>2, ModestUnlock DEF Begin
    <3>3. CASE s.kind = "revprop"
      BY <1>5, <3>3, ModestRevProp DEF Begin
    <3>4. CASE s.kind = "update"
      <4> DEFINE r == Req("REPORT", "", None, {}, None, {"ok"})
      <4>1. todo' = Set(todo, c, <<r>>)
        BY <3>4 DEF Begin
      <4>2. r.method = "REPORT"
        BY DEF Req
      <4> HIDE DEF r
      <4>3. Modest(<<r>>)
        BY <4>2, ModestSingle DEF OtherMethods, Strict
      <4> QED
        BY <4>1, <4>3
    <3> QED
      BY <1>5, <1>10, <3>1, <3>2, <3>3, <3>4 DEF StageKinds
  <2>3. /\ Moves(todo, todo', c) /\ todo'[c] = q
        /\ Moves(ed, ed', c) /\ Moves(calls, calls', c)
    BY <1>1, <1>6, <2>1, <2>2, MovesSet DEF Mapped
  <2>4. Alone(c)
    BY <1>6, <2>3 DEF Alone
  <2>5. Parts(c)'
    BY <1>1, <1>3, <1>4, <1>6, <2>1 DEF Parts
  <2>6. OtherStage(c)'
    <3>1. InStage(c, StageKinds \ {"commit"})'
      BY <1>5, <1>7, <1>10
    <3>2. Quiet(c)' /\ calls'[c] = <<>>
      BY <1>2, <2>1 DEF Quiet
    <3> QED
      BY <2>2, <2>3, <3>1, <3>2 DEF OtherStage, Modest
  <2>7. ClientPlace(c)' /\ TxnsKept(c)
    BY <1>3, <2>1, <2>6 DEF ClientPlace, TxnsKept
  <2> QED
    BY <1>8, <2>4, <2>5, <2>7, StepLeft
<1> QED
  BY <1>9, <1>10

\* Requests that edit.
Edits(q) == IsSeq(q) /\ All(q, EditMethods)

LEMMA EditsSingle ==
  ASSUME NEW r, r.method \in EditMethods
  PROVE  Edits(<<r>>)
BY SeqSingle DEF Edits, All

LEMMA EditsEmpty == Edits(<<>>)
BY SeqEmpty DEF Edits, All

LEMMA EditsConcat ==
  ASSUME NEW p, NEW q, Edits(p), Edits(q)
  PROVE  Edits(p \o q)
<1> DEFINE r == p \o q
<1>1. /\ IsSeq(r)
      /\ \A i \in DOMAIN r : \/ \E j \in DOMAIN p : r[i] = p[j]
                             \/ \E j \in DOMAIN q : r[i] = q[j]
  <2>1. IsSeq(p) /\ IsSeq(q)
    BY DEF Edits
  <2> QED
    BY SMTT(60), <2>1, SeqConcat
<1> HIDE DEF r
<1>2. \A i \in DOMAIN r : r[i].method \in EditMethods
  BY <1>1 DEF Edits, All
<1>3. Edits(r)
  BY <1>1, <1>2 DEF Edits, All
<1> QED
  BY <1>3 DEF r

LEMMA EditsReq ==
  ASSUME NEW m \in EditMethods, NEW n, NEW rev, NEW held, NEW what, NEW accepts
  PROVE  Edits(<<Req(m, n, rev, held, what, accepts)>>)
<1> DEFINE r == Req(m, n, rev, held, what, accepts)
<1>1. r.method = m
  BY DEF Req
<1> HIDE DEF r
<1>2. Edits(<<r>>)
  BY <1>1, EditsSingle
<1> QED
  BY <1>2 DEF r

LEMMA EditsProppatch ==
  ASSUME NEW e, NEW k, NEW rev
  PROVE  Edits(Proppatch(e, k, rev))
<1>1. "PROPPATCH" \in EditMethods
  BY DEF EditMethods
<1>2. Edits(<<Req("PROPPATCH", k.name, VersionName(rev), MutationTokens(e, k.name), None, {"multistatus"})>>)
  BY <1>1, EditsReq
<1> QED
  BY <1>2, EditsEmpty DEF Proppatch

\* The requests of a call that is neither OpenRoot nor CloseEdit.
LEMMA CallEdits ==
  ASSUME NEW c \in Clients, NEW k, k.call \in EditorCalls \ {"OpenRoot", "CloseEdit"}
  PROVE  Edits(Requests(c, k))
<1> DEFINE e == ed[c]
           rev == IF k.added THEN None ELSE youngest[c]
<1>1. \A n, r, held, what, accepts :
         /\ Edits(<<Req("DELETE", n, r, held, what, accepts)>>)
         /\ Edits(<<Req("COPY", n, r, held, what, accepts)>>)
         /\ Edits(<<Req("MKCOL", n, r, held, what, accepts)>>)
         /\ Edits(<<Req("HEAD", n, r, held, what, accepts)>>)
         /\ Edits(<<Req("PUT", n, r, held, what, accepts)>>)
  BY EditsReq DEF EditMethods
<1>2. CASE k.call = "DeleteEntry"
  <2>1. Requests(c, k) = <<Req("DELETE", k.name, VersionName(youngest[c]), MutationTokens(e, k.name),
                               None, {"nocontent"})>>
    BY <1>2 DEF Requests
  <2> QED
    BY <1>1, <2>1
<1>3. CASE k.call = "AddDirectory"
  <2>1. Requests(c, k) = AddDirectory(e, k)
    BY <1>3 DEF Requests
  <2> QED
    BY <1>1, <2>1 DEF AddDirectory, CopyRequest
<1>4. CASE k.call = "AddFile"
  <2>1. Requests(c, k) = AddFile(e, k)
    BY <1>4 DEF Requests
  <2>2. \/ AddFile(e, k) = <<CopyRequest(e, k)>>
        \/ AddFile(e, k) = <<Req("HEAD", k.name, None, {}, None, {"notfound"})>>
        \/ AddFile(e, k) = <<>>
    BY DEF AddFile
  <2>3. Edits(<<CopyRequest(e, k)>>)
    BY <1>1 DEF CopyRequest
  <2> QED
    BY <1>1, <2>1, <2>2, <2>3, EditsEmpty
<1>5. CASE k.call = "CloseFile"
  <2> DEFINE fresh == k.added /\ k.from = None
             first == IF k.text # None \/ fresh
                      THEN <<Req("PUT", k.name, VersionName(rev), MutationTokens(e, k.name), k.text,
                                 IF fresh THEN {"created"} ELSE {"nocontent"})>>
                      ELSE <<>>
  <2>1. Requests(c, k) = first \o Proppatch(e, k, rev)
    BY <1>5 DEF Requests, CloseFile
  <2>2. Edits(first)
    BY <1>1, EditsEmpty
  <2> HIDE DEF first
  <2> QED
    BY <2>1, <2>2, EditsConcat, EditsProppatch
<1>6. CASE k.call = "CloseDirectory"
  <2>1. Requests(c, k) = Proppatch(e, k, rev)
    BY <1>6 DEF Requests
  <2> QED
    BY <2>1, EditsProppatch
<1>7. CASE k.call \in {"OpenDirectory", "OpenFile"}
  <2>1. Requests(c, k) = <<>>
    BY <1>7 DEF Requests
  <2> QED
    BY <2>1, EditsEmpty
<1> QED
  BY <1>2, <1>3, <1>4, <1>5, <1>6, <1>7 DEF EditorCalls

\* The requests of OpenRoot.
LEMMA OpenRootRequests ==
  LET q == CreateTransaction
  IN  /\ IsSeq(q) /\ q # <<>> /\ q[1].method = "POST" /\ q[1].accepts = {"created"}
      /\ \A i \in DOMAIN q : i # 1 => q[i].method = "TXNPROPS"
<1> DEFINE p == Req("POST", "", None, {}, None, {"created"})
           t == Req("TXNPROPS", "", None, {}, None, {"multistatus"})
<1>1. p.method = "POST" /\ p.accepts = {"created"} /\ t.method = "TXNPROPS"
  BY DEF Req
<1>2. CreateTransaction = <<p>> \o IF withProps THEN <<>> ELSE <<t>>
  BY DEF CreateTransaction
<1> HIDE DEF p, t
<1>3. CASE withProps
  <2>1. CreateTransaction = <<p>>
    BY <1>2, <1>3
  <2> QED
    BY <1>1, <2>1, SeqSingle
<1>4. CASE ~withProps
  <2> DEFINE a == <<p>>
             b == <<t>>
             q == a \o b
  <2>1. CreateTransaction = q
    BY <1>2, <1>4
  <2>2. a \in Seq({p, t}) /\ Len(a) = 1 /\ a[1] = p /\ b \in Seq({p, t}) /\ Len(b) = 1 /\ b[1] = t
    OBVIOUS
  <2> HIDE DEF a, b
  <2>3. /\ q \in Seq({p, t}) /\ Len(q) = 1 + 1
        /\ \A i \in 1..(1 + 1) : q[i] = IF i <= 1 THEN a[i] ELSE b[i - 1]
    BY SMTT(60), <2>2, ConcatProperties
  <2> HIDE DEF q
  <2>4. DOMAIN q = 1..2 /\ q # <<>> /\ IsSeq(q)
    BY <2>3, LenProperties, SeqOf
  <2>5. q[1] = p /\ q[2] = t
    BY <2>2, <2>3
  <2>6. \A i \in DOMAIN q : i # 1 => q[i] = t
    BY <2>4, <2>5
  <2> QED
    BY <1>1, <2>1, <2>4, <2>5, <2>6
<1> QED
  BY <1>3, <1>4

\* Only an edit in progress waits for its next call.
LEMMA CallWaits ==
  ASSUME NEW c \in Clients, ClientPlace(c), calls[c] # <<>>
  PROVE  /\ InStage(c, {"commit"}) /\ told[c] = "busy" /\ ~ed[c].done
         /\ ed[c].txn # None => ed[c].live
         /\ ed[c].tokens = tokens[c]
         /\ Driving(calls[c])
         /\ Between(c) \/ Opening(c) \/ Changing(c) \/ Merging(c)
<1>1. InStage(c, {"commit"}) /\ Busy(c)
  BY DEF ClientPlace, Over, OtherStage
<1>2. ~Aborting(c)
  BY DEF Aborting
<1>3. Between(c) \/ Opening(c) \/ Changing(c) \/ Merging(c)
  BY <1>1, <1>2 DEF Busy
<1>4. Driving(calls[c])
  BY <1>3 DEF Between, Opening, Changing, Merging
<1> QED
  BY <1>1, <1>3, <1>4 DEF Busy

LEMMA CallBetween ==
  ASSUME NEW c \in Clients, ClientPlace(c), calls[c] # <<>>, todo[c] = <<>>
  PROVE  Between(c)
<1>1. Between(c) \/ Opening(c) \/ Changing(c) \/ Merging(c)
  BY CallWaits
<1>2. ~Opening(c) /\ ~Changing(c)
  BY DEF Opening, Changing
<1>3. ~Merging(c)
  <2> DEFINE r == Req("MERGE", "", None, {ed[c].tokens[n] : n \in Names} \ {None}, ~ed[c].keep, {"ok"})
  <2>1. Merging(c) => todo[c] = <<r>>
    BY DEF Merging
  <2> HIDE DEF r
  <2>2. <<r>> # <<>>
    OBVIOUS
  <2> QED
    BY <2>1, <2>2
<1> QED
  BY <1>1, <1>2, <1>3

\* A step within a commit that changes neither the server nor what the client
\* has of it.
LEMMA InnerStep ==
  ASSUME LeftInv, NEW c \in Clients, Alone(c), UNCHANGED <<srv, prog, tries, tokens>>,
         Alike(ed[c], ed'[c]), excused \subseteq excused', ClientPlace(c)'
  PROVE  LeftInv'
<1>1. Parts(c) /\ IsStore(srv)
  BY LeftParts DEF LeftInv
<1>2. Parts(c)'
  BY <1>1 DEF Parts, Alike
<1>3. TxnsKept(c) /\ LocksKept(c) /\ IsStore(srv')
  BY <1>1 DEF TxnsKept, LocksKept, Alike
<1> QED
  BY <1>2, <1>3, StepLeft

LEMMA EditorCallLeft ==
  ASSUME LeftInv, NEW c \in Clients, EditorCall(c)
  PROVE  LeftInv'
<1> DEFINE k == Head(calls[c])
           q == Requests(c, k)
           s == Started(ed[c], k)
           e == IF q = <<>> THEN Settled(s, k) ELSE s
           more == IF q = <<>> THEN Set(calls, c, Tail(calls[c])) ELSE calls
<1>1. Mapped /\ Parts(c) /\ ClientPlace(c)
  BY LeftParts
<1>2. /\ todo[c] = <<>> /\ calls[c] # <<>>
      /\ todo' = Set(todo, c, q) /\ ed' = Set(ed, c, e) /\ calls' = more
      /\ UNCHANGED <<srv, prog, tokens, tries, told, excused>>
  BY DEF EditorCall
<1>3. /\ InStage(c, {"commit"}) /\ told[c] = "busy" /\ ~ed[c].done
      /\ ed[c].txn # None => ed[c].live
      /\ ed[c].tokens = tokens[c]
      /\ Driving(calls[c])
  BY <1>1, <1>2, CallWaits
<1>4. calls[c][1].call = "OpenRoot" => ed[c].txn = None
  BY <1>1, <1>2, CallBetween DEF Between
<1>5. k = calls[c][1] /\ k.call \in EditorCalls
  BY <1>3, DrivingTail
<1>6. Alike(ed[c], s) /\ Alike(ed[c], e)
  <2>1. IsEditor(ed[c])
    BY <1>1 DEF Parts
  <2>2. Alike(ed[c], s)
    BY <2>1, CallAlike
  <2>3. Alike(s, Settled(s, k))
    BY <2>2, CallAlike DEF Alike
  <2> QED
    BY <2>2, <2>3, AlikeAlike
<1> HIDE DEF k, q, s, e
<1>7. /\ Moves(todo, todo', c) /\ todo'[c] = q /\ Moves(ed, ed', c) /\ ed'[c] = e
      /\ Moves(calls, calls', c)
      /\ calls'[c] = IF q = <<>> THEN Tail(calls[c]) ELSE calls[c]
      /\ Moves(prog, prog', c) /\ Moves(tries, tries', c) /\ Moves(tokens, tokens', c)
      /\ Moves(told, told', c)
  <2>1. Moves(todo, todo', c) /\ todo'[c] = q
    BY <1>1, <1>2, MovesSet DEF Mapped
  <2>2. Moves(ed, ed', c) /\ ed'[c] = e
    BY <1>1, <1>2, MovesSet DEF Mapped
  <2>3. CASE q = <<>>
    <3>1. Moves(calls, calls', c) /\ calls'[c] = Tail(calls[c])
      <4> DEFINE rest == Tail(calls[c])
      <4>1. calls' = Set(calls, c, rest)
        BY <1>2, <2>3
      <4> HIDE DEF rest
      <4>2. Moves(calls, calls', c) /\ calls'[c] = rest
        BY <1>1, <4>1, MovesSet DEF Mapped
      <4> QED
        BY <4>2 DEF rest
    <3> QED
      BY <1>1, <1>2, <2>1, <2>2, <2>3, <3>1, MovesNone
  <2>4. CASE q # <<>>
    BY <1>1, <1>2, <2>1, <2>2, <2>4, MovesNone
  <2> QED
    BY <2>3, <2>4
<1>8. Alone(c)
  BY <1>7 DEF Alone
<1>9. InStage(c, {"commit"})'
  BY <1>2, <1>3 DEF InStage, Stage
<1>10. /\ told'[c] = "busy" /\ ~ed'[c].done /\ ed'[c].tokens = tokens'[c]
       /\ ed'[c].txn # None => ed'[c].live
       /\ ed'[c].txn = ed[c].txn
  BY <1>2, <1>3, <1>6, <1>7 DEF Alike
<1>11. (Between(c) \/ Opening(c) \/ Changing(c) \/ Merging(c))'
  <2>1. CASE k.call = "OpenRoot"
    <3>1. q = CreateTransaction
      BY <2>1 DEF q, Requests
    <3>2. /\ IsSeq(q) /\ q # <<>> /\ q[1].method = "POST" /\ q[1].accepts = {"created"}
          /\ \A i \in DOMAIN q : i # 1 => q[i].method = "TXNPROPS"
      BY <3>1, OpenRootRequests
    <3>3. calls'[c] = calls[c] /\ calls'[c][1].call = "OpenRoot" /\ ed'[c].txn = None
      BY <1>4, <1>5, <1>7, <1>10, <2>1, <3>2
    <3>4. Opening(c)'
      BY <1>3, <1>7, <3>2, <3>3 DEF Opening
    <3> QED
      BY <3>4
  <2>2. CASE k.call = "CloseEdit"
    <3> DEFINE r == Req("MERGE", "", None, {ed[c].tokens[n] : n \in Names} \ {None}, ~ed[c].keep, {"ok"})
    <3>1. q = <<r>>
      BY <2>2 DEF q, Requests, MergeTransaction
    <3>2. q # <<>>
      <4> HIDE DEF r
      <4> QED
        BY <3>1
    <3>3. calls'[c] = calls[c] /\ ed'[c].tokens = ed[c].tokens /\ ed'[c].keep = ed[c].keep
      BY <1>6, <1>7, <3>2 DEF Alike
    <3>4. todo'[c] = <<Req("MERGE", "", None, {ed'[c].tokens[n] : n \in Names} \ {None}, ~ed'[c].keep,
                           {"ok"})>>
      BY ZenonT(60), <1>7, <3>1, <3>3
    <3>5. Merging(c)'
      BY <1>3, <1>5, <2>2, <3>3, <3>4 DEF Merging
    <3> QED
      BY <3>5
  <2>3. CASE k.call \notin {"OpenRoot", "CloseEdit"}
    <3>1. Edits(q)
      BY <1>5, <2>3, CallEdits DEF q
    <3>2. CASE q = <<>>
      <4>1. Driving(Tail(calls[c])) /\ Tail(calls[c])[1].call # "OpenRoot"
        BY <1>3, <1>5, <2>3, DrivingTail
      <4>2. Between(c)'
        BY <1>7, <3>2, <4>1 DEF Between
      <4> QED
        BY <4>2
    <3>3. CASE q # <<>>
      <4>1. Changing(c)'
        BY <1>3, <1>5, <1>7, <2>3, <3>1, <3>3 DEF Changing, Edits
      <4> QED
        BY <4>1
    <3> QED
      BY <3>2, <3>3
  <2> QED
    BY <2>1, <2>2, <2>3
<1>12. ClientPlace(c)'
  <2>1. Busy(c)'
    BY <1>10, <1>11 DEF Busy
  <2> QED
    BY <1>9, <2>1 DEF ClientPlace
<1> QED
  BY <1>2, <1>6, <1>7, <1>8, <1>12, InnerStep

\* A stage that is left leaves nothing behind.
LEMMA LeaveLeft ==
  ASSUME LeftInv, NEW c \in Clients, Leave(c)
  PROVE  LeftInv'
<1> DEFINE rest == Tail(prog[c])
<1>1. Mapped /\ Parts(c) /\ ClientPlace(c) /\ IsStore(srv)
  BY LeftParts DEF LeftInv
<1>2. /\ prog[c] # <<>> /\ todo[c] = <<>> /\ calls[c] = <<>>
      /\ prog' = Set(prog, c, rest) /\ tries' = Set(tries, c, 0)
      /\ UNCHANGED <<srv, todo, ed, calls, tokens, told, excused>>
  BY DEF Leave, session
<1>3. rest \in Seq(Stages)
  BY <1>1, <1>2, HeadTailProperties DEF Parts
<1> HIDE DEF rest
<1>4. /\ Moves(prog, prog', c) /\ prog'[c] = rest /\ Moves(tries, tries', c) /\ tries'[c] = 0
      /\ Moves(todo, todo', c) /\ Moves(ed, ed', c) /\ Moves(calls, calls', c)
      /\ Moves(tokens, tokens', c) /\ Moves(told, told', c)
  <2>1. Moves(prog, prog', c) /\ prog'[c] = rest
    BY <1>1, <1>2, MovesSet DEF Mapped
  <2>2. Moves(tries, tries', c) /\ tries'[c] = 0
    BY <1>1, <1>2, MovesSet DEF Mapped
  <2> QED
    BY <1>1, <1>2, <2>1, <2>2, MovesNone
<1>5. Alone(c)
  BY <1>4 DEF Alone
<1>6. Quiet(c)
  <2>1. ~Busy(c)
    <3>1. Aborting(c) => todo[c] # <<>>
      <4>1. \A inner : <<DeleteTransaction(inner)>> # <<>>
        OBVIOUS
      <4> QED
        BY <4>1 DEF Aborting
    <3>2. ~Driving(calls[c])
      BY <1>2 DEF Driving
    <3> QED
      BY <1>2, <3>1, <3>2 DEF Busy, Between, Opening, Changing, Merging
  <2> QED
    BY <1>1, <2>1 DEF ClientPlace, Over, OtherStage
<1>7. ClientPlace(c)'
  BY <1>2, <1>4, <1>6 DEF ClientPlace, Over, Quiet
<1>8. Parts(c)'
  BY <1>1, <1>2, <1>3, <1>4 DEF Parts
<1>9. TxnsKept(c) /\ LocksKept(c) /\ IsStore(srv')
  BY <1>1, <1>2 DEF TxnsKept, LocksKept
<1> QED
  BY <1>2, <1>5, <1>7, <1>8, <1>9, StepLeft

-----------------------------------------------------------------------------
(***************************************************************************)
(* The request in hand.                                                    *)
(***************************************************************************)
\* Where a client is when it has a request in hand.
LEMMA HandPlace ==
  ASSUME NEW c \in Clients, ClientPlace(c), todo[c] # <<>>
  PROVE  \/ /\ OtherStage(c) /\ Stage(c).kind # "commit" /\ Modest(todo[c])
            /\ InHand(c).method \in OtherMethods /\ Strict(InHand(c)) /\ Modest(Tail(todo[c]))
         \/ /\ InStage(c, {"commit"}) /\ Stage(c).kind = "commit" /\ Busy(c)
            /\ \/ /\ Opening(c) /\ InHand(c).method = "POST" /\ InHand(c).accepts = {"created"}
                  /\ Edits(Tail(todo[c]))
               \/ Changing(c) /\ InHand(c).method \in EditMethods /\ Edits(Tail(todo[c]))
               \/ /\ Merging(c) /\ InHand(c).method = "MERGE" /\ InHand(c).accepts = {"ok"}
                  /\ Tail(todo[c]) = <<>>
               \/ Aborting(c) /\ InHand(c).method = "ABORT" /\ Tail(todo[c]) = <<>>
<1> DEFINE q == todo[c]
           r == InHand(c)
<1>1. OtherStage(c) \/ (InStage(c, {"commit"}) /\ Busy(c))
  BY DEF ClientPlace, Over
<1>2. ASSUME OtherStage(c)
      PROVE  /\ Stage(c).kind # "commit" /\ Modest(q)
             /\ r.method \in OtherMethods /\ Strict(r) /\ Modest(Tail(q))
  <2>1. Modest(q) /\ Stage(c).kind # "commit"
    BY <1>2 DEF OtherStage, InStage, Modest
  <2> QED
    BY <2>1, ModestTail DEF InHand
<1>3. ASSUME Opening(c)
      PROVE  r.method = "POST" /\ r.accepts = {"created"} /\ Edits(Tail(q))
  <2>1. IsSeq(q) /\ q # <<>>
    BY <1>3 DEF Opening
  <2>2. r = q[1] /\ IsSeq(Tail(q))
        /\ \A i \in DOMAIN Tail(q) : i + 1 \in DOMAIN q /\ i + 1 # 1 /\ Tail(q)[i] = q[i + 1]
    BY <2>1, SeqTail DEF InHand
  <2>3. r.method = "POST" /\ r.accepts = {"created"}
    BY <1>3, <2>2 DEF Opening
  <2>4. \A i \in DOMAIN Tail(q) : Tail(q)[i].method \in EditMethods
    BY <1>3, <2>2 DEF Opening, EditMethods
  <2> QED
    BY <2>2, <2>3, <2>4 DEF Edits, All
<1>4. ASSUME Changing(c)
      PROVE  r.method \in EditMethods /\ Edits(Tail(q))
  <2>1. IsSeq(q) /\ q # <<>> /\ All(q, EditMethods)
    BY <1>4 DEF Changing
  <2>2. r.method \in EditMethods /\ All(Tail(q), EditMethods) /\ IsSeq(Tail(q))
    BY <2>1, AllTail, SeqTail DEF InHand
  <2> QED
    BY <2>2 DEF Edits
<1>5. ASSUME Merging(c)
      PROVE  r.method = "MERGE" /\ r.accepts = {"ok"} /\ Tail(q) = <<>>
  <2> DEFINE m == Req("MERGE", "", None, {ed[c].tokens[n] : n \in Names} \ {None}, ~ed[c].keep, {"ok"})
  <2>1. q = <<m>>
    BY <1>5 DEF Merging
  <2>2. m.method = "MERGE" /\ m.accepts = {"ok"}
    BY DEF Req
  <2> HIDE DEF m, q
  <2>3. r = m /\ Tail(q) = <<>>
    BY <2>1, SeqSingle DEF InHand, q
  <2> QED
    BY <2>2, <2>3 DEF q
<1>6. ASSUME Aborting(c)
      PROVE  r.method = "ABORT" /\ Tail(q) = <<>>
  <2>1. PICK inner \in BOOLEAN : q = <<DeleteTransaction(inner)>>
    BY <1>6 DEF Aborting
  <2> DEFINE m == DeleteTransaction(inner)
  <2>2. m.method = "ABORT"
    BY DEF DeleteTransaction, Req
  <2> HIDE DEF m, q
  <2>3. q = <<m>>
    BY <2>1 DEF m
  <2>4. r = m /\ Tail(q) = <<>>
    BY <2>3, SeqSingle DEF InHand, q
  <2> QED
    BY <2>2, <2>4 DEF q
<1>7. ASSUME Busy(c)
      PROVE  Opening(c) \/ Changing(c) \/ Merging(c) \/ Aborting(c)
  <2>1. ~Between(c)
    BY DEF Between
  <2> QED
    BY <1>7, <2>1 DEF Busy
<1>8. InStage(c, {"commit"}) => Stage(c).kind = "commit"
  BY DEF InStage
<1> QED
  BY <1>1, <1>2, <1>3, <1>4, <1>5, <1>6, <1>7, <1>8

\* The store s has no transaction and no lock that srv has not, but what is in
\* unknown.
NoMoreBut(s, unknown) ==
  /\ IsStore(s)
  /\ \A t \in DOMAIN s.txns :
        <<"txn", t>> \in unknown \/ (t \in DOMAIN srv.txns /\ s.txns[t].by = srv.txns[t].by)
  /\ \A n \in Names : \/ s.locks[n] = None
                      \/ <<"lock", s.locks[n].token>> \in unknown
                      \/ s.locks[n] = srv.locks[n]

LEMMA ServedUnknown ==
  ASSUME IsStore(srv), NEW c \in Clients, NEW r, NEW unknown,
         r.method = "POST" => <<"txn", Serve(c, r).value>> \in unknown,
         r.method = "LOCK" /\ Serve(c, r).status = "ok" => <<"lock", Serve(c, r).value>> \in unknown
  PROVE  NoMoreBut(Serve(c, r).srv, unknown)
<1> DEFINE a == Serve(c, r)
<1>1. CASE r.method = "POST"
  <2>1. /\ IsStore(a.srv) /\ a.srv.locks = srv.locks
        /\ \A t \in DOMAIN a.srv.txns :
              \/ t = a.value /\ a.srv.txns[t].by = c
              \/ t \in DOMAIN srv.txns /\ a.srv.txns[t].by = srv.txns[t].by
    BY <1>1, PostServed
  <2>2. <<"txn", a.value>> \in unknown
    BY <1>1
  <2> HIDE DEF a
  <2>3. NoMoreBut(a.srv, unknown)
    BY <2>1, <2>2 DEF NoMoreBut
  <2> QED
    BY <2>3 DEF a
<1>2. CASE r.method = "LOCK"
  <2>1. /\ IsStore(a.srv) /\ a.srv.txns = srv.txns
        /\ a.status # "ok" => a.srv = srv
        /\ a.status = "ok" =>
              \A n \in Names : a.srv.locks[n] = IF n = r.name
                                                THEN [token |-> a.value, owner |-> c]
                                                ELSE srv.locks[n]
    BY <1>2, LockServed
  <2>2. a.status = "ok" => <<"lock", a.value>> \in unknown
    BY <1>2
  <2> HIDE DEF a
  <2>3. NoMoreBut(a.srv, unknown)
    BY <2>1, <2>2 DEF NoMoreBut
  <2> QED
    BY <2>3 DEF a
<1>3. CASE r.method \notin {"POST", "LOCK"}
  <2>1. NoMore(a.srv)
    <3>1. CASE r.method \in {"ABORT", "MERGE"}
      BY <3>1, EndServed
    <3>2. CASE r.method = "UNLOCK"
      BY <3>2, UnlockServed
    <3>3. CASE r.method \notin {"POST", "LOCK", "ABORT", "MERGE", "UNLOCK"}
      BY <3>3, OthersServed
    <3> QED
      BY <1>3, <3>1, <3>2, <3>3
  <2> HIDE DEF a
  <2>2. NoMoreBut(a.srv, unknown)
    BY <2>1 DEF NoMoreBut, NoMore
  <2> QED
    BY <2>2 DEF a
<1> QED
  BY <1>1, <1>2, <1>3

\* What a failed request leaves: the next request of a stage, an abort, or
\* nothing, and then the transaction the client gives up is excused.
LEMMA FailsLeft ==
  ASSUME LeftInv, NEW c \in Clients, todo[c] # <<>>, NEW unknown,
         RequestFails(c, InHand(c), unknown), UNCHANGED <<prog, tries, tokens>>,
         NoMoreBut(srv', unknown)
  PROVE  LeftInv'
<1> DEFINE r == InHand(c)
           e == ed[c]
           commit == Stage(c).kind = "commit"
           inner == r.method = "TXNPROPS"
           next == IF inner THEN <<DeleteTransaction(TRUE)>>
                   ELSE IF r.method = "ABORT" /\ ~r.what THEN <<>>
                   ELSE IF commit THEN AbortEdit(c, e)
                   ELSE IF r.method \in {"LOCK", "UNLOCK", "GETLOCK"} THEN Tail(todo[c])
                   ELSE <<>>
           given == r.method = "ABORT" /\ ~r.what /\ e.txn # None
           after == IF commit /\ next = <<>> THEN [e EXCEPT !.done = TRUE] ELSE e
           say == IF commit /\ next # <<>> THEN "busy" ELSE "failed"
<1>1. Mapped /\ Parts(c) /\ ClientPlace(c) /\ IsStore(srv)
  BY LeftParts DEF LeftInv
<1>2. /\ todo' = Set(todo, c, next) /\ calls' = Set(calls, c, <<>>)
      /\ told' = Set(told, c, say) /\ ed' = Set(ed, c, after)
      /\ excused' = excused \cup unknown \cup IF given THEN {<<"txn", e.txn>>} ELSE {}
  BY DEF RequestFails
<1>3. /\ Stage(c)' = Stage(c)
      /\ \A kinds : InStage(c, kinds) => InStage(c, kinds)'
  BY DEF InStage, Stage
<1>4. excused \subseteq excused'
  BY <1>2
<1>11. given => <<"txn", e.txn>> \in excused'
  BY <1>2
<1>12. \A x \in unknown : x \in excused'
  BY <1>2
<1> HIDE DEF next, after, say
<1>5. IsStore(srv')
  BY DEF NoMoreBut
<1>13. /\ \A t \in DOMAIN srv'.txns :
            <<"txn", t>> \in excused' \/ (t \in DOMAIN srv.txns /\ srv'.txns[t].by = srv.txns[t].by)
       /\ \A n \in Names : \/ srv'.locks[n] = None
                           \/ <<"lock", srv'.locks[n].token>> \in excused'
                           \/ srv'.locks[n] = srv.locks[n]
  BY <1>12 DEF NoMoreBut
<1>6. LocksKept(c)
  BY <1>13 DEF LocksKept
<1>7. Alone(c) /\ todo'[c] = next /\ calls'[c] = <<>> /\ told'[c] = say /\ ed'[c] = after
  <2>1. Moves(todo, todo', c) /\ todo'[c] = next
    BY <1>1, <1>2, MovesSet DEF Mapped
  <2>2. Moves(calls, calls', c) /\ calls'[c] = <<>>
    BY <1>1, <1>2, MovesSet DEF Mapped
  <2>3. Moves(told, told', c) /\ told'[c] = say
    BY <1>1, <1>2, MovesSet DEF Mapped
  <2>4. Moves(ed, ed', c) /\ ed'[c] = after
    BY <1>1, <1>2, MovesSet DEF Mapped
  <2> QED
    BY <1>1, <2>1, <2>2, <2>3, <2>4, MovesNone DEF Alone
<1>8. ASSUME after = e
      PROVE  Parts(c)' /\ TxnsKept(c)
  <2>1. Parts(c)'
    BY <1>1, <1>7, <1>8 DEF Parts
  <2>2. TxnsKept(c)
    BY <1>7, <1>8, <1>13 DEF TxnsKept
  <2> QED
    BY <2>1, <2>2
<1>9. CASE ~commit
  <2>1. /\ OtherStage(c) /\ Modest(Tail(todo[c])) /\ r.method \in OtherMethods
    BY <1>1, <1>9, HandPlace
  <2>2. after = e
    BY <1>9 DEF after
  <2>3. next = Tail(todo[c]) \/ next = <<>>
    BY <1>9, <2>1 DEF next, OtherMethods
  <2>4. Modest(next)
    BY <2>1, <2>3, ModestEmpty
  <2>5. OtherStage(c)'
    <3>1. InStage(c, StageKinds \ {"commit"})'
      BY <1>3, <2>1 DEF OtherStage
    <3>2. Quiet(c)'
      BY <1>7, <2>1, <2>2 DEF OtherStage, Quiet
    <3> QED
      BY <1>7, <2>4, <3>1, <3>2 DEF OtherStage, Modest
  <2>6. ClientPlace(c)'
    BY <2>5 DEF ClientPlace
  <2> QED
    BY <1>4, <1>5, <1>6, <1>7, <1>8, <2>2, <2>6, StepLeft
<1>10. CASE commit
  <2>1. InStage(c, {"commit"}) /\ Busy(c)
    BY <1>1, <1>10, HandPlace
  <2>2. /\ InStage(c, {"commit"})' /\ ~e.done /\ (e.txn # None => e.live) /\ e.tokens = tokens[c]
    BY <1>3, <2>1 DEF Busy
  <2>3. next = <<>> \/ \E i \in BOOLEAN : next = <<DeleteTransaction(i)>>
    BY <1>10 DEF next, AbortEdit
  <2>4. CASE next # <<>>
    <3>1. after = e /\ say = "busy"
      BY <1>10, <2>4 DEF after, say
    <3>2. Aborting(c)'
      BY <1>7, <2>3, <2>4 DEF Aborting
    <3>3. Busy(c)'
      BY <1>7, <2>2, <3>1, <3>2 DEF Busy
    <3>4. ClientPlace(c)'
      BY <2>2, <3>3 DEF ClientPlace
    <3> QED
      BY <1>4, <1>5, <1>6, <1>7, <1>8, <3>1, <3>4, StepLeft
  <2>5. CASE next = <<>>
    <3>1. after = [e EXCEPT !.done = TRUE]
      BY <1>10, <2>5 DEF after
    <3>2. IsEditor(after) /\ after.txn = e.txn /\ after.live = e.live /\ after.done = TRUE
      <4>1. IsEditor(e)
        BY <1>1 DEF Parts
      <4> DEFINE yes == TRUE
      <4>2. after = [txn |-> e.txn, live |-> e.live, done |-> TRUE, open |-> e.open, deleted |-> e.deleted,
                     added |-> e.added, tokens |-> e.tokens, keep |-> e.keep]
        BY ZenonT(60), <3>1, <4>1, EditorFields
      <4> QED
        BY <4>2 DEF IsEditor
    <3>3. e.txn # None => <<"txn", e.txn>> \in excused'
      <4>1. \A i : <<DeleteTransaction(i)>> # <<>>
        OBVIOUS
      <4>2. e.txn # None => given
        BY <1>10, <2>2, <2>5, <4>1 DEF next, AbortEdit
      <4> HIDE DEF given, e
      <4> QED
        BY <1>11, <4>2
    <3>4. Over(c)'
      BY <1>7, <2>5, <3>2 DEF Over, Quiet
    <3>5. ClientPlace(c)'
      BY <2>2, <3>4 DEF ClientPlace
    <3>6. Parts(c)'
      BY <1>1, <1>7, <3>2 DEF Parts
    <3>7. TxnsKept(c)
      <4>1. \A t \in DOMAIN srv.txns : t # None
        BY <1>1, StageAssumption DEF IsStore
      <4> HIDE DEF e
      <4>2. ASSUME NEW t \in DOMAIN srv'.txns
            PROVE  \/ <<"txn", t>> \in excused'
                   \/ t \in DOMAIN srv.txns /\ srv'.txns[t].by = srv.txns[t].by /\ e.txn # t
        BY <1>13, <3>3, <4>1
      <4> QED
        BY <4>2 DEF TxnsKept, e
    <3> QED
      BY <1>4, <1>5, <1>6, <1>7, <3>5, <3>6, <3>7, StepLeft
  <2> QED
    BY <2>4, <2>5
<1> QED
  BY <1>9, <1>10

-----------------------------------------------------------------------------
(***************************************************************************)
(* An answer the client accepts.                                           *)
(***************************************************************************)
LEMMA NothingBefore ==
  ASSUME NEW q, IsSeq(q)
  PROVE  <<>> \o q = q
BY ConcatEmptySeq DEF IsSeq

\* A call of the drive goes on to its next request, or is done; f is the editor
\* that the answer leaves.
LEMMA GoesOn ==
  ASSUME LeftInv, NEW c \in Clients, NEW f,
         InStage(c, {"commit"}), told[c] = "busy", Driving(calls[c]), calls[c][1].call # "CloseEdit",
         Edits(Tail(todo[c])),
         IsEditor(f), f.txn \in Nat \cup {None}, f.live \in BOOLEAN, f.done = FALSE,
         f.txn # None => f.live, f.tokens = tokens[c],
         UNCHANGED <<prog, tries, tokens, told>>,
         todo' = Set(todo, c, <<>> \o Tail(todo[c])),
         calls' = IF Tail(todo[c]) = <<>> THEN Set(calls, c, Tail(calls[c])) ELSE calls,
         Moves(ed, ed', c),
         ed'[c] = IF Tail(todo[c]) = <<>> THEN Settled(f, Head(calls[c])) ELSE f
  PROVE  Alone(c) /\ Parts(c)' /\ ClientPlace(c)' /\ Alike(f, ed'[c])
<1> DEFINE rest == Tail(todo[c])
           left == Tail(calls[c])
           k == Head(calls[c])
<1>1. Mapped /\ Parts(c)
  BY LeftParts
<1>2. todo' = Set(todo, c, rest)
  BY NothingBefore DEF Edits
<1>3. Moves(todo, todo', c) /\ todo'[c] = rest
  <2> HIDE DEF rest
  <2> QED
    BY <1>1, <1>2, MovesSet DEF Mapped
<1>4. Moves(calls, calls', c) /\ calls'[c] = IF rest = <<>> THEN left ELSE calls[c]
  <2>1. calls' = IF rest = <<>> THEN Set(calls, c, left) ELSE calls
    OBVIOUS
  <2> HIDE DEF rest, left
  <2>2. CASE rest = <<>>
    <3>1. calls' = Set(calls, c, left)
      BY <2>1, <2>2
    <3>2. Moves(calls, calls', c) /\ calls'[c] = left
      BY SMTT(60), <1>1, <3>1, MovesSet DEF Mapped
    <3> QED
      BY <2>2, <3>2
  <2>3. CASE rest # <<>>
    <3>1. calls' = calls
      BY <2>1, <2>3
    <3> QED
      BY <1>1, <2>3, <3>1, MovesNone
  <2> QED
    BY <2>2, <2>3
<1>5. Alone(c)
  BY <1>1, <1>3, <1>4, MovesNone DEF Alone
<1>6. Alike(f, ed'[c])
  <2>1. Alike(f, f) /\ Alike(f, Settled(f, k))
    BY CallAlike, EditorAlike
  <2> HIDE DEF k
  <2>2. ed'[c] = f \/ ed'[c] = Settled(f, k)
    BY DEF k
  <2> QED
    BY <2>1, <2>2
<1>7. Parts(c)'
  BY <1>1, <1>6 DEF Parts, Alike
<1>8. InStage(c, {"commit"})'
  BY DEF InStage, Stage
<1>9. Between(c)' \/ Changing(c)'
  <2>1. Driving(left) /\ left[1].call # "OpenRoot"
    BY DrivingTail
  <2> HIDE DEF rest, left
  <2>2. CASE rest = <<>>
    <3>1. todo'[c] = <<>> /\ calls'[c] = left
      BY <1>3, <1>4, <2>2
    <3>2. Between(c)'
      BY <2>1, <3>1 DEF Between
    <3> QED
      BY <3>2
  <2>3. CASE rest # <<>>
    <3>1. todo'[c] = rest /\ calls'[c] = calls[c]
      BY <1>3, <1>4, <2>3
    <3>2. IsSeq(rest) /\ All(rest, EditMethods)
      BY DEF Edits, rest
    <3>3. Changing(c)'
      BY <2>3, <3>1, <3>2 DEF Changing
    <3> QED
      BY <3>3
  <2> QED
    BY <2>2, <2>3
<1>10. Busy(c)'
  BY <1>6, <1>9 DEF Busy, Alike
<1>11. ClientPlace(c)'
  BY <1>8, <1>10 DEF ClientPlace
<1> QED
  BY <1>5, <1>6, <1>7, <1>11

\* The answer to POST names the transaction.
LEMMA PostAccepted ==
  ASSUME LeftInv, NEW c \in Clients, todo[c] # <<>>, InHand(c).method = "POST",
         UNCHANGED <<prog, tries>>,
         srv' = Serve(c, InHand(c)).srv, Accepted(c, InHand(c), Serve(c, InHand(c)))
  PROVE  LeftInv'
<1> DEFINE r == InHand(c)
           a == Serve(c, r)
           v == a.value
           e == ed[c]
           m == [e EXCEPT !.txn = v]
           f == [m EXCEPT !.live = TRUE]
           k == Head(calls[c])
<1>1. Mapped /\ Parts(c) /\ ClientPlace(c) /\ IsStore(srv)
  BY LeftParts DEF LeftInv
<1>2. InStage(c, {"commit"}) /\ Busy(c) /\ Opening(c) /\ Edits(Tail(todo[c]))
  BY <1>1, HandPlace DEF OtherMethods, EditMethods
<1>3. /\ IsStore(a.srv) /\ a.srv.locks = srv.locks /\ v \in Nat
      /\ \A t \in DOMAIN a.srv.txns :
            \/ t = v /\ a.srv.txns[t].by = c
            \/ t \in DOMAIN srv.txns /\ a.srv.txns[t].by = srv.txns[t].by
  BY <1>1, PostServed
<1>4. /\ ed' = Set(ed, c, IF Tail(todo[c]) = <<>> THEN Settled(f, k) ELSE f)
      /\ calls' = IF Tail(todo[c]) = <<>> THEN Set(calls, c, Tail(calls[c])) ELSE calls
      /\ todo' = Set(todo, c, <<>> \o Tail(todo[c]))
      /\ UNCHANGED <<tokens, told, excused>>
  BY DEF Accepted
<1> HIDE DEF a, v
<1>5. /\ IsEditor(f) /\ f.txn = v /\ f.live = TRUE /\ f.done = e.done /\ f.tokens = e.tokens
  <2>1. m = [txn |-> v, live |-> e.live, done |-> e.done, open |-> e.open, deleted |-> e.deleted,
             added |-> e.added, tokens |-> e.tokens, keep |-> e.keep]
    BY ZenonT(60), <1>1, EditorFields DEF Parts
  <2> HIDE DEF m, e
  <2>2. IsEditor(m) /\ m.txn = v /\ m.done = e.done /\ m.tokens = e.tokens
    BY <2>1 DEF IsEditor
  <2>3. f = [txn |-> m.txn, live |-> TRUE, done |-> m.done, open |-> m.open, deleted |-> m.deleted,
             added |-> m.added, tokens |-> m.tokens, keep |-> m.keep]
    BY <2>2, EditorFields
  <2> QED
    BY <2>2, <2>3 DEF IsEditor
<1> HIDE DEF f
<1>6. e.done = FALSE /\ e.tokens = tokens[c] /\ told[c] = "busy" /\ e.txn = None
      /\ Driving(calls[c]) /\ calls[c][1].call # "CloseEdit"
  BY <1>1, <1>2 DEF Busy, Opening, Parts
<1>7. Moves(ed, ed', c) /\ ed'[c] = IF Tail(todo[c]) = <<>> THEN Settled(f, k) ELSE f
  <2> DEFINE g == IF Tail(todo[c]) = <<>> THEN Settled(f, k) ELSE f
  <2>1. ed' = Set(ed, c, g)
    BY <1>4
  <2> HIDE DEF g
  <2>2. Moves(ed, ed', c) /\ ed'[c] = g
    BY <1>1, <2>1, MovesSet DEF Mapped
  <2> QED
    BY <2>2 DEF g
<1>8. Alone(c) /\ Parts(c)' /\ ClientPlace(c)' /\ Alike(f, ed'[c])
  BY <1>2, <1>3, <1>4, <1>5, <1>6, <1>7, GoesOn
<1>9. srv' = a.srv
  BY DEF a
<1>10. IsStore(srv') /\ LocksKept(c)
  BY <1>3, <1>4, <1>9 DEF LocksKept
<1>11. TxnsKept(c)
  <2>1. \A t \in DOMAIN srv.txns : t # None
    BY <1>1, StageAssumption DEF IsStore
  <2>2. ed'[c].txn = v /\ ~ed'[c].done
    BY <1>5, <1>6, <1>8 DEF Alike
  <2> QED
    BY <1>3, <1>6, <1>9, <2>1, <2>2 DEF TxnsKept
<1> QED
  BY <1>4, <1>8, <1>10, <1>11, StepLeft

\* The answer to an edit.
LEMMA EditAccepted ==
  ASSUME LeftInv, NEW c \in Clients, todo[c] # <<>>, InHand(c).method \in EditMethods,
         UNCHANGED <<prog, tries>>,
         srv' = Serve(c, InHand(c)).srv, Accepted(c, InHand(c), Serve(c, InHand(c)))
  PROVE  LeftInv'
<1> DEFINE r == InHand(c)
           a == Serve(c, r)
           e == ed[c]
           k == Head(calls[c])
<1>1. Mapped /\ Parts(c) /\ ClientPlace(c) /\ IsStore(srv)
  BY LeftParts DEF LeftInv
<1>2. InStage(c, {"commit"}) /\ Busy(c) /\ Changing(c) /\ Edits(Tail(todo[c]))
  BY <1>1, HandPlace DEF OtherMethods, EditMethods
<1>3. NoMore(a.srv)
  BY <1>1, OthersServed DEF EditMethods
<1>4. /\ ed' = IF Tail(todo[c]) = <<>> THEN Set(ed, c, Settled(e, k)) ELSE ed
      /\ calls' = IF Tail(todo[c]) = <<>> THEN Set(calls, c, Tail(calls[c])) ELSE calls
      /\ todo' = Set(todo, c, <<>> \o Tail(todo[c]))
      /\ UNCHANGED <<tokens, told, excused>>
  BY DEF Accepted, EditMethods
<1> HIDE DEF a
<1>5. /\ e.done = FALSE /\ e.tokens = tokens[c] /\ told[c] = "busy" /\ (e.txn # None => e.live)
      /\ Driving(calls[c]) /\ calls[c][1].call # "CloseEdit"
      /\ IsEditor(e) /\ e.txn \in Nat \cup {None} /\ e.live \in BOOLEAN
  BY <1>1, <1>2 DEF Busy, Changing, Parts
<1>6. Moves(ed, ed', c) /\ ed'[c] = IF Tail(todo[c]) = <<>> THEN Settled(e, k) ELSE e
  <2> DEFINE g == Settled(e, k)
             rest == Tail(todo[c])
  <2>1. ed' = IF rest = <<>> THEN Set(ed, c, g) ELSE ed
    BY <1>4
  <2> HIDE DEF g, rest
  <2>2. Moves(ed, ed', c) /\ ed'[c] = IF rest = <<>> THEN g ELSE ed[c]
    <3>1. Moves(ed, Set(ed, c, g), c) /\ Set(ed, c, g)[c] = g /\ Moves(ed, ed, c)
      BY <1>1, MovesSet DEF Mapped
    <3> QED
      BY <2>1, <3>1
  <2> QED
    BY <2>2 DEF g, rest
<1>7. Alone(c) /\ Parts(c)' /\ ClientPlace(c)' /\ Alike(e, ed'[c])
  <2> HIDE DEF e
  <2> QED
    BY <1>2, <1>4, <1>5, <1>6, GoesOn
<1>8. srv' = a.srv
  BY DEF a
<1>9. IsStore(srv') /\ LocksKept(c)
  BY <1>3, <1>4, <1>8 DEF LocksKept, NoMore
<1>10. TxnsKept(c)
  BY <1>3, <1>7, <1>8 DEF TxnsKept, NoMore, Alike
<1> QED
  BY <1>4, <1>7, <1>9, <1>10, StepLeft

\* An edit that ends with its transaction gone from the server.
LEMMA EndsLeft ==
  ASSUME LeftInv, NEW c \in Clients, InStage(c, {"commit"}),
         UNCHANGED <<prog, tries>>, excused' = excused,
         NoMore(srv'), ed[c].txn \notin DOMAIN srv'.txns, LocksKept(c),
         Moves(tokens, tokens', c), tokens'[c] \in [Names -> Nat \cup {None}],
         Moves(told, told', c), Moves(todo, todo', c), todo'[c] = <<>>,
         Moves(calls, calls', c), calls'[c] = <<>>,
         Moves(ed, ed', c), IsEditor(ed'[c]), ed'[c].txn = None, ed'[c].done = TRUE,
         ed'[c].live \in BOOLEAN
  PROVE  LeftInv'
<1>1. Mapped /\ Parts(c)
  BY LeftParts
<1>2. Alone(c)
  BY <1>1, MovesNone DEF Alone
<1>3. Parts(c)'
  BY <1>1 DEF Parts
<1>4. ClientPlace(c)'
  <2>1. Over(c)'
    BY DEF Over, Quiet
  <2>2. InStage(c, {"commit"})'
    BY DEF InStage, Stage
  <2> QED
    BY <2>1, <2>2 DEF ClientPlace
<1>5. TxnsKept(c)
  BY DEF TxnsKept, NoMore
<1>6. IsStore(srv')
  BY DEF NoMore
<1> QED
  BY <1>2, <1>3, <1>4, <1>5, <1>6, StepLeft

\* The answer to the DELETE of a transaction.
LEMMA AbortAccepted ==
  ASSUME LeftInv, NEW c \in Clients, todo[c] # <<>>, InHand(c).method = "ABORT",
         UNCHANGED <<prog, tries>>,
         srv' = Serve(c, InHand(c)).srv, Accepted(c, InHand(c), Serve(c, InHand(c)))
  PROVE  LeftInv'
<1> DEFINE r == InHand(c)
           a == Serve(c, r)
           e == ed[c]
           m == [e EXCEPT !.live = FALSE]
           n == [m EXCEPT !.txn = None]
           f == [n EXCEPT !.done = TRUE]
<1>1. Mapped /\ Parts(c) /\ ClientPlace(c) /\ IsStore(srv)
  BY LeftParts DEF LeftInv
<1>2. InStage(c, {"commit"}) /\ Aborting(c) /\ Tail(todo[c]) = <<>>
  BY <1>1, HandPlace DEF OtherMethods, EditMethods
<1>3. NoMore(a.srv) /\ ed[c].txn \notin DOMAIN a.srv.txns
  BY <1>1, EndServed
<1>4. /\ ed' = Set(ed, c, f) /\ told' = Set(told, c, "failed")
      /\ todo' = Set(todo, c, <<>> \o Tail(todo[c]))
      /\ UNCHANGED <<calls, tokens, excused>>
  BY DEF Accepted
<1> HIDE DEF a
<1>5. IsEditor(f) /\ f.txn = None /\ f.done = TRUE /\ f.live = FALSE
  <2>1. m = [txn |-> e.txn, live |-> FALSE, done |-> e.done, open |-> e.open, deleted |-> e.deleted,
             added |-> e.added, tokens |-> e.tokens, keep |-> e.keep]
    BY ZenonT(60), <1>1, EditorFields DEF Parts
  <2> HIDE DEF m, e
  <2>2. IsEditor(m) /\ m.live = FALSE
    BY <2>1 DEF IsEditor
  <2>3. n = [txn |-> None, live |-> m.live, done |-> m.done, open |-> m.open, deleted |-> m.deleted,
             added |-> m.added, tokens |-> m.tokens, keep |-> m.keep]
    BY ZenonT(60), <2>2, EditorFields
  <2> HIDE DEF n
  <2>4. IsEditor(n) /\ n.live = FALSE /\ n.txn = None
    BY <2>2, <2>3 DEF IsEditor
  <2>5. f = [txn |-> n.txn, live |-> n.live, done |-> TRUE, open |-> n.open, deleted |-> n.deleted,
             added |-> n.added, tokens |-> n.tokens, keep |-> n.keep]
    BY <2>4, EditorFields
  <2> QED
    BY <2>4, <2>5 DEF IsEditor
<1> HIDE DEF f
<1>6. Moves(ed, ed', c) /\ ed'[c] = f
  BY <1>1, <1>4, MovesSet DEF Mapped
<1>7. Moves(told, told', c)
  BY <1>1, <1>4, MovesSet DEF Mapped
<1>8. Moves(todo, todo', c) /\ todo'[c] = <<>>
  <2>1. todo' = Set(todo, c, <<>>)
    BY <1>2, <1>4, NothingBefore, SeqEmpty
  <2> QED
    BY <1>1, <2>1, MovesSet DEF Mapped
<1>9. Moves(calls, calls', c) /\ calls'[c] = <<>> /\ Moves(tokens, tokens', c)
      /\ tokens'[c] \in [Names -> Nat \cup {None}]
  BY <1>1, <1>2, <1>4, MovesNone DEF Aborting, Parts
<1>10. srv' = a.srv
  BY DEF a
<1>11. LocksKept(c)
  BY <1>3, <1>4, <1>10 DEF LocksKept, NoMore
<1> QED
  BY <1>2, <1>3, <1>4, <1>5, <1>6, <1>7, <1>8, <1>9, <1>10, <1>11, EndsLeft

\* The answer to MERGE: without keep-locks the locks go whose tokens it carried,
\* and those are the tokens the client had.
LEMMA MergeAccepted ==
  ASSUME LeftInv, NEW c \in Clients, todo[c] # <<>>, InHand(c).method = "MERGE",
         UNCHANGED <<prog, tries>>,
         Serve(c, InHand(c)).status \in InHand(c).accepts,
         srv' = Serve(c, InHand(c)).srv, Accepted(c, InHand(c), Serve(c, InHand(c)))
  PROVE  LeftInv'
<1> DEFINE r == InHand(c)
           a == Serve(c, r)
           e == ed[c]
           m == [e EXCEPT !.done = TRUE]
           f == [m EXCEPT !.txn = None]
           none == [n \in Names |-> None]
           held == {e.tokens[n] : n \in Names} \ {None}
<1>1. Mapped /\ Parts(c) /\ ClientPlace(c) /\ IsStore(srv)
  BY LeftParts DEF LeftInv
<1>2. InStage(c, {"commit"}) /\ Busy(c) /\ Merging(c) /\ r.accepts = {"ok"} /\ Tail(todo[c]) = <<>>
  BY <1>1, HandPlace DEF OtherMethods, EditMethods
<1>3. r.held = held /\ r.what = ~e.keep
  <2> DEFINE q == Req("MERGE", "", None, held, ~e.keep, {"ok"})
  <2>1. todo[c] = <<q>>
    BY <1>2 DEF Merging
  <2>2. q.held = held /\ q.what = ~e.keep
    BY DEF Req
  <2> HIDE DEF q, held
  <2>3. r = q
    BY <2>1, SeqSingle DEF InHand
  <2> QED
    BY <2>2, <2>3
<1> HIDE DEF held
<1>4. /\ NoMore(a.srv) /\ ed[c].txn \notin DOMAIN a.srv.txns
      /\ r.what => \A n \in Names :
            srv.locks[n] # None /\ srv.locks[n].token \in r.held => a.srv.locks[n] = None
  <2>1. a.status = "ok"
    BY <1>2
  <2> QED
    BY <1>1, <2>1, EndServed
<1>5. /\ ed' = Set(ed, c, f) /\ told' = Set(told, c, "committed")
      /\ todo' = Set(todo, c, <<>> \o Tail(todo[c])) /\ calls' = Set(calls, c, <<>>)
      /\ tokens' = (IF e.keep THEN tokens ELSE Set(tokens, c, none))
      /\ UNCHANGED excused
  BY DEF Accepted
<1> HIDE DEF a, r
<1>6. IsEditor(f) /\ f.txn = None /\ f.done = TRUE /\ f.live = e.live
  <2>1. m = [txn |-> e.txn, live |-> e.live, done |-> TRUE, open |-> e.open, deleted |-> e.deleted,
             added |-> e.added, tokens |-> e.tokens, keep |-> e.keep]
    BY ZenonT(60), <1>1, EditorFields DEF Parts
  <2> HIDE DEF m, e
  <2>2. IsEditor(m) /\ m.live = e.live /\ m.done = TRUE
    BY <2>1 DEF IsEditor
  <2>3. f = [txn |-> None, live |-> m.live, done |-> m.done, open |-> m.open, deleted |-> m.deleted,
             added |-> m.added, tokens |-> m.tokens, keep |-> m.keep]
    BY ZenonT(60), <2>2, EditorFields
  <2> HIDE DEF f
  <2> QED
    BY <2>2, <2>3 DEF IsEditor
<1> HIDE DEF f
<1>7. Moves(ed, ed', c) /\ ed'[c] = f
  BY <1>1, <1>5, MovesSet DEF Mapped
<1>8. Moves(told, told', c)
  BY <1>1, <1>5, MovesSet DEF Mapped
<1>9. Moves(todo, todo', c) /\ todo'[c] = <<>>
  <2>1. todo' = Set(todo, c, <<>>)
    BY <1>2, <1>5, NothingBefore, SeqEmpty
  <2> QED
    BY <1>1, <2>1, MovesSet DEF Mapped
<1>10. Moves(calls, calls', c) /\ calls'[c] = <<>>
  BY <1>1, <1>5, MovesSet DEF Mapped
<1>11. srv' = a.srv
  BY DEF a, r
<1>12. none \in [Names -> Nat \cup {None}]
  OBVIOUS
<1>13. Moves(tokens, tokens', c) /\ tokens'[c] \in [Names -> Nat \cup {None}] /\ LocksKept(c)
  <2>1. CASE e.keep
    <3>1. tokens' = tokens
      BY <1>5, <2>1
    <3>2. LocksKept(c)
      BY <1>4, <1>11, <3>1 DEF LocksKept, NoMore
    <3> QED
      BY <1>1, <3>1, <3>2, MovesNone DEF Parts
  <2>2. CASE ~e.keep
    <3>1. tokens' = Set(tokens, c, none)
      BY <1>5, <2>2
    <3>2. Moves(tokens, tokens', c) /\ tokens'[c] = none
      <4> HIDE DEF none
      <4> QED
        BY <1>1, <3>1, MovesSet DEF Mapped
    <3>3. ASSUME NEW n \in Names, a.srv.locks[n] # None
          PROVE  a.srv.locks[n] = srv.locks[n] /\ tokens[c][n] # srv.locks[n].token
      <4>1. a.srv.locks[n] = srv.locks[n] /\ srv.locks[n] # None
        BY <1>4, <3>3 DEF NoMore
      <4>2. srv.locks[n].token \in Nat /\ None \notin Nat
        BY <1>1, <4>1, StageAssumption DEF IsStore
      <4>3. tokens[c][n] = srv.locks[n].token => srv.locks[n].token \in held
        <5>1. e.tokens = tokens[c]
          BY <1>2 DEF Busy
        <5> QED
          BY <4>2, <5>1 DEF held
      <4> QED
        BY <1>3, <1>4, <2>2, <3>3, <4>1, <4>3
    <3>4. LocksKept(c)
      BY <1>11, <3>3 DEF LocksKept
    <3> QED
      BY <1>12, <3>2, <3>4
  <2> QED
    BY <2>1, <2>2
<1>14. e.live \in BOOLEAN
  BY <1>1 DEF Parts
<1> QED
  BY <1>2, <1>4, <1>5, <1>6, <1>7, <1>8, <1>9, <1>10, <1>11, <1>13, <1>14, EndsLeft

\* The next request of a stage that is no commit.
LEMMA StageGoesOn ==
  ASSUME LeftInv, NEW c \in Clients, OtherStage(c), NEW q, Modest(q),
         UNCHANGED <<prog, tries, ed, calls>>, excused' = excused,
         todo' = Set(todo, c, q), Moves(told, told', c),
         Moves(tokens, tokens', c), tokens'[c] \in [Names -> Nat \cup {None}],
         IsStore(srv'), LocksKept(c),
         \A t \in DOMAIN srv'.txns : t \in DOMAIN srv.txns /\ srv'.txns[t].by = srv.txns[t].by
  PROVE  LeftInv'
<1>1. Mapped /\ Parts(c)
  BY LeftParts
<1>2. Moves(todo, todo', c) /\ todo'[c] = q
  BY <1>1, MovesSet DEF Mapped
<1>3. Alone(c)
  BY <1>1, <1>2, MovesNone DEF Alone
<1>4. Parts(c)'
  BY <1>1 DEF Parts
<1>5. OtherStage(c)'
  BY <1>2 DEF OtherStage, InStage, Stage, Quiet, Modest
<1>6. ClientPlace(c)' /\ TxnsKept(c)
  BY <1>5 DEF ClientPlace, TxnsKept
<1> QED
  BY <1>3, <1>4, <1>6, StepLeft

LEMMA StageAccepted ==
  ASSUME LeftInv, NEW c \in Clients, todo[c] # <<>>, InHand(c).method \in OtherMethods,
         UNCHANGED <<prog, tries>>,
         Serve(c, InHand(c)).status \in InHand(c).accepts,
         srv' = Serve(c, InHand(c)).srv, Accepted(c, InHand(c), Serve(c, InHand(c)))
  PROVE  LeftInv'
<1> DEFINE r == InHand(c)
           a == Serve(c, r)
           rest == Tail(todo[c])
<1>1. Mapped /\ Parts(c) /\ ClientPlace(c) /\ IsStore(srv)
  BY LeftParts DEF LeftInv
<1>2. OtherStage(c) /\ Modest(rest) /\ Strict(r)
  BY <1>1, HandPlace DEF OtherMethods, EditMethods
<1>3. excused' = excused /\ tokens[c] \in [Names -> Nat \cup {None}] /\ IsSeq(rest)
  BY <1>1, <1>2 DEF Accepted, Parts, Modest
<1>4. CASE r.method = "LOCK"
  <2>1. /\ tokens' = [tokens EXCEPT ![c][r.name] = a.value]
        /\ todo' = Set(todo, c, <<>> \o rest) /\ UNCHANGED <<ed, calls, told>>
    BY <1>4 DEF Accepted
  <2>2. /\ IsStore(a.srv) /\ a.srv.txns = srv.txns /\ a.value \in Nat
        /\ \A n \in Names : a.srv.locks[n] = IF n = r.name
                                             THEN [token |-> a.value, owner |-> c]
                                             ELSE srv.locks[n]
    <3>1. a.status = "ok"
      BY <1>2, <1>4 DEF Strict
    <3> QED
      BY <1>1, <1>4, <3>1, LockServed
  <2>3. srv' = a.srv
    OBVIOUS
  <2> HIDE DEF a, rest
  <2> DEFINE mine == [tokens[c] EXCEPT ![r.name] = a.value]
  <2>4. tokens' = Set(tokens, c, mine)
    BY <2>1 DEF Set
  <2>5. /\ mine \in [Names -> Nat \cup {None}]
        /\ \A n \in Names : mine[n] = IF n = r.name THEN a.value ELSE tokens[c][n]
    BY <1>3, <2>2
  <2> HIDE DEF mine
  <2>6. Moves(tokens, tokens', c) /\ tokens'[c] = mine
    BY <1>1, <2>4, MovesSet DEF Mapped
  <2>7. LocksKept(c)
    BY <2>2, <2>3, <2>5, <2>6 DEF LocksKept
  <2>8. todo' = Set(todo, c, rest) /\ Moves(told, told', c)
    BY <1>1, <1>3, <2>1, NothingBefore, MovesNone
  <2> QED
    BY <1>2, <1>3, <2>1, <2>2, <2>3, <2>5, <2>6, <2>7, <2>8, StageGoesOn DEF rest
<1>5. CASE r.method = "UNLOCK"
  <2>1. /\ tokens' = [tokens EXCEPT ![c][r.name] = None]
        /\ todo' = Set(todo, c, <<>> \o rest) /\ UNCHANGED <<ed, calls, told>>
    BY <1>5 DEF Accepted
  <2>2. /\ NoMore(a.srv)
        /\ r.name \in Names => a.srv.locks[r.name] = None
    <3>1. a.status = "nocontent"
      BY <1>2, <1>5 DEF Strict
    <3> QED
      BY <1>1, <1>5, <3>1, UnlockServed
  <2>3. srv' = a.srv
    OBVIOUS
  <2> HIDE DEF a, rest
  <2> DEFINE mine == [tokens[c] EXCEPT ![r.name] = None]
  <2>4. tokens' = Set(tokens, c, mine)
    BY <2>1 DEF Set
  <2>5. /\ mine \in [Names -> Nat \cup {None}]
        /\ \A n \in Names : n # r.name => mine[n] = tokens[c][n]
    BY <1>3
  <2> HIDE DEF mine
  <2>6. Moves(tokens, tokens', c) /\ tokens'[c] = mine
    BY <1>1, <2>4, MovesSet DEF Mapped
  <2>7. LocksKept(c)
    BY <2>2, <2>3, <2>5, <2>6 DEF LocksKept, NoMore
  <2>8. todo' = Set(todo, c, rest) /\ Moves(told, told', c)
    BY <1>1, <1>3, <2>1, NothingBefore, MovesNone
  <2>9. IsStore(srv') /\ \A t \in DOMAIN srv'.txns : t \in DOMAIN srv.txns /\ srv'.txns[t].by = srv.txns[t].by
    BY <2>2, <2>3 DEF NoMore
  <2> QED
    BY <1>2, <1>3, <2>1, <2>5, <2>6, <2>7, <2>8, <2>9, StageGoesOn DEF rest
<1>6. CASE r.method \in {"GETLOCK", "PROPFIND", "PROPSET", "REPORT", "GET"}
  <2>1. NoMore(a.srv)
    BY <1>1, <1>6, OthersServed
  <2>2. srv' = a.srv
    OBVIOUS
  <2>3. UNCHANGED <<ed, calls, tokens>>
    <3>1. CASE r.method \in {"GETLOCK", "PROPFIND", "REPORT", "GET"}
      BY <3>1 DEF Accepted
    <3>2. CASE r.method = "PROPSET"
      BY <3>2 DEF Accepted
    <3> QED
      BY <1>6, <3>1, <3>2
  <2>4. Moves(told, told', c)
    <3>1. told' = told \/ told' = Set(told, c, "changed")
      <4>1. CASE r.method \in {"GETLOCK", "PROPFIND", "REPORT", "GET"}
        BY <4>1 DEF Accepted
      <4>2. CASE r.method = "PROPSET"
        BY <4>2 DEF Accepted
      <4> QED
        BY <1>6, <4>1, <4>2
    <3> QED
      BY <1>1, <3>1, MovesSet DEF Mapped
  <2>5. PICK more : todo' = Set(todo, c, more \o rest) /\ Modest(more)
    <3>1. CASE r.method = "GETLOCK"
      <4> DEFINE u == UnlockPath(r.name, a.value, TRUE)
      <4>1. todo' = Set(todo, c, (IF a.value = None THEN <<>> ELSE <<u>>) \o rest)
        BY <3>1 DEF Accepted
      <4>2. u.method = "UNLOCK" /\ u.accepts = {"nocontent"}
        BY DEF UnlockPath, Req
      <4> HIDE DEF u, a, rest
      <4>3. Modest(<<u>>) /\ Modest(<<>>)
        BY <4>2, ModestSingle, ModestEmpty DEF OtherMethods, Strict
      <4> QED
        BY <4>1, <4>3 DEF rest
    <3>2. CASE r.method = "PROPFIND"
      <4> DEFINE u == PropSet(TRUE, a.value, None)
      <4>1. todo' = Set(todo, c, (IF a.value = None THEN <<>> ELSE <<u>>) \o rest)
        BY <3>2 DEF Accepted
      <4>2. u.method = "PROPSET"
        BY DEF PropSet, Req
      <4> HIDE DEF u, a, rest
      <4>3. Modest(<<u>>) /\ Modest(<<>>)
        BY <4>2, ModestSingle, ModestEmpty DEF OtherMethods, Strict
      <4> QED
        BY <4>1, <4>3 DEF rest
    <3>3. CASE r.method = "REPORT"
      <4> DEFINE u == FetchDelta(Stage(c), c, a.value)
                 same == Tree(a.value)[Node(Stage(c))] \in {None, Tree(youngest[c])[Node(Stage(c))]}
      <4>1. todo' = Set(todo, c, (IF same THEN <<>> ELSE <<u>>) \o rest)
        BY <3>3 DEF Accepted
      <4>2. u.method = "GET"
        BY DEF FetchDelta, Req
      <4> HIDE DEF u, a, rest, same
      <4>3. Modest(<<u>>) /\ Modest(<<>>)
        BY <4>2, ModestSingle, ModestEmpty DEF OtherMethods, Strict
      <4> QED
        BY <4>1, <4>3 DEF rest
    <3>4. CASE r.method \in {"PROPSET", "GET"}
      <4>1. todo' = Set(todo, c, <<>> \o rest)
        BY <3>4 DEF Accepted
      <4> QED
        BY <4>1, ModestEmpty
    <3> QED
      BY <1>6, <3>1, <3>2, <3>3, <3>4
  <2>6. Modest(more \o rest)
    BY <1>2, <2>5, ModestConcat
  <2> HIDE DEF a
  <2>7. LocksKept(c) /\ IsStore(srv')
        /\ \A t \in DOMAIN srv'.txns : t \in DOMAIN srv.txns /\ srv'.txns[t].by = srv.txns[t].by
    BY <2>1, <2>2, <2>3 DEF LocksKept, NoMore
  <2>8. Moves(tokens, tokens', c) /\ tokens'[c] \in [Names -> Nat \cup {None}]
    BY <1>1, <1>3, <2>3, MovesNone
  <2> HIDE DEF rest
  <2> QED
    BY <1>2, <1>3, <2>3, <2>4, <2>5, <2>6, <2>7, <2>8, StageGoesOn
<1> QED
  BY <1>4, <1>5, <1>6 DEF OtherMethods

-----------------------------------------------------------------------------
(***************************************************************************)
(* The invariant.                                                          *)
(***************************************************************************)
LEMMA SameLeft ==
  ASSUME LeftInv, UNCHANGED <<srv, prog, tries, tokens, ed, todo, calls, told, excused>>
  PROVE  LeftInv'
<1>1. \A d \in Clients : ClientPlace(d)'
  BY PlaceSame, LeftParts
<1>2. NothingLeftBehind'
  BY DEF LeftInv, NothingLeftBehind
<1> QED
  BY <1>1, <1>2 DEF LeftInv

LEMMA NothingServed ==
  ASSUME IsStore(srv), UNCHANGED srv
  PROVE  NoMoreBut(srv', {})
BY DEF NoMoreBut

LEMMA ChallengedLeft ==
  ASSUME LeftInv, NEW c \in Clients, Challenged(c) \/ RequestLost(c)
  PROVE  LeftInv'
<1>1. todo[c] # <<>> /\ UNCHANGED <<srv, prog, tries, tokens>>
  BY DEF Challenged, RequestLost, Sending
<1>2. \/ RequestFails(c, InHand(c), {})
      \/ UNCHANGED <<ed, todo, calls, told, excused>>
  BY DEF Challenged, RequestLost
<1>3. NoMoreBut(srv', {})
  BY <1>1, NothingServed, LeftParts DEF LeftInv
<1> QED
  BY <1>1, <1>2, <1>3, FailsLeft, SameLeft

LEMMA AnswerLostLeft ==
  ASSUME LeftInv, NEW c \in Clients, AnswerLost(c)
  PROVE  LeftInv'
<1> DEFINE r == InHand(c)
           a == Serve(c, r)
           unknown == Unknown(r, a)
<1>1. /\ todo[c] # <<>> /\ UNCHANGED <<prog, tries, tokens>>
      /\ srv' = a.srv /\ RequestFails(c, r, unknown)
  BY DEF AnswerLost, Sending
<1>2. /\ r.method = "POST" => <<"txn", a.value>> \in unknown
      /\ r.method = "LOCK" /\ a.status = "ok" => <<"lock", a.value>> \in unknown
  <2> HIDE DEF a, r
  <2> QED
    BY DEF Unknown
<1> HIDE DEF unknown
<1>3. IsStore(srv)
  BY DEF LeftInv
<1>4. NoMoreBut(srv', unknown)
  BY <1>1, <1>2, <1>3, ServedUnknown
<1> QED
  BY <1>1, <1>4, FailsLeft

LEMMA AnsweredLeft ==
  ASSUME LeftInv, NEW c \in Clients, Answered(c)
  PROVE  LeftInv'
<1> DEFINE r == InHand(c)
           a == Serve(c, r)
<1>1. ClientPlace(c) /\ IsStore(srv)
  BY LeftParts DEF LeftInv
<1>2. /\ todo[c] # <<>> /\ UNCHANGED <<prog, tries>> /\ srv' = a.srv
      /\ \/ a.status \in r.accepts /\ Accepted(c, r, a)
         \/ a.status \notin r.accepts /\ RequestFails(c, r, {}) /\ UNCHANGED tokens
  BY DEF Answered, Sending
<1>3. /\ r.method \in OtherMethods \cup EditMethods \cup {"POST", "MERGE", "ABORT"}
      /\ r.method = "POST" => r.accepts = {"created"}
      /\ r.method = "LOCK" => r.accepts = {"ok"}
  BY <1>1, <1>2, HandPlace DEF OtherMethods, EditMethods, Strict
<1>4. CASE a.status \in r.accepts
  <2>1. Accepted(c, r, a)
    BY <1>2, <1>4
  <2> QED
    BY <1>2, <1>3, <1>4, <2>1, PostAccepted, EditAccepted, AbortAccepted, MergeAccepted, StageAccepted
<1>5. CASE a.status \notin r.accepts
  <2>1. r.method # "POST"
    BY <1>1, <1>3, <1>5, PostServed
  <2>2. ~(r.method = "LOCK" /\ a.status = "ok")
    BY <1>3, <1>5
  <2>3. NoMoreBut(srv', {})
    BY <1>1, <1>2, <2>1, <2>2, ServedUnknown
  <2> QED
    BY <1>2, <1>5, <2>3, FailsLeft
<1> QED
  BY <1>4, <1>5

LEMMA LeftInit == Init => LeftInv
<1> SUFFICES ASSUME Init PROVE LeftInv
  OBVIOUS
<1>1. prog \in [Clients -> Seq(Stages)]
  BY StageAssumption DEF Init
<1>2. /\ srv.txns = <<>> /\ srv.locks = [n \in Names |-> None] /\ srv.serial = 0
      /\ srv = [hist |-> srv.hist, txns |-> srv.txns, locks |-> srv.locks,
                msg |-> srv.msg, serial |-> srv.serial]
  BY DEF Init
<1>3. DOMAIN srv.txns = {}
  BY <1>2, SeqEmpty
<1>4. IsStore(srv)
  BY <1>2, <1>3 DEF IsStore
<1>5. NothingLeftBehind
  BY <1>2, <1>3 DEF NothingLeftBehind
<1>6. /\ tries = [c \in Clients |-> 0] /\ tokens = [c \in Clients |-> [n \in Names |-> None]]
      /\ ed = [c \in Clients |-> NoEditor] /\ todo = [c \in Clients |-> <<>>]
      /\ calls = [c \in Clients |-> <<>>] /\ told = [c \in Clients |-> "nothing"]
  BY DEF Init
<1>7. IsEditor(NoEditor) /\ NoEditor.txn = None /\ NoEditor.done = FALSE /\ NoEditor.live = FALSE
  BY DEF NoEditor, IsEditor
<1>8. \A c \in Clients : ClientPlace(c)
  BY <1>6, <1>7 DEF ClientPlace, Over, Quiet
<1> QED
  BY <1>1, <1>4, <1>5, <1>6, <1>7, <1>8 DEF LeftInv

LEMMA LeftStep == LeftInv /\ [Next]_vars => LeftInv'
<1> SUFFICES ASSUME LeftInv, [Next]_vars PROVE LeftInv'
  OBVIOUS
<1>1. CASE Age
  <2>1. UNCHANGED <<srv, prog, tries, tokens, ed, todo, calls, told, excused>>
    BY <1>1 DEF Age, session, caller
  <2> QED
    BY <2>1, SameLeft
<1>2. CASE UNCHANGED vars
  <2>1. UNCHANGED <<srv, prog, tries, tokens, ed, todo, calls, told, excused>>
    BY <1>2 DEF vars, session, caller
  <2> QED
    BY <2>1, SameLeft
<1> QED
  BY <1>1, <1>2, BeginLeft, EditorCallLeft, LeaveLeft, ChallengedLeft, AnsweredLeft, AnswerLostLeft
  DEF Next

\* Whatever requests and answers are lost or refused, a transaction that the
\* server holds belongs to an edit that is still open, and the owner of a lock
\* has its token, unless the answer that named it was lost or the client was
\* told that its transaction stays: createTransaction remembers the transaction
\* before it sends anything else, AbortEdit deletes the one it knows of, lock
\* hands on the token it is given, and a MERGE that releases locks carries
\* every token the client has.
THEOREM NothingStays == Spec => []NothingLeftBehind
<1>1. LeftInv => NothingLeftBehind
  BY DEF LeftInv
<1> QED
  BY <1>1, LeftInit, LeftStep, PTL DEF Spec

-----------------------------------------------------------------------------
(***************************************************************************)
(* What a caller is told of its commits.                                   *)
(***************************************************************************)
\* The number of the last stage of c that may have made a revision.
Latest(c) == IF tries[c] > 0 THEN Len(prog[c]) ELSE Len(prog[c]) + 1

\* What c was told is so; while it has not been told of a commit, what its
\* drive has made is excused; and no stage to come has made a revision.
Outcome(c) ==
  /\ told[c] = "committed" => youngest[c] \in Made(c, Latest(c))
  /\ InStage(c, {"commit"}) /\ told[c] # "committed" =>
        \A r \in Made(c, Len(prog[c])) : <<"rev", r>> \in excused
  /\ \A r \in 1..head : Revision(r).by.client = c =>
        Revision(r).by.left \in Nat /\ Revision(r).by.left >= Latest(c)

OutcomeInv ==
  /\ IsSeq(srv.hist) /\ srv.hist # <<>>
  /\ youngest = [c \in Clients |-> youngest[c]]
  /\ \A c \in Clients : Outcome(c)

\* No revision is made, or one is, by the commit that c is in.
HistSame == srv'.hist = srv.hist

HistGrows(c) ==
  \E tree, cr, drive :
    srv'.hist = Append(srv.hist, [tree |-> tree, cr |-> cr,
                                  by |-> [client |-> c, left |-> Len(prog[c]), drive |-> drive]])

LEMMA MadeSame ==
  ASSUME HistSame, NEW d, NEW n
  PROVE  Made(d, n)' = Made(d, n) /\ head' = head /\ \A r : Revision(r)' = Revision(r)
BY DEF HistSame, Made, Revision, head

LEMMA MadeGrows ==
  ASSUME IsSeq(srv.hist), srv.hist # <<>>, NEW c, HistGrows(c)
  PROVE  /\ IsSeq(srv'.hist) /\ srv'.hist # <<>>
         /\ head \in Nat /\ head' = head + 1
         /\ \A r \in 1..head : Revision(r)' = Revision(r)
         /\ Revision(head)'.by.client = c /\ Revision(head)'.by.left = Len(prog[c])
<1> DEFINE h == srv.hist
           n == Len(h)
<1>1. PICK tree, cr, drive :
        srv'.hist = Append(h, [tree |-> tree, cr |-> cr,
                               by |-> [client |-> c, left |-> Len(prog[c]), drive |-> drive]])
  BY DEF HistGrows
<1> DEFINE x == [tree |-> tree, cr |-> cr,
                 by |-> [client |-> c, left |-> Len(prog[c]), drive |-> drive]]
           g == Append(h, x)
           S == {h[i] : i \in DOMAIN h} \cup {x}
<1>2. x.by.client = c /\ x.by.left = Len(prog[c]) /\ srv'.hist = g
  BY <1>1
<1>3. n \in Nat \ {0} /\ h \in Seq(S) /\ DOMAIN h = 1..n
  <2>1. h \in Seq({h[i] : i \in DOMAIN h}) /\ h # <<>>
    BY DEF IsSeq
  <2> QED
    BY <2>1, SeqMonotonic
<1> HIDE DEF x, h, n
<1>4. g \in Seq(S) /\ Len(g) = n + 1 /\ (\A i \in 1..n : g[i] = h[i]) /\ g[n + 1] = x
  BY <1>3, AppendProperties DEF n, S
<1> HIDE DEF g, S
<1>5. IsSeq(g) /\ g # <<>>
  BY <1>3, <1>4, SeqOf
<1>6. head = n - 1 /\ head' = n
  BY <1>2, <1>3, <1>4 DEF head, h, n
<1>7. \A r : Revision(r)' = g[r + 1] /\ Revision(r) = h[r + 1]
  BY <1>2 DEF Revision, h
<1>8. \A r \in 1..head : Revision(r)' = Revision(r)
  BY <1>3, <1>4, <1>6, <1>7
<1>9. Revision(head)' = x
  BY <1>2, <1>3, <1>4, <1>6 DEF Revision
<1> QED
  BY <1>2, <1>3, <1>5, <1>6, <1>8, <1>9

\* Only MERGE adds to the history.
LEMMA OthersHist ==
  ASSUME IsStore(srv), NEW c \in Clients, NEW r, r.method # "MERGE"
  PROVE  Serve(c, r).srv.hist = srv.hist
<1> DEFINE a == Serve(c, r)
<1>1. ASSUME NEW x, NEW y
      PROVE  /\ [srv EXCEPT !.serial = x, !.txns = y].hist = srv.hist
             /\ [srv EXCEPT !.serial = x, !.locks = y].hist = srv.hist
             /\ [srv EXCEPT !.txns = x].hist = srv.hist
             /\ [srv EXCEPT !.locks = x].hist = srv.hist
             /\ [srv EXCEPT !.msg = x].hist = srv.hist
  BY DEF IsStore
<1>2. CASE r.method = "POST"
  <2>1. \E x, y : a.srv = [srv EXCEPT !.serial = x, !.txns = y]
    BY <1>2 DEF Serve, Answer
  <2> QED
    BY <1>1, <2>1
<1>3. CASE r.method = "LOCK"
  <2> DEFINE new == srv.serial + 1
             locks == [srv.locks EXCEPT ![r.name] = [token |-> new, owner |-> c]]
  <2>1. a.srv = srv \/ a.srv = [srv EXCEPT !.serial = new, !.locks = locks]
    BY <1>3 DEF Serve, Answer, Refusal
  <2> HIDE DEF a, new, locks
  <2>2. [srv EXCEPT !.serial = new, !.locks = locks].hist = srv.hist
    BY <1>1
  <2>3. a.srv.hist = srv.hist
    BY <2>1, <2>2
  <2> QED
    BY <2>3 DEF a
<1>4. CASE r.method = "ABORT"
  <2>1. a.srv = srv \/ \E x : a.srv = [srv EXCEPT !.txns = x]
    BY <1>4 DEF Serve, Answer, Refusal
  <2> QED
    BY <1>1, <2>1
<1>5. CASE r.method = "UNLOCK"
  <2> DEFINE locks == [srv.locks EXCEPT ![r.name] = None]
  <2>1. a.srv = srv \/ a.srv = [srv EXCEPT !.locks = locks]
    BY <1>5 DEF Serve, Answer, Refusal
  <2> QED
    BY <1>1, <2>1
<1>6. CASE r.method = "PROPSET"
  <2>1. a.srv = srv \/ \E x : a.srv = [srv EXCEPT !.msg = x]
    BY <1>6 DEF Serve, Answer, Refusal
  <2> QED
    BY <1>1, <2>1
<1>7. CASE r.method \in {"TXNPROPS", "HEAD", "GETLOCK", "PROPFIND", "REPORT", "GET"}
  BY <1>7 DEF Serve, Answer, Refusal
<1>8. CASE r.method \notin {"POST", "LOCK", "ABORT", "UNLOCK", "PROPSET",
                           "TXNPROPS", "HEAD", "GETLOCK", "PROPFIND", "REPORT", "GET"}
  <2>1. a = Serve_Edit(c, r)
    BY <1>8 DEF Serve
  <2>2. a.srv = srv \/ \E tree, touched : a.srv = Change(c, tree, touched)
    BY <2>1, EditServed
  <2> HIDE DEF a
  <2>3. a.srv.hist = srv.hist
    BY <2>2, ChangeIs
  <2> QED
    BY <2>3 DEF a
<1> QED
  BY <1>2, <1>3, <1>4, <1>5, <1>6, <1>7, <1>8

\* What the server's history becomes: a MERGE that succeeds makes the next
\* revision, of the client that asked, and says its number.
LEMMA HistServed ==
  ASSUME IsStore(srv), NEW c \in Clients, NEW r
  PROVE  LET a == Serve(c, r)
         IN  \/ a.srv.hist = srv.hist /\ ~(r.method = "MERGE" /\ a.status = "ok")
             \/ /\ r.method = "MERGE" /\ a.status = "ok" /\ a.value = head + 1
                /\ \E tree, cr, drive :
                      a.srv.hist = Append(srv.hist, [tree |-> tree, cr |-> cr,
                                                     by |-> [client |-> c, left |-> Len(prog[c]),
                                                             drive |-> drive]])
<1> DEFINE a == Serve(c, r)
<1>1. CASE r.method = "MERGE"
  <2> DEFINE Entry(tree, cr) == [tree |-> tree, cr |-> cr,
                                 by |-> [client |-> c, left |-> Len(prog[c]), drive |-> Stage(c).drive]]
             left == [t \in DOMAIN srv.txns \ {ed[c].txn} |-> srv.txns[t]]
             Freed == {n \in Names : srv.locks[n] # None /\ r.what /\ srv.locks[n].token \in r.held}
             locks == [n \in Names |-> IF n \in Freed THEN None ELSE srv.locks[n]]
             txn == Txn(c)
             old == Revision(head)
             Changed == {n \in Names : old.cr[n] > txn.base}
             Clash == \/ txn.touched \cap Changed # {}
                      \/ \E n \in txn.touched : Dir(n) \in Names /\ old.tree[Dir(n)] = None /\ txn.tree[n] # None
                                                 /\ Dir(n) \notin txn.touched
             Bubbled == UNION {Above(n) : n \in txn.touched}
             tree1 == [n \in Names |-> IF n \in txn.touched THEN txn.tree[n] ELSE old.tree[n]]
             cr1 == [n \in Names |-> IF n \in Bubbled THEN head + 1 ELSE old.cr[n]]
             made == [srv EXCEPT !.hist = Append(@, Entry(tree1, cr1)), !.txns = left, !.locks = locks]
  <2>1. a = IF Clash THEN Refusal("conflict")
            ELSE IF Barred(txn.touched, r.held) THEN Refusal("locked")
            ELSE Answer("ok", head + 1, made)
    <3>1. a = Serve_Merge(c, r)
      BY <1>1 DEF Serve
    <3>2. Serve_Merge(c, r) = IF Clash THEN Refusal("conflict")
                              ELSE IF Barred(txn.touched, r.held) THEN Refusal("locked")
                              ELSE Answer("ok", head + 1, made)
      BY DEF Serve_Merge
    <3> HIDE DEF a
    <3> QED
      BY <3>1, <3>2
  <2>2. \/ a.status \in {"conflict", "locked"} /\ a.srv = srv
        \/ /\ a.status = "ok" /\ a.value = head + 1
           /\ \E tree, cr :
                 a.srv = [srv EXCEPT !.hist = Append(@, Entry(tree, cr)), !.txns = left, !.locks = locks]
    <3>1. \E tree, cr :
            made = [srv EXCEPT !.hist = Append(@, Entry(tree, cr)), !.txns = left, !.locks = locks]
      <4> HIDE DEF left, locks, Entry, tree1, cr1
      <4> QED
        OBVIOUS
    <3> HIDE DEF a, left, locks, Entry, Clash, made
    <3>2. \/ a = Refusal("conflict") \/ a = Refusal("locked")
          \/ a = Answer("ok", head + 1, made)
      BY <2>1
    <3>3. \/ a.status \in {"conflict", "locked"} /\ a.srv = srv
          \/ a.status = "ok" /\ a.value = head + 1 /\ a.srv = made
      BY <3>2 DEF Answer, Refusal
    <3> QED
      BY ZenonT(60), <3>1, <3>3
  <2> HIDE DEF a, left, locks
  <2>3. ASSUME NEW tree, NEW cr,
               a.srv = [srv EXCEPT !.hist = Append(@, Entry(tree, cr)), !.txns = left, !.locks = locks]
        PROVE  a.srv.hist = Append(srv.hist, Entry(tree, cr))
    <3> DEFINE more == Append(srv.hist, Entry(tree, cr))
    <3> HIDE DEF more
    <3>1. Merged(srv, more, left, locks)
            = [hist |-> more, txns |-> left, locks |-> locks, msg |-> srv.msg, serial |-> srv.serial]
      BY MergeFields
    <3>2. a.srv = Merged(srv, more, left, locks)
      BY <2>3 DEF Merged, more
    <3> QED
      BY <3>1, <3>2 DEF more
  <2>4. CASE a.status # "ok"
    BY <1>1, <2>2, <2>4 DEF a
  <2>5. CASE a.status = "ok"
    <3>1. PICK tree, cr :
            a.srv = [srv EXCEPT !.hist = Append(@, Entry(tree, cr)), !.txns = left, !.locks = locks]
      BY <2>2, <2>5
    <3>2. a.srv.hist = Append(srv.hist, Entry(tree, cr))
      BY <2>3, <3>1
    <3>3. a.value = head + 1
      BY <2>2, <2>5
    <3> QED
      BY <1>1, <2>5, <3>2, <3>3 DEF a
  <2> QED
    BY <2>4, <2>5
<1>2. CASE r.method # "MERGE"
  <2>1. a.srv.hist = srv.hist
    BY <1>2, OthersHist
  <2> QED
    BY <1>2, <2>1
<1> QED
  BY <1>1, <1>2

\* The revisions there were stay as they are, and a new one is c's.
HistKept(c) ==
  /\ head \in Nat /\ \A r \in 1..head : Revision(r)' = Revision(r)
  /\ \/ head' = head
     \/ /\ head' = head + 1
        /\ Revision(head)'.by.client = c /\ Revision(head)'.by.left = Len(prog[c])

LEMMA HistIsKept ==
  ASSUME OutcomeInv, NEW c, HistSame \/ HistGrows(c)
  PROVE  HistKept(c) /\ IsSeq(srv'.hist) /\ srv'.hist # <<>>
<1>1. IsSeq(srv.hist) /\ srv.hist # <<>>
  BY DEF OutcomeInv
<1>2. head \in Nat
  <2>1. Len(srv.hist) \in Nat \ {0}
    BY <1>1 DEF IsSeq
  <2> QED
    BY <2>1 DEF head
<1>3. CASE HistSame
  BY <1>1, <1>2, <1>3 DEF HistSame, HistKept, Revision, head
<1>4. CASE HistGrows(c)
  BY <1>1, <1>4, MadeGrows DEF HistKept
<1> QED
  BY <1>3, <1>4

\* It is enough to look at the client that moves.
LEMMA OutcomeAlone ==
  ASSUME LeftInv, OutcomeInv, NEW c \in Clients, HistSame \/ HistGrows(c),
         Moves(prog, prog', c), Moves(tries, tries', c), Moves(told, told', c),
         Moves(youngest, youngest', c), excused \subseteq excused', Outcome(c)'
  PROVE  OutcomeInv'
<1>1. HistKept(c) /\ IsSeq(srv'.hist) /\ srv'.hist # <<>>
  BY HistIsKept
<1>2. ASSUME NEW d \in Clients, d # c
      PROVE  Outcome(d)'
  <2>1. /\ prog'[d] = prog[d] /\ tries'[d] = tries[d] /\ told'[d] = told[d]
        /\ youngest'[d] = youngest[d]
    BY <1>2 DEF Moves
  <2>2. Latest(d)' = Latest(d) /\ (InStage(d, {"commit"})' => InStage(d, {"commit"}))
    BY <2>1 DEF Latest, InStage, Stage
  <2>3. \A r \in 1..head' : Revision(r)'.by.client = d => r \in 1..head /\ Revision(r)' = Revision(r)
    BY <1>1, <1>2 DEF HistKept
  <2>4. \A r \in 1..head : r \in 1..head' /\ Revision(r)' = Revision(r)
    BY <1>1 DEF HistKept
  <2>5. Outcome(d)
    BY DEF OutcomeInv
  <2>6. told'[d] = "committed" => (youngest[d] \in Made(d, Latest(d)))'
    BY <2>1, <2>2, <2>4, <2>5 DEF Outcome, Made
  <2>7. InStage(d, {"commit"})' /\ told'[d] # "committed" =>
          (\A r \in Made(d, Len(prog[d])) : <<"rev", r>> \in excused)'
    BY <2>1, <2>2, <2>3, <2>5 DEF Outcome, Made
  <2>8. (\A r \in 1..head : Revision(r).by.client = d =>
            Revision(r).by.left \in Nat /\ Revision(r).by.left >= Latest(d))'
    BY <2>2, <2>3, <2>5 DEF Outcome
  <2> QED
    BY <2>6, <2>7, <2>8 DEF Outcome
<1>3. youngest' = [d \in Clients |-> youngest'[d]]
  BY DEF Moves
<1> QED
  BY <1>1, <1>2, <1>3 DEF OutcomeInv

\* A step that makes no revision and tells nobody of one.
LEMMA OutcomeQuiet ==
  ASSUME OutcomeInv, NEW c \in Clients, HistSame, UNCHANGED <<prog, tries>>,
         excused \subseteq excused',
         told'[c] = "committed" => told[c] = "committed" /\ youngest'[c] = youngest[c],
         InStage(c, {"commit"}) /\ told'[c] # "committed" => told[c] # "committed"
  PROVE  Outcome(c)'
<1>1. Latest(c)' = Latest(c) /\ (InStage(c, {"commit"})' => InStage(c, {"commit"}))
  BY DEF Latest, InStage, Stage
<1>2. head' = head /\ \A r : Revision(r)' = Revision(r)
  BY MadeSame
<1>3. Outcome(c)
  BY DEF OutcomeInv
<1>4. told'[c] = "committed" => (youngest[c] \in Made(c, Latest(c)))'
  BY <1>1, <1>2, <1>3 DEF Outcome, Made
<1>5. InStage(c, {"commit"})' /\ told'[c] # "committed" =>
        (\A r \in Made(c, Len(prog[c])) : <<"rev", r>> \in excused)'
  BY <1>1, <1>2, <1>3 DEF Outcome, Made
<1>6. (\A r \in 1..head : Revision(r).by.client = c =>
          Revision(r).by.left \in Nat /\ Revision(r).by.left >= Latest(c))'
  BY <1>1, <1>2, <1>3 DEF Outcome
<1> QED
  BY <1>4, <1>5, <1>6 DEF Outcome

LEMMA BeginOutcome ==
  ASSUME LeftInv, OutcomeInv, NEW c \in Clients, Begin(c)
  PROVE  OutcomeInv'
<1>1. Mapped /\ Parts(c) /\ youngest = [d \in Clients |-> youngest[d]]
  BY LeftParts DEF OutcomeInv
<1>2. /\ UNCHANGED <<srv, prog, youngest, excused>>
      /\ tries' = Set(tries, c, tries[c] + 1) /\ told' = Set(told, c, "busy")
  BY DEF Begin
<1>3. /\ Moves(tries, tries', c) /\ tries'[c] = tries[c] + 1
      /\ Moves(told, told', c) /\ told'[c] = "busy"
      /\ Moves(prog, prog', c) /\ Moves(youngest, youngest', c)
  <2>1. Moves(tries, tries', c) /\ tries'[c] = tries[c] + 1
    BY <1>1, <1>2, MovesSet DEF Mapped
  <2>2. Moves(told, told', c) /\ told'[c] = "busy"
    BY <1>1, <1>2, MovesSet DEF Mapped
  <2>3. Moves(prog, prog', c) /\ Moves(youngest, youngest', c)
    BY <1>1, <1>2 DEF Mapped, Moves
  <2> QED
    BY <2>1, <2>2, <2>3
<1>4. /\ tries[c] \in Nat /\ tries'[c] > 0
      /\ tries[c] = 0 \/ (told[c] = "failed" /\ Stage(c).kind = "commit" /\ prog[c] # <<>>)
  <2>1. tries[c] = 0 \/ (told[c] = "failed" /\ Stage(c).kind = "commit")
    BY Zenon DEF Begin
  <2>2. prog[c] # <<>>
    BY Zenon DEF Begin
  <2>3. tries[c] \in Nat
    BY <1>1 DEF Parts
  <2> QED
    BY <1>3, <2>1, <2>2, <2>3
<1>5. HistSame /\ head' = head /\ \A r : Revision(r)' = Revision(r)
  BY <1>2, MadeSame DEF HistSame
<1>6. Outcome(c) /\ Len(prog[c]) \in Nat /\ prog'[c] = prog[c]
  <2>1. prog[c] \in Seq(Stages)
    BY <1>1 DEF Parts
  <2>2. Len(prog[c]) \in Nat
    BY <2>1
  <2> QED
    BY <1>2, <2>2 DEF OutcomeInv
<1>7. \A r \in 1..head : Revision(r).by.client = c =>
        Revision(r).by.left \in Nat /\ Revision(r).by.left >= Len(prog[c])
  BY <1>4, <1>6 DEF Outcome, Latest
<1> DEFINE left == Len(prog[c])
<1>8. ASSUME NEW r \in Made(c, left)
      PROVE  <<"rev", r>> \in excused
  <2>1. CASE tries[c] = 0
    <3>1. Latest(c) = left + 1
      BY <2>1 DEF Latest
    <3>2. r \in 1..head /\ Revision(r).by.client = c /\ Revision(r).by.left = left
      BY <1>8 DEF Made
    <3>3. left >= left + 1
      BY <1>6, <3>1, <3>2 DEF Outcome
    <3> QED
      BY <1>6, <3>3
  <2>2. CASE tries[c] # 0
    <3>1. InStage(c, {"commit"}) /\ told[c] # "committed"
      BY <1>4, <2>2 DEF InStage
    <3> QED
      BY <1>6, <1>8, <3>1 DEF Outcome
  <2> QED
    BY <2>1, <2>2
<1> HIDE DEF left
<1>9. Outcome(c)'
  <2>1. Latest(c)' = Len(prog[c])
    BY <1>4, <1>6 DEF Latest
  <2>2. \A r \in Made(c, Len(prog[c])) : <<"rev", r>> \in excused
    BY <1>8 DEF left
  <2> QED
    BY <1>2, <1>3, <1>5, <1>6, <1>7, <2>1, <2>2 DEF Outcome, Made
<1> QED
  BY <1>2, <1>3, <1>5, <1>9, OutcomeAlone

LEMMA LeaveOutcome ==
  ASSUME LeftInv, OutcomeInv, NEW c \in Clients, Leave(c)
  PROVE  OutcomeInv'
<1>1. Mapped /\ Parts(c) /\ youngest = [d \in Clients |-> youngest[d]]
  BY LeftParts DEF OutcomeInv
<1>2. /\ UNCHANGED <<srv, told, youngest, excused>> /\ prog[c] # <<>> /\ tries[c] > 0
      /\ prog' = Set(prog, c, Tail(prog[c])) /\ tries' = Set(tries, c, 0)
  BY DEF Leave, session
<1>3. /\ Moves(prog, prog', c) /\ prog'[c] = Tail(prog[c])
      /\ Moves(tries, tries', c) /\ tries'[c] = 0
      /\ Moves(told, told', c) /\ Moves(youngest, youngest', c)
  <2>1. Moves(prog, prog', c) /\ prog'[c] = Tail(prog[c])
    BY ZenonT(60), <1>1, <1>2, MovesSet DEF Mapped
  <2>2. Moves(tries, tries', c) /\ tries'[c] = 0
    BY <1>1, <1>2, MovesSet DEF Mapped
  <2>3. Moves(told, told', c) /\ Moves(youngest, youngest', c)
    BY <1>1, <1>2 DEF Mapped, Moves
  <2> QED
    BY <2>1, <2>2, <2>3
<1>4. HistSame /\ head' = head /\ \A r : Revision(r)' = Revision(r)
  BY <1>2, MadeSame DEF HistSame
<1>5. Outcome(c) /\ Len(prog[c]) \in Nat /\ Len(prog'[c]) + 1 = Len(prog[c])
  <2>1. prog[c] \in Seq(Stages) /\ prog[c] # <<>>
    BY <1>1, <1>2 DEF Parts
  <2>2. Len(Tail(prog[c])) = Len(prog[c]) - 1 /\ Len(prog[c]) \in Nat
    BY <2>1
  <2> QED
    BY <1>3, <2>2 DEF OutcomeInv
<1>6. Latest(c) = Len(prog[c]) /\ Latest(c)' = Len(prog[c])
  BY <1>2, <1>3, <1>5 DEF Latest
<1>7. ~InStage(c, {"commit"})'
  BY <1>3 DEF InStage
<1>8. Outcome(c)'
  BY <1>2, <1>4, <1>5, <1>6, <1>7 DEF Outcome, Made
<1> QED
  BY <1>2, <1>3, <1>4, <1>8, OutcomeAlone

LEMMA OutcomeSame ==
  ASSUME OutcomeInv, HistSame, UNCHANGED <<prog, tries, told, youngest, excused>>
  PROVE  OutcomeInv'
<1>1. head' = head /\ \A r : Revision(r)' = Revision(r)
  BY MadeSame
<1>2. ASSUME NEW c \in Clients
      PROVE  Outcome(c)'
  BY <1>2, OutcomeQuiet DEF OutcomeInv
<1> QED
  BY <1>2 DEF OutcomeInv, HistSame

\* A step of a commit that makes a revision: either its caller is told so, or
\* it is excused.
LEMMA OutcomeGrows ==
  ASSUME LeftInv, OutcomeInv, NEW c \in Clients, HistGrows(c), InStage(c, {"commit"}),
         UNCHANGED <<prog, tries>>, excused \subseteq excused', told[c] # "committed",
         told'[c] = "committed" => youngest'[c] = head + 1,
         told'[c] # "committed" => <<"rev", head + 1>> \in excused'
  PROVE  Outcome(c)'
<1> DEFINE left == Len(prog[c])
<1>1. Outcome(c) /\ left \in Nat /\ left' = left
  <2>1. prog[c] \in Seq(Stages)
    BY LeftParts DEF Parts
  <2> QED
    BY <2>1 DEF OutcomeInv
<1>2. Latest(c) = left /\ Latest(c)' = left
  BY <1>1 DEF Latest, InStage
<1>3. /\ head \in Nat /\ head' = head + 1
      /\ \A r \in 1..head : Revision(r)' = Revision(r)
  BY MadeGrows DEF OutcomeInv
<1>4. \A m : m = head' => Revision(m)'.by.client = c /\ Revision(m)'.by.left = left
  <2>1. Revision(head)'.by.client = c /\ Revision(head)'.by.left = left
    BY MadeGrows DEF OutcomeInv
  <2> QED
    BY <2>1 DEF Revision
<1> HIDE DEF left
<1>5. \A r \in 1..head' : r \in 1..head \/ r = head'
  BY <1>3
<1>6. told'[c] = "committed" => (youngest[c] \in Made(c, Latest(c)))'
  <2>1. ASSUME NEW m, m = head'
        PROVE  m \in Made(c, left)'
    BY <1>1, <1>3, <1>4, <2>1 DEF Made
  <2> QED
    BY <1>1, <1>2, <1>3, <2>1
<1>7. ASSUME told'[c] # "committed", NEW r \in Made(c, left)'
      PROVE  <<"rev", r>> \in excused'
  <2>1. CASE r = head'
    BY <1>3, <1>7, <2>1
  <2>2. CASE r \in 1..head
    <3>1. r \in Made(c, left)
      BY <1>1, <1>3, <1>7, <2>2 DEF Made
    <3>2. <<"rev", r>> \in excused
      BY <1>1, <3>1 DEF Outcome, left
    <3> QED
      BY <3>2
  <2> QED
    BY <1>5, <1>7, <2>1, <2>2 DEF Made
<1>8. (\A r \in 1..head : Revision(r).by.client = c =>
          Revision(r).by.left \in Nat /\ Revision(r).by.left >= Latest(c))'
  <2>1. \A r \in 1..head : Revision(r)'.by.client = c =>
          Revision(r)'.by.left \in Nat /\ Revision(r)'.by.left >= left
    BY <1>1, <1>2, <1>3 DEF Outcome
  <2>2. \A m : m = head' => Revision(m)'.by.left \in Nat /\ Revision(m)'.by.left >= left
    BY <1>1, <1>4
  <2> QED
    BY <1>2, <1>5, <2>1, <2>2
<1> QED
  BY <1>1, <1>6, <1>7, <1>8 DEF Outcome, left

\* While a commit waits for an answer its caller has been told nothing.
LEMMA WaitsTold ==
  ASSUME LeftInv, NEW c \in Clients, todo[c] # <<>>
  PROVE  /\ InStage(c, {"commit"}) => told[c] = "busy"
         /\ InHand(c).method = "MERGE" => InStage(c, {"commit"}) /\ InHand(c).accepts = {"ok"}
         /\ InHand(c).method \in OtherMethods \cup EditMethods \cup {"POST", "MERGE", "ABORT"}
<1>1. ClientPlace(c)
  BY LeftParts
<1>2. InStage(c, {"commit"}) => Stage(c).kind = "commit"
  BY DEF InStage
<1>3. InStage(c, {"commit"}) => Busy(c)
  BY <1>1, <1>2, HandPlace
<1>4. InHand(c).method = "MERGE" => InStage(c, {"commit"}) /\ InHand(c).accepts = {"ok"}
  BY <1>1, HandPlace DEF OtherMethods, EditMethods
<1>5. InHand(c).method \in OtherMethods \cup EditMethods \cup {"POST", "MERGE", "ABORT"}
  BY <1>1, HandPlace
<1> QED
  BY <1>3, <1>4, <1>5 DEF Busy

\* A request that failed may have made a revision only when that is excused.
LEMMA FailsOutcome ==
  ASSUME LeftInv, OutcomeInv, NEW c \in Clients, todo[c] # <<>>, NEW unknown,
         RequestFails(c, InHand(c), unknown), UNCHANGED <<prog, tries, youngest>>,
         HistSame \/ (HistGrows(c) /\ InStage(c, {"commit"}) /\ <<"rev", head + 1>> \in unknown)
  PROVE  OutcomeInv'
<1>1. Mapped /\ youngest = [d \in Clients |-> youngest[d]]
  BY LeftParts DEF OutcomeInv
<1>2. \E say \in {"busy", "failed"} : told' = Set(told, c, say)
  BY DEF RequestFails
<1>3. excused \subseteq excused' /\ unknown \subseteq excused'
  BY DEF RequestFails
<1>4. Moves(told, told', c) /\ told'[c] \in {"busy", "failed"}
  <2>1. PICK say \in {"busy", "failed"} : told' = Set(told, c, say)
    BY <1>2
  <2>2. Moves(told, told', c) /\ told'[c] = say
    BY <1>1, <2>1, MovesSet DEF Mapped
  <2> QED
    BY <2>1, <2>2
<1>5. Moves(prog, prog', c) /\ Moves(tries, tries', c) /\ Moves(youngest, youngest', c)
  BY <1>1 DEF Mapped, Moves
<1>6. told'[c] # "committed"
  BY <1>4
<1>7. InStage(c, {"commit"}) => told[c] # "committed"
  BY WaitsTold
<1>8. Outcome(c)'
  <2>1. CASE HistSame
    BY <1>3, <1>6, <1>7, <2>1, OutcomeQuiet
  <2>2. CASE HistGrows(c) /\ InStage(c, {"commit"}) /\ <<"rev", head + 1>> \in unknown
    BY <1>3, <1>6, <1>7, <2>2, OutcomeGrows
  <2> QED
    BY <2>1, <2>2
<1> QED
  BY <1>3, <1>4, <1>5, <1>8, OutcomeAlone

\* What a caller is told with an answer that is not one to MERGE.
LEMMA AcceptedTold ==
  ASSUME NEW c \in Clients, NEW r, NEW a, Accepted(c, r, a), r.method # "MERGE",
         r.method \in OtherMethods \cup EditMethods \cup {"POST", "MERGE", "ABORT"}
  PROVE  /\ UNCHANGED <<youngest, excused>>
         /\ \/ UNCHANGED told
            \/ \E say \in {"failed", "changed"} : told' = Set(told, c, say)
<1>1. UNCHANGED excused
  BY Zenon DEF Accepted
<1>2. CASE r.method = "POST"
  BY <1>1, <1>2 DEF Accepted
<1>3. CASE r.method = "ABORT"
  BY <1>1, <1>3 DEF Accepted
<1>4. CASE r.method \in EditMethods
  BY <1>1, <1>4 DEF Accepted, EditMethods
<1>5. CASE r.method \in {"LOCK", "UNLOCK", "GETLOCK"}
  BY <1>1, <1>5 DEF Accepted
<1>6. CASE r.method \in {"PROPFIND", "PROPSET", "REPORT", "GET"}
  BY <1>1, <1>6 DEF Accepted
<1> QED
  BY <1>2, <1>3, <1>4, <1>5, <1>6 DEF OtherMethods

LEMMA AcceptedOutcome ==
  ASSUME LeftInv, OutcomeInv, NEW c \in Clients, todo[c] # <<>>, UNCHANGED <<prog, tries>>,
         srv' = Serve(c, InHand(c)).srv, Accepted(c, InHand(c), Serve(c, InHand(c))),
         Serve(c, InHand(c)).status \in InHand(c).accepts
  PROVE  OutcomeInv'
<1> DEFINE r == InHand(c)
           a == Serve(c, r)
<1>1. Mapped /\ youngest = [d \in Clients |-> youngest[d]] /\ IsStore(srv)
  BY LeftParts DEF OutcomeInv, LeftInv
<1>2. Moves(prog, prog', c) /\ Moves(tries, tries', c)
  BY <1>1 DEF Mapped, Moves
<1>3. /\ InStage(c, {"commit"}) => told[c] = "busy"
      /\ r.method = "MERGE" => InStage(c, {"commit"}) /\ r.accepts = {"ok"}
      /\ r.method \in OtherMethods \cup EditMethods \cup {"POST", "MERGE", "ABORT"}
  BY WaitsTold
<1>4. \/ a.srv.hist = srv.hist /\ ~(r.method = "MERGE" /\ a.status = "ok")
      \/ /\ r.method = "MERGE" /\ a.status = "ok" /\ a.value = head + 1
         /\ \E tree, cr, drive :
               a.srv.hist = Append(srv.hist, [tree |-> tree, cr |-> cr,
                                              by |-> [client |-> c, left |-> Len(prog[c]), drive |-> drive]])
  BY <1>1, HistServed
<1>5. Accepted(c, r, a) /\ a.status \in r.accepts /\ srv' = a.srv
  OBVIOUS
<1> HIDE DEF a, r
<1>6. CASE r.method = "MERGE"
  <2>1. a.status = "ok" /\ InStage(c, {"commit"}) /\ told[c] = "busy"
    BY <1>3, <1>5, <1>6
  <2>2. HistGrows(c) /\ a.value = head + 1
    BY <1>4, <1>5, <1>6, <2>1 DEF HistGrows
  <2>3. /\ youngest' = Set(youngest, c, a.value) /\ told' = Set(told, c, "committed")
        /\ UNCHANGED excused
    BY <1>5, <1>6 DEF Accepted
  <2>4. Moves(youngest, youngest', c) /\ youngest'[c] = a.value
    BY <1>1, <2>3, MovesSet
  <2>5. Moves(told, told', c) /\ told'[c] = "committed"
    BY <1>1, <2>3, MovesSet DEF Mapped
  <2>6. Outcome(c)'
    BY <2>1, <2>2, <2>3, <2>4, <2>5, OutcomeGrows
  <2> QED
    BY <1>2, <2>2, <2>3, <2>4, <2>5, <2>6, OutcomeAlone
<1>7. CASE r.method # "MERGE"
  <2>1. HistSame
    BY <1>4, <1>5, <1>7 DEF HistSame
  <2>2. /\ UNCHANGED <<youngest, excused>>
        /\ \/ UNCHANGED told
           \/ \E say \in {"failed", "changed"} : told' = Set(told, c, say)
    BY <1>3, <1>5, <1>7, AcceptedTold
  <2>3. Moves(told, told', c) /\ (told'[c] = "committed" => told[c] = "committed")
    <3>1. CASE UNCHANGED told
      BY <1>1, <3>1 DEF Mapped, Moves
    <3>2. ASSUME NEW say \in {"failed", "changed"}, told' = Set(told, c, say)
          PROVE  Moves(told, told', c) /\ told'[c] # "committed"
      <4>1. Moves(told, told', c) /\ told'[c] = say
        BY <1>1, <3>2, MovesSet DEF Mapped
      <4> QED
        BY <4>1
    <3> QED
      BY <2>2, <3>1, <3>2
  <2>4. Moves(youngest, youngest', c) /\ youngest'[c] = youngest[c]
    BY <1>1, <2>2 DEF Moves
  <2>5. Outcome(c)'
    BY <1>3, <2>1, <2>2, <2>3, <2>4, OutcomeQuiet
  <2> QED
    BY <1>2, <2>1, <2>2, <2>3, <2>4, <2>5, OutcomeAlone
<1> QED
  BY <1>6, <1>7

LEMMA AnsweredOutcome ==
  ASSUME LeftInv, OutcomeInv, NEW c \in Clients, Answered(c)
  PROVE  OutcomeInv'
<1> DEFINE r == InHand(c)
           a == Serve(c, r)
<1>1. /\ todo[c] # <<>> /\ UNCHANGED <<prog, tries>> /\ srv' = a.srv
      /\ \/ a.status \in r.accepts /\ Accepted(c, r, a)
         \/ a.status \notin r.accepts /\ RequestFails(c, r, {}) /\ UNCHANGED youngest
  BY DEF Answered, Sending
<1>2. CASE a.status \in r.accepts
  BY <1>1, <1>2, AcceptedOutcome
<1>3. CASE a.status \notin r.accepts
  <2>1. r.method = "MERGE" => r.accepts = {"ok"}
    BY <1>1, WaitsTold
  <2>2. IsStore(srv)
    BY DEF LeftInv
  <2>3. ~(r.method = "MERGE" /\ a.status = "ok")
    BY <1>3, <2>1
  <2>4. HistSame
    BY <1>1, <2>2, <2>3, HistServed DEF HistSame
  <2> QED
    BY <1>1, <1>3, <2>4, FailsOutcome
<1> QED
  BY <1>2, <1>3

LEMMA LostOutcome ==
  ASSUME LeftInv, OutcomeInv, NEW c \in Clients, Challenged(c) \/ RequestLost(c)
  PROVE  OutcomeInv'
<1>1. todo[c] # <<>> /\ UNCHANGED <<srv, prog, tries, youngest>>
  BY DEF Challenged, RequestLost, Sending
<1>2. \/ RequestFails(c, InHand(c), {})
      \/ UNCHANGED <<told, excused>>
  BY DEF Challenged, RequestLost
<1>3. HistSame
  BY <1>1 DEF HistSame
<1> QED
  BY <1>1, <1>2, <1>3, FailsOutcome, OutcomeSame

\* The answer that is lost may be the one that says that a revision was made.
LEMMA AnswerLostOutcome ==
  ASSUME LeftInv, OutcomeInv, NEW c \in Clients, AnswerLost(c)
  PROVE  OutcomeInv'
<1> DEFINE r == InHand(c)
           a == Serve(c, r)
           unknown == Unknown(r, a)
<1>1. /\ todo[c] # <<>> /\ UNCHANGED <<prog, tries, youngest>>
      /\ srv' = a.srv /\ RequestFails(c, r, unknown)
  BY DEF AnswerLost, Sending
<1>2. IsStore(srv)
  BY DEF LeftInv
<1>3. r.method = "MERGE" => InStage(c, {"commit"})
  BY <1>1, WaitsTold
<1>4. \/ a.srv.hist = srv.hist
      \/ /\ r.method = "MERGE" /\ a.status = "ok" /\ a.value = head + 1
         /\ \E tree, cr, drive :
               a.srv.hist = Append(srv.hist, [tree |-> tree, cr |-> cr,
                                              by |-> [client |-> c, left |-> Len(prog[c]), drive |-> drive]])
  BY <1>2, HistServed
<1>5. r.method = "MERGE" /\ a.status = "ok" => <<"rev", a.value>> \in unknown
  <2> HIDE DEF a, r
  <2> QED
    BY DEF Unknown
<1> HIDE DEF a, unknown
<1>6. HistSame \/ (HistGrows(c) /\ InStage(c, {"commit"}) /\ <<"rev", head + 1>> \in unknown)
  <2>1. CASE a.srv.hist = srv.hist
    BY <1>1, <2>1 DEF HistSame
  <2>2. CASE a.srv.hist # srv.hist
    <3>1. r.method = "MERGE" /\ a.status = "ok" /\ a.value = head + 1 /\ HistGrows(c)
      BY <1>1, <1>4, <2>2 DEF HistGrows
    <3> QED
      BY <1>3, <1>5, <3>1
  <2> QED
    BY <2>1, <2>2
<1> QED
  BY <1>1, <1>6, FailsOutcome

LEMMA OutcomeInit == Init => OutcomeInv
<1> SUFFICES ASSUME Init PROVE OutcomeInv
  OBVIOUS
<1>1. \E x : srv.hist = <<x>>
  BY DEF Init
<1>2. /\ youngest = [c \in Clients |-> 0] /\ told = [c \in Clients |-> "nothing"]
      /\ tries = [c \in Clients |-> 0]
  BY DEF Init
<1>3. PICK x : srv.hist = <<x>>
  BY <1>1
<1>4. IsSeq(srv.hist) /\ srv.hist # <<>> /\ Len(srv.hist) = 1
  BY <1>3, SeqSingle
<1>5. head = 0
  BY <1>4 DEF head
<1>6. ASSUME NEW c \in Clients
      PROVE  Outcome(c)
  <2>1. told[c] = "nothing" /\ ~InStage(c, {"commit"}) /\ 1..head = {}
    BY <1>2, <1>5 DEF InStage
  <2> QED
    BY <2>1 DEF Outcome
<1> QED
  BY <1>2, <1>4, <1>6 DEF OutcomeInv

LEMMA OutcomeStep == LeftInv /\ OutcomeInv /\ [Next]_vars => OutcomeInv'
<1> SUFFICES ASSUME LeftInv, OutcomeInv, [Next]_vars PROVE OutcomeInv'
  OBVIOUS
<1>1. ASSUME NEW c \in Clients, EditorCall(c)
      PROVE  OutcomeInv'
  <2>1. UNCHANGED <<srv, prog, tries, told, youngest, excused>>
    BY <1>1 DEF EditorCall
  <2> QED
    BY <2>1, OutcomeSame DEF HistSame
<1>2. CASE Age \/ UNCHANGED vars
  <2>1. UNCHANGED <<srv, prog, tries, told, youngest, excused>>
    BY <1>2 DEF Age, vars, session, caller
  <2> QED
    BY <2>1, OutcomeSame DEF HistSame
<1> QED
  BY <1>1, <1>2, BeginOutcome, LeaveOutcome, LostOutcome, AnsweredOutcome, AnswerLostOutcome
  DEF Next

\* Whatever requests and answers are lost, refused or challenged, and however
\* the sessions interleave, a caller that is told of a commit is told the
\* revision that its own drive made, and one that is told of a failure has made
\* no revision unless the answer to a MERGE of that drive was lost: CloseEdit
\* believes only a successful answer to its MERGE and takes the revision from
\* it, and a drive sends nothing after the MERGE that could make another.
THEOREM OutcomesTold == Spec => []CommitTruth
<1>1. LeftInv /\ OutcomeInv => CommitTruth
  <2> SUFFICES ASSUME LeftInv, OutcomeInv, NEW c \in Clients
               PROVE  /\ told[c] = "committed" =>
                            youngest[c] \in Made(c, IF tries[c] > 0 THEN Len(prog[c]) ELSE Len(prog[c]) + 1)
                      /\ told[c] = "failed" /\ tries[c] > 0 /\ Stage(c).kind = "commit" =>
                            \A r \in Made(c, Len(prog[c])) : <<"rev", r>> \in excused
    BY DEF CommitTruth
  <2>1. Outcome(c) /\ ClientPlace(c) /\ tries[c] \in Nat
    BY LeftParts DEF OutcomeInv, Parts
  <2>2. tries[c] > 0 /\ Stage(c).kind = "commit" => InStage(c, {"commit"})
    BY <2>1 DEF ClientPlace, OtherStage, InStage
  <2> QED
    BY <2>1, <2>2 DEF Outcome, Latest
<1>2. LeftInv /\ OutcomeInv /\ [Next]_vars => (LeftInv /\ OutcomeInv)'
  BY LeftStep, OutcomeStep
<1> QED
  BY <1>1, <1>2, LeftInit, OutcomeInit, PTL DEF Spec
=============================================================================
