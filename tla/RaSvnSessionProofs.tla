------------------------- MODULE RaSvnSessionProofs -------------------------
(***************************************************************************)
(* Proofs about RaSvnSession, for any number of calls and items and any    *)
(* room in the stream: a call that returns on an open connection has read  *)
(* all that was meant for it, and a commit's outcome is the truth.         *)
(*                                                                         *)
(* The invariant says of every place a call can be at what the server is   *)
(* doing, which requests it has not read and which items the client has    *)
(* not: Pending is what the server has said and nobody has read, on its    *)
(* way or not yet sent.  Everything is said of a session that is in step   *)
(* (torn = "no"); one that is not makes no promise.                        *)
(***************************************************************************)
EXTENDS RaSvnSession, SequenceTheorems, TLAPS

Pending == s2c \o srv.out

\* Sequences of items and of requests, by what they are for.
Only(p, S) == \A i \in 1 .. Len(p) : p[i] \in S
EndsWith(p, S, w) ==
  p # <<>> /\ p[Len(p)] = w /\ \A i \in 1 .. Len(p) - 1 : p[i] \in S

Asks(q, S) == \A i \in 1 .. Len(q) : q[i].what \in S
AsksLast(q, S, w) ==
  q # <<>> /\ q[Len(q)].what = w /\ \A i \in 1 .. Len(q) - 1 : q[i].what \in S

Calls == [n : Nat, kind : CallKinds]
Modes == {"ready", "report", "drive", "reply", "aborted", "edit", "flush"}

Typed ==
  /\ c2s \in Seq([what : Requests, call : Calls])
  /\ s2c \in Seq(Replies)
  /\ call \in Calls
  /\ srv \in [mode : Modes, call : Calls, out : Seq(Replies), left : Nat]
  /\ made \subseteq Nat
  /\ told \subseteq [call : Calls, as : Outcomes]
  /\ outcome \in Outcomes
  /\ response \in {"none", "waiting", "ok", "failed", "malformed", "io"}
  /\ written \in {"none", "writing", "ok", "io"}
  /\ word \in {"close-edit", "abort-edit"}

-----------------------------------------------------------------------------
(***************************************************************************)
(* Between two calls.                                                      *)
(***************************************************************************)

\* The server gets through q without a word and is then ready.
Settled(q) ==
  \/ srv.mode = "ready" /\ q = <<>>
  \/ srv.mode = "report" /\ AsksLast(q, {"send"}, "abort-report")
  \/ srv.mode = "flush" /\ AsksLast(q, {"send", "close-edit"}, "abort-edit")

AtRest == Pending = <<>> /\ ~stray /\ Settled(c2s)

\* Requests from S, then w, then one more.
Behind(q, S, w) ==
  /\ Len(q) > 1 /\ q[Len(q) - 1].what = w
  /\ \A i \in 1 .. Len(q) - 2 : q[i].what \in S

\* The next command is sent behind what the last call left.
Asked ==
  /\ Pending = <<>>
  /\ c2s # <<>> /\ c2s[Len(c2s)] = Request("command")
  /\ \/ srv.mode = "ready" /\ Len(c2s) = 1
     \/ srv.mode = "report" /\ Behind(c2s, {"send"}, "abort-report")
     \/ srv.mode = "flush" /\ Behind(c2s, {"send", "close-edit"}, "abort-edit")

-----------------------------------------------------------------------------
(***************************************************************************)
(* A command and its answer.                                               *)
(***************************************************************************)
Body(p) ==
  /\ Len(p) >= 2 /\ p[Len(p)] \in {"ok", "failed"} /\ p[Len(p) - 1] = "done"
  /\ \A i \in 1 .. Len(p) - 2 : p[i] = "entry"

Verdict(p) == p \in {<<"ok">>, <<"failed">>}

\* What follows the request for authentication in the answer to a command,
\* and the server's mode after it.
Follows(kind, mode, p) ==
  \/ kind = "command" /\ mode = "ready" /\ Verdict(p)
  \/ kind = "file" /\ mode = "ready" /\ p = <<"failed">>
  \/ kind = "file" /\ mode = "ready" /\ p # <<>> /\ Head(p) = "ok" /\ Body(Tail(p))
  \/ kind \in {"stream", "many"} /\ mode = "ready" /\ Body(p)
  \/ kind = "report" /\ mode = "report" /\ p = <<>>
  \/ kind = "commit" /\ mode = "edit" /\ p = <<"ok">>
  \/ kind = "commit" /\ mode = "ready" /\ p = <<"failed">>

Greeted(p) ==
  /\ c2s = <<>> /\ Follows(call.kind, srv.mode, p)
  /\ call.kind = "commit" /\ srv.mode = "edit" => srv.call = call

Refusal == c2s = <<>> /\ srv.mode = "ready" /\ Pending = <<"failed">>

AtAuth ==
  /\ call.n \notin made
  /\ \/ Asked \/ Refusal
     \/ Pending # <<>> /\ Head(Pending) = "auth" /\ Greeted(Tail(Pending))

AtResponse ==
  /\ call.n \notin made
  /\ call.kind \in {"command", "file", "commit"} /\ Greeted(Pending)

AtBody ==
  /\ call.kind \in {"file", "stream", "many"}
  /\ c2s = <<>> /\ srv.mode = "ready" /\ Body(Pending)

AtTail ==
  /\ call.kind \in {"file", "stream", "many"}
  /\ c2s = <<>> /\ srv.mode = "ready" /\ Verdict(Pending)

-----------------------------------------------------------------------------
(***************************************************************************)
(* A report and the edit it is answered with.                              *)
(***************************************************************************)
Reporting == srv.mode = "report" /\ Asks(c2s, {"send"}) /\ Pending = <<>>

\* The edit the server drives, of which p is left to read.
Driven(p) ==
  /\ c2s = <<>>
  /\ \/ srv.mode = "drive" /\ Only(p, {"edit"})
     \/ srv.mode = "reply" /\ EndsWith(p, {"edit"}, "close-edit")
     \/ srv.mode = "aborted" /\ EndsWith(p, {"edit"}, "abort-edit")
     \/ srv.mode = "ready" /\ p = <<"failed">>

\* No abort-edit is on its way and none will come.
Hopeless ==
  /\ Only(Pending, {"edit", "close-edit", "ok", "failed"}) /\ Asks(c2s, {"ok", "failed"})
  /\ \/ srv.mode \in {"ready", "reply"}
     \/ srv.mode = "aborted" /\ c2s # <<>> /\ Head(c2s).what = "ok"

\* The server has, or will find, the client's failure.
Failing ==
  \/ srv.mode = "drive" /\ AsksLast(c2s, {}, "failed") /\ Only(Pending, {"edit"})
  \/ /\ srv.mode = "aborted" /\ EndsWith(Pending, {"edit"}, "abort-edit")
     /\ c2s = <<>> \/ AsksLast(c2s, {}, "failed")

AtFinishAuth ==
  \/ srv.mode = "report" /\ AsksLast(c2s, {"send"}, "finish-report") /\ Pending = <<>>
  \/ Pending # <<>> /\ Head(Pending) = "auth" /\ Driven(Tail(Pending))

Silent(modes) == srv.mode \in modes /\ c2s = <<>> /\ Pending = <<>>

AtFail == (Driven(Pending) /\ srv.mode # "ready") \/ Hopeless

AtDrain == Failing \/ Hopeless

AtDrained ==
  srv.mode = "aborted" /\ Pending = <<>> /\ (c2s = <<>> \/ AsksLast(c2s, {}, "failed"))

AtOuter ==
  \/ srv.mode \in {"reply", "aborted"} /\ AsksLast(c2s, {}, "ok") /\ Pending = <<>>
  \/ srv.mode = "ready" /\ c2s = <<>> /\ Verdict(Pending)

AtBad ==
  \/ jammed
  \/ srv.mode = "aborted" /\ AsksLast(c2s, {"failed"}, "ok") /\ Pending = <<>>
  \/ srv.mode = "reply" /\ AsksLast(c2s, {}, "failed") /\ Pending = <<>>
  \/ Refusal

-----------------------------------------------------------------------------
(***************************************************************************)
(* A commit.  sent is the word that ends the edit, once it is written.     *)
(***************************************************************************)
Words == {"close-edit", "abort-edit"}

Editing(sent) ==
  /\ srv.mode = "edit" /\ srv.call = call /\ call.n \notin made /\ Pending = <<>>
  /\ IF sent = "none" THEN Asks(c2s, {"send"}) ELSE AsksLast(c2s, {"send"}, sent)

Refused(sent) ==
  /\ call.n \notin made
  /\ IF sent = "abort-edit" THEN Settled(c2s) /\ srv.mode # "report"
     ELSE srv.mode = "flush" /\ Asks(c2s, {"send", "close-edit"})

Granted(sent) ==
  /\ srv.mode = "ready" /\ c2s = <<>>
  /\ \/ sent = "close-edit" /\ call.n \in made
     \/ sent = "abort-edit" /\ call.n \notin made

Rest(sent) == IF sent = "close-edit" THEN <<"auth", "info">> ELSE <<>>

\* The answer of the edit when it is not read, and once it is.
Unread(sent) ==
  \/ Editing(sent)
  \/ Refused(sent) /\ Pending = <<"failed">>
  \/ Granted(sent) /\ Pending = <<"ok">> \o Rest(sent)

Answered(sent, r) ==
  \/ r \in {"waiting", "io"} /\ Unread(sent)
  \/ r = "failed" /\ Refused(sent) /\ Pending = <<>>
  \/ r = "ok" /\ Granted(sent) /\ Pending = Rest(sent)

OpenCommit == written = "none" /\ ~done /\ Answered("none", response)

AtEarly ==
  /\ response = "none" /\ written = "none" /\ done
  /\ outcome \in {"failed", "io"} /\ Answered("none", outcome)

\* The early abort is written, or could not be.
AtAbandoned ==
  /\ response = "none" /\ written = "none" /\ done
  /\ outcome \in {"failed", "io"}
  /\ \/ jammed /\ (outcome = "failed" => Refused("none"))
     \/ Answered("abort-edit", outcome)

AtFinish ==
  /\ word \in Words /\ written \in {"writing", "ok", "io"}
  /\ written = "io" => jammed
  /\ Answered(IF written = "ok" THEN word ELSE "none", response)

AtAbortEdit ==
  /\ response = "none" /\ written = "none"
  /\ \/ outcome = "failed" /\ Answered("close-edit", "failed") /\ ~stray
     \/ outcome = "io" /\ (Unread("none") \/ Unread("close-edit")) /\ ~stray
     \/ outcome = "ctx" /\ (Answered("none", "waiting") \/ Answered("none", "failed"))

AtInfo(p) == Granted("close-edit") /\ Pending = p

-----------------------------------------------------------------------------
(***************************************************************************)
(* All of it.                                                              *)
(***************************************************************************)
Outside == {"idle", "lock", "command"}
Simple == {"auth", "response", "body", "nested", "tail"}
OfReport == {"finish-report", "abort-report", "finish-auth", "drive", "accept",
             "accept-fail", "fail-close", "fail", "drain", "drained", "outer", "bad"}
OfCommit == {"early", "finish", "abort-edit", "info-auth", "info"}
OfBoth == {"open", "send", "abandon"}

Waits == /\ pc \in OfBoth /\ call.kind = "commit" /\ ~done
         \/ pc = "finish"

Place ==
  /\ pc \in Outside \cup Simple \cup OfReport \cup OfCommit \cup OfBoth
  /\ pc \in OfReport => call.kind = "report"
  /\ pc \in OfCommit => call.kind = "commit"
  /\ pc \in OfBoth => call.kind \in {"report", "commit"}
  /\ ~Waits => response = "none" /\ written = "none"
  /\ stray => pc = "abort-edit" \/ (pc \in Outside /\ Dead)

Wire ==
  /\ pc = "idle" => Dead \/ AtRest
  /\ pc \in {"lock", "command"} => Dead \/ (AtRest /\ call.n \notin made)
  /\ pc = "auth" => AtAuth
  /\ pc = "response" => AtResponse
  /\ pc \in {"body", "nested"} => AtBody
  /\ pc = "tail" => AtTail
  /\ pc \in OfBoth \cup {"finish-report", "abort-report"} /\ call.kind = "report" => Reporting
  /\ pc = "finish-auth" => AtFinishAuth
  /\ pc = "drive" => Driven(Pending)
  /\ pc = "accept" => Silent({"reply", "aborted"})
  /\ pc = "accept-fail" => Silent({"aborted"})
  /\ pc = "fail-close" => Silent({"reply"})
  /\ pc = "fail" => AtFail
  /\ pc = "drain" => AtDrain
  /\ pc = "drained" => AtDrained
  /\ pc = "outer" => AtOuter
  /\ pc = "bad" => AtBad
  /\ pc \in {"open", "send"} /\ call.kind = "commit" => OpenCommit
  /\ pc = "abandon" /\ call.kind = "commit" => OpenCommit \/ AtAbandoned
  /\ pc = "early" => AtEarly
  /\ pc = "finish" => AtFinish
  /\ pc = "abort-edit" => AtAbortEdit
  /\ pc = "info-auth" => AtInfo(<<"auth", "info">>)
  /\ pc = "info" => AtInfo(<<"info">>)

\* A call has one number, and only a commit's number is ever made.
Numbered ==
  /\ srv.call.n <= call.n /\ (srv.call.n = call.n => srv.call = call)
  /\ \A i \in 1 .. Len(c2s) :
       c2s[i].call.n <= call.n /\ (c2s[i].call.n = call.n => c2s[i].call = call)
  /\ \A m \in made : m <= call.n
  /\ \A t \in told : t.call.n <= call.n /\ (t.call.n = call.n => pc = "idle")
  /\ srv.mode = "edit" => srv.call.kind = "commit"
  /\ call.kind # "commit" => call.n \notin made

\* A commit that is over is not made later.
Over(n) ==
  /\ n \notin made
  /\ srv.mode = "edit" => srv.call.n # n
  /\ \A i \in 1 .. Len(c2s) : c2s[i].what = "command" => c2s[i].call.n # n

TrueTold ==
  \A t \in told : /\ t.call.kind = "commit" /\ t.as = "ok" => t.call.n \in made
                  /\ t.as \in {"failed", "aborted"} => Over(t.call.n)

Straight == Place /\ Wire /\ Numbered /\ TrueTold

Inv == Typed /\ StaysInStep /\ (torn = "no" => Straight)
-----------------------------------------------------------------------------
(***************************************************************************)
(* Sequences.                                                              *)
(***************************************************************************)
LEMMA ConcatTail ==
  ASSUME NEW S, NEW s \in Seq(S), NEW t \in Seq(S), s # <<>>
  PROVE  s \o t # <<>> /\ Head(s \o t) = Head(s) /\ Tail(s \o t) = Tail(s) \o t
<1>1. /\ s \o t \in Seq(S) /\ Len(s \o t) = Len(s) + Len(t)
      /\ \A i \in 1 .. Len(s) + Len(t) :
           (s \o t)[i] = IF i <= Len(s) THEN s[i] ELSE t[i - Len(s)]
  BY ConcatProperties
<1>2. Len(s) \in Nat \ {0} /\ Len(t) \in Nat
  BY EmptySeq, LenProperties
<1>3. s \o t # <<>>
  BY <1>1, <1>2
<1>4. Head(s \o t) = Head(s)
  BY <1>1, <1>2, <1>3
<1>5. /\ Tail(s) \in Seq(S) /\ Len(Tail(s)) = Len(s) - 1
      /\ \A i \in 1 .. Len(Tail(s)) : Tail(s)[i] = s[i + 1]
  BY HeadTailProperties
<1>6. /\ Tail(s \o t) \in Seq(S) /\ Len(Tail(s \o t)) = Len(s) + Len(t) - 1
      /\ \A i \in 1 .. Len(Tail(s \o t)) : Tail(s \o t)[i] = (s \o t)[i + 1]
  BY <1>1, <1>3, HeadTailProperties
<1>7. /\ Tail(s) \o t \in Seq(S) /\ Len(Tail(s) \o t) = Len(s) - 1 + Len(t)
      /\ \A i \in 1 .. Len(s) - 1 + Len(t) :
           (Tail(s) \o t)[i] = IF i <= Len(s) - 1 THEN Tail(s)[i] ELSE t[i - (Len(s) - 1)]
  BY <1>5, ConcatProperties
<1>8. ASSUME NEW i \in 1 .. Len(Tail(s \o t))
      PROVE  Tail(s \o t)[i] = (Tail(s) \o t)[i]
  BY <1>1, <1>2, <1>5, <1>6, <1>7
<1>9. Len(Tail(s \o t)) = Len(Tail(s) \o t)
  BY <1>2, <1>6, <1>7
<1>10. Tail(s \o t) = Tail(s) \o t
  BY <1>6, <1>7, <1>8, <1>9, SeqEqual
<1> QED
  BY <1>3, <1>4, <1>10

\* An item that moves from one sequence to the one before it.
LEMMA ConcatShift ==
  ASSUME NEW S, NEW s \in Seq(S), NEW t \in Seq(S), t # <<>>
  PROVE  Append(s, Head(t)) \o Tail(t) = s \o t
<1>1. Head(t) \in S /\ Tail(t) \in Seq(S)
  BY HeadTailProperties
<1>2. Append(s, Head(t)) = s \o <<Head(t)>> /\ <<Head(t)>> \in Seq(S)
  BY <1>1, AppendIsConcat
<1>3. (s \o <<Head(t)>>) \o Tail(t) = s \o (<<Head(t)>> \o Tail(t))
  BY <1>1, <1>2, ConcatAssociative
<1>4. <<Head(t)>> \o Tail(t) = t
  BY <1>1
<1> QED
  BY <1>2, <1>3, <1>4

\* What is left of a sequence when its first element is taken.
LEMMA TailSplit ==
  ASSUME NEW S, NEW s \in Seq(S), s # <<>>
  PROVE  /\ Tail(s) \in Seq(S) /\ Head(s) = s[1] /\ Len(s) \in Nat
         /\ \A i \in 1 .. Len(s) - 1 : Tail(s)[i] = s[i + 1]
         /\ Len(Tail(s)) = Len(s) - 1
         /\ \/ Len(s) = 1 /\ Tail(s) = <<>>
            \/ Len(s) > 1 /\ Tail(s) # <<>> /\ Tail(s)[Len(Tail(s))] = s[Len(s)]
<1>1. /\ Tail(s) \in Seq(S) /\ Len(Tail(s)) = Len(s) - 1
      /\ \A i \in 1 .. Len(s) - 1 : Tail(s)[i] = s[i + 1]
  BY HeadTailProperties
<1>2. Len(s) \in Nat /\ Len(s) # 0
  BY EmptySeq
<1>3. Head(s) = s[1]
  BY <1>2
<1>4. Len(s) = 1 \/ Len(s) > 1
  <2>1. \A n \in Nat : n # 0 => n = 1 \/ n > 1
    OBVIOUS
  <2> QED
    BY <1>2, <2>1
<1>5. ASSUME Len(s) = 1 PROVE Tail(s) = <<>>
  <2>1. \A n \in Nat : n = 1 => n - 1 = 0
    OBVIOUS
  <2>2. Len(Tail(s)) = 0
    BY <1>1, <1>2, <1>5, <2>1
  <2> QED
    BY <1>1, <2>2, EmptySeq
<1>6. ASSUME Len(s) > 1 PROVE Tail(s) # <<>> /\ Tail(s)[Len(Tail(s))] = s[Len(s)]
  <2>1. Len(Tail(s)) # 0
    BY SMTT(60), <1>1, <1>2, <1>6
  <2>2. Tail(s)[Len(s) - 1] = s[Len(s) - 1 + 1]
    BY <1>1, <1>2, <1>6
  <2>3. Len(s) - 1 + 1 = Len(s)
    BY <1>2
  <2> QED
    BY <1>1, <2>1, <2>2, <2>3, EmptySeq
<1> QED
  BY <1>1, <1>2, <1>3, <1>4, <1>5, <1>6

LEMMA OnlyTail ==
  ASSUME NEW p \in Seq(Replies), p # <<>>, NEW S, Only(p, S)
  PROVE  Head(p) \in S /\ Only(Tail(p), S)
BY HeadTailProperties, EmptySeq DEF Only

LEMMA OnlyGrows ==
  ASSUME NEW p \in Seq(Replies), NEW S, Only(p, S), NEW w \in Replies
  PROVE  /\ w \in S => Only(p \o <<w>>, S)
         /\ EndsWith(p \o <<w>>, S, w)
<1>1. p \o <<w>> = Append(p, w)
  BY AppendIsConcat
<1> QED
  BY <1>1, AppendProperties, LenProperties DEF Only, EndsWith

LEMMA EndsWithTail ==
  ASSUME NEW p \in Seq(Replies), NEW S, NEW w, EndsWith(p, S, w)
  PROVE  \/ Tail(p) = <<>> /\ Head(p) = w
         \/ Head(p) \in S /\ EndsWith(Tail(p), S, w)
<1>1. p \in Seq(Replies) /\ p # <<>>
  BY DEF EndsWith
<1>2. CASE Len(p) = 1
  BY <1>1, <1>2, TailSplit DEF EndsWith
<1>3. CASE Len(p) > 1
  <2>1. /\ Len(p) \in Nat /\ Head(p) = p[1] /\ Len(Tail(p)) = Len(p) - 1
        /\ Tail(p) # <<>> /\ Tail(p)[Len(Tail(p))] = p[Len(p)]
        /\ \A i \in 1 .. Len(p) - 1 : Tail(p)[i] = p[i + 1]
    BY <1>1, <1>3, TailSplit
  <2>2. Head(p) \in S
    BY <1>3, <2>1 DEF EndsWith
  <2>3. \A i \in 1 .. Len(Tail(p)) - 1 : Tail(p)[i] \in S
    BY <2>1 DEF EndsWith
  <2>4. Tail(p)[Len(Tail(p))] = w
    BY <2>1 DEF EndsWith
  <2> QED
    BY <2>1, <2>2, <2>3, <2>4 DEF EndsWith
<1> QED
  BY <1>1, <1>2, <1>3, TailSplit

Line == Seq([what : Requests, call : Calls])

LEMMA AsksTail ==
  ASSUME NEW q \in Line, q # <<>>, NEW S, Asks(q, S)
  PROVE  Head(q).what \in S /\ Asks(Tail(q), S)
BY HeadTailProperties, EmptySeq DEF Asks, Line

LEMMA AsksGrows ==
  ASSUME NEW q \in Line, NEW S, Asks(q, S), NEW r \in [what : Requests, call : Calls]
  PROVE  /\ r.what \in S => Asks(Append(q, r), S)
         /\ AsksLast(Append(q, r), S, r.what)
BY AppendProperties, LenProperties DEF Asks, AsksLast, Line

LEMMA AsksLastTail ==
  ASSUME NEW q \in Line, NEW S, NEW w, AsksLast(q, S, w)
  PROVE  \/ Tail(q) = <<>> /\ Head(q).what = w
         \/ Head(q).what \in S /\ AsksLast(Tail(q), S, w)
<1>1. q \in Seq([what : Requests, call : Calls]) /\ q # <<>>
  BY DEF AsksLast, Line
<1>2. CASE Len(q) = 1
  BY <1>1, <1>2, TailSplit DEF AsksLast
<1>3. CASE Len(q) > 1
  <2>1. /\ Len(q) \in Nat /\ Head(q) = q[1] /\ Len(Tail(q)) = Len(q) - 1
        /\ Tail(q) # <<>> /\ Tail(q)[Len(Tail(q))] = q[Len(q)]
        /\ \A i \in 1 .. Len(q) - 1 : Tail(q)[i] = q[i + 1]
    BY <1>1, <1>3, TailSplit
  <2>2. Head(q).what \in S
    BY <1>3, <2>1 DEF AsksLast
  <2>3. \A i \in 1 .. Len(Tail(q)) - 1 : Tail(q)[i].what \in S
    BY <2>1 DEF AsksLast
  <2>4. Tail(q)[Len(Tail(q))].what = w
    BY <2>1 DEF AsksLast
  <2> QED
    BY <2>1, <2>2, <2>3, <2>4 DEF AsksLast
<1> QED
  BY <1>1, <1>2, <1>3, TailSplit

LEMMA BodyTail ==
  ASSUME NEW p \in Seq(Replies), Body(p)
  PROVE  /\ p # <<>>
         /\ \/ Head(p) = "entry" /\ Body(Tail(p))
            \/ Head(p) = "done" /\ Verdict(Tail(p))
<1>1. Len(p) \in Nat /\ Len(p) >= 2
  BY LenProperties DEF Body
<1>2. p # <<>>
  BY <1>1, EmptySeq
<1>3. Tail(p) \in Seq(Replies) /\ Len(Tail(p)) = Len(p) - 1 /\ Head(p) = p[1]
      /\ \A i \in 1 .. Len(p) - 1 : Tail(p)[i] = p[i + 1]
  BY <1>2, TailSplit
<1>4. Len(p) = 2 \/ Len(p) > 2
  <2>1. \A n \in Nat : n >= 2 => n = 2 \/ n > 2
    OBVIOUS
  <2> QED
    BY <1>1, <2>1
<1>5. CASE Len(p) = 2
  <2>1. p[2 - 1] = "done" /\ p[2] \in {"ok", "failed"}
    BY <1>5 DEF Body
  <2>2. Len(Tail(p)) = 2 - 1 /\ Tail(p)[1] = p[1 + 1]
    BY <1>3, <1>5
  <2>3. Len(Tail(p)) = Len(<<p[2]>>) /\ <<p[2]>> \in Seq(Replies)
    BY SMTT(60), <1>5, <2>2
  <2>4. \A i \in 1 .. Len(Tail(p)) : Tail(p)[i] = <<p[2]>>[i]
    BY <2>2
  <2>5. Tail(p) = <<p[2]>>
    BY <1>3, <2>3, <2>4, SeqEqual
  <2> QED
    BY <1>2, <1>3, <2>1, <2>5 DEF Verdict
<1>6. CASE Len(p) > 2
  <2>1. Head(p) = "entry"
    BY <1>1, <1>3, <1>6 DEF Body
  <2>2. Tail(p)[Len(p) - 1] = p[Len(p) - 1 + 1] /\ Len(p) - 1 + 1 = Len(p)
    BY <1>1, <1>3, <1>6
  <2>3. Tail(p)[Len(p) - 1 - 1] = p[Len(p) - 1 - 1 + 1] /\ Len(p) - 1 - 1 + 1 = Len(p) - 1
    BY <1>1, <1>3, <1>6
  <2>4. \A i \in 1 .. Len(p) - 1 - 2 : Tail(p)[i] = "entry"
    BY <1>1, <1>3, <1>6 DEF Body
  <2>5. Len(Tail(p)) >= 2
    BY <1>1, <1>3, <1>6
  <2>6. Body(Tail(p))
    BY <1>3, <2>2, <2>3, <2>4, <2>5 DEF Body
  <2> QED
    BY <1>2, <2>1, <2>6
<1> QED
  BY <1>4, <1>5, <1>6

-----------------------------------------------------------------------------
(***************************************************************************)
(* The server.                                                             *)
(***************************************************************************)
LEMMA PendingTyped ==
  ASSUME Typed
  PROVE  Pending \in Seq(Replies)
BY ConcatProperties DEF Typed, Pending

\* A read takes the head of what is pending.
LEMMA Taken ==
  ASSUME Typed, NEW w, Read(w), srv' = srv
  PROVE  /\ Pending # <<>> /\ w = Head(Pending) /\ w \in Replies
         /\ Pending' = Tail(Pending) /\ Pending' \in Seq(Replies)
<1>1. s2c \in Seq(Replies) /\ srv.out \in Seq(Replies) /\ s2c # <<>>
  BY DEF Typed, Read
<1>2. Pending # <<>> /\ Head(Pending) = Head(s2c) /\ Tail(Pending) = Tail(s2c) \o srv.out
  BY <1>1, ConcatTail DEF Pending
<1>3. Tail(s2c) \in Seq(Replies) /\ Head(s2c) \in Replies
  BY <1>1, HeadTailProperties
<1>4. Pending' = Tail(s2c) \o srv.out
  BY DEF Pending, Read
<1> QED
  BY <1>1, <1>2, <1>3, <1>4, ConcatProperties DEF Read

LEMMA Joined ==
  ASSUME NEW e \in Entries, NEW r \in {"ok", "failed"}
  PROVE  e \in Seq(Replies) /\ e \o <<"done", r>> \in Seq(Replies) /\ Body(e \o <<"done", r>>)
<1>1. PICK k \in 0 .. MaxItems : e \in [1 .. k -> {"entry"}]
  BY DEF Entries
<1>2. k \in Nat
  BY SessionAssumption
<1>3. e \in Seq(Replies) /\ Len(e) = k
  BY <1>1, <1>2 DEF Replies
<1> DEFINE t == <<"done", r>>
<1>4. t \in Seq(Replies) /\ Len(t) = 2 /\ t[1] = "done" /\ t[2] \in {"ok", "failed"}
  BY DEF Replies
<1> HIDE DEF t
<1>5. /\ e \o t \in Seq(Replies) /\ Len(e \o t) = Len(e) + Len(t)
       /\ \A i \in 1 .. Len(e) + Len(t) : (e \o t)[i] = IF i <= Len(e) THEN e[i] ELSE t[i - Len(e)]
  BY <1>3, <1>4, ConcatProperties
<1>6. /\ e \o t \in Seq(Replies) /\ Len(e \o t) = k + 2
      /\ \A i \in 1 .. k + 2 : (e \o t)[i] = IF i <= k THEN e[i] ELSE t[i - k]
  BY <1>3, <1>4, <1>5
<1>7. /\ k + 2 \in 1 .. k + 2 /\ ~(k + 2 <= k) /\ k + 2 - k = 2
       /\ k + 1 \in 1 .. k + 2 /\ ~(k + 1 <= k) /\ k + 1 - k = 1
       /\ \A i \in 1 .. k : i \in 1 .. k + 2 /\ i <= k
  BY <1>2
<1>8. (e \o t)[k + 2] = t[2]
  <2>1. (e \o t)[k + 2] = t[k + 2 - k]
    BY <1>6, <1>7
  <2> QED
    BY <1>7, <2>1
<1>9. (e \o t)[k + 1] = t[1]
  <2>1. (e \o t)[k + 1] = t[k + 1 - k]
    BY <1>6, <1>7
  <2> QED
    BY <1>7, <2>1
<1>10. \A i \in 1 .. k : (e \o t)[i] = "entry"
  BY <1>1, <1>6, <1>7
<1>11. k + 2 >= 2 /\ k + 2 - 1 = k + 1 /\ k + 2 - 2 = k
  BY <1>2
<1>12. Body(e \o t)
  BY <1>4, <1>6, <1>8, <1>9, <1>10, <1>11 DEF Body
<1> QED
  BY <1>3, <1>6, <1>12 DEF t

\* Every answer begins with a request for authentication.
LEMMA AnswerShape ==
  ASSUME NEW kind \in CallKinds, NEW a \in Answers(kind)
  PROVE  /\ a \in Seq(Replies) /\ a # <<>> /\ Head(a) = "auth"
         /\ Mode(kind, a) \in {"ready", "report", "edit"}
         /\ Mode(kind, a) = "edit" => kind = "commit"
         /\ Follows(kind, Mode(kind, a), Tail(a))
<1> USE DEF Replies
<1>1. CASE kind = "command"
  <2>1. a \in {<<"auth", "ok">>, <<"auth", "failed">>}
    BY <1>1 DEF Answers
  <2>2. Mode(kind, a) = "ready"
    BY <1>1 DEF Mode
  <2>3. a \in Seq(Replies) /\ a # <<>> /\ Head(a) = "auth" /\ Verdict(Tail(a))
    <3>1. CASE a = <<"auth", "ok">>
      BY <3>1 DEF Verdict
    <3>2. CASE a = <<"auth", "failed">>
      BY <3>2 DEF Verdict
    <3> QED
      BY <2>1, <3>1, <3>2
  <2> QED
    BY <1>1, <2>2, <2>3 DEF Follows
<1>2. CASE kind = "report"
  <2>1. a = <<"auth">>
    BY <1>2 DEF Answers
  <2>2. "failed" \notin {a[i] : i \in DOMAIN a}
    BY <2>1
  <2>3. Mode(kind, a) = "report"
    BY <1>2, <2>2 DEF Mode
  <2>4. a \in Seq(Replies) /\ a # <<>> /\ Head(a) = "auth" /\ Tail(a) = <<>>
    BY <2>1
  <2> QED
    BY <1>2, <2>3, <2>4 DEF Follows
<1>3. CASE kind = "commit"
  <2>1. CASE a = <<"auth", "ok">>
    BY <1>3, <2>1 DEF Mode, Follows
  <2>2. CASE a = <<"auth", "failed">>
    <3>1. a[2] = "failed" /\ 2 \in DOMAIN a
      BY <2>2
    <3> QED
      BY <1>3, <2>2, <3>1 DEF Mode, Follows
  <2> QED
    BY <1>3, <2>1, <2>2 DEF Answers
<1>4. CASE kind \in {"stream", "many"}
  <2>1. PICK e \in Entries, r \in {"ok", "failed"} : a = <<"auth">> \o e \o <<"done", r>>
    <3>1. CASE kind = "stream"
      BY SMTT(60), <3>1 DEF Answers
    <3>2. CASE kind = "many"
      BY SMTT(60), <3>2 DEF Answers
    <3> QED
      BY <1>4, <3>1, <3>2
  <2>2. e \in Seq(Replies) /\ e \o <<"done", r>> \in Seq(Replies) /\ Body(e \o <<"done", r>>)
    BY Joined
  <2>3. <<"auth">> \in Seq(Replies) /\ <<"done", r>> \in Seq(Replies)
    OBVIOUS
  <2>4. a = <<"auth">> \o (e \o <<"done", r>>)
    BY <2>1, <2>2, <2>3, ConcatAssociative
  <2>5. a \in Seq(Replies) /\ a # <<>> /\ Head(a) = "auth"
        /\ Tail(a) = <<>> \o (e \o <<"done", r>>)
    BY <2>2, <2>3, <2>4, ConcatTail, ConcatProperties
  <2>6. Tail(a) = e \o <<"done", r>>
    BY <2>2, <2>5, ConcatEmptySeq
  <2>7. Mode(kind, a) = "ready"
    BY <1>4 DEF Mode
  <2> QED
    BY <1>4, <2>2, <2>5, <2>6, <2>7 DEF Follows
<1>5. CASE kind = "file"
  <2>1. Mode(kind, a) = "ready"
    BY <1>5 DEF Mode
  <2>2. CASE a = <<"auth", "failed">>
    BY <1>5, <2>1, <2>2 DEF Follows
  <2>3. CASE a # <<"auth", "failed">>
    <3>1. PICK e \in Entries, r \in {"ok", "failed"} :
            a = <<"auth", "ok">> \o e \o <<"done", r>>
      BY SMTT(60), <1>5, <2>3 DEF Answers
    <3> DEFINE b == e \o <<"done", r>>
    <3>2. e \in Seq(Replies) /\ b \in Seq(Replies) /\ Body(b)
      BY Joined
    <3>3. <<"auth", "ok">> \in Seq(Replies) /\ <<"done", r>> \in Seq(Replies)
          /\ <<"ok">> \in Seq(Replies)
      OBVIOUS
    <3>4. a = <<"auth", "ok">> \o b
      BY <3>1, <3>2, <3>3, ConcatAssociative
    <3> HIDE DEF b
    <3>5. a \in Seq(Replies) /\ a # <<>> /\ Head(a) = "auth" /\ Tail(a) = <<"ok">> \o b
      BY <3>2, <3>3, <3>4, ConcatTail, ConcatProperties
    <3> DEFINE one == <<"ok">>
    <3>8. one # <<>> /\ one \in Seq(Replies) /\ Head(one) = "ok" /\ Tail(one) = <<>>
      OBVIOUS
    <3> HIDE DEF one
    <3>9. one \o b # <<>> /\ Head(one \o b) = "ok" /\ Tail(one \o b) = <<>> \o b
      BY <3>2, <3>8, ConcatTail
    <3>6. Tail(a) # <<>> /\ Head(Tail(a)) = "ok" /\ Tail(Tail(a)) = <<>> \o b
      BY <3>5, <3>9 DEF one
    <3>7. Tail(Tail(a)) = b
      BY <3>2, <3>6, ConcatEmptySeq
    <3> QED
      BY <1>5, <2>1, <3>2, <3>5, <3>6, <3>7 DEF Follows
  <2> QED
    BY <2>2, <2>3
<1> QED
  BY <1>1, <1>2, <1>3, <1>4, <1>5 DEF CallKinds

\* Nothing the client or the invariant can tell apart: an item is sent that
\* was said before.
Hush ==
  /\ c2s' = c2s /\ srv'.mode = srv.mode /\ srv'.call = srv.call /\ made' = made
  /\ Pending' = Pending

Hears(w) == c2s # <<>> /\ Head(c2s).what = w /\ c2s' = Tail(c2s)
Turns(mode) == srv'.mode = mode /\ Pending' = Pending
Speaks(mode, out) == srv'.mode = mode /\ Pending' = Pending \o out
Same == srv'.call = srv.call /\ made' = made

\* What the server makes of a request, by its mode.
Reacts ==
  \/ /\ srv.mode = "ready" /\ Hears("command") /\ made' = made
     /\ srv'.call = Head(c2s).call
     /\ \E a \in Answers(Head(c2s).call.kind) : Speaks(Mode(Head(c2s).call.kind, a), a)
  \/ /\ srv.mode = "ready" /\ Same /\ Speaks("ready", <<"failed">>)
     /\ \E w \in Requests : Hears(w)
  \/ srv.mode = "report" /\ Same /\ Hears("send") /\ Turns("report")
  \/ srv.mode = "report" /\ Same /\ Hears("finish-report") /\ Speaks("drive", <<"auth">>)
  \/ srv.mode = "report" /\ Same /\ Hears("finish-report") /\ Speaks("ready", <<"auth", "failed">>)
  \/ srv.mode = "report" /\ Same /\ Hears("abort-report") /\ Turns("ready")
  \/ /\ srv.mode = "report" /\ Same /\ Speaks("ready", <<"failed">>)
     /\ \E w \in Requests \ {"send", "finish-report", "abort-report"} : Hears(w)
  \/ srv.mode = "edit" /\ Same /\ Hears("send") /\ Turns("edit")
  \/ /\ srv.mode = "edit" /\ Hears("close-edit") /\ Speaks("ready", <<"ok", "auth", "info">>)
     /\ srv'.call = srv.call /\ made' = made \cup {srv.call.n}
  \/ srv.mode = "edit" /\ Same /\ Hears("abort-edit") /\ Speaks("ready", <<"ok">>)
  \/ /\ srv.mode = "edit" /\ Same /\ Speaks("flush", <<"failed">>)
     /\ \E w \in Requests \ {"abort-edit"} : Hears(w)
  \/ srv.mode = "flush" /\ Same /\ Hears("abort-edit") /\ Turns("ready")
  \/ srv.mode = "flush" /\ Same /\ (\E w \in Requests \ {"abort-edit"} : Hears(w)) /\ Turns("flush")
  \/ srv.mode = "drive" /\ Same /\ Hears("failed") /\ Speaks("aborted", <<"abort-edit">>)
  \/ srv.mode = "reply" /\ Same /\ Hears("ok") /\ \E r \in {"ok", "failed"} : Speaks("ready", <<r>>)
  \/ /\ srv.mode = "reply" /\ Same /\ Speaks("ready", <<"failed">>)
     /\ \E w \in Requests \ {"ok"} : Hears(w)
  \/ srv.mode = "aborted" /\ Same /\ Hears("ok") /\ Speaks("ready", <<"failed">>)
  \/ srv.mode = "aborted" /\ Same /\ (\E w \in Requests \ {"ok"} : Hears(w)) /\ Turns("aborted")

\* The edit it drives.
Drives ==
  /\ srv.mode = "drive" /\ Same /\ c2s' = c2s
  /\ \/ Speaks("drive", <<"edit">>)
     \/ Speaks("reply", <<"close-edit">>)
     \/ Speaks("aborted", <<"abort-edit">>)

\* What the server says is pending.
LEMMA Said ==
  ASSUME Typed, srv.out = <<>>, s2c' = s2c, NEW out \in Seq(Replies), srv'.out = out
  PROVE  Pending' = Pending \o out
<1>1. Pending = s2c
  BY ConcatEmptySeq DEF Typed, Pending
<1> QED
  BY <1>1 DEF Pending

LEMMA Goes ==
  ASSUME Typed, srv.out = <<>>, s2c' = s2c, NEW mode, NEW out \in Seq(Replies),
         SrvGoes(mode, out)
  PROVE  Pending' = Pending \o out /\ srv'.mode = mode /\ srv'.call = srv.call
<1>1. srv'.out = out /\ srv'.mode = mode /\ srv'.call = srv.call
  BY DEF Typed, SrvGoes
<1> QED
  BY <1>1, Said

LEMMA SayingsTyped ==
  /\ <<"failed">> \in Seq(Replies) /\ <<"ok">> \in Seq(Replies) /\ <<"auth">> \in Seq(Replies)
  /\ <<"edit">> \in Seq(Replies) /\ <<"close-edit">> \in Seq(Replies)
  /\ <<"abort-edit">> \in Seq(Replies)
  /\ <<"auth", "failed">> \in Seq(Replies) /\ <<"ok", "auth", "info">> \in Seq(Replies)
BY DEF Replies

LEMMA ServerTurns ==
  ASSUME Typed, Server
  PROVE  Hush \/ Reacts \/ Drives
<1>1. CASE SrvSend
  <2>1. srv.out # <<>> /\ s2c' = Append(s2c, Head(srv.out)) /\ srv'.out = Tail(srv.out)
    BY <1>1 DEF SrvSend, Typed
  <2>2. s2c \in Seq(Replies) /\ srv.out \in Seq(Replies)
    BY DEF Typed
  <2>3. Pending' = Append(s2c, Head(srv.out)) \o Tail(srv.out)
    BY <2>1 DEF Pending
  <2>4. Pending' = Pending
    BY <2>1, <2>2, <2>3, ConcatShift DEF Pending
  <2> QED
    BY <1>1, <2>4 DEF SrvSend, Hush
<1>2. CASE SrvCommand
  <2>1. CASE SrvRead("ready", "command")
             /\ \E a \in Answers(Head(c2s).call.kind) :
                  srv' = [mode |-> Mode(Head(c2s).call.kind, a),
                          call |-> Head(c2s).call, out |-> a, left |-> MaxItems]
    <3>1. PICK a \in Answers(Head(c2s).call.kind) :
            srv' = [mode |-> Mode(Head(c2s).call.kind, a),
                    call |-> Head(c2s).call, out |-> a, left |-> MaxItems]
      BY <2>1
    <3>2. srv.mode = "ready" /\ srv.out = <<>> /\ s2c' = s2c /\ Hears("command")
      BY <2>1 DEF SrvRead, Hears
    <3>3. Head(c2s) \in [what : Requests, call : Calls]
      BY <3>2, HeadTailProperties DEF Hears, Typed
    <3>4. Head(c2s).call.kind \in CallKinds
      BY <3>3 DEF Calls
    <3>5. a \in Seq(Replies)
      BY <3>4, AnswerShape
    <3>6. Pending' = Pending \o a
      BY <3>1, <3>2, <3>5, Said
    <3> QED
      BY <1>2, <3>1, <3>2, <3>6 DEF SrvCommand, Reacts, Speaks
  <2>2. ASSUME NEW w \in Requests, SrvRead("ready", w), SrvGoes("ready", <<"failed">>)
        PROVE  Reacts
    <3>1. Pending' = Pending \o <<"failed">> /\ srv'.call = srv.call
      BY <2>2, Goes, SayingsTyped DEF SrvRead
    <3> QED
      BY <1>2, <2>2, <3>1 DEF SrvCommand, SrvRead, SrvGoes, Reacts, Hears, Speaks, Same
  <2> QED
    BY <1>2, <2>1, <2>2 DEF SrvCommand
<1>3. CASE SrvReport
  <2>1. CASE SrvRead("report", "send") /\ UNCHANGED srv
    BY <1>3, <2>1 DEF SrvReport, SrvRead, Reacts, Hears, Turns, Same, Pending
  <2>2. CASE SrvRead("report", "finish-report") /\ SrvGoes("drive", <<"auth">>)
    <3>1. Pending' = Pending \o <<"auth">> /\ srv'.call = srv.call
      BY <2>2, Goes, SayingsTyped DEF SrvRead
    <3> QED
      BY <1>3, <2>2, <3>1 DEF SrvReport, SrvRead, SrvGoes, Reacts, Hears, Speaks, Same
  <2>3. CASE SrvRead("report", "finish-report") /\ SrvGoes("ready", <<"auth", "failed">>)
    <3>1. Pending' = Pending \o <<"auth", "failed">> /\ srv'.call = srv.call
      BY <2>3, Goes, SayingsTyped DEF SrvRead
    <3> QED
      BY <1>3, <2>3, <3>1 DEF SrvReport, SrvRead, SrvGoes, Reacts, Hears, Speaks, Same
  <2>4. CASE SrvRead("report", "abort-report") /\ SrvGoes("ready", <<>>)
    BY <1>3, <2>4 DEF SrvReport, SrvRead, SrvGoes, Reacts, Hears, Turns, Same, Pending
  <2>5. ASSUME NEW w \in Requests \ {"send", "finish-report", "abort-report"},
               SrvRead("report", w), SrvGoes("ready", <<"failed">>)
        PROVE  Reacts
    <3>1. Pending' = Pending \o <<"failed">> /\ srv'.call = srv.call
      BY <2>5, Goes, SayingsTyped DEF SrvRead
    <3> QED
      BY <1>3, <2>5, <3>1 DEF SrvReport, SrvRead, SrvGoes, Reacts, Hears, Speaks, Same
  <2> QED
    BY <1>3, <2>1, <2>2, <2>3, <2>4, <2>5 DEF SrvReport
<1>4. CASE SrvEdit
  <2>1. CASE SrvRead("edit", "send") /\ UNCHANGED <<srv, made>>
    BY <2>1 DEF SrvRead, Reacts, Hears, Turns, Same, Pending
  <2>2. CASE SrvRead("edit", "close-edit") /\ SrvGoes("ready", <<"ok", "auth", "info">>)
             /\ made' = made \cup {srv.call.n}
    <3>1. Pending' = Pending \o <<"ok", "auth", "info">> /\ srv'.call = srv.call
      BY <2>2, Goes, SayingsTyped DEF SrvRead
    <3> QED
      BY <2>2, <3>1 DEF SrvRead, SrvGoes, Reacts, Hears, Speaks
  <2>3. CASE SrvRead("edit", "abort-edit") /\ SrvGoes("ready", <<"ok">>) /\ UNCHANGED made
    <3>1. Pending' = Pending \o <<"ok">> /\ srv'.call = srv.call
      BY <2>3, Goes, SayingsTyped DEF SrvRead
    <3> QED
      BY <2>3, <3>1 DEF SrvRead, SrvGoes, Reacts, Hears, Speaks, Same
  <2>4. ASSUME NEW w \in Requests \ {"abort-edit"}, SrvRead("edit", w),
               SrvGoes("flush", <<"failed">>), UNCHANGED made
        PROVE  Reacts
    <3>1. Pending' = Pending \o <<"failed">> /\ srv'.call = srv.call
      BY <2>4, Goes, SayingsTyped DEF SrvRead
    <3> QED
      BY <2>4, <3>1 DEF SrvRead, SrvGoes, Reacts, Hears, Speaks, Same
  <2>5. ASSUME NEW w \in Requests, SrvRead("flush", w), UNCHANGED made,
               SrvGoes(IF w = "abort-edit" THEN "ready" ELSE "flush", <<>>)
        PROVE  Reacts
    <3>1. Pending' = Pending
      BY <2>5 DEF SrvRead, SrvGoes, Pending
    <3>2. CASE w = "abort-edit"
      BY <2>5, <3>1, <3>2 DEF SrvRead, SrvGoes, Reacts, Hears, Turns, Same
    <3>3. CASE w # "abort-edit"
      BY <2>5, <3>1, <3>3 DEF SrvRead, SrvGoes, Reacts, Hears, Turns, Same
    <3> QED
      BY <3>2, <3>3
  <2> QED
    BY <1>4, <2>1, <2>2, <2>3, <2>4, <2>5 DEF SrvEdit
<1>5. CASE SrvDrive
  <2>1. srv.mode = "drive" /\ srv.out = <<>> /\ made' = made
    BY <1>5 DEF SrvDrive
  <2>6. srv \in [mode : Modes, call : Calls, out : Seq(Replies), left : Nat]
    BY DEF Typed
  <2>2. CASE srv' = [srv EXCEPT !.left = @ - 1, !.out = <<"edit">>] /\ UNCHANGED <<c2s, s2c>>
    <3>1. Pending' = Pending \o <<"edit">>
      BY <2>1, <2>2, <2>6, Said, SayingsTyped
    <3> QED
      BY <2>1, <2>2, <2>6, <3>1 DEF Drives, Speaks, Same
  <2>3. CASE SrvGoes("reply", <<"close-edit">>) /\ UNCHANGED <<c2s, s2c>>
    <3>1. Pending' = Pending \o <<"close-edit">> /\ srv'.mode = "reply" /\ srv'.call = srv.call
      BY <2>1, <2>3, Goes, SayingsTyped
    <3> QED
      BY <2>1, <2>3, <3>1 DEF Drives, Speaks, Same, SrvGoes
  <2>4. CASE SrvGoes("aborted", <<"abort-edit">>) /\ UNCHANGED <<c2s, s2c>>
    <3>1. Pending' = Pending \o <<"abort-edit">> /\ srv'.mode = "aborted" /\ srv'.call = srv.call
      BY <2>1, <2>4, Goes, SayingsTyped
    <3> QED
      BY <2>1, <2>4, <3>1 DEF Drives, Speaks, Same, SrvGoes
  <2>5. CASE SrvRead("drive", "failed") /\ SrvGoes("aborted", <<"abort-edit">>)
    <3>1. Pending' = Pending \o <<"abort-edit">> /\ srv'.call = srv.call
      BY <2>5, Goes, SayingsTyped DEF SrvRead
    <3> QED
      BY <2>1, <2>5, <3>1 DEF SrvRead, SrvGoes, Reacts, Hears, Speaks, Same
  <2> QED
    BY <1>5, <2>2, <2>3, <2>4, <2>5 DEF SrvDrive
<1>6. CASE SrvReply
  <2>1. made' = made
    BY <1>6 DEF SrvReply
  <2>2. ASSUME SrvRead("reply", "ok"), NEW r \in {"ok", "failed"}, SrvGoes("ready", <<r>>)
        PROVE  Reacts
    <3>1. Pending' = Pending \o <<r>> /\ srv'.call = srv.call
      BY <2>2, Goes, SayingsTyped DEF SrvRead
    <3> QED
      BY <2>1, <2>2, <3>1 DEF SrvRead, SrvGoes, Reacts, Hears, Speaks, Same
  <2>3. ASSUME NEW w \in Requests \ {"ok"}, SrvRead("reply", w), SrvGoes("ready", <<"failed">>)
        PROVE  Reacts
    <3>1. Pending' = Pending \o <<"failed">> /\ srv'.call = srv.call
      BY <2>3, Goes, SayingsTyped DEF SrvRead
    <3> QED
      BY <2>1, <2>3, <3>1 DEF SrvRead, SrvGoes, Reacts, Hears, Speaks, Same
  <2>4. CASE SrvRead("aborted", "ok") /\ SrvGoes("ready", <<"failed">>)
    <3>1. Pending' = Pending \o <<"failed">> /\ srv'.call = srv.call
      BY <2>4, Goes, SayingsTyped DEF SrvRead
    <3> QED
      BY <2>1, <2>4, <3>1 DEF SrvRead, SrvGoes, Reacts, Hears, Speaks, Same
  <2>5. ASSUME NEW w \in Requests \ {"ok"}, SrvRead("aborted", w), UNCHANGED srv
        PROVE  Reacts
    BY <2>1, <2>5 DEF SrvRead, Reacts, Hears, Turns, Same, Pending
  <2> QED
    BY <1>6, <2>2, <2>3, <2>4, <2>5 DEF SrvReply
<1> QED
  BY <1>1, <1>2, <1>3, <1>4, <1>5, <1>6 DEF Server

Turn == (Hush \/ Reacts \/ Drives) /\ UNCHANGED <<call, jammed, stray>>

\* With nothing to read and no edit to drive the server is silent.
LEMMA Lull ==
  ASSUME Turn, c2s = <<>>, srv.mode # "drive"
  PROVE  Hush
BY DEF Turn, Reacts, Drives, Hears

\* What is said when nothing is pending.
LEMMA FirstWord ==
  ASSUME Pending = <<>>, NEW mode, NEW out \in Seq(Replies), Speaks(mode, out)
  PROVE  Pending' = out /\ srv'.mode = mode
BY ConcatEmptySeq DEF Speaks

LEMMA SettledTurns ==
  ASSUME Typed, Turn, Settled(c2s)
  PROVE  Pending' = Pending /\ Settled(c2s)' /\ (srv.mode # "report" => srv'.mode # "report")
         /\ made' = made
<1>1. c2s \in Line
  BY DEF Typed, Line
<1>2. CASE srv.mode = "ready" /\ c2s = <<>>
  BY <1>2, Lull DEF Hush, Settled
<1>3. CASE srv.mode = "report" /\ AsksLast(c2s, {"send"}, "abort-report")
  <2>1. \/ Tail(c2s) = <<>> /\ Head(c2s).what = "abort-report"
        \/ Head(c2s).what = "send" /\ AsksLast(Tail(c2s), {"send"}, "abort-report")
    BY <1>1, <1>3, AsksLastTail
  <2>2. CASE Hush
    BY <1>3, <2>2 DEF Hush, Settled
  <2>3. CASE Reacts
    BY <1>3, <2>1, <2>3 DEF Reacts, Hears, Turns, Same, Settled
  <2> QED
    BY <1>3, <2>2, <2>3 DEF Turn, Drives
<1>4. CASE srv.mode = "flush" /\ AsksLast(c2s, {"send", "close-edit"}, "abort-edit")
  <2>1. \/ Tail(c2s) = <<>> /\ Head(c2s).what = "abort-edit"
        \/ /\ Head(c2s).what \in {"send", "close-edit"}
           /\ AsksLast(Tail(c2s), {"send", "close-edit"}, "abort-edit")
    BY <1>1, <1>4, AsksLastTail
  <2>2. CASE Hush
    BY <1>4, <2>2 DEF Hush, Settled
  <2>3. CASE Reacts
    BY <1>4, <2>1, <2>3 DEF Reacts, Hears, Turns, Same, Settled
  <2> QED
    BY <1>4, <2>2, <2>3 DEF Turn, Drives
<1> QED
  BY <1>2, <1>3, <1>4 DEF Settled

LEMMA RestTurns ==
  ASSUME Typed, Turn, AtRest
  PROVE  AtRest'
BY SettledTurns DEF AtRest, Turn

\* The queue in front of a command.
LEMMA BehindTail ==
  ASSUME NEW S, NEW w, NEW q \in Line, Behind(q, S, w)
  PROVE  /\ q # <<>> /\ Tail(q) # <<>> /\ Tail(q)[Len(Tail(q))] = q[Len(q)]
         /\ \/ Head(q).what = w /\ Len(Tail(q)) = 1
            \/ Head(q).what \in S /\ Behind(Tail(q), S, w)
<1>1. q \in Seq([what : Requests, call : Calls]) /\ Len(q) \in Nat
  BY LenProperties DEF Line, Behind
<1>2. q # <<>>
  BY <1>1, EmptySeq DEF Behind
<1>3. /\ Head(q) = q[1] /\ Len(Tail(q)) = Len(q) - 1
      /\ \A i \in 1 .. Len(q) - 1 : Tail(q)[i] = q[i + 1]
      /\ Tail(q) # <<>> /\ Tail(q)[Len(Tail(q))] = q[Len(q)]
  <2>1. Len(q) # 1
    <3>1. \A n \in Nat : n > 1 => n # 1
      OBVIOUS
    <3> QED
      BY <1>1, <3>1 DEF Behind
  <2> QED
    BY <1>1, <1>2, <2>1, TailSplit
<1>4. Len(q) = 2 \/ Len(q) > 2
  <2>1. \A n \in Nat : n > 1 => n = 2 \/ n > 2
    OBVIOUS
  <2> QED
    BY <1>1, <2>1 DEF Behind
<1>5. CASE Len(q) = 2
  <2>1. \A n \in Nat : n = 2 => n - 1 = 1
    OBVIOUS
  <2>2. Len(q) - 1 = 1
    BY <1>1, <1>5, <2>1
  <2>3. q[1].what = w /\ Len(Tail(q)) = 1
    BY <1>3, <2>2 DEF Behind
  <2> QED
    BY <1>2, <1>3, <2>3
<1>6. CASE Len(q) > 2
  <2>1. Head(q).what \in S
    BY <1>1, <1>3, <1>6 DEF Behind
  <2>2. Tail(q)[Len(q) - 1 - 1] = q[Len(q) - 1 - 1 + 1] /\ Len(q) - 1 - 1 + 1 = Len(q) - 1
    BY <1>1, <1>3, <1>6 DEF Behind
  <2>3. \A i \in 1 .. Len(q) - 1 - 2 : Tail(q)[i].what \in S
    BY <1>1, <1>3, <1>6 DEF Behind
  <2>4. Len(Tail(q)) > 1
    BY <1>1, <1>3, <1>6 DEF Behind
  <2> QED
    BY <1>2, <1>3, <2>1, <2>2, <2>3, <2>4 DEF Behind
<1> QED
  BY <1>4, <1>5, <1>6

LEMMA AuthTurns ==
  ASSUME Typed, Turn, AtAuth, call.n \notin made'
  PROVE  AtAuth'
<1>1. call' = call /\ c2s \in Line
  BY DEF Turn, Typed, Line
<1>2. CASE Asked /\ Hush
  BY <1>1, <1>2 DEF Asked, Hush, Request, AtAuth
<1>3. CASE Asked /\ Reacts
  <2> USE DEF Asked
  <2>1. c2s # <<>> /\ Pending = <<>>
    BY <1>3
  <2>2. CASE srv.mode = "ready" /\ Len(c2s) = 1
    <3>1. Head(c2s) = Request("command") /\ Tail(c2s) = <<>>
      <4>1. c2s \in Seq([what : Requests, call : Calls])
        BY <1>1 DEF Line
      <4>2. c2s[1] = Request("command")
        BY <1>3, <2>2
      <4>3. ~(Len(c2s) > 1)
        BY <2>2
      <4> QED
        BY <2>1, <4>1, <4>2, <4>3, TailSplit
    <3>2. c2s' = <<>>
      BY <1>3, <2>2, <3>1 DEF Reacts, Hears
    <3>3. CASE Speaks("ready", <<"failed">>)
      <4>1. Pending' = <<"failed">> /\ srv'.mode = "ready"
        BY <2>1, <3>3, FirstWord, SayingsTyped
      <4> QED
        BY <1>1, <3>2, <4>1 DEF AtAuth, Refusal
    <3>4. CASE srv'.call = call /\ \E a \in Answers(call.kind) : Speaks(Mode(call.kind, a), a)
      <4>1. PICK a \in Answers(call.kind) : Speaks(Mode(call.kind, a), a)
        BY <3>4
      <4>2. call.kind \in CallKinds
        BY DEF Typed, Calls
      <4>3. a \in Seq(Replies) /\ a # <<>> /\ Head(a) = "auth"
            /\ Follows(call.kind, Mode(call.kind, a), Tail(a))
        BY <4>2, AnswerShape
      <4>4. Pending' = a /\ srv'.mode = Mode(call.kind, a)
        BY <2>1, <4>1, <4>3, FirstWord
      <4> QED
        BY <1>1, <3>2, <3>4, <4>3, <4>4 DEF AtAuth, Greeted
    <3>5. Head(c2s).call = call
      BY <3>1 DEF Request
    <3> QED
      BY <1>3, <2>2, <3>3, <3>4, <3>5 DEF Reacts
  <2>3. CASE srv.mode = "report" /\ Behind(c2s, {"send"}, "abort-report")
    <3>1. /\ Tail(c2s) # <<>> /\ Tail(c2s)[Len(Tail(c2s))] = c2s[Len(c2s)]
          /\ \/ Head(c2s).what = "abort-report" /\ Len(Tail(c2s)) = 1
             \/ Head(c2s).what \in {"send"} /\ Behind(Tail(c2s), {"send"}, "abort-report")
      BY <1>1, <2>3, BehindTail
    <3>2. /\ c2s' = Tail(c2s) /\ Pending' = Pending
          /\ \/ srv'.mode = "ready" /\ Head(c2s).what = "abort-report"
             \/ srv'.mode = "report" /\ Head(c2s).what = "send"
      BY <1>3, <2>3, <3>1 DEF Reacts, Hears, Turns
    <3>3. Asked'
      BY <1>1, <1>3, <2>3, <3>1, <3>2 DEF Request
    <3> QED
      BY <1>1, <3>3 DEF AtAuth
  <2>4. CASE srv.mode = "flush" /\ Behind(c2s, {"send", "close-edit"}, "abort-edit")
    <3>1. /\ Tail(c2s) # <<>> /\ Tail(c2s)[Len(Tail(c2s))] = c2s[Len(c2s)]
          /\ \/ Head(c2s).what = "abort-edit" /\ Len(Tail(c2s)) = 1
             \/ Head(c2s).what \in {"send", "close-edit"} /\ Behind(Tail(c2s), {"send", "close-edit"}, "abort-edit")
      BY <1>1, <2>4, BehindTail
    <3>2. /\ c2s' = Tail(c2s) /\ Pending' = Pending
          /\ \/ srv'.mode = "ready" /\ Head(c2s).what = "abort-edit"
             \/ srv'.mode = "flush" /\ Head(c2s).what \in {"send", "close-edit"}
      BY <1>3, <2>4, <3>1 DEF Reacts, Hears, Turns
    <3>3. Asked'
      BY <1>1, <1>3, <2>4, <3>1, <3>2 DEF Request
    <3> QED
      BY <1>1, <3>3 DEF AtAuth
  <2> QED
    BY <1>3, <2>2, <2>3, <2>4
<1>4. CASE Refusal
  BY <1>1, <1>4, Lull DEF Refusal, AtAuth, Hush
<1>5. CASE Pending # <<>> /\ Head(Pending) = "auth" /\ Greeted(Tail(Pending))
  <2>1. c2s = <<>> /\ srv.mode # "drive"
    BY <1>5 DEF Greeted, Follows
  <2> QED
    BY <1>1, <1>5, <2>1, Lull DEF AtAuth, Hush, Greeted
<1> QED
  BY <1>2, <1>3, <1>4, <1>5 DEF AtAuth, Turn, Drives, Asked

LEMMA ReportingTurns ==
  ASSUME Typed, Turn, Reporting
  PROVE  Reporting'
<1>1. c2s \in Line
  BY DEF Typed, Line
<1>2. CASE Hush
  BY <1>2 DEF Hush, Reporting
<1>3. CASE Reacts
  <2>1. c2s # <<>>
    BY <1>3 DEF Reacts, Hears
  <2>2. Head(c2s).what = "send" /\ Asks(Tail(c2s), {"send"})
    BY <1>1, <2>1, AsksTail DEF Reporting
  <2> QED
    BY <1>3, <2>2 DEF Reporting, Reacts, Hears, Turns
<1> QED
  BY <1>2, <1>3 DEF Turn, Drives, Reporting

\* One more command of the edit the server drives.
LEMMA DrivenGrows ==
  ASSUME Drives, NEW p \in Seq(Replies), Driven(p), NEW after,
         \A out \in Seq(Replies) : \A mode : Speaks(mode, out) => after = p \o out
  PROVE  Driven(after)'
<1>1. Only(p, {"edit"}) /\ c2s' = <<>>
  BY DEF Drives, Driven
<1>2. "edit" \in Replies /\ "close-edit" \in Replies /\ "abort-edit" \in Replies
  BY DEF Replies
<1>3. CASE Speaks("drive", <<"edit">>)
  BY <1>1, <1>2, <1>3, OnlyGrows, SayingsTyped DEF Driven, Speaks
<1>4. CASE Speaks("reply", <<"close-edit">>)
  BY ZenonT(60), <1>1, <1>2, <1>4, OnlyGrows, SayingsTyped DEF Driven, Speaks
<1>5. CASE Speaks("aborted", <<"abort-edit">>)
  BY ZenonT(60), <1>1, <1>2, <1>5, OnlyGrows, SayingsTyped DEF Driven, Speaks
<1> QED
  BY <1>3, <1>4, <1>5 DEF Drives

LEMMA DrivenTurns ==
  ASSUME Typed, Turn, Driven(Pending)
  PROVE  Driven(Pending)' /\ (srv.mode # "ready" => srv'.mode # "ready")
<1>1. CASE Hush
  BY <1>1 DEF Hush, Driven
<1>2. CASE Drives
  BY <1>2, PendingTyped, DrivenGrows DEF Speaks, Drives
<1> QED
  BY <1>1, <1>2 DEF Turn, Driven, Reacts, Hears

LEMMA FinishAuthTurns ==
  ASSUME Typed, Turn, AtFinishAuth
  PROVE  AtFinishAuth'
<1>1. c2s \in Line /\ Pending \in Seq(Replies)
  BY PendingTyped DEF Typed, Line
<1>2. CASE Hush
  BY <1>2 DEF Hush, AtFinishAuth, Driven
<1>3. CASE srv.mode = "report" /\ AsksLast(c2s, {"send"}, "finish-report") /\ Pending = <<>>
           /\ Reacts
  <2>1. \/ Tail(c2s) = <<>> /\ Head(c2s).what = "finish-report"
        \/ Head(c2s).what = "send" /\ AsksLast(Tail(c2s), {"send"}, "finish-report")
    BY <1>1, <1>3, AsksLastTail
  <2>2. CASE Head(c2s).what = "send" /\ AsksLast(Tail(c2s), {"send"}, "finish-report")
    BY <1>3, <2>2 DEF Reacts, Hears, Turns, AtFinishAuth
  <2>3. CASE Tail(c2s) = <<>> /\ Head(c2s).what = "finish-report"
    <3>1. c2s' = <<>> /\ (Speaks("drive", <<"auth">>) \/ Speaks("ready", <<"auth", "failed">>))
      BY <1>3, <2>3 DEF Reacts, Hears
    <3>2. CASE Speaks("drive", <<"auth">>)
      <4>1. Pending' = <<"auth">> /\ srv'.mode = "drive"
        BY <1>3, <3>2, FirstWord, SayingsTyped
      <4>2. Only(<<>>, {"edit"})
        BY DEF Only
      <4>3. Pending' # <<>> /\ Head(Pending') = "auth" /\ Tail(Pending') = <<>>
        BY <4>1
      <4> QED
        BY <3>1, <4>1, <4>2, <4>3 DEF AtFinishAuth, Driven
    <3>3. CASE Speaks("ready", <<"auth", "failed">>)
      <4>1. Pending' = <<"auth", "failed">> /\ srv'.mode = "ready"
        BY <1>3, <3>3, FirstWord, SayingsTyped
      <4>3. Pending' # <<>> /\ Head(Pending') = "auth" /\ Tail(Pending') = <<"failed">>
        BY <4>1
      <4> QED
        BY <3>1, <4>1, <4>3 DEF AtFinishAuth, Driven
    <3> QED
      BY <3>1, <3>2, <3>3
  <2> QED
    BY <2>1, <2>2, <2>3
<1>4. CASE Pending # <<>> /\ Head(Pending) = "auth" /\ Driven(Tail(Pending)) /\ Drives
  <2>1. \A out \in Seq(Replies) : \A mode :
          Speaks(mode, out) => /\ Pending' # <<>> /\ Head(Pending') = "auth"
                               /\ Tail(Pending') = Tail(Pending) \o out
    BY <1>1, <1>4, ConcatTail DEF Speaks
  <2>2. Tail(Pending) \in Seq(Replies)
    BY <1>1, <1>4, HeadTailProperties
  <2>3. Driven(Tail(Pending))'
    BY <1>4, <2>1, <2>2, DrivenGrows
  <2>4. Pending' # <<>> /\ Head(Pending') = "auth"
    BY <1>4, <2>1, SayingsTyped DEF Drives
  <2> QED
    BY <2>3, <2>4 DEF AtFinishAuth
<1>5. CASE Pending # <<>> /\ Head(Pending) = "auth" /\ Driven(Tail(Pending)) /\ Reacts
  BY <1>5 DEF Reacts, Hears, Driven
<1> QED
  BY <1>2, <1>3, <1>4, <1>5 DEF Turn, Drives, AtFinishAuth

\* Once the failure was taken for a command nothing ends the edit any more.
LEMMA HopelessTurns ==
  ASSUME Typed, Turn, Hopeless
  PROVE  Hopeless'
<1> DEFINE N == {"edit", "close-edit", "ok", "failed"}
<1>1. c2s \in Line /\ Pending \in Seq(Replies)
  BY PendingTyped DEF Typed, Line
<1>2. Only(Pending, N) /\ Asks(c2s, {"ok", "failed"})
  BY DEF Hopeless
<1>3. CASE Hush
  BY <1>3 DEF Hush, Hopeless
<1>4. CASE Reacts
  <2>1. c2s # <<>> /\ c2s' = Tail(c2s)
    BY <1>4 DEF Reacts, Hears
  <2>2. Head(c2s).what \in {"ok", "failed"} /\ Asks(c2s', {"ok", "failed"})
    BY SMTT(60), <1>1, <1>2, <2>1, AsksTail
  <2>3. srv'.mode = "ready" /\ (Speaks("ready", <<"failed">>) \/ Speaks("ready", <<"ok">>))
    BY <1>4, <2>2 DEF Reacts, Hears, Hopeless, Turns, Speaks
  <2>4. Only(Pending, N)'
    BY ZenonT(60), <1>1, <1>2, <2>3, OnlyGrows DEF Speaks, Replies
  <2> QED
    BY <2>2, <2>3, <2>4 DEF Hopeless
<1> QED
  BY <1>3, <1>4 DEF Turn, Drives, Hopeless

LEMMA FailTurns ==
  ASSUME Typed, Turn, AtFail
  PROVE  AtFail'
BY DrivenTurns, HopelessTurns DEF AtFail

LEMMA DrainTurns ==
  ASSUME Typed, Turn, AtDrain
  PROVE  AtDrain'
<1>1. c2s \in Line /\ Pending \in Seq(Replies)
  BY PendingTyped DEF Typed, Line
<1>2. CASE Hopeless
  BY <1>2, HopelessTurns DEF AtDrain
<1>3. CASE Hush /\ Failing
  BY <1>3 DEF Hush, Failing, AtDrain
<1>4. CASE srv.mode = "drive" /\ AsksLast(c2s, {}, "failed") /\ Only(Pending, {"edit"})
           /\ ~Hush
  <2>1. Tail(c2s) = <<>> /\ Head(c2s).what = "failed" /\ c2s # <<>>
    BY ZenonT(60), <1>1, <1>4, AsksLastTail DEF AsksLast
  <2>2. "edit" \in Replies /\ "close-edit" \in Replies /\ "abort-edit" \in Replies
    BY DEF Replies
  <2>3. \/ c2s' = c2s /\ Speaks("drive", <<"edit">>)
        \/ c2s' = c2s /\ Speaks("reply", <<"close-edit">>)
        \/ c2s' = c2s /\ Speaks("aborted", <<"abort-edit">>)
        \/ c2s' = <<>> /\ Speaks("aborted", <<"abort-edit">>)
    BY <1>4, <2>1 DEF Turn, Drives, Reacts, Hears
  <2>4. CASE c2s' = c2s /\ Speaks("drive", <<"edit">>)
    BY <1>1, <1>4, <2>2, <2>4, OnlyGrows DEF Speaks, AtDrain, Failing
  <2>5. CASE c2s' = c2s /\ Speaks("reply", <<"close-edit">>)
    <3> DEFINE N == {"edit", "close-edit", "ok", "failed"}
    <3>1. Only(Pending, N)
      BY <1>4 DEF Only
    <3>2. Only(Pending', N)
      BY <1>1, <2>2, <2>5, <3>1, OnlyGrows DEF Speaks
    <3>3. Asks(c2s, {"ok", "failed"})
      <4>1. \A i \in 1 .. Len(c2s) : i \in 1 .. Len(c2s) - 1 \/ i = Len(c2s)
        BY <1>1, LenProperties DEF Line
      <4> QED
        BY <1>4, <4>1 DEF Asks, AsksLast
    <3> QED
      BY <2>5, <3>2, <3>3 DEF AtDrain, Hopeless, Speaks
  <2>6. CASE srv'.mode = "aborted" /\ Speaks("aborted", <<"abort-edit">>)
             /\ (c2s' = c2s \/ c2s' = <<>>)
    BY <1>1, <1>4, <2>2, <2>6, OnlyGrows DEF Speaks, AtDrain, Failing
  <2> QED
    BY <2>3, <2>4, <2>5, <2>6 DEF Speaks
<1>5. CASE srv.mode = "aborted" /\ EndsWith(Pending, {"edit"}, "abort-edit")
           /\ (c2s = <<>> \/ AsksLast(c2s, {}, "failed")) /\ ~Hush
  <2>1. c2s # <<>> /\ c2s' = Tail(c2s)
    BY <1>5 DEF Turn, Drives, Reacts, Hears
  <2>2. Tail(c2s) = <<>> /\ Head(c2s).what = "failed"
    BY <1>1, <1>5, <2>1, AsksLastTail
  <2>3. srv'.mode = "aborted" /\ Pending' = Pending
    BY <1>5, <2>2 DEF Turn, Drives, Reacts, Hears, Turns
  <2> QED
    BY <1>5, <2>1, <2>2, <2>3 DEF AtDrain, Failing
<1> QED
  BY <1>2, <1>3, <1>4, <1>5 DEF AtDrain, Failing

LEMMA DrainedTurns ==
  ASSUME Typed, Turn, AtDrained
  PROVE  AtDrained'
<1>1. c2s \in Line
  BY DEF Typed, Line
<1>2. CASE Hush
  BY <1>2 DEF Hush, AtDrained
<1>3. CASE ~Hush
  <2>1. c2s # <<>> /\ c2s' = Tail(c2s)
    BY <1>3 DEF AtDrained, Turn, Drives, Reacts, Hears
  <2>2. Tail(c2s) = <<>> /\ Head(c2s).what = "failed"
    BY <1>1, <2>1, AsksLastTail DEF AtDrained
  <2>3. srv'.mode = "aborted" /\ Pending' = Pending
    BY <1>3, <2>2 DEF AtDrained, Turn, Drives, Reacts, Hears, Turns
  <2> QED
    BY <2>1, <2>2, <2>3 DEF AtDrained
<1> QED
  BY <1>2, <1>3

LEMMA OuterTurns ==
  ASSUME Typed, Turn, AtOuter
  PROVE  AtOuter'
<1>1. c2s \in Line
  BY DEF Typed, Line
<1>2. CASE Hush
  BY <1>2 DEF Hush, AtOuter
<1>3. CASE srv.mode \in {"reply", "aborted"} /\ AsksLast(c2s, {}, "ok") /\ Pending = <<>> /\ ~Hush
  <2>1. Tail(c2s) = <<>> /\ Head(c2s).what = "ok"
    BY <1>1, <1>3, AsksLastTail
  <2>2. c2s' = <<>> /\ (Speaks("ready", <<"ok">>) \/ Speaks("ready", <<"failed">>))
    BY <1>3, <2>1 DEF Turn, Drives, Reacts, Hears
  <2>3. srv'.mode = "ready" /\ Pending' \in {<<"ok">>, <<"failed">>}
    BY <1>3, <2>2, FirstWord, SayingsTyped
  <2> QED
    BY <2>2, <2>3 DEF AtOuter, Verdict
<1>4. CASE srv.mode = "ready" /\ c2s = <<>> /\ Verdict(Pending) /\ ~Hush
  BY <1>4, Lull
<1> QED
  BY <1>2, <1>3, <1>4 DEF AtOuter

LEMMA BadTurns ==
  ASSUME Typed, Turn, AtBad
  PROVE  AtBad'
<1>1. c2s \in Line
  BY DEF Typed, Line
<1>2. CASE jammed
  BY <1>2 DEF Turn, AtBad
<1>3. CASE Hush
  BY <1>3 DEF Hush, AtBad, Turn, Refusal
<1>4. CASE srv.mode = "aborted" /\ AsksLast(c2s, {"failed"}, "ok") /\ Pending = <<>> /\ ~Hush
  <2>1. \/ Tail(c2s) = <<>> /\ Head(c2s).what = "ok"
        \/ Head(c2s).what = "failed" /\ AsksLast(Tail(c2s), {"failed"}, "ok")
    BY <1>1, <1>4, AsksLastTail
  <2>2. CASE Tail(c2s) = <<>> /\ Head(c2s).what = "ok"
    <3>1. c2s' = <<>> /\ Speaks("ready", <<"failed">>)
      BY <1>4, <2>2 DEF Turn, Drives, Reacts, Hears
    <3> QED
      BY <1>4, <3>1, FirstWord, SayingsTyped DEF AtBad, Refusal
  <2>3. CASE Head(c2s).what = "failed" /\ AsksLast(Tail(c2s), {"failed"}, "ok")
    <3>1. c2s' = Tail(c2s) /\ Turns("aborted")
      BY <1>4, <2>3 DEF Turn, Drives, Reacts, Hears
    <3> QED
      BY <1>4, <2>3, <3>1 DEF AtBad, Turns
  <2> QED
    BY <2>1, <2>2, <2>3
<1>5. CASE srv.mode = "reply" /\ AsksLast(c2s, {}, "failed") /\ Pending = <<>> /\ ~Hush
  <2>1. Tail(c2s) = <<>> /\ Head(c2s).what = "failed"
    BY <1>1, <1>5, AsksLastTail
  <2>2. c2s' = <<>> /\ Speaks("ready", <<"failed">>)
    BY <1>5, <2>1 DEF Turn, Drives, Reacts, Hears
  <2> QED
    BY <1>5, <2>2, FirstWord, SayingsTyped DEF AtBad, Refusal
<1>6. CASE Refusal /\ ~Hush
  BY <1>6, Lull DEF Refusal
<1> QED
  BY <1>2, <1>3, <1>4, <1>5, <1>6 DEF AtBad

Sent == {"none", "close-edit", "abort-edit"}

LEMMA RefusedTurns ==
  ASSUME Typed, Turn, NEW sent \in Sent, Refused(sent)
  PROVE  Refused(sent)' /\ Pending' = Pending
<1>1. c2s \in Line /\ call' = call
  BY DEF Typed, Line, Turn
<1>2. CASE sent = "abort-edit"
  BY <1>1, <1>2, SettledTurns DEF Refused
<1>3. CASE sent # "abort-edit"
  <2>1. CASE Hush
    BY <1>1, <1>3, <2>1 DEF Hush, Refused
  <2>2. CASE Reacts
    <3>1. c2s # <<>>
      BY <2>2 DEF Reacts, Hears
    <3>2. Head(c2s).what \in {"send", "close-edit"} /\ Asks(Tail(c2s), {"send", "close-edit"})
      BY <1>1, <1>3, <3>1, AsksTail DEF Refused
    <3> QED
      BY <1>1, <1>3, <2>2, <3>2 DEF Refused, Reacts, Hears, Turns, Same
  <2> QED
    BY <1>3, <2>1, <2>2 DEF Turn, Drives, Refused
<1> QED
  BY <1>2, <1>3

LEMMA GrantedTurns ==
  ASSUME Typed, Turn, NEW sent \in Sent, Granted(sent)
  PROVE  Granted(sent)' /\ Pending' = Pending
BY Lull DEF Granted, Hush, Turn

LEMMA EditingTurns ==
  ASSUME Typed, Turn, NEW sent \in Sent, Editing(sent)
  PROVE  Unread(sent)'
<1> DEFINE Both == {"send", "close-edit"}
<1>1. c2s \in Line /\ call' = call
  BY DEF Typed, Line, Turn
<1>2. /\ srv.mode = "edit" /\ srv.call = call /\ call.n \notin made /\ Pending = <<>>
      /\ IF sent = "none" THEN Asks(c2s, {"send"}) ELSE AsksLast(c2s, {"send"}, sent)
  BY DEF Editing
<1>3. CASE Hush
  BY <1>1, <1>2, <1>3 DEF Hush, Editing, Unread
<1>4. CASE Reacts
  <2>1. c2s # <<>> /\ c2s' = Tail(c2s)
    BY <1>4 DEF Reacts, Hears
  <2>2. \/ /\ Head(c2s).what = "send"
           /\ IF sent = "none" THEN Asks(Tail(c2s), {"send"}) ELSE AsksLast(Tail(c2s), {"send"}, sent)
        \/ Head(c2s).what = sent /\ Tail(c2s) = <<>> /\ sent # "none"
    BY <1>1, <1>2, <2>1, AsksTail, AsksLastTail
  <2>3. CASE /\ Head(c2s).what = "send"
             /\ IF sent = "none" THEN Asks(Tail(c2s), {"send"}) ELSE AsksLast(Tail(c2s), {"send"}, sent)
    <3>1. Same /\ (Turns("edit") \/ Speaks("flush", <<"failed">>))
      BY <1>2, <1>4, <2>3 DEF Reacts, Hears
    <3>2. CASE Turns("edit")
      BY <1>1, <1>2, <2>1, <2>3, <3>1, <3>2 DEF Turns, Same, Editing, Unread
    <3>3. CASE Speaks("flush", <<"failed">>)
      <4>1. Pending' = <<"failed">> /\ srv'.mode = "flush"
        BY <1>2, <3>3, FirstWord, SayingsTyped
      <4>2. CASE sent = "abort-edit"
        <5>1. AsksLast(c2s', Both, "abort-edit")
          BY <2>1, <2>3, <4>2 DEF AsksLast
        <5> QED
          BY <1>1, <1>2, <3>1, <4>1, <4>2, <5>1 DEF Unread, Refused, Settled, Same
      <4>3. CASE sent \in {"none", "close-edit"}
        <5>1. Tail(c2s) \in Line
          BY <1>1, <2>1, HeadTailProperties DEF Line
        <5>2. Asks(c2s', Both)
          <6>1. \A i \in 1 .. Len(Tail(c2s)) : i \in 1 .. Len(Tail(c2s)) - 1 \/ i = Len(Tail(c2s))
            BY <5>1, LenProperties DEF Line
          <6> QED
            BY <2>1, <2>3, <4>3, <6>1 DEF Asks, AsksLast
        <5> QED
          BY <1>1, <1>2, <3>1, <4>1, <4>3, <5>2 DEF Unread, Refused, Same
      <4> QED
        BY <4>2, <4>3 DEF Sent
    <3> QED
      BY <3>1, <3>2, <3>3
  <2>4. CASE Head(c2s).what = "close-edit" /\ Tail(c2s) = <<>> /\ sent = "close-edit"
    <3>1. c2s' = <<>>
          /\ \/ Speaks("ready", <<"ok", "auth", "info">>) /\ made' = made \cup {srv.call.n}
             \/ Speaks("flush", <<"failed">>) /\ made' = made
      BY <1>2, <1>4, <2>4 DEF Reacts, Hears, Same
    <3>2. CASE Speaks("ready", <<"ok", "auth", "info">>) /\ made' = made \cup {srv.call.n}
      <4>1. Pending' = <<"ok", "auth", "info">> /\ srv'.mode = "ready"
        BY <1>2, <3>2, FirstWord, SayingsTyped
      <4>2. <<"ok", "auth", "info">> = <<"ok">> \o <<"auth", "info">>
        OBVIOUS
      <4>3. Granted(sent)'
        BY <1>1, <1>2, <2>4, <3>1, <3>2, <4>1 DEF Granted
      <4>4. Pending' = <<"ok">> \o Rest(sent)
        BY <2>4, <4>1, <4>2 DEF Rest
      <4> QED
        BY <4>3, <4>4 DEF Unread
    <3>3. CASE Speaks("flush", <<"failed">>) /\ made' = made
      <4>1. Pending' = <<"failed">> /\ srv'.mode = "flush"
        BY <1>2, <3>3, FirstWord, SayingsTyped
      <4>2. Asks(<<>>, Both)
        BY DEF Asks
      <4> QED
        BY <1>1, <1>2, <2>4, <3>1, <3>3, <4>1, <4>2 DEF Unread, Refused
    <3> QED
      BY <3>1, <3>2, <3>3
  <2>5. CASE Head(c2s).what = "abort-edit" /\ Tail(c2s) = <<>> /\ sent = "abort-edit"
    <3>1. c2s' = <<>> /\ Same /\ Speaks("ready", <<"ok">>)
      BY <1>2, <1>4, <2>5 DEF Reacts, Hears
    <3>2. Pending' = <<"ok">> /\ srv'.mode = "ready"
      BY <1>2, <3>1, FirstWord, SayingsTyped
    <3>3. <<"ok">> \o Rest(sent) = <<"ok">>
      BY <2>5 DEF Rest
    <3> QED
      BY <1>1, <1>2, <2>5, <3>1, <3>2, <3>3 DEF Unread, Granted, Same
  <2> QED
    BY <2>2, <2>3, <2>4, <2>5 DEF Sent
<1> QED
  BY <1>2, <1>3, <1>4 DEF Turn, Drives

LEMMA UnreadTurns ==
  ASSUME Typed, Turn, NEW sent \in Sent, Unread(sent)
  PROVE  Unread(sent)'
<1>1. CASE Editing(sent)
  BY <1>1, EditingTurns
<1>2. CASE Refused(sent) /\ Pending = <<"failed">>
  BY <1>2, RefusedTurns DEF Unread
<1>3. CASE Granted(sent) /\ Pending = <<"ok">> \o Rest(sent)
  BY <1>3, GrantedTurns DEF Unread
<1> QED
  BY <1>1, <1>2, <1>3 DEF Unread

LEMMA AnsweredTurns ==
  ASSUME Typed, Turn, NEW sent \in Sent, NEW r, Answered(sent, r)
  PROVE  Answered(sent, r)'
BY UnreadTurns, RefusedTurns, GrantedTurns DEF Answered

LEMMA ServerFrame ==
  ASSUME Server
  PROVE  UNCHANGED <<cut, overdue, jammed, cancel, mu, call, pc, editor, outcome, history>>
<1> USE DEF Serve, SrvRead
<1>1. CASE SrvSend \/ SrvCommand \/ SrvReport
  BY <1>1 DEF SrvSend, SrvCommand, SrvReport
<1>2. CASE SrvEdit
  BY <1>2 DEF SrvEdit
<1>3. CASE SrvDrive \/ SrvReply
  BY <1>3 DEF SrvDrive, SrvReply
<1> QED
  BY <1>1, <1>2, <1>3 DEF Server

LEMMA ServerTurn ==
  ASSUME Typed, Server
  PROVE  Turn
BY ServerTurns, ServerFrame DEF Turn, editor

\* Who is called what stays as it is.
LEMMA NumberedTurns ==
  ASSUME Typed, Turn, Numbered, TrueTold, UNCHANGED <<pc, told>>
  PROVE  Numbered' /\ TrueTold'
<1>1. c2s \in Line /\ call' = call
  BY DEF Typed, Line, Turn
<1>2. CASE Hush
  BY <1>1, <1>2 DEF Hush, Numbered, TrueTold, Over
<1>3. CASE Drives
  <2>1. srv'.call = srv.call /\ made' = made /\ c2s' = c2s /\ srv'.mode # "edit"
    BY <1>3 DEF Drives, Speaks, Same
  <2> QED
    BY <1>1, <2>1 DEF Numbered, TrueTold, Over
<1>4. CASE Reacts
  <2>1. c2s # <<>> /\ c2s' = Tail(c2s)
    BY <1>4 DEF Reacts, Hears
  <2>2. /\ Head(c2s) = c2s[1] /\ 1 \in 1 .. Len(c2s)
        /\ \A i \in 1 .. Len(c2s') : i + 1 \in 1 .. Len(c2s) /\ c2s'[i] = c2s[i + 1]
    <3>1. /\ Tail(c2s) \in Line /\ Head(c2s) = c2s[1] /\ Len(c2s) \in Nat
          /\ \A i \in 1 .. Len(c2s) - 1 : Tail(c2s)[i] = c2s[i + 1]
          /\ Len(Tail(c2s)) = Len(c2s) - 1
      BY <1>1, <2>1, TailSplit DEF Line
    <3>2. Len(c2s) > 0
      BY <1>1, <2>1, EmptySeq DEF Line
    <3> QED
      BY <2>1, <3>1, <3>2
  <2>3. Head(c2s) \in [what : Requests, call : Calls]
    BY <1>1, <2>1, HeadTailProperties DEF Line
  <2>4. \/ srv'.call = srv.call /\ (srv'.mode = "edit" => srv.mode = "edit")
        \/ /\ srv'.call = Head(c2s).call /\ Head(c2s).what = "command"
           /\ srv'.mode = "edit" => srv'.call.kind = "commit"
    <3>1. Head(c2s).call.kind \in CallKinds
      BY <2>3 DEF Calls
    <3>2. \A a \in Answers(Head(c2s).call.kind) :
            Mode(Head(c2s).call.kind, a) = "edit" => Head(c2s).call.kind = "commit"
      BY <3>1, AnswerShape
    <3> QED
      BY <1>4, <3>2 DEF Reacts, Hears, Turns, Speaks, Same
  <2>5. made' = made \/ (srv.mode = "edit" /\ made' = made \cup {srv.call.n})
    BY <1>4 DEF Reacts, Same
  <2>6. Numbered'
    <3>1. srv'.call.n <= call.n /\ (srv'.call.n = call.n => srv'.call = call)
      BY <2>2, <2>4 DEF Numbered
    <3>2. \A i \in 1 .. Len(c2s') :
            c2s'[i].call.n <= call.n /\ (c2s'[i].call.n = call.n => c2s'[i].call = call)
      BY <2>2 DEF Numbered
    <3>3. \A m \in made' : m <= call.n
      BY <2>5 DEF Numbered
    <3>4. srv'.mode = "edit" => srv'.call.kind = "commit"
      BY <2>4 DEF Numbered
    <3>5. call.kind # "commit" => call.n \notin made'
      BY <2>5 DEF Numbered
    <3> QED
      BY <1>1, <3>1, <3>2, <3>3, <3>4, <3>5 DEF Numbered
  <2>7. ASSUME NEW t \in told, t.as \in {"failed", "aborted"} PROVE Over(t.call.n)'
    <3>1. Over(t.call.n)
      BY <2>7 DEF TrueTold
    <3>2. t.call.n \notin made'
      BY <2>5, <3>1 DEF Over
    <3>3. srv'.mode = "edit" => srv'.call.n # t.call.n
      BY <2>2, <2>4, <3>1 DEF Over
    <3>4. \A i \in 1 .. Len(c2s') : c2s'[i].what = "command" => c2s'[i].call.n # t.call.n
      BY <2>2, <3>1 DEF Over
    <3> QED
      BY <3>2, <3>3, <3>4 DEF Over
  <2>8. TrueTold'
    BY <2>5, <2>7 DEF TrueTold
  <2> QED
    BY <2>6, <2>8
<1> QED
  BY <1>2, <1>3, <1>4 DEF Turn

\* The client's places are as true after a step of the server.
LEMMA WireTurns ==
  ASSUME Typed, Server, Place, Wire, Numbered
  PROVE  Place' /\ Wire'
<1>1. Turn /\ UNCHANGED <<cut, jammed, call, pc, done, response, written, word, stray, outcome>>
  BY ServerTurn, ServerFrame DEF editor
<1>2. Place'
  BY <1>1 DEF Place, Waits, Dead
<1>3. AtRest => AtRest' /\ made' = made
  BY <1>1, RestTurns, SettledTurns DEF AtRest
<1>4. AtAuth => AtAuth'
  <2>1. ASSUME AtAuth PROVE call.n \notin made'
    <3>1. srv.mode # "edit" \/ c2s = <<>>
      BY <2>1 DEF AtAuth, Asked, Refusal, Greeted
    <3>2. made' = made
      BY <1>1, <3>1 DEF Turn, Hush, Reacts, Drives, Hears, Same
    <3> QED
      BY <2>1, <3>2 DEF AtAuth
  <2> QED
    BY <1>1, <2>1, AuthTurns
<1>5. /\ AtResponse => AtResponse'
      /\ AtBody => AtBody'
      /\ AtTail => AtTail'
      /\ Silent({"reply", "aborted"}) => Silent({"reply", "aborted"})'
      /\ Silent({"aborted"}) => Silent({"aborted"})'
      /\ Silent({"reply"}) => Silent({"reply"})'
  BY <1>1, Lull DEF Hush, AtResponse, Greeted, Follows, AtBody, AtTail, Silent
<1>6. Reporting => Reporting'
  BY <1>1, ReportingTurns
<1>7. /\ AtFinishAuth => AtFinishAuth'
      /\ Driven(Pending) => Driven(Pending)'
      /\ AtFail => AtFail'
      /\ AtDrain => AtDrain'
      /\ AtDrained => AtDrained'
      /\ AtOuter => AtOuter'
      /\ AtBad => AtBad'
  BY <1>1, FinishAuthTurns, DrivenTurns, FailTurns, DrainTurns, DrainedTurns, OuterTurns, BadTurns
<1>8. \A sent \in Sent : \A r : Answered(sent, r) => Answered(sent, r)'
  BY <1>1, AnsweredTurns
<1>9. "none" \in Sent /\ "close-edit" \in Sent /\ "abort-edit" \in Sent
  BY DEF Sent
<1>10. OpenCommit => OpenCommit'
  BY <1>1, <1>8, <1>9 DEF OpenCommit
<1>11. AtEarly => AtEarly'
  BY <1>1, <1>8, <1>9 DEF AtEarly
<1>12. AtAbandoned => AtAbandoned'
  BY <1>1, <1>8, <1>9, RefusedTurns DEF AtAbandoned
<1>13. AtFinish => AtFinish'
  BY <1>1, <1>8, <1>9 DEF AtFinish, Words
<1>14. AtAbortEdit => AtAbortEdit'
  <2>1. \A sent \in Sent : Unread(sent) => Unread(sent)'
    BY <1>1, UnreadTurns
  <2> QED
    BY <1>1, <1>8, <1>9, <2>1 DEF AtAbortEdit
<1>15. \A p : AtInfo(p) => srv'.mode = srv.mode /\ c2s' = c2s /\ made' = made /\ Pending' = Pending
  BY <1>1, Lull DEF AtInfo, Granted, Hush
<1>16. /\ AtInfo(<<"auth", "info">>) => AtInfo(<<"auth", "info">>)'
       /\ AtInfo(<<"info">>) => AtInfo(<<"info">>)'
  BY <1>1, <1>15 DEF AtInfo, Granted
<1>17. Dead => Dead'
  BY <1>1 DEF Dead
<1>18. Wire'
  BY <1>1, <1>3, <1>4, <1>5, <1>6, <1>7, <1>10, <1>11, <1>12, <1>13, <1>14, <1>16, <1>17 DEF Wire
<1> QED
  BY <1>2, <1>18

-----------------------------------------------------------------------------
(***************************************************************************)
(* Types.                                                                  *)
(***************************************************************************)
Stream == /\ c2s \in Seq([what : Requests, call : Calls])
          /\ s2c \in Seq(Replies)

LEMMA NormalizeTyped ==
  ASSUME NEW o \in Outcomes
  PROVE  Normalize(o) \in Outcomes
BY DEF Normalize, Outcomes

LEMMA ReturnTyped ==
  ASSUME Typed, NEW o \in Outcomes, Return(o)
  PROVE  told' \subseteq [call : Calls, as : Outcomes] /\ outcome' \in Outcomes /\ call' \in Calls
<1>1. outcome' = "none" /\ call' = call /\ told' = told \cup {[call |-> call, as |-> Normalize(o)]}
  BY DEF Return
<1>2. [call |-> call, as |-> Normalize(o)] \in [call : Calls, as : Outcomes]
  BY NormalizeTyped DEF Typed
<1> QED
  BY <1>1, <1>2 DEF Typed, Outcomes

LEMMA GoTyped ==
  ASSUME Typed, NEW p, Go(p)
  PROVE  told' \subseteq [call : Calls, as : Outcomes] /\ outcome' \in Outcomes /\ call' \in Calls
BY DEF Typed, Go, history

LEMMA StreamTyped ==
  ASSUME Typed
  PROVE  /\ \A w \in Replies : Receive(w) => Stream'
         /\ \A w \in Requests : Send(w) => Stream'
         /\ SendFails => Stream'
         /\ Quiet => Stream'
<1>1. ASSUME NEW w \in Replies, Receive(w) PROVE Stream'
  BY <1>1, HeadTailProperties DEF Receive, Read, Stream, Typed
<1>2. ASSUME NEW w \in Requests, Send(w) PROVE Stream'
  <2>1. Request(w) \in [what : Requests, call : Calls]
    BY DEF Request, Typed
  <2> QED
    BY <1>2, <2>1, AppendProperties DEF Send, Write, Stream, Typed
<1>3. SendFails => Stream'
  BY DEF SendFails, WriteFails, Stream, Typed
<1>4. Quiet => Stream'
  BY DEF Quiet, Stream, Typed
<1> QED
  BY <1>1, <1>2, <1>3, <1>4

\* What every step of the call's own goroutine and its editor's leaves alone,
\* and what it may do to the stream.
Asking ==
  /\ srv' = srv /\ made' = made /\ call' = call
  /\ \/ c2s' = c2s
     \/ \E w \in Requests : c2s' = Append(c2s, Request(w))

LEMMA AskingStream ==
  /\ \A w : Receive(w) => srv' = srv /\ made' = made /\ c2s' = c2s /\ jammed' = jammed /\ cut' = cut
  /\ \A w : Send(w) => srv' = srv /\ made' = made /\ c2s' = Append(c2s, Request(w))
                       /\ s2c' = s2c /\ Pending' = Pending /\ ~cut /\ ~jammed /\ jammed' = jammed
  /\ SendFails => srv' = srv /\ made' = made /\ c2s' = c2s /\ jammed' /\ Dead' /\ Pending' = Pending
  /\ Quiet => srv' = srv /\ made' = made /\ c2s' = c2s /\ s2c' = s2c /\ Pending' = Pending
              /\ jammed' = jammed /\ cut' = cut
BY DEF Receive, Send, SendFails, Quiet, server, Write, WriteFails, Pending, Dead

\* The client's share of a typed state.
Shared == /\ told \subseteq [call : Calls, as : Outcomes]
          /\ outcome \in Outcomes /\ call \in Calls
          /\ response \in {"none", "waiting", "ok", "failed", "malformed", "io"}
          /\ written \in {"none", "writing", "ok", "io"}
          /\ word \in {"close-edit", "abort-edit"}

LEMMA EndTyped ==
  ASSUME Typed, NEW o \in Outcomes, End(o), UNCHANGED <<response, written, word>>
  PROVE  Shared'
BY ReturnTyped DEF End, Shared, Typed

LEMMA StepTyped ==
  ASSUME Typed, NEW p, Step(p) \/ Leave(p) \/ Enter(p) \/ Go(p),
         UNCHANGED <<response, written, word>>
  PROVE  Shared'
BY GoTyped DEF Step, Leave, Enter, Shared, Typed

LEMMA AnswersTyped ==
  /\ \A w \in Replies : Response(w) \in Outcomes
  /\ {"ok", "failed", "malformed", "io", "ctx", "handler", "editor", "aborted"} \subseteq Outcomes
  /\ {"command", "send", "finish-report", "abort-report", "close-edit", "abort-edit",
      "ok", "failed"} \subseteq Requests
BY DEF Response, Outcomes, Requests

LEMMA SimpleTyped ==
  ASSUME Typed,
         WriteCommand \/ Authenticate \/ ReadResponse \/ ReadBody \/ ReadTail \/ ReadError
  PROVE  Stream' /\ Shared' /\ server' = server
<1> USE StreamTyped, AnswersTyped DEF server
<1>1. CASE WriteCommand
  BY <1>1, EndTyped, StepTyped DEF WriteCommand, editor, Send, SendFails
<1>2. CASE Authenticate
  <2>1. PICK w \in Replies :
          /\ Receive(w)
          /\ \/ editor' = editor /\ (Step("response") \/ Step("body"))
             \/ Open("none")
             \/ editor' = editor /\ End(IF w = "failed" THEN w ELSE "malformed")
    BY <1>2 DEF Authenticate
  <2>2. CASE editor' = editor /\ (Step("response") \/ Step("body"))
    BY <2>1, <2>2, StepTyped DEF editor, Receive
  <2>3. CASE Open("none")
    BY <2>1, <2>3, GoTyped DEF Open, Leave, Shared, Typed, Receive
  <2>4. CASE editor' = editor /\ End(IF w = "failed" THEN w ELSE "malformed")
    BY <2>1, <2>4, EndTyped DEF editor, Receive
  <2> QED
    BY <2>1, <2>2, <2>3, <2>4
<1>3. CASE ReadResponse
  <2>1. PICK w \in Replies :
          /\ Receive(w)
          /\ \/ Open("waiting")
             \/ editor' = editor /\ (Step("body") \/ End(Response(w)))
    BY <1>3 DEF ReadResponse
  <2>2. CASE Open("waiting")
    BY <2>1, <2>2, GoTyped DEF Open, Leave, Shared, Typed, Receive
  <2>3. CASE editor' = editor /\ (Step("body") \/ End(Response(w)))
    BY <2>1, <2>3, EndTyped, StepTyped DEF editor, Receive
  <2> QED
    BY <2>1, <2>2, <2>3
<1>4. CASE ReadBody
  BY <1>4, EndTyped, StepTyped DEF ReadBody, editor, Receive
<1>5. CASE ReadTail
  BY <1>5, EndTyped, StepTyped DEF ReadTail, editor, Receive
<1>6. CASE ReadError
  BY <1>6, EndTyped DEF ReadError, editor, Quiet
<1> QED
  BY <1>1, <1>2, <1>3, <1>4, <1>5, <1>6

LEMMA ReportTyped ==
  ASSUME Typed,
         \/ ReporterSend \/ WriteSend \/ FinishReport \/ AbortReport \/ WriteAbortReport
         \/ WriteFinishReport \/ AuthenticateFinish \/ DriveEditor \/ WriteFailure
         \/ DrainEditor \/ WriteAccepted \/ ReadOuter
  PROVE  Stream' /\ Shared' /\ server' = server
<1> USE StreamTyped, AnswersTyped DEF server
<1>1. CASE ReporterSend
  BY <1>1, StepTyped DEF ReporterSend, Idle, editor, Quiet
<1>2. CASE WriteSend
  BY <1>2, StepTyped DEF WriteSend, editor, Send, SendFails
<1>3. ASSUME NEW from, NEW next, CloseReport(from, next) PROVE Stream' /\ Shared' /\ server' = server
  BY <1>3, StepTyped, ReturnTyped DEF CloseReport, Quiet, Shared, Typed
<1>4. CASE WriteAbortReport \/ WriteFinishReport
  BY <1>4, EndTyped, StepTyped DEF WriteAbortReport, WriteFinishReport, editor, Send, SendFails
<1>5. CASE AuthenticateFinish
  BY <1>5, EndTyped, StepTyped DEF AuthenticateFinish, editor, Receive
<1>6. CASE DriveEditor \/ DrainEditor
  BY <1>6, StepTyped DEF DriveEditor, DrainEditor, editor, Receive
<1>7. CASE WriteFailure \/ WriteAccepted
  BY <1>7, StepTyped DEF WriteFailure, WriteAccepted, editor, Send, SendFails
<1>8. CASE ReadOuter
  BY <1>8, EndTyped DEF ReadOuter, editor, Receive
<1> QED
  BY <1>1, <1>2, <1>3, <1>4, <1>5, <1>6, <1>7, <1>8 DEF FinishReport, AbortReport

LEMMA CommitTyped ==
  ASSUME Typed,
         \/ CommitSend \/ WriteEarlyAbort \/ CloseEdit \/ AbortEdit \/ Finish
         \/ WriteAbortEdit \/ AuthenticateInfo \/ ReadInfo
  PROVE  Stream' /\ Shared' /\ server' = server
<1> USE StreamTyped, AnswersTyped DEF server
<1>1. CASE CommitSend
  <2>1. response \in Outcomes \cup {"waiting"}
    BY DEF Typed, Outcomes
  <2> QED
    BY <1>1, <2>1, StepTyped DEF CommitSend, editor, Quiet, Shared, Typed, history
<1>2. CASE WriteEarlyAbort
  BY <1>2, StepTyped DEF WriteEarlyAbort, editor, Send, SendFails
<1>3. ASSUME NEW w \in Words, StartFinish(w), Quiet PROVE Stream' /\ Shared' /\ server' = server
  BY <1>3, GoTyped DEF StartFinish, Enter, Shared, Typed, Quiet, Words
<1>4. CASE CloseEdit
  BY <1>3, <1>4 DEF CloseEdit, Disown, Words, Quiet, Shared, Typed, history
<1>5. CASE AbortEdit
  BY <1>3, <1>5, ReturnTyped DEF AbortEdit, Disown, Words, editor, Quiet, Shared, Typed
<1>6. CASE Finish
  <2> DEFINE o == IF response # "ok" THEN response ELSE written
  <2>1. o \in Outcomes /\ (IF o = "ok" THEN "aborted" ELSE o) \in Outcomes
    BY <1>6 DEF Finish, Typed, Outcomes
  <2>2. /\ Quiet /\ response' = "none" /\ written' = "none" /\ word' = word
        /\ \/ End(IF o = "ok" THEN "aborted" ELSE o)
           \/ Leave("info-auth")
           \/ outcome' = o /\ UNCHANGED <<call, history>>
    BY <1>6 DEF Finish
  <2> HIDE DEF o
  <2> QED
    BY <2>1, <2>2, ReturnTyped, GoTyped DEF End, Leave, Quiet, Shared, Typed, history
<1>7. CASE WriteAbortEdit
  BY <1>7, EndTyped DEF WriteAbortEdit, editor, Send, SendFails, Typed
<1>8. CASE AuthenticateInfo \/ ReadInfo
  BY <1>8, EndTyped, StepTyped DEF AuthenticateInfo, ReadInfo, editor, Receive
<1> QED
  BY <1>1, <1>2, <1>4, <1>5, <1>6, <1>7, <1>8

LEMMA RestTyped ==
  ASSUME Typed,
         \/ \E kind \in Kinds, ctxKind \in CtxKinds : Begin(kind, ctxKind)
         \/ Lock \/ AwaitResponse \/ WriteWord \/ Cancel \/ Interrupt \/ Lose
  PROVE  Stream' /\ Shared' /\ server' = server
<1> USE StreamTyped, AnswersTyped DEF server
<1>1. ASSUME NEW kind \in Kinds, NEW ctxKind, Begin(kind, ctxKind)
      PROVE  Stream' /\ Shared' /\ server' = server
  BY <1>1, SessionAssumption DEF Begin, Quiet, editor, history, Calls, Shared, Typed
<1>2. CASE Lock
  BY <1>2, ReturnTyped, GoTyped DEF Lock, Quiet, editor, Shared, Typed
<1>3. CASE AwaitResponse
  <2>1. PICK answer \in {"ok", "failed", "malformed", "io"} :
          /\ Quiet \/ \E w \in Replies : Receive(w)
          /\ response' \in {response, answer}
    BY <1>3 DEF AwaitResponse
  <2> QED
    BY <1>3, <2>1 DEF AwaitResponse, Elsewhere, Quiet, Receive, history, Shared, Typed
<1>4. CASE WriteWord
  BY <1>4 DEF WriteWord, Elsewhere, Send, SendFails, history, Shared, Typed
<1>5. CASE Cancel \/ Interrupt \/ Lose
  BY <1>5 DEF Cancel, Interrupt, Lose, stream, editor, history, server, Stream, Shared, Typed
<1> QED
  BY <1>1, <1>2, <1>3, <1>4, <1>5

LEMMA ServerTyped ==
  ASSUME Typed, Server
  PROVE  Typed'
<1>1. UNCHANGED <<call, told, outcome, response, written, word>>
  BY ServerFrame DEF editor, history
<1>2. Turn
  BY ServerTurn
<1>3. srv.call.n \in Nat
  BY DEF Typed, Calls
<1>4. made' \subseteq Nat
  BY <1>2, <1>3 DEF Turn, Hush, Drives, Reacts, Same, Typed
<1>5. c2s' \in Seq([what : Requests, call : Calls])
  <2>1. c2s' = c2s \/ (c2s # <<>> /\ c2s' = Tail(c2s))
    BY <1>2 DEF Turn, Hush, Drives, Reacts, Hears
  <2>2. c2s \in Line
    BY DEF Typed, Line
  <2>3. c2s # <<>> => Tail(c2s) \in Line
    BY <2>2, HeadTailProperties DEF Line
  <2> QED
    BY <2>1, <2>2, <2>3 DEF Line
<1>6. /\ s2c' \in Seq(Replies)
      /\ srv' \in [mode : Modes, call : Calls, out : Seq(Replies), left : Nat]
  <2> USE SayingsTyped DEF Typed
  <2>1. CASE SrvSend
    BY <2>1, HeadTailProperties, AppendProperties DEF SrvSend
  <2>2. ASSUME NEW mode \in Modes, NEW out \in Seq(Replies), SrvGoes(mode, out), s2c' = s2c
        PROVE  /\ s2c' \in Seq(Replies)
               /\ srv' \in [mode : Modes, call : Calls, out : Seq(Replies), left : Nat]
    BY <2>2 DEF SrvGoes
  <2>3. {"ready", "report", "drive", "reply", "aborted", "edit", "flush"} \subseteq Modes
        /\ <<>> \in Seq(Replies)
    BY DEF Modes
  <2>4. CASE SrvCommand
    <3>1. ASSUME SrvRead("ready", "command"), NEW answer \in Answers(Head(c2s).call.kind),
                 srv' = [mode |-> Mode(Head(c2s).call.kind, answer),
                         call |-> Head(c2s).call, out |-> answer, left |-> MaxItems]
          PROVE  srv' \in [mode : Modes, call : Calls, out : Seq(Replies), left : Nat]
      <4>1. Head(c2s) \in [what : Requests, call : Calls]
        BY <3>1, HeadTailProperties DEF SrvRead
      <4>2. Head(c2s).call \in Calls /\ Head(c2s).call.kind \in CallKinds
        BY <4>1 DEF Calls
      <4> QED
        BY <3>1, <4>2, AnswerShape, SessionAssumption DEF Modes
    <3> QED
      BY <2>2, <2>3, <2>4, <3>1 DEF SrvCommand, SrvRead
  <2>5. CASE SrvReport \/ SrvReply
    BY <2>2, <2>3, <2>5 DEF SrvReport, SrvReply, SrvRead
  <2>6. CASE SrvEdit
    BY <2>2, <2>3, <2>6 DEF SrvEdit, SrvRead
  <2>7. CASE SrvDrive
    <3>1. CASE srv.left > 0 /\ srv' = [srv EXCEPT !.left = @ - 1, !.out = <<"edit">>] /\ s2c' = s2c
      <4>1. srv.left - 1 \in Nat
        BY <3>1
      <4> QED
        BY <3>1, <4>1
    <3> QED
      BY <2>2, <2>3, <2>7, <3>1 DEF SrvDrive, SrvRead
  <2> QED
    BY <2>1, <2>4, <2>5, <2>6, <2>7 DEF Server
<1> QED
  BY <1>1, <1>4, <1>5, <1>6 DEF Typed

\* A step keeps the types.
LEMMA TypedStep ==
  ASSUME Typed, Next
  PROVE  Typed'
<1>1. ASSUME Stream', Shared', server' = server PROVE Typed'
  BY <1>1 DEF Stream, Shared, server, Typed
<1>2. CASE Server
  BY <1>2, ServerTyped
<1> QED
  BY <1>1, <1>2, SimpleTyped, ReportTyped, CommitTyped, RestTyped DEF Next, Call

-----------------------------------------------------------------------------
(***************************************************************************)
(* The call's goroutine.                                                   *)
(***************************************************************************)
Good == StaysInStep /\ (torn = "no" => Straight)

\* The call takes w off what is pending.
Takes(w) ==
  /\ Pending # <<>> /\ Head(Pending) = w /\ Pending' = Tail(Pending)
  /\ UNCHANGED <<c2s, cut, jammed, srv, made>>

LEMMA Receives ==
  ASSUME Typed, NEW w \in Replies, Receive(w)
  PROVE  Takes(w)
BY Taken DEF Receive, Takes, server

\* The call asks for w.
Puts(w) ==
  /\ c2s' = Append(c2s, Request(w)) /\ Pending' = Pending
  /\ UNCHANGED <<cut, jammed, srv, made>>

LEMMA Sends ==
  ASSUME NEW w, Send(w)
  PROVE  Puts(w)
BY DEF Send, Write, Puts, Pending, server

LEMMA PutsAsks ==
  ASSUME Typed, NEW w \in Requests, NEW S, Puts(w)
  PROVE  /\ Asks(c2s, S) => AsksLast(c2s', S, w) /\ (w \in S => Asks(c2s', S))
         /\ c2s = <<>> => AsksLast(c2s', S, w) /\ (w \in S => Asks(c2s', S))
         /\ c2s' # <<>>
<1>1. c2s \in Line /\ Request(w) \in [what : Requests, call : Calls]
  BY DEF Typed, Line, Request
<1>2. Request(w).what = w
  BY DEF Request
<1>3. c2s = <<>> => Asks(c2s, S)
  BY DEF Asks
<1>4. c2s' # <<>>
  BY <1>1, AppendProperties DEF Puts, Line
<1> QED
  BY <1>1, <1>2, <1>3, <1>4, AsksGrows DEF Puts

\* Nothing happens on the stream, or a write fails on it.
Rests == UNCHANGED <<c2s, srv, made, Pending>> /\ (cut => cut') /\ (jammed => jammed')

LEMMA Stands ==
  /\ Quiet => Rests /\ UNCHANGED <<cut, jammed>>
  /\ SendFails => Rests /\ jammed'
BY SMTT(60) DEF Quiet, SendFails, WriteFails, Rests, Pending, server

LEMMA RestInStep ==
  ASSUME Typed
  PROVE  /\ AtRest => InStep
         /\ InStep => Pending = <<>> /\ ~stray
<1>1. s2c \in Seq(Replies) /\ srv.out \in Seq(Replies)
  BY DEF Typed
<1>2. ASSUME Pending = <<>> PROVE s2c = <<>> /\ srv.out = <<>>
  <2>1. s2c = <<>>
    BY <1>1, <1>2, ConcatTail DEF Pending
  <2> QED
    BY <1>1, <1>2, <2>1 DEF Pending
<1>3. Pending = <<>> <=> s2c = <<>> /\ srv.out = <<>>
  BY <1>2 DEF Pending
<1> QED
  BY <1>3 DEF AtRest, InStep, Settled, AsksLast

LEMMA AskingKeeps ==
  ASSUME Typed, Numbered, TrueTold, Asking, pc # "idle"
  PROVE  /\ told' = told => Numbered' /\ TrueTold'
         /\ pc' = "idle" /\ (\A t \in told' : t.call.n <= call.n) => Numbered'
         /\ \A t \in told : Over(t.call.n) => Over(t.call.n)'
<1>1. c2s \in Line /\ call' = call /\ srv' = srv /\ made' = made
  BY DEF Typed, Line, Asking
<1>2. \A i \in 1 .. Len(c2s') :
        (c2s'[i].call = call) \/ (i \in 1 .. Len(c2s) /\ c2s'[i] = c2s[i])
  <2>1. CASE c2s' = c2s
    BY <2>1
  <2>2. ASSUME NEW w \in Requests, c2s' = Append(c2s, Request(w)), NEW i \in 1 .. Len(c2s')
        PROVE  (c2s'[i].call = call) \/ (i \in 1 .. Len(c2s) /\ c2s'[i] = c2s[i])
    <3>1. Request(w) \in [what : Requests, call : Calls] /\ Request(w).call = call
      BY DEF Request, Typed
    <3> QED
      BY <1>1, <2>2, <3>1, AppendProperties, LenProperties DEF Line
  <2> QED
    BY <2>1, <2>2 DEF Asking
<1>3. call.n <= call.n
  BY DEF Typed, Calls
<1>4. \A t \in told : t.call.n # call.n
  BY DEF Numbered
<1>5. \A t \in told : Over(t.call.n) => Over(t.call.n)'
  BY <1>1, <1>2, <1>4 DEF Over
<1>6. told' = told => Numbered'
  BY <1>1, <1>2, <1>3, <1>4 DEF Numbered
<1>7. pc' = "idle" /\ (\A t \in told' : t.call.n <= call.n) => Numbered'
  BY <1>1, <1>2, <1>3 DEF Numbered
<1>8. told' = told => TrueTold'
  BY <1>1, <1>5 DEF TrueTold
<1> QED
  BY <1>5, <1>6, <1>7, <1>8

\* A step within the call.
LEMMA GoesOn ==
  ASSUME Typed, torn = "no", Straight, Asking, pc # "idle", UNCHANGED history, Place', Wire'
  PROVE  Good'
BY AskingKeeps DEF history, Straight, Good, StaysInStep

\* The call is over: what it tells is true, and a session that looks in step
\* has nothing left in it.
LEMMA Returns ==
  ASSUME Typed, Typed', torn = "no", Straight, Asking, pc # "idle", NEW o \in Outcomes, Return(o),
         o \notin {"ctx", "handler", "io"} => (AtRest \/ Dead)',
         InStep' => (AtRest \/ Dead)',
         o \in {"failed", "aborted"} => Over(call.n)',
         o = "ok" /\ call.kind = "commit" => call.n \in made,
         response' = "none", written' = "none"
  PROVE  Good'
<1> DEFINE r == [call |-> call, as |-> Normalize(o)]
<1>1. /\ pc' = "idle" /\ told' = told \cup {r} /\ call' = call
      /\ torn' = IF ~(InStep \/ Dead)' THEN Normalize(o) ELSE "no"
  BY DEF Return
<1>2. Normalize(o) \in {o, "ctx"}
  BY DEF Normalize
<1>3. AtRest' => InStep'
  BY RestInStep, PTL
<1>4. StaysInStep'
  BY <1>1, <1>2, <1>3 DEF StaysInStep
<1>5. ASSUME torn' = "no" PROVE Straight'
  <2>1. o # "no"
    BY DEF Outcomes
  <2>2. (AtRest \/ Dead)'
    BY <1>1, <1>2, <1>5, <2>1
  <2>3. Place' /\ Wire'
    BY <1>1, <2>2 DEF Place, Waits, Wire, Outside, Simple, OfReport, OfCommit, OfBoth, AtRest
  <2>4. r.call = call /\ r.as \in {o, "ctx"} /\ call.n <= call.n
    BY <1>2 DEF Typed, Calls
  <2>5. Numbered'
    <3>1. \A t \in told' : t.call.n <= call.n
      BY <1>1, <2>4 DEF Straight, Numbered
    <3> QED
      BY <1>1, <3>1, AskingKeeps DEF Straight
  <2>6. \A t \in told : Over(t.call.n) => Over(t.call.n)'
    BY AskingKeeps DEF Straight
  <2>7. TrueTold'
    BY <1>1, <2>4, <2>6 DEF Straight, TrueTold, Asking
  <2> QED
    BY <2>3, <2>5, <2>7 DEF Straight
<1> QED
  BY <1>4, <1>5 DEF Good

LEMMA AsksBehind ==
  ASSUME NEW q \in Line, NEW S, NEW w, AsksLast(q, S, w),
         NEW r \in [what : Requests, call : Calls]
  PROVE  Behind(Append(q, r), S, w) /\ Append(q, r)[Len(Append(q, r))] = r
<1> DEFINE n == Len(q)
           a == Append(q, r)
<1>1. n \in Nat /\ n # 0 /\ q[n].what = w /\ \A i \in 1 .. n - 1 : q[i].what \in S
  BY EmptySeq, LenProperties DEF AsksLast, Line
<1>2. Len(a) = n + 1 /\ a[n + 1] = r /\ \A i \in 1 .. n : a[i] = q[i]
  BY AppendProperties DEF Line
<1> HIDE DEF n, a
<1>3. n + 1 > 1 /\ n + 1 - 1 = n /\ n + 1 - 2 = n - 1 /\ n \in 1 .. n
      /\ \A i \in 1 .. n - 1 : i \in 1 .. n
  BY <1>1
<1>4. Behind(a, S, w)
  BY <1>1, <1>2, <1>3 DEF Behind
<1> QED
  BY <1>2, <1>4 DEF a

LEMMA BeginGood ==
  ASSUME Typed, torn = "no", Straight, NEW kind \in Kinds, NEW ctxKind, Begin(kind, ctxKind)
  PROVE  Good'
<1>1. /\ pc = "idle" /\ pc' = "lock" /\ call' = [n |-> call.n + 1, kind |-> kind]
      /\ UNCHANGED <<c2s, s2c, srv, made, cut, jammed, told, torn, done, response, written, stray>>
  BY DEF Begin, Quiet, editor, history, server
<1>2. call.n \in Nat /\ call'.n = call.n + 1
  BY <1>1 DEF Typed, Calls
<1>3. \A m \in made : m < call'.n
  <2>1. \A m \in made : m \in Nat /\ m <= call.n
    BY DEF Typed, Straight, Numbered
  <2> QED
    BY <1>2, <2>1
<1>4. call'.n \notin made
  BY <1>2, <1>3 DEF Typed
<1>5. Place'
  BY <1>1 DEF Straight, Place, Waits, Outside, Simple, OfReport, OfCommit, OfBoth, Dead
<1>6. (Dead => Dead') /\ (AtRest => AtRest')
  BY <1>1 DEF Dead, AtRest, Pending, Settled
<1>7. Wire'
  BY <1>1, <1>4, <1>6 DEF Straight, Wire, OfBoth
<1>8. TrueTold'
  BY <1>1 DEF Straight, TrueTold, Over
<1>9. Numbered'
  <2>1. srv.call.n \in Nat /\ \A i \in 1 .. Len(c2s) : c2s[i].call.n \in Nat
    <3>1. \A i \in 1 .. Len(c2s) : c2s[i] \in [what : Requests, call : Calls]
      BY ElementOfSeq DEF Typed
    <3>2. srv.call \in Calls
      BY DEF Typed
    <3> QED
      BY <3>1, <3>2 DEF Calls
  <2>2. \A t \in told : t.call.n \in Nat
    BY DEF Typed, Calls
  <2>3. \A n \in Nat : n <= call.n => n <= call'.n /\ n # call'.n
    BY <1>2
  <2>4. \A m \in made : m <= call'.n
    BY <1>2, <1>3 DEF Typed
  <2> QED
    BY <1>1, <1>4, <2>1, <2>2, <2>3, <2>4 DEF Straight, Numbered
<1> QED
  BY <1>1, <1>5, <1>7, <1>8, <1>9 DEF Straight, Good, StaysInStep

LEMMA LockGood ==
  ASSUME Typed, Typed', torn = "no", Straight, Lock
  PROVE  Good'
<1>1. Quiet /\ UNCHANGED editor /\ pc = "lock" /\ Asking /\ Rests /\ UNCHANGED <<cut, jammed>>
  BY Stands DEF Lock, Asking, Quiet, Rests, Return, Go
<1>2. (Dead => Dead') /\ (AtRest => AtRest') /\ (Dead \/ (AtRest /\ call.n \notin made))
  BY <1>1 DEF Dead, AtRest, Pending, Settled, Straight, Wire, Rests, editor
<1>3. response' = "none" /\ written' = "none" /\ stray' = stray
  BY <1>1 DEF Straight, Place, Waits, OfBoth, editor
<1>4. CASE Return("ctx")
  BY <1>1, <1>2, <1>3, <1>4, Returns DEF Outcomes
<1>5. CASE Go("command")
  <2>1. Place'
    BY <1>1, <1>2, <1>3, <1>5 DEF Go, Straight, Place, Waits, Outside, Simple, OfReport, OfCommit, OfBoth
  <2>2. Wire'
    BY <1>1, <1>2, <1>5 DEF Go, Wire, OfBoth, Rests
  <2> QED
    BY <1>1, <1>5, <2>1, <2>2, GoesOn DEF Go
<1> QED
  BY <1>4, <1>5 DEF Lock

LEMMA WriteCommandGood ==
  ASSUME Typed, Typed', torn = "no", Straight, WriteCommand
  PROVE  Good'
<1>1. pc = "command" /\ UNCHANGED editor
  BY DEF WriteCommand
<1>2. response' = "none" /\ written' = "none" /\ stray' = stray /\ (stray => Dead)
      /\ (Dead \/ (AtRest /\ call.n \notin made))
  BY <1>1 DEF Straight, Wire, Place, Waits, OfBoth, editor
<1>3. CASE Send("command") /\ Step("auth")
  <2>1. Puts("command") /\ ~cut /\ ~jammed /\ "command" \in Requests
    BY <1>3, Sends DEF Send, Write, Requests
  <2>2. Asking /\ call' = call /\ pc' = "auth" /\ UNCHANGED history
    BY <1>3, <2>1 DEF Asking, Puts, Step, Go
  <2>3. AtRest /\ call.n \notin made
    BY <1>2, <2>1 DEF Dead
  <2>4. Asked'
    <3>1. c2s \in Line /\ Request("command") \in [what : Requests, call : Calls]
          /\ Request("command")' = Request("command")
      BY <2>1, <2>2 DEF Typed, Line, Request
    <3>2. Pending' = <<>> /\ srv' = srv /\ c2s' = Append(c2s, Request("command"))
      BY <2>1, <2>3 DEF Puts, AtRest
    <3>3. CASE srv.mode = "ready" /\ c2s = <<>>
      BY <3>1, <3>2, <3>3 DEF Asked
    <3>4. c2s' # <<>>
      BY <2>1, PutsAsks
    <3> QED
      BY <2>3, <3>1, <3>2, <3>3, <3>4, AsksBehind DEF AtRest, Settled, Asked
  <2>5. Place'
    BY <1>2, <2>1, <2>2 DEF Dead, Straight, Place, Waits, Outside, Simple, OfReport, OfCommit, OfBoth
  <2>6. AtAuth'
    BY <2>1, <2>2, <2>3, <2>4 DEF AtAuth, Puts
  <2>7. Wire'
    BY <2>2, <2>6 DEF Wire, OfBoth
  <2> QED
    BY <1>1, <2>2, <2>5, <2>7, GoesOn
<1>4. CASE SendFails /\ End("io")
  <2>1. Rests /\ Dead' /\ Asking /\ Return("io")
    BY <1>4, Stands DEF Dead, Asking, Rests, End, Return
  <2> QED
    BY <1>1, <1>2, <2>1, Returns DEF Outcomes
<1> QED
  BY <1>3, <1>4 DEF WriteCommand

LEMMA VerdictRead ==
  ASSUME NEW p, Verdict(p)
  PROVE  /\ p # <<>> /\ Tail(p) = <<>> /\ Head(p) \in {"ok", "failed"}
         /\ p = <<"failed">> <=> Head(p) = "failed"
<1>1. CASE p = <<"ok">>
  BY <1>1
<1>2. CASE p = <<"failed">>
  BY <1>2
<1> QED
  BY <1>1, <1>2 DEF Verdict

\* A call that has read its answer from a server that is ready returns.
LEMMA AnswerRead ==
  ASSUME Typed, Typed', torn = "no", Straight, pc # "idle", ~Waits, ~stray,
         NEW w, Takes(w), srv.mode = "ready", c2s = <<>>,
         NEW o \in Outcomes, End(o), UNCHANGED editor,
         o \notin {"ctx", "handler", "io"} => Tail(Pending) = <<>>,
         o \in {"failed", "aborted"} => call.n \notin made,
         o = "ok" /\ call.kind = "commit" => call.n \in made
  PROVE  Good'
<1>1. Asking /\ Return(o) /\ UNCHANGED <<srv, made, c2s, call, stray>>
  BY DEF Asking, Takes, End, Return, editor
<1>2. response' = "none" /\ written' = "none"
  BY DEF Straight, Place, editor
<1>3. Pending' = <<>> => AtRest'
  BY <1>1 DEF AtRest, Settled
<1>4. (InStep => Pending = <<>>)'
  BY RestInStep, PTL
<1>5. o \notin {"ctx", "handler", "io"} => Pending' = <<>>
  BY DEF Takes
<1>6. o \in {"failed", "aborted"} => Over(call.n)'
  BY <1>1 DEF Over
<1> QED
  BY <1>1, <1>2, <1>3, <1>4, <1>5, <1>6, Returns

\* A step of a call with no editor open.
LEMMA Moves ==
  ASSUME Typed, torn = "no", Straight, Asking, NEW p, Go(p), UNCHANGED editor,
         pc \in Simple \cup OfReport \cup {"info-auth", "info"},
         p \in Simple \cup OfReport \cup {"info-auth", "info"},
         p \in OfReport => call.kind = "report",
         p \in {"info-auth", "info"} => call.kind = "commit",
         Wire'
  PROVE  Good'
<1>1. pc # "idle" /\ pc' = p /\ UNCHANGED history /\ call' = call
  BY DEF Go, Simple, OfReport
<1>2. Place'
  BY <1>1 DEF Straight, Place, Waits, editor, Outside, Simple, OfReport, OfCommit, OfBoth
<1> QED
  BY <1>1, <1>2, GoesOn

LEMMA AuthenticateGood ==
  ASSUME Typed, Typed', torn = "no", Straight, Authenticate
  PROVE  Good'
<1>1. PICK w \in Replies :
        /\ Receive(w)
        /\ \/ /\ w = "auth" /\ UNCHANGED editor
              /\ \/ call.kind \in {"command", "file", "commit"} /\ Step("response")
                 \/ call.kind \in {"stream", "many"} /\ Step("body")
           \/ w = "auth" /\ call.kind = "report" /\ Open("none")
           \/ /\ w # "auth" /\ UNCHANGED editor
              /\ End(IF w = "failed" THEN w ELSE "malformed")
  BY DEF Authenticate
<1>2. Takes(w) /\ pc = "auth"
  BY <1>1, Receives DEF Authenticate
<1>3. ~Waits /\ ~stray /\ pc # "idle" /\ AtAuth
  BY <1>2 DEF Straight, Place, Wire, Waits, Outside, OfBoth
<1>4. call.n \notin made /\ (Refusal \/ (w = "auth" /\ Greeted(Tail(Pending))))
  BY <1>2, <1>3 DEF AtAuth, Asked, Takes
<1>5. CASE w = "auth"
  <2>1. Greeted(Pending') /\ UNCHANGED <<c2s, srv, made>>
    BY <1>2, <1>4, <1>5 DEF Refusal, Takes
  <2>2. CASE call.kind \in {"command", "file", "commit"} /\ Step("response") /\ UNCHANGED editor
    <3>1. Go("response") /\ call' = call /\ pc' = "response" /\ Asking
      BY <2>1, <2>2 DEF Step, Go, Asking
    <3>2. AtResponse'
      BY <1>4, <2>1, <2>2, <3>1 DEF AtResponse, Greeted
    <3>3. Wire'
      BY <3>1, <3>2 DEF Wire, OfBoth
    <3> QED
      BY <1>2, <2>2, <3>1, <3>3, Moves DEF Simple, OfReport
  <2>3. CASE call.kind \in {"stream", "many"} /\ Step("body") /\ UNCHANGED editor
    <3>1. Go("body") /\ call' = call /\ pc' = "body" /\ Asking
      BY <2>1, <2>3 DEF Step, Go, Asking
    <3>2. AtBody'
      BY <2>1, <2>3, <3>1 DEF AtBody, Greeted, Follows
    <3>3. Wire'
      BY <3>1, <3>2 DEF Wire, OfBoth
    <3> QED
      BY <1>2, <2>3, <3>1, <3>3, Moves DEF Simple, OfReport
  <2>4. CASE call.kind = "report" /\ Open("none")
    <3>1. /\ Go("open") /\ call' = call /\ pc' = "open" /\ Asking /\ UNCHANGED history
          /\ response' = "none" /\ UNCHANGED <<written, stray>>
      BY <2>1, <2>4 DEF Open, Leave, Go, Asking
    <3>2. Reporting'
      BY <2>1, <2>4, <3>1 DEF Reporting, Greeted, Follows, Asks
    <3>3. Wire'
      BY <2>4, <3>1, <3>2 DEF Wire, OfBoth
    <3>4. Place'
      BY <1>3, <2>4, <3>1 DEF Straight, Place, Waits, Outside, Simple, OfReport, OfCommit, OfBoth
    <3> QED
      BY <1>3, <3>1, <3>3, <3>4, GoesOn
  <2> QED
    BY <1>1, <1>5, <2>2, <2>3, <2>4
<1>6. CASE w # "auth"
  <2>1. w = "failed" /\ Tail(Pending) = <<>> /\ srv.mode = "ready" /\ c2s = <<>>
    BY SMTT(60), <1>2, <1>4, <1>6 DEF Refusal, Takes
  <2>2. End("failed") /\ UNCHANGED editor
    BY <1>1, <1>6, <2>1
  <2> QED
    BY <1>2, <1>3, <1>4, <2>1, <2>2, AnswerRead DEF Outcomes
<1> QED
  BY <1>5, <1>6

LEMMA ReadResponseGood ==
  ASSUME Typed, Typed', torn = "no", Straight, ReadResponse
  PROVE  Good'
<1>1. PICK w \in Replies :
        /\ Receive(w)
        /\ \/ w \in Successes /\ call.kind = "commit" /\ Open("waiting")
           \/ w \in Successes /\ call.kind = "file" /\ Step("body") /\ UNCHANGED editor
           \/ /\ w \notin Successes \/ call.kind = "command"
              /\ UNCHANGED editor /\ End(Response(w))
  BY DEF ReadResponse
<1>2. Takes(w) /\ pc = "response"
  BY <1>1, Receives DEF ReadResponse
<1>3. ~Waits /\ ~stray /\ pc # "idle" /\ AtResponse
  BY <1>2 DEF Straight, Place, Wire, Waits, Outside, OfBoth
<1>4. /\ c2s = <<>> /\ w = Head(Pending) /\ Pending' = Tail(Pending)
      /\ call.n \notin made /\ UNCHANGED <<c2s, srv, made>>
  BY <1>2, <1>3 DEF Takes, AtResponse, Greeted
<1>5. CASE w \in Successes /\ call.kind = "commit" /\ Open("waiting")
  <2>1. /\ Go("open") /\ call' = call /\ pc' = "open" /\ Asking /\ UNCHANGED history
        /\ response' = "waiting" /\ UNCHANGED <<written, stray>> /\ ~done'
    BY <1>4, <1>5 DEF Open, Leave, Go, Asking
  <2>2. srv.mode = "edit" /\ Pending' = <<>> /\ srv.call = call
    <3>1. Pending = <<"failed">> => Head(Pending) = "failed"
      OBVIOUS
    <3>2. Pending = <<"ok">> => Tail(Pending) = <<>>
      OBVIOUS
    <3>3. Pending = <<"ok">> /\ srv.mode = "edit" /\ srv.call = call
      BY <1>3, <1>4, <1>5, <3>1 DEF AtResponse, Greeted, Follows, Successes
    <3> QED
      BY <1>4, <3>2, <3>3
  <2>3. Editing("none")'
    BY <1>4, <2>1, <2>2 DEF Editing, Asks
  <2>4. OpenCommit'
    BY <1>3, <2>1, <2>3 DEF OpenCommit, Answered, Unread, Straight, Place
  <2>5. Wire'
    BY <1>5, <2>1, <2>4 DEF Wire, OfBoth
  <2>6. Place'
    BY <1>3, <1>5, <2>1 DEF Straight, Place, Waits, Outside, Simple, OfReport, OfCommit, OfBoth
  <2> QED
    BY <1>3, <2>1, <2>5, <2>6, GoesOn
<1>6. CASE w \in Successes /\ call.kind = "file" /\ Step("body") /\ UNCHANGED editor
  <2>1. Go("body") /\ call' = call /\ pc' = "body" /\ Asking
    BY <1>4, <1>6 DEF Step, Go, Asking
  <2>2. AtBody'
    BY <1>3, <1>4, <1>6, <2>1 DEF AtResponse, AtBody, Greeted, Follows, Successes
  <2>3. Wire'
    BY <2>1, <2>2 DEF Wire, OfBoth
  <2> QED
    BY <1>2, <1>6, <2>1, <2>3, Moves DEF Simple, OfReport
<1>7. CASE /\ w \notin Successes \/ call.kind = "command"
           /\ UNCHANGED editor /\ End(Response(w))
  <2>1. Tail(Pending) = <<>> /\ srv.mode = "ready"
    BY SMTT(60), <1>3, <1>4, <1>7 DEF AtResponse, Greeted, Follows, Verdict, Successes
  <2>2. Response(w) \in Outcomes /\ (Response(w) = "ok" => w \in Successes)
    BY DEF Response, Outcomes
  <2> QED
    BY <1>2, <1>3, <1>4, <1>7, <2>1, <2>2, AnswerRead
<1> QED
  BY <1>1, <1>5, <1>6, <1>7

LEMMA ReadBodyGood ==
  ASSUME Typed, Typed', torn = "no", Straight, ReadBody
  PROVE  Good'
<1>1. PICK w \in Replies :
        /\ Receive(w)
        /\ \/ w = "entry" /\ (Step("body") \/ Step("nested") \/ End("handler"))
           \/ w = "done" /\ Step("tail")
           \/ w \notin {"entry", "done"} /\ End("malformed")
  BY DEF ReadBody
<1>2. Takes(w) /\ pc = "body" /\ UNCHANGED editor
  BY <1>1, Receives DEF ReadBody
<1>3. ~Waits /\ ~stray /\ pc # "idle" /\ AtBody
  BY <1>2 DEF Straight, Place, Wire, Waits, Outside, OfBoth
<1>4. /\ (w = "entry" /\ Body(Pending')) \/ (w = "done" /\ Verdict(Pending'))
      /\ c2s = <<>> /\ srv.mode = "ready" /\ UNCHANGED <<c2s, srv, made>>
  BY <1>2, <1>3, PendingTyped, BodyTail DEF AtBody, Takes
<1>5. CASE w = "entry" /\ End("handler")
  BY <1>2, <1>3, <1>4, <1>5, AnswerRead DEF Outcomes
<1>6. ASSUME NEW p \in {"body", "nested", "tail"}, Step(p),
             \/ w = "entry" /\ p \in {"body", "nested"}
             \/ w = "done" /\ p = "tail"
      PROVE  Good'
  <2>1. Go(p) /\ call' = call /\ pc' = p /\ Asking
    BY <1>4, <1>6 DEF Step, Go, Asking
  <2>2. (w = "entry" => AtBody') /\ (w = "done" => AtTail')
    BY <1>3, <1>4, <2>1 DEF AtBody, AtTail
  <2>3. Wire'
    BY <1>6, <2>1, <2>2 DEF Wire, OfBoth
  <2> QED
    BY <1>2, <1>6, <2>1, <2>3, Moves DEF Simple, OfReport
<1> QED
  BY <1>1, <1>4, <1>5, <1>6

LEMMA ReadTailGood ==
  ASSUME Typed, Typed', torn = "no", Straight, ReadTail
  PROVE  Good'
<1>1. PICK w \in Replies : Receive(w) /\ (End(Response(w)) \/ End("handler"))
  BY DEF ReadTail
<1>2. Takes(w) /\ pc = "tail" /\ UNCHANGED editor
  BY <1>1, Receives DEF ReadTail
<1>3. ~Waits /\ ~stray /\ pc # "idle" /\ AtTail
  BY <1>2 DEF Straight, Place, Wire, Waits, Outside, OfBoth
<1>4. /\ Tail(Pending) = <<>> /\ c2s = <<>> /\ srv.mode = "ready"
      /\ call.kind # "commit" /\ call.n \notin made
  BY <1>3, VerdictRead DEF AtTail, Straight, Numbered
<1>5. Response(w) \in Outcomes /\ "handler" \in Outcomes
  BY DEF Response, Outcomes
<1> QED
  BY <1>1, <1>2, <1>3, <1>4, <1>5, AnswerRead

\* Where the call reads and a session looks in step, it is.
LEMMA Starved ==
  ASSUME Typed, Place, Wire, pc \in Reading, InStep
  PROVE  AtRest \/ Dead
<1>1. Pending = <<>> /\ ~stray
  BY RestInStep
<1>2. /\ srv.mode \in {"ready", "report", "flush"}
      /\ srv.mode = "ready" => c2s = <<>>
      /\ srv.mode = "report" => c2s # <<>> /\ c2s[Len(c2s)].what = "abort-report"
      /\ srv.mode = "flush" => c2s # <<>> /\ c2s[Len(c2s)].what = "abort-edit"
  BY DEF InStep
<1>3. pc # "auth"
  <2>1. Request("command").what = "command"
    BY DEF Request
  <2> QED
    BY <1>1, <1>2, <2>1 DEF Wire, AtAuth, Asked, Refusal
<1>4. \A p : Body(p) \/ Verdict(p) => p # <<>>
  BY VerdictRead DEF Body
<1>5. pc \notin {"response", "body", "tail"}
  BY <1>1, <1>4 DEF Wire, AtResponse, AtBody, AtTail, Greeted, Follows
<1>6. pc \notin {"finish-auth", "drive", "outer"}
  BY <1>1, <1>2, <1>4 DEF Wire, AtFinishAuth, Driven, EndsWith, AtOuter, AsksLast
<1>7. pc \notin {"info-auth", "info"}
  BY <1>1 DEF Wire, AtInfo
<1>8. CASE pc = "bad"
  BY <1>1, <1>2, <1>8 DEF Wire, AtBad, AsksLast, Refusal, Dead
<1>9. CASE pc = "drain"
  BY <1>1, <1>2, <1>9 DEF Wire, AtDrain, Failing, Hopeless, AtRest, Settled
<1> QED
  BY <1>3, <1>5, <1>6, <1>7, <1>8, <1>9 DEF Reading

LEMMA ReadErrorGood ==
  ASSUME Typed, Typed', torn = "no", Straight, ReadError
  PROVE  Good'
<1>1. /\ pc \in Reading /\ UNCHANGED editor /\ Return("io") /\ Asking
      /\ UNCHANGED <<c2s, s2c, srv, made, cut, jammed, stray>>
  BY DEF ReadError, End, Quiet, server, Asking, Return, editor
<1>2. pc # "idle" /\ response' = "none" /\ written' = "none"
  BY <1>1 DEF Reading, Straight, Place, Waits, OfBoth, editor
<1>3. InStep' => InStep
  BY <1>1 DEF InStep
<1>4. AtRest \/ Dead => (AtRest \/ Dead)'
  BY <1>1 DEF AtRest, Dead, Pending, Settled
<1>5. InStep' => (AtRest \/ Dead)'
  BY <1>1, <1>3, <1>4, Starved DEF Straight
<1> QED
  BY <1>1, <1>2, <1>5, Returns DEF Outcomes

-----------------------------------------------------------------------------
(***************************************************************************)
(* The reporter's calls.                                                   *)
(***************************************************************************)

\* The report stays open, or is about to be closed.
LEMMA Reports ==
  ASSUME Typed, torn = "no", Straight, Asking, call.kind = "report",
         pc \in OfBoth, NEW p \in OfBoth \cup {"finish-report", "abort-report"}, Go(p),
         UNCHANGED <<response, written, stray>>, Reporting'
  PROVE  Good'
<1>1. pc # "idle" /\ pc' = p /\ UNCHANGED history /\ call' = call
  BY DEF Go, OfBoth
<1>2. Place'
  BY <1>1 DEF Straight, Place, Waits, Outside, Simple, OfReport, OfCommit, OfBoth
<1>3. Wire'
  BY <1>1 DEF Wire, OfBoth
<1> QED
  BY <1>1, <1>2, <1>3, GoesOn

LEMMA ReporterSendGood ==
  ASSUME Typed, torn = "no", Straight, ReporterSend
  PROVE  Good'
<1>1. /\ pc = "open" /\ call.kind = "report" /\ (Go("abandon") \/ Go("send")) /\ Quiet
      /\ UNCHANGED <<response, written, stray>>
  BY DEF ReporterSend, Idle, Enter, editor
<1>2. Rests /\ Asking /\ Reporting
  BY <1>1, Stands DEF Rests, Asking, Go, Straight, Wire, OfBoth
<1>3. Reporting'
  BY <1>2 DEF Rests, Reporting
<1> QED
  BY <1>1, <1>2, <1>3, Reports DEF OfBoth

\* An edit that is open is still open when one more of its commands is sent.
LEMMA AnsweredSend ==
  ASSUME Typed, NEW r, Answered("none", r), Puts("send"), call' = call
  PROVE  Answered("none", r)'
<1>1. "send" \in Requests
  BY DEF Requests
<1>2. \A S : "send" \in S /\ Asks(c2s, S) => Asks(c2s', S)
  BY <1>1, PutsAsks
<1>3. ~Granted("none")
  BY DEF Granted
<1> QED
  BY <1>2, <1>3 DEF Answered, Unread, Editing, Refused, Puts

\* Nor does a step that leaves the stream alone change what is true of it.
LEMMA AnsweredRests ==
  ASSUME NEW sent, NEW r, Answered(sent, r), Rests, call' = call
  PROVE  Answered(sent, r)'
BY DEF Answered, Unread, Editing, Refused, Granted, Settled, Rests

LEMMA WriteSendGood ==
  ASSUME Typed, torn = "no", Straight, WriteSend
  PROVE  Good'
<1>1. /\ pc = "send" /\ UNCHANGED <<response, written, stray, done>>
      /\ (Send("send") /\ Go("open")) \/ (SendFails /\ Go("abandon"))
  BY DEF WriteSend, Leave, editor
<1>2. pc # "idle" /\ call' = call /\ UNCHANGED history /\ call.kind \in {"report", "commit"}
  BY <1>1 DEF Go, Straight, Place, OfBoth
<1>3. (Puts("send") /\ pc' = "open") \/ (Rests /\ pc' = "abandon")
  BY <1>1, Sends, Stands DEF Go
<1>4. Asking
  BY <1>2, <1>3 DEF Asking, Puts, Rests, Requests
<1>5. CASE call.kind = "report"
  <2>1. Reporting
    BY <1>1, <1>5 DEF Straight, Wire, OfBoth
  <2>2. "send" \in Requests
    BY DEF Requests
  <2>3. Puts("send") => Asks(c2s', {"send"})
    BY <2>1, <2>2, PutsAsks DEF Reporting
  <2>4. Reporting'
    BY <1>3, <2>1, <2>3 DEF Reporting, Puts, Rests
  <2> QED
    BY <1>1, <1>4, <1>5, <2>4, Reports DEF OfBoth
<1>6. CASE call.kind = "commit"
  <2>1. OpenCommit
    BY <1>1, <1>6 DEF Straight, Wire, OfBoth
  <2>2. Answered("none", response)'
    BY <1>1, <1>2, <1>3, <2>1, AnsweredSend, AnsweredRests DEF OpenCommit
  <2>3. OpenCommit'
    BY <1>1, <2>1, <2>2 DEF OpenCommit
  <2>4. Wire'
    BY <1>2, <1>3, <1>6, <2>3 DEF Wire, OfBoth
  <2>5. Place'
    BY <1>1, <1>2, <1>3, <1>6, <2>1
    DEF OpenCommit, Straight, Place, Waits, Outside, Simple, OfReport, OfCommit, OfBoth
  <2> QED
    BY <1>2, <1>4, <2>4, <2>5, GoesOn
<1> QED
  BY <1>2, <1>5, <1>6

LEMMA CloseReportGood ==
  ASSUME Typed, Typed', torn = "no", Straight, NEW from \in SUBSET OfBoth,
         NEW next \in {"finish-report", "abort-report"}, CloseReport(from, next)
  PROVE  Good'
<1>1. /\ pc \in from /\ call.kind = "report" /\ Quiet /\ UNCHANGED <<response, written, stray>>
      /\ Return("ctx") \/ Go(next)
  BY DEF CloseReport, Enter
<1>2. Rests /\ Asking /\ Reporting /\ pc \in OfBoth /\ pc # "idle"
  BY <1>1, Stands DEF Rests, Asking, Go, Return, Straight, Wire, OfBoth
<1>3. Reporting'
  BY <1>2 DEF Rests, Reporting
<1>4. CASE Return("ctx")
  <2>1. ~InStep'
    <3>1. c2s' # <<>> => Len(c2s') \in 1 .. Len(c2s')
      BY EmptySeq, LenProperties DEF Typed
    <3> QED
      BY <1>3, <3>1 DEF Reporting, InStep, Asks
  <2>2. response' = "none" /\ written' = "none"
    BY <1>1, <1>2 DEF Straight, Place, Waits, OfBoth
  <2> QED
    BY <1>2, <1>4, <2>1, <2>2, Returns DEF Outcomes
<1> QED
  BY <1>1, <1>2, <1>3, <1>4, Reports

LEMMA WriteAbortReportGood ==
  ASSUME Typed, Typed', torn = "no", Straight, WriteAbortReport
  PROVE  Good'
<1>1. pc = "abort-report" /\ UNCHANGED editor
  BY DEF WriteAbortReport
<1>2. /\ Reporting /\ call.kind = "report" /\ call.n \notin made /\ ~stray'
      /\ response' = "none" /\ written' = "none"
  BY <1>1 DEF Straight, Wire, Place, Waits, Numbered, OfBoth, OfReport, Outside, editor
<1>3. CASE Send("abort-report") /\ Return("aborted")
  <2>1. Puts("abort-report") /\ "abort-report" \in Requests
    BY <1>3, Sends DEF Requests
  <2>2. AsksLast(c2s', {"send"}, "abort-report")
    BY <1>2, <2>1, PutsAsks DEF Reporting
  <2>3. AtRest' /\ Asking
    BY <1>2, <1>3, <2>1, <2>2 DEF AtRest, Settled, Reporting, Puts, Asking, Return
  <2>4. Over(call.n)'
    <3>1. c2s' \in Line
      BY DEF Typed, Line
    <3>2. \A i \in 1 .. Len(c2s') : i \in 1 .. Len(c2s') - 1 \/ i = Len(c2s')
      BY <3>1, LenProperties DEF Line
    <3>3. \A i \in 1 .. Len(c2s') : c2s'[i].what # "command"
      BY <2>2, <3>2 DEF AsksLast
    <3> QED
      BY <1>2, <1>3, <2>1, <3>3 DEF Over, Puts, Reporting, Return
  <2> QED
    BY <1>1, <1>2, <1>3, <2>3, <2>4, Returns DEF Outcomes
<1>4. CASE SendFails /\ Return("io")
  <2>1. Rests /\ Dead' /\ Asking
    BY <1>4, Stands DEF Dead, Asking, Rests, Return
  <2> QED
    BY <1>1, <1>2, <1>4, <2>1, Returns DEF Outcomes
<1> QED
  BY <1>3, <1>4 DEF WriteAbortReport, End

LEMMA WriteFinishReportGood ==
  ASSUME Typed, Typed', torn = "no", Straight, WriteFinishReport
  PROVE  Good'
<1>1. pc = "finish-report" /\ UNCHANGED editor
  BY DEF WriteFinishReport
<1>2. /\ Reporting /\ call.kind = "report"
      /\ response' = "none" /\ written' = "none"
  BY <1>1 DEF Straight, Wire, Place, Waits, OfBoth, OfReport, editor
<1>3. CASE Send("finish-report") /\ Go("finish-auth")
  <2>1. Puts("finish-report") /\ "finish-report" \in Requests
    BY <1>3, Sends DEF Requests
  <2>2. AsksLast(c2s', {"send"}, "finish-report")
    BY <1>2, <2>1, PutsAsks DEF Reporting
  <2>3. AtFinishAuth' /\ Asking /\ pc' = "finish-auth"
    BY <1>2, <1>3, <2>1, <2>2 DEF AtFinishAuth, Reporting, Puts, Asking, Go
  <2>4. Wire'
    BY <2>3 DEF Wire, OfBoth
  <2> QED
    BY <1>1, <1>2, <1>3, <2>3, <2>4, Moves DEF OfReport
<1>4. CASE SendFails /\ Return("io")
  <2>1. Rests /\ Dead' /\ Asking
    BY <1>4, Stands DEF Dead, Asking, Rests, Return
  <2> QED
    BY <1>1, <1>2, <1>4, <2>1, Returns DEF Outcomes
<1> QED
  BY <1>3, <1>4 DEF WriteFinishReport, End, Step

\* What can be read of the edit the server drives.
LEMMA DrivenRead ==
  ASSUME Typed, NEW w, Takes(w), Driven(Pending)
  PROVE  /\ c2s = <<>>
         /\ \/ w = "edit" /\ Driven(Pending') /\ srv.mode # "ready"
            \/ w = "close-edit" /\ srv.mode = "reply" /\ Pending' = <<>>
            \/ w = "abort-edit" /\ srv.mode = "aborted" /\ Pending' = <<>>
            \/ w = "failed" /\ srv.mode = "ready" /\ Pending' = <<>>
<1>1. Pending \in Seq(Replies) /\ Pending # <<>> /\ w = Head(Pending) /\ Pending' = Tail(Pending)
  BY PendingTyped DEF Takes
<1>2. CASE srv.mode = "drive" /\ Only(Pending, {"edit"})
  BY <1>1, <1>2, OnlyTail DEF Driven
<1>3. CASE srv.mode = "reply" /\ EndsWith(Pending, {"edit"}, "close-edit")
  <2>1. \/ Tail(Pending) = <<>> /\ Head(Pending) = "close-edit"
        \/ Head(Pending) \in {"edit"} /\ EndsWith(Tail(Pending), {"edit"}, "close-edit")
    BY <1>1, <1>3, EndsWithTail
  <2> QED
    BY <1>1, <1>3, <2>1 DEF Driven
<1>4. CASE srv.mode = "aborted" /\ EndsWith(Pending, {"edit"}, "abort-edit")
  <2>1. \/ Tail(Pending) = <<>> /\ Head(Pending) = "abort-edit"
        \/ Head(Pending) \in {"edit"} /\ EndsWith(Tail(Pending), {"edit"}, "abort-edit")
    BY <1>1, <1>4, EndsWithTail
  <2> QED
    BY <1>1, <1>4, <2>1 DEF Driven
<1>5. CASE srv.mode = "ready" /\ Pending = <<"failed">>
  BY <1>1, <1>5 DEF Driven
<1> QED
  BY <1>2, <1>3, <1>4, <1>5 DEF Driven

LEMMA AuthenticateFinishGood ==
  ASSUME Typed, torn = "no", Straight, AuthenticateFinish
  PROVE  Good'
<1>1. PICK w \in Replies :
        /\ Receive(w)
        /\ \/ w = "auth" /\ Step("drive")
           \/ w # "auth" /\ End(IF w = "failed" THEN w ELSE "malformed")
  BY DEF AuthenticateFinish
<1>2. Takes(w) /\ pc = "finish-auth" /\ UNCHANGED editor
  BY <1>1, Receives DEF AuthenticateFinish
<1>3. AtFinishAuth /\ call.kind = "report"
  BY <1>2 DEF Straight, Wire, Place, OfReport
<1>4. w = "auth" /\ Driven(Pending')
  BY <1>2, <1>3 DEF AtFinishAuth, Takes
<1>5. Go("drive") /\ pc' = "drive" /\ Asking
  BY <1>1, <1>2, <1>4 DEF Step, Go, Asking, Takes
<1>6. Driven(Pending)'
  BY <1>2, <1>4 DEF Driven, Takes
<1>7. Wire'
  BY <1>5, <1>6 DEF Wire, OfBoth
<1> QED
  BY <1>2, <1>3, <1>5, <1>7, Moves DEF OfReport

LEMMA DriveEditorGood ==
  ASSUME Typed, torn = "no", Straight, DriveEditor
  PROVE  Good'
<1>1. PICK w \in Replies :
        /\ Receive(w)
        /\ \/ w = "edit" /\ Step("drive")
           \/ w \in {"close-edit", "abort-edit"} /\ Step("accept")
           \/ w = "close-edit" /\ Step("fail-close")
           \/ w = "abort-edit" /\ Step("accept-fail")
           \/ w \notin Shapeless \cup {"close-edit", "abort-edit"} /\ Step("fail")
           \/ w \in Shapeless /\ Step("bad")
  BY DEF DriveEditor
<1>2. Takes(w) /\ pc = "drive" /\ UNCHANGED editor
  BY <1>1, Receives DEF DriveEditor
<1>3. Driven(Pending) /\ call.kind = "report"
  BY <1>2 DEF Straight, Wire, Place, OfReport
<1>4. /\ c2s' = <<>> /\ srv' = srv
      /\ \/ w = "edit" /\ Driven(Pending') /\ srv.mode # "ready"
         \/ w = "close-edit" /\ srv.mode = "reply" /\ Pending' = <<>>
         \/ w = "abort-edit" /\ srv.mode = "aborted" /\ Pending' = <<>>
         \/ w = "failed" /\ srv.mode = "ready" /\ Pending' = <<>>
  BY <1>2, <1>3, DrivenRead DEF Takes
<1>5. PICK p \in {"drive", "accept", "fail-close", "accept-fail", "fail"} :
        /\ Step(p)
        /\ p = "drive" => w = "edit"
        /\ p = "accept" => w \in {"close-edit", "abort-edit"}
        /\ p = "fail-close" => w = "close-edit"
        /\ p = "accept-fail" => w = "abort-edit"
        /\ p = "fail" => w \in {"edit", "failed"}
  BY <1>1, <1>4 DEF Shapeless
<1>6. Go(p) /\ pc' = p /\ Asking
  BY <1>2, <1>5 DEF Step, Go, Asking, Takes
<1>7. w = "edit" => Driven(Pending)'
  BY <1>4 DEF Driven
<1>8. p = "fail" => AtFail'
  <2>1. Only(<<>>, {"edit", "close-edit", "ok", "failed"}) /\ Asks(<<>>, {"ok", "failed"})
    BY DEF Only, Asks
  <2> QED
    BY <1>4, <1>5, <1>7, <2>1 DEF AtFail, Hopeless
<1>9. /\ p = "accept" => Silent({"reply", "aborted"})'
      /\ p = "accept-fail" => Silent({"aborted"})'
      /\ p = "fail-close" => Silent({"reply"})'
  BY <1>4, <1>5 DEF Silent
<1>10. Wire'
  BY <1>5, <1>6, <1>7, <1>8, <1>9 DEF Wire, OfBoth
<1> QED
  BY <1>2, <1>3, <1>6, <1>10, Moves DEF OfReport

\* A report's write that fails leaves it with the answer to read, and no way
\* to ask again.
LEMMA Jams ==
  ASSUME Typed, torn = "no", Straight, pc \in OfReport, UNCHANGED editor, SendFails, Step("bad")
  PROVE  Good'
<1>1. Rests /\ jammed' /\ Go("bad") /\ pc' = "bad" /\ Asking
  BY Stands DEF Step, Go, Asking, Rests
<1>2. Wire'
  BY <1>1 DEF Wire, AtBad, OfBoth
<1>3. call.kind = "report"
  BY DEF Straight, Place
<1> QED
  BY <1>1, <1>2, <1>3, Moves DEF OfReport

LEMMA WriteFailureGood ==
  ASSUME Typed, torn = "no", Straight, WriteFailure
  PROVE  Good'
<1>1. pc \in {"fail", "fail-close"} /\ UNCHANGED editor /\ pc \in OfReport
  BY DEF WriteFailure, OfReport
<1>2. CASE Send("failed") /\ Step(IF pc = "fail" THEN "drain" ELSE "bad")
  <2> DEFINE p == IF pc = "fail" THEN "drain" ELSE "bad"
  <2>1. Puts("failed") /\ "failed" \in Requests /\ Go(p) /\ pc' = p /\ call.kind = "report"
    BY <1>1, <1>2, Sends DEF Requests, Step, Go, Straight, Place
  <2>2. Asking
    BY <2>1 DEF Asking, Puts, Go
  <2>3. c2s = <<>> => AsksLast(c2s', {}, "failed") /\ Asks(c2s', {"ok", "failed"})
    BY <2>1, PutsAsks
  <2>4. pc = "fail-close" => AtBad'
    BY <1>1, <2>1, <2>3 DEF Straight, Wire, Silent, AtBad, Puts
  <2>5. ASSUME pc = "fail" PROVE AtDrain'
    <3>1. AtFail
      BY <2>5 DEF Straight, Wire
    <3>2. CASE srv.mode = "drive" /\ Driven(Pending)
      BY <2>1, <2>3, <3>2 DEF Driven, AtDrain, Failing, Puts
    <3>3. CASE srv.mode = "aborted" /\ Driven(Pending)
      BY <2>1, <2>3, <3>3 DEF Driven, AtDrain, Failing, Puts
    <3>4. CASE srv.mode = "reply" /\ Driven(Pending)
      <4>1. EndsWith(Pending, {"edit"}, "close-edit") /\ Pending \in Seq(Replies)
        BY <3>4, PendingTyped DEF Driven
      <4>2. \A i \in 1 .. Len(Pending) : i \in 1 .. Len(Pending) - 1 \/ i = Len(Pending)
        BY <4>1, LenProperties
      <4>3. Only(Pending, {"edit", "close-edit", "ok", "failed"})
        BY <4>1, <4>2 DEF Only, EndsWith
      <4> QED
        BY <2>1, <2>3, <3>4, <4>3 DEF Driven, AtDrain, Hopeless, Puts
    <3>5. CASE Hopeless
      <4>1. Asks(c2s', {"ok", "failed"})
        BY <2>1, <3>5, PutsAsks DEF Hopeless
      <4>2. c2s # <<>> => Head(c2s') = Head(c2s) /\ c2s' # <<>>
        <5>1. c2s \in Line /\ Request("failed") \in [what : Requests, call : Calls]
          BY <2>1 DEF Typed, Line, Request
        <5> QED
          BY <2>1, <5>1, AppendProperties, EmptySeq, LenProperties DEF Puts, Line
      <4> QED
        BY <2>1, <3>5, <4>1, <4>2 DEF Hopeless, AtDrain, Puts
    <3> QED
      BY <3>1, <3>2, <3>3, <3>4, <3>5 DEF AtFail, Driven
  <2>6. Wire'
    BY <1>1, <2>1, <2>4, <2>5 DEF Wire, OfBoth
  <2> QED
    BY <1>1, <2>1, <2>2, <2>6, Moves DEF OfReport
<1> QED
  BY <1>1, <1>2, Jams DEF WriteFailure

\* What is drained of an edit that failed.
LEMMA DrainRead ==
  ASSUME Typed, NEW w, Takes(w), AtDrain
  PROVE  \/ w = "abort-edit" /\ AtDrained'
         \/ w \in {"edit", "close-edit", "ok", "failed"} /\ AtDrain'
<1>1. /\ Pending \in Seq(Replies) /\ Pending # <<>> /\ w = Head(Pending)
      /\ Pending' = Tail(Pending) /\ srv' = srv /\ c2s' = c2s
  BY PendingTyped DEF Takes
<1>2. CASE srv.mode = "drive" /\ AsksLast(c2s, {}, "failed") /\ Only(Pending, {"edit"})
  <2>1. w \in {"edit"} /\ Only(Tail(Pending), {"edit"})
    BY <1>1, <1>2, OnlyTail
  <2> QED
    BY <1>1, <1>2, <2>1 DEF AtDrain, Failing
<1>3. CASE /\ srv.mode = "aborted" /\ EndsWith(Pending, {"edit"}, "abort-edit")
           /\ c2s = <<>> \/ AsksLast(c2s, {}, "failed")
  <2>1. \/ Tail(Pending) = <<>> /\ Head(Pending) = "abort-edit"
        \/ Head(Pending) \in {"edit"} /\ EndsWith(Tail(Pending), {"edit"}, "abort-edit")
    BY <1>1, <1>3, EndsWithTail
  <2> QED
    BY <1>1, <1>3, <2>1 DEF AtDrain, AtDrained, Failing
<1>4. CASE Hopeless
  <2>1. Only(Pending, {"edit", "close-edit", "ok", "failed"})
    BY <1>4 DEF Hopeless
  <2>2. /\ w \in {"edit", "close-edit", "ok", "failed"}
        /\ Only(Tail(Pending), {"edit", "close-edit", "ok", "failed"})
    BY <1>1, <2>1, OnlyTail
  <2> QED
    BY <1>1, <1>4, <2>2 DEF AtDrain, Hopeless
<1> QED
  BY <1>2, <1>3, <1>4 DEF AtDrain, Failing

LEMMA DrainEditorGood ==
  ASSUME Typed, torn = "no", Straight, DrainEditor
  PROVE  Good'
<1>1. PICK w \in Replies :
        /\ Receive(w)
        /\ Step(IF w = "abort-edit" THEN "drained" ELSE IF w \in Shapeless THEN "bad" ELSE "drain")
  BY DEF DrainEditor
<1>2. Takes(w) /\ pc = "drain" /\ UNCHANGED editor
  BY <1>1, Receives DEF DrainEditor
<1>3. AtDrain /\ call.kind = "report"
  BY <1>2 DEF Straight, Wire, Place, OfReport
<1>4. \/ w = "abort-edit" /\ AtDrained'
      \/ w \in {"edit", "close-edit", "ok", "failed"} /\ AtDrain'
  BY <1>2, <1>3, DrainRead
<1>5. PICK p \in {"drained", "drain"} :
        Step(p) /\ (p = "drained" => AtDrained') /\ (p = "drain" => AtDrain')
  BY <1>1, <1>4 DEF Shapeless
<1>6. Go(p) /\ pc' = p /\ Asking
  BY <1>2, <1>5 DEF Step, Go, Asking, Takes
<1>7. Wire'
  BY <1>5, <1>6 DEF Wire, OfBoth
<1> QED
  BY <1>2, <1>3, <1>6, <1>7, Moves DEF OfReport

LEMMA WriteAcceptedGood ==
  ASSUME Typed, torn = "no", Straight, WriteAccepted
  PROVE  Good'
<1>1. pc \in {"accept", "accept-fail", "drained"} /\ UNCHANGED editor /\ pc \in OfReport
  BY DEF WriteAccepted, OfReport
<1>2. CASE Send("ok") /\ Step(CASE pc = "accept"      -> "outer"
                               [] pc = "accept-fail" -> "fail"
                               [] pc = "drained"     -> "bad")
  <2>1. Puts("ok") /\ "ok" \in Requests /\ call.kind = "report"
    BY <1>1, <1>2, Sends DEF Requests, Straight, Place
  <2>2. PICK p \in {"outer", "fail", "bad"} :
          /\ Go(p) /\ pc' = p
          /\ p = "outer" <=> pc = "accept"
          /\ p = "fail" <=> pc = "accept-fail"
          /\ p = "bad" <=> pc = "drained"
    BY <1>1, <1>2 DEF Step, Go
  <2>3. Asking
    BY <2>1, <2>2 DEF Asking, Puts, Go
  <2>4. pc = "accept" => AtOuter'
    <3>1. c2s = <<>> => AsksLast(c2s', {}, "ok")
      BY <2>1, PutsAsks
    <3> QED
      BY <2>1, <3>1 DEF Straight, Wire, Silent, AtOuter, Puts
  <2>5. pc = "accept-fail" => AtFail'
    <3>1. Only(<<>>, {"edit", "close-edit", "ok", "failed"})
      BY DEF Only
    <3>2. c2s = <<>> => Asks(c2s', {"ok", "failed"}) /\ AsksLast(c2s', {}, "ok") /\ c2s' # <<>>
      BY <2>1, PutsAsks
    <3>3. c2s = <<>> => Head(c2s').what = "ok"
      <4>1. Append(<<>>, Request("ok")) = <<Request("ok")>> /\ Request("ok").what = "ok"
        BY DEF Request
      <4> QED
        BY <2>1, <4>1 DEF Puts
    <3> QED
      BY <2>1, <3>1, <3>2, <3>3 DEF Straight, Wire, Silent, AtFail, Hopeless, Puts
  <2>6. pc = "drained" => AtBad'
    <3>1. ASSUME AtDrained PROVE Asks(c2s, {"failed"})
      <4>1. c2s \in Line
        BY DEF Typed, Line
      <4>2. \A i \in 1 .. Len(c2s) : i \in 1 .. Len(c2s) - 1 \/ i = Len(c2s)
        BY <4>1, LenProperties DEF Line
      <4> QED
        BY <3>1, <4>2 DEF AtDrained, Asks, AsksLast
    <3>2. AtDrained => AsksLast(c2s', {"failed"}, "ok")
      BY <2>1, <3>1, PutsAsks
    <3> QED
      BY <2>1, <3>2 DEF Straight, Wire, AtDrained, AtBad, Puts
  <2>7. Wire'
    BY <1>1, <2>2, <2>4, <2>5, <2>6 DEF Wire, OfBoth
  <2> QED
    BY <1>1, <2>1, <2>2, <2>3, <2>7, Moves DEF OfReport
<1> QED
  BY <1>1, <1>2, Jams DEF WriteAccepted

LEMMA ReadOuterGood ==
  ASSUME Typed, Typed', torn = "no", Straight, ReadOuter
  PROVE  Good'
<1>1. PICK w \in Replies : Receive(w) /\ End(IF pc = "outer" THEN Response(w) ELSE "editor")
  BY DEF ReadOuter
<1>2. Takes(w) /\ pc \in {"outer", "bad"} /\ UNCHANGED editor
  BY <1>1, Receives DEF ReadOuter
<1>3. /\ ~Waits /\ ~stray /\ pc # "idle" /\ call.kind = "report" /\ call.n \notin made
      /\ response' = "none" /\ written' = "none"
  BY <1>2 DEF Straight, Place, Waits, Numbered, OfBoth, OfReport, Outside, editor
<1>4. Response(w) \in Outcomes /\ "editor" \in Outcomes
  BY DEF Response, Outcomes
<1>5. CASE pc = "outer"
  <2>1. srv.mode = "ready" /\ c2s = <<>> /\ Tail(Pending) = <<>>
    BY <1>2, <1>5, VerdictRead DEF Straight, Wire, AtOuter, Takes
  <2> QED
    BY <1>1, <1>2, <1>3, <1>4, <1>5, <2>1, AnswerRead
<1>6. CASE pc = "bad"
  <2>1. jammed \/ (srv.mode = "ready" /\ c2s = <<>> /\ Tail(Pending) = <<>>)
    BY SMTT(60), <1>2, <1>6 DEF Straight, Wire, AtBad, Refusal, Takes
  <2>2. CASE jammed
    <3>1. Dead' /\ Asking /\ Return("editor")
      BY <1>1, <1>2, <1>6, <2>2 DEF Takes, Dead, Asking, End, Return
    <3> QED
      BY <1>3, <1>4, <3>1, Returns
  <2> QED
    BY <1>1, <1>2, <1>3, <1>4, <1>6, <2>1, <2>2, AnswerRead
<1> QED
  BY <1>2, <1>5, <1>6

-----------------------------------------------------------------------------
(***************************************************************************)
(* The commit editor's calls, its two goroutines, and the rest.            *)
(***************************************************************************)

\* The word that ends the edit is sent.
LEMMA AnsweredEnds ==
  ASSUME Typed, NEW r, Answered("none", r), NEW w \in Words, Puts(w), call' = call
  PROVE  Answered(w, r)'
<1>1. w \in Requests /\ w \in {"close-edit", "abort-edit"}
  BY DEF Requests, Words
<1>2. ~Granted("none")
  BY DEF Granted
<1>3. Editing("none") => Editing(w)'
  BY <1>1, PutsAsks DEF Editing, Puts
<1>4. Refused("none") => Refused(w)'
  <2>1. CASE w = "close-edit"
    BY <1>1, <2>1, PutsAsks DEF Refused, Puts
  <2>2. CASE w = "abort-edit"
    <3>1. Refused("none") => AsksLast(c2s', {"send", "close-edit"}, "abort-edit")
      BY <1>1, <2>2, PutsAsks DEF Refused
    <3> QED
      BY <2>2, <3>1 DEF Refused, Settled, Puts
  <2> QED
    BY <1>1, <2>1, <2>2
<1> QED
  BY <1>2, <1>3, <1>4 DEF Answered, Unread, Puts

\* A commit that is refused is over; one that is refused and ended leaves the
\* session in step, one whose answer is not read does not.
LEMMA RefusedOver ==
  ASSUME Typed, NEW sent, Refused(sent)
  PROVE  Over(call.n)
<1>1. c2s \in Line
  BY DEF Typed, Line
<1>2. \A i \in 1 .. Len(c2s) : i \in 1 .. Len(c2s) - 1 \/ i = Len(c2s)
  BY <1>1, LenProperties DEF Line
<1>3. Len(<<>>) = 0
  OBVIOUS
<1>4. \A i \in 1 .. Len(c2s) : c2s[i].what # "command"
  <2>1. c2s = <<>> => \A i \in 1 .. Len(c2s) : FALSE
    BY <1>3
  <2> QED
    BY <1>2, <2>1 DEF Refused, Settled, Asks, AsksLast
<1>5. srv.mode # "edit" /\ call.n \notin made
  BY DEF Refused, Settled
<1> QED
  BY <1>4, <1>5 DEF Over

LEMMA UnreadShows ==
  ASSUME Typed, NEW sent, Unread(sent)
  PROVE  ~InStep
<1>1. CASE Editing(sent)
  BY <1>1 DEF Editing, InStep
<1>2. CASE Pending = <<"failed">> \/ Pending = <<"ok">> \o Rest(sent)
  <2>1. Rest(sent) \in {<<"auth", "info">>, <<>>}
    BY DEF Rest
  <2>2. Pending # <<>>
    BY <1>2, <2>1
  <2> QED
    BY <2>2, RestInStep
<1> QED
  BY <1>1, <1>2 DEF Unread

\* An answer is read: it is what the server says of the edit.
LEMMA AwaitAnswers ==
  ASSUME Typed, NEW sent, Answered(sent, "waiting"), NEW w \in Replies, Takes(w), call' = call
  PROVE  Answered(sent, Response(w))'
<1>1. /\ Pending # <<>> /\ w = Head(Pending) /\ Pending' = Tail(Pending)
      /\ UNCHANGED <<c2s, srv, made>>
  BY DEF Takes
<1>2. Unread(sent) /\ ~Editing(sent)
  BY <1>1 DEF Answered, Editing
<1>3. CASE Refused(sent) /\ Pending = <<"failed">>
  <2>1. w = "failed" /\ Pending' = <<>> /\ Response(w) = "failed"
    BY <1>1, <1>3 DEF Response, Successes
  <2>2. Refused(sent)'
    BY <1>1, <1>3 DEF Refused, Settled
  <2> QED
    BY <2>1, <2>2 DEF Answered
<1>4. CASE Granted(sent) /\ Pending = <<"ok">> \o Rest(sent)
  <2>1. Head(<<"ok">> \o Rest(sent)) = "ok" /\ Tail(<<"ok">> \o Rest(sent)) = Rest(sent)
    <3>1. Rest(sent) \in Seq(Replies) /\ <<"ok">> \in Seq(Replies) /\ <<"ok">> # <<>>
      <4>1. <<>> \in Seq(Replies) /\ <<"auth", "info">> \in Seq(Replies)
        BY DEF Replies
      <4> QED
        BY <4>1, SayingsTyped DEF Rest
    <3>2. Head(<<"ok">>) = "ok" /\ Tail(<<"ok">>) = <<>>
      OBVIOUS
    <3> QED
      BY <3>1, <3>2, ConcatTail, ConcatEmptySeq
  <2>2. Response(w) = "ok" /\ Pending' = Rest(sent)
    BY <1>1, <1>4, <2>1 DEF Response, Successes
  <2>3. Granted(sent)'
    BY <1>1, <1>4 DEF Granted
  <2> QED
    BY <2>2, <2>3 DEF Answered
<1> QED
  BY <1>2, <1>3, <1>4 DEF Unread

LEMMA CommitSendGood ==
  ASSUME Typed, torn = "no", Straight, CommitSend
  PROVE  Good'
<1>1. pc = "open" /\ call.kind = "commit" /\ Quiet
  BY DEF CommitSend
<1>2. Rests /\ OpenCommit /\ ~stray
  BY <1>1, Stands DEF Straight, Place, Wire, OfBoth, Outside
<1>3. CASE /\ response # "waiting"
           /\ done' = TRUE /\ response' = "none" /\ pc' = "early"
           /\ outcome' = IF response = "ok" THEN "malformed" ELSE response
           /\ UNCHANGED <<call, written, stray, history>>
  <2>1. outcome' = response /\ outcome' \in {"failed", "io"}
    BY <1>2, <1>3 DEF OpenCommit, Answered, Granted
  <2>2. AtEarly'
    BY <1>2, <1>3, <2>1, AnsweredRests DEF OpenCommit, AtEarly
  <2>3. Wire' /\ Asking
    BY <1>2, <1>3, <2>2 DEF Wire, OfBoth, Asking, Rests
  <2>4. Place'
    BY <1>1, <1>2, <1>3
    DEF OpenCommit, Straight, Place, Waits, Outside, Simple, OfReport, OfCommit, OfBoth
  <2> QED
    BY <1>1, <1>3, <2>3, <2>4, GoesOn
<1>4. CASE (Go("abandon") \/ Go("send")) /\ UNCHANGED <<done, response, written, stray>>
  <2>1. OpenCommit'
    BY <1>2, <1>4, AnsweredRests DEF OpenCommit, Go
  <2>2. Wire' /\ Asking
    BY <1>1, <1>2, <1>4, <2>1 DEF Wire, OfBoth, Asking, Rests, Go
  <2>3. Place'
    BY <1>1, <1>2, <1>4
    DEF OpenCommit, Straight, Place, Waits, Outside, Simple, OfReport, OfCommit, OfBoth, Go
  <2> QED
    BY <1>1, <1>4, <2>2, <2>3, GoesOn DEF Go
<1> QED
  BY <1>3, <1>4 DEF CommitSend, Enter, editor

LEMMA WriteEarlyAbortGood ==
  ASSUME Typed, torn = "no", Straight, WriteEarlyAbort
  PROVE  Good'
<1>1. /\ pc = "early" /\ UNCHANGED editor /\ Go("abandon") /\ (Send("abort-edit") \/ SendFails)
      /\ pc' = "abandon" /\ UNCHANGED <<call, outcome, history>>
  BY DEF WriteEarlyAbort, Go
<1>2. AtEarly /\ ~stray /\ call.kind = "commit" /\ "abort-edit" \in Words \cap Requests
  BY <1>1 DEF Straight, Place, Wire, OfCommit, Outside, Words, Requests
<1>3. Puts("abort-edit") \/ (Rests /\ jammed')
  BY <1>1, Sends, Stands
<1>4. Asking
  BY <1>1, <1>2, <1>3 DEF Asking, Puts, Rests
<1>5. AtAbandoned'
  <2>1. CASE Puts("abort-edit")
    BY <1>1, <1>2, <2>1, AnsweredEnds DEF AtEarly, AtAbandoned, editor
  <2>2. CASE Rests /\ jammed'
    <3>1. Answered("none", outcome)'
      BY <1>1, <1>2, <2>2, AnsweredRests DEF AtEarly
    <3>2. outcome = "failed" => Refused("none")'
      BY <1>1, <3>1 DEF Answered
    <3> QED
      BY <1>1, <1>2, <2>2, <3>2 DEF AtEarly, AtAbandoned, editor
  <2> QED
    BY <1>3, <2>1, <2>2
<1>6. Wire'
  BY <1>1, <1>2, <1>5 DEF Wire, OfBoth
<1>7. Place'
  BY <1>1, <1>2 DEF AtEarly, Place, Waits, Outside, Simple, OfReport, OfCommit, OfBoth, editor
<1> QED
  BY <1>1, <1>4, <1>6, <1>7, GoesOn

\* finish starts on an edit that is open.
LEMMA StartFinishGood ==
  ASSUME Typed, torn = "no", Straight, pc \in OfBoth, call.kind = "commit", OpenCommit, Quiet,
         NEW w \in Words, StartFinish(w)
  PROVE  Good'
<1>1. /\ Go("finish") /\ pc' = "finish" /\ word' = w /\ written' = "writing"
      /\ UNCHANGED <<call, history, response, stray>> /\ pc # "idle"
  BY DEF StartFinish, Enter, Go, OfBoth
<1>2. Rests /\ Asking
  BY <1>1, Stands DEF Asking, Rests
<1>3. Answered("none", response)'
  BY <1>1, <1>2, AnsweredRests DEF OpenCommit
<1>4. AtFinish'
  BY <1>1, <1>3 DEF AtFinish
<1>5. Wire'
  BY <1>1, <1>4 DEF Wire, OfBoth
<1>6. Place'
  BY <1>1 DEF Straight, Place, Waits, Outside, Simple, OfReport, OfCommit, OfBoth
<1> QED
  BY <1>1, <1>2, <1>5, <1>6, GoesOn

LEMMA CloseEditGood ==
  ASSUME Typed, torn = "no", Straight, CloseEdit
  PROVE  Good'
<1>1. pc = "open" /\ call.kind = "commit" /\ Quiet /\ pc \in OfBoth /\ "close-edit" \in Words
  BY DEF CloseEdit, OfBoth, Words
<1>2. Rests /\ OpenCommit
  BY <1>1, Stands DEF Straight, Wire
<1>3. CASE StartFinish("close-edit")
  BY <1>1, <1>2, <1>3, StartFinishGood
<1>4. CASE Disown /\ outcome' = "ctx" /\ pc' = "abort-edit" /\ UNCHANGED <<call, history>>
  <2>1. Asking /\ response' = "none" /\ written' = "none"
    BY <1>2, <1>4 DEF Disown, Asking, Rests, OpenCommit
  <2>2. (Answered("none", "waiting") \/ Answered("none", "failed"))'
    <3>1. Answered("none", "waiting") \/ Answered("none", "failed")
      BY <1>2 DEF OpenCommit, Answered, Granted
    <3> QED
      BY <1>2, <1>4, <3>1, AnsweredRests
  <2>3. AtAbortEdit'
    BY <1>4, <2>1, <2>2 DEF AtAbortEdit
  <2>4. Wire'
    BY <1>4, <2>3 DEF Wire, OfBoth
  <2>5. Place'
    BY <1>1, <1>4, <2>1
    DEF Straight, Place, Waits, Outside, Simple, OfReport, OfCommit, OfBoth
  <2> QED
    BY <1>1, <1>4, <2>1, <2>4, <2>5, GoesOn
<1> QED
  BY <1>3, <1>4 DEF CloseEdit

\* What has been answered for an edit that is over, and how the session is.
LEMMA AnsweredOver ==
  ASSUME Typed, NEW sent, NEW r, Answered(sent, r), sent \in Sent
  PROVE  /\ r = "failed" => Over(call.n)
         /\ r = "failed" /\ sent = "abort-edit" /\ ~stray => AtRest
         /\ r = "failed" /\ sent # "abort-edit" => ~InStep
         /\ r \in {"io", "waiting"} => ~InStep
         /\ r = "ok" /\ sent = "abort-edit" => Over(call.n) /\ (~stray => AtRest)
         /\ r = "ok" /\ sent = "close-edit" => AtInfo(<<"auth", "info">>) /\ call.n \in made
         /\ r = "ok" => sent # "none"
         /\ r \in {"io", "waiting", "failed", "ok"}
<1>1. r = "failed" => Refused(sent) /\ Over(call.n)
  BY RefusedOver DEF Answered
<1>2. r = "failed" /\ sent = "abort-edit" /\ ~stray => AtRest
  BY DEF Answered, Refused, AtRest
<1>3. ASSUME r = "failed", sent # "abort-edit" PROVE ~InStep
  <2>1. srv.mode = "flush" /\ Asks(c2s, {"send", "close-edit"})
    BY <1>3 DEF Answered, Refused
  <2>2. c2s # <<>> => Len(c2s) \in 1 .. Len(c2s)
    BY EmptySeq, LenProperties DEF Typed
  <2> QED
    BY <2>1, <2>2 DEF Asks, InStep
<1>4. r \in {"io", "waiting"} => ~InStep
  BY UnreadShows DEF Answered
<1>5. r = "ok" /\ sent = "abort-edit" => Over(call.n) /\ (~stray => AtRest)
  <2>1. Len(<<>>) = 0
    OBVIOUS
  <2> QED
    BY <2>1 DEF Answered, Granted, Rest, Over, AtRest, Settled
<1>6. r = "ok" /\ sent = "close-edit" => AtInfo(<<"auth", "info">>) /\ call.n \in made
  BY DEF Answered, Granted, Rest, AtInfo
<1>7. r = "ok" => sent # "none"
  BY DEF Answered, Granted
<1> QED
  BY <1>1, <1>2, <1>3, <1>4, <1>5, <1>6, <1>7 DEF Answered

\* The same once the call has returned.
LEMMA QuietOver ==
  ASSUME Rests, UNCHANGED <<cut, jammed, stray>>, call' = call, s2c' = s2c
  PROVE  /\ (AtRest => AtRest') /\ (Over(call.n) => Over(call.n)') /\ (InStep' => InStep)
         /\ Asking
BY DEF Rests, AtRest, Settled, Over, InStep, Asking

LEMMA AbortEditGood ==
  ASSUME Typed, Typed', torn = "no", Straight, AbortEdit
  PROVE  Good'
<1>1. /\ pc \in {"open", "abandon"} /\ call.kind = "commit" /\ Quiet /\ pc \in OfBoth
      /\ "abort-edit" \in Words /\ pc # "idle" /\ ~stray
  BY DEF AbortEdit, OfBoth, Words, Straight, Place, Outside
<1>2. Rests /\ UNCHANGED <<cut, jammed, s2c>>
  BY <1>1, Stands DEF Quiet
<1>3. (OpenCommit /\ ~done) \/ (AtAbandoned /\ done)
  BY <1>1 DEF Straight, Wire, OpenCommit, AtAbandoned
<1>4. "none" \in Sent /\ "abort-edit" \in Sent
  BY DEF Sent
<1>5. CASE done /\ UNCHANGED editor /\ Return(outcome)
  <2>1. AtAbandoned
    BY <1>3, <1>5
  <2>2. /\ (AtRest => AtRest') /\ (Over(call.n) => Over(call.n)') /\ (InStep' => InStep)
        /\ Asking /\ (jammed => Dead')
    BY <1>2, <1>5, QuietOver DEF Return, editor, Dead
  <2>3. outcome = "failed" => Over(call.n)
    BY <1>4, <2>1, AnsweredOver, RefusedOver DEF AtAbandoned
  <2>4. outcome = "failed" => AtRest \/ jammed
    BY <1>1, <1>4, <2>1, AnsweredOver DEF AtAbandoned
  <2>5. outcome = "io" => ~InStep \/ jammed
    BY <1>4, <2>1, AnsweredOver DEF AtAbandoned
  <2>6. outcome \in {"failed", "io"} /\ response' = "none" /\ written' = "none"
    BY <1>5, <2>1 DEF AtAbandoned, editor
  <2>7. outcome \in Outcomes
    BY DEF Typed
  <2> QED
    BY <1>1, <1>5, <2>2, <2>3, <2>4, <2>5, <2>6, <2>7, Returns
<1>6. CASE ~done /\ StartFinish("abort-edit")
  BY <1>1, <1>3, <1>6, StartFinishGood
<1>7. CASE ~done /\ Disown /\ Return("ctx")
  <2>1. OpenCommit /\ ~InStep
    BY <1>3, <1>4, <1>7, AnsweredOver DEF OpenCommit
  <2>2. response' = "none" /\ written' = "none" /\ Asking
    BY <1>2, <1>7, <2>1 DEF Disown, OpenCommit, Asking, Rests, Return
  <2>3. ~InStep'
    BY <1>1, <1>2, <1>7, <2>1 DEF InStep, Rests, Disown
  <2> QED
    BY <1>1, <1>7, <2>2, <2>3, Returns DEF Outcomes
<1> QED
  BY <1>5, <1>6, <1>7 DEF AbortEdit

LEMMA FinishGood ==
  ASSUME Typed, Typed', torn = "no", Straight, Finish
  PROVE  Good'
<1> DEFINE o == IF response # "ok" THEN response ELSE written
           sent == IF written = "ok" THEN word ELSE "none"
<1>1. /\ pc = "finish" /\ written # "writing" /\ response # "waiting" /\ Quiet
      /\ response' = "none" /\ written' = "none" /\ UNCHANGED <<done, word, stray, call>>
      /\ \/ word = "abort-edit" /\ Return(IF o = "ok" THEN "aborted" ELSE o)
         \/ word = "close-edit" /\ o = "ok" /\ Go("info-auth")
         \/ /\ word = "close-edit" /\ o # "ok"
            /\ outcome' = o /\ pc' = "abort-edit" /\ UNCHANGED history
  BY DEF Finish, End, Leave, Return, Go
<1>2. AtFinish /\ ~stray /\ call.kind = "commit" /\ pc # "idle"
  BY <1>1 DEF Straight, Place, Wire, OfCommit, Outside
<1>3. /\ word \in Words /\ written \in {"ok", "io"} /\ (written = "io" => jammed)
      /\ Answered(sent, response) /\ sent \in Sent
  BY <1>1, <1>2 DEF AtFinish, Sent, Words
<1>4. Rests /\ UNCHANGED <<cut, jammed, s2c>>
  BY <1>1, Stands DEF Quiet
<1>5. /\ (AtRest => AtRest') /\ (Over(call.n) => Over(call.n)') /\ (InStep' => InStep)
      /\ Asking /\ (jammed => Dead')
  BY <1>1, <1>4, QuietOver DEF Dead
<1>6. \/ response = "ok" /\ written = "ok" /\ o = "ok" /\ sent = word
      \/ response = "failed" /\ o = "failed" /\ Over(call.n) /\ (sent = "abort-edit" => AtRest)
      \/ response = "io" /\ o = "io" /\ ~InStep
  <2>1. /\ response \in {"io", "waiting", "failed", "ok"}
        /\ response = "ok" => sent # "none"
        /\ response = "failed" => Over(call.n) /\ (sent = "abort-edit" => AtRest)
        /\ response = "io" => ~InStep
    <3> HIDE DEF sent
    <3> QED
      BY <1>2, <1>3, AnsweredOver
  <2> QED
    BY <1>1, <2>1
<1>7. CASE word = "abort-edit"
  <2> DEFINE r == IF o = "ok" THEN "aborted" ELSE o
  <2>1. Return(r)
    BY <1>1, <1>7
  <2>2. \/ r = "aborted" /\ Over(call.n) /\ AtRest
        \/ r = "failed" /\ Over(call.n) /\ (AtRest \/ jammed)
        \/ r = "io" /\ ~InStep
    BY <1>2, <1>3, <1>6, <1>7, AnsweredOver
  <2> HIDE DEF r, o, sent
  <2> QED
    BY <1>1, <1>2, <1>5, <2>1, <2>2, Returns DEF Outcomes
<1>8. CASE word = "close-edit" /\ o = "ok"
  <2>1. Go("info-auth") /\ pc' = "info-auth" /\ UNCHANGED history
    BY <1>1, <1>8 DEF Go
  <2>2. AtInfo(<<"auth", "info">>)
    BY <1>3, <1>6, <1>8, AnsweredOver
  <2>3. AtInfo(<<"auth", "info">>)'
    BY <1>1, <1>4, <2>2 DEF AtInfo, Granted, Rests
  <2>4. Wire'
    BY <2>1, <2>3 DEF Wire, OfBoth
  <2>5. Place'
    BY <1>1, <1>2, <2>1 DEF Place, Waits, Outside, Simple, OfReport, OfCommit, OfBoth
  <2> QED
    BY <1>2, <1>5, <2>1, <2>4, <2>5, GoesOn
<1>9. CASE word = "close-edit" /\ o # "ok"
  <2>1. outcome' = o /\ pc' = "abort-edit" /\ UNCHANGED history
    BY <1>1, <1>9
  <2>2. \/ o = "failed" /\ Answered("close-edit", "failed")
        \/ o = "io" /\ (Unread("none") \/ Unread("close-edit"))
    <3>1. sent \in {"none", "close-edit"}
      BY <1>9
    <3>2. response = "failed" => Answered("close-edit", "failed")
      BY <1>3, <3>1 DEF Answered, Refused
    <3>3. response = "io" => Unread("none") \/ Unread("close-edit")
      BY <1>3, <3>1 DEF Answered
    <3> QED
      BY <1>6, <1>9, <3>2, <3>3
  <2>3. \A s, r : Answered(s, r) => Answered(s, r)'
    BY <1>1, <1>4, AnsweredRests
  <2>4. \A s : Unread(s) => Unread(s)'
    <3>1. \A s : Unread(s) <=> Answered(s, "waiting")
      BY DEF Answered
    <3>2. \A s : Unread(s)' <=> Answered(s, "waiting")'
      BY DEF Answered
    <3> QED
      BY <2>3, <3>1, <3>2
  <2> HIDE DEF o, sent
  <2>5. AtAbortEdit'
    BY <1>1, <1>2, <2>1, <2>2, <2>3, <2>4 DEF AtAbortEdit
  <2>6. Wire'
    BY <2>1, <2>5 DEF Wire, OfBoth
  <2>7. Place'
    BY <1>1, <1>2, <2>1 DEF Place, Waits, Outside, Simple, OfReport, OfCommit, OfBoth
  <2> QED
    BY <1>2, <1>5, <2>1, <2>6, <2>7, GoesOn
<1> QED
  BY <1>3, <1>7, <1>8, <1>9 DEF Words

LEMMA WriteAbortEditGood ==
  ASSUME Typed, Typed', torn = "no", Straight, WriteAbortEdit
  PROVE  Good'
<1>1. /\ pc = "abort-edit" /\ UNCHANGED editor /\ Return(outcome)
      /\ Send("abort-edit") \/ SendFails
  BY DEF WriteAbortEdit, End
<1>2. AtAbortEdit /\ call.kind = "commit" /\ call' = call /\ "abort-edit" \in Words \cap Requests
      /\ pc # "idle" /\ response' = "none" /\ written' = "none" /\ stray' = stray
  BY <1>1 DEF Straight, Place, Wire, OfCommit, AtAbortEdit, Return, editor, Words, Requests
<1>3. outcome \in {"failed", "io", "ctx"} /\ outcome \in Outcomes
  BY <1>2 DEF AtAbortEdit, Outcomes
<1>4. CASE SendFails
  <2>1. Rests /\ Dead' /\ Asking
    BY <1>2, <1>4, Stands DEF Dead, Asking, Rests
  <2>2. outcome = "failed" => Over(call.n)
    BY <1>2, RefusedOver DEF AtAbortEdit, Answered
  <2>3. outcome = "failed" => Over(call.n)'
    BY <1>2, <2>1, <2>2 DEF Over, Rests
  <2> QED
    BY <1>1, <1>2, <1>3, <2>1, <2>3, Returns
<1>5. CASE Send("abort-edit")
  <2>1. Puts("abort-edit") /\ Asking
    BY <1>2, <1>5, Sends DEF Asking, Puts
  <2>2. Pending' = Pending /\ srv' = srv /\ made' = made
    BY <2>1 DEF Puts
  <2>3. (InStep => Pending = <<>> /\ ~stray)'
    BY RestInStep, PTL
  <2>4. ASSUME NEW s, Refused(s), Pending = <<>>, s # "abort-edit", ~stray
        PROVE  AtRest' /\ Over(call.n)'
    <3>1. srv.mode = "flush" /\ Asks(c2s, {"send", "close-edit"}) /\ call.n \notin made
      BY <2>4 DEF Refused
    <3>2. AsksLast(c2s', {"send", "close-edit"}, "abort-edit")
      BY <1>2, <2>1, <3>1, PutsAsks
    <3>3. AtRest'
      BY <1>2, <2>2, <2>4, <3>1, <3>2 DEF AtRest, Settled
    <3>4. Over(call.n)'
      <4>1. \A i \in 1 .. Len(c2s') : i \in 1 .. Len(c2s') - 1 \/ i = Len(c2s')
        BY LenProperties DEF Typed
      <4> QED
        BY <1>2, <2>2, <3>1, <3>2, <4>1 DEF Over, AsksLast
    <3> QED
      BY <3>3, <3>4
  <2>5. ASSUME NEW s, Unread(s) PROVE ~InStep'
    <3>1. CASE Editing(s)
      BY <2>2, <3>1 DEF Editing, InStep
    <3>2. CASE Pending = <<"failed">> \/ Pending = <<"ok">> \o Rest(s)
      <4>1. Rest(s) \in {<<"auth", "info">>, <<>>}
        BY DEF Rest
      <4>2. Pending # <<>>
        BY <3>2, <4>1
      <4> QED
        BY <2>2, <2>3, <4>2
    <3> QED
      BY <2>5, <3>1, <3>2 DEF Unread
  <2>6. CASE outcome = "failed"
    <3>1. AtRest' /\ Over(call.n)'
      BY <1>2, <2>4, <2>6 DEF AtAbortEdit, Answered
    <3> QED
      BY <1>1, <1>2, <1>3, <2>1, <2>6, <3>1, Returns
  <2>7. CASE outcome = "io"
    <3>1. ~InStep'
      BY <1>2, <2>5, <2>7 DEF AtAbortEdit
    <3> QED
      BY <1>1, <1>2, <1>3, <2>1, <2>7, <3>1, Returns
  <2>8. CASE outcome = "ctx"
    <3>1. InStep' => AtRest'
      BY <1>2, <2>3, <2>4, <2>5, <2>8 DEF AtAbortEdit, Answered
    <3> QED
      BY <1>1, <1>2, <1>3, <2>1, <2>8, <3>1, Returns
  <2> QED
    BY <1>3, <2>6, <2>7, <2>8
<1> QED
  BY <1>1, <1>4, <1>5

LEMMA AuthenticateInfoGood ==
  ASSUME Typed, torn = "no", Straight, AuthenticateInfo
  PROVE  Good'
<1>1. PICK w \in Replies :
        /\ Receive(w)
        /\ \/ w = "auth" /\ Step("info")
           \/ w # "auth" /\ End(IF w = "failed" THEN w ELSE "malformed")
  BY DEF AuthenticateInfo
<1>2. Takes(w) /\ pc = "info-auth" /\ UNCHANGED editor
  BY <1>1, Receives DEF AuthenticateInfo
<1>3. AtInfo(<<"auth", "info">>) /\ call.kind = "commit"
  BY <1>2 DEF Straight, Wire, Place, OfCommit
<1>4. w = "auth" /\ Pending' = <<"info">>
  BY <1>2, <1>3 DEF AtInfo, Takes
<1>5. Go("info") /\ pc' = "info" /\ Asking
  BY <1>1, <1>2, <1>4 DEF Step, Go, Asking, Takes
<1>6. AtInfo(<<"info">>)'
  BY <1>2, <1>3, <1>4, <1>5 DEF AtInfo, Granted, Takes, Asking
<1>7. Wire'
  BY <1>5, <1>6 DEF Wire, OfBoth
<1> QED
  BY <1>2, <1>3, <1>5, <1>7, Moves DEF OfReport

LEMMA ReadInfoGood ==
  ASSUME Typed, Typed', torn = "no", Straight, ReadInfo
  PROVE  Good'
<1>1. PICK w \in Replies : Receive(w) /\ End(IF w = "info" THEN "ok" ELSE "malformed")
  BY DEF ReadInfo
<1>2. Takes(w) /\ pc = "info" /\ UNCHANGED editor
  BY <1>1, Receives DEF ReadInfo
<1>3. AtInfo(<<"info">>) /\ ~Waits /\ ~stray /\ pc # "idle"
  BY <1>2 DEF Straight, Wire, Place, Waits, OfBoth, Outside
<1>4. w = "info" /\ Tail(Pending) = <<>> /\ srv.mode = "ready" /\ c2s = <<>> /\ call.n \in made
  BY <1>2, <1>3 DEF AtInfo, Granted, Takes
<1> QED
  BY <1>1, <1>2, <1>3, <1>4, AnswerRead DEF Outcomes

\* A step of something else than the call's goroutine.
Apart == UNCHANGED <<call, pc, done, word, outcome, history, srv, made>>
         /\ (cut => cut') /\ (jammed => jammed')

LEMMA ApartKeeps ==
  ASSUME Typed, torn = "no", Straight, Apart, c2s' = c2s, Place', Wire'
  PROVE  Good'
BY DEF Apart, history, Straight, Numbered, TrueTold, Over, Good, StaysInStep

LEMMA AwaitResponseGood ==
  ASSUME Typed, torn = "no", Straight, AwaitResponse
  PROVE  Good'
<1>1. PICK answer \in {"ok", "failed", "malformed", "io"} :
        /\ \/ \E w \in Replies : Receive(w) /\ answer = Response(w)
           \/ answer = "io" /\ Quiet
        /\ \/ response = "waiting" /\ response' = answer /\ UNCHANGED stray
           \/ stray /\ stray' = FALSE /\ UNCHANGED response
  BY DEF AwaitResponse
<1>2. (\E w \in Replies : Takes(w) /\ answer = Response(w)) \/ (answer = "io" /\ Rests)
  BY <1>1, Receives, Stands
<1>3. Apart /\ c2s' = c2s /\ written' = written
  BY <1>1, <1>2 DEF AwaitResponse, Elsewhere, Apart, Takes, Rests, Quiet, Receive, Read, history
<1>4. UNCHANGED <<call, pc, done, word, outcome>>
  BY <1>3 DEF Apart
<1>5. CASE response = "waiting" /\ response' = answer /\ UNCHANGED stray
  <2>1. Waits /\ call.kind = "commit" /\ ~stray /\ pc \in OfBoth \cup {"finish"}
    BY <1>5 DEF Straight, Place, Waits, OfCommit, OfBoth, Outside
  <2>2. ASSUME NEW s, Answered(s, "waiting") PROVE Answered(s, answer)'
    <3>1. CASE \E w \in Replies : Takes(w) /\ answer = Response(w)
      BY <1>4, <2>2, <3>1, AwaitAnswers
    <3>2. CASE answer = "io" /\ Rests
      <4>1. Answered(s, "io")
        BY <2>2 DEF Answered
      <4> QED
        BY <1>4, <3>2, <4>1, AnsweredRests
    <3> QED
      BY <1>2, <3>1, <3>2
  <2>3. CASE pc = "finish"
    <3>1. AtFinish
      BY <2>3 DEF Straight, Wire
    <3>2. AtFinish'
      BY <1>3, <1>4, <1>5, <2>2, <3>1 DEF AtFinish, Apart
    <3>3. Wire'
      BY <1>4, <2>3, <3>2 DEF Wire, OfBoth
    <3>4. Place'
      BY <1>4, <1>5, <2>1, <2>3 DEF Place, Waits, Outside, Simple, OfReport, OfCommit, OfBoth
    <3> QED
      BY <1>3, <3>3, <3>4, ApartKeeps
  <2>4. CASE pc \in OfBoth /\ ~done
    <3>1. OpenCommit
      BY <2>1, <2>4 DEF Straight, Wire, OfBoth, AtAbandoned
    <3>2. OpenCommit'
      BY <1>3, <1>4, <1>5, <2>2, <3>1 DEF OpenCommit
    <3>3. Wire'
      BY <1>4, <2>1, <2>4, <3>2 DEF Wire, OfBoth
    <3>4. Place'
      BY <1>3, <1>4, <1>5, <2>1, <2>4
      DEF Place, Waits, Outside, Simple, OfReport, OfCommit, OfBoth
    <3> QED
      BY <1>3, <3>3, <3>4, ApartKeeps
  <2> QED
    BY <2>1, <2>3, <2>4 DEF Waits, OfBoth
<1>6. CASE stray /\ stray' = FALSE /\ UNCHANGED response
  <2>1. Place'
    BY <1>3, <1>4, <1>6 DEF Straight, Place, Waits
  <2>2. CASE pc \in Outside /\ Dead
    <3>1. Dead'
      BY <1>3, <2>2 DEF Dead, Apart
    <3>2. Wire'
      BY <1>4, <2>2, <3>1 DEF Wire, Outside, OfBoth
    <3> QED
      BY <1>3, <2>1, <3>2, ApartKeeps
  <2>3. CASE pc = "abort-edit"
    <3>1. AtAbortEdit
      BY <2>3 DEF Straight, Wire
    <3>2. /\ outcome = "ctx" /\ response = "none" /\ written = "none"
          /\ Answered("none", "waiting") \/ Answered("none", "failed")
      BY <1>6, <3>1 DEF AtAbortEdit
    <3>3. (Answered("none", "waiting") \/ Answered("none", "failed"))'
      <4>1. CASE Rests
        BY <1>4, <3>2, <4>1, AnsweredRests
      <4>2. ASSUME NEW w \in Replies, Takes(w) PROVE Answered("none", "failed")'
        <5>1. ~Answered("none", "failed")
          BY <4>2 DEF Answered, Takes
        <5>2. Answered("none", Response(w))'
          BY <1>4, <3>2, <4>2, <5>1, AwaitAnswers
        <5>3. Response(w) \in {"ok", "failed", "malformed"}
          BY DEF Response
        <5> QED
          BY <5>2, <5>3 DEF Answered, Granted
      <4> QED
        BY <1>2, <4>1, <4>2
    <3>4. AtAbortEdit'
      BY <1>3, <1>4, <1>6, <3>2, <3>3 DEF AtAbortEdit
    <3>5. Wire'
      BY <1>4, <2>3, <3>4 DEF Wire, OfBoth
    <3> QED
      BY <1>3, <2>1, <3>5, ApartKeeps
  <2> QED
    BY <1>6, <2>2, <2>3 DEF Straight, Place
<1> QED
  BY <1>1, <1>5, <1>6

LEMMA WriteWordGood ==
  ASSUME Typed, torn = "no", Straight, WriteWord
  PROVE  Good'
<1>1. /\ written = "writing" /\ UNCHANGED <<call, pc, done, word, outcome, history, response, stray>>
      /\ (Send(word) /\ written' = "ok") \/ (SendFails /\ written' = "io")
  BY DEF WriteWord, Elsewhere, history
<1>2. pc = "finish" /\ AtFinish /\ call.kind = "commit" /\ pc # "idle"
  <2>1. Waits
    BY <1>1 DEF Straight, Place
  <2>2. pc # "finish" => OpenCommit
    BY <2>1 DEF Waits, Straight, Wire, OfBoth, AtAbandoned
  <2>3. pc = "finish"
    BY <1>1, <2>2 DEF OpenCommit
  <2> QED
    BY <2>3 DEF Straight, Place, Wire, OfCommit
<1>3. Answered("none", response) /\ word \in Words /\ word \in Requests
  BY <1>1, <1>2 DEF AtFinish, Words, Requests
<1>4. AtFinish' /\ Asking
  <2>1. CASE Send(word) /\ written' = "ok"
    <3>1. Puts(word)
      BY <2>1, Sends
    <3>2. Answered(word, response)'
      BY <1>1, <1>3, <3>1, AnsweredEnds
    <3> QED
      BY <1>1, <1>3, <2>1, <3>1, <3>2 DEF AtFinish, Asking, Puts
  <2>2. CASE SendFails /\ written' = "io"
    <3>1. Rests /\ jammed'
      BY <2>2, Stands
    <3>2. Answered("none", response)'
      BY <1>1, <1>3, <3>1, AnsweredRests
    <3> QED
      BY <1>1, <1>3, <2>2, <3>1, <3>2 DEF AtFinish, Asking, Rests
  <2> QED
    BY <1>1, <2>1, <2>2
<1>5. Wire'
  BY <1>1, <1>2, <1>4 DEF Wire, OfBoth
<1>6. Place'
  BY <1>1, <1>2 DEF Straight, Place, Waits, Outside, Simple, OfReport, OfCommit, OfBoth
<1> QED
  BY <1>1, <1>2, <1>4, <1>5, <1>6, GoesOn

\* Neither the context nor the mutex nor the deadline is part of it.
LEMMA AsideGood ==
  ASSUME torn = "no", Straight, cut => cut',
         UNCHANGED <<c2s, s2c, jammed, call, pc, editor, outcome, server, history>>
  PROVE  Good'
<1>1. /\ UNCHANGED <<c2s, s2c, jammed, call, pc, editor, outcome, srv, made, history>>
      /\ cut => cut'
  BY DEF server
<1>2. UNCHANGED <<done, response, written, word, stray, told, torn, Pending>>
  BY <1>1 DEF editor, history, Pending
<1>3. (Dead => Dead') /\ (AtRest => AtRest')
  BY <1>1, <1>2 DEF Dead, AtRest, Settled
<1>4. Place'
  BY <1>1, <1>2, <1>3 DEF Straight, Place, Waits
<1>5. /\ UNCHANGED <<Reporting, AtFinishAuth, Silent({"reply", "aborted"}), Silent({"aborted"}),
                     Silent({"reply"}), AtDrained, AtOuter, AtBad, Hopeless, Failing>>
      /\ UNCHANGED <<AtAuth, AtResponse, AtBody, AtTail, Driven(Pending)>>
  BY <1>1, <1>2 DEF Reporting, AtFinishAuth, Silent, AtDrained, AtOuter, AtBad, Hopeless, Failing,
     AtAuth, AtResponse, AtBody, AtTail, Driven, Asked, Refusal, Greeted, Request
<1>6. /\ UNCHANGED <<OpenCommit, AtEarly, AtAbandoned, AtFinish, AtAbortEdit>>
      /\ \A p : AtInfo(p) => AtInfo(p)'
  BY <1>1, <1>2 DEF OpenCommit, AtEarly, AtAbandoned, AtFinish, AtAbortEdit, AtInfo, Answered,
     Unread, Editing, Refused, Granted, Settled
<1>7. AtFail => AtFail'
  BY <1>1, <1>2, <1>5 DEF AtFail, Driven
<1>8. AtDrain => AtDrain'
  BY <1>5 DEF AtDrain
<1>9. Wire'
  BY <1>1, <1>2, <1>3, <1>5, <1>6, <1>7, <1>8 DEF Straight, Wire
<1>10. Numbered' /\ TrueTold'
  BY <1>1, <1>2 DEF Straight, Numbered, TrueTold, Over
<1> QED
  BY <1>2, <1>4, <1>9, <1>10 DEF Straight, Good, StaysInStep

\* A context ends, an interruption runs, the connection is lost, or nothing happens.
LEMMA AsideKeeps ==
  ASSUME Cancel \/ Interrupt \/ Lose \/ UNCHANGED vars
  PROVE  /\ cut => cut'
         /\ UNCHANGED <<c2s, s2c, jammed, call, pc, editor, outcome, server, history>>
<1>1. CASE Cancel
  BY <1>1 DEF Cancel, stream
<1>2. CASE Interrupt
  BY <1>2 DEF Interrupt
<1>3. CASE Lose
  BY <1>3 DEF Lose
<1>4. CASE UNCHANGED vars
  BY <1>4 DEF vars, stream
<1> QED
  BY <1>1, <1>2, <1>3, <1>4

LEMMA ServerGood ==
  ASSUME Typed, torn = "no", Straight, Server
  PROVE  Good'
<1>1. UNCHANGED <<pc, told, torn>>
  BY ServerFrame DEF history
<1>2. Place' /\ Wire'
  BY WireTurns DEF Straight
<1>3. Numbered' /\ TrueTold'
  BY <1>1, ServerTurn, NumberedTurns DEF Straight
<1> QED
  BY <1>1, <1>2, <1>3 DEF Straight, Good, StaysInStep

\* A session that was found out of step stays so.
LEMMA TornStays ==
  ASSUME Next, torn # "no"
  PROVE  torn' = torn
<1> USE DEF history
<1>1. \A o : Return(o) => torn' = torn
  BY DEF Return
<1>2. CASE WriteCommand \/ Authenticate \/ ReadResponse \/ ReadBody \/ ReadTail \/ ReadError
  BY <1>1, <1>2 DEF WriteCommand, Authenticate, ReadResponse, ReadBody, ReadTail, ReadError,
     End, Step, Go, Open, Leave
<1>3. CASE ReporterSend \/ WriteSend \/ FinishReport \/ AbortReport \/ WriteAbortReport
           \/ WriteFinishReport \/ AuthenticateFinish \/ DriveEditor
  BY <1>1, <1>3 DEF ReporterSend, WriteSend, FinishReport, AbortReport, CloseReport,
     WriteAbortReport, WriteFinishReport, AuthenticateFinish, DriveEditor, Idle, Enter, Leave,
     End, Step, Go
<1>4. CASE WriteFailure \/ DrainEditor \/ WriteAccepted \/ ReadOuter
  BY <1>1, <1>4 DEF WriteFailure, DrainEditor, WriteAccepted, ReadOuter, End, Step, Go
<1>5. CASE CommitSend \/ WriteEarlyAbort \/ CloseEdit \/ AbortEdit \/ Finish
           \/ WriteAbortEdit \/ AuthenticateInfo \/ ReadInfo
  BY <1>1, <1>5 DEF CommitSend, WriteEarlyAbort, CloseEdit, AbortEdit, Finish, WriteAbortEdit,
     AuthenticateInfo, ReadInfo, StartFinish, Enter, Leave, End, Step, Go
<1>6. CASE Lock \/ AwaitResponse \/ WriteWord \/ Cancel \/ Interrupt \/ Lose
  BY <1>1, <1>6 DEF Lock, AwaitResponse, WriteWord, Elsewhere, Cancel, Interrupt, Lose, Go
<1>7. CASE Server
  BY <1>7, ServerFrame
<1>8. CASE \E kind \in Kinds, ctxKind \in CtxKinds : Begin(kind, ctxKind)
  BY <1>8 DEF Begin
<1> QED
  BY <1>2, <1>3, <1>4, <1>5, <1>6, <1>7, <1>8 DEF Next, Call

LEMMA InvInit == Init => Inv
<1> SUFFICES ASSUME Init PROVE Inv
  OBVIOUS
<1> USE DEF Init
<1>1. Typed
  BY DEF Typed, Calls, CallKinds, Modes, Outcomes, Replies
<1>2. Pending = <<>> /\ Len(<<>>) = 0
  BY DEF Pending
<1>3. AtRest
  BY <1>2 DEF AtRest, Settled
<1>4. Place
  BY DEF Place, Waits, Outside, Simple, OfReport, OfCommit, OfBoth
<1>5. Wire
  BY <1>3 DEF Wire, OfBoth
<1>6. Numbered /\ TrueTold
  BY <1>2 DEF Numbered, TrueTold
<1> QED
  BY <1>1, <1>4, <1>5, <1>6 DEF Inv, StaysInStep, Straight

LEMMA CallGood ==
  ASSUME Typed, Typed', torn = "no", Straight, Call
  PROVE  Good'
<1>1. CASE Lock \/ WriteCommand \/ Authenticate \/ ReadResponse \/ ReadBody \/ ReadTail
  BY <1>1, LockGood, WriteCommandGood, AuthenticateGood, ReadResponseGood, ReadBodyGood,
     ReadTailGood
<1>2. CASE ReadError
  BY <1>2, ReadErrorGood
<1>3. CASE FinishReport \/ AbortReport
  <2>1. {"open"} \in SUBSET OfBoth /\ {"open", "abandon"} \in SUBSET OfBoth
    BY DEF OfBoth
  <2>2. CASE CloseReport({"open"}, "finish-report")
    BY <2>1, <2>2, CloseReportGood
  <2>3. CASE CloseReport({"open", "abandon"}, "abort-report")
    BY <2>1, <2>3, CloseReportGood
  <2> QED
    BY <1>3, <2>2, <2>3 DEF FinishReport, AbortReport
<1>4. CASE ReporterSend \/ WriteSend \/ WriteAbortReport \/ WriteFinishReport
  BY <1>4, ReporterSendGood, WriteSendGood, WriteAbortReportGood, WriteFinishReportGood
<1>5. CASE AuthenticateFinish \/ DriveEditor \/ WriteFailure \/ DrainEditor
           \/ WriteAccepted \/ ReadOuter
  BY <1>5, AuthenticateFinishGood, DriveEditorGood, WriteFailureGood, DrainEditorGood,
     WriteAcceptedGood, ReadOuterGood
<1>6. CASE CommitSend \/ WriteEarlyAbort \/ CloseEdit \/ AbortEdit
  BY <1>6, CommitSendGood, WriteEarlyAbortGood, CloseEditGood, AbortEditGood
<1>7. CASE Finish \/ WriteAbortEdit \/ AuthenticateInfo \/ ReadInfo
  BY <1>7, FinishGood, WriteAbortEditGood, AuthenticateInfoGood, ReadInfoGood
<1> QED
  BY <1>1, <1>2, <1>3, <1>4, <1>5, <1>6, <1>7 DEF Call

LEMMA InvStep == Inv /\ [Next]_vars => Inv'
<1> SUFFICES ASSUME Inv, [Next]_vars PROVE Inv'
  OBVIOUS
<1>1. Typed /\ Typed'
  <2>1. CASE UNCHANGED vars
    BY <2>1 DEF vars, stream, editor, server, history, Inv, Typed
  <2> QED
    BY <2>1, TypedStep DEF Inv
<1>2. CASE torn # "no"
  <2>1. torn' = torn
    BY <1>2, TornStays DEF vars, history
  <2> QED
    BY <1>1, <1>2, <2>1 DEF Inv, StaysInStep
<1>3. CASE torn = "no"
  <2>1. Straight
    BY <1>3 DEF Inv
  <2>2. ASSUME Cancel \/ Interrupt \/ Lose \/ UNCHANGED vars PROVE Good'
    BY <1>3, <2>1, <2>2, AsideKeeps, AsideGood
  <2>3. ASSUME \E kind \in Kinds, ctxKind \in CtxKinds : Begin(kind, ctxKind) PROVE Good'
    BY <1>1, <1>3, <2>1, <2>3, BeginGood
  <2>4. ASSUME Call PROVE Good'
    BY <1>1, <1>3, <2>1, <2>4, CallGood
  <2>5. ASSUME AwaitResponse \/ WriteWord PROVE Good'
    BY <1>1, <1>3, <2>1, <2>5, AwaitResponseGood, WriteWordGood
  <2>6. ASSUME Server PROVE Good'
    BY <1>1, <1>3, <2>1, <2>6, ServerGood
  <2>7. Good'
    BY <1>1, <2>2, <2>3, <2>4, <2>5, <2>6 DEF Next
  <2> QED
    BY <1>1, <2>7 DEF Good, Inv
<1> QED
  BY <1>2, <1>3

\* normalizeContextError and whoever returns an error: a call that returns on
\* an open connection has left nothing in it, but for a context that ended, a
\* handler's error and an interruption too many (RaSvnSession.StaysInStep).
THEOREM InStepAlways == Spec => []StaysInStep
<1>1. Inv => StaysInStep
  BY DEF Inv
<1> QED
  BY InvInit, InvStep, <1>1, PTL DEF Spec

\* startCommit, finish and CloseEdit: a commit that is reported made was made,
\* and one the server is reported to have refused or aborted never is, while
\* the session is in step (RaSvnSession.CommitTruth).
THEOREM CommitsTruthful == Spec => []CommitTruth
<1>1. Inv => CommitTruth
  BY DEF Inv, Straight, TrueTold, Over, CommitTruth
<1> QED
  BY InvInit, InvStep, <1>1, PTL DEF Spec
=============================================================================
