---------------------------- MODULE RaSvnSession ----------------------------
(***************************************************************************)
(* A svn:// session: one connection, whose mutex a call holds from its     *)
(* command to the last item of the answer; a commit editor and a reporter  *)
(* hold it from the call that made them until they are closed.  While an   *)
(* edit is open a goroutine waits for its answer, so that the server can   *)
(* fail it early; to finish an edit a second goroutine writes.             *)
(*                                                                         *)
(* An item is what it is for.  The stream holds Cap items each way, and a  *)
(* write waits for room.  What the server does is external: it is what     *)
(* rasvn's own tests and DESIGN.md 6.1 have it do.                         *)
(***************************************************************************)
EXTENDS Integers, Sequences

CONSTANTS
  Kinds,      \* the kinds of call the client makes
  MaxCalls,   \* bound on the calls
  MaxItems,   \* bound on the items of an edit, a report, a streamed answer
  Cap         \* items in flight one way

CallKinds == {"command", "stream", "file", "many", "report", "commit"}
\* A context that is never cancelled is context.Background().
CtxKinds  == {"cancel", "deadline"}

ASSUME SessionAssumption ==
  /\ Kinds \subseteq CallKinds
  /\ MaxCalls \in Nat /\ MaxItems \in Nat
  /\ Cap \in Nat \ {0}

VARIABLES
  c2s, s2c,  \* what is in flight
  cut,       \* the stream is closed, by either side
  overdue,   \* the stream's deadline has passed
  jammed,    \* a write failed: the bufio.Writer keeps failing
  ctx,       \* the call's context
  hook,      \* an interruptOnCancel is in force
  late,      \* AfterFuncs started and not yet run
  mu,        \* connection.mu: 1 locked, 0 free
  call, pc,  \* the call, and where its goroutine is
  left,      \* what its caller still wants to send
  done,      \* commitEditor.done, reporter.done
  response,  \* commitEditor.response and the goroutine that fills it
  written,   \* finish's written and the goroutine that fills it
  word,      \* the command finish is to write
  stray,     \* a response goroutine its editor no longer waits for
  outcome,   \* what the call is going to return
  srv,       \* the server
  told,      \* history: how each call returned
  made,      \* history: the calls whose commit was made
  torn       \* history: the outcome of the first call that returned with the
             \* connection open and out of step

stream  == <<c2s, s2c, cut, overdue, jammed>>
cancel  == <<ctx, hook, late>>
editor  == <<left, done, response, written, word, stray>>
history == <<told, torn>>
server  == <<srv, made>>
vars == <<stream, cancel, mu, call, pc, editor, outcome, server, history>>

Replies == {"auth", "ok", "failed", "entry", "done", "info",
            "edit", "close-edit", "abort-edit"}

Requests == {"command", "send", "finish-report", "abort-report",
             "close-edit", "abort-edit", "ok", "failed"}

Outcomes == {"none", "ok", "failed", "malformed", "io", "ctx", "handler",
             "editor", "aborted"}

NoCtx == [kind |-> "cancel", done |-> FALSE]

Init ==
  /\ c2s = <<>> /\ s2c = <<>> /\ cut = FALSE /\ overdue = FALSE /\ jammed = FALSE
  /\ ctx = NoCtx /\ hook = FALSE /\ late = {}
  /\ mu = 0 /\ call = [n |-> 0, kind |-> "command"] /\ pc = "idle"
  /\ left = 0 /\ done = FALSE /\ response = "none" /\ written = "none"
  /\ word = "close-edit" /\ stray = FALSE /\ outcome = "none"
  /\ srv = [mode |-> "ready", call |-> call, out |-> <<>>, left |-> 0]
  /\ told = {} /\ made = {} /\ torn = "no"

-----------------------------------------------------------------------------
(***************************************************************************)
(* Contexts.                                                               *)
(***************************************************************************)

\* The context is cancelled or its deadline passes; an AfterFunc in force
\* starts in a goroutine of its own.
Cancel ==
  /\ pc # "idle" /\ ~ctx.done
  /\ ctx' = [ctx EXCEPT !.done = TRUE]
  /\ late' = IF hook THEN late \cup {ctx.kind} ELSE late
  /\ UNCHANGED <<stream, hook, mu, call, pc, editor, outcome, server, history>>

\* The AfterFunc runs, perhaps after stop: it closes the stream, or sets its
\* deadline to now.
Interrupt ==
  /\ \E k \in late :
       /\ late' = late \ {k}
       /\ cut' = (cut \/ k = "cancel")
       /\ overdue' = (overdue \/ k = "deadline")
  /\ UNCHANGED <<c2s, s2c, jammed, ctx, hook, mu, call, pc, editor, outcome,
                 server, history>>

\* Mutant: interruptOnCancel that registers nothing.
HookForgotten == ~ctx.done /\ UNCHANGED <<hook, overdue>>

\* interruptOnCancel, of a context that is not done.
Hook ==
  /\ ~ctx.done
  /\ hook' = TRUE
  /\ overdue' = (overdue /\ ctx.kind # "deadline")

\* The function interruptOnCancel returned.
Stop ==
  /\ hook' = FALSE
  /\ overdue' = (overdue /\ ~(hook /\ ctx.kind = "deadline"))

\* normalizeContextError
Normalize(o) == IF o # "ok" /\ ctx.done THEN "ctx" ELSE o

-----------------------------------------------------------------------------
(***************************************************************************)
(* The stream.                                                             *)
(***************************************************************************)
Request(w) == [what |-> w, call |-> call]

\* connection.write
Write(w) ==
  /\ ~cut /\ ~overdue /\ ~jammed /\ Len(c2s) < Cap
  /\ c2s' = Append(c2s, Request(w))

WriteFails ==
  /\ cut \/ overdue \/ jammed
  /\ jammed' = TRUE

\* reader.Decode; what is buffered is read from a closed stream too.
Read(w) == s2c # <<>> /\ w = Head(s2c) /\ s2c' = Tail(s2c)

ReadFails == cut \/ overdue

\* Nothing of this call is left to be read or answered.
InStep ==
  /\ s2c = <<>> /\ srv.out = <<>> /\ ~stray
  /\ \/ srv.mode = "ready" /\ c2s = <<>>
     \/ srv.mode = "report" /\ c2s # <<>> /\ c2s[Len(c2s)].what = "abort-report"
     \/ srv.mode = "flush" /\ c2s # <<>> /\ c2s[Len(c2s)].what = "abort-edit"

\* No call on this session can be answered any more.
Dead == cut \/ jammed

\* The call returns; to be written after what it does to the stream.
Return(o) ==
  /\ pc' = "idle" /\ outcome' = "none"
  /\ told' = told \cup {[call |-> call, as |-> Normalize(o)]}
  /\ torn' = IF torn = "no" /\ ~(InStep \/ Dead)' THEN Normalize(o) ELSE torn
  /\ ctx' = NoCtx /\ UNCHANGED call

\* A step of the call that stays within it.
Go(next) == pc' = next /\ UNCHANGED <<call, ctx, outcome, history>>

\* defer conn.mu.Unlock()
Unlock == mu' = mu - 1

\* What a step of the call does with the stream.
Receive(w) == Read(w)    /\ UNCHANGED <<c2s, cut, jammed, late, server>>
Send(w)    == Write(w)   /\ UNCHANGED <<s2c, cut, jammed, late, server>>
SendFails  == WriteFails /\ UNCHANGED <<c2s, s2c, cut, late, server>>
Quiet      == UNCHANGED <<c2s, s2c, cut, jammed, late, server>>

\* How it goes on: in the same function, or out of it.
Step(next) == Go(next) /\ UNCHANGED <<hook, overdue, mu>>
Leave(next) == Go(next) /\ Stop /\ UNCHANGED mu
Enter(next) == Go(next) /\ Hook /\ UNCHANGED mu
End(o) == Stop /\ Unlock /\ Return(o)

\* readResponse: an authentication request is a success to it.
Successes == {"ok", "auth"}
Response(w) == IF w \in Successes THEN "ok"
               ELSE IF w = "failed" THEN "failed" ELSE "malformed"

\* Items that are no ( word ( ... ) ).
Shapeless == {"entry", "done", "info"}

-----------------------------------------------------------------------------
(***************************************************************************)
(* Calls that are over when they return: a command, a streamed answer      *)
(* (Log, List), GetFile, lock-many.                                        *)
(***************************************************************************)
Begin(kind, ctxKind) ==
  /\ pc = "idle" /\ call.n < MaxCalls
  /\ call' = [n |-> call.n + 1, kind |-> kind]
  /\ ctx' = [kind |-> ctxKind, done |-> FALSE]
  /\ pc' = "lock"
  /\ Quiet /\ UNCHANGED <<overdue, hook, mu, editor, outcome, history>>

Lock ==
  /\ pc = "lock" /\ mu = 0
  /\ Quiet /\ UNCHANGED editor
  /\ \/ ctx.done /\ Return("ctx") /\ UNCHANGED <<hook, overdue, mu>>
     \/ Hook /\ mu' = mu + 1 /\ Go("command")

WriteCommand ==
  /\ pc = "command" /\ UNCHANGED editor
  /\ \/ Send("command") /\ Step("auth")
     \/ SendFails /\ End("io")

\* The editor or reporter is made; the mutex stays locked.
Open(reply) ==
  /\ Leave("open")
  /\ left' = MaxItems /\ done' = FALSE /\ response' = reply
  /\ UNCHANGED <<written, word, stray>>

Authenticate ==
  /\ pc = "auth"
  /\ \E w \in Replies :
       /\ Receive(w)
       /\ \/ /\ w = "auth" /\ UNCHANGED editor
             /\ \/ call.kind \in {"command", "file", "commit"} /\ Step("response")
                \/ call.kind \in {"stream", "many"} /\ Step("body")
          \/ w = "auth" /\ call.kind = "report" /\ Open("none")
          \/ /\ w # "auth" /\ UNCHANGED editor
             /\ End(IF w = "failed" THEN w ELSE "malformed")

ReadResponse ==
  /\ pc = "response"
  /\ \E w \in Replies :
       /\ Receive(w)
       /\ \/ w \in Successes /\ call.kind = "commit" /\ Open("waiting")
          \/ w \in Successes /\ call.kind = "file" /\ Step("body") /\ UNCHANGED editor
          \/ /\ w \notin Successes \/ call.kind = "command"
             /\ UNCHANGED editor /\ End(Response(w))

\* The handler may fail, and the call returns with the rest unread; it may call
\* the session, and waits for the mutex it holds itself.  lock-many keeps what
\* it reads.
ReadBody ==
  /\ pc = "body" /\ UNCHANGED editor
  /\ \E w \in Replies :
       /\ Receive(w)
       /\ \/ w = "entry" /\ Step("body")
          \/ w = "entry" /\ call.kind # "many" /\ End("handler")
          \/ w = "entry" /\ call.kind = "stream" /\ Step("nested")
          \/ w = "done" /\ Step("tail")
          \/ w \notin {"entry", "done"} /\ End("malformed")

\* A checksum that differs and the callbacks of lock-many fail after the answer.
ReadTail ==
  /\ pc = "tail" /\ UNCHANGED editor
  /\ \E w \in Replies :
       /\ Receive(w)
       /\ \/ End(Response(w))
          \/ w \in Successes /\ call.kind \in {"many", "file"} /\ End("handler")

Reading == {"auth", "response", "body", "tail", "finish-auth", "drive", "drain",
            "outer", "bad", "info-auth", "info"}

ReadError ==
  /\ pc \in Reading /\ ReadFails
  /\ Quiet /\ UNCHANGED editor /\ End("io")

-----------------------------------------------------------------------------
(***************************************************************************)
(* Reporter.  The caller sends, then finishes or aborts; after an error of *)
(* its own or of a send it aborts.                                         *)
(***************************************************************************)
Idle(next) == Quiet /\ Go(next) /\ UNCHANGED <<hook, overdue, mu>>

ReporterSend ==
  /\ pc = "open" /\ call.kind = "report" /\ left > 0
  /\ \/ ctx.done /\ Idle("abandon") /\ UNCHANGED editor
     \/ /\ Quiet /\ Enter("send") /\ left' = left - 1
        /\ UNCHANGED <<done, response, written, word, stray>>

WriteSend ==
  /\ pc = "send" /\ UNCHANGED editor
  /\ \/ Send("send") /\ Leave("open")
     \/ SendFails /\ Leave("abandon")

CloseReport(from, next) ==
  /\ pc \in from /\ call.kind = "report"
  /\ done' = TRUE /\ UNCHANGED <<left, response, written, word, stray>>
  /\ Quiet
  /\ \/ ctx.done /\ Unlock /\ Return("ctx") /\ UNCHANGED <<hook, overdue>>
     \/ Enter(next)

FinishReport == CloseReport({"open"}, "finish-report")

AbortReport == CloseReport({"open", "abandon"}, "abort-report")

WriteAbortReport ==
  /\ pc = "abort-report" /\ UNCHANGED editor
  /\ \/ Send("abort-report") /\ End("aborted")
     \/ SendFails /\ End("io")

WriteFinishReport ==
  /\ pc = "finish-report" /\ UNCHANGED editor
  /\ \/ Send("finish-report") /\ Step("finish-auth")
     \/ SendFails /\ End("io")

AuthenticateFinish ==
  /\ pc = "finish-auth" /\ UNCHANGED editor
  /\ \E w \in Replies :
       /\ Receive(w)
       /\ \/ w = "auth" /\ Step("drive")
          \/ w # "auth" /\ End(IF w = "failed" THEN w ELSE "malformed")

\* driveEditor and dispatch; the editor may fail at any command.
DriveEditor ==
  /\ pc = "drive" /\ UNCHANGED editor
  /\ \E w \in Replies :
       /\ Receive(w)
       /\ \/ w = "edit" /\ Step("drive")
          \/ w \in {"close-edit", "abort-edit"} /\ Step("accept")
          \/ w = "close-edit" /\ Step("fail-close")
          \/ w = "abort-edit" /\ Step("accept-fail")
          \/ w \notin Shapeless \cup {"close-edit", "abort-edit"} /\ Step("fail")
          \/ w \in Shapeless /\ Step("bad")

\* Mutant: driveEditor that returns without draining the rest of the edit.
WriteFailureUndrained ==
  /\ pc \in {"fail", "fail-close"} /\ UNCHANGED editor
  /\ Send("failed") \/ SendFails
  /\ Step("bad")

WriteFailure ==
  /\ pc \in {"fail", "fail-close"} /\ UNCHANGED editor
  /\ \/ Send("failed") /\ Step(IF pc = "fail" THEN "drain" ELSE "bad")
     \/ SendFails /\ Step("bad")

DrainEditor ==
  /\ pc = "drain" /\ UNCHANGED editor
  /\ \E w \in Replies :
       /\ Receive(w)
       /\ Step(IF w = "abort-edit" THEN "drained"
               ELSE IF w \in Shapeless THEN "bad" ELSE "drain")

\* Mutant: drainEditor that leaves the abort-edit unanswered.
WriteAcceptedSilent ==
  /\ pc \in {"accept", "accept-fail", "drained"} /\ UNCHANGED editor
  /\ \/ pc = "drained" /\ Quiet /\ Step("bad")
     \/ /\ pc # "drained" /\ Send("ok")
        /\ Step(IF pc = "accept" THEN "outer" ELSE "fail")
     \/ SendFails /\ Step("bad")

WriteAccepted ==
  /\ pc \in {"accept", "accept-fail", "drained"} /\ UNCHANGED editor
  /\ \/ Send("ok") /\ Step(CASE pc = "accept"      -> "outer"
                          [] pc = "accept-fail" -> "fail"
                          [] pc = "drained"     -> "bad")
     \/ SendFails /\ Step("bad")

\* The answer to the report, after an edit that succeeded or failed.
ReadOuter ==
  /\ pc \in {"outer", "bad"} /\ UNCHANGED editor
  /\ \E w \in Replies :
       Receive(w) /\ End(IF pc = "outer" THEN Response(w) ELSE "editor")

-----------------------------------------------------------------------------
(***************************************************************************)
(* Commit editor.                                                          *)
(***************************************************************************)

\* send looks for an early answer first; the abort-edit it then writes is
\* under no context.
CommitSend ==
  /\ pc = "open" /\ call.kind = "commit" /\ left > 0
  /\ Quiet
  /\ \/ /\ response # "waiting"
        /\ done' = TRUE /\ response' = "none"
        /\ outcome' = IF response = "ok" THEN "malformed" ELSE response
        /\ pc' = "early"
        /\ UNCHANGED <<overdue, hook, mu, ctx, call, left, written, word, stray, history>>
     \/ /\ response = "waiting"
        /\ \/ ctx.done /\ Go("abandon") /\ UNCHANGED <<overdue, hook, mu, editor>>
           \/ /\ Enter("send") /\ left' = left - 1
              /\ UNCHANGED <<done, response, written, word, stray>>

WriteEarlyAbort ==
  /\ pc = "early" /\ UNCHANGED <<overdue, hook, editor>>
  /\ Send("abort-edit") \/ SendFails
  /\ Unlock /\ Go("abandon")

\* CloseEdit and AbortEdit up to finish's goroutine; when the context is done
\* finish does not start, and nobody waits for the response any more.
StartFinish(w) ==
  /\ Enter("finish") /\ word' = w /\ written' = "writing" /\ done' = TRUE
  /\ UNCHANGED <<left, response, stray, outcome>>

Disown ==
  /\ done' = TRUE /\ response' = "none"
  /\ stray' = (stray \/ response = "waiting")
  /\ UNCHANGED <<left, written, word>>

CloseEdit ==
  /\ pc = "open" /\ call.kind = "commit" /\ Quiet
  /\ \/ StartFinish("close-edit")
     \/ /\ ctx.done /\ Disown
        /\ outcome' = "ctx" /\ pc' = "abort-edit"
        /\ UNCHANGED <<overdue, hook, mu, ctx, call, history>>

AbortEdit ==
  /\ pc \in {"open", "abandon"} /\ call.kind = "commit" /\ Quiet
  /\ \/ done /\ UNCHANGED <<overdue, hook, mu, editor>> /\ Return(outcome)
     \/ ~done /\ StartFinish("abort-edit")
     \/ ~done /\ ctx.done /\ Disown /\ Unlock /\ Return("ctx") /\ UNCHANGED <<overdue, hook>>

\* Mutant: CloseEdit that takes the command written for the commit made.
FinishOptimistic ==
  /\ pc = "finish" /\ written # "writing" /\ response # "waiting"
  /\ Quiet
  /\ response' = "none" /\ written' = "none" /\ UNCHANGED <<left, done, word, stray>>
  /\ End(IF word = "abort-edit" THEN "aborted" ELSE written)

\* finish has both results; CloseEdit goes on without interruptOnCancel.
Finish ==
  /\ pc = "finish" /\ written # "writing" /\ response # "waiting"
  /\ Quiet
  /\ response' = "none" /\ written' = "none" /\ UNCHANGED <<left, done, word, stray>>
  /\ LET o == IF response # "ok" THEN response ELSE written IN
     \/ word = "abort-edit" /\ End(IF o = "ok" THEN "aborted" ELSE o)
     \/ word = "close-edit" /\ o = "ok" /\ Leave("info-auth")
     \/ /\ word = "close-edit" /\ o # "ok"
        /\ Stop /\ outcome' = o /\ pc' = "abort-edit"
        /\ UNCHANGED <<mu, ctx, call, history>>

WriteAbortEdit ==
  /\ pc = "abort-edit" /\ UNCHANGED editor
  /\ Send("abort-edit") \/ SendFails
  /\ End(outcome)

AuthenticateInfo ==
  /\ pc = "info-auth" /\ UNCHANGED editor
  /\ \E w \in Replies :
       /\ Receive(w)
       /\ \/ w = "auth" /\ Step("info")
          \/ w # "auth" /\ End(IF w = "failed" THEN w ELSE "malformed")

ReadInfo ==
  /\ pc = "info" /\ UNCHANGED editor
  /\ \E w \in Replies :
       Receive(w) /\ End(IF w = "info" THEN "ok" ELSE "malformed")

\* What a goroutine leaves of the rest.
Elsewhere == UNCHANGED <<overdue, hook, mu, ctx, call, pc, outcome, history,
                         left, done, word>>

\* startCommit's goroutine, or one whose editor has gone.
AwaitResponse ==
  /\ Elsewhere /\ UNCHANGED written
  /\ \E answer \in {"ok", "failed", "malformed", "io"} :
       /\ \/ answer # "io" /\ \E w \in Replies : Receive(w) /\ answer = Response(w)
          \/ answer = "io" /\ ReadFails /\ Quiet
       /\ \/ response = "waiting" /\ response' = answer /\ UNCHANGED stray
          \/ stray /\ stray' = FALSE /\ UNCHANGED response

\* finish's goroutine
WriteWord ==
  /\ written = "writing"
  /\ Elsewhere /\ UNCHANGED <<response, stray>>
  /\ \/ Send(word) /\ written' = "ok"
     \/ SendFails /\ written' = "io"

-----------------------------------------------------------------------------
(***************************************************************************)
(* The server.  It works through out before it reads on.                   *)
(***************************************************************************)
Serve ==
  /\ UNCHANGED <<cut, overdue, jammed, cancel, mu, call, pc, editor, outcome, history>>

Entries == UNION {[1 .. k -> {"entry"}] : k \in 0 .. MaxItems}

\* The answers to a command of each kind.
Answers(kind) ==
  CASE kind = "command" -> {<<"auth", "ok">>, <<"auth", "failed">>}
    [] kind = "file"    -> {<<"auth", "failed">>} \cup
                           {<<"auth", "ok">> \o e \o <<"done", r>> :
                              e \in Entries, r \in {"ok", "failed"}}
    [] kind \in {"stream", "many"} ->
                           {<<"auth">> \o e \o <<"done", r>> :
                              e \in Entries, r \in {"ok", "failed"}}
    [] kind = "report"  -> {<<"auth">>}
    [] kind = "commit"  -> {<<"auth", "ok">>, <<"auth", "failed">>}

\* The server's state after a command it answers so.
Mode(kind, answer) ==
  IF "failed" \in {answer[i] : i \in DOMAIN answer} THEN "ready"
  ELSE CASE kind = "report" -> "report" [] kind = "commit" -> "edit"
         [] OTHER -> "ready"

SrvSend ==
  /\ srv.out # <<>> /\ ~cut /\ Len(s2c) < Cap
  /\ s2c' = Append(s2c, Head(srv.out))
  /\ srv' = [srv EXCEPT !.out = Tail(@)]
  /\ UNCHANGED <<c2s, made>> /\ Serve

\* The next request, in the given mode.
SrvRead(mode, w) ==
  /\ srv.mode = mode /\ srv.out = <<>>
  /\ c2s # <<>> /\ Head(c2s).what = w
  /\ c2s' = Tail(c2s) /\ UNCHANGED s2c /\ Serve

SrvGoes(mode, out) == srv' = [srv EXCEPT !.mode = mode, !.out = out]

\* A command, or an unknown one, which is refused without a request.
SrvCommand ==
  /\ UNCHANGED made
  /\ \/ /\ SrvRead("ready", "command")
        /\ \E answer \in Answers(Head(c2s).call.kind) :
             srv' = [mode |-> Mode(Head(c2s).call.kind, answer),
                     call |-> Head(c2s).call, out |-> answer, left |-> MaxItems]
     \/ \E w \in Requests :
          SrvRead("ready", w) /\ SrvGoes("ready", <<"failed">>)

\* A report that names what is not there is rejected when it is finished.
SrvReport ==
  /\ UNCHANGED made
  /\ \/ SrvRead("report", "send") /\ UNCHANGED srv
     \/ SrvRead("report", "finish-report") /\ SrvGoes("drive", <<"auth">>)
     \/ SrvRead("report", "finish-report") /\ SrvGoes("ready", <<"auth", "failed">>)
     \/ SrvRead("report", "abort-report") /\ SrvGoes("ready", <<>>)
     \/ \E w \in Requests \ {"send", "finish-report", "abort-report"} :
          SrvRead("report", w) /\ SrvGoes("ready", <<"failed">>)

\* The commit's edit: it may fail at any item, and is then read to its abort.
SrvEdit ==
  \/ SrvRead("edit", "send") /\ UNCHANGED <<srv, made>>
  \/ /\ SrvRead("edit", "close-edit") /\ SrvGoes("ready", <<"ok", "auth", "info">>)
     /\ made' = made \cup {srv.call.n}
  \/ SrvRead("edit", "abort-edit") /\ SrvGoes("ready", <<"ok">>) /\ UNCHANGED made
  \/ \E w \in Requests \ {"abort-edit"} :
       SrvRead("edit", w) /\ SrvGoes("flush", <<"failed">>) /\ UNCHANGED made
  \/ \E w \in Requests :
       /\ SrvRead("flush", w) /\ UNCHANGED made
       /\ SrvGoes(IF w = "abort-edit" THEN "ready" ELSE "flush", <<>>)

\* The server drives an edit, and looks for a failure between two commands.
SrvDrive ==
  /\ srv.mode = "drive" /\ srv.out = <<>> /\ UNCHANGED made
  /\ \/ /\ srv.left > 0 /\ srv' = [srv EXCEPT !.left = @ - 1, !.out = <<"edit">>]
        /\ UNCHANGED <<c2s, s2c>> /\ Serve
     \/ SrvGoes("reply", <<"close-edit">>) /\ UNCHANGED <<c2s, s2c>> /\ Serve
     \/ SrvGoes("aborted", <<"abort-edit">>) /\ UNCHANGED <<c2s, s2c>> /\ Serve
     \/ SrvRead("drive", "failed") /\ SrvGoes("aborted", <<"abort-edit">>)

\* After close-edit there is no abort-edit; after abort-edit a failure that
\* crossed it is passed over.
SrvReply ==
  /\ UNCHANGED made
  /\ \/ SrvRead("reply", "ok") /\ \E r \in {"ok", "failed"} : SrvGoes("ready", <<r>>)
     \/ \E w \in Requests \ {"ok"} : SrvRead("reply", w) /\ SrvGoes("ready", <<"failed">>)
     \/ SrvRead("aborted", "ok") /\ SrvGoes("ready", <<"failed">>)
     \/ \E w \in Requests \ {"ok"} : SrvRead("aborted", w) /\ UNCHANGED srv

\* The connection is lost, or the client closes it.
Lose ==
  /\ ~cut /\ cut' = TRUE
  /\ UNCHANGED <<c2s, s2c, overdue, jammed, cancel, mu, call, pc, editor, outcome,
                 server, history>>

-----------------------------------------------------------------------------
Call ==
  \/ Lock \/ WriteCommand \/ Authenticate \/ ReadResponse \/ ReadBody \/ ReadTail
  \/ ReadError
  \/ ReporterSend \/ WriteSend \/ FinishReport \/ AbortReport \/ WriteAbortReport
  \/ WriteFinishReport \/ AuthenticateFinish \/ DriveEditor \/ WriteFailure
  \/ DrainEditor \/ WriteAccepted \/ ReadOuter
  \/ CommitSend \/ WriteEarlyAbort \/ CloseEdit \/ AbortEdit \/ Finish
  \/ WriteAbortEdit \/ AuthenticateInfo \/ ReadInfo

Server == SrvSend \/ SrvCommand \/ SrvReport \/ SrvEdit \/ SrvDrive \/ SrvReply

Next ==
  \/ \E kind \in Kinds, ctxKind \in CtxKinds : Begin(kind, ctxKind)
  \/ Call \/ AwaitResponse \/ WriteWord
  \/ Server
  \/ Cancel \/ Interrupt \/ Lose

\* The client's goroutines run; the server and the network owe nothing.
Fairness ==
  /\ WF_vars(Call) /\ WF_vars(AwaitResponse) /\ WF_vars(WriteWord)
  /\ WF_vars(Interrupt)

Spec == Init /\ [][Next]_vars /\ Fairness
-----------------------------------------------------------------------------
(***************************************************************************)
(* Properties.                                                             *)
(***************************************************************************)
\* A call that succeeds, or fails because the server or the items it read say
\* so, leaves a connection that is closed or has nothing left in it, so that
\* the next call reads its own answer: an edit that failed on either side, a
\* report aborted, a lock-many whose callback failed.  Only a context that
\* ends, a handler's error and an interruption too many leave it out of step.
StaysInStep == torn \in {"no", "ctx", "handler", "io"}

\* What a commit is reported to be it is: success only if it was made, a
\* failure the server reports only if it was not.
CommitTruth ==
  torn = "no" => \A t \in told :
                    /\ t.call.kind = "commit" /\ t.as = "ok" => t.call.n \in made
                    /\ t.as \in {"failed", "aborted"} => t.call.n \notin made

\* Waits no cancelling ends: sync.Mutex has none, and CloseEdit and an early
\* abort write and read outside finish's interruptOnCancel.
Unhooked == {"nested", "lock", "early", "abort-edit", "info-auth", "info"}

\* A call whose context ends returns, whatever the server does, unless it is
\* in one of those waits.
CancelReturns == [](pc # "idle" /\ ctx.done => <>(pc = "idle" \/ pc \in Unhooked))

\* driveEditor takes the failure that answers a rejected report, or crosses
\* close-edit, for an editor command and drains for an abort-edit that does
\* not come.
DrainsForEver == pc = "drain" /\ srv.mode = "ready" /\ srv.out = <<>> /\ s2c = <<>>

\* finish waits for an answer to what it could not write.
AwaitsInVain == pc = "finish" /\ written = "io" /\ ~cut /\ ~overdue

\* While the server keeps answering every call returns, but for a handler that
\* calls its own session and those two.
CallsReturn ==
  WF_vars(Server) =>
    [](pc # "idle" => <>(\/ pc \in {"idle", "nested"} \/ torn # "no"
                         \/ DrainsForEver \/ AwaitsInVain))
=============================================================================
