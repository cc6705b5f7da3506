------------------------------ MODULE EngineHost ------------------------------
(***************************************************************************)
(* The engine hosts of packages/engine/src: host.ts on the page's side,    *)
(* worker.ts and protocol.ts on the worker's, module.ts for the engine on  *)
(* the page's own thread.  A page calls an engine that lives in a worker;  *)
(* studies stay in the worker behind handles that the page allocates.  A   *)
(* worker that fails before its first answer hands its calls over to the   *)
(* page's thread, one that crashes later takes its studies with it.        *)
(*                                                                         *)
(* A call is a number, in the order in which the page makes them; a study  *)
(* has the number of the call that creates it, and its contents are the    *)
(* edits applied to it.  The shared host serves studies; an isolated host  *)
(* serves one long call (callIsolated, solveMcModule, solveMcStudy).       *)
(***************************************************************************)
EXTENDS Naturals, Sequences, SequencesExt, FiniteSets

CONSTANTS
  MaxCalls,     \* bound on the calls a page makes
  MaxHosts,     \* bound on the worker hosts it creates
  MaxLoads,     \* bound on the failed loads of the wasm module in an engine
  Ops,          \* the kinds of calls that the page makes
  PageTraps,    \* whether an engine call on the page's own thread may trap
  None          \* null

ASSUME HostAssumption ==
  /\ MaxCalls \in Nat \ {0}
  /\ MaxHosts \in Nat \ {0}
  /\ MaxLoads \in Nat
  /\ Ops \subseteq {"create", "edit", "free", "run", "solve"}
  /\ PageTraps \in BOOLEAN
  /\ None \notin Nat

Page == 0
Workers == 1..MaxHosts
Engines == {Page} \cup Workers
Calls == 1..MaxCalls

VARIABLES
  active,    \* activeHost: None, a worker host, or Page for directHost
  calls,     \* the calls made so far, with what became of their promises
  host,      \* WorkerHost: #failed as state, #answered, #pending
  thread,    \* the worker behind a host: its state, the messages it has not taken
  outbox,    \* messages and error events on their way from a worker to the page
  engine     \* the wasm instance of a worker, or of the page, and its handlers

vars == <<active, calls, host, thread, outbox, engine>>

------------------------------------------------------------------------------
(* State. *)

\* Fields of an engine: load is wasmReady or engineReady; waiting are handlers
\* that await it; running are study_document_run calls between two trials; hung
\* are those of them whose poll has trapped, which nobody will settle; finished are answers that the handlers have not given yet; table holds the
\* handles; stops are the calls that a cancelled() callback answers true for.
NewEngine ==
  [load |-> "none", fails |-> 0, trapped |-> FALSE, waiting |-> <<>>,
   running |-> {}, hung |-> {}, finished |-> <<>>, table |-> <<>>, stops |-> {}]

Init ==
  /\ active = None
  /\ calls = <<>>
  /\ host = [w \in Workers |->
       [state |-> "unused", isolated |-> FALSE, answered |-> FALSE, pending |-> <<>>]]
  /\ thread = [w \in Workers |-> [state |-> "none", inbox |-> <<>>]]
  /\ outbox = [w \in Workers |-> <<>>]
  /\ engine = [i \in Engines |-> NewEngine]

\* Hosts are numbered in the order of their creation.
NewHost(w) ==
  /\ host[w].state = "unused"
  /\ \A v \in Workers : v < w => host[v].state # "unused"

\* emptyHandles, .set, .get, .delete: a table is a function on its handles.
Put(table, h, log) == [k \in DOMAIN table \cup {h} |-> IF k = h THEN log ELSE table[k]]
Drop(table, h) == [k \in DOMAIN table \ {h} |-> table[k]]

\* The promises of the calls S settle.  A caller that aborted what it could not
\* interrupt discards the answer (signal.throwIfAborted).
Settle(cs, S, result) ==
  [c \in DOMAIN cs |->
     IF c \in S /\ cs[c].outcome = "pending"
     THEN [cs[c] EXCEPT !.outcome =
             IF cs[c].aborted /\ cs[c].op # "run" THEN "aborted" ELSE result]
     ELSE cs[c]]

\* Mutant of Await: the handler that comes last runs first.
AwaitLastFirst(e, cs) ==
  [e EXCEPT !.waiting = cs \o @, !.load = IF @ = "none" THEN "loading" ELSE @]

\* engineModule or wasmModule, then the handler awaits it.
Await(e, cs) ==
  [e EXCEPT !.waiting = @ \o cs, !.load = IF @ = "none" THEN "loading" ELSE @]

\* A call on a direct host: rejected at once when the module cannot be used.
Direct(e, cs) == IF e.load = "unsupported" THEN e ELSE Await(e, cs)

------------------------------------------------------------------------------
(* The page's side: engineHost, isolatedEngineHost, call, cancel, stop. *)

\* callTimed of the host that serves call c: post to the worker, forward to the
\* page's thread, or reject because the host is gone.
Dispatch(c, r, hosts, w) ==
  LET state == IF w = Page THEN "direct" ELSE hosts[w].state
      rejected == state = "dropped" \/
                  (state \in {"direct", "forwarding"} /\ engine[Page].load = "unsupported")
  IN
  /\ calls' = Append(calls, [r EXCEPT !.outcome = IF rejected THEN "error" ELSE "pending"])
  /\ host' = IF state = "serving" THEN [hosts EXCEPT ![w].pending = Append(@, c)] ELSE hosts
  /\ thread' = IF state = "serving"
               THEN [thread EXCEPT ![w] =
                       [state |-> IF @.state = "none" THEN "up" ELSE @.state,
                        inbox |-> Append(@.inbox, [type |-> "request", call |-> c])]]
               ELSE thread
  /\ engine' = IF state \in {"direct", "forwarding"}
               THEN [engine EXCEPT ![Page] = Direct(@, <<c>>)] ELSE engine

NextCall == Len(calls) + 1

Request(op, handle, w) ==
  [op |-> op, handle |-> handle, host |-> w, outcome |-> "pending",
   aborted |-> FALSE, sound |-> TRUE]

\* createHost for the host w: the Worker constructor may be missing or throw,
\* then the host is a direct one.
Created(w, state, isolated) ==
  [host EXCEPT ![w].state = state, ![w].isolated = isolated]

\* createStudy: the handle is the call's own number.
CreateStudy ==
  /\ "create" \in Ops
  /\ Len(calls) < MaxCalls
  /\ \/ /\ active # None
        /\ Dispatch(NextCall, Request("create", NextCall, active), host, active)
        /\ UNCHANGED active
     \/ /\ active = None
        /\ \E w \in Workers :
             /\ NewHost(w)
             /\ \/ /\ active' = w
                   /\ Dispatch(NextCall, Request("create", NextCall, w),
                               Created(w, "serving", FALSE), w)
                \/ /\ active' = Page
                   /\ Dispatch(NextCall, Request("create", NextCall, Page), host, Page)
  /\ UNCHANGED outbox

\* A method of BrowserStudy: the study keeps the host that it was created on.
UseStudy ==
  /\ Len(calls) < MaxCalls
  /\ \E h \in DOMAIN calls, op \in {"edit", "free"} \cap Ops :
       /\ calls[h].op = "create"
       /\ calls[h].outcome = "ok"
       /\ \A c \in DOMAIN calls : ~(calls[c].op = "free" /\ calls[c].handle = h)
       /\ Dispatch(NextCall, Request(op, h, calls[h].host), host, calls[h].host)
  /\ UNCHANGED <<active, outbox>>

\* callIsolated, solveMcModule, solveMcStudy: a host of their own for one call.
CallIsolated ==
  /\ Len(calls) < MaxCalls
  /\ \E op \in {"run", "solve"} \cap Ops, w \in Workers, state \in {"serving", "direct"} :
       /\ NewHost(w)
       /\ Dispatch(NextCall, Request(op, None, w), Created(w, state, TRUE), w)
  /\ UNCHANGED <<active, outbox>>

\* retireShared.
Retired(w, replacement) == IF active = w THEN replacement ELSE active

\* WorkerHost.cancel on a serving host: the worker is terminated, every
\* pending call rejected.
Cancel(w, result) ==
  /\ host' = [host EXCEPT ![w].state = "dropped", ![w].pending = <<>>]
  /\ thread' = [thread EXCEPT ![w] = [state |-> "gone", inbox |-> <<>>]]
  /\ engine' = [engine EXCEPT ![w] = NewEngine]
  /\ active' = Retired(w, None)
  /\ calls' = Settle(calls, ToSet(host[w].pending), result)

\* The AbortSignal of call c fires: a cooperative run is asked to stop, anything
\* else cancels its host when that can be interrupted.
Abort(c) ==
  /\ calls[c].outcome = "pending"
  /\ ~calls[c].aborted
  /\ LET w == calls[c].host
         state == IF w = Page THEN "direct" ELSE host[w].state
         marked == [calls EXCEPT ![c].aborted = TRUE]
     IN
     \/ /\ calls[c].op = "run"
        /\ calls' = marked
        /\ \/ /\ state = "serving"
              /\ thread' = [thread EXCEPT ![w].inbox = Append(@, [type |-> "stop", call |-> c])]
              /\ UNCHANGED engine
           \/ /\ state \in {"forwarding", "direct"}
              /\ engine' = [engine EXCEPT ![Page].stops = @ \cup {c}]
              /\ UNCHANGED thread
        /\ UNCHANGED <<active, host>>
     \/ /\ calls[c].op # "run"
        /\ \/ /\ state = "serving"
              /\ Cancel(w, "aborted")
           \/ /\ state \in {"forwarding", "direct"}
              /\ calls' = marked
              /\ UNCHANGED <<active, host, thread, engine>>
  /\ UNCHANGED outbox

------------------------------------------------------------------------------
(* The page's side: what arrives from a worker. *)

\* The finally of an isolated call: its host is cancelled once it is answered.
Finished(w) == IF host[w].isolated THEN "dropped" ELSE host[w].state

\* worker.onmessage with an answer that is not fatal: it settles the pending
\* call that it is for, if there is one.
ReceiveAnswer(w) ==
  /\ outbox[w] # <<>>
  /\ outbox' = [outbox EXCEPT ![w] = Tail(@)]
  /\ LET a == Head(outbox[w]) IN
     /\ a.answer \in {"ok", "cancelled", "error"}
     /\ \/ /\ a.call \notin ToSet(host[w].pending)
           /\ host' = [host EXCEPT ![w].answered = TRUE]
           /\ UNCHANGED <<calls, thread, engine>>
        \/ /\ \E k \in DOMAIN host[w].pending :
                /\ host[w].pending[k] = a.call
                /\ host' = [host EXCEPT ![w].answered = TRUE, ![w].state = Finished(w),
                                        ![w].pending = RemoveAt(@, k)]
           /\ calls' = Settle([calls EXCEPT ![a.call].sound = a.sound], {a.call}, a.answer)
           /\ thread' = IF host[w].isolated
                        THEN [thread EXCEPT ![w] = [state |-> "gone", inbox |-> <<>>]] ELSE thread
           /\ engine' = IF host[w].isolated THEN [engine EXCEPT ![w] = NewEngine] ELSE engine
  /\ UNCHANGED active

\* Mutant of FailAnswered: a host that has answered is replaced as well.
FailAnsweredForwards(w) ==
  /\ host' = [host EXCEPT ![w].state = "forwarding", ![w].answered = TRUE, ![w].pending = <<>>]
  /\ active' = Retired(w, Page)
  /\ engine' = [engine EXCEPT ![w] = NewEngine]
  /\ calls' = Settle(calls, ToSet(host[w].pending), "error")

\* #fail of a worker that has answered: callers see their calls fail.
FailAnswered(w) ==
  /\ host' = [host EXCEPT ![w].state = "dropped", ![w].answered = TRUE, ![w].pending = <<>>]
  /\ active' = Retired(w, None)
  /\ engine' = [engine EXCEPT ![w] = NewEngine]
  /\ calls' = Settle(calls, ToSet(host[w].pending), "error")

\* Mutant of FailUnanswered: the pending requests are not replayed.
FailUnansweredLost(w) ==
  /\ host' = [host EXCEPT ![w].state = "forwarding", ![w].pending = <<>>]
  /\ active' = Retired(w, Page)
  /\ engine' = [engine EXCEPT ![w] = NewEngine]
  /\ UNCHANGED calls

\* #fail of a worker that never answered: its requests move to the page's thread.
FailUnanswered(w) ==
  /\ host' = [host EXCEPT ![w].state = "forwarding", ![w].pending = <<>>]
  /\ active' = Retired(w, Page)
  /\ engine' = [engine EXCEPT ![w] = NewEngine,
                              ![Page] = Direct(@, host[w].pending)]
  /\ calls' = IF engine[Page].load = "unsupported"
              THEN Settle(calls, ToSet(host[w].pending), "error") ELSE calls

\* #fail: only the first failure of a host counts.
Fail(w, answered) ==
  IF host[w].state # "serving"
  THEN /\ host' = [host EXCEPT ![w].answered = answered]
       /\ UNCHANGED <<active, calls, thread, engine>>
  ELSE /\ thread' = [thread EXCEPT ![w] = [state |-> "gone", inbox |-> <<>>]]
       /\ IF answered THEN FailAnswered(w) ELSE FailUnanswered(w)

\* worker.onmessage with a fatal answer: that call and the rest of the queue
\* are rejected.
ReceiveFatal(w) ==
  /\ outbox[w] # <<>>
  /\ Head(outbox[w]).answer = "fatal"
  /\ outbox' = [outbox EXCEPT ![w] = Tail(@)]
  /\ Fail(w, TRUE)

\* worker.onerror, worker.onmessageerror.
ReceiveError(w) ==
  /\ outbox[w] # <<>>
  /\ Head(outbox[w]).answer = "event"
  /\ outbox' = [outbox EXCEPT ![w] = Tail(@)]
  /\ Fail(w, host[w].answered)

------------------------------------------------------------------------------
(* The worker's side, and the engine on the page's thread. *)

\* Mutant of Stopped: a stop that comes before its request runs is forgotten.
StoppedWhenRunning(e, c) == IF c \in e.running THEN [e EXCEPT !.stops = @ \cup {c}] ELSE e

\* cancel_study_operation: cancelledOperations remembers the request's number.
Stopped(e, c) == [e EXCEPT !.stops = @ \cup {c}]

\* scope.onmessage up to its first await.
TakeMessage(w) ==
  /\ thread[w].state = "up"
  /\ thread[w].inbox # <<>>
  /\ thread' = [thread EXCEPT ![w].inbox = Tail(@)]
  /\ LET m == Head(thread[w].inbox) IN
     \/ /\ m.type = "stop"
        /\ engine' = [engine EXCEPT ![w] = Stopped(@, m.call)]
     \/ /\ m.type = "request"
        /\ engine[w].load # "unsupported"
        /\ engine' = [engine EXCEPT ![w] = Await(@, <<m.call>>)]
     \/ /\ m.type = "request"
        /\ engine[w].load = "unsupported"
        /\ engine' = [engine EXCEPT ![w].finished =
             Append(@, [call |-> m.call, answer |-> "error", sound |-> TRUE])]
  /\ UNCHANGED <<active, calls, host, outbox>>

\* The worker's script fails to load or throws: an error event.
WorkerError(w) ==
  /\ thread[w].state = "up"
  /\ ~\E k \in DOMAIN outbox[w] : outbox[w][k].answer = "event"
  /\ outbox' = [outbox EXCEPT ![w] = Append(@, [call |-> None, answer |-> "event", sound |-> TRUE])]
  /\ UNCHANGED <<active, calls, host, thread, engine>>

Answers(cs, answer) == [k \in DOMAIN cs |-> [call |-> cs[k], answer |-> answer, sound |-> TRUE]]

\* The wasm module is there.
Load(i) ==
  /\ engine[i].load = "loading"
  /\ engine' = [engine EXCEPT ![i].load = "ready"]
  /\ UNCHANGED <<active, calls, host, thread, outbox>>

\* It is not: a transient failure is forgotten, a missing capability is final.
LoadFails(i) ==
  /\ engine[i].load = "loading"
  /\ engine[i].fails < MaxLoads
  /\ \E next \in {"none", "unsupported"} :
       engine' = [engine EXCEPT ![i].load = next, ![i].fails = @ + 1, ![i].waiting = <<>>,
                    ![i].finished = @ \o Answers(engine[i].waiting, "error")]
  /\ UNCHANGED <<active, calls, host, thread, outbox>>

\* What runRequest may do to the handle table for call c: the table afterwards
\* and the answer.
Effects(c, table) ==
  LET r == calls[c] IN
  {[table |-> table, answer |-> "error"]} \cup
  CASE r.op = "create" -> {[table |-> Put(table, r.handle, <<>>), answer |-> "ok"]}
    [] r.op = "edit" -> IF r.handle \in DOMAIN table
         THEN {[table |-> Put(table, r.handle, Append(table[r.handle], c)), answer |-> "ok"]}
         ELSE {}
    [] r.op = "free" -> {[table |-> Drop(table, r.handle), answer |-> "ok"]}
    [] OTHER -> {[table |-> table, answer |-> "ok"]}

\* The first handler that awaited the module runs its request; a
\* study_document_run only begins.  Nothing runs in between: handlers continue
\* in the order in which they started to wait.  A trap is thrown to the handler,
\* for a run only while its arguments are copied to the instance: what it does
\* when it is polled is EndRun or TrapRun.
Execute(i) ==
  /\ engine[i].load = "ready"
  /\ engine[i].waiting # <<>>
  /\ LET c == Head(engine[i].waiting)
         e == [engine[i] EXCEPT !.waiting = Tail(@)]
         done(table, answer) ==
           [e EXCEPT !.table = table,
              !.finished = Append(@, [call |-> c, answer |-> answer, sound |-> ~e.trapped])]
     IN
     \/ /\ calls[c].op = "run"
        /\ engine' = [engine EXCEPT ![i] = [e EXCEPT !.running = @ \cup {c}]]
     \/ /\ calls[c].op # "run"
        /\ \E x \in Effects(c, e.table) : engine' = [engine EXCEPT ![i] = done(x.table, x.answer)]
     \/ /\ i # Page \/ PageTraps
        /\ engine' = [engine EXCEPT ![i] = [done(e.table, "fatal") EXCEPT !.trapped = TRUE]]
  /\ UNCHANGED <<active, calls, host, thread, outbox>>

\* Mutant of EndRun: a run that nobody stops goes on for ever.
EndRunStopped(i, c) ==
  /\ c \in engine[i].running \ engine[i].hung
  /\ engine' = IF c \in engine[i].stops
               THEN [engine EXCEPT ![i].running = @ \ {c},
                       ![i].finished = Append(@, [call |-> c, answer |-> "cancelled",
                                                  sound |-> ~engine[i].trapped])]
               ELSE engine
  /\ UNCHANGED <<active, calls, host, thread, outbox>>

\* study_document_run after a trial: it asks cancelled(), or it is finished.
EndRun(i, c) ==
  /\ c \in engine[i].running \ engine[i].hung
  /\ \E answer \in IF c \in engine[i].stops THEN {"cancelled"} ELSE {"ok", "error"} :
       engine' = [engine EXCEPT ![i].running = @ \ {c},
                    ![i].finished = Append(@, [call |-> c, answer |-> answer,
                                               sound |-> ~engine[i].trapped])]
  /\ UNCHANGED <<active, calls, host, thread, outbox>>

\* study_document_run traps when it is polled, or is not polled again after such a
\* trap.  It is an async export: the error is thrown to the event loop, not to the
\* promise, which stays pending.  The handler neither catches nor posts anything
\* and the worker stays open; that the event loop may report the error to
\* worker.onerror is WorkerError.
TrapRun(i, c) ==
  /\ c \in engine[i].running \ engine[i].hung
  /\ i # Page \/ PageTraps
  /\ engine' = [engine EXCEPT ![i].hung = @ \cup {c}, ![i].trapped = TRUE]
  /\ UNCHANGED <<active, calls, host, thread, outbox>>

\* Mutant of Answer: a trap is reported as an ordinary error.
AnswerOrdinary(w) ==
  /\ engine[w].finished # <<>>
  /\ LET a == Head(engine[w].finished) IN
     /\ outbox' = [outbox EXCEPT ![w] =
          Append(@, [a EXCEPT !.answer = IF @ = "fatal" THEN "error" ELSE @])]
     /\ engine' = [engine EXCEPT ![w].finished = Tail(@), ![w].stops = @ \ {a.call}]
  /\ UNCHANGED <<active, calls, host, thread>>

\* The handler posts its answer.  After a trap the worker clears its handles and
\* closes: it takes no further message, what it has begun may still post.
Answer(w) ==
  /\ engine[w].finished # <<>>
  /\ LET a == Head(engine[w].finished)
         e == [engine[w] EXCEPT !.finished = Tail(@), !.stops = @ \ {a.call}]
     IN
     /\ \/ outbox' = [outbox EXCEPT ![w] = Append(@, a)]
        \/ /\ a.answer # "fatal"             \* the answer cannot be read: onmessageerror
           /\ outbox' = [outbox EXCEPT ![w] = Append(@, [a EXCEPT !.answer = "event"])]
     /\ IF a.answer = "fatal"
        THEN /\ engine' = [engine EXCEPT ![w] = [e EXCEPT !.table = <<>>, !.load = "none"]]
             /\ thread' = [thread EXCEPT ![w] = [state |-> "closed", inbox |-> <<>>]]
        ELSE /\ engine' = [engine EXCEPT ![w] = e]
             /\ UNCHANGED thread
  /\ UNCHANGED <<active, calls, host>>

\* A call on a direct host settles.
DirectAnswer ==
  /\ engine[Page].finished # <<>>
  /\ LET a == Head(engine[Page].finished) IN
     /\ calls' = Settle([calls EXCEPT ![a.call].sound = a.sound], {a.call},
                        IF a.answer = "fatal" THEN "error" ELSE a.answer)
     /\ engine' = [engine EXCEPT ![Page].finished = Tail(@)]
  /\ UNCHANGED <<active, host, thread, outbox>>

------------------------------------------------------------------------------
(* The system. *)

PageStep == CreateStudy \/ UseStudy \/ CallIsolated \/ \E c \in DOMAIN calls : Abort(c)
Receive(w) == ReceiveAnswer(w) \/ ReceiveFatal(w) \/ ReceiveError(w)
EngineStep(i) == Load(i) \/ Execute(i) \/ \E c \in engine[i].running : EndRun(i, c)

\* A run whose promise nobody settles.
Hung(c) == \E i \in Engines : c \in engine[i].hung

\* Every promise of the page is settled that will be.
Done ==
  /\ \A c \in DOMAIN calls : calls[c].outcome # "pending" \/ Hung(c)
  /\ UNCHANGED vars

Next ==
  \/ PageStep
  \/ \E w \in Workers : Receive(w) \/ TakeMessage(w) \/ WorkerError(w) \/ Answer(w)
  \/ \E i \in Engines : EngineStep(i) \/ LoadFails(i) \/ \E c \in engine[i].running : TrapRun(i, c)
  \/ DirectAnswer
  \/ Done

Spec == Init /\ [][Next]_vars

\* Event loops run what is queued, the module's download ends, trials end.
Fairness ==
  /\ \A w \in Workers : WF_vars(Receive(w)) /\ WF_vars(TakeMessage(w)) /\ WF_vars(Answer(w))
  /\ \A i \in Engines : WF_vars(EngineStep(i))
  /\ WF_vars(DirectAnswer)

FairSpec == Spec /\ Fairness

------------------------------------------------------------------------------
(* Properties. *)

\* The handlers of engine i that still have call c.
Carried(c, i) ==
  \/ c \in ToSet(engine[i].waiting) \cup engine[i].running
  \/ \E k \in DOMAIN engine[i].finished : engine[i].finished[k].call = c
Posted(c, w) == \E k \in DOMAIN thread[w].inbox :
                  thread[w].inbox[k] = [type |-> "request", call |-> c]
Returning(c, w) == \E k \in DOMAIN outbox[w] :
                     outbox[w][k].call = c \/ outbox[w][k].answer \in {"fatal", "event"}

\* A promise that callTimed has given out is always owned by exactly one side:
\* by the pending map of a host whose worker, or whose failure event, will still
\* be heard of, or by the page's own engine - never by both (a call would be
\* settled by whichever is first) and never by neither (it would be forgotten).
\* A run that hangs is still owned by the handler that awaits it.
PendingIsOwnedOnce ==
  \A c \in DOMAIN calls :
    LET owners == {w \in Workers : c \in ToSet(host[w].pending)} IN
    calls[c].outcome = "pending" =>
      \/ /\ Carried(c, Page)
         /\ owners = {}
      \/ /\ ~Carried(c, Page)
         /\ \E w \in Workers :
              /\ owners = {w}
              /\ host[w].state = "serving"
              /\ Carried(c, w) \/ Posted(c, w) \/ Returning(c, w) \/ thread[w].state = "closed"

\* The engine that the next call on host w reaches.
Serving(w) == IF w # Page /\ host[w].state = "serving" THEN w ELSE Page
Reachable(w) == w = Page \/ host[w].state \in {"serving", "forwarding"}

Freed(h) == \E c \in DOMAIN calls : calls[c].op = "free" /\ calls[c].handle = h

\* An edit whose promise resolved is in the study that the next call on that
\* study reaches: a host may fail, but never continue without the edits it has
\* acknowledged (a crash after an answer rejects, only a worker that never
\* answered is replaced).
AcknowledgedEditsKept ==
  \A c \in DOMAIN calls :
    /\ calls[c].op = "edit"
    /\ calls[c].outcome = "ok"
    /\ Reachable(calls[c].host)
    /\ ~Freed(calls[c].handle)
    /\ calls[c].host \in Workers => thread[calls[c].host].state # "closed"
    =>
    LET table == engine[Serving(calls[c].host)].table IN
    /\ calls[c].handle \in DOMAIN table
    /\ \E k \in DOMAIN table[calls[c].handle] : table[calls[c].handle][k] = c

\* A study's edits take effect once each, in the order in which the page asked
\* for them.
EditsInOrder ==
  \A i \in Engines : \A h \in DOMAIN engine[i].table :
    LET log == engine[i].table[h] IN
    \A k \in 1..Len(log) - 1 : log[k] < log[k + 1]

\* No answer that a worker computed on an instance that had trapped before
\* reaches the caller as a result: the fatal answer, posted first, rejects
\* everything else that is pending.
WorkerAnswersAreSound ==
  \A c \in DOMAIN calls :
    calls[c].outcome = "ok" /\ calls[c].host # Page /\ host[calls[c].host].state \in {"serving", "dropped"}
      => calls[c].sound

\* Engine i works on a run that was asked to stop, and is bound to see it.
SeesStop(c, i) ==
  (calls[c].aborted /\ c \in engine[i].running) =>
    \/ c \in engine[i].stops
    \/ i # Page /\ \E k \in DOMAIN thread[i].inbox :
                     thread[i].inbox[k] = [type |-> "stop", call |-> c]

\* A study_document_run in a worker that was asked to stop, before or while it
\* runs, finds the stop when it asks, after its next trial.
WorkerSeesStop == \A c \in DOMAIN calls, w \in Workers : SeesStop(c, w)

\* Every call is settled - answered, failed over, rejected or aborted - with one
\* exception: a study_document_run whose own poll trapped, in the worker or when
\* it was replayed on the page's thread, awaits a promise that nothing settles,
\* and asking it to stop does not help.
CallsSettle ==
  \A c \in Calls :
    c \in DOMAIN calls ~> (c \in DOMAIN calls /\ (calls[c].outcome # "pending" \/ Hung(c)))
==============================================================================
