-------------------------- MODULE EngineHost_proofs --------------------------
(***************************************************************************)
(* Proofs about the engine hosts, for any number of calls, hosts and       *)
(* failed loads.                                                           *)
(*                                                                         *)
(* The argument: an engine works on its own calls only, takes each one up  *)
(* once and takes edits up in the order in which the page made them        *)
(* (Orderly).  A worker that serves owns the pending calls of its host     *)
(* (Serves), one that does not is empty (Idle), and everything else is     *)
(* with the engine on the page's thread (PageInv).  A host is replaced by  *)
(* the page's engine only before its first answer, when no study exists    *)
(* on it that could have been edited.                                      *)
(***************************************************************************)
EXTENDS EngineHost, SequenceTheorems, TLAPS

------------------------------------------------------------------------------
(* Types. *)

CallRecords ==
  [op : {"create", "edit", "free", "run", "solve"}, handle : Nat \cup {None}, host : Engines,
   outcome : {"pending", "ok", "error", "aborted", "cancelled"},
   aborted : BOOLEAN, sound : BOOLEAN]

HostRecords ==
  [state : {"unused", "serving", "forwarding", "direct", "dropped"},
   isolated : BOOLEAN, answered : BOOLEAN, pending : Seq(Nat)]

Messages == [type : {"request", "stop"}, call : Nat]

ThreadRecords == [state : {"none", "up", "gone", "closed"}, inbox : Seq(Messages)]

AnswerRecords ==
  [call : Nat \cup {None}, answer : {"ok", "cancelled", "error", "fatal", "event"}, sound : BOOLEAN]

\* A handler answers; only a host's worker reports an event.
NoEvents(s) == \A k \in DOMAIN s : s[k].answer # "event"

\* A handle table is a function with any set of handles as its domain.
IsEngine(e) ==
  /\ e = [load |-> e.load, fails |-> e.fails, trapped |-> e.trapped, waiting |-> e.waiting,
          running |-> e.running, finished |-> e.finished, table |-> e.table, stops |-> e.stops,
          hung |-> e.hung]
  /\ e.load \in {"none", "loading", "ready", "unsupported"}
  /\ e.trapped \in BOOLEAN
  /\ e.hung \subseteq e.running
  /\ e.waiting \in Seq(Nat)
  /\ e.load = "unsupported" => e.waiting = <<>>
  /\ e.finished \in Seq(AnswerRecords)
  /\ NoEvents(e.finished)
  /\ \A h \in DOMAIN e.table : e.table[h] \in Seq(Nat)

TypeOK ==
  /\ active \in Engines \cup {None}
  /\ calls \in Seq(CallRecords)
  /\ host \in [Workers -> HostRecords]
  /\ thread \in [Workers -> ThreadRecords]
  /\ outbox \in [Workers -> Seq(AnswerRecords)]
  /\ engine = [i \in Engines |-> engine[i]]
  /\ \A i \in Engines : IsEngine(engine[i])

------------------------------------------------------------------------------
(* What an engine owes to the calls cs, when q is what it has yet to take. *)

CallsOf(s) == {s[k].call : k \in DOMAIN s}
OkCalls(s) == {s[k].call : k \in {k \in DOMAIN s : s[k].answer = "ok"}}
Requested(q) == {q[k].call : k \in {k \in DOMAIN q : q[k].type = "request"}}

Logs(table) == UNION {ToSet(table[h]) : h \in DOMAIN table}
Past(e) == DOMAIN e.table \cup Logs(e.table) \cup e.running \cup CallsOf(e.finished)
Coming(e, q) == ToSet(e.waiting) \cup Requested(q)
Carrying(e, q) == Coming(e, q) \cup e.running \cup CallsOf(e.finished)

\* x is taken up before y: they are not the same call, and two edits are in
\* the order in which the page made them.
Before(cs, x, y) == x # y /\ (cs[x].op = "edit" /\ cs[y].op = "edit" => x < y)

Orderly(cs, e, q) ==
  /\ Past(e) \cup Coming(e, q) \subseteq DOMAIN cs
  /\ \A x \in Past(e), y \in Coming(e, q) : Before(cs, x, y)
  /\ \A k, l \in DOMAIN e.waiting : k < l => Before(cs, e.waiting[k], e.waiting[l])
  /\ \A x \in ToSet(e.waiting), y \in Requested(q) : Before(cs, x, y)
  /\ \A k, l \in DOMAIN q : k < l /\ q[k].type = "request" /\ q[l].type = "request"
                              => Before(cs, q[k].call, q[l].call)
  /\ e.running \cap CallsOf(e.finished) = {}
  /\ \A x \in e.running : cs[x].op = "run"
  /\ \A x \in Logs(e.table) : cs[x].op = "edit"
  /\ \A h \in DOMAIN e.table : \A k, l \in DOMAIN e.table[h] :
       k < l => e.table[h][k] < e.table[h][l]

IsFreed(cs, h) == \E c \in DOMAIN cs : cs[c].op = "free" /\ cs[c].handle = h
Logged(e, h, c) == h \in DOMAIN e.table /\ c \in ToSet(e.table[h])

\* The edits among `mine` that were, or that o or e will report as done, are.
Kept(cs, mine, e, o) ==
  \A c \in mine :
    /\ cs[c].op = "edit"
    /\ ~IsFreed(cs, cs[c].handle)
    /\ cs[c].outcome = "ok" \/ c \in OkCalls(o) \cup OkCalls(e.finished)
    => Logged(e, cs[c].handle, c)

------------------------------------------------------------------------------
(* Workers, the page, and the calls. *)

CallsOn(cs, w) == {c \in DOMAIN cs : cs[c].host = w}

\* The pending calls p of a host whose worker has the state t, the answers o on
\* their way and the engine e: they will be heard of.
Awaited(p, t, o, e) ==
  \/ t.state = "closed"
  \/ \E k \in DOMAIN o : o[k].answer \in {"fatal", "event"}
  \/ ToSet(p) \subseteq Carrying(e, t.inbox) \cup CallsOf(o)

HasFatal(s) == \E k \in DOMAIN s : s[k].answer = "fatal"
Covered(s) == \A k \in DOMAIN s : ~s[k].sound => \E j \in 1..(k - 1) : s[j].answer = "fatal"

\* What was computed after a trap comes after the report of the trap, unless the
\* trap was in the poll of a run, which is not reported.
TrapsFirst(o, e) ==
  /\ Covered(o)
  /\ HasFatal(o) \/ Covered(e.finished)
  /\ e.trapped => HasFatal(o) \/ HasFatal(e.finished) \/ e.hung # {}

\* A run that hangs in a worker is the worker's only call: nothing is computed
\* after the trap.
Alone(e) == e.hung # {} => e.waiting = <<>> /\ e.running \subseteq e.hung

Stop(c) == [type |-> "stop", call |-> c]

\* A run that was asked to stop will find the stop.
StopsArrive(cs, q, e) ==
  \A c \in Coming(e, q) \cup e.running :
    cs[c].op = "run" /\ cs[c].aborted => c \in e.stops \/ \E k \in DOMAIN q : q[k] = Stop(c)

Serves(cs, w, h, t, o, e) ==
  /\ Orderly(cs, e, t.inbox)
  /\ Past(e) \cup Coming(e, t.inbox) \subseteq CallsOn(cs, w)
  /\ OkCalls(o) \subseteq CallsOn(cs, w)
  /\ t.state # "closed" => Kept(cs, CallsOn(cs, w), e, o)
  /\ \A k, l \in DOMAIN h.pending : k < l => h.pending[k] < h.pending[l]
  /\ ToSet(h.pending) = {c \in CallsOn(cs, w) : cs[c].outcome = "pending"}
  /\ Awaited(h.pending, t, o, e)
  /\ \A c \in CallsOn(cs, w) : cs[c].outcome = "ok" => h.answered /\ cs[c].sound
  /\ TrapsFirst(o, e)
  /\ StopsArrive(cs, t.inbox, e)

Idle(cs, w, h, t, o, e) ==
  /\ h.pending = <<>>
  /\ t.state # "up"
  /\ e = NewEngine
  /\ h.state = "unused" =>
       CallsOn(cs, w) = {} /\ t.inbox = <<>> /\ o = <<>>
  /\ h.state = "dropped" =>
       \A c \in CallsOn(cs, w) :
         cs[c].outcome # "pending" /\ (cs[c].outcome = "ok" => cs[c].sound)

WorkerInv(cs, w, h, t, o, e) ==
  IF h.state = "serving" THEN Serves(cs, w, h, t, o, e) ELSE Idle(cs, w, h, t, o, e)

\* Hosts whose calls the page's own engine serves.
OnPage(hs, i) == i = Page \/ (i \in Workers /\ hs[i].state \in {"forwarding", "direct"})
CallsOnPage(cs, hs) == {c \in DOMAIN cs : OnPage(hs, cs[c].host)}

PageInv(cs, hs, e) ==
  /\ Orderly(cs, e, <<>>)
  /\ Past(e) \cup Coming(e, <<>>) \subseteq CallsOnPage(cs, hs)
  /\ Kept(cs, CallsOnPage(cs, hs), e, <<>>)
  /\ \A c \in CallsOnPage(cs, hs) : cs[c].outcome = "pending" => c \in Carrying(e, <<>>)

\* What a call says of its study and of its host.
CallInv(cs, hs, c) ==
  /\ cs[c].op = "create" => cs[c].handle = c
  /\ cs[c].op \in {"edit", "free"} =>
       /\ cs[c].handle \in DOMAIN cs
       /\ cs[cs[c].handle].op = "create"
       /\ cs[cs[c].handle].outcome = "ok"
       /\ cs[cs[c].handle].host = cs[c].host
  /\ cs[c].op \in {"run", "solve"} => cs[c].host \in Workers /\ hs[cs[c].host].isolated
  /\ cs[c].op \in {"create", "edit", "free"} /\ cs[c].host \in Workers => ~hs[cs[c].host].isolated
  /\ cs[c].host \in Workers /\ hs[cs[c].host].isolated => CallsOn(cs, cs[c].host) = {c}

ActiveInv(act, hs) == act \in Workers => hs[act].state # "unused" /\ ~hs[act].isolated

Inv ==
  /\ TypeOK
  /\ ActiveInv(active, host)
  /\ \A c \in DOMAIN calls : CallInv(calls, host, c)
  /\ \A w \in Workers : WorkerInv(calls, w, host[w], thread[w], outbox[w], engine[w])
  /\ PageInv(calls, host, engine[Page])

------------------------------------------------------------------------------
(* Sequences. *)

\* A queue with one more entry.
LEMMA AppendFacts ==
  ASSUME NEW S, NEW s \in Seq(S), NEW x \in S
  PROVE  /\ Append(s, x) \in Seq(S)
         /\ Len(s) \in Nat
         /\ DOMAIN s = 1..Len(s)
         /\ DOMAIN Append(s, x) = 1..(Len(s) + 1)
         /\ \A k \in 1..Len(s) : Append(s, x)[k] = s[k] /\ s[k] \in S
         /\ Append(s, x)[Len(s) + 1] = x
         /\ ToSet(Append(s, x)) = ToSet(s) \cup {x}
<1>1. /\ Append(s, x) \in Seq(S)
      /\ Len(Append(s, x)) = Len(s) + 1
      /\ \A k \in 1..Len(s) : Append(s, x)[k] = s[k]
      /\ Append(s, x)[Len(s) + 1] = x
  BY AppendProperties
<1>2. Len(s) \in Nat /\ DOMAIN s = 1..Len(s) /\ DOMAIN Append(s, x) = 1..Len(Append(s, x))
  BY <1>1, LenProperties
<1>3. \A k \in 1..Len(s) : s[k] \in S
  BY ElementOfSeq
<1>4. ToSet(Append(s, x)) = ToSet(s) \cup {x}
  BY <1>1, <1>2 DEF ToSet
<1> QED
  BY <1>1, <1>2, <1>3, <1>4

\* A queue without its first entry.
LEMMA TailFacts ==
  ASSUME NEW S, NEW s \in Seq(S), s # <<>>
  PROVE  /\ Tail(s) \in Seq(S)
         /\ Head(s) \in S
         /\ Len(s) \in Nat \ {0}
         /\ DOMAIN s = 1..Len(s)
         /\ DOMAIN Tail(s) = 1..(Len(s) - 1)
         /\ s[1] = Head(s)
         /\ \A k \in 1..(Len(s) - 1) : Tail(s)[k] = s[k + 1]
         /\ \A k \in 1..Len(s) : k = 1 \/ (k - 1 \in 1..(Len(s) - 1) /\ Tail(s)[k - 1] = s[k])
         /\ ToSet(s) = {Head(s)} \cup ToSet(Tail(s))
<1>1. /\ Tail(s) \in Seq(S)
      /\ Head(s) \in S
      /\ Len(Tail(s)) = Len(s) - 1
      /\ \A k \in 1..Len(Tail(s)) : Tail(s)[k] = s[k + 1]
  BY HeadTailProperties
<1>2. Len(s) \in Nat /\ DOMAIN s = 1..Len(s) /\ DOMAIN Tail(s) = 1..Len(Tail(s))
  BY <1>1, LenProperties
<1>3. Len(s) # 0
  BY EmptySeq
<1>4. s[1] = Head(s)
  BY <1>2
<1>5. \A k \in 1..(Len(s) - 1) : Tail(s)[k] = s[k + 1]
  BY <1>1
<1>6. \A k \in 1..Len(s) : k = 1 \/ (k - 1 \in 1..(Len(s) - 1) /\ Tail(s)[k - 1] = s[k])
  <2> SUFFICES ASSUME NEW k \in 1..Len(s), k # 1
               PROVE  k - 1 \in 1..(Len(s) - 1) /\ Tail(s)[k - 1] = s[k]
    OBVIOUS
  <2>1. k - 1 \in 1..(Len(s) - 1) /\ (k - 1) + 1 = k
    BY <1>2
  <2> QED
    BY <1>5, <2>1
<1>7. ToSet(s) = {Head(s)} \cup ToSet(Tail(s))
  <2>1. ASSUME NEW x \in ToSet(s) PROVE x \in {Head(s)} \cup ToSet(Tail(s))
    <3>1. PICK k \in 1..Len(s) : x = s[k]
      BY <1>2, <2>1 DEF ToSet
    <3> QED
      BY <1>1, <1>2, <1>4, <1>6, <3>1 DEF ToSet
  <2>2. ASSUME NEW x \in ToSet(Tail(s)) PROVE x \in ToSet(s)
    <3>1. PICK k \in 1..(Len(s) - 1) : x = s[k + 1]
      BY <1>1, <1>2, <2>2 DEF ToSet
    <3>2. k + 1 \in 1..Len(s)
      BY <1>2
    <3> QED
      BY <1>2, <3>1, <3>2 DEF ToSet
  <2>3. Head(s) \in ToSet(s)
    <3>1. 1 \in DOMAIN s
      BY <1>2, <1>3
    <3> QED
      BY <1>4, <3>1 DEF ToSet
  <2> QED
    BY <2>1, <2>2, <2>3
<1> QED
  BY <1>1, <1>2, <1>3, <1>4, <1>5, <1>6, <1>7

\* One queue behind another.
LEMMA ConcatFacts ==
  ASSUME NEW S, NEW s \in Seq(S), NEW t \in Seq(S)
  PROVE  /\ s \o t \in Seq(S)
         /\ Len(s) \in Nat /\ Len(t) \in Nat
         /\ DOMAIN s = 1..Len(s) /\ DOMAIN t = 1..Len(t)
         /\ DOMAIN (s \o t) = 1..(Len(s) + Len(t))
         /\ \A k \in 1..Len(s) : (s \o t)[k] = s[k]
         /\ \A k \in 1..(Len(s) + Len(t)) :
              \/ k \in 1..Len(s) /\ (s \o t)[k] = s[k]
              \/ k - Len(s) \in 1..Len(t) /\ (s \o t)[k] = t[k - Len(s)]
         /\ ToSet(s \o t) = ToSet(s) \cup ToSet(t)
<1>1. /\ s \o t \in Seq(S)
      /\ Len(s \o t) = Len(s) + Len(t)
      /\ \A k \in 1..(Len(s) + Len(t)) :
           (s \o t)[k] = IF k <= Len(s) THEN s[k] ELSE t[k - Len(s)]
  BY ConcatProperties
<1>2. /\ Len(s) \in Nat /\ Len(t) \in Nat
      /\ DOMAIN s = 1..Len(s) /\ DOMAIN t = 1..Len(t)
      /\ DOMAIN (s \o t) = 1..Len(s \o t)
  BY <1>1, LenProperties
<1> DEFINE u == s \o t
           m == Len(s)
           n == Len(t)
<1>3. /\ \A k \in 1..(m + n) : u[k] = IF k <= m THEN s[k] ELSE t[k - m]
      /\ m \in Nat /\ n \in Nat
      /\ DOMAIN s = 1..m /\ DOMAIN t = 1..n /\ DOMAIN u = 1..(m + n)
  BY <1>1, <1>2
<1> HIDE DEF u, m, n
<1>4. \A k \in 1..m : u[k] = s[k]
  BY <1>3
<1>5. \A k \in 1..(m + n) :
        (k \in 1..m /\ u[k] = s[k]) \/ (k - m \in 1..n /\ u[k] = t[k - m])
  BY <1>3
<1>6. ASSUME NEW k \in 1..n PROVE k + m \in 1..(m + n) /\ u[k + m] = t[k]
  <2>1. k + m \in 1..(m + n) /\ ~(k + m <= m) /\ (k + m) - m = k
    BY <1>3
  <2> QED
    BY <1>3, <2>1
<1>7. ToSet(u) = ToSet(s) \cup ToSet(t)
  <2>1. ToSet(u) \subseteq ToSet(s) \cup ToSet(t)
    BY <1>3, <1>5 DEF ToSet
  <2>2. ToSet(t) \subseteq ToSet(u)
    BY <1>3, <1>6, SMTT(30) DEF ToSet
  <2>3. ToSet(s) \subseteq ToSet(u)
    <3>1. \A k \in 1..m : k \in 1..(m + n)
      BY <1>3
    <3> QED
      BY <1>3, <1>4, <3>1 DEF ToSet
  <2> QED
    BY <2>1, <2>2, <2>3
<1> QED
  BY <1>1, <1>2, <1>4, <1>5, <1>7 DEF u, m, n

\* A function on 1..n is a sequence.
LEMMA IsSequence ==
  ASSUME NEW S, NEW n \in Nat, NEW f \in [1..n -> S]
  PROVE  f \in Seq(S) /\ Len(f) = n
BY SeqDef, LenProperties

------------------------------------------------------------------------------
(* Queues of answers and of messages. *)

\* An answer is posted.
LEMMA AppendAnswer ==
  ASSUME NEW s \in Seq(AnswerRecords), NEW x \in AnswerRecords
  PROVE  /\ Append(s, x) \in Seq(AnswerRecords)
         /\ CallsOf(Append(s, x)) = CallsOf(s) \cup {x.call}
         /\ OkCalls(Append(s, x)) = OkCalls(s) \cup (IF x.answer = "ok" THEN {x.call} ELSE {})
         /\ HasFatal(Append(s, x)) <=> HasFatal(s) \/ x.answer = "fatal"
         /\ Covered(s) /\ (x.sound \/ HasFatal(s)) => Covered(Append(s, x))
         /\ NoEvents(s) /\ x.answer # "event" => NoEvents(Append(s, x))
<1> DEFINE t == Append(s, x)
           n == Len(s)
<1>1. /\ t \in Seq(AnswerRecords) /\ n \in Nat /\ DOMAIN s = 1..n /\ DOMAIN t = 1..(n + 1)
      /\ \A k \in 1..n : t[k] = s[k]
      /\ t[n + 1] = x
  BY AppendFacts
<1> HIDE DEF t, n
<1>2. CallsOf(t) = CallsOf(s) \cup {x.call}
  BY <1>1 DEF CallsOf
<1>3. OkCalls(t) = OkCalls(s) \cup (IF x.answer = "ok" THEN {x.call} ELSE {})
  BY <1>1 DEF OkCalls
<1>4. HasFatal(t) <=> HasFatal(s) \/ x.answer = "fatal"
  BY <1>1 DEF HasFatal
<1>5. Covered(s) /\ (x.sound \/ HasFatal(s)) => Covered(t)
  <2> SUFFICES ASSUME Covered(s), x.sound \/ HasFatal(s),
                      NEW k \in 1..(n + 1), ~t[k].sound
               PROVE  \E j \in 1..(k - 1) : t[j].answer = "fatal"
    BY <1>1 DEF Covered
  <2>1. CASE k \in 1..n
    <3>1. PICK j \in 1..(k - 1) : s[j].answer = "fatal"
      BY <1>1, <2>1 DEF Covered
    <3>2. j \in 1..n
      BY <1>1, <2>1
    <3> QED
      BY <1>1, <3>1, <3>2
  <2>2. CASE k = n + 1
    <3>1. PICK j \in 1..n : s[j].answer = "fatal"
      BY <1>1, <2>2 DEF HasFatal
    <3>2. j \in 1..(k - 1)
      BY <1>1, <2>2
    <3> QED
      BY <1>1, <3>1, <3>2
  <2> QED
    BY <1>1, <2>1, <2>2
<1>6. NoEvents(s) /\ x.answer # "event" => NoEvents(t)
  BY <1>1 DEF NoEvents
<1> QED
  BY <1>1, <1>2, <1>3, <1>4, <1>5, <1>6 DEF t

\* An answer is taken.
LEMMA TailAnswer ==
  ASSUME NEW s \in Seq(AnswerRecords), s # <<>>
  PROVE  /\ Tail(s) \in Seq(AnswerRecords)
         /\ Head(s) \in AnswerRecords
         /\ CallsOf(s) = {Head(s).call} \cup CallsOf(Tail(s))
         /\ OkCalls(s) = OkCalls(Tail(s)) \cup (IF Head(s).answer = "ok" THEN {Head(s).call} ELSE {})
         /\ HasFatal(s) <=> HasFatal(Tail(s)) \/ Head(s).answer = "fatal"
         /\ Covered(s) => Head(s).sound
         /\ Covered(s) /\ Head(s).answer # "fatal" => Covered(Tail(s))
         /\ NoEvents(s) => NoEvents(Tail(s)) /\ Head(s).answer # "event"
<1> DEFINE t == Tail(s)
           n == Len(s)
           x == Head(s)
<1>1. /\ t \in Seq(AnswerRecords) /\ x \in AnswerRecords /\ n \in Nat \ {0}
      /\ DOMAIN s = 1..n /\ DOMAIN t = 1..(n - 1)
      /\ s[1] = x
      /\ \A k \in 1..(n - 1) : t[k] = s[k + 1]
      /\ \A k \in 1..n : k = 1 \/ (k - 1 \in 1..(n - 1) /\ t[k - 1] = s[k])
  BY TailFacts
<1> HIDE DEF t, n, x
<1>2. /\ \A k \in 1..(n - 1) : k + 1 \in 1..n
      /\ 1 \in 1..n
  BY <1>1
<1>3. CallsOf(s) = {x.call} \cup CallsOf(t)
  <2>1. ASSUME NEW c \in CallsOf(s) PROVE c \in {x.call} \cup CallsOf(t)
    <3>1. PICK k \in 1..n : c = s[k].call
      BY <1>1, <2>1 DEF CallsOf
    <3>2. k # 1 => k - 1 \in DOMAIN t /\ t[k - 1].call = c
      BY <1>1, <3>1
    <3> QED
      BY <1>1, <3>1, <3>2 DEF CallsOf
  <2>2. x.call \in CallsOf(s)
    BY <1>1, <1>2 DEF CallsOf
  <2>3. ASSUME NEW c \in CallsOf(t) PROVE c \in CallsOf(s)
    <3>1. PICK k \in 1..(n - 1) : c = t[k].call
      BY <1>1, <2>3 DEF CallsOf
    <3> QED
      BY <1>1, <1>2, <3>1 DEF CallsOf
  <2> QED
    BY <2>1, <2>2, <2>3
<1>4. OkCalls(s) = OkCalls(t) \cup (IF x.answer = "ok" THEN {x.call} ELSE {})
  <2>1. ASSUME NEW c \in OkCalls(s)
        PROVE  c \in OkCalls(t) \cup (IF x.answer = "ok" THEN {x.call} ELSE {})
    <3>1. PICK k \in 1..n : s[k].answer = "ok" /\ c = s[k].call
      BY <1>1, <2>1 DEF OkCalls
    <3>2. CASE k = 1
      BY <1>1, <3>1, <3>2
    <3>3. CASE k - 1 \in 1..(n - 1) /\ t[k - 1] = s[k]
      <4>1. k - 1 \in DOMAIN t /\ t[k - 1].answer = "ok" /\ t[k - 1].call = c
        BY <1>1, <3>1, <3>3
      <4> QED
        BY <4>1 DEF OkCalls
    <3> QED
      BY <1>1, <3>2, <3>3
  <2>2. ASSUME NEW c \in OkCalls(t) PROVE c \in OkCalls(s)
    <3>1. PICK k \in 1..(n - 1) : t[k].answer = "ok" /\ c = t[k].call
      BY <1>1, <2>2 DEF OkCalls
    <3> QED
      BY <1>1, <1>2, <3>1 DEF OkCalls
  <2>3. x.answer = "ok" => x.call \in OkCalls(s)
    BY <1>1, <1>2 DEF OkCalls
  <2> QED
    BY <2>1, <2>2, <2>3
<1>5. HasFatal(s) <=> HasFatal(t) \/ x.answer = "fatal"
  <2>1. ASSUME NEW k \in 1..n, s[k].answer = "fatal", x.answer # "fatal" PROVE HasFatal(t)
    <3>1. k - 1 \in DOMAIN t /\ t[k - 1].answer = "fatal"
      BY <1>1, <2>1
    <3> QED
      BY <3>1 DEF HasFatal
  <2>2. HasFatal(t) \/ x.answer = "fatal" => HasFatal(s)
    BY <1>1, <1>2 DEF HasFatal
  <2> QED
    BY <1>1, <2>1, <2>2 DEF HasFatal
<1>6. Covered(s) => x.sound
  <2> SUFFICES ASSUME Covered(s), ~x.sound PROVE FALSE
    OBVIOUS
  <2>1. PICK j \in 1..(1 - 1) : s[j].answer = "fatal"
    BY <1>1 DEF Covered
  <2> QED
    BY <2>1
<1>7. Covered(s) /\ x.answer # "fatal" => Covered(t)
  <2> SUFFICES ASSUME Covered(s), x.answer # "fatal", NEW k \in 1..(n - 1), ~t[k].sound
               PROVE  \E j \in 1..(k - 1) : t[j].answer = "fatal"
    BY <1>1 DEF Covered
  <2>1. PICK j \in 1..((k + 1) - 1) : s[j].answer = "fatal"
    BY <1>1, <1>2 DEF Covered
  <2>2. j # 1
    BY <1>1, <2>1
  <2>3. j \in 1..n /\ j - 1 \in 1..(k - 1)
    BY <1>1, <2>1, <2>2
  <2> QED
    BY <1>1, <2>1, <2>2, <2>3
<1>8. NoEvents(s) => NoEvents(t) /\ x.answer # "event"
  BY <1>1, <1>2 DEF NoEvents
<1> QED
  BY <1>1, <1>3, <1>4, <1>5, <1>6, <1>7, <1>8 DEF t, x

\* The load failed: everybody who waited is answered with an error.
LEMMA ErrorAnswers ==
  ASSUME NEW s \in Seq(AnswerRecords), NEW cs \in Seq(Nat)
  PROVE  LET t == s \o Answers(cs, "error") IN
         /\ t \in Seq(AnswerRecords)
         /\ CallsOf(t) = CallsOf(s) \cup ToSet(cs)
         /\ OkCalls(t) = OkCalls(s)
         /\ HasFatal(s) => HasFatal(t)
         /\ Covered(s) => Covered(t)
         /\ NoEvents(s) => NoEvents(t)
<1> DEFINE a == Answers(cs, "error")
           t == s \o a
           m == Len(s)
           n == Len(cs)
<1>1. n \in Nat /\ DOMAIN cs = 1..n /\ \A k \in 1..n : cs[k] \in Nat
  BY LenProperties, ElementOfSeq
<1>2. /\ a \in [1..n -> AnswerRecords]
      /\ \A k \in 1..n : a[k].call = cs[k] /\ a[k].answer = "error" /\ a[k].sound
  BY <1>1 DEF Answers, AnswerRecords
<1>3. a \in Seq(AnswerRecords) /\ Len(a) = n
  BY <1>1, <1>2, IsSequence
<1> HIDE DEF a, n
<1>4. /\ t \in Seq(AnswerRecords)
      /\ m \in Nat
      /\ DOMAIN s = 1..m /\ DOMAIN t = 1..(m + n)
      /\ \A k \in 1..m : t[k] = s[k]
      /\ \A k \in 1..(m + n) :
           \/ k \in 1..m /\ t[k] = s[k]
           \/ k - m \in 1..n /\ t[k] = a[k - m]
      /\ ToSet(t) = ToSet(s) \cup ToSet(a)
  <2>0. a \in Seq(AnswerRecords)
    BY <1>3
  <2>1. /\ s \o a \in Seq(AnswerRecords)
        /\ Len(s) \in Nat
        /\ DOMAIN s = 1..Len(s)
        /\ DOMAIN (s \o a) = 1..(Len(s) + Len(a))
        /\ \A k \in 1..Len(s) : (s \o a)[k] = s[k]
        /\ \A k \in 1..(Len(s) + Len(a)) :
             \/ k \in 1..Len(s) /\ (s \o a)[k] = s[k]
             \/ k - Len(s) \in 1..Len(a) /\ (s \o a)[k] = a[k - Len(s)]
        /\ ToSet(s \o a) = ToSet(s) \cup ToSet(a)
    <3> HIDE DEF t, m
    <3> QED
      BY <2>0, ConcatFacts
  <2> QED
    BY <1>3, <2>1
<1> HIDE DEF t, m
<1>5. \A k \in 1..m : k \in 1..(m + n)
  BY <1>1, <1>4
<1>6. CallsOf(t) = CallsOf(s) \cup ToSet(cs)
  <2>1. \A q : CallsOf(q) = {x.call : x \in ToSet(q)}
    BY DEF CallsOf, ToSet
  <2>2. CallsOf(t) = CallsOf(s) \cup CallsOf(a)
    BY <1>4, <2>1
  <2>3. DOMAIN a = 1..n
    BY <1>2
  <2>4. CallsOf(a) = ToSet(cs)
    BY <1>1, <1>2, <2>3, ZenonT(30) DEF CallsOf, ToSet
  <2> QED
    BY <2>2, <2>4
<1>7. OkCalls(t) = OkCalls(s)
  <2>1. \A k \in 1..(m + n) : t[k].answer = "ok" => k \in 1..m /\ t[k] = s[k]
    BY <1>2, <1>4
  <2> QED
    BY <1>4, <1>5, <2>1 DEF OkCalls
<1>8. HasFatal(s) => HasFatal(t)
  BY <1>4, <1>5 DEF HasFatal
<1>9. Covered(s) => Covered(t)
  <2> SUFFICES ASSUME Covered(s), NEW k \in 1..(m + n), ~t[k].sound
               PROVE  \E j \in 1..(k - 1) : t[j].answer = "fatal"
    BY <1>4 DEF Covered
  <2>1. k \in 1..m /\ t[k] = s[k]
    BY <1>2, <1>4
  <2>2. PICK j \in 1..(k - 1) : s[j].answer = "fatal"
    BY <1>4, <2>1 DEF Covered
  <2>3. j \in 1..m
    BY <1>4, <2>1
  <2> QED
    BY <1>4, <2>2, <2>3
<1>10. NoEvents(s) => NoEvents(t)
  <2>1. \A k \in 1..(m + n) : (t[k] = s[k] /\ k \in 1..m) \/ t[k].answer = "error"
    BY <1>2, <1>4
  <2> QED
    BY <1>4, <2>1 DEF NoEvents
<1> QED
  BY <1>4, <1>6, <1>7, <1>8, <1>9, <1>10 DEF t, a

\* A message is posted.
LEMMA AppendMessage ==
  ASSUME NEW q \in Seq(Messages), NEW m \in Messages
  PROVE  /\ Append(q, m) \in Seq(Messages)
         /\ Requested(Append(q, m)) = Requested(q) \cup (IF m.type = "request" THEN {m.call} ELSE {})
<1> DEFINE r == Append(q, m)
           n == Len(q)
<1>1. /\ r \in Seq(Messages) /\ n \in Nat /\ DOMAIN q = 1..n /\ DOMAIN r = 1..(n + 1)
      /\ \A k \in 1..n : r[k] = q[k]
      /\ r[n + 1] = m
  BY AppendFacts
<1> HIDE DEF r, n
<1>2. Requested(r) = Requested(q) \cup (IF m.type = "request" THEN {m.call} ELSE {})
  BY <1>1 DEF Requested
<1> QED
  BY <1>1, <1>2 DEF r

\* A message is taken.
LEMMA TailMessage ==
  ASSUME NEW q \in Seq(Messages), q # <<>>
  PROVE  /\ Tail(q) \in Seq(Messages)
         /\ Head(q) \in Messages
         /\ Requested(q) = Requested(Tail(q)) \cup (IF Head(q).type = "request" THEN {Head(q).call} ELSE {})
<1> DEFINE r == Tail(q)
           n == Len(q)
           m == Head(q)
<1>1. /\ r \in Seq(Messages) /\ m \in Messages /\ n \in Nat \ {0}
      /\ DOMAIN q = 1..n /\ DOMAIN r = 1..(n - 1)
      /\ q[1] = m
      /\ \A k \in 1..(n - 1) : r[k] = q[k + 1]
      /\ \A k \in 1..n : k = 1 \/ (k - 1 \in 1..(n - 1) /\ r[k - 1] = q[k])
  BY TailFacts
<1> HIDE DEF r, n, m
<1>2. \A k \in 1..(n - 1) : k + 1 \in 1..n
  BY <1>1
<1>3. 1 \in 1..n
  BY <1>1
<1>4. ASSUME NEW c \in Requested(q)
      PROVE  c \in Requested(r) \cup (IF m.type = "request" THEN {m.call} ELSE {})
  <2>1. PICK k \in 1..n : q[k].type = "request" /\ c = q[k].call
    BY <1>1, <1>4 DEF Requested
  <2>2. CASE k = 1
    BY <1>1, <2>1, <2>2
  <2>3. CASE k - 1 \in 1..(n - 1) /\ r[k - 1] = q[k]
    <3>1. k - 1 \in DOMAIN r /\ r[k - 1].type = "request" /\ r[k - 1].call = c
      BY <1>1, <2>1, <2>3
    <3> QED
      BY <3>1 DEF Requested
  <2> QED
    BY <1>1, <2>2, <2>3
<1>5. ASSUME NEW c \in Requested(r) PROVE c \in Requested(q)
  <2>1. PICK k \in 1..(n - 1) : r[k].type = "request" /\ c = r[k].call
    BY <1>1, <1>5 DEF Requested
  <2> QED
    BY <1>1, <1>2, <2>1 DEF Requested
<1>6. m.type = "request" => m.call \in Requested(q)
  BY <1>1, <1>3 DEF Requested
<1> QED
  BY <1>1, <1>4, <1>5, <1>6 DEF r, m

------------------------------------------------------------------------------
(* Calls are added and settled; what they ask for does not change. *)

Grows(cs, ds) ==
  /\ DOMAIN cs \subseteq DOMAIN ds
  /\ \A c \in DOMAIN cs :
       ds[c].op = cs[c].op /\ ds[c].handle = cs[c].handle /\ ds[c].host = cs[c].host

\* An engine that does nothing stays in order.
LEMMA OrderlyFrame ==
  ASSUME NEW cs, NEW ds, NEW e, NEW q, Orderly(cs, e, q), Grows(cs, ds)
  PROVE  Orderly(ds, e, q)
<1>1. Past(e) \cup Coming(e, q) \subseteq DOMAIN cs
  BY DEF Orderly
<1>2. \A x, y \in Past(e) \cup Coming(e, q) : Before(cs, x, y) => Before(ds, x, y)
  BY <1>1 DEF Before, Grows
<1>3. \A k \in DOMAIN e.waiting : e.waiting[k] \in Coming(e, q)
  BY DEF Coming, ToSet
<1>4. \A k \in DOMAIN q : q[k].type = "request" => q[k].call \in Coming(e, q)
  BY DEF Coming, Requested
<1>5. /\ ToSet(e.waiting) \cup Requested(q) \subseteq Coming(e, q)
      /\ Logs(e.table) \cup e.running \subseteq Past(e)
  BY DEF Coming, Past
<1>6. Past(e) \cup Coming(e, q) \subseteq DOMAIN ds
  BY <1>1 DEF Grows
<1>7. \A x \in Past(e), y \in Coming(e, q) : Before(ds, x, y)
  BY <1>2 DEF Orderly
<1>8. \A k, l \in DOMAIN e.waiting : k < l => Before(ds, e.waiting[k], e.waiting[l])
  BY <1>2, <1>3 DEF Orderly
<1>9. \A x \in ToSet(e.waiting), y \in Requested(q) : Before(ds, x, y)
  BY <1>2, <1>5 DEF Orderly
<1>10. \A k, l \in DOMAIN q : k < l /\ q[k].type = "request" /\ q[l].type = "request"
                               => Before(ds, q[k].call, q[l].call)
  BY <1>2, <1>4 DEF Orderly
<1>11. /\ \A x \in e.running : ds[x].op = "run"
       /\ \A x \in Logs(e.table) : ds[x].op = "edit"
  BY <1>1, <1>5 DEF Orderly, Grows
<1> QED
  BY <1>6, <1>7, <1>8, <1>9, <1>10, <1>11 DEF Orderly

\* What was kept for some calls is kept for those of them that are as before.
LEMMA KeptFrame ==
  ASSUME NEW cs, NEW ds, NEW e, NEW o, NEW S, NEW T,
         Kept(cs, S, e, o), Grows(cs, ds), S \subseteq DOMAIN cs,
         \A c \in T : c \in S /\ ds[c] = cs[c]
  PROVE  Kept(ds, T, e, o)
<1>1. \A h : IsFreed(cs, h) => IsFreed(ds, h)
  BY DEF IsFreed, Grows
<1> QED
  BY <1>1 DEF Kept

\* A worker is not concerned by what happens to the calls of other hosts.
LEMMA WorkerFrame ==
  ASSUME NEW cs, NEW ds, NEW w, NEW h, NEW t, NEW o, NEW e,
         WorkerInv(cs, w, h, t, o, e), Grows(cs, ds),
         h.state \notin {"forwarding", "direct"} =>
           CallsOn(ds, w) = CallsOn(cs, w) /\ \A c \in CallsOn(cs, w) : ds[c] = cs[c]
  PROVE  WorkerInv(ds, w, h, t, o, e)
<1>1. CASE h.state = "serving"
  <2>1. CallsOn(ds, w) = CallsOn(cs, w) /\ \A c \in CallsOn(cs, w) : ds[c] = cs[c]
    BY <1>1
  <2>2. Serves(cs, w, h, t, o, e)
    BY <1>1 DEF WorkerInv
  <2>3. Orderly(ds, e, t.inbox)
    BY <2>2, OrderlyFrame DEF Serves
  <2>4. t.state # "closed" => Kept(ds, CallsOn(ds, w), e, o)
    <3>1. CallsOn(cs, w) \subseteq DOMAIN cs
      BY DEF CallsOn
    <3> QED
      BY <2>1, <2>2, <3>1, KeptFrame DEF Serves
  <2>5. ToSet(h.pending) = {c \in CallsOn(ds, w) : ds[c].outcome = "pending"}
    BY <2>1, <2>2 DEF Serves
  <2>6. StopsArrive(ds, t.inbox, e)
    <3>1. Coming(e, t.inbox) \cup e.running \subseteq CallsOn(cs, w)
      BY <2>2 DEF Serves, Past
    <3> QED
      BY <2>1, <2>2, <3>1 DEF Serves, StopsArrive
  <2>7. Serves(ds, w, h, t, o, e)
    BY <2>1, <2>2, <2>3, <2>4, <2>5, <2>6 DEF Serves
  <2> QED
    BY <1>1, <2>7 DEF WorkerInv
<1>2. CASE h.state # "serving"
  <2>1. Idle(cs, w, h, t, o, e)
    BY <1>2 DEF WorkerInv
  <2>2. Idle(ds, w, h, t, o, e)
    BY <2>1 DEF Idle
  <2> QED
    BY <1>2, <2>2 DEF WorkerInv
<1> QED
  BY <1>1, <1>2

\* Nor is the page's engine by what happens to the calls of workers.
LEMMA PageFrame ==
  ASSUME NEW cs, NEW ds, NEW hs, NEW gs, NEW e,
         PageInv(cs, hs, e), Grows(cs, ds),
         CallsOnPage(ds, gs) = CallsOnPage(cs, hs),
         \A c \in CallsOnPage(cs, hs) : ds[c] = cs[c]
  PROVE  PageInv(ds, gs, e)
<1>1. Orderly(ds, e, <<>>)
  BY OrderlyFrame DEF PageInv
<1>2. Kept(ds, CallsOnPage(ds, gs), e, <<>>)
  <2>1. CallsOnPage(cs, hs) \subseteq DOMAIN cs
    BY DEF CallsOnPage
  <2> QED
    BY <2>1, KeptFrame DEF PageInv
<1> QED
  BY <1>1, <1>2 DEF PageInv

------------------------------------------------------------------------------
(* Steps of an engine e that has q to take, on calls cs: it becomes f. *)

Continues(cs, e, q, f) ==
  /\ IsEngine(f)
  /\ Orderly(cs, f, q)
  /\ Past(f) \cup Coming(f, q) \subseteq Past(e) \cup Coming(e, q)
  /\ Carrying(f, q) = Carrying(e, q)
  /\ \A S, o : S \subseteq DOMAIN cs /\ Kept(cs, S, e, o) => Kept(cs, S, f, o)
  /\ Alone(e) => \A o : TrapsFirst(o, e) => TrapsFirst(o, f)
  /\ StopsArrive(cs, q, e) => StopsArrive(cs, q, f)

\* The module is there.
LEMMA LoadContinues ==
  ASSUME NEW cs, NEW e, NEW q, IsEngine(e), Orderly(cs, e, q),
         NEW f, f = [e EXCEPT !.load = "ready"]
  PROVE  Continues(cs, e, q, f)
<1>1. /\ f.waiting = e.waiting /\ f.running = e.running /\ f.finished = e.finished
      /\ f.table = e.table /\ f.stops = e.stops /\ f.trapped = e.trapped /\ f.hung = e.hung /\ f.fails = e.fails
      /\ f.load = "ready"
  BY DEF IsEngine
<1>2. IsEngine(f)
  BY <1>1 DEF IsEngine
<1>3. Past(f) = Past(e) /\ Coming(f, q) = Coming(e, q) /\ Carrying(f, q) = Carrying(e, q)
  BY <1>1 DEF Past, Coming, Carrying
<1>4. Orderly(cs, f, q)
  BY <1>1, <1>3 DEF Orderly
<1>5. \A S, o : Kept(cs, S, e, o) => Kept(cs, S, f, o)
  BY <1>1 DEF Kept, Logged
<1>6. \A o : TrapsFirst(o, e) => TrapsFirst(o, f)
  BY <1>1 DEF TrapsFirst
<1>7. StopsArrive(cs, q, e) => StopsArrive(cs, q, f)
  BY <1>1, <1>3 DEF StopsArrive
<1> QED
  BY <1>2, <1>3, <1>4, <1>5, <1>6, <1>7 DEF Continues

\* It is not: whoever waited has failed.
LEMMA LoadFailsContinues ==
  ASSUME NEW cs, NEW e, NEW q, IsEngine(e), Orderly(cs, e, q),
         NEW next \in {"none", "unsupported"},
         NEW f, f = [e EXCEPT !.load = next, !.fails = @ + 1, !.waiting = <<>>,
                              !.finished = @ \o Answers(e.waiting, "error")]
  PROVE  Continues(cs, e, q, f)
<1>1. /\ f.waiting = <<>> /\ f.running = e.running
      /\ f.finished = e.finished \o Answers(e.waiting, "error")
      /\ f.table = e.table /\ f.stops = e.stops /\ f.trapped = e.trapped /\ f.hung = e.hung /\ f.load = next
      /\ f = [load |-> f.load, fails |-> f.fails, trapped |-> f.trapped, waiting |-> f.waiting,
              running |-> f.running, finished |-> f.finished, table |-> f.table, stops |-> f.stops,
              hung |-> f.hung]
  BY DEF IsEngine
<1>2. e.waiting \in Seq(Nat) /\ e.finished \in Seq(AnswerRecords)
  BY DEF IsEngine
<1>3. /\ f.finished \in Seq(AnswerRecords)
      /\ CallsOf(f.finished) = CallsOf(e.finished) \cup ToSet(e.waiting)
      /\ OkCalls(f.finished) = OkCalls(e.finished)
      /\ HasFatal(e.finished) => HasFatal(f.finished)
      /\ Covered(e.finished) => Covered(f.finished)
      /\ NoEvents(e.finished) => NoEvents(f.finished)
  BY <1>1, <1>2, ErrorAnswers
<1>4. f.waiting \in Seq(Nat) /\ ToSet(f.waiting) = {} /\ DOMAIN f.waiting = {}
  BY <1>1 DEF ToSet
<1>5. IsEngine(f)
  BY <1>1, <1>3, <1>4 DEF IsEngine
<1>6. /\ Past(f) = Past(e) \cup ToSet(e.waiting)
      /\ Coming(f, q) = Requested(q)
      /\ Carrying(f, q) = Carrying(e, q)
      /\ ToSet(e.waiting) \cup Requested(q) = Coming(e, q)
  BY <1>1, <1>3, <1>4 DEF Past, Coming, Carrying
<1>7. f.running \cap CallsOf(f.finished) = {}
  <2>1. e.running \subseteq Past(e) /\ ToSet(e.waiting) \subseteq Coming(e, q)
    BY DEF Past, Coming
  <2>2. \A x \in e.running, y \in ToSet(e.waiting) : x # y
    BY <2>1 DEF Orderly, Before
  <2> QED
    BY <1>1, <1>3, <2>2 DEF Orderly
<1>8. Orderly(cs, f, q)
  <2>1. \A x \in Past(f), y \in Coming(f, q) : Before(cs, x, y)
    BY <1>6 DEF Orderly
  <2>2. Past(f) \cup Coming(f, q) \subseteq DOMAIN cs
    BY <1>6 DEF Orderly
  <2> QED
    BY <1>1, <1>4, <1>7, <2>1, <2>2 DEF Orderly
<1>9. \A S, o : Kept(cs, S, e, o) => Kept(cs, S, f, o)
  BY <1>1, <1>3 DEF Kept, Logged
<1>10. \A o : TrapsFirst(o, e) => TrapsFirst(o, f)
  BY <1>1, <1>3 DEF TrapsFirst
<1>11. StopsArrive(cs, q, e) => StopsArrive(cs, q, f)
  BY <1>1, <1>6 DEF StopsArrive
<1> QED
  BY <1>5, <1>6, <1>8, <1>9, <1>10, <1>11 DEF Continues

\* The first handler that waits comes before all that are behind it.
LEMMA FirstWaits ==
  ASSUME NEW cs, NEW e, NEW q, IsEngine(e), Orderly(cs, e, q), e.waiting # <<>>
  PROVE  LET c == Head(e.waiting)
             s == Tail(e.waiting)
         IN
         /\ c \in Nat /\ c \in Coming(e, q)
         /\ s \in Seq(Nat)
         /\ Coming(e, q) = {c} \cup ToSet(s) \cup Requested(q)
         /\ \A y \in ToSet(s) \cup Requested(q) : Before(cs, c, y)
         /\ \A k, l \in DOMAIN s : k < l => Before(cs, s[k], s[l])
         /\ \A x \in ToSet(s), y \in Requested(q) : Before(cs, x, y)
<1> DEFINE w == e.waiting
           c == Head(w)
           s == Tail(w)
           n == Len(w)
<1>1. w \in Seq(Nat) /\ w # <<>>
  BY DEF IsEngine
<1>2. /\ s \in Seq(Nat) /\ c \in Nat /\ n \in Nat \ {0}
      /\ DOMAIN w = 1..n /\ DOMAIN s = 1..(n - 1)
      /\ w[1] = c
      /\ \A k \in 1..(n - 1) : s[k] = w[k + 1]
      /\ ToSet(w) = {c} \cup ToSet(s)
  BY <1>1, TailFacts
<1>3. \A k, l \in 1..n : k < l => Before(cs, w[k], w[l])
  BY <1>2 DEF Orderly
<1>4. \A x \in ToSet(w), y \in Requested(q) : Before(cs, x, y)
  BY DEF Orderly
<1>5. Coming(e, q) = {c} \cup ToSet(s) \cup Requested(q)
  BY <1>2 DEF Coming
<1> HIDE DEF w, c, s, n
<1>6. \A k \in 1..(n - 1) : k + 1 \in 1..n /\ 1 \in 1..n /\ 1 < k + 1
  BY <1>2
<1>7. ASSUME NEW y \in ToSet(s) PROVE Before(cs, c, y)
  <2>1. PICK k \in 1..(n - 1) : y = w[k + 1]
    BY <1>2, <1>7 DEF ToSet
  <2> QED
    BY <1>2, <1>3, <1>6, <2>1
<1>8. ASSUME NEW k \in 1..(n - 1), NEW l \in 1..(n - 1), k < l PROVE Before(cs, s[k], s[l])
  <2>1. k + 1 < l + 1
    BY <1>8
  <2> QED
    BY <1>2, <1>3, <1>6, <2>1
<1> QED
  BY <1>2, <1>4, <1>5, <1>7, <1>8 DEF w, c, s

\* A study_document_run begins.
LEMMA RunContinues ==
  ASSUME NEW cs, NEW e, NEW q, IsEngine(e), Orderly(cs, e, q), e.waiting # <<>>,
         cs[Head(e.waiting)].op = "run",
         NEW f, f = [e EXCEPT !.waiting = Tail(@), !.running = @ \cup {Head(e.waiting)}]
  PROVE  Continues(cs, e, q, f)
<1> DEFINE c == Head(e.waiting)
           s == Tail(e.waiting)
<1>1. /\ f.waiting = s /\ f.running = e.running \cup {c} /\ f.finished = e.finished
      /\ f.table = e.table /\ f.stops = e.stops /\ f.trapped = e.trapped /\ f.hung = e.hung /\ f.load = e.load
      /\ f = [load |-> f.load, fails |-> f.fails, trapped |-> f.trapped, waiting |-> f.waiting,
              running |-> f.running, finished |-> f.finished, table |-> f.table, stops |-> f.stops,
              hung |-> f.hung]
  BY DEF IsEngine
<1>2. /\ c \in Coming(e, q)
      /\ s \in Seq(Nat)
      /\ Coming(e, q) = {c} \cup ToSet(s) \cup Requested(q)
      /\ \A y \in ToSet(s) \cup Requested(q) : Before(cs, c, y)
      /\ \A k, l \in DOMAIN s : k < l => Before(cs, s[k], s[l])
      /\ \A x \in ToSet(s), y \in Requested(q) : Before(cs, x, y)
  BY FirstWaits
<1>3. cs[c].op = "run"
  OBVIOUS
<1> HIDE DEF c, s
<1>4. IsEngine(f)
  BY <1>1, <1>2 DEF IsEngine
<1>5. /\ Past(f) = Past(e) \cup {c}
      /\ Coming(f, q) = ToSet(s) \cup Requested(q)
      /\ Coming(e, q) = Coming(f, q) \cup {c}
  BY <1>1, <1>2 DEF Past, Coming
<1>6. Carrying(f, q) = Carrying(e, q)
  BY <1>1, <1>5 DEF Carrying
<1>7. f.running \cap CallsOf(f.finished) = {}
  <2>1. CallsOf(e.finished) \subseteq Past(e)
    BY DEF Past
  <2>2. c \notin CallsOf(e.finished)
    BY <1>2, <2>1 DEF Orderly, Before
  <2> QED
    BY <1>1, <2>2 DEF Orderly
<1>8. Orderly(cs, f, q)
  <2>1. \A x \in Past(f), y \in Coming(f, q) : Before(cs, x, y)
    BY <1>2, <1>5 DEF Orderly
  <2>2. Past(f) \cup Coming(f, q) \subseteq DOMAIN cs
    BY <1>2, <1>5 DEF Orderly
  <2> QED
    BY <1>1, <1>2, <1>3, <1>7, <2>1, <2>2 DEF Orderly
<1>9. \A S, o : Kept(cs, S, e, o) => Kept(cs, S, f, o)
  BY <1>1 DEF Kept, Logged
<1>10. \A o : TrapsFirst(o, e) => TrapsFirst(o, f)
  BY <1>1 DEF TrapsFirst
<1>11. StopsArrive(cs, q, e) => StopsArrive(cs, q, f)
  BY <1>1, <1>5 DEF StopsArrive
<1> QED
  BY <1>4, <1>5, <1>6, <1>8, <1>9, <1>10, <1>11 DEF Continues

\* What an execution of c may do to the handle table: e.table becomes table.
Advances(cs, e, c, table, answer) ==
  /\ \A h \in DOMAIN table : table[h] \in Seq(Nat)
  /\ DOMAIN table \cup Logs(table) \subseteq DOMAIN e.table \cup Logs(e.table) \cup {c}
  /\ \A x \in Logs(table) : cs[x].op = "edit"
  /\ \A h \in DOMAIN table : \A k, l \in DOMAIN table[h] : k < l => table[h][k] < table[h][l]
  /\ \A h \in DOMAIN e.table : ~IsFreed(cs, h) =>
       h \in DOMAIN table /\ ToSet(e.table[h]) \subseteq ToSet(table[h])
  /\ answer = "ok" /\ cs[c].op = "edit" =>
       cs[c].handle \in DOMAIN table /\ c \in ToSet(table[cs[c].handle])

\* Engine e becomes f when the first request that waits is executed.
Executed(e, f, table, answer, trapped) ==
  /\ f = [load |-> f.load, fails |-> f.fails, trapped |-> f.trapped, waiting |-> f.waiting,
          running |-> f.running, finished |-> f.finished, table |-> f.table, stops |-> f.stops,
          hung |-> f.hung]
  /\ f.load = e.load /\ f.running = e.running /\ f.stops = e.stops /\ f.hung = e.hung
  /\ f.waiting = Tail(e.waiting)
  /\ f.finished = Append(e.finished, [call |-> Head(e.waiting), answer |-> answer,
                                      sound |-> ~e.trapped])
  /\ f.table = table
  /\ f.trapped = trapped

\* A request is executed.
LEMMA ExecutionContinues ==
  ASSUME NEW cs, NEW e, NEW q, IsEngine(e), Orderly(cs, e, q), e.waiting # <<>>,
         NEW table, NEW answer \in {"ok", "error", "fatal"},
         Advances(cs, e, Head(e.waiting), table, answer),
         NEW trapped \in BOOLEAN, trapped = e.trapped \/ answer = "fatal",
         NEW f, Executed(e, f, table, answer, trapped)
  PROVE  Continues(cs, e, q, f)
<1> DEFINE c == Head(e.waiting)
           s == Tail(e.waiting)
           a == [call |-> c, answer |-> answer, sound |-> ~e.trapped]
<1>1. /\ f.waiting = s /\ f.running = e.running /\ f.finished = Append(e.finished, a)
      /\ f.table = table /\ f.stops = e.stops /\ f.trapped = trapped /\ f.load = e.load
      /\ f.hung = e.hung
      /\ f = [load |-> f.load, fails |-> f.fails, trapped |-> f.trapped, waiting |-> f.waiting,
              running |-> f.running, finished |-> f.finished, table |-> f.table, stops |-> f.stops,
              hung |-> f.hung]
  BY DEF Executed
<1>2. /\ c \in Nat /\ c \in Coming(e, q)
      /\ s \in Seq(Nat)
      /\ Coming(e, q) = {c} \cup ToSet(s) \cup Requested(q)
      /\ \A y \in ToSet(s) \cup Requested(q) : Before(cs, c, y)
      /\ \A k, l \in DOMAIN s : k < l => Before(cs, s[k], s[l])
      /\ \A x \in ToSet(s), y \in Requested(q) : Before(cs, x, y)
  BY FirstWaits
<1>3. Advances(cs, e, c, table, answer)
  OBVIOUS
<1> HIDE DEF c, s
<1>4. a \in AnswerRecords /\ a.call = c /\ a.answer = answer /\ a.sound = ~e.trapped
  BY <1>2 DEF AnswerRecords, IsEngine
<1> HIDE DEF a
<1>5. /\ f.finished \in Seq(AnswerRecords)
      /\ CallsOf(f.finished) = CallsOf(e.finished) \cup {c}
      /\ OkCalls(f.finished) = OkCalls(e.finished) \cup (IF answer = "ok" THEN {c} ELSE {})
      /\ HasFatal(f.finished) <=> HasFatal(e.finished) \/ answer = "fatal"
      /\ Covered(e.finished) /\ (~e.trapped \/ HasFatal(e.finished)) => Covered(f.finished)
      /\ NoEvents(f.finished)
  <2>1. e.finished \in Seq(AnswerRecords) /\ NoEvents(e.finished)
    BY DEF IsEngine
  <2>2. /\ Append(e.finished, a) \in Seq(AnswerRecords)
        /\ CallsOf(Append(e.finished, a)) = CallsOf(e.finished) \cup {a.call}
        /\ OkCalls(Append(e.finished, a)) =
             OkCalls(e.finished) \cup (IF a.answer = "ok" THEN {a.call} ELSE {})
        /\ HasFatal(Append(e.finished, a)) <=> HasFatal(e.finished) \/ a.answer = "fatal"
        /\ Covered(e.finished) /\ (a.sound \/ HasFatal(e.finished)) => Covered(Append(e.finished, a))
        /\ NoEvents(e.finished) /\ a.answer # "event" => NoEvents(Append(e.finished, a))
    BY <1>4, <2>1, AppendAnswer
  <2> QED
    BY <1>1, <1>4, <2>1, <2>2
<1>6. IsEngine(f)
  BY <1>1, <1>2, <1>3, <1>5 DEF IsEngine, Advances
<1>7. /\ Past(f) \subseteq Past(e) \cup {c}
      /\ Coming(f, q) = ToSet(s) \cup Requested(q)
      /\ Coming(e, q) = Coming(f, q) \cup {c}
  BY <1>1, <1>2, <1>3, <1>5 DEF Past, Coming, Advances
<1>8. Carrying(f, q) = Carrying(e, q)
  BY <1>1, <1>5, <1>7 DEF Carrying
<1>9. f.running \cap CallsOf(f.finished) = {}
  <2>1. e.running \subseteq Past(e)
    BY DEF Past
  <2>2. c \notin e.running
    BY <1>2, <2>1 DEF Orderly, Before
  <2> QED
    BY <1>1, <1>5, <2>2 DEF Orderly
<1>10. Orderly(cs, f, q)
  <2>1. \A x \in Past(f), y \in Coming(f, q) : Before(cs, x, y)
    BY <1>2, <1>7 DEF Orderly
  <2>2. Past(f) \cup Coming(f, q) \subseteq DOMAIN cs
    BY <1>2, <1>7 DEF Orderly
  <2>3. /\ \A x \in Logs(f.table) : cs[x].op = "edit"
        /\ \A h \in DOMAIN f.table : \A k, l \in DOMAIN f.table[h] :
             k < l => f.table[h][k] < f.table[h][l]
    BY <1>1, <1>3 DEF Advances
  <2> QED
    BY <1>1, <1>2, <1>9, <2>1, <2>2, <2>3 DEF Orderly
<1>11. ASSUME NEW S, NEW o, Kept(cs, S, e, o) PROVE Kept(cs, S, f, o)
  <2> SUFFICES ASSUME NEW d \in S, cs[d].op = "edit", ~IsFreed(cs, cs[d].handle),
                      cs[d].outcome = "ok" \/ d \in OkCalls(o) \cup OkCalls(f.finished)
               PROVE  Logged(f, cs[d].handle, d)
    BY DEF Kept
  <2>1. CASE d = c /\ answer = "ok"
    BY <1>1, <1>3, <2>1 DEF Advances, Logged
  <2>2. CASE ~(d = c /\ answer = "ok")
    <3>1. Logged(e, cs[d].handle, d)
      BY <1>5, <1>11, <2>2 DEF Kept
    <3> QED
      BY <1>1, <1>3, <3>1 DEF Advances, Logged
  <2> QED
    BY <2>1, <2>2
<1>12. Alone(e) => \A o : TrapsFirst(o, e) => TrapsFirst(o, f)
  BY <1>1, <1>5 DEF TrapsFirst, Alone
<1>13. StopsArrive(cs, q, e) => StopsArrive(cs, q, f)
  BY <1>1, <1>7 DEF StopsArrive
<1> QED
  BY <1>2, <1>6, <1>7, <1>8, <1>10, <1>11, <1>12, <1>13 DEF Continues

\* A run ends.
LEMMA EndRunContinues ==
  ASSUME NEW cs, NEW e, NEW q, IsEngine(e), Orderly(cs, e, q),
         NEW c \in e.running, c \notin e.hung, c \in Nat, NEW answer \in {"ok", "error", "cancelled"},
         NEW f, f = [e EXCEPT !.running = @ \ {c},
                              !.finished = Append(@, [call |-> c, answer |-> answer,
                                                      sound |-> ~e.trapped])]
  PROVE  Continues(cs, e, q, f)
<1> DEFINE a == [call |-> c, answer |-> answer, sound |-> ~e.trapped]
<1>1. /\ f.waiting = e.waiting /\ f.running = e.running \ {c}
      /\ f.finished = Append(e.finished, a)
      /\ f.table = e.table /\ f.stops = e.stops /\ f.trapped = e.trapped /\ f.hung = e.hung /\ f.load = e.load
      /\ f = [load |-> f.load, fails |-> f.fails, trapped |-> f.trapped, waiting |-> f.waiting,
              running |-> f.running, finished |-> f.finished, table |-> f.table, stops |-> f.stops,
              hung |-> f.hung]
  BY DEF IsEngine
<1>2. a \in AnswerRecords /\ a.call = c /\ a.answer = answer /\ a.sound = ~e.trapped
  BY DEF AnswerRecords, IsEngine
<1> HIDE DEF a
<1>3. /\ f.finished \in Seq(AnswerRecords)
      /\ CallsOf(f.finished) = CallsOf(e.finished) \cup {c}
      /\ OkCalls(f.finished) \subseteq OkCalls(e.finished) \cup {c}
      /\ HasFatal(f.finished) <=> HasFatal(e.finished)
      /\ Covered(e.finished) /\ (~e.trapped \/ HasFatal(e.finished)) => Covered(f.finished)
      /\ NoEvents(f.finished)
  <2>1. e.finished \in Seq(AnswerRecords) /\ NoEvents(e.finished)
    BY DEF IsEngine
  <2>2. /\ Append(e.finished, a) \in Seq(AnswerRecords)
        /\ CallsOf(Append(e.finished, a)) = CallsOf(e.finished) \cup {a.call}
        /\ OkCalls(Append(e.finished, a)) =
             OkCalls(e.finished) \cup (IF a.answer = "ok" THEN {a.call} ELSE {})
        /\ HasFatal(Append(e.finished, a)) <=> HasFatal(e.finished) \/ a.answer = "fatal"
        /\ Covered(e.finished) /\ (a.sound \/ HasFatal(e.finished)) => Covered(Append(e.finished, a))
        /\ NoEvents(e.finished) /\ a.answer # "event" => NoEvents(Append(e.finished, a))
    BY <1>2, <2>1, AppendAnswer
  <2> QED
    BY <1>1, <1>2, <2>1, <2>2
<1>4. IsEngine(f)
  BY <1>1, <1>3 DEF IsEngine
<1>5. /\ Past(f) \subseteq Past(e)
      /\ Coming(f, q) = Coming(e, q)
      /\ Carrying(f, q) = Carrying(e, q)
  BY <1>1, <1>3 DEF Past, Coming, Carrying
<1>6. Orderly(cs, f, q)
  <2>1. \A x \in Past(f), y \in Coming(f, q) : Before(cs, x, y)
    BY <1>5 DEF Orderly
  <2>2. Past(f) \cup Coming(f, q) \subseteq DOMAIN cs
    BY <1>5 DEF Orderly
  <2>3. f.running \cap CallsOf(f.finished) = {}
    BY <1>1, <1>3 DEF Orderly
  <2> QED
    BY <1>1, <2>1, <2>2, <2>3 DEF Orderly
<1>7. cs[c].op = "run"
  BY DEF Orderly
<1>8. \A S, o : Kept(cs, S, e, o) => Kept(cs, S, f, o)
  BY <1>1, <1>3, <1>7 DEF Kept, Logged
<1>9. Alone(e) => \A o : TrapsFirst(o, e) => TrapsFirst(o, f)
  BY <1>1, <1>3 DEF TrapsFirst, Alone
<1>10. StopsArrive(cs, q, e) => StopsArrive(cs, q, f)
  BY <1>1, <1>5 DEF StopsArrive
<1> QED
  BY <1>4, <1>5, <1>6, <1>8, <1>9, <1>10 DEF Continues

\* A run traps in its poll.
LEMMA TrapRunContinues ==
  ASSUME NEW cs, NEW e, NEW q, IsEngine(e), Orderly(cs, e, q), NEW c \in e.running,
         NEW f, f = [e EXCEPT !.hung = @ \cup {c}, !.trapped = TRUE]
  PROVE  Continues(cs, e, q, f)
<1>1. /\ f.waiting = e.waiting /\ f.running = e.running /\ f.finished = e.finished
      /\ f.table = e.table /\ f.stops = e.stops /\ f.load = e.load
      /\ f.hung = e.hung \cup {c} /\ f.trapped = TRUE
      /\ f = [load |-> f.load, fails |-> f.fails, trapped |-> f.trapped, waiting |-> f.waiting,
              running |-> f.running, finished |-> f.finished, table |-> f.table,
              stops |-> f.stops, hung |-> f.hung]
  BY DEF IsEngine
<1>2. IsEngine(f)
  BY <1>1 DEF IsEngine
<1>3. Past(f) = Past(e) /\ Coming(f, q) = Coming(e, q) /\ Carrying(f, q) = Carrying(e, q)
  BY <1>1 DEF Past, Coming, Carrying
<1>4. Orderly(cs, f, q)
  BY <1>1, <1>3 DEF Orderly
<1>5. \A S, o : Kept(cs, S, e, o) => Kept(cs, S, f, o)
  BY <1>1 DEF Kept, Logged
<1>6. \A o : TrapsFirst(o, e) => TrapsFirst(o, f)
  BY <1>1 DEF TrapsFirst
<1>7. StopsArrive(cs, q, e) => StopsArrive(cs, q, f)
  BY <1>1, <1>3 DEF StopsArrive
<1> QED
  BY <1>2, <1>3, <1>4, <1>5, <1>6, <1>7 DEF Continues

\* runRequest: a study is created once, edits come in order, only what is freed
\* is dropped.
LEMMA EffectsAdvance ==
  ASSUME NEW e, NEW q, IsEngine(e), Orderly(calls, e, q), NEW c \in Coming(e, q), c \in Nat,
         CallInv(calls, host, c), NEW x \in Effects(c, e.table)
  PROVE  Advances(calls, e, c, x.table, x.answer) /\ x.answer \in {"ok", "error"}
<1> DEFINE r == calls[c]
           Same == [table |-> e.table, answer |-> "error"]
<1>1. \A h \in DOMAIN e.table : e.table[h] \in Seq(Nat)
  BY DEF IsEngine
<1>2. /\ \A y \in Logs(e.table) : calls[y].op = "edit"
      /\ \A h \in DOMAIN e.table : \A k, l \in DOMAIN e.table[h] :
           k < l => e.table[h][k] < e.table[h][l]
  BY DEF Orderly
<1>3. \A y \in DOMAIN e.table \cup Logs(e.table) : Before(calls, y, c)
  BY DEF Orderly, Past
<1>4. c \notin DOMAIN e.table
  BY <1>3 DEF Before
<1>5. \A h \in DOMAIN e.table : ToSet(e.table[h]) \subseteq Logs(e.table)
  BY DEF Logs
<1>6. \/ x = Same
      \/ r.op = "create" /\ x = [table |-> Put(e.table, r.handle, <<>>), answer |-> "ok"]
      \/ /\ r.op = "edit" /\ r.handle \in DOMAIN e.table
         /\ x = [table |-> Put(e.table, r.handle, Append(e.table[r.handle], c)), answer |-> "ok"]
      \/ r.op = "free" /\ x = [table |-> Drop(e.table, r.handle), answer |-> "ok"]
      \/ /\ r.op \notin {"create", "edit", "free"}
         /\ x = [table |-> e.table, answer |-> "ok"]
  BY DEF Effects
<1>7. CASE x.table = e.table /\ x.answer \in {"ok", "error"} /\ (x.answer = "ok" => r.op # "edit")
  BY <1>1, <1>2, <1>7 DEF Advances
<1>8. CASE r.op = "create" /\ x = [table |-> Put(e.table, r.handle, <<>>), answer |-> "ok"]
  <2> DEFINE t == Put(e.table, c, <<>>)
  <2>1. x.table = t /\ x.answer = "ok" /\ r.handle = c
    BY <1>8 DEF CallInv
  <2>2. /\ DOMAIN t = DOMAIN e.table \cup {c}
        /\ \A h \in DOMAIN e.table : t[h] = e.table[h]
        /\ t[c] = <<>>
    BY <1>4 DEF Put
  <2> HIDE DEF t
  <2>3. ToSet(t[c]) = {} /\ DOMAIN t[c] = {} /\ t[c] \in Seq(Nat)
    BY <2>2 DEF ToSet
  <2>4. Logs(t) \subseteq Logs(e.table)
    BY <2>2, <2>3 DEF Logs
  <2>5. \A h \in DOMAIN t : t[h] \in Seq(Nat)
    BY <1>1, <2>2, <2>3
  <2>6. \A h \in DOMAIN t : \A k, l \in DOMAIN t[h] : k < l => t[h][k] < t[h][l]
    BY <1>2, <2>2, <2>3
  <2> QED
    BY <1>2, <1>8, <2>1, <2>2, <2>4, <2>5, <2>6 DEF Advances
<1>9. CASE /\ r.op = "edit" /\ r.handle \in DOMAIN e.table
           /\ x = [table |-> Put(e.table, r.handle, Append(e.table[r.handle], c)), answer |-> "ok"]
  <2> DEFINE h == r.handle
             log == e.table[h]
             new == Append(log, c)
             t == Put(e.table, h, new)
             n == Len(log)
  <2>1. x.table = t /\ x.answer = "ok" /\ h \in DOMAIN e.table
    BY <1>9
  <2>2. /\ DOMAIN t = DOMAIN e.table
        /\ \A g \in DOMAIN e.table : g # h => t[g] = e.table[g]
        /\ t[h] = new
    BY <2>1 DEF Put
  <2>3. log \in Seq(Nat)
    BY <1>1, <2>1
  <2>4. /\ new \in Seq(Nat)
        /\ n \in Nat
        /\ DOMAIN log = 1..n /\ DOMAIN new = 1..(n + 1)
        /\ \A k \in 1..n : new[k] = log[k] /\ log[k] \in Nat
        /\ new[n + 1] = c
        /\ ToSet(new) = ToSet(log) \cup {c}
    <3> HIDE DEF log
    <3> QED
      BY <2>3, AppendFacts
  <2>5. \A k \in 1..n : log[k] < c
    <3>1. \A y \in Logs(e.table) : y < c
      BY <1>2, <1>3, <1>9 DEF Before
    <3>2. \A k \in 1..n : log[k] \in ToSet(log)
      BY <2>4 DEF ToSet
    <3> QED
      BY <1>5, <2>1, <3>1, <3>2
  <2>6. \A k, l \in 1..n : k < l => log[k] < log[l]
    BY <1>2, <2>1, <2>4
  <2>7. ToSet(log) \subseteq Logs(e.table)
    BY <1>5, <2>1
  <2> HIDE DEF t, new, n, log
  <2>8. \A k, l \in DOMAIN new : k < l => new[k] < new[l]
    BY <2>4, <2>5, <2>6
  <2>9. Logs(t) \subseteq Logs(e.table) \cup {c}
    BY <2>2, <2>4, <2>7 DEF Logs
  <2>10. \A g \in DOMAIN t : t[g] \in Seq(Nat)
    BY <1>1, <2>2, <2>4
  <2>11. \A g \in DOMAIN t : \A k, l \in DOMAIN t[g] : k < l => t[g][k] < t[g][l]
    <3> SUFFICES ASSUME NEW g \in DOMAIN t
                 PROVE  \A k, l \in DOMAIN t[g] : k < l => t[g][k] < t[g][l]
      OBVIOUS
    <3>1. CASE g = h
      BY <2>2, <2>8, <3>1
    <3>2. CASE g # h
      BY <1>2, <2>2, <3>2
    <3> QED
      BY <3>1, <3>2
  <2>12. \A g \in DOMAIN e.table : g \in DOMAIN t /\ ToSet(e.table[g]) \subseteq ToSet(t[g])
    BY <2>2, <2>4 DEF log
  <2>13. h \in DOMAIN t /\ c \in ToSet(t[h])
    BY <2>1, <2>2, <2>4
  <2>14. DOMAIN t \cup Logs(t) \subseteq DOMAIN e.table \cup Logs(e.table) \cup {c}
    BY <2>2, <2>9
  <2>15. \A y \in Logs(t) : calls[y].op = "edit"
    BY <1>2, <1>9, <2>9
  <2>16. Advances(calls, e, c, t, "ok")
    BY <2>10, <2>11, <2>12, <2>13, <2>14, <2>15 DEF Advances
  <2> QED
    BY <2>1, <2>16
<1>10. CASE r.op = "free" /\ x = [table |-> Drop(e.table, r.handle), answer |-> "ok"]
  <2> DEFINE h == r.handle
             t == Drop(e.table, h)
  <2>1. x.table = t /\ x.answer = "ok"
    BY <1>10
  <2>2. /\ DOMAIN t = DOMAIN e.table \ {h}
        /\ \A g \in DOMAIN t : t[g] = e.table[g]
    BY DEF Drop
  <2>3. IsFreed(calls, h)
    <3>1. c \in DOMAIN calls
      BY DEF Orderly
    <3> QED
      BY <1>10, <3>1 DEF IsFreed
  <2> HIDE DEF t
  <2>4. Logs(t) \subseteq Logs(e.table)
    BY <2>2 DEF Logs
  <2> QED
    BY <1>1, <1>2, <1>10, <2>1, <2>2, <2>3, <2>4 DEF Advances
<1> QED
  BY <1>6, <1>7, <1>8, <1>9, <1>10

------------------------------------------------------------------------------
(* What happens in one engine leaves the others alone. *)

\* What engine i has yet to take.
Inbox(i) == IF i = Page THEN <<>> ELSE thread[i].inbox

\* The page's thread is an engine and no worker; every worker is an engine.
LEMMA PageIsNoWorker == Page \notin Workers /\ Page \in Engines /\ Workers \subseteq Engines
BY DEF Page, Workers, Engines

\* A worker that works is one that serves.
LEMMA WorkingServes ==
  ASSUME Inv, NEW w \in Workers, engine[w] # NewEngine
  PROVE  host[w].state = "serving" /\ Serves(calls, w, host[w], thread[w], outbox[w], engine[w])
BY DEF Inv, WorkerInv, Idle

\* A host that serves a run is isolated and has no other call.
LEMMA HungIsAlone ==
  ASSUME Inv, NEW w \in Workers, host[w].state = "serving"
  PROVE  Alone(engine[w])
<1> DEFINE e == engine[w]
           q == thread[w].inbox
<1> SUFFICES ASSUME NEW c \in e.hung
             PROVE  e.waiting = <<>> /\ e.running \subseteq e.hung
  BY DEF Alone
<1>1. IsEngine(e)
  BY PageIsNoWorker DEF Inv, TypeOK
<1>2. Orderly(calls, e, q) /\ Past(e) \cup Coming(e, q) \subseteq CallsOn(calls, w)
  BY DEF Inv, WorkerInv, Serves
<1>3. \A d \in DOMAIN calls : CallInv(calls, host, d)
  BY DEF Inv
<1> HIDE DEF e, q
<1>4. c \in e.running /\ e.running \subseteq Past(e) /\ c \in CallsOn(calls, w)
  BY <1>1, <1>2 DEF IsEngine, Past
<1>5. calls[c].op = "run" /\ c \in DOMAIN calls /\ calls[c].host = w
  BY <1>2, <1>4 DEF Orderly, CallsOn
<1>6. CallsOn(calls, w) = {c}
  BY <1>3, <1>5 DEF CallInv
<1>7. e.running \subseteq e.hung
  BY <1>2, <1>4, <1>6
<1>8. ToSet(e.waiting) = {}
  <2>1. \A y \in ToSet(e.waiting) : y \in Coming(e, q)
    BY DEF Coming
  <2>2. \A y \in ToSet(e.waiting) : y = c /\ Before(calls, c, y)
    BY <1>2, <1>4, <1>6, <2>1 DEF Orderly
  <2> QED
    BY <2>2 DEF Before
<1>9. e.waiting = <<>>
  <2>1. e.waiting \in Seq(Nat)
    BY <1>1 DEF IsEngine
  <2>2. e.waiting # <<>> => Head(e.waiting) \in ToSet(e.waiting)
    BY <2>1, TailFacts
  <2> QED
    BY <1>8, <2>2
<1> QED
  BY <1>7, <1>9

\* An engine's step preserves the invariant.
LEMMA EngineChange ==
  ASSUME Inv, NEW i \in Engines, NEW f,
         i \in Workers => host[i].state = "serving",
         Orderly(calls, engine[i], Inbox(i)) => Continues(calls, engine[i], Inbox(i), f),
         engine' = [engine EXCEPT ![i] = f],
         UNCHANGED <<active, calls, host, thread, outbox>>
  PROVE  Inv'
<1>1. /\ engine' = [j \in Engines |-> engine'[j]]
      /\ engine'[i] = f
      /\ \A j \in Engines : j # i => engine'[j] = engine[j]
  BY DEF Inv, TypeOK
<1>2. Page \notin Workers /\ Page \in Engines /\ Workers \subseteq Engines
  BY PageIsNoWorker
<1>3. Orderly(calls, engine[i], Inbox(i))
  BY <1>2 DEF Inv, PageInv, WorkerInv, Serves, Inbox, Engines
<1>4. Continues(calls, engine[i], Inbox(i), f)
  BY <1>3
<1>5. TypeOK'
  BY <1>1, <1>4 DEF Inv, TypeOK, Continues
<1>6. /\ ActiveInv(active, host)'
      /\ (\A c \in DOMAIN calls : CallInv(calls, host, c))'
  BY DEF Inv, ActiveInv, CallInv, CallsOn
<1>7. ASSUME NEW w \in Workers
      PROVE  WorkerInv(calls, w, host[w], thread[w], outbox[w], engine[w])'
  <2>1. WorkerInv(calls, w, host[w], thread[w], outbox[w], engine[w])
    BY DEF Inv
  <2>2. /\ calls' = calls /\ host'[w] = host[w] /\ thread'[w] = thread[w] /\ outbox'[w] = outbox[w]
    OBVIOUS
  <2>3. CASE w # i
    <3>1. engine'[w] = engine[w]
      BY <1>1, <1>2, <2>3
    <3> QED
      BY <2>1, <2>2, <3>1
  <2>4. CASE w = i
    <3> DEFINE h == host[w]
               t == thread[w]
               o == outbox[w]
               e == engine[w]
    <3>1. h.state = "serving" /\ Serves(calls, w, h, t, o, e) /\ engine'[w] = f
      BY <1>1, <2>1, <2>4 DEF WorkerInv
    <3>2. Continues(calls, e, t.inbox, f)
      BY <1>2, <1>4, <2>4 DEF Inbox
    <3> HIDE DEF h, t, o, e
    <3>3. CallsOn(calls, w) \subseteq DOMAIN calls
      BY DEF CallsOn
    <3>4. Awaited(h.pending, t, o, f)
      BY <3>1, <3>2 DEF Serves, Continues, Awaited
    <3>5. t.state # "closed" => Kept(calls, CallsOn(calls, w), f, o)
      BY <3>1, <3>2, <3>3 DEF Serves, Continues
    <3>6. Orderly(calls, f, t.inbox) /\ Past(f) \cup Coming(f, t.inbox) \subseteq CallsOn(calls, w)
      BY <3>1, <3>2 DEF Serves, Continues
    <3>7. TrapsFirst(o, f) /\ StopsArrive(calls, t.inbox, f)
      <4>1. Alone(e)
        BY <3>1, HungIsAlone DEF h, e
      <4> QED
        BY <3>1, <3>2, <4>1 DEF Serves, Continues
    <3>8. Serves(calls, w, h, t, o, f)
      BY <3>1, <3>4, <3>5, <3>6, <3>7 DEF Serves
    <3>9. WorkerInv(calls, w, h, t, o, f)
      BY <3>1, <3>8 DEF WorkerInv
    <3> QED
      BY <2>2, <3>1, <3>9 DEF h, t, o
  <2> QED
    BY <2>3, <2>4
<1>8. PageInv(calls, host, engine[Page])'
  <2>1. PageInv(calls, host, engine[Page])
    BY DEF Inv
  <2>2. CASE i # Page
    <3>1. engine'[Page] = engine[Page]
      BY <1>1, <1>2, <2>2
    <3> QED
      BY <2>1, <3>1
  <2>3. CASE i = Page
    <3> DEFINE e == engine[Page]
    <3>1. Continues(calls, e, <<>>, f) /\ engine'[Page] = f
      BY <1>1, <1>4, <2>3 DEF Inbox
    <3>2. CallsOnPage(calls, host) \subseteq DOMAIN calls
      BY DEF CallsOnPage
    <3>3. PageInv(calls, host, e)
      BY <2>1
    <3> HIDE DEF e
    <3>4. PageInv(calls, host, f)
      BY <3>1, <3>2, <3>3 DEF PageInv, Continues
    <3> QED
      BY <3>1, <3>4
  <2> QED
    BY <2>2, <2>3
<1> QED
  BY <1>5, <1>6, <1>7, <1>8 DEF Inv

\* A call that an engine has is a call, and the engine is in order.
LEMMA EngineFacts ==
  ASSUME Inv, NEW i \in Engines, i \in Workers => host[i].state = "serving"
  PROVE  /\ IsEngine(engine[i])
         /\ Orderly(calls, engine[i], Inbox(i))
         /\ DOMAIN calls \subseteq Nat
         /\ \A c \in DOMAIN calls : c \in Nat /\ CallInv(calls, host, c)
<1>1. Orderly(calls, engine[i], Inbox(i))
  BY PageIsNoWorker DEF Inv, PageInv, WorkerInv, Serves, Inbox, Engines
<1>2. DOMAIN calls = 1..Len(calls) /\ Len(calls) \in Nat
  BY LenProperties DEF Inv, TypeOK
<1> QED
  BY <1>1, <1>2 DEF Inv, TypeOK

\* The module has arrived.
LEMMA LoadInv ==
  ASSUME Inv, NEW i \in Engines, Load(i)
  PROVE  Inv'
<1> DEFINE f == [engine[i] EXCEPT !.load = "ready"]
<1>1. engine' = [engine EXCEPT ![i] = f] /\ UNCHANGED <<active, calls, host, thread, outbox>>
  BY DEF Load
<1>2. i \in Workers => host[i].state = "serving"
  BY WorkingServes DEF Load, NewEngine
<1>3. Orderly(calls, engine[i], Inbox(i)) => Continues(calls, engine[i], Inbox(i), f)
  BY <1>2, EngineFacts, LoadContinues
<1> HIDE DEF f
<1> QED
  BY <1>1, <1>2, <1>3, EngineChange

\* The module has not.
LEMMA LoadFailsInv ==
  ASSUME Inv, NEW i \in Engines, LoadFails(i)
  PROVE  Inv'
<1>1. PICK next \in {"none", "unsupported"} :
        engine' = [engine EXCEPT ![i].load = next, ![i].fails = @ + 1, ![i].waiting = <<>>,
                     ![i].finished = @ \o Answers(engine[i].waiting, "error")]
  BY DEF LoadFails
<1> DEFINE f == [engine[i] EXCEPT !.load = next, !.fails = @ + 1, !.waiting = <<>>,
                                  !.finished = @ \o Answers(engine[i].waiting, "error")]
<1>2. engine' = [engine EXCEPT ![i] = f] /\ UNCHANGED <<active, calls, host, thread, outbox>>
  BY <1>1 DEF LoadFails, Inv, TypeOK
<1>3. i \in Workers => host[i].state = "serving"
  BY WorkingServes DEF LoadFails, NewEngine
<1>4. Orderly(calls, engine[i], Inbox(i)) => Continues(calls, engine[i], Inbox(i), f)
  BY <1>3, EngineFacts, LoadFailsContinues
<1> HIDE DEF f
<1> QED
  BY <1>2, <1>3, <1>4, EngineChange

\* A run ends.
LEMMA EndRunInv ==
  ASSUME Inv, NEW i \in Engines, NEW c \in engine[i].running, EndRun(i, c)
  PROVE  Inv'
<1>1. PICK answer \in {"ok", "error", "cancelled"} :
        engine' = [engine EXCEPT ![i].running = @ \ {c},
                     ![i].finished = Append(@, [call |-> c, answer |-> answer,
                                                sound |-> ~engine[i].trapped])]
  BY DEF EndRun
<1> DEFINE f == [engine[i] EXCEPT !.running = @ \ {c},
                   !.finished = Append(@, [call |-> c, answer |-> answer,
                                           sound |-> ~engine[i].trapped])]
<1>2. engine' = [engine EXCEPT ![i] = f] /\ UNCHANGED <<active, calls, host, thread, outbox>>
  BY <1>1 DEF EndRun, Inv, TypeOK
<1>3. i \in Workers => host[i].state = "serving"
  BY WorkingServes DEF NewEngine
<1>4. IsEngine(engine[i]) /\ Orderly(calls, engine[i], Inbox(i)) /\ DOMAIN calls \subseteq Nat
  BY <1>3, EngineFacts
<1>5. c \in Nat
  BY <1>4 DEF Orderly, Past
<1>6. Continues(calls, engine[i], Inbox(i), f)
  <2>1. c \notin engine[i].hung
    BY DEF EndRun
  <2> QED
    BY <1>4, <1>5, <2>1, EndRunContinues
<1> HIDE DEF f
<1> QED
  BY <1>2, <1>3, <1>6, EngineChange

\* A run traps in its poll.
LEMMA TrapRunInv ==
  ASSUME Inv, NEW i \in Engines, NEW c \in engine[i].running, TrapRun(i, c)
  PROVE  Inv'
<1> DEFINE f == [engine[i] EXCEPT !.hung = @ \cup {c}, !.trapped = TRUE]
<1>1. engine' = [engine EXCEPT ![i] = f] /\ UNCHANGED <<active, calls, host, thread, outbox>>
  BY DEF TrapRun, Inv, TypeOK
<1>2. i \in Workers => host[i].state = "serving"
  BY WorkingServes DEF NewEngine
<1>3. Continues(calls, engine[i], Inbox(i), f)
  BY <1>2, EngineFacts, TrapRunContinues
<1> HIDE DEF f
<1> QED
  BY <1>1, <1>2, <1>3, EngineChange

\* The handler at the head of the queue continues.
LEMMA WaitingTaken ==
  ASSUME NEW e, NEW s, NEW d, d = [e EXCEPT !.waiting = s],
         e = [load |-> e.load, fails |-> e.fails, trapped |-> e.trapped, waiting |-> e.waiting,
              running |-> e.running, finished |-> e.finished, table |-> e.table, stops |-> e.stops,
              hung |-> e.hung]
  PROVE  /\ d.load = e.load /\ d.trapped = e.trapped /\ d.hung = e.hung /\ d.waiting = s /\ d.running = e.running
         /\ d.finished = e.finished /\ d.stops = e.stops /\ d.table = e.table
         /\ d = [load |-> d.load, fails |-> d.fails, trapped |-> d.trapped, waiting |-> d.waiting,
                 running |-> d.running, finished |-> d.finished, table |-> d.table, stops |-> d.stops,
                 hung |-> d.hung]
OBVIOUS

\* The handler has its result.
LEMMA ResultAdded ==
  ASSUME NEW e, NEW t, NEW a, NEW d, d = [e EXCEPT !.table = t, !.finished = Append(@, a)],
         e = [load |-> e.load, fails |-> e.fails, trapped |-> e.trapped, waiting |-> e.waiting,
              running |-> e.running, finished |-> e.finished, table |-> e.table, stops |-> e.stops,
              hung |-> e.hung]
  PROVE  /\ d.load = e.load /\ d.trapped = e.trapped /\ d.hung = e.hung /\ d.waiting = e.waiting
         /\ d.running = e.running /\ d.finished = Append(e.finished, a) /\ d.stops = e.stops
         /\ d.table = t
         /\ d = [load |-> d.load, fails |-> d.fails, trapped |-> d.trapped, waiting |-> d.waiting,
                 running |-> d.running, finished |-> d.finished, table |-> d.table, stops |-> d.stops,
                 hung |-> d.hung]
OBVIOUS

\* What Execute makes of an engine.
LEMMA RequestExecuted ==
  ASSUME NEW e, NEW e0, NEW d, NEW table, NEW answer, NEW trapped,
         e = [load |-> e.load, fails |-> e.fails, trapped |-> e.trapped, waiting |-> e.waiting,
              running |-> e.running, finished |-> e.finished, table |-> e.table, stops |-> e.stops,
              hung |-> e.hung],
         e0 = [e EXCEPT !.waiting = Tail(e.waiting)],
         d = [e0 EXCEPT !.table = table,
                !.finished = Append(@, [call |-> Head(e.waiting), answer |-> answer,
                                        sound |-> ~e0.trapped])]
  PROVE  /\ Executed(e, d, table, answer, e.trapped)
         /\ Executed(e, [d EXCEPT !.trapped = trapped], table, answer, trapped)
<1> DEFINE a == [call |-> Head(e.waiting), answer |-> answer, sound |-> ~e0.trapped]
           f == [d EXCEPT !.trapped = trapped]
<1>1. /\ e0.load = e.load /\ e0.trapped = e.trapped /\ e0.hung = e.hung /\ e0.waiting = Tail(e.waiting)
      /\ e0.running = e.running /\ e0.finished = e.finished /\ e0.stops = e.stops
      /\ e0 = [load |-> e0.load, fails |-> e0.fails, trapped |-> e0.trapped, waiting |-> e0.waiting,
               running |-> e0.running, finished |-> e0.finished, table |-> e0.table,
               stops |-> e0.stops,
               hung |-> e0.hung]
  <2> DEFINE s == Tail(e.waiting)
  <2>1. e0 = [e EXCEPT !.waiting = s]
    OBVIOUS
  <2> HIDE DEF s
  <2>2. /\ e0.load = e.load /\ e0.trapped = e.trapped /\ e0.hung = e.hung /\ e0.waiting = s /\ e0.running = e.running
        /\ e0.finished = e.finished /\ e0.stops = e.stops
        /\ e0 = [load |-> e0.load, fails |-> e0.fails, trapped |-> e0.trapped,
                 waiting |-> e0.waiting, running |-> e0.running, finished |-> e0.finished,
                 table |-> e0.table, stops |-> e0.stops,
                 hung |-> e0.hung]
    BY <2>1, WaitingTaken
  <2> QED
    BY <2>2 DEF s
<1>2. a = [call |-> Head(e.waiting), answer |-> answer, sound |-> ~e.trapped]
  BY <1>1
<1>3. d = [e0 EXCEPT !.table = table, !.finished = Append(@, a)]
  OBVIOUS
<1> HIDE DEF a
<1>4. /\ d.load = e0.load /\ d.trapped = e0.trapped /\ d.hung = e0.hung /\ d.waiting = e0.waiting
      /\ d.running = e0.running /\ d.finished = Append(e0.finished, a) /\ d.stops = e0.stops
      /\ d.table = table
      /\ d = [load |-> d.load, fails |-> d.fails, trapped |-> d.trapped, waiting |-> d.waiting,
              running |-> d.running, finished |-> d.finished, table |-> d.table,
              stops |-> d.stops,
              hung |-> d.hung]
  BY <1>1, <1>3, ResultAdded
<1>5. /\ f.load = d.load /\ f.trapped = trapped /\ f.hung = d.hung /\ f.waiting = d.waiting
      /\ f.running = d.running /\ f.finished = d.finished /\ f.stops = d.stops
      /\ f.table = d.table
      /\ f = [load |-> f.load, fails |-> f.fails, trapped |-> f.trapped, waiting |-> f.waiting,
              running |-> f.running, finished |-> f.finished, table |-> f.table,
              stops |-> f.stops,
              hung |-> f.hung]
  BY ONLY <1>4 DEF f
<1> HIDE DEF f
<1>6. Executed(e, d, table, answer, e.trapped)
  BY <1>1, <1>2, <1>4 DEF Executed
<1>7. Executed(e, f, table, answer, trapped)
  BY <1>1, <1>2, <1>4, <1>5 DEF Executed
<1> QED
  BY <1>6, <1>7 DEF f

\* A handler that waited continues.
LEMMA ExecuteInv ==
  ASSUME Inv, NEW i \in Engines, Execute(i)
  PROVE  Inv'
<1> DEFINE e == engine[i]
           q == Inbox(i)
           c == Head(e.waiting)
           e0 == [e EXCEPT !.waiting = Tail(@)]
           done(table, answer) ==
             [e0 EXCEPT !.table = table,
                !.finished = Append(@, [call |-> c, answer |-> answer, sound |-> ~e0.trapped])]
<1>1. e.waiting # <<>> /\ UNCHANGED <<active, calls, host, thread, outbox>>
  BY DEF Execute
<1>2. i \in Workers => host[i].state = "serving"
  BY <1>1, WorkingServes DEF NewEngine
<1>3. /\ IsEngine(e) /\ Orderly(calls, e, q)
      /\ \A d \in DOMAIN calls : d \in Nat /\ CallInv(calls, host, d)
  BY <1>2, EngineFacts
<1>4. c \in Nat /\ c \in Coming(e, q) /\ c \in DOMAIN calls
  <2>1. c \in Nat /\ c \in Coming(e, q)
    BY <1>1, <1>3, FirstWaits
  <2> QED
    BY <1>3, <2>1 DEF Orderly
<1>5. \/ /\ calls[c].op = "run"
         /\ engine' = [engine EXCEPT ![i] = [e0 EXCEPT !.running = @ \cup {c}]]
      \/ /\ calls[c].op # "run"
         /\ \E x \in Effects(c, e0.table) :
              engine' = [engine EXCEPT ![i] = done(x.table, x.answer)]
      \/ engine' = [engine EXCEPT ![i] = [done(e0.table, "fatal") EXCEPT !.trapped = TRUE]]
  BY DEF Execute
<1>6. /\ e = [load |-> e.load, fails |-> e.fails, trapped |-> e.trapped, waiting |-> e.waiting,
              running |-> e.running, finished |-> e.finished, table |-> e.table, stops |-> e.stops,
              hung |-> e.hung]
      /\ e.trapped \in BOOLEAN
  BY <1>3 DEF IsEngine
<1> HIDE DEF e, q, c
<1>7. /\ e0.table = e.table
      /\ [e0 EXCEPT !.running = @ \cup {c}] = [e EXCEPT !.waiting = Tail(@), !.running = @ \cup {c}]
  BY <1>6
<1>8. ASSUME NEW table, NEW answer, NEW trapped
      PROVE  /\ Executed(e, done(table, answer), table, answer, e.trapped)
             /\ Executed(e, [done(table, answer) EXCEPT !.trapped = trapped], table, answer, trapped)
  <2> HIDE DEF e0
  <2>1. e0 = [e EXCEPT !.waiting = Tail(e.waiting)]
    BY DEF e0
  <2> HIDE DEF done
  <2>2. done(table, answer) =
          [e0 EXCEPT !.table = table,
             !.finished = Append(@, [call |-> Head(e.waiting), answer |-> answer,
                                     sound |-> ~e0.trapped])]
    BY DEF done, c
  <2> QED
    BY <1>6, <2>1, <2>2, RequestExecuted
<1> HIDE DEF e0
<1> HIDE DEF done
<1>9. ASSUME NEW f, NEW table, NEW answer \in {"ok", "error", "fatal"},
              Advances(calls, e, c, table, answer),
              NEW trapped \in BOOLEAN, trapped = e.trapped \/ answer = "fatal",
              Executed(e, f, table, answer, trapped),
              engine' = [engine EXCEPT ![i] = f]
       PROVE  Inv'
  <2>1. Continues(calls, e, q, f)
    BY <1>1, <1>3, <1>9, ExecutionContinues DEF c
  <2> QED
    BY <1>1, <1>2, <1>9, <2>1, EngineChange DEF e, q
<1>10. CASE /\ calls[c].op = "run"
            /\ engine' = [engine EXCEPT ![i] = [e0 EXCEPT !.running = @ \cup {c}]]
  <2> DEFINE f == [e EXCEPT !.waiting = Tail(@), !.running = @ \cup {c}]
  <2>1. Continues(calls, e, q, f)
    BY <1>1, <1>3, <1>10, RunContinues DEF c
  <2>2. engine' = [engine EXCEPT ![i] = f]
    BY <1>7, <1>10
  <2> HIDE DEF f
  <2> QED
    BY <1>1, <1>2, <2>1, <2>2, EngineChange DEF e, q
<1>11. CASE \E x \in Effects(c, e0.table) : engine' = [engine EXCEPT ![i] = done(x.table, x.answer)]
  <2>1. PICK x \in Effects(c, e.table) : engine' = [engine EXCEPT ![i] = done(x.table, x.answer)]
    BY <1>7, <1>11
  <2>2. Advances(calls, e, c, x.table, x.answer) /\ x.answer \in {"ok", "error"}
    BY <1>3, <1>4, EffectsAdvance
  <2> QED
    BY <1>6, <1>8, <1>9, <2>1, <2>2
<1>12. CASE engine' = [engine EXCEPT ![i] = [done(e0.table, "fatal") EXCEPT !.trapped = TRUE]]
  <2>1. Advances(calls, e, c, e.table, "fatal")
    BY <1>3 DEF Advances, IsEngine, Orderly
  <2>2. engine' = [engine EXCEPT ![i] = [done(e.table, "fatal") EXCEPT !.trapped = TRUE]]
    BY <1>7, <1>12
  <2> QED
    BY <1>8, <1>9, <2>1, <2>2
<1> QED
  BY <1>5, <1>10, <1>11, <1>12


------------------------------------------------------------------------------
(* A step of the system, part by part. *)

\* What a step does to a worker: nothing, with nothing happening to its calls,
\* or something after which it is in order.
LEMMA SystemChange ==
  ASSUME Inv, TypeOK', Grows(calls, calls'),
         ActiveInv(active', host'),
         \A c \in DOMAIN calls' : CallInv(calls', host', c),
         PageInv(calls', host', engine'[Page]),
         \A w \in Workers :
           \/ WorkerInv(calls', w, host'[w], thread'[w], outbox'[w], engine'[w])
           \/ /\ host'[w] = host[w] /\ thread'[w] = thread[w]
              /\ outbox'[w] = outbox[w] /\ engine'[w] = engine[w]
              /\ host[w].state \notin {"forwarding", "direct"} =>
                   /\ CallsOn(calls', w) = CallsOn(calls, w)
                   /\ \A c \in CallsOn(calls, w) : calls'[c] = calls[c]
  PROVE  Inv'
<1>1. ASSUME NEW w \in Workers
      PROVE  WorkerInv(calls', w, host'[w], thread'[w], outbox'[w], engine'[w])
  <2>1. CASE /\ host'[w] = host[w] /\ thread'[w] = thread[w]
             /\ outbox'[w] = outbox[w] /\ engine'[w] = engine[w]
             /\ host[w].state \notin {"forwarding", "direct"} =>
                  /\ CallsOn(calls', w) = CallsOn(calls, w)
                  /\ \A c \in CallsOn(calls, w) : calls'[c] = calls[c]
    <3>1. WorkerInv(calls, w, host[w], thread[w], outbox[w], engine[w])
      BY DEF Inv
    <3>2. WorkerInv(calls', w, host[w], thread[w], outbox[w], engine[w])
      BY <2>1, <3>1, WorkerFrame
    <3> QED
      BY <2>1, <3>2
  <2> QED
    BY <2>1
<1> QED
  BY <1>1 DEF Inv

\* A worker that serves does something that concerns no call.
LEMMA WorkerChange ==
  ASSUME Inv, NEW w \in Workers, host[w].state = "serving",
         NEW t \in ThreadRecords, NEW o \in Seq(AnswerRecords), NEW e, IsEngine(e),
         Serves(calls, w, host[w], t, o, e),
         thread' = [thread EXCEPT ![w] = t], outbox' = [outbox EXCEPT ![w] = o],
         engine' = [engine EXCEPT ![w] = e], UNCHANGED <<active, calls, host>>
  PROVE  Inv'
<1>1. Page \notin Workers /\ Page \in Engines /\ Workers \subseteq Engines
  BY PageIsNoWorker
<1>2. /\ engine' = [j \in Engines |-> engine'[j]]
      /\ engine'[w] = e
      /\ \A j \in Engines : j # w => engine'[j] = engine[j]
  BY <1>1 DEF Inv, TypeOK
<1>3. TypeOK'
  BY <1>2 DEF Inv, TypeOK
<1>4. Grows(calls, calls')
  BY DEF Grows
<1>5. PageInv(calls', host', engine'[Page])
  <2>1. engine'[Page] = engine[Page]
    BY <1>1, <1>2
  <2> QED
    BY <2>1 DEF Inv
<1>6. ASSUME NEW v \in Workers
      PROVE  \/ WorkerInv(calls', v, host'[v], thread'[v], outbox'[v], engine'[v])
             \/ /\ host'[v] = host[v] /\ thread'[v] = thread[v]
                /\ outbox'[v] = outbox[v] /\ engine'[v] = engine[v]
                /\ CallsOn(calls', v) = CallsOn(calls, v)
                /\ \A c \in CallsOn(calls, v) : calls'[c] = calls[c]
  <2>1. CASE v = w
    <3>1. thread'[v] = t /\ outbox'[v] = o /\ engine'[v] = e
      BY <1>1, <1>2, <2>1 DEF Inv, TypeOK
    <3>2. WorkerInv(calls, w, host[w], t, o, e)
      BY DEF WorkerInv
    <3> QED
      BY <2>1, <3>1, <3>2
  <2>2. CASE v # w
    BY <1>1, <1>2, <2>2 DEF Inv, TypeOK
  <2> QED
    BY <2>1, <2>2
<1>7. ActiveInv(active', host') /\ \A c \in DOMAIN calls' : CallInv(calls', host', c)
  BY DEF Inv
<1> QED
  BY <1>3, <1>4, <1>5, <1>6, <1>7, SystemChange

\* The records of a worker that serves.
LEMMA ServingFacts ==
  ASSUME Inv, NEW w \in Workers, host[w].state = "serving"
  PROVE  /\ Serves(calls, w, host[w], thread[w], outbox[w], engine[w])
         /\ IsEngine(engine[w])
         /\ thread[w] \in ThreadRecords
         /\ outbox[w] \in Seq(AnswerRecords)
         /\ host[w] \in HostRecords
         /\ CallsOn(calls, w) \subseteq DOMAIN calls
         /\ \A c \in DOMAIN calls : c \in Nat /\ CallInv(calls, host, c)
<1>1. w \in Engines
  BY PageIsNoWorker
<1>2. \A c \in DOMAIN calls : c \in Nat /\ CallInv(calls, host, c)
  BY <1>1, EngineFacts
<1> QED
  BY <1>1, <1>2 DEF Inv, TypeOK, WorkerInv, CallsOn

\* A worker's script reports an error.
LEMMA WorkerErrorInv ==
  ASSUME Inv, NEW w \in Workers, WorkerError(w)
  PROVE  Inv'
<1> DEFINE h == host[w]
           t == thread[w]
           o == outbox[w]
           e == engine[w]
           a == [call |-> None, answer |-> "event", sound |-> TRUE]
           p == Append(o, a)
<1>1. h.state = "serving"
  BY DEF WorkerError, Inv, WorkerInv, Idle
<1>2. /\ Serves(calls, w, h, t, o, e) /\ IsEngine(e)
      /\ t \in ThreadRecords /\ o \in Seq(AnswerRecords)
  BY <1>1, ServingFacts
<1>3. a \in AnswerRecords /\ a.answer = "event" /\ a.sound
  BY DEF AnswerRecords
<1>4. /\ thread' = [thread EXCEPT ![w] = t]
      /\ outbox' = [outbox EXCEPT ![w] = p]
      /\ engine' = [engine EXCEPT ![w] = e]
      /\ UNCHANGED <<active, calls, host>>
  BY PageIsNoWorker DEF WorkerError, Inv, TypeOK
<1> HIDE DEF h, t, o, e, a
<1>5. /\ p \in Seq(AnswerRecords)
      /\ OkCalls(p) = OkCalls(o)
      /\ HasFatal(p) <=> HasFatal(o)
      /\ Covered(o) => Covered(p)
  BY <1>2, <1>3, AppendAnswer
<1>6. \E k \in DOMAIN p : p[k].answer = "event"
  <2>1. DOMAIN p = 1..(Len(o) + 1) /\ p[Len(o) + 1] = a /\ Len(o) \in Nat
    BY <1>2, <1>3, AppendFacts
  <2>2. Len(o) + 1 \in DOMAIN p
    BY <2>1
  <2> QED
    BY <1>3, <2>1, <2>2
<1> HIDE DEF p
<1>7. Awaited(h.pending, t, p, e)
  BY <1>6 DEF Awaited
<1>8. t.state # "closed" => Kept(calls, CallsOn(calls, w), e, p)
  BY <1>2, <1>5 DEF Serves, Kept
<1>9. TrapsFirst(p, e)
  BY <1>2, <1>5 DEF Serves, TrapsFirst
<1>10. Serves(calls, w, h, t, p, e)
  BY <1>2, <1>5, <1>7, <1>8, <1>9 DEF Serves
<1> QED
  BY <1>1, <1>2, <1>4, <1>5, <1>10, WorkerChange DEF h

\* A handler posts its answer: engine e becomes f, the outbox o becomes p.
LEMMA AnswerServes ==
  ASSUME NEW w, NEW h, NEW t, t \in ThreadRecords, NEW o \in Seq(AnswerRecords), NEW e, IsEngine(e),
         Serves(calls, w, h, t, o, e), e.finished # <<>>,
         NEW a, a = Head(e.finished),
         NEW b \in AnswerRecords, b.call = a.call, b.sound = a.sound,
         b.answer = a.answer \/ (b.answer = "event" /\ a.answer # "fatal"),
         NEW f, f.waiting = e.waiting, f.running = e.running, f.trapped = e.trapped /\ f.hung = e.hung,
         f.finished = Tail(e.finished), f.stops = e.stops \ {a.call},
         NEW u,
         \/ a.answer # "fatal" /\ f.table = e.table /\ u = t
         \/ a.answer = "fatal" /\ f.table = <<>> /\ u = [state |-> "closed", inbox |-> <<>>],
         \A c \in CallsOn(calls, w) : calls[c].op = "run" => CallsOn(calls, w) = {c}
  PROVE  Serves(calls, w, h, u, Append(o, b), f)
<1> DEFINE p == Append(o, b)
           q == t.inbox
           r == u.inbox
<1>1. /\ f.finished \in Seq(AnswerRecords)
      /\ a \in AnswerRecords
      /\ CallsOf(e.finished) = {a.call} \cup CallsOf(f.finished)
      /\ OkCalls(e.finished) = OkCalls(f.finished) \cup (IF a.answer = "ok" THEN {a.call} ELSE {})
      /\ HasFatal(e.finished) <=> HasFatal(f.finished) \/ a.answer = "fatal"
      /\ Covered(e.finished) => a.sound
      /\ Covered(e.finished) /\ a.answer # "fatal" => Covered(f.finished)
  <2>1. e.finished \in Seq(AnswerRecords)
    BY DEF IsEngine
  <2> QED
    BY <2>1, TailAnswer
<1>2. /\ p \in Seq(AnswerRecords)
      /\ CallsOf(p) = CallsOf(o) \cup {b.call}
      /\ OkCalls(p) = OkCalls(o) \cup (IF b.answer = "ok" THEN {b.call} ELSE {})
      /\ HasFatal(p) <=> HasFatal(o) \/ b.answer = "fatal"
      /\ Covered(o) /\ (b.sound \/ HasFatal(o)) => Covered(p)
  BY AppendAnswer
<1>3. \E k \in DOMAIN p : p[k] = b
  <2>1. DOMAIN p = 1..(Len(o) + 1) /\ p[Len(o) + 1] = b /\ Len(o) \in Nat
    BY AppendFacts
  <2>2. Len(o) + 1 \in DOMAIN p
    BY <2>1
  <2> QED
    BY <2>1, <2>2
<1>4. \A k \in DOMAIN o : k \in DOMAIN p /\ p[k] = o[k]
  <2>1. /\ DOMAIN o = 1..Len(o) /\ DOMAIN p = 1..(Len(o) + 1) /\ Len(o) \in Nat
        /\ \A k \in 1..Len(o) : p[k] = o[k]
    BY AppendFacts
  <2> QED
    BY <2>1
<1>5. r = q \/ r = <<>>
  OBVIOUS
<1>6. r = <<>> => Requested(r) = {} /\ DOMAIN r = {}
  BY DEF Requested
<1>7. a.answer # "fatal" => r = q
  OBVIOUS
<1>8. Orderly(calls, e, q)
  BY DEF Serves
<1>9. DOMAIN f.table \subseteq DOMAIN e.table /\ \A g \in DOMAIN f.table : f.table[g] = e.table[g]
  OBVIOUS
<1> HIDE DEF p, q, r
<1>10. Logs(f.table) \subseteq Logs(e.table)
  BY <1>9 DEF Logs
<1>11. /\ Requested(r) \subseteq Requested(q)
       /\ Past(f) \subseteq Past(e)
       /\ Coming(f, r) \subseteq Coming(e, q)
  BY <1>1, <1>5, <1>6, <1>9, <1>10 DEF Past, Coming
<1>12. a.call \in Past(e) /\ a.call \in CallsOf(e.finished)
  BY <1>1 DEF Past
<1>13. Orderly(calls, f, r)
  <2>1. /\ Past(f) \cup Coming(f, r) \subseteq DOMAIN calls
        /\ \A x \in Past(f), y \in Coming(f, r) : Before(calls, x, y)
        /\ \A x \in ToSet(f.waiting), y \in Requested(r) : Before(calls, x, y)
        /\ f.running \cap CallsOf(f.finished) = {}
    BY <1>1, <1>8, <1>11 DEF Orderly
  <2>2. \A k, l \in DOMAIN r : k < l /\ r[k].type = "request" /\ r[l].type = "request"
                                 => Before(calls, r[k].call, r[l].call)
    BY <1>5, <1>6, <1>8 DEF Orderly
  <2>3. /\ \A x \in Logs(f.table) : calls[x].op = "edit"
        /\ \A g \in DOMAIN f.table : \A k, l \in DOMAIN f.table[g] :
             k < l => f.table[g][k] < f.table[g][l]
    BY <1>8, <1>9, <1>10 DEF Orderly
  <2> QED
    BY <1>8, <2>1, <2>2, <2>3 DEF Orderly
<1>14. Past(f) \cup Coming(f, r) \subseteq CallsOn(calls, w)
  BY <1>11 DEF Serves, q
<1>15. u.state # "closed" => Kept(calls, CallsOn(calls, w), f, p)
  <2> SUFFICES ASSUME a.answer # "fatal", f.table = e.table, u = t, u.state # "closed"
               PROVE  Kept(calls, CallsOn(calls, w), f, p)
    OBVIOUS
  <2>1. Kept(calls, CallsOn(calls, w), e, o)
    BY DEF Serves
  <2>2. OkCalls(p) \cup OkCalls(f.finished) \subseteq OkCalls(o) \cup OkCalls(e.finished)
    BY <1>1, <1>2
  <2>3. \A g, c : Logged(f, g, c) <=> Logged(e, g, c)
    BY DEF Logged
  <2> QED
    BY <2>1, <2>2, <2>3 DEF Kept
<1>16. Awaited(h.pending, u, p, f)
  <2>1. CASE a.answer = "fatal"
    BY <2>1 DEF Awaited
  <2>2. CASE b.answer = "event"
    BY <1>3, <2>2 DEF Awaited
  <2>3. CASE a.answer # "fatal" /\ b.answer = a.answer
    <3>1. r = q /\ u = t
      BY <1>7, <2>3
    <3>2. Carrying(e, q) \cup CallsOf(o) \subseteq Carrying(f, r) \cup CallsOf(p)
      BY <1>1, <1>2, <3>1 DEF Carrying, Coming
    <3>3. Awaited(h.pending, t, o, e)
      BY DEF Serves
    <3> QED
      BY <1>4, <3>1, <3>2, <3>3 DEF Awaited, q, r
  <2> QED
    BY <2>1, <2>2, <2>3
<1>17. TrapsFirst(p, f)
  <2>1. TrapsFirst(o, e)
    BY DEF Serves
  <2>2. b.answer = "fatal" <=> a.answer = "fatal"
    OBVIOUS
  <2>3. Covered(p)
    BY <1>1, <1>2, <2>1 DEF TrapsFirst
  <2>4. HasFatal(p) \/ Covered(f.finished)
    BY <1>1, <1>2, <2>1, <2>2 DEF TrapsFirst
  <2>5. f.trapped => HasFatal(p) \/ HasFatal(f.finished) \/ f.hung # {}
    <3>1. f.trapped = e.trapped /\ f.hung = e.hung
      OBVIOUS
    <3> QED
      BY ONLY <1>1, <1>2, <2>1, <2>2, <3>1 DEF TrapsFirst
  <2> QED
    BY <2>3, <2>4, <2>5 DEF TrapsFirst
<1>18. StopsArrive(calls, r, f)
  <2> SUFFICES ASSUME NEW c \in Coming(f, r) \cup f.running,
                      calls[c].op = "run" /\ calls[c].aborted
               PROVE  c \in f.stops \/ \E k \in DOMAIN r : r[k] = Stop(c)
    BY DEF StopsArrive
  <2>1. c \in Coming(e, q) \cup e.running
    BY <1>11
  <2>2. c # a.call
    BY <1>8, <1>12, <2>1 DEF Orderly, Before
  <2>3. c \in CallsOn(calls, w) /\ a.call \in CallsOn(calls, w)
    BY <1>12, <2>1 DEF Serves, Past, q
  <2>4. FALSE
    BY <2>2, <2>3
  <2> QED
    BY <2>4
<1>19. OkCalls(p) \subseteq CallsOn(calls, w)
  BY <1>2, <1>12 DEF Serves
<1>20. Serves(calls, w, h, u, p, f)
  BY <1>13, <1>14, <1>15, <1>16, <1>17, <1>18, <1>19 DEF Serves, r
<1> QED
  BY <1>20 DEF p

\* The handler has posted its answer.
LEMMA AnswerTaken ==
  ASSUME NEW e, NEW x, NEW y, NEW d, d = [e EXCEPT !.finished = x, !.stops = y],
         e = [load |-> e.load, fails |-> e.fails, trapped |-> e.trapped, waiting |-> e.waiting,
              running |-> e.running, finished |-> e.finished, table |-> e.table, stops |-> e.stops,
              hung |-> e.hung]
  PROVE  /\ d.load = e.load /\ d.trapped = e.trapped /\ d.hung = e.hung /\ d.waiting = e.waiting
         /\ d.running = e.running /\ d.finished = x /\ d.stops = y /\ d.table = e.table
         /\ d = [load |-> d.load, fails |-> d.fails, trapped |-> d.trapped, waiting |-> d.waiting,
                 running |-> d.running, finished |-> d.finished, table |-> d.table, stops |-> d.stops,
                 hung |-> d.hung]
OBVIOUS

\* A trap: the worker clears its handles.
LEMMA HandlesCleared ==
  ASSUME NEW e, NEW d, d = [e EXCEPT !.table = <<>>, !.load = "none"],
         e = [load |-> e.load, fails |-> e.fails, trapped |-> e.trapped, waiting |-> e.waiting,
              running |-> e.running, finished |-> e.finished, table |-> e.table, stops |-> e.stops,
              hung |-> e.hung]
  PROVE  /\ d.load = "none" /\ d.trapped = e.trapped /\ d.hung = e.hung /\ d.waiting = e.waiting
         /\ d.running = e.running /\ d.finished = e.finished /\ d.stops = e.stops
         /\ d.table = <<>>
         /\ d = [load |-> d.load, fails |-> d.fails, trapped |-> d.trapped, waiting |-> d.waiting,
                 running |-> d.running, finished |-> d.finished, table |-> d.table, stops |-> d.stops,
                 hung |-> d.hung]
OBVIOUS

\* A handler posts its answer.
LEMMA AnswerInv ==
  ASSUME Inv, NEW w \in Workers, Answer(w)
  PROVE  Inv'
<1> DEFINE h == host[w]
           t == thread[w]
           o == outbox[w]
           e == engine[w]
           a == Head(e.finished)
           e0 == [e EXCEPT !.finished = Tail(@), !.stops = @ \ {a.call}]
           closed == [state |-> "closed", inbox |-> <<>>]
           e1 == [e0 EXCEPT !.table = <<>>, !.load = "none"]
<1>1. e.finished # <<>> /\ UNCHANGED <<active, calls, host>>
  BY DEF Answer
<1>2. h.state = "serving"
  BY <1>1, WorkingServes DEF NewEngine
<1>3. /\ Serves(calls, w, h, t, o, e) /\ IsEngine(e)
      /\ t \in ThreadRecords /\ o \in Seq(AnswerRecords)
      /\ \A c \in DOMAIN calls : CallInv(calls, host, c)
      /\ CallsOn(calls, w) \subseteq DOMAIN calls
  BY <1>2, ServingFacts
<1>4. \A c \in CallsOn(calls, w) : calls[c].op = "run" => CallsOn(calls, w) = {c}
  BY <1>3 DEF CallInv, CallsOn
<1>5. \/ outbox' = [outbox EXCEPT ![w] = Append(o, a)]
      \/ /\ a.answer # "fatal"
         /\ outbox' = [outbox EXCEPT ![w] = Append(o, [a EXCEPT !.answer = "event"])]
  BY DEF Answer, Inv, TypeOK
<1>6. \/ /\ a.answer = "fatal"
         /\ engine' = [engine EXCEPT ![w] = e1]
         /\ thread' = [thread EXCEPT ![w] = closed]
      \/ /\ a.answer # "fatal"
         /\ engine' = [engine EXCEPT ![w] = e0]
         /\ thread' = [thread EXCEPT ![w] = t]
  BY DEF Answer, Inv, TypeOK
<1>7. a \in AnswerRecords
  <2>1. e.finished \in Seq(AnswerRecords)
    BY <1>3 DEF IsEngine
  <2> QED
    BY <1>1, <2>1, TailAnswer
<1>8. PICK b \in AnswerRecords :
        /\ outbox' = [outbox EXCEPT ![w] = Append(o, b)]
        /\ b.call = a.call /\ b.sound = a.sound
        /\ b.answer = a.answer \/ (b.answer = "event" /\ a.answer # "fatal")
  <2> HIDE DEF a, o
  <2>1. CASE outbox' = [outbox EXCEPT ![w] = Append(o, a)]
    BY <1>7, <2>1
  <2>2. CASE a.answer # "fatal" /\ outbox' = [outbox EXCEPT ![w] = Append(o, [a EXCEPT !.answer = "event"])]
    <3> DEFINE b == [a EXCEPT !.answer = "event"]
    <3>1. b \in AnswerRecords /\ b.call = a.call /\ b.sound = a.sound /\ b.answer = "event"
      BY <1>7 DEF AnswerRecords
    <3> HIDE DEF b
    <3>2. outbox' = [outbox EXCEPT ![w] = Append(o, b)]
      BY <2>2 DEF b
    <3> QED
      BY <2>2, <3>1, <3>2
  <2> QED
    BY <1>5, <2>1, <2>2
<1>9. Append(o, b) \in Seq(AnswerRecords)
  BY <1>3, <1>8, AppendAnswer
<1>10. /\ IsEngine(e) /\ a = Head(e.finished)
       /\ Tail(e.finished) \in Seq(AnswerRecords) /\ NoEvents(Tail(e.finished))
  <2>1. e.finished \in Seq(AnswerRecords) /\ NoEvents(e.finished)
    BY <1>3 DEF IsEngine
  <2> QED
    BY <1>1, <1>3, <2>1, TailAnswer
<1> HIDE DEF h, t, o, e, a
<1>11. /\ e0.waiting = e.waiting /\ e0.running = e.running /\ e0.trapped = e.trapped /\ e0.hung = e.hung
       /\ e0.finished = Tail(e.finished) /\ e0.stops = e.stops \ {a.call}
       /\ e0.table = e.table /\ e0.load = e.load
       /\ e0 = [load |-> e0.load, fails |-> e0.fails, trapped |-> e0.trapped, waiting |-> e0.waiting,
                running |-> e0.running, finished |-> e0.finished, table |-> e0.table,
                stops |-> e0.stops,
                hung |-> e0.hung]
  <2> DEFINE x == Tail(e.finished)
             y == e.stops \ {a.call}
  <2>1. e0 = [e EXCEPT !.finished = x, !.stops = y]
    OBVIOUS
  <2>2. e = [load |-> e.load, fails |-> e.fails, trapped |-> e.trapped, waiting |-> e.waiting,
             running |-> e.running, finished |-> e.finished, table |-> e.table, stops |-> e.stops,
             hung |-> e.hung]
    BY <1>10 DEF IsEngine
  <2> HIDE DEF x, y, e0
  <2>3. /\ e0.waiting = e.waiting /\ e0.running = e.running /\ e0.trapped = e.trapped /\ e0.hung = e.hung
        /\ e0.finished = x /\ e0.stops = y /\ e0.table = e.table /\ e0.load = e.load
        /\ e0 = [load |-> e0.load, fails |-> e0.fails, trapped |-> e0.trapped,
                 waiting |-> e0.waiting, running |-> e0.running, finished |-> e0.finished,
                 table |-> e0.table, stops |-> e0.stops,
                 hung |-> e0.hung]
    BY <2>1, <2>2, AnswerTaken
  <2> QED
    BY <2>3 DEF x, y
<1> HIDE DEF e0
<1>12. /\ e1.waiting = e0.waiting /\ e1.running = e0.running /\ e1.trapped = e0.trapped /\ e1.hung = e0.hung
       /\ e1.finished = e0.finished /\ e1.stops = e0.stops
       /\ e1.table = <<>> /\ e1.load = "none"
       /\ e1 = [load |-> e1.load, fails |-> e1.fails, trapped |-> e1.trapped, waiting |-> e1.waiting,
                running |-> e1.running, finished |-> e1.finished, table |-> e1.table,
                stops |-> e1.stops,
                hung |-> e1.hung]
  <2>1. e1 = [e0 EXCEPT !.table = <<>>, !.load = "none"]
    OBVIOUS
  <2> HIDE DEF e1
  <2> QED
    BY <1>11, <2>1, HandlesCleared
<1> HIDE DEF e1
<1>13. IsEngine(e0) /\ IsEngine(e1)
  BY <1>10, <1>11, <1>12 DEF IsEngine
<1>14. closed \in ThreadRecords
  BY DEF ThreadRecords
<1> HIDE DEF closed
<1>15. CASE /\ a.answer = "fatal"
            /\ engine' = [engine EXCEPT ![w] = e1]
            /\ thread' = [thread EXCEPT ![w] = closed]
  <2>1. closed = [state |-> "closed", inbox |-> <<>>]
    BY DEF closed
  <2>2. e.finished # <<>>
    BY <1>1
  <2>3. Serves(calls, w, h, closed, Append(o, b), e1)
    <3>1. /\ e1.waiting = e.waiting /\ e1.running = e.running /\ e1.trapped = e.trapped /\ e1.hung = e.hung
          /\ e1.finished = Tail(e.finished) /\ e1.stops = e.stops \ {a.call} /\ e1.table = <<>>
      BY <1>11, <1>12
    <3>2. a = Head(e.finished) /\ a.answer = "fatal"
      BY <1>10, <1>15
    <3> QED
      BY <1>3, <1>4, <1>8, <2>1, <2>2, <3>1, <3>2, AnswerServes
  <2> QED
    BY <1>1, <1>2, <1>8, <1>9, <1>13, <1>14, <1>15, <2>3, WorkerChange DEF h
<1>16. CASE /\ a.answer # "fatal"
            /\ engine' = [engine EXCEPT ![w] = e0]
            /\ thread' = [thread EXCEPT ![w] = t]
  <2>1. Serves(calls, w, h, t, Append(o, b), e0)
    BY <1>1, <1>3, <1>4, <1>8, <1>10, <1>11, <1>16, AnswerServes, ZenonT(30)
  <2> QED
    BY <1>1, <1>2, <1>3, <1>8, <1>9, <1>13, <1>16, <2>1, WorkerChange DEF h
<1> QED
  BY <1>6, <1>15, <1>16

\* The first message of a queue comes before all that are behind it.
LEMMA FirstMessage ==
  ASSUME NEW cs, NEW e, NEW q \in Seq(Messages), q # <<>>, Orderly(cs, e, q)
  PROVE  LET m == Head(q)
             r == Tail(q)
         IN
         /\ r \in Seq(Messages)
         /\ m \in Messages
         /\ Requested(q) = Requested(r) \cup (IF m.type = "request" THEN {m.call} ELSE {})
         /\ \A k, l \in DOMAIN r : k < l /\ r[k].type = "request" /\ r[l].type = "request"
                                     => Before(cs, r[k].call, r[l].call)
         /\ m.type = "request" => \A y \in Requested(r) : Before(cs, m.call, y)
         /\ \A k \in DOMAIN q : q[k] = m \/ \E l \in DOMAIN r : r[l] = q[k]
<1> DEFINE m == Head(q)
           r == Tail(q)
           n == Len(q)
<1>1. /\ r \in Seq(Messages) /\ m \in Messages /\ n \in Nat \ {0}
      /\ DOMAIN q = 1..n /\ DOMAIN r = 1..(n - 1)
      /\ q[1] = m
      /\ \A k \in 1..(n - 1) : r[k] = q[k + 1]
      /\ \A k \in 1..n : k = 1 \/ (k - 1 \in 1..(n - 1) /\ r[k - 1] = q[k])
  BY TailFacts
<1>2. Requested(q) = Requested(r) \cup (IF m.type = "request" THEN {m.call} ELSE {})
  BY TailMessage
<1> HIDE DEF m, r, n
<1>3. \A k \in 1..(n - 1) : k + 1 \in 1..n /\ 1 \in 1..n /\ 1 < k + 1
  BY <1>1
<1>4. \A k, l \in 1..n : k < l /\ q[k].type = "request" /\ q[l].type = "request"
                           => Before(cs, q[k].call, q[l].call)
  BY <1>1 DEF Orderly
<1>5. ASSUME NEW k \in 1..(n - 1), NEW l \in 1..(n - 1), k < l,
             r[k].type = "request", r[l].type = "request"
      PROVE  Before(cs, r[k].call, r[l].call)
  <2>1. k + 1 < l + 1
    BY <1>5
  <2> QED
    BY <1>1, <1>3, <1>4, <1>5, <2>1, ZenonT(30)
<1>6. ASSUME m.type = "request", NEW y \in Requested(r) PROVE Before(cs, m.call, y)
  <2>1. PICK k \in 1..(n - 1) : r[k].type = "request" /\ y = r[k].call
    BY <1>1, <1>6 DEF Requested
  <2> QED
    BY <1>1, <1>3, <1>4, <1>6, <2>1
<1>7. \A k \in DOMAIN q : q[k] = m \/ \E l \in DOMAIN r : r[l] = q[k]
  BY <1>1
<1> QED
  BY <1>1, <1>2, <1>5, <1>6, <1>7 DEF m, r

\* cancel_study_operation is taken.
LEMMA StopServes ==
  ASSUME NEW w, NEW h, NEW t \in ThreadRecords, NEW o, NEW e, IsEngine(e),
         Serves(calls, w, h, t, o, e), t.inbox # <<>>,
         NEW m, m = Head(t.inbox), m.type = "stop",
         NEW u, u.state = t.state, u.inbox = Tail(t.inbox),
         NEW f, f.waiting = e.waiting, f.running = e.running, f.trapped = e.trapped /\ f.hung = e.hung,
         f.finished = e.finished, f.table = e.table, f.stops = e.stops \cup {m.call}
  PROVE  Serves(calls, w, h, u, o, f)
<1> DEFINE q == t.inbox
           r == u.inbox
<1>1. q \in Seq(Messages) /\ q # <<>> /\ Orderly(calls, e, q)
  BY DEF ThreadRecords, Serves
<1>2. /\ m \in Messages
      /\ Requested(q) = Requested(r) \cup (IF m.type = "request" THEN {m.call} ELSE {})
      /\ \A k, l \in DOMAIN r : k < l /\ r[k].type = "request" /\ r[l].type = "request"
                                  => Before(calls, r[k].call, r[l].call)
      /\ \A k \in DOMAIN q : q[k] = m \/ \E l \in DOMAIN r : r[l] = q[k]
  <2>1. m = Head(q) /\ r = Tail(q)
    OBVIOUS
  <2> HIDE DEF q, r
  <2>2. LET n == Head(q)
            z == Tail(q)
        IN
        /\ n \in Messages
        /\ Requested(q) = Requested(z) \cup (IF n.type = "request" THEN {n.call} ELSE {})
        /\ \A k, l \in DOMAIN z : k < l /\ z[k].type = "request" /\ z[l].type = "request"
                                    => Before(calls, z[k].call, z[l].call)
        /\ \A k \in DOMAIN q : q[k] = n \/ \E l \in DOMAIN z : z[l] = q[k]
    BY <1>1, FirstMessage
  <2> QED
    BY <2>1, <2>2
<1>3. Requested(q) = Requested(r)
  BY <1>2
<1> HIDE DEF q, r
<1>4. Past(f) = Past(e) /\ Coming(f, r) = Coming(e, q) /\ Carrying(f, r) = Carrying(e, q)
  BY <1>3 DEF Past, Coming, Carrying
<1>5. Orderly(calls, f, r)
  BY <1>2, <1>1, <1>3, <1>4 DEF Orderly
<1>6. Past(f) \cup Coming(f, r) \subseteq CallsOn(calls, w)
  BY <1>4 DEF Serves, q
<1>7. u.state # "closed" => Kept(calls, CallsOn(calls, w), f, o)
  BY DEF Serves, Kept, Logged
<1>8. Awaited(h.pending, u, o, f)
  BY <1>4 DEF Serves, Awaited, q, r
<1>9. TrapsFirst(o, f)
  BY DEF Serves, TrapsFirst
<1>10. StopsArrive(calls, r, f)
  <2>1. StopsArrive(calls, q, e)
    BY DEF Serves, q
  <2>2. \A c : m = Stop(c) => c = m.call
    BY DEF Stop
  <2>3. ASSUME NEW c, c \in e.stops \/ \E k \in DOMAIN q : q[k] = Stop(c)
        PROVE  c \in f.stops \/ \E k \in DOMAIN r : r[k] = Stop(c)
    BY <1>2, <2>2, <2>3
  <2> QED
    BY <1>4, <2>1, <2>3 DEF StopsArrive
<1> QED
  BY <1>5, <1>6, <1>7, <1>8, <1>9, <1>10 DEF Serves, r

\* A request is taken: its handler awaits the module.
LEMMA RequestServes ==
  ASSUME NEW w, NEW h, NEW t \in ThreadRecords, NEW o, NEW e, IsEngine(e),
         Serves(calls, w, h, t, o, e), t.inbox # <<>>,
         NEW m, m = Head(t.inbox), m.type = "request",
         NEW u, u.state = t.state, u.inbox = Tail(t.inbox),
         NEW f, f.waiting = e.waiting \o <<m.call>>, f.running = e.running, f.trapped = e.trapped /\ f.hung = e.hung,
         f.finished = e.finished, f.table = e.table, f.stops = e.stops
  PROVE  Serves(calls, w, h, u, o, f) /\ f.waiting \in Seq(Nat)
<1> DEFINE q == t.inbox
           r == u.inbox
           s == e.waiting
           n == Len(s)
           x == m.call
           z == f.waiting
<1>1. q \in Seq(Messages) /\ q # <<>> /\ Orderly(calls, e, q)
  BY DEF ThreadRecords, Serves
<1>2. /\ m \in Messages
      /\ Requested(q) = Requested(r) \cup {x}
      /\ \A k, l \in DOMAIN r : k < l /\ r[k].type = "request" /\ r[l].type = "request"
                                  => Before(calls, r[k].call, r[l].call)
      /\ \A y \in Requested(r) : Before(calls, x, y)
      /\ \A k \in DOMAIN q : q[k] = m \/ \E l \in DOMAIN r : r[l] = q[k]
  BY ONLY <1>1, FirstMessage, m = Head(q), r = Tail(q), m.type = "request", SMTT(30) DEF x
<1>3. x \in Nat /\ s \in Seq(Nat)
  BY <1>2 DEF Messages, IsEngine
<1>4. /\ z \in Seq(Nat)
      /\ n \in Nat
      /\ DOMAIN s = 1..n /\ DOMAIN z = 1..(n + 1)
      /\ \A k \in 1..n : z[k] = s[k]
      /\ z[n + 1] = x
      /\ ToSet(z) = ToSet(s) \cup {x}
  <2>1. z = Append(s, x)
    BY <1>3
  <2> HIDE DEF s, x, z
  <2>2. /\ Append(s, x) \in Seq(Nat)
        /\ Len(s) \in Nat
        /\ DOMAIN s = 1..Len(s) /\ DOMAIN Append(s, x) = 1..(Len(s) + 1)
        /\ \A k \in 1..Len(s) : Append(s, x)[k] = s[k]
        /\ Append(s, x)[Len(s) + 1] = x
        /\ ToSet(Append(s, x)) = ToSet(s) \cup {x}
    BY <1>3, AppendFacts
  <2> QED
    BY <2>1, <2>2
<1> HIDE DEF q, r, s, n, x, z
<1>5. Past(f) = Past(e) /\ Coming(f, r) = Coming(e, q) /\ Carrying(f, r) = Carrying(e, q)
  BY <1>2, <1>4 DEF Past, Coming, Carrying, s, z
<1>6. \A k, l \in DOMAIN z : k < l => Before(calls, z[k], z[l])
  <2> SUFFICES ASSUME NEW k \in 1..(n + 1), NEW l \in 1..(n + 1), k < l
               PROVE  Before(calls, z[k], z[l])
    BY <1>4
  <2>1. k \in 1..n
    BY <1>4
  <2>2. CASE l \in 1..n
    <3>1. \A i, j \in DOMAIN s : i < j => Before(calls, s[i], s[j])
      BY <1>1 DEF Orderly, s
    <3> QED
      BY <1>4, <2>1, <2>2, <3>1
  <2>3. CASE l = n + 1
    <3>1. s[k] \in ToSet(s) /\ x \in Requested(q)
      BY <1>2, <1>4, <2>1 DEF ToSet
    <3>2. Before(calls, s[k], x)
      BY <1>1, <3>1 DEF Orderly, s
    <3> QED
      BY <1>4, <2>1, <2>3, <3>2
  <2> QED
    BY <1>4, <2>2, <2>3
<1>7. \A i \in ToSet(z), y \in Requested(r) : Before(calls, i, y)
  <2>1. \A i \in ToSet(s), y \in Requested(q) : Before(calls, i, y)
    BY <1>1 DEF Orderly, s
  <2> QED
    BY <1>2, <1>4, <2>1
<1>8. Orderly(calls, f, r)
  <2>1. /\ Past(f) \cup Coming(f, r) \subseteq DOMAIN calls
        /\ \A i \in Past(f), y \in Coming(f, r) : Before(calls, i, y)
    BY <1>1, <1>5 DEF Orderly
  <2> QED
    BY <1>1, <1>2, <1>6, <1>7, <2>1 DEF Orderly, z
<1>9. Past(f) \cup Coming(f, r) \subseteq CallsOn(calls, w)
  BY <1>5 DEF Serves, q
<1>10. u.state # "closed" => Kept(calls, CallsOn(calls, w), f, o)
  BY DEF Serves, Kept, Logged
<1>11. Awaited(h.pending, u, o, f)
  BY <1>5 DEF Serves, Awaited, q, r
<1>12. TrapsFirst(o, f)
  BY DEF Serves, TrapsFirst
<1>13. StopsArrive(calls, r, f)
  <2>1. StopsArrive(calls, q, e)
    BY DEF Serves, q
  <2>2. \A c : m # Stop(c)
    BY DEF Stop
  <2> QED
    BY <1>2, <1>5, <2>1, <2>2 DEF StopsArrive
<1>14. Serves(calls, w, h, u, o, f)
  BY <1>8, <1>9, <1>10, <1>11, <1>12, <1>13 DEF Serves, r
<1> QED
  BY <1>4, <1>14 DEF z

\* A request is taken by a worker that cannot have the module.
LEMMA RefusalServes ==
  ASSUME NEW w, NEW h, NEW t \in ThreadRecords, NEW o, NEW e, IsEngine(e),
         Serves(calls, w, h, t, o, e), t.inbox # <<>>, e.waiting = <<>>,
         NEW m, m = Head(t.inbox), m.type = "request",
         NEW u, u.state = t.state, u.inbox = Tail(t.inbox),
         NEW f, f.waiting = e.waiting, f.running = e.running, f.trapped = e.trapped /\ f.hung = e.hung,
         f.finished = Append(e.finished, [call |-> m.call, answer |-> "error", sound |-> TRUE]),
         f.table = e.table, f.stops = e.stops
  PROVE  /\ Serves(calls, w, h, u, o, f)
         /\ f.finished \in Seq(AnswerRecords) /\ NoEvents(f.finished)
<1> DEFINE q == t.inbox
           r == u.inbox
           x == m.call
           a == [call |-> x, answer |-> "error", sound |-> TRUE]
<1>1. q \in Seq(Messages) /\ q # <<>> /\ Orderly(calls, e, q)
  BY DEF ThreadRecords, Serves
<1>2. /\ m \in Messages
      /\ Requested(q) = Requested(r) \cup {x}
      /\ \A k, l \in DOMAIN r : k < l /\ r[k].type = "request" /\ r[l].type = "request"
                                  => Before(calls, r[k].call, r[l].call)
      /\ \A y \in Requested(r) : Before(calls, x, y)
      /\ \A k \in DOMAIN q : q[k] = m \/ \E l \in DOMAIN r : r[l] = q[k]
  BY ONLY <1>1, FirstMessage, m = Head(q), r = Tail(q), m.type = "request", SMTT(30) DEF x
<1>3. e.finished \in Seq(AnswerRecords) /\ NoEvents(e.finished) /\ ToSet(e.waiting) = {} /\ DOMAIN e.waiting = {}
  BY DEF IsEngine, ToSet
<1>4. a \in AnswerRecords /\ a.call = x /\ a.answer = "error" /\ a.sound
  BY <1>2 DEF Messages, AnswerRecords
<1>5. f.finished = Append(e.finished, a)
  OBVIOUS
<1> HIDE DEF q, r, x, a
<1>6. /\ f.finished \in Seq(AnswerRecords)
      /\ CallsOf(f.finished) = CallsOf(e.finished) \cup {x}
      /\ OkCalls(f.finished) = OkCalls(e.finished)
      /\ HasFatal(f.finished) <=> HasFatal(e.finished)
      /\ Covered(e.finished) => Covered(f.finished)
      /\ NoEvents(f.finished)
  BY <1>3, <1>4, <1>5, AppendAnswer, ZenonT(30)
<1>7. /\ Past(f) = Past(e) \cup {x}
      /\ Coming(f, r) = Requested(r)
      /\ Coming(e, q) = Requested(r) \cup {x}
  BY <1>2, <1>3, <1>6 DEF Past, Coming
<1>8. Carrying(f, r) = Carrying(e, q)
  BY <1>6, <1>7 DEF Carrying
<1>9. x \notin e.running
  BY <1>1, <1>7 DEF Orderly, Before, Past
<1>10. Orderly(calls, f, r)
  <2>1. Past(f) \cup Coming(f, r) \subseteq DOMAIN calls
    BY <1>1, <1>7 DEF Orderly
  <2>2. \A i \in Past(f), y \in Coming(f, r) : Before(calls, i, y)
    BY <1>1, <1>2, <1>7 DEF Orderly
  <2>3. f.running \cap CallsOf(f.finished) = {}
    BY <1>1, <1>6, <1>9 DEF Orderly
  <2> QED
    BY <1>1, <1>2, <1>3, <2>1, <2>2, <2>3 DEF Orderly
<1>11. Past(f) \cup Coming(f, r) \subseteq CallsOn(calls, w)
  BY <1>7 DEF Serves, q
<1>12. u.state # "closed" => Kept(calls, CallsOn(calls, w), f, o)
  BY <1>6 DEF Serves, Kept, Logged
<1>13. Awaited(h.pending, u, o, f)
  BY <1>8 DEF Serves, Awaited, q, r
<1>14. TrapsFirst(o, f)
  BY <1>6 DEF Serves, TrapsFirst
<1>15. StopsArrive(calls, r, f)
  <2>1. StopsArrive(calls, q, e)
    BY DEF Serves, q
  <2>2. \A c : m # Stop(c)
    BY DEF Stop
  <2> QED
    BY <1>2, <1>7, <2>1, <2>2 DEF StopsArrive
<1>16. Serves(calls, w, h, u, o, f)
  BY <1>10, <1>11, <1>12, <1>13, <1>14, <1>15 DEF Serves, r
<1> QED
  BY <1>6, <1>16

\* Handlers start to wait for the module.
LEMMA AwaitFields ==
  ASSUME NEW e, IsEngine(e), e.load # "unsupported", NEW cs, e.waiting \o cs \in Seq(Nat),
         NEW d, d = Await(e, cs)
  PROVE  /\ IsEngine(d)
         /\ d.waiting = e.waiting \o cs /\ d.running = e.running /\ d.trapped = e.trapped /\ d.hung = e.hung
         /\ d.finished = e.finished /\ d.table = e.table /\ d.stops = e.stops
<1> DEFINE x == e.waiting \o cs
           l == IF e.load = "none" THEN "loading" ELSE e.load
<1>1. d = [e EXCEPT !.waiting = x, !.load = l]
  BY DEF Await
<1>2. /\ x \in Seq(Nat)
      /\ l \in {"none", "loading", "ready", "unsupported"} /\ l # "unsupported"
  BY DEF IsEngine
<1> HIDE DEF x, l
<1>3. /\ d.waiting = x /\ d.running = e.running /\ d.trapped = e.trapped /\ d.hung = e.hung /\ d.load = l
      /\ d.finished = e.finished /\ d.table = e.table /\ d.stops = e.stops
      /\ d = [load |-> d.load, fails |-> d.fails, trapped |-> d.trapped, waiting |-> d.waiting,
              running |-> d.running, finished |-> d.finished, table |-> d.table, stops |-> d.stops,
              hung |-> d.hung]
  BY <1>1 DEF IsEngine
<1>4. IsEngine(d)
  BY <1>2, <1>3 DEF IsEngine
<1> QED
  BY <1>3, <1>4 DEF x

\* A cancelled() callback will answer true.
LEMMA StopFields ==
  ASSUME NEW e, IsEngine(e), NEW c, NEW d, d = Stopped(e, c)
  PROVE  /\ IsEngine(d)
         /\ d.waiting = e.waiting /\ d.running = e.running /\ d.trapped = e.trapped /\ d.hung = e.hung
         /\ d.finished = e.finished /\ d.table = e.table /\ d.stops = e.stops \cup {c}
         /\ d.load = e.load
<1>1. /\ d.waiting = e.waiting /\ d.running = e.running /\ d.trapped = e.trapped /\ d.hung = e.hung /\ d.load = e.load
      /\ d.finished = e.finished /\ d.table = e.table /\ d.stops = e.stops \cup {c}
      /\ d = [load |-> d.load, fails |-> d.fails, trapped |-> d.trapped, waiting |-> d.waiting,
              running |-> d.running, finished |-> d.finished, table |-> d.table, stops |-> d.stops,
              hung |-> d.hung]
  BY DEF IsEngine, Stopped
<1>2. IsEngine(d)
  BY <1>1 DEF IsEngine
<1> QED
  BY <1>1, <1>2

\* A handler has its answer at once, or the answer is taken.
LEMMA FinishedFields ==
  ASSUME NEW e, IsEngine(e), NEW x, NEW d, d = [e EXCEPT !.finished = x]
  PROVE  /\ d.waiting = e.waiting /\ d.running = e.running /\ d.trapped = e.trapped /\ d.hung = e.hung
         /\ d.finished = x /\ d.table = e.table /\ d.stops = e.stops
         /\ x \in Seq(AnswerRecords) /\ NoEvents(x) => IsEngine(d)
<1>1. /\ d.waiting = e.waiting /\ d.running = e.running /\ d.trapped = e.trapped /\ d.hung = e.hung /\ d.load = e.load
      /\ d.finished = x /\ d.table = e.table /\ d.stops = e.stops
      /\ d = [load |-> d.load, fails |-> d.fails, trapped |-> d.trapped, waiting |-> d.waiting,
              running |-> d.running, finished |-> d.finished, table |-> d.table, stops |-> d.stops,
              hung |-> d.hung]
  BY DEF IsEngine
<1>2. x \in Seq(AnswerRecords) /\ NoEvents(x) => IsEngine(d)
  BY <1>1 DEF IsEngine
<1> QED
  BY <1>1, <1>2

\* The worker takes a message.
LEMMA TakeMessageInv ==
  ASSUME Inv, NEW w \in Workers, TakeMessage(w)
  PROVE  Inv'
<1> DEFINE h == host[w]
           t == thread[w]
           o == outbox[w]
           e == engine[w]
           m == Head(t.inbox)
           u == [t EXCEPT !.inbox = Tail(@)]
<1>1. h.state = "serving"
  BY DEF TakeMessage, Inv, WorkerInv, Idle
<1>2. /\ Serves(calls, w, h, t, o, e) /\ IsEngine(e)
      /\ t \in ThreadRecords /\ o \in Seq(AnswerRecords)
  BY <1>1, ServingFacts
<1>3. t.inbox # <<>> /\ m = Head(t.inbox) /\ UNCHANGED <<active, calls, host>>
  BY DEF TakeMessage
<1>4. thread' = [thread EXCEPT ![w] = u] /\ outbox' = [outbox EXCEPT ![w] = o]
  BY DEF TakeMessage, Inv, TypeOK
<1>5. \/ /\ m.type = "stop"
         /\ engine' = [engine EXCEPT ![w] = [e EXCEPT !.stops = @ \cup {m.call}]]
      \/ /\ m.type = "request"
         /\ e.load # "unsupported"
         /\ engine' = [engine EXCEPT ![w] = Await(e, <<m.call>>)]
      \/ /\ m.type = "request"
         /\ e.load = "unsupported"
         /\ engine' = [engine EXCEPT ![w] = [e EXCEPT !.finished =
              Append(@, [call |-> m.call, answer |-> "error", sound |-> TRUE])]]
  BY DEF TakeMessage, Stopped, Inv, TypeOK
<1>6. /\ m \in Messages
      /\ u \in ThreadRecords /\ u.state = t.state /\ u.inbox = Tail(t.inbox)
  <2>1. t.inbox \in Seq(Messages)
    BY <1>2 DEF ThreadRecords
  <2>2. m \in Messages /\ Tail(t.inbox) \in Seq(Messages)
    BY <1>3, <2>1, TailMessage
  <2> HIDE DEF t, m
  <2> QED
    BY <1>2, <2>2 DEF ThreadRecords
<1> HIDE DEF h, t, o, e, m, u
<1>7. ASSUME NEW f, engine' = [engine EXCEPT ![w] = f], IsEngine(f), Serves(calls, w, h, u, o, f)
      PROVE  Inv'
  BY <1>1, <1>2, <1>3, <1>4, <1>6, <1>7, WorkerChange DEF h
<1>8. CASE /\ m.type = "stop"
           /\ engine' = [engine EXCEPT ![w] = [e EXCEPT !.stops = @ \cup {m.call}]]
  <2> DEFINE f == Stopped(e, m.call)
  <2>1. engine' = [engine EXCEPT ![w] = f]
    BY <1>8 DEF Stopped
  <2>2. /\ IsEngine(f)
        /\ f.waiting = e.waiting /\ f.running = e.running /\ f.trapped = e.trapped /\ f.hung = e.hung
        /\ f.finished = e.finished /\ f.table = e.table /\ f.stops = e.stops \cup {m.call}
    BY <1>2, StopFields
  <2> HIDE DEF f
  <2>3. Serves(calls, w, h, u, o, f)
    BY <1>2, <1>3, <1>6, <1>8, <2>2, StopServes
  <2> QED
    BY <1>7, <2>1, <2>2, <2>3
<1>9. CASE /\ m.type = "request"
           /\ e.load # "unsupported"
           /\ engine' = [engine EXCEPT ![w] = Await(e, <<m.call>>)]
  <2> DEFINE f == Await(e, <<m.call>>)
  <2>1. e.waiting \o <<m.call>> \in Seq(Nat)
    <3>1. e.waiting \in Seq(Nat) /\ m.call \in Nat
      BY <1>2, <1>6 DEF IsEngine, Messages
    <3> QED
      BY <3>1
  <2>2. /\ IsEngine(f)
        /\ f.waiting = e.waiting \o <<m.call>> /\ f.running = e.running /\ f.trapped = e.trapped /\ f.hung = e.hung
        /\ f.finished = e.finished /\ f.table = e.table /\ f.stops = e.stops
    BY <1>2, <1>9, <2>1, AwaitFields
  <2>3. engine' = [engine EXCEPT ![w] = f]
    BY <1>9
  <2> HIDE DEF f
  <2>4. Serves(calls, w, h, u, o, f)
    BY <1>2, <1>3, <1>6, <1>9, <2>2, RequestServes
  <2> QED
    BY <1>7, <2>2, <2>3, <2>4
<1>10. CASE /\ m.type = "request"
            /\ e.load = "unsupported"
            /\ engine' = [engine EXCEPT ![w] = [e EXCEPT !.finished =
                 Append(@, [call |-> m.call, answer |-> "error", sound |-> TRUE])]]
  <2> DEFINE x == Append(e.finished, [call |-> m.call, answer |-> "error", sound |-> TRUE])
             f == [e EXCEPT !.finished = x]
  <2>1. engine' = [engine EXCEPT ![w] = f]
    BY <1>10
  <2> HIDE DEF x
  <2>2. /\ f.waiting = e.waiting /\ f.running = e.running /\ f.trapped = e.trapped /\ f.hung = e.hung
        /\ f.finished = x /\ f.table = e.table /\ f.stops = e.stops
        /\ x \in Seq(AnswerRecords) /\ NoEvents(x) => IsEngine(f)
    BY <1>2, FinishedFields
  <2>3. e.waiting = <<>>
    BY <1>2, <1>10 DEF IsEngine
  <2> HIDE DEF f
  <2>4. f.finished = Append(e.finished, [call |-> m.call, answer |-> "error", sound |-> TRUE])
    BY <2>2 DEF x
  <2>5. /\ Serves(calls, w, h, u, o, f)
        /\ f.finished \in Seq(AnswerRecords) /\ NoEvents(f.finished)
    BY <1>2, <1>3, <1>6, <1>10, <2>2, <2>3, <2>4, RefusalServes, ZenonT(30)
  <2> QED
    BY <1>7, <2>1, <2>2, <2>5
<1> QED
  BY <1>5, <1>8, <1>9, <1>10


------------------------------------------------------------------------------
(* Calls are settled. *)

\* The calls cs become ds: some promises settle, none changes its mind.
Settles(cs, ds) ==
  /\ ds \in Seq(CallRecords)
  /\ DOMAIN ds = DOMAIN cs
  /\ Grows(cs, ds)
  /\ \A c \in DOMAIN cs : cs[c].outcome # "pending" => ds[c].outcome = cs[c].outcome

\* What Settle does.
LEMMA SettleFacts ==
  ASSUME NEW cs \in Seq(CallRecords), NEW S, NEW result \in {"ok", "error", "aborted", "cancelled"},
         NEW ds, ds = Settle(cs, S, result)
  PROVE  /\ Settles(cs, ds)
         /\ \A c \in DOMAIN cs :
              /\ ds[c].aborted = cs[c].aborted /\ ds[c].sound = cs[c].sound
              /\ c \notin S => ds[c] = cs[c]
              /\ c \in S => ds[c].outcome # "pending"
              /\ ds[c].outcome = "ok" => cs[c].outcome = "ok" \/ (c \in S /\ result = "ok")
<1> DEFINE n == Len(cs)
<1>1. n \in Nat /\ DOMAIN cs = 1..n /\ \A c \in 1..n : cs[c] \in CallRecords
  BY LenProperties, ElementOfSeq
<1>2. /\ DOMAIN ds = DOMAIN cs
      /\ \A c \in DOMAIN cs :
           ds[c] = IF c \in S /\ cs[c].outcome = "pending"
                   THEN [cs[c] EXCEPT !.outcome =
                           IF cs[c].aborted /\ cs[c].op # "run" THEN "aborted" ELSE result]
                   ELSE cs[c]
      /\ ds = [c \in DOMAIN cs |-> ds[c]]
  BY DEF Settle
<1> HIDE DEF n
<1>3. ASSUME NEW c \in DOMAIN cs
      PROVE  /\ ds[c] \in CallRecords
             /\ ds[c].op = cs[c].op /\ ds[c].handle = cs[c].handle /\ ds[c].host = cs[c].host
             /\ ds[c].aborted = cs[c].aborted /\ ds[c].sound = cs[c].sound
             /\ c \notin S => ds[c] = cs[c]
             /\ c \in S => ds[c].outcome # "pending"
             /\ cs[c].outcome # "pending" => ds[c].outcome = cs[c].outcome
             /\ ds[c].outcome = "ok" => cs[c].outcome = "ok" \/ (c \in S /\ result = "ok")
  <2> DEFINE x == cs[c]
             y == IF x.aborted /\ x.op # "run" THEN "aborted" ELSE result
  <2>1. x \in CallRecords
    BY <1>1
  <2>2. ds[c] = IF c \in S /\ x.outcome = "pending" THEN [x EXCEPT !.outcome = y] ELSE x
    BY <1>2
  <2>3. y \in {"ok", "error", "aborted", "cancelled"} /\ (y = "ok" => result = "ok")
    OBVIOUS
  <2> HIDE DEF x, y
  <2>4. CASE c \in S /\ x.outcome = "pending"
    BY <2>1, <2>2, <2>3, <2>4 DEF CallRecords, x
  <2>5. CASE ~(c \in S /\ x.outcome = "pending")
    BY <2>1, <2>2, <2>5 DEF x
  <2> QED
    BY <2>4, <2>5
<1>4. ds \in [1..n -> CallRecords]
  BY <1>1, <1>2, <1>3
<1>5. ds \in Seq(CallRecords)
  BY <1>1, <1>4, IsSequence
<1>6. Grows(cs, ds)
  BY <1>2, <1>3 DEF Grows
<1> QED
  BY <1>2, <1>3, <1>5, <1>6 DEF Settles

\* The call of answer a has an answer that is sound or not.
WithSound(cs, a) == [cs EXCEPT ![a.call].sound = a.sound]
Answered(cs, a, result) == Settle(WithSound(cs, a), {a.call}, result)

\* What the answer a does.
LEMMA AnswerFacts ==
  ASSUME NEW cs \in Seq(CallRecords), NEW a \in AnswerRecords, a.call \in DOMAIN cs,
         NEW result \in {"ok", "error", "aborted", "cancelled"},
         NEW ds, ds = Answered(cs, a, result)
  PROVE  /\ Settles(cs, ds)
         /\ \A c \in DOMAIN cs : c # a.call => ds[c] = cs[c]
         /\ ds[a.call].aborted = cs[a.call].aborted
         /\ a.sound => ds[a.call].sound
         /\ ds[a.call].outcome # "pending"
         /\ ds[a.call].outcome = "ok" => cs[a.call].outcome = "ok" \/ result = "ok"
<1> DEFINE es == WithSound(cs, a)
           x == a.call
           S == {x}
<1>0. x \in DOMAIN cs /\ a.sound \in BOOLEAN
  BY DEF AnswerRecords
<1>1. /\ es \in Seq(CallRecords)
      /\ DOMAIN es = DOMAIN cs
      /\ \A c \in DOMAIN cs : c # x => es[c] = cs[c]
      /\ es[x] = [cs[x] EXCEPT !.sound = a.sound]
      /\ cs[x] \in CallRecords
  <2>1. Len(cs) \in Nat /\ DOMAIN cs = 1..Len(cs) /\ \A c \in 1..Len(cs) : cs[c] \in CallRecords
    BY LenProperties, ElementOfSeq
  <2>2. [cs[x] EXCEPT !.sound = a.sound] \in CallRecords
    BY <1>0, <2>1, SMTT(30) DEF CallRecords
  <2>3. es \in [1..Len(cs) -> CallRecords]
    BY <1>0, <2>1, <2>2 DEF WithSound
  <2>4. es \in Seq(CallRecords)
    BY <2>1, <2>3, IsSequence
  <2> QED
    BY <1>0, <2>1, <2>4 DEF WithSound
<1>2. ds = Settle(es, S, result) /\ S = {x}
  BY DEF Answered
<1> HIDE DEF es, S, x
<1>3. /\ es[x].op = cs[x].op /\ es[x].handle = cs[x].handle /\ es[x].host = cs[x].host
      /\ es[x].outcome = cs[x].outcome
  BY <1>1 DEF CallRecords
<1>4. es[x].aborted = cs[x].aborted
  BY <1>1 DEF CallRecords
<1>5. a.sound => es[x].sound
  BY <1>0, <1>1 DEF CallRecords
<1>6. /\ Settles(es, ds)
      /\ \A c \in DOMAIN es :
           /\ ds[c].aborted = es[c].aborted /\ ds[c].sound = es[c].sound
           /\ c \notin S => ds[c] = es[c]
           /\ c \in S => ds[c].outcome # "pending"
           /\ ds[c].outcome = "ok" => es[c].outcome = "ok" \/ (c \in S /\ result = "ok")
  <2>1. es \in Seq(CallRecords) /\ ds = Settle(es, S, result)
    BY <1>1, <1>2
  <2> QED
    BY ONLY <2>1, result \in {"ok", "error", "aborted", "cancelled"}, SettleFacts
<1>7. DOMAIN ds = DOMAIN cs /\ ds \in Seq(CallRecords)
  BY <1>1, <1>6 DEF Settles
<1>8. \A c \in DOMAIN cs : c # x => ds[c] = cs[c]
  BY <1>1, <1>2, <1>6
<1>9. /\ ds[x].op = es[x].op /\ ds[x].handle = es[x].handle /\ ds[x].host = es[x].host
      /\ es[x].outcome # "pending" => ds[x].outcome = es[x].outcome
  BY <1>0, <1>1, <1>6 DEF Settles, Grows
<1>10. /\ ds[x].outcome # "pending"
       /\ ds[x].outcome = "ok" => es[x].outcome = "ok" \/ result = "ok"
  BY <1>0, <1>1, <1>2, <1>6
<1>11. ds[x].aborted = es[x].aborted
  BY <1>0, <1>1, <1>6
<1>12. ds[x].sound = es[x].sound
  BY <1>0, <1>1, <1>6
<1>13. \A c \in DOMAIN cs :
         ds[c].op = cs[c].op /\ ds[c].handle = cs[c].handle /\ ds[c].host = cs[c].host
  BY ONLY <1>3, <1>8, <1>9
<1>14. \A c \in DOMAIN cs : cs[c].outcome # "pending" => ds[c].outcome = cs[c].outcome
  BY ONLY <1>3, <1>8, <1>9
<1>15. Settles(cs, ds)
  BY ONLY <1>7, <1>13, <1>14 DEF Settles, Grows
<1>16. ds[x].aborted = cs[x].aborted
  BY ONLY <1>4, <1>11
<1>17. a.sound => ds[x].sound
  BY <1>5, <1>12
<1>18. ds[x].outcome = "ok" => cs[x].outcome = "ok" \/ result = "ok"
  BY <1>3, <1>10
<1> QED
  BY <1>8, <1>10, <1>15, <1>16, <1>17, <1>18 DEF x

\* The calls of a host are its calls.
LEMMA SettledCalls ==
  ASSUME NEW cs, NEW ds, Settles(cs, ds), NEW w
  PROVE  CallsOn(ds, w) = CallsOn(cs, w)
BY DEF Settles, Grows, CallsOn

\* What a call says of its study and its host stays true.
LEMMA CallsFrame ==
  ASSUME NEW cs, NEW ds, NEW hs, NEW gs, NEW c \in DOMAIN cs,
         CallInv(cs, hs, c), Settles(cs, ds),
         \A w \in Workers : gs[w].isolated = hs[w].isolated
  PROVE  CallInv(ds, gs, c)
<1>1. /\ DOMAIN ds = DOMAIN cs
      /\ ds[c].op = cs[c].op /\ ds[c].handle = cs[c].handle /\ ds[c].host = cs[c].host
  BY DEF Settles, Grows
<1>2. \A d \in DOMAIN cs : /\ ds[d].op = cs[d].op /\ ds[d].host = cs[d].host
                           /\ cs[d].outcome = "ok" => ds[d].outcome = "ok"
  BY DEF Settles, Grows
<1>3. CallsOn(ds, cs[c].host) = CallsOn(cs, cs[c].host)
  BY SettledCalls
<1> QED
  BY <1>1, <1>2, <1>3 DEF CallInv

\* The page's engine takes an answer to one of its calls.
LEMMA DirectAnswerPage ==
  ASSUME NEW cs, NEW ds, NEW hs, NEW e, PageInv(cs, hs, e), Settles(cs, ds),
         NEW a, CallsOf(e.finished) = {a.call} \cup CallsOf(Tail(e.finished)),
         OkCalls(e.finished) =
           OkCalls(Tail(e.finished)) \cup (IF a.answer = "ok" THEN {a.call} ELSE {}),
         \A c \in DOMAIN cs : c # a.call => ds[c] = cs[c],
         ds[a.call].outcome # "pending",
         ds[a.call].outcome = "ok" => cs[a.call].outcome = "ok" \/ a.answer = "ok",
         NEW f, f.waiting = e.waiting, f.running = e.running, f.table = e.table,
         f.finished = Tail(e.finished)
  PROVE  PageInv(ds, hs, f)
<1>1. Orderly(cs, e, <<>>) /\ Grows(cs, ds) /\ DOMAIN ds = DOMAIN cs
  BY DEF PageInv, Settles
<1>2. Past(f) \subseteq Past(e) /\ Coming(f, <<>>) = Coming(e, <<>>)
  BY DEF Past, Coming
<1>3. Carrying(e, <<>>) = Carrying(f, <<>>) \cup {a.call}
  BY <1>2 DEF Carrying
<1>4. Orderly(cs, f, <<>>)
  <2>1. /\ Past(f) \cup Coming(f, <<>>) \subseteq DOMAIN cs
        /\ \A x \in Past(f), y \in Coming(f, <<>>) : Before(cs, x, y)
    BY <1>1, <1>2 DEF Orderly
  <2>2. f.running \cap CallsOf(f.finished) = {}
    BY <1>1 DEF Orderly
  <2> QED
    BY <1>1, <2>1, <2>2 DEF Orderly
<1>5. Orderly(ds, f, <<>>)
  BY <1>1, <1>4, OrderlyFrame
<1>6. CallsOnPage(ds, hs) = CallsOnPage(cs, hs)
  BY <1>1 DEF CallsOnPage, Grows
<1>7. Kept(ds, CallsOnPage(ds, hs), f, <<>>)
  <2> SUFFICES ASSUME NEW c \in CallsOnPage(cs, hs), ds[c].op = "edit",
                      ~IsFreed(ds, ds[c].handle),
                      ds[c].outcome = "ok" \/ c \in OkCalls(<<>>) \cup OkCalls(f.finished)
               PROVE  Logged(f, ds[c].handle, c)
    BY <1>6 DEF Kept
  <2>1. c \in DOMAIN cs
    BY DEF CallsOnPage
  <2>2. cs[c].op = "edit" /\ ds[c].handle = cs[c].handle /\ ~IsFreed(cs, cs[c].handle)
    BY <1>1, <2>1 DEF Grows, IsFreed
  <2>3. cs[c].outcome = "ok" \/ c \in OkCalls(<<>>) \cup OkCalls(e.finished)
    BY <2>1
  <2>4. Logged(e, cs[c].handle, c)
    BY <2>2, <2>3 DEF PageInv, Kept
  <2> QED
    BY <2>2, <2>4 DEF Logged
<1>8. \A c \in CallsOnPage(ds, hs) : ds[c].outcome = "pending" => c \in Carrying(f, <<>>)
  <2>1. \A c \in CallsOnPage(cs, hs) : c \in DOMAIN cs
    BY DEF CallsOnPage
  <2> QED
    BY <1>3, <1>6, <2>1 DEF PageInv
<1>9. Past(f) \cup Coming(f, <<>>) \subseteq CallsOnPage(ds, hs)
  BY <1>2, <1>6 DEF PageInv
<1> QED
  BY <1>5, <1>7, <1>8, <1>9 DEF PageInv

\* A call on a direct host settles.
LEMMA DirectAnswerInv ==
  ASSUME Inv, DirectAnswer
  PROVE  Inv'
<1> DEFINE e == engine[Page]
           a == Head(e.finished)
           x == Tail(e.finished)
           f == [e EXCEPT !.finished = x]
           result == IF a.answer = "fatal" THEN "error" ELSE a.answer
<1>1. /\ e.finished # <<>> /\ UNCHANGED <<active, host, thread, outbox>>
      /\ calls' = Settle([calls EXCEPT ![a.call].sound = a.sound], {a.call}, result)
      /\ engine' = [engine EXCEPT ![Page] = f]
  BY PageIsNoWorker DEF DirectAnswer, Inv, TypeOK
<1>2. /\ IsEngine(e) /\ PageInv(calls, host, e) /\ calls \in Seq(CallRecords)
      /\ \A c \in DOMAIN calls : CallInv(calls, host, c)
  BY PageIsNoWorker DEF Inv, TypeOK
<1>3. /\ x \in Seq(AnswerRecords) /\ NoEvents(x)
      /\ a \in AnswerRecords /\ a.answer # "event"
      /\ CallsOf(e.finished) = {a.call} \cup CallsOf(x)
      /\ OkCalls(e.finished) = OkCalls(x) \cup (IF a.answer = "ok" THEN {a.call} ELSE {})
  <2>1. e.finished \in Seq(AnswerRecords) /\ NoEvents(e.finished)
    BY <1>2 DEF IsEngine
  <2> QED
    BY <1>1, <2>1, TailAnswer
<1>4. a.call \in CallsOnPage(calls, host) /\ a.call \in DOMAIN calls
  BY <1>2, <1>3 DEF PageInv, Past, CallsOnPage
<1>5. result \in {"ok", "error", "aborted", "cancelled"} /\ (result = "ok" => a.answer = "ok")
  BY <1>3 DEF AnswerRecords
<1>7. x = Tail(e.finished)
  OBVIOUS
<1> HIDE DEF e, a, x, result
<1>8. /\ f.waiting = e.waiting /\ f.running = e.running /\ f.table = e.table /\ f.finished = x
      /\ IsEngine(f)
  BY <1>2, <1>3, FinishedFields
<1> HIDE DEF f
<1>9. /\ Settles(calls, calls')
      /\ \A c \in DOMAIN calls : c # a.call => calls'[c] = calls[c]
      /\ calls'[a.call].outcome # "pending"
      /\ calls'[a.call].outcome = "ok" => calls[a.call].outcome = "ok" \/ result = "ok"
  <2> DEFINE ds == calls'
  <2>1. ds = Answered(calls, a, result)
    BY <1>1 DEF Answered, WithSound
  <2> HIDE DEF ds
  <2>2. /\ Settles(calls, ds)
        /\ \A c \in DOMAIN calls : c # a.call => ds[c] = calls[c]
        /\ ds[a.call].outcome # "pending"
        /\ ds[a.call].outcome = "ok" => calls[a.call].outcome = "ok" \/ result = "ok"
    <3>1. /\ calls \in Seq(CallRecords) /\ a \in AnswerRecords /\ a.call \in DOMAIN calls
          /\ result \in {"ok", "error", "aborted", "cancelled"}
      BY <1>2, <1>3, <1>4, <1>5
    <3> QED
      BY ONLY <2>1, <3>1, AnswerFacts
  <2> QED
    BY <2>2 DEF ds
<1>10. PageInv(calls', host, f)
  BY <1>2, <1>3, <1>5, <1>7, <1>8, <1>9, DirectAnswerPage
<1>11. /\ engine' = [j \in Engines |-> engine'[j]]
       /\ engine'[Page] = f
       /\ \A j \in Engines : j # Page => engine'[j] = engine[j]
  BY <1>1, PageIsNoWorker DEF Inv, TypeOK
<1>12. TypeOK'
  BY <1>1, <1>8, <1>9, <1>11 DEF Inv, TypeOK, Settles
<1>13. \A c \in DOMAIN calls' : CallInv(calls', host', c)
  BY <1>1, <1>2, <1>9, CallsFrame DEF Settles
<1>14. ASSUME NEW w \in Workers, host[w].state \notin {"forwarding", "direct"}
       PROVE  /\ CallsOn(calls', w) = CallsOn(calls, w)
              /\ \A c \in CallsOn(calls, w) : calls'[c] = calls[c]
  <2>1. CallsOn(calls', w) = CallsOn(calls, w)
    BY <1>9, SettledCalls
  <2>2. calls[a.call].host # w
    BY <1>4, <1>14, PageIsNoWorker DEF CallsOnPage, OnPage
  <2> QED
    BY <1>9, <2>1, <2>2 DEF CallsOn
<1>15. \A w \in Workers : engine'[w] = engine[w]
  BY <1>11, PageIsNoWorker
<1>16. ActiveInv(active', host') /\ Grows(calls, calls') /\ PageInv(calls', host', engine'[Page])
  BY <1>1, <1>9, <1>10, <1>11 DEF Inv, Settles
<1> QED
  BY <1>1, <1>12, <1>13, <1>14, <1>15, <1>16, SystemChange


------------------------------------------------------------------------------
(* Pending calls. *)

\* A queue without its entry i.
LEMMA RemoveAtProperties ==
  ASSUME NEW q \in Seq(Nat), NEW i \in 1..Len(q)
  PROVE  /\ RemoveAt(q, i) \in Seq(Nat)
         /\ Len(RemoveAt(q, i)) = Len(q) - 1
         /\ \A j \in 1..(Len(q) - 1) : RemoveAt(q, i)[j] = IF j < i THEN q[j] ELSE q[j + 1]
<1> DEFINE n == Len(q)
           a == SubSeq(q, 1, i - 1)
           b == SubSeq(q, i + 1, n)
<1>1. n \in Nat /\ i \in Nat /\ 1 <= i /\ i <= n /\ \A j \in 1..n : q[j] \in Nat
  BY LenProperties, ElementOfSeq
<1>2. /\ a \in Seq(Nat) /\ Len(a) = i - 1
      /\ \A j \in 1..(i - 1) : a[j] = q[j]
  <2>1. \A j \in 1..(i - 1) : q[j] \in Nat
    BY <1>1
  <2>2. /\ a \in Seq(Nat)
        /\ Len(a) = IF 1 <= i - 1 THEN i - 1 - 1 + 1 ELSE 0
        /\ \A j \in 1..(i - 1 - 1 + 1) : a[j] = q[1 + j - 1]
    BY <1>1, <2>1, SubSeqProperties
  <2> QED
    BY <1>1, <2>2
<1>3. /\ b \in Seq(Nat) /\ Len(b) = n - i
      /\ \A j \in 1..(n - i) : b[j] = q[i + j]
  <2>1. \A j \in (i + 1)..n : q[j] \in Nat
    BY <1>1
  <2>2. /\ b \in Seq(Nat)
        /\ Len(b) = IF i + 1 <= n THEN n - (i + 1) + 1 ELSE 0
        /\ \A j \in 1..(n - (i + 1) + 1) : b[j] = q[(i + 1) + j - 1]
    BY <1>1, <2>1, SubSeqProperties
  <2> QED
    BY <1>1, <2>2
<1>4. RemoveAt(q, i) = a \o b
  BY DEF RemoveAt
<1> HIDE DEF a, b, n
<1>5. /\ a \o b \in Seq(Nat)
      /\ Len(a \o b) = Len(a) + Len(b)
      /\ \A j \in 1..(Len(a) + Len(b)) : (a \o b)[j] = IF j <= Len(a) THEN a[j] ELSE b[j - Len(a)]
  BY <1>2, <1>3, ConcatProperties
<1>6. \A j \in 1..(n - 1) : (a \o b)[j] = IF j < i THEN q[j] ELSE q[j + 1]
  <2> SUFFICES ASSUME NEW j \in 1..(n - 1)
               PROVE  (a \o b)[j] = IF j < i THEN q[j] ELSE q[j + 1]
    OBVIOUS
  <2>1. CASE j < i
    BY <1>1, <1>2, <1>3, <1>5, <2>1
  <2>2. CASE ~(j < i)
    <3>1. j - (i - 1) \in 1..(n - i) /\ i + (j - (i - 1)) = j + 1
      BY <1>1, <2>2
    <3> QED
      BY <1>1, <1>2, <1>3, <1>5, <2>2, <3>1, SMTT(30)
  <2> QED
    BY <2>1, <2>2
<1>7. Len(a \o b) = n - 1
  BY <1>1, <1>2, <1>3, <1>5
<1> QED
  BY <1>4, <1>5, <1>6, <1>7 DEF n

\* An ascending queue without one entry.
LEMMA RemoveAscending ==
  ASSUME NEW q \in Seq(Nat), NEW i \in DOMAIN q,
         \A j, k \in DOMAIN q : j < k => q[j] < q[k]
  PROVE  /\ RemoveAt(q, i) \in Seq(Nat)
         /\ \A j, k \in DOMAIN RemoveAt(q, i) : j < k => RemoveAt(q, i)[j] < RemoveAt(q, i)[k]
         /\ ToSet(RemoveAt(q, i)) = ToSet(q) \ {q[i]}
<1> DEFINE p == RemoveAt(q, i)
           n == Len(q)
<1>1. n \in Nat /\ DOMAIN q = 1..n /\ \A j \in 1..n : q[j] \in Nat
  BY LenProperties, ElementOfSeq
<1>2. /\ p \in Seq(Nat)
      /\ Len(p) = n - 1
      /\ \A j \in 1..(n - 1) : p[j] = IF j < i THEN q[j] ELSE q[j + 1]
  <2>1. i \in 1..n
    BY <1>1
  <2> QED
    BY <1>1, <2>1, RemoveAtProperties
<1>3. DOMAIN p = 1..(n - 1)
  BY <1>2, LenProperties
<1> DEFINE at(j) == IF j < i THEN j ELSE j + 1
<1> HIDE DEF p, n
<1>4. ASSUME NEW j \in 1..(n - 1)
      PROVE  at(j) \in 1..n /\ at(j) # i /\ p[j] = q[at(j)]
  BY <1>1, <1>2, SMTT(30)
<1>5. ASSUME NEW j \in 1..(n - 1), NEW k \in 1..(n - 1), j < k PROVE p[j] < p[k]
  <2>1. at(j) < at(k)
    BY <1>1, <1>5
  <2> HIDE DEF at
  <2>2. q[at(j)] < q[at(k)]
    BY <1>1, <1>4, <2>1
  <2> QED
    BY <1>4, <2>2
<1>6. ASSUME NEW j \in 1..n, NEW k \in 1..n, j # k PROVE q[j] # q[k]
  <2>1. j < k \/ k < j
    BY <1>1, <1>6
  <2>2. q[j] < q[k] \/ q[k] < q[j]
    BY <1>1, <2>1
  <2> QED
    BY <1>1, <2>2
<1>7. ASSUME NEW x \in ToSet(p) PROVE x \in ToSet(q) \ {q[i]}
  <2>1. PICK j \in 1..(n - 1) : x = p[j]
    BY <1>3, <1>7 DEF ToSet
  <2>2. at(j) \in 1..n /\ at(j) # i /\ x = q[at(j)]
    BY <1>4, <2>1
  <2> HIDE DEF at
  <2> QED
    BY <1>1, <1>6, <2>2 DEF ToSet
<1>8. ASSUME NEW x \in ToSet(q), x # q[i] PROVE x \in ToSet(p)
  <2>1. PICK j \in 1..n : x = q[j]
    BY <1>1, <1>8 DEF ToSet
  <2>2. j # i
    BY <1>8, <2>1
  <2> DEFINE k == IF j < i THEN j ELSE j - 1
  <2>3. k \in 1..(n - 1) /\ at(k) = j
    BY <1>1, <2>2
  <2> HIDE DEF k, at
  <2>4. p[k] = x
    BY <1>4, <2>1, <2>3
  <2> QED
    BY <1>3, <2>3, <2>4 DEF ToSet
<1> QED
  BY <1>2, <1>3, <1>5, <1>7, <1>8 DEF p

\* Something happens to a worker and its host, to calls of that host only, and
\* the host's calls do not come to the page or leave it.
HostStep(w, h, t, o, e, ds) ==
  /\ h \in HostRecords /\ t \in ThreadRecords /\ o \in Seq(AnswerRecords) /\ IsEngine(e)
  /\ Settles(calls, ds)
  /\ WorkerInv(ds, w, h, t, o, e)
  /\ h.isolated = host[w].isolated
  /\ h.state = "unused" => host[w].state = "unused"
  /\ h.state \in {"forwarding", "direct"} <=> host[w].state \in {"forwarding", "direct"}
  /\ host[w].state \in {"forwarding", "direct"} => ds = calls
  /\ \A c \in DOMAIN calls : calls[c].host # w => ds[c] = calls[c]
  /\ calls' = ds /\ active' \in {active, None}
  /\ host' = [host EXCEPT ![w] = h] /\ thread' = [thread EXCEPT ![w] = t]
  /\ outbox' = [outbox EXCEPT ![w] = o] /\ engine' = [engine EXCEPT ![w] = e]

\* Such a step preserves the invariant.
LEMMA HostChange ==
  ASSUME Inv, NEW w \in Workers, NEW h, NEW t, NEW o, NEW e, NEW ds, HostStep(w, h, t, o, e, ds)
  PROVE  Inv'
<1> USE DEF HostStep
<1>1. Page \notin Workers /\ Page \in Engines /\ Workers \subseteq Engines
  BY PageIsNoWorker
<1>2. /\ engine' = [j \in Engines |-> engine'[j]]
      /\ engine'[w] = e
      /\ \A j \in Engines : j # w => engine'[j] = engine[j]
  BY <1>1 DEF Inv, TypeOK
<1>3. /\ host' \in [Workers -> HostRecords]
      /\ host'[w] = h
      /\ \A v \in Workers : v # w => host'[v] = host[v]
  BY DEF Inv, TypeOK
<1>4. thread' \in [Workers -> ThreadRecords] /\ outbox' \in [Workers -> Seq(AnswerRecords)]
  BY DEF Inv, TypeOK
<1>5. active' \in Engines \cup {None} /\ calls' \in Seq(CallRecords)
  BY DEF Inv, TypeOK, Settles
<1>6. TypeOK'
  BY <1>2, <1>3, <1>4, <1>5 DEF Inv, TypeOK
<1>7. ActiveInv(active', host')
  <2> SUFFICES ASSUME active' \in Workers
               PROVE  host'[active'].state # "unused" /\ ~host'[active'].isolated
    BY DEF ActiveInv
  <2>1. CASE active' = active
    <3>1. host[active].state # "unused" /\ ~host[active].isolated
      BY <2>1 DEF Inv, ActiveInv
    <3>2. CASE active = w
      BY <1>3, <2>1, <3>1, <3>2
    <3>3. CASE active # w
      BY <1>3, <2>1, <3>1, <3>3
    <3> QED
      BY <3>2, <3>3
  <2>2. CASE active' = None
    BY <2>2, HostAssumption DEF Workers
  <2> QED
    BY <2>1, <2>2
<1>8. \A c \in DOMAIN calls' : CallInv(calls', host', c)
  <2>1. \A v \in Workers : host'[v].isolated = host[v].isolated
    BY <1>3
  <2>2. \A c \in DOMAIN calls : CallInv(calls, host, c)
    BY DEF Inv
  <2> QED
    BY <2>1, <2>2, CallsFrame DEF Settles
<1>9. PageInv(calls', host', engine'[Page])
  <2>1. \A i \in Engines : OnPage(host', i) <=> OnPage(host, i)
    BY <1>3 DEF OnPage
  <2>2. \A c \in DOMAIN calls : calls[c].host \in Engines /\ calls'[c].host = calls[c].host
    <3>1. calls \in Seq(CallRecords)
      BY DEF Inv, TypeOK
    <3>2. \A c \in DOMAIN calls : calls[c] \in CallRecords
      BY <3>1, LenProperties, ElementOfSeq
    <3> QED
      BY <3>2 DEF CallRecords, Settles, Grows
  <2>3. CallsOnPage(calls', host') = CallsOnPage(calls, host)
    BY <2>1, <2>2 DEF CallsOnPage, Settles
  <2>4. \A c \in CallsOnPage(calls, host) : calls'[c] = calls[c]
    BY <1>1 DEF CallsOnPage, OnPage
  <2>5. PageInv(calls, host, engine[Page]) /\ engine'[Page] = engine[Page]
    BY <1>1, <1>2 DEF Inv
  <2>6. Grows(calls, calls')
    BY DEF Settles
  <2> QED
    BY <2>3, <2>4, <2>5, <2>6, PageFrame
<1>10. ASSUME NEW v \in Workers
       PROVE  \/ WorkerInv(calls', v, host'[v], thread'[v], outbox'[v], engine'[v])
              \/ /\ host'[v] = host[v] /\ thread'[v] = thread[v]
                 /\ outbox'[v] = outbox[v] /\ engine'[v] = engine[v]
                 /\ CallsOn(calls', v) = CallsOn(calls, v)
                 /\ \A c \in CallsOn(calls, v) : calls'[c] = calls[c]
  <2>1. CASE v = w
    <3>1. thread'[v] = t /\ outbox'[v] = o /\ engine'[v] = e /\ host'[v] = h
      BY <1>1, <1>2, <1>3, <2>1 DEF Inv, TypeOK
    <3> QED
      BY <2>1, <3>1
  <2>2. CASE v # w
    <3>1. /\ host'[v] = host[v] /\ thread'[v] = thread[v]
          /\ outbox'[v] = outbox[v] /\ engine'[v] = engine[v]
      BY <1>1, <1>2, <1>3, <2>2 DEF Inv, TypeOK
    <3>2. CallsOn(calls', v) = CallsOn(calls, v)
      BY SettledCalls
    <3>3. \A c \in CallsOn(calls, v) : calls'[c] = calls[c]
      BY <2>2 DEF CallsOn
    <3> QED
      BY <3>1, <3>2, <3>3
  <2> QED
    BY <2>1, <2>2
<1>11. Grows(calls, calls')
  BY DEF Settles
<1> QED
  BY <1>6, <1>7, <1>8, <1>9, <1>10, <1>11, SystemChange

\* An answer arrives for a call that nobody waits for.
LEMMA UnknownServes ==
  ASSUME NEW cs, NEW w, NEW h, NEW g, NEW t, NEW o \in Seq(AnswerRecords), NEW e,
         Serves(cs, w, h, t, o, e), o # <<>>, NEW a, a = Head(o),
         a.answer \in {"ok", "cancelled", "error"}, a.call \notin ToSet(h.pending),
         g.pending = h.pending, g.answered = TRUE
  PROVE  Serves(cs, w, g, t, Tail(o), e)
<1> DEFINE p == Tail(o)
<1>1. /\ CallsOf(o) = {a.call} \cup CallsOf(p)
      /\ OkCalls(o) = OkCalls(p) \cup (IF a.answer = "ok" THEN {a.call} ELSE {})
      /\ HasFatal(o) <=> HasFatal(p) \/ a.answer = "fatal"
      /\ Covered(o) /\ a.answer # "fatal" => Covered(p)
  BY TailAnswer
<1>2. \A k \in DOMAIN o : o[k] = a \/ \E l \in DOMAIN p : p[l] = o[k]
  <2>1. /\ DOMAIN o = 1..Len(o) /\ DOMAIN p = 1..(Len(o) - 1) /\ o[1] = a
        /\ \A k \in 1..Len(o) : k = 1 \/ (k - 1 \in 1..(Len(o) - 1) /\ p[k - 1] = o[k])
    BY TailFacts
  <2> QED
    BY <2>1
<1> HIDE DEF p
<1>3. Awaited(g.pending, t, p, e)
  BY <1>1, <1>2 DEF Serves, Awaited
<1>4. t.state # "closed" => Kept(cs, CallsOn(cs, w), e, p)
  BY <1>1 DEF Serves, Kept
<1>5. TrapsFirst(p, e)
  BY <1>1 DEF Serves, TrapsFirst
<1>6. OkCalls(p) \subseteq CallsOn(cs, w)
  BY <1>1 DEF Serves
<1>7. Serves(cs, w, g, t, p, e)
  BY <1>3, <1>4, <1>5, <1>6 DEF Serves
<1> QED
  BY <1>7 DEF p

\* An answer arrives for the call that waits for it.
LEMMA KnownServes ==
  ASSUME NEW cs, NEW ds, NEW w, NEW h, NEW g, NEW t, NEW o \in Seq(AnswerRecords), NEW e,
         Serves(cs, w, h, t, o, e), o # <<>>, NEW a, a = Head(o),
         a.answer \in {"ok", "cancelled", "error"}, a.call \in ToSet(h.pending),
         Settles(cs, ds), \A c \in DOMAIN cs : c # a.call => ds[c] = cs[c],
         ds[a.call].aborted = cs[a.call].aborted,
         a.sound => ds[a.call].sound, ds[a.call].outcome # "pending",
         ds[a.call].outcome = "ok" => cs[a.call].outcome = "ok" \/ a.answer = "ok",
         g.answered = TRUE, ToSet(g.pending) = ToSet(h.pending) \ {a.call},
         \A k, l \in DOMAIN g.pending : k < l => g.pending[k] < g.pending[l]
  PROVE  Serves(ds, w, g, t, Tail(o), e)
<1> DEFINE p == Tail(o)
           x == a.call
<1>1. /\ CallsOf(o) = {x} \cup CallsOf(p)
      /\ OkCalls(o) = OkCalls(p) \cup (IF a.answer = "ok" THEN {x} ELSE {})
      /\ HasFatal(o) <=> HasFatal(p) \/ a.answer = "fatal"
      /\ Covered(o) => a.sound
      /\ Covered(o) /\ a.answer # "fatal" => Covered(p)
  BY TailAnswer
<1>2. \A k \in DOMAIN o : o[k] = a \/ \E l \in DOMAIN p : p[l] = o[k]
  <2>1. /\ DOMAIN o = 1..Len(o) /\ DOMAIN p = 1..(Len(o) - 1) /\ o[1] = a
        /\ \A k \in 1..Len(o) : k = 1 \/ (k - 1 \in 1..(Len(o) - 1) /\ p[k - 1] = o[k])
    BY TailFacts
  <2> QED
    BY <2>1
<1>3. /\ x \in CallsOn(cs, w) /\ x \in DOMAIN cs /\ cs[x].outcome = "pending"
      /\ CallsOn(cs, w) \subseteq DOMAIN cs
  BY DEF Serves, CallsOn
<1>4. CallsOn(ds, w) = CallsOn(cs, w)
  BY SettledCalls
<1>5. Grows(cs, ds) /\ DOMAIN ds = DOMAIN cs
  BY DEF Settles
<1>6. /\ \A c \in DOMAIN cs : c # x => ds[c] = cs[c]
      /\ ds[x].outcome # "pending"
      /\ ds[x].outcome = "ok" => a.answer = "ok"
      /\ ds[x].aborted = cs[x].aborted
  BY <1>3
<1>7. Covered(o)
  BY DEF Serves, TrapsFirst
<1>8. ds[x].sound
  BY <1>1, <1>7
<1> HIDE DEF p
<1>9. Awaited(g.pending, t, p, e)
  BY <1>1, <1>2 DEF Serves, Awaited
<1>10. ASSUME t.state # "closed" PROVE Kept(ds, CallsOn(ds, w), e, p)
  <2> SUFFICES ASSUME NEW c \in CallsOn(cs, w), ds[c].op = "edit",
                      ~IsFreed(ds, ds[c].handle),
                      ds[c].outcome = "ok" \/ c \in OkCalls(p) \cup OkCalls(e.finished)
               PROVE  Logged(e, ds[c].handle, c)
    BY <1>4 DEF Kept
  <2>1. cs[c].op = "edit" /\ ds[c].handle = cs[c].handle /\ ~IsFreed(cs, cs[c].handle)
    BY <1>3, <1>5 DEF Grows, IsFreed
  <2>2. cs[c].outcome = "ok" \/ c \in OkCalls(o) \cup OkCalls(e.finished)
    BY <1>1, <1>3, <1>6
  <2>3. Kept(cs, CallsOn(cs, w), e, o)
    BY <1>10 DEF Serves
  <2> QED
    BY <2>1, <2>2, <2>3 DEF Kept
<1>11. TrapsFirst(p, e)
  BY <1>1 DEF Serves, TrapsFirst
<1>12. OkCalls(p) \subseteq CallsOn(ds, w)
  BY <1>1, <1>4 DEF Serves
<1>13. Orderly(ds, e, t.inbox)
  BY <1>5, OrderlyFrame DEF Serves
<1>14. ToSet(g.pending) = {c \in CallsOn(ds, w) : ds[c].outcome = "pending"}
  BY <1>3, <1>4, <1>6 DEF Serves
<1>15. \A c \in CallsOn(ds, w) : ds[c].outcome = "ok" => g.answered /\ ds[c].sound
  BY <1>3, <1>4, <1>6, <1>8 DEF Serves
<1>16. StopsArrive(ds, t.inbox, e)
  <2>1. Coming(e, t.inbox) \cup e.running \subseteq DOMAIN cs
    BY <1>3 DEF Serves, Past
  <2>2. \A c \in DOMAIN cs : ds[c].op = cs[c].op /\ ds[c].aborted = cs[c].aborted
    BY <1>5, <1>6 DEF Grows
  <2> QED
    BY <2>1, <2>2 DEF Serves, StopsArrive
<1>17. Serves(ds, w, g, t, p, e)
  BY <1>4, <1>9, <1>10, <1>11, <1>12, <1>13, <1>14, <1>15, <1>16 DEF Serves
<1> QED
  BY <1>17 DEF p

\* A queue of nothing is empty.
LEMMA NoElements ==
  ASSUME NEW q \in Seq(Nat), ToSet(q) = {}
  PROVE  q = <<>>
<1>1. DOMAIN q = 1..Len(q) /\ Len(q) \in Nat
  BY LenProperties
<1>2. DOMAIN q = {}
  BY DEF ToSet
<1>3. Len(q) = 0
  BY <1>1, <1>2
<1> QED
  BY <1>3, EmptySeq

\* A new instance is an engine, and a worker that is gone has nothing to take.
LEMMA NewEngineFacts ==
  /\ IsEngine(NewEngine)
  /\ [state |-> "gone", inbox |-> <<>>] \in ThreadRecords
<1>1. /\ <<>> \in Seq(Nat) /\ <<>> \in Seq(AnswerRecords) /\ <<>> \in Seq(Messages)
      /\ DOMAIN <<>> = {}
  BY EmptySeq
<1> QED
  BY <1>1 DEF IsEngine, NewEngine, NoEvents, ThreadRecords

\* Something arrives from a worker whose host does not serve.
LEMMA LateMessage ==
  ASSUME Inv, NEW w \in Workers, host[w].state # "serving", outbox[w] # <<>>,
         NEW h \in HostRecords, h.state = host[w].state, h.isolated = host[w].isolated,
         h.pending = host[w].pending,
         host' = [host EXCEPT ![w] = h], outbox' = [outbox EXCEPT ![w] = Tail(@)],
         UNCHANGED <<active, calls, thread, engine>>
  PROVE  Inv'
<1> DEFINE t == thread[w]
           o == Tail(outbox[w])
           e == engine[w]
<1>1. /\ t \in ThreadRecords /\ IsEngine(e) /\ calls \in Seq(CallRecords)
      /\ outbox[w] \in Seq(AnswerRecords)
  BY PageIsNoWorker DEF Inv, TypeOK
<1>2. o \in Seq(AnswerRecords)
  BY <1>1, TailAnswer
<1>3. Idle(calls, w, host[w], t, outbox[w], e)
  BY DEF Inv, WorkerInv
<1>4. WorkerInv(calls, w, h, t, o, e)
  <2>1. Idle(calls, w, h, t, o, e)
    BY <1>3 DEF Idle
  <2> QED
    BY <2>1 DEF WorkerInv
<1>5. Settles(calls, calls)
  BY <1>1 DEF Settles, Grows
<1>6. /\ thread' = [thread EXCEPT ![w] = t] /\ outbox' = [outbox EXCEPT ![w] = o]
      /\ engine' = [engine EXCEPT ![w] = e] /\ calls' = calls /\ active' \in {active, None}
  BY PageIsNoWorker DEF Inv, TypeOK
<1> HIDE DEF t, o, e
<1>7. HostStep(w, h, t, o, e, calls)
  BY <1>1, <1>2, <1>4, <1>5, <1>6 DEF HostStep
<1> QED
  BY <1>7, HostChange

\* An answer arrives for a call that nobody waits for.
LEMMA ReceiveUnknown ==
  ASSUME Inv, NEW w \in Workers, outbox[w] # <<>>,
         Head(outbox[w]).answer \in {"ok", "cancelled", "error"},
         Head(outbox[w]).call \notin ToSet(host[w].pending),
         outbox' = [outbox EXCEPT ![w] = Tail(@)],
         host' = [host EXCEPT ![w].answered = TRUE],
         UNCHANGED <<active, calls, thread, engine>>
  PROVE  Inv'
<1> DEFINE h == [host[w] EXCEPT !.answered = TRUE]
           o == Tail(outbox[w])
<1>1. /\ host[w] \in HostRecords /\ outbox[w] \in Seq(AnswerRecords)
      /\ thread[w] \in ThreadRecords /\ IsEngine(engine[w]) /\ calls \in Seq(CallRecords)
  BY PageIsNoWorker DEF Inv, TypeOK
<1>2. /\ h \in HostRecords /\ h.state = host[w].state /\ h.isolated = host[w].isolated
      /\ h.pending = host[w].pending /\ h.answered = TRUE
  BY <1>1 DEF HostRecords
<1>3. host' = [host EXCEPT ![w] = h]
  BY DEF Inv, TypeOK
<1> HIDE DEF h
<1>4. CASE host[w].state # "serving"
  BY <1>2, <1>3, <1>4, LateMessage
<1>5. CASE host[w].state = "serving"
  <2>1. Serves(calls, w, host[w], thread[w], outbox[w], engine[w])
    BY <1>5, ServingFacts
  <2>2. Serves(calls, w, h, thread[w], o, engine[w])
    BY <1>1, <1>2, <2>1, UnknownServes
  <2>3. WorkerInv(calls, w, h, thread[w], o, engine[w])
    BY <1>2, <1>5, <2>2 DEF WorkerInv
  <2>4. o \in Seq(AnswerRecords)
    BY <1>1, TailAnswer
  <2>5. Settles(calls, calls)
    BY <1>1 DEF Settles, Grows
  <2>6. /\ thread' = [thread EXCEPT ![w] = thread[w]] /\ outbox' = [outbox EXCEPT ![w] = o]
        /\ engine' = [engine EXCEPT ![w] = engine[w]] /\ calls' = calls /\ active' \in {active, None}
    BY PageIsNoWorker DEF Inv, TypeOK
  <2> HIDE DEF o
  <2>7. HostStep(w, h, thread[w], o, engine[w], calls)
    BY <1>1, <1>2, <1>3, <2>3, <2>4, <2>5, <2>6 DEF HostStep
  <2> QED
    BY <2>7, HostChange
<1> QED
  BY <1>4, <1>5

\* An answer arrives for call k of the pending ones.
LEMMA ReceiveKnown ==
  ASSUME Inv, NEW w \in Workers, outbox[w] # <<>>,
         NEW a, a = Head(outbox[w]), a.answer \in {"ok", "cancelled", "error"},
         NEW k \in DOMAIN host[w].pending, host[w].pending[k] = a.call,
         outbox' = [outbox EXCEPT ![w] = Tail(@)],
         host' = [host EXCEPT ![w].answered = TRUE, ![w].state = Finished(w),
                              ![w].pending = RemoveAt(@, k)],
         calls' = Answered(calls, a, a.answer),
         thread' = IF host[w].isolated
                   THEN [thread EXCEPT ![w] = [state |-> "gone", inbox |-> <<>>]] ELSE thread,
         engine' = IF host[w].isolated THEN [engine EXCEPT ![w] = NewEngine] ELSE engine,
         UNCHANGED active
  PROVE  Inv'
<1> DEFINE g == host[w]
           q == RemoveAt(g.pending, k)
           s == Finished(w)
           h == [g EXCEPT !.answered = TRUE, !.state = s, !.pending = q]
           o == Tail(outbox[w])
           x == a.call
           ds == calls'
<1>1. /\ g \in HostRecords /\ outbox[w] \in Seq(AnswerRecords)
      /\ thread[w] \in ThreadRecords /\ IsEngine(engine[w]) /\ calls \in Seq(CallRecords)
  BY PageIsNoWorker DEF Inv, TypeOK
<1>2. x \in ToSet(g.pending)
  BY DEF ToSet
<1>3. g.state = "serving"
  <2>1. g.pending # <<>>
    BY EmptySeq
  <2> QED
    BY <2>1 DEF Inv, WorkerInv, Idle
<1>4. Serves(calls, w, g, thread[w], outbox[w], engine[w])
  BY <1>3, ServingFacts
<1>5. x \in CallsOn(calls, w) /\ x \in DOMAIN calls
  BY <1>2, <1>4 DEF Serves, CallsOn
<1>6. o \in Seq(AnswerRecords) /\ a \in AnswerRecords /\ (Covered(outbox[w]) => a.sound)
  BY <1>1, TailAnswer
<1>7. /\ Settles(calls, ds)
      /\ \A c \in DOMAIN calls : c # x => ds[c] = calls[c]
      /\ ds[x].aborted = calls[x].aborted
      /\ a.sound => ds[x].sound
      /\ ds[x].outcome # "pending"
      /\ ds[x].outcome = "ok" => calls[x].outcome = "ok" \/ a.answer = "ok"
  <2>1. a.answer \in {"ok", "error", "aborted", "cancelled"} /\ x \in DOMAIN calls
    BY <1>5
  <2>2. ds = Answered(calls, a, a.answer)
    OBVIOUS
  <2> HIDE DEF ds
  <2> QED
    BY ONLY <1>1, <1>6, <2>1, <2>2, AnswerFacts DEF x
<1>8. /\ q \in Seq(Nat) /\ ToSet(q) = ToSet(g.pending) \ {x}
      /\ \A i, j \in DOMAIN q : i < j => q[i] < q[j]
  <2>1. g.pending \in Seq(Nat) /\ \A i, j \in DOMAIN g.pending : i < j => g.pending[i] < g.pending[j]
    BY <1>1, <1>4 DEF HostRecords, Serves
  <2> QED
    BY <2>1, RemoveAscending
<1>9. s \in {"serving", "dropped"} /\ (g.isolated => s = "dropped") /\ (~g.isolated => s = "serving")
  BY <1>3 DEF Finished
<1>10. host' = [host EXCEPT ![w] = h]
  BY DEF Inv, TypeOK
<1>11. /\ outbox' = [outbox EXCEPT ![w] = o] /\ active' \in {active, None} /\ calls' = ds
       /\ thread' = IF g.isolated THEN [thread EXCEPT ![w] = [state |-> "gone", inbox |-> <<>>]] ELSE thread
       /\ engine' = IF g.isolated THEN [engine EXCEPT ![w] = NewEngine] ELSE engine
  BY DEF Inv, TypeOK
<1> HIDE DEF q, s, g
<1>12. /\ h \in HostRecords /\ h.state = s /\ h.isolated = g.isolated
       /\ h.pending = q /\ h.answered = TRUE
  BY <1>1, <1>8, <1>9 DEF HostRecords
<1>13. \A c \in DOMAIN calls : calls[c].host # w => ds[c] = calls[c]
  BY <1>5, <1>7 DEF CallsOn
<1> HIDE DEF h
<1>14. CASE ~g.isolated
  <2>1. Serves(ds, w, h, thread[w], Tail(outbox[w]), engine[w])
    <3> HIDE DEF ds, o
    <3>1. /\ outbox[w] \in Seq(AnswerRecords) /\ outbox[w] # <<>> /\ a = Head(outbox[w])
          /\ a.answer \in {"ok", "cancelled", "error"} /\ a.call \in ToSet(g.pending)
      BY <1>1, <1>2
    <3>2. /\ h.answered = TRUE /\ ToSet(h.pending) = ToSet(g.pending) \ {a.call}
          /\ \A i, j \in DOMAIN h.pending : i < j => h.pending[i] < h.pending[j]
      BY <1>8, <1>12
    <3> QED
      BY ONLY <1>4, <1>7, <3>1, <3>2, KnownServes, ZenonT(30) DEF x
  <2>2. WorkerInv(ds, w, h, thread[w], o, engine[w])
    BY <1>9, <1>12, <1>14, <2>1 DEF WorkerInv
  <2>3. thread' = [thread EXCEPT ![w] = thread[w]] /\ engine' = [engine EXCEPT ![w] = engine[w]]
    BY <1>11, <1>14, PageIsNoWorker DEF Inv, TypeOK
  <2> HIDE DEF o, ds
  <2>4. HostStep(w, h, thread[w], o, engine[w], ds)
    BY <1>1, <1>3, <1>6, <1>7, <1>9, <1>10, <1>11, <1>12, <1>13, <1>14, <2>2, <2>3 DEF HostStep, g
  <2> QED
    BY <2>4, HostChange
<1>15. CASE g.isolated
  <2> DEFINE t == [state |-> "gone", inbox |-> <<>>]
  <2>1. IsEngine(NewEngine) /\ t \in ThreadRecords /\ t.state # "up"
    BY NewEngineFacts
  <2>2. CallsOn(calls, w) = {x}
    BY <1>3, <1>5, <1>15, ServingFacts, SMTT(30) DEF CallInv, CallsOn, g
  <2>3. q = <<>>
    <3>1. ToSet(g.pending) \subseteq {x}
      BY <1>4, <2>2 DEF Serves
    <3>2. ToSet(q) = {}
      BY <1>8, <3>1
    <3> QED
      BY <1>8, <3>2, NoElements
  <2>4. CallsOn(ds, w) = {x}
    <3> HIDE DEF ds
    <3>1. Settles(calls, ds)
      BY <1>7
    <3> QED
      BY ONLY <2>2, <3>1, SettledCalls
  <2>5. ds[x].outcome # "pending" /\ ds[x].sound
    BY <1>4, <1>6, <1>7 DEF Serves, TrapsFirst
  <2> HIDE DEF t, o, ds
  <2>6. Idle(ds, w, h, t, o, NewEngine)
    BY <1>9, <1>12, <1>15, <2>1, <2>3, <2>4, <2>5 DEF Idle
  <2>7. WorkerInv(ds, w, h, t, o, NewEngine)
    BY <1>9, <1>12, <1>15, <2>6 DEF WorkerInv
  <2>8. thread' = [thread EXCEPT ![w] = t] /\ engine' = [engine EXCEPT ![w] = NewEngine]
    BY <1>11, <1>15 DEF t
  <2>9. HostStep(w, h, t, o, NewEngine, ds)
    BY <1>1, <1>3, <1>6, <1>7, <1>9, <1>10, <1>11, <1>12, <1>13, <1>15, <2>1, <2>7, <2>8 DEF HostStep, g
  <2> QED
    BY <2>9, HostChange
<1> QED
  BY <1>14, <1>15

\* worker.onmessage.
LEMMA ReceiveAnswerInv ==
  ASSUME Inv, NEW w \in Workers, ReceiveAnswer(w)
  PROVE  Inv'
<1> DEFINE a == Head(outbox[w])
<1>1. /\ outbox[w] # <<>> /\ outbox' = [outbox EXCEPT ![w] = Tail(@)] /\ UNCHANGED active
      /\ a.answer \in {"ok", "cancelled", "error"}
  BY DEF ReceiveAnswer
<1>2. CASE /\ a.call \notin ToSet(host[w].pending)
           /\ host' = [host EXCEPT ![w].answered = TRUE]
           /\ UNCHANGED <<calls, thread, engine>>
  BY <1>1, <1>2, ReceiveUnknown
<1>3. CASE /\ \E k \in DOMAIN host[w].pending :
                /\ host[w].pending[k] = a.call
                /\ host' = [host EXCEPT ![w].answered = TRUE, ![w].state = Finished(w),
                                        ![w].pending = RemoveAt(@, k)]
           /\ calls' = Settle([calls EXCEPT ![a.call].sound = a.sound], {a.call}, a.answer)
           /\ thread' = IF host[w].isolated
                        THEN [thread EXCEPT ![w] = [state |-> "gone", inbox |-> <<>>]] ELSE thread
           /\ engine' = IF host[w].isolated THEN [engine EXCEPT ![w] = NewEngine] ELSE engine
  <2>1. PICK k \in DOMAIN host[w].pending :
                /\ host[w].pending[k] = a.call
                /\ host' = [host EXCEPT ![w].answered = TRUE, ![w].state = Finished(w),
                                        ![w].pending = RemoveAt(@, k)]
    BY <1>3
  <2>2. calls' = Answered(calls, a, a.answer)
    BY <1>3 DEF Answered, WithSound
  <2>3. a = Head(outbox[w])
    OBVIOUS
  <2> HIDE DEF a
  <2> QED
    BY <1>1, <1>3, <2>1, <2>2, <2>3, ReceiveKnown
<1> QED
  BY <1>2, <1>3 DEF ReceiveAnswer

\* The page's engine gets the calls p, among the calls S that come to the page;
\* what happened to the calls that it had does not matter, unless they settled.
LEMMA PageTakes ==
  ASSUME NEW cs, NEW ds, NEW hs, NEW gs, NEW e, NEW f, NEW S, NEW p \in Seq(Nat),
         e.waiting \in Seq(Nat), PageInv(cs, hs, e), Grows(cs, ds),
         S \subseteq DOMAIN ds, S \cap CallsOnPage(cs, hs) = {},
         CallsOnPage(ds, gs) = CallsOnPage(cs, hs) \cup S,
         \A c \in CallsOnPage(cs, hs) : ds[c].outcome = cs[c].outcome,
         ToSet(p) \subseteq S, \A c \in S : ds[c].outcome = "pending" => c \in ToSet(p),
         \A c \in S : ds[c].op = "edit" => ds[c].outcome # "ok",
         \A x \in CallsOnPage(cs, hs), y \in ToSet(p) : Before(ds, x, y),
         \A k, l \in DOMAIN p : k < l => Before(ds, p[k], p[l]),
         f.waiting = e.waiting \o p, f.running = e.running, f.finished = e.finished,
         f.table = e.table
  PROVE  PageInv(ds, gs, f)
<1> DEFINE M == CallsOnPage(cs, hs)
           z == <<>>
           v == e.waiting
<1>1. Orderly(ds, e, z)
  BY OrderlyFrame DEF PageInv
<1>2. Past(e) \cup Coming(e, z) \subseteq M
  BY DEF PageInv
<1>3. /\ ToSet(f.waiting) = ToSet(v) \cup ToSet(p)
      /\ Len(v) \in Nat /\ Len(p) \in Nat /\ DOMAIN v = 1..Len(v) /\ DOMAIN p = 1..Len(p)
      /\ DOMAIN f.waiting = 1..(Len(v) + Len(p))
      /\ \A k \in 1..(Len(v) + Len(p)) :
           \/ k \in 1..Len(v) /\ f.waiting[k] = v[k]
           \/ k - Len(v) \in 1..Len(p) /\ f.waiting[k] = p[k - Len(v)]
  BY ConcatFacts
<1>4. Requested(z) = {} /\ OkCalls(z) = {}
  BY DEF Requested, OkCalls
<1>5. /\ Past(f) = Past(e) /\ Coming(f, z) = Coming(e, z) \cup ToSet(p)
      /\ Carrying(f, z) = Carrying(e, z) \cup ToSet(p)
  BY <1>3 DEF Past, Coming, Carrying
<1>6. M \subseteq DOMAIN cs /\ M \subseteq DOMAIN ds
  BY DEF CallsOnPage, Grows
<1> HIDE DEF M
<1>7. \A k, l \in DOMAIN f.waiting : k < l => Before(ds, f.waiting[k], f.waiting[l])
  <2> SUFFICES ASSUME NEW k \in DOMAIN f.waiting, NEW l \in DOMAIN f.waiting, k < l
               PROVE  Before(ds, f.waiting[k], f.waiting[l])
    OBVIOUS
  <2> DEFINE m == Len(v)
             n == Len(p)
             u == f.waiting
  <2>0. /\ m \in Nat /\ n \in Nat /\ k \in 1..(m + n) /\ l \in 1..(m + n) /\ k < l
        /\ \A i \in 1..(m + n) : (i \in 1..m /\ u[i] = v[i]) \/ (i - m \in 1..n /\ u[i] = p[i - m])
    BY <1>3
  <2> HIDE DEF u, m, n
  <2>1. CASE k \in 1..Len(v) /\ l \in 1..Len(v)
    <3>1. f.waiting[k] = v[k] /\ f.waiting[l] = v[l]
      BY <1>3, <2>1
    <3> QED
      BY <1>1, <1>3, <2>1, <3>1 DEF Orderly
  <2>2. CASE k \in 1..Len(v) /\ l \notin 1..Len(v)
    <3>0. k \in 1..m /\ l \notin 1..m
      BY <2>2 DEF m
    <3>1. u[k] = v[k] /\ l - m \in 1..n /\ u[l] = p[l - m]
      BY ONLY <2>0, <3>0
    <3>2. f.waiting[k] \in ToSet(v) /\ f.waiting[l] \in ToSet(p)
      BY <1>3, <2>2, <3>1 DEF ToSet, u, m, n
    <3>3. f.waiting[k] \in M
      BY <1>2, <3>2 DEF Coming
    <3> QED
      BY <3>2, <3>3 DEF M
  <2>3. CASE k \notin 1..Len(v)
    <3>0. k \notin 1..m
      BY <2>3 DEF m
    <3>1. /\ k - m \in 1..n /\ u[k] = p[k - m]
          /\ l - m \in 1..n /\ u[l] = p[l - m]
          /\ k - m < l - m
      BY ONLY <2>0, <3>0, SMTT(30)
    <3>2. 1..n = DOMAIN p
      BY <1>3 DEF n
    <3> QED
      BY <3>1, <3>2 DEF u
  <2> QED
    BY <2>1, <2>2, <2>3
<1>8. Orderly(ds, f, z)
  <2>1. Past(f) \cup Coming(f, z) \subseteq DOMAIN ds
    BY <1>2, <1>5, <1>6
  <2>2. \A x \in Past(f), y \in Coming(f, z) : Before(ds, x, y)
    <3>1. \A x \in Past(e), y \in Coming(e, z) : Before(ds, x, y)
      BY <1>1 DEF Orderly
    <3>2. \A x \in Past(e), y \in ToSet(p) : Before(ds, x, y)
      BY <1>2 DEF M
    <3> QED
      BY <1>5, <3>1, <3>2
  <2> QED
    BY <1>1, <1>4, <1>7, <2>1, <2>2 DEF Orderly
<1>9. Past(f) \cup Coming(f, z) \subseteq CallsOnPage(ds, gs)
  BY <1>2, <1>5 DEF M
<1>10. Kept(ds, CallsOnPage(ds, gs), f, z)
  <2> SUFFICES ASSUME NEW c \in M \cup S, ds[c].op = "edit", ~IsFreed(ds, ds[c].handle),
                      ds[c].outcome = "ok" \/ c \in OkCalls(f.finished)
               PROVE  Logged(f, ds[c].handle, c)
    BY <1>4 DEF Kept, M
  <2>1. OkCalls(e.finished) \subseteq M
    <3>1. OkCalls(e.finished) \subseteq Past(e)
      BY DEF OkCalls, CallsOf, Past
    <3> QED
      BY <1>2, <3>1
  <2>2. c \in M
    BY <2>1 DEF M
  <2>3. cs[c].op = "edit" /\ ds[c].handle = cs[c].handle /\ ~IsFreed(cs, cs[c].handle)
    BY <1>6, <2>2 DEF Grows, IsFreed
  <2>4. cs[c].outcome = "ok" \/ c \in OkCalls(e.finished)
    BY <2>2 DEF M
  <2>5. Logged(e, cs[c].handle, c)
    BY <2>2, <2>3, <2>4 DEF PageInv, Kept, M
  <2> QED
    BY <2>3, <2>5 DEF Logged
<1>11. \A c \in CallsOnPage(ds, gs) : ds[c].outcome = "pending" => c \in Carrying(f, z)
  BY <1>5 DEF PageInv, M
<1> QED
  BY <1>8, <1>9, <1>10, <1>11 DEF PageInv

------------------------------------------------------------------------------
(* Failures. *)

\* The worker of a host is terminated and its pending calls are rejected.
LEMMA DropInv ==
  ASSUME Inv, NEW w \in Workers, host[w].state = "serving",
         NEW h \in HostRecords, h.state = "dropped", h.pending = <<>>, h.isolated = host[w].isolated,
         NEW o \in Seq(AnswerRecords), NEW result \in {"error", "aborted"},
         calls' = Settle(calls, ToSet(host[w].pending), result),
         active' = Retired(w, None), host' = [host EXCEPT ![w] = h],
         thread' = [thread EXCEPT ![w] = [state |-> "gone", inbox |-> <<>>]],
         outbox' = [outbox EXCEPT ![w] = o], engine' = [engine EXCEPT ![w] = NewEngine]
  PROVE  Inv'
<1> DEFINE S == ToSet(host[w].pending)
           ds == calls'
           t == [state |-> "gone", inbox |-> <<>>]
<1>1. calls \in Seq(CallRecords) /\ ds = Settle(calls, S, result)
  BY DEF Inv, TypeOK
<1>2. /\ Serves(calls, w, host[w], thread[w], outbox[w], engine[w])
      /\ CallsOn(calls, w) \subseteq DOMAIN calls
  BY ServingFacts
<1>3. S = {c \in CallsOn(calls, w) : calls[c].outcome = "pending"}
  BY <1>2 DEF Serves
<1>4. IsEngine(NewEngine) /\ t \in ThreadRecords /\ t.state # "up"
  BY NewEngineFacts
<1>5. active' \in {active, None} /\ calls' = ds /\ thread' = [thread EXCEPT ![w] = t]
  BY DEF Retired
<1> HIDE DEF S, ds, t
<1>6. /\ Settles(calls, ds)
      /\ \A c \in DOMAIN calls :
           /\ ds[c].sound = calls[c].sound
           /\ c \notin S => ds[c] = calls[c]
           /\ c \in S => ds[c].outcome # "pending"
           /\ ds[c].outcome = "ok" => calls[c].outcome = "ok"
  <2>1. result \in {"ok", "error", "aborted", "cancelled"} /\ result # "ok"
    OBVIOUS
  <2> QED
    BY <1>1, <2>1, SettleFacts
<1>7. CallsOn(ds, w) = CallsOn(calls, w)
  BY <1>6, SettledCalls
<1>8. ASSUME NEW c \in CallsOn(calls, w)
      PROVE  ds[c].outcome # "pending" /\ (ds[c].outcome = "ok" => ds[c].sound)
  <2>1. c \in DOMAIN calls
    BY <1>2
  <2>2. ds[c].outcome # "pending"
    BY <1>3, <1>6, <2>1
  <2>3. calls[c].outcome = "ok" => calls[c].sound
    BY <1>2 DEF Serves
  <2> QED
    BY <1>6, <2>1, <2>2, <2>3
<1>9. Idle(ds, w, h, t, o, NewEngine)
  BY <1>4, <1>7, <1>8 DEF Idle
<1>10. WorkerInv(ds, w, h, t, o, NewEngine)
  BY <1>9 DEF WorkerInv
<1>11. \A c \in DOMAIN calls : calls[c].host # w => ds[c] = calls[c]
  BY <1>3, <1>6 DEF CallsOn
<1>12. HostStep(w, h, t, o, NewEngine, ds)
  BY <1>4, <1>5, <1>6, <1>10, <1>11 DEF HostStep
<1> QED
  BY <1>12, HostChange

\* Calls come to a direct host.
LEMMA DirectFields ==
  ASSUME NEW e, IsEngine(e), NEW cs \in Seq(Nat), NEW d, d = Direct(e, cs)
  PROVE  /\ IsEngine(d)
         /\ d.waiting = e.waiting \o (IF e.load = "unsupported" THEN <<>> ELSE cs)
         /\ d.running = e.running /\ d.finished = e.finished /\ d.table = e.table
<1>1. CASE e.load = "unsupported"
  <2>1. d = e /\ e.waiting = <<>>
    BY <1>1 DEF Direct, IsEngine
  <2>2. e.waiting \o <<>> = e.waiting
    BY <2>1, ConcatEmptySeq
  <2> QED
    BY <1>1, <2>1, <2>2
<1>2. CASE e.load # "unsupported"
  <2>1. e.waiting \o cs \in Seq(Nat)
    <3>1. e.waiting \in Seq(Nat)
      BY DEF IsEngine
    <3> QED
      BY <3>1, ConcatProperties
  <2>2. d = Await(e, cs)
    BY <1>2 DEF Direct
  <2> QED
    BY <1>2, <2>1, <2>2, AwaitFields, SMTT(30)
<1> QED
  BY <1>1, <1>2

\* A call's host, and the page's calls when a host comes to the page.
LEMMA PageGains ==
  ASSUME Inv, NEW w \in Workers, host[w].state = "serving", NEW ds, Settles(calls, ds),
         NEW gs, gs[w].state = "forwarding", \A v \in Workers : v # w => gs[v] = host[v]
  PROVE  /\ CallsOnPage(ds, gs) = CallsOnPage(calls, host) \cup CallsOn(calls, w)
         /\ CallsOn(calls, w) \cap CallsOnPage(calls, host) = {}
<1>1. \A c \in DOMAIN calls : calls[c].host \in Engines /\ ds[c].host = calls[c].host
  <2>1. calls \in Seq(CallRecords)
    BY DEF Inv, TypeOK
  <2>2. \A c \in DOMAIN calls : calls[c] \in CallRecords
    BY <2>1, LenProperties, ElementOfSeq
  <2> QED
    BY <2>2 DEF CallRecords, Settles, Grows
<1>2. \A i \in Engines : OnPage(gs, i) <=> OnPage(host, i) \/ i = w
  BY DEF OnPage
<1>3. ~OnPage(host, w)
  BY PageIsNoWorker DEF OnPage
<1>4. DOMAIN ds = DOMAIN calls
  BY DEF Settles
<1> QED
  BY <1>1, <1>2, <1>3, <1>4 DEF CallsOnPage, CallsOn

\* A worker fails that has never answered: no call of its has an effect that
\* the page's engine would have to know of.
LEMMA ForwardInv ==
  ASSUME Inv, NEW w \in Workers, host[w].state = "serving", ~host[w].answered,
         FailUnanswered(w), NEW o \in Seq(AnswerRecords),
         thread' = [thread EXCEPT ![w] = [state |-> "gone", inbox |-> <<>>]],
         outbox' = [outbox EXCEPT ![w] = o]
  PROVE  Inv'
<1> DEFINE g == host[w]
           p == g.pending
           e == engine[Page]
           h == [g EXCEPT !.state = "forwarding", !.pending = <<>>]
           f == Direct(e, p)
           t == [state |-> "gone", inbox |-> <<>>]
           S == CallsOn(calls, w)
           P == ToSet(p)
           ds == calls'
           q == IF e.load = "unsupported" THEN <<>> ELSE p
<1>1. Page \notin Workers /\ Page \in Engines /\ Workers \subseteq Engines
  BY PageIsNoWorker
<1>2. /\ Serves(calls, w, g, thread[w], outbox[w], engine[w])
      /\ g \in HostRecords /\ S \subseteq DOMAIN calls
      /\ \A c \in DOMAIN calls : c \in Nat /\ CallInv(calls, host, c)
  BY ServingFacts
<1>3. /\ calls \in Seq(CallRecords) /\ IsEngine(e) /\ PageInv(calls, host, e)
  BY <1>1 DEF Inv, TypeOK
<1>4. /\ p \in Seq(Nat) /\ P = {c \in S : calls[c].outcome = "pending"}
      /\ \A k, l \in DOMAIN p : k < l => p[k] < p[l]
      /\ \A k \in DOMAIN p : p[k] \in P
      /\ \A c \in S : calls[c].outcome # "ok"
  BY <1>2 DEF HostRecords, Serves, ToSet
<1>5. \A c \in S : calls[c].op # "edit"
  <2> SUFFICES ASSUME NEW c \in S, calls[c].op = "edit" PROVE FALSE
    OBVIOUS
  <2>1. c \in DOMAIN calls /\ calls[c].host = w
    BY DEF CallsOn
  <2>2. /\ calls[c].handle \in DOMAIN calls /\ calls[calls[c].handle].outcome = "ok"
        /\ calls[calls[c].handle].host = w
    BY <1>2, <2>1 DEF CallInv
  <2>3. calls[c].handle \in S
    BY <2>2 DEF CallsOn
  <2> QED
    BY <1>4, <2>2, <2>3
<1>6. /\ host' = [host EXCEPT ![w] = h]
      /\ engine' = [engine EXCEPT ![w] = NewEngine, ![Page] = f]
      /\ active' = Retired(w, Page)
      /\ ds = IF e.load = "unsupported" THEN Settle(calls, P, "error") ELSE calls
  BY <1>1 DEF FailUnanswered, Inv, TypeOK
<1>7. h \in HostRecords /\ h.state = "forwarding" /\ h.pending = <<>> /\ h.isolated = g.isolated
  <2>1. <<>> \in Seq(Nat)
    BY EmptySeq
  <2> HIDE DEF g
  <2> QED
    BY <1>2, <2>1 DEF HostRecords
<1> HIDE DEF h
<1>8. /\ IsEngine(f) /\ f.waiting = e.waiting \o q
      /\ f.running = e.running /\ f.finished = e.finished /\ f.table = e.table
  <2> HIDE DEF p, e, f
  <2>1. f = Direct(e, p)
    BY DEF f
  <2> QED
    BY <1>3, <1>4, <2>1, DirectFields
<1>9. /\ Settles(calls, ds)
      /\ \A c \in DOMAIN calls : c \notin P => ds[c] = calls[c]
      /\ \A c \in P : ds[c].outcome = "pending" => e.load # "unsupported"
      /\ \A c \in DOMAIN calls : ds[c].outcome = "ok" => calls[c].outcome = "ok"
  <2> HIDE DEF e, P, ds
  <2>1. CASE e.load = "unsupported"
    <3>1. ds = Settle(calls, P, "error") /\ "error" \in {"ok", "error", "aborted", "cancelled"}
      BY <1>6, <2>1
    <3>2. P \subseteq DOMAIN calls
      BY <1>2, <1>4
    <3> QED
      BY <1>3, <3>1, <3>2, SettleFacts
  <2>2. CASE e.load # "unsupported"
    BY <1>3, <1>6, <2>2 DEF Settles, Grows
  <2> QED
    BY <2>1, <2>2
<1>10. /\ host' \in [Workers -> HostRecords] /\ host'[w] = h
       /\ \A v \in Workers : v # w => host'[v] = host[v]
  BY <1>6, <1>7 DEF Inv, TypeOK
<1>11. /\ engine' = [j \in Engines |-> engine'[j]]
       /\ engine'[w] = NewEngine /\ engine'[Page] = f
       /\ \A j \in Workers : j # w => engine'[j] = engine[j]
  BY <1>1, <1>6 DEF Inv, TypeOK
<1>12. IsEngine(NewEngine) /\ t \in ThreadRecords /\ t.state # "up"
  BY NewEngineFacts
<1> HIDE DEF f, t, ds, P, q
<1>13. /\ thread' \in [Workers -> ThreadRecords] /\ thread'[w] = t
       /\ outbox' \in [Workers -> Seq(AnswerRecords)] /\ outbox'[w] = o
       /\ \A v \in Workers : v # w => thread'[v] = thread[v] /\ outbox'[v] = outbox[v]
  BY <1>12 DEF Inv, TypeOK, t
<1>14. TypeOK'
  <2>1. active' \in Engines \cup {None}
    BY <1>1, <1>6 DEF Retired, Inv, TypeOK
  <2>2. calls' \in Seq(CallRecords)
    BY <1>9 DEF Settles, ds
  <2>3. \A i \in Engines : IsEngine(engine'[i])
    BY <1>8, <1>11, <1>12 DEF Engines, Inv, TypeOK
  <2> QED
    BY <1>10, <1>11, <1>13, <2>1, <2>2, <2>3 DEF TypeOK
<1>15. ActiveInv(active', host')
  BY <1>1, <1>6, <1>10 DEF Retired, ActiveInv, Inv
<1>16. \A c \in DOMAIN calls' : CallInv(calls', host', c)
  <2>1. \A v \in Workers : host'[v].isolated = host[v].isolated
    BY <1>7, <1>10
  <2> QED
    BY <1>2, <1>9, <2>1, CallsFrame DEF Settles, ds
<1>17. /\ CallsOnPage(ds, host') = CallsOnPage(calls, host) \cup S
       /\ S \cap CallsOnPage(calls, host) = {}
  BY <1>7, <1>9, <1>10, PageGains
<1>18. /\ Grows(calls, ds) /\ S \subseteq DOMAIN ds
       /\ \A c \in DOMAIN calls : ds[c].op = calls[c].op
  BY <1>2, <1>9 DEF Settles, Grows
<1>19. PageInv(ds, host', f)
  <2> HIDE DEF p, e, S
  <2>1. \A c \in CallsOnPage(calls, host) : ds[c].outcome = calls[c].outcome
    BY <1>4, <1>9, <1>17 DEF CallsOnPage
  <2>2. q \in Seq(Nat) /\ ToSet(q) \subseteq S /\ ToSet(q) \subseteq P
        /\ \A c \in S : ds[c].outcome = "pending" => c \in ToSet(q)
    <3>1. CASE e.load = "unsupported"
      <4>1. q = <<>> /\ <<>> \in Seq(Nat) /\ ToSet(<<>>) = {}
        BY <3>1, EmptySeq DEF q, ToSet
      <4>2. \A c \in S : ds[c].outcome # "pending"
        BY <1>2, <1>4, <1>9, <3>1
      <4> QED
        BY <4>1, <4>2
    <3>2. CASE e.load # "unsupported"
      <4>1. q = p /\ ToSet(q) = P
        BY <3>2 DEF q, P
      <4>2. \A c \in S : ds[c].outcome = "pending" => calls[c].outcome = "pending"
        BY <1>2, <1>4, <1>9
      <4> QED
        BY <1>4, <4>1, <4>2
    <3> QED
      BY <3>1, <3>2
  <2>3. \A c \in S : ds[c].op # "edit"
    BY <1>2, <1>5, <1>18
  <2>4. \A x \in CallsOnPage(calls, host), y \in ToSet(q) : Before(ds, x, y)
    BY <1>17, <2>2, <2>3 DEF Before
  <2>5. \A k, l \in DOMAIN q : k < l => Before(ds, q[k], q[l])
    <3>1. CASE e.load = "unsupported"
      <4>1. DOMAIN q = {}
        BY <3>1 DEF q
      <4> QED
        BY <4>1
    <3>2. CASE e.load # "unsupported"
      <4>1. q = p
        BY <3>2 DEF q
      <4> SUFFICES ASSUME NEW k \in DOMAIN p, NEW l \in DOMAIN p, k < l PROVE Before(ds, p[k], p[l])
        BY <4>1
      <4>2. p[k] < p[l] /\ p[k] \in Nat /\ p[l] \in Nat /\ p[l] \in S
        BY <1>2, <1>4
      <4>3. p[k] # p[l]
        BY <4>2
      <4> QED
        BY <2>3, <4>2, <4>3 DEF Before
    <3> QED
      BY <3>1, <3>2
  <2>6. e.waiting \in Seq(Nat)
    BY <1>3 DEF IsEngine
  <2>7. \A c \in S : ds[c].op = "edit" => ds[c].outcome # "ok"
    BY <2>3
  <2> QED
    BY <1>3, <1>8, <1>17, <1>18, <2>1, <2>2, <2>4, <2>5, <2>6, <2>7, PageTakes, ZenonT(30)
<1>20. WorkerInv(ds, w, h, t, o, NewEngine)
  <2>1. Idle(ds, w, h, t, o, NewEngine)
    BY <1>7, <1>12 DEF Idle
  <2> QED
    BY <1>7, <2>1 DEF WorkerInv
<1>21. ASSUME NEW v \in Workers
       PROVE  \/ WorkerInv(calls', v, host'[v], thread'[v], outbox'[v], engine'[v])
              \/ /\ host'[v] = host[v] /\ thread'[v] = thread[v]
                 /\ outbox'[v] = outbox[v] /\ engine'[v] = engine[v]
                 /\ CallsOn(calls', v) = CallsOn(calls, v)
                 /\ \A c \in CallsOn(calls, v) : calls'[c] = calls[c]
  <2>1. CASE v = w
    BY <1>10, <1>11, <1>13, <1>20, <2>1 DEF ds
  <2>2. CASE v # w
    <3>1. CallsOn(ds, v) = CallsOn(calls, v)
      BY <1>9, SettledCalls
    <3>2. \A c \in CallsOn(calls, v) : ds[c] = calls[c]
      BY <1>4, <1>9, <2>2 DEF CallsOn
    <3> QED
      BY <1>10, <1>11, <1>13, <2>2, <3>1, <3>2 DEF ds
  <2> QED
    BY <2>1, <2>2
<1>22. Grows(calls, calls') /\ PageInv(calls', host', engine'[Page])
  BY <1>11, <1>18, <1>19 DEF ds
<1> QED
  BY <1>14, <1>15, <1>16, <1>21, <1>22, SystemChange

\* A worker fails, or an event or a fatal answer of an earlier failure arrives.
LEMMA FailInv ==
  ASSUME Inv, NEW w \in Workers, outbox[w] # <<>>, outbox' = [outbox EXCEPT ![w] = Tail(@)],
         Fail(w, TRUE) \/ Fail(w, host[w].answered)
  PROVE  Inv'
<1> DEFINE o == Tail(outbox[w])
<1>1. /\ host[w] \in HostRecords /\ outbox[w] \in Seq(AnswerRecords)
      /\ host \in [Workers -> HostRecords]
  BY DEF Inv, TypeOK
<1>2. o \in Seq(AnswerRecords) /\ outbox' = [outbox EXCEPT ![w] = o]
  BY <1>1, TailAnswer
<1>3. CASE host[w].state # "serving"
  <2>1. UNCHANGED <<active, calls, thread, engine>>
    BY <1>3 DEF Fail
  <2>2. CASE host' = [host EXCEPT ![w].answered = TRUE]
    <3> DEFINE h == [host[w] EXCEPT !.answered = TRUE]
    <3>1. /\ h \in HostRecords /\ h.state = host[w].state /\ h.isolated = host[w].isolated
          /\ h.pending = host[w].pending
      BY <1>1 DEF HostRecords
    <3>2. host' = [host EXCEPT ![w] = h]
      BY <1>1, <2>2
    <3> HIDE DEF h
    <3> QED
      BY <1>3, <2>1, <3>1, <3>2, LateMessage
  <2>3. CASE host' = [host EXCEPT ![w].answered = host[w].answered]
    <3>1. host' = [host EXCEPT ![w] = host[w]]
      BY <1>1, <2>3 DEF HostRecords
    <3> QED
      BY <1>1, <1>3, <2>1, <3>1, LateMessage
  <2> QED
    BY <1>3, <2>2, <2>3 DEF Fail
<1>4. CASE host[w].state = "serving"
  <2>1. thread' = [thread EXCEPT ![w] = [state |-> "gone", inbox |-> <<>>]]
    BY <1>4 DEF Fail
  <2>2. FailAnswered(w) \/ (~host[w].answered /\ FailUnanswered(w))
    BY <1>4 DEF Fail
  <2>3. CASE FailAnswered(w)
    <3> DEFINE h == [host[w] EXCEPT !.state = "dropped", !.answered = TRUE, !.pending = <<>>]
    <3>1. /\ h \in HostRecords /\ h.state = "dropped" /\ h.isolated = host[w].isolated
          /\ h.pending = <<>>
      <4>1. <<>> \in Seq(Nat)
        BY EmptySeq
      <4> QED
        BY <1>1, <4>1 DEF HostRecords
    <3>2. /\ host' = [host EXCEPT ![w] = h]
          /\ active' = Retired(w, None) /\ engine' = [engine EXCEPT ![w] = NewEngine]
          /\ calls' = Settle(calls, ToSet(host[w].pending), "error")
      BY <1>1, <2>3 DEF FailAnswered
    <3>3. "error" \in {"error", "aborted"}
      OBVIOUS
    <3> HIDE DEF h, o
    <3> QED
      BY <1>2, <1>4, <2>1, <3>1, <3>2, <3>3, DropInv
  <2>4. CASE ~host[w].answered /\ FailUnanswered(w)
    <3> HIDE DEF o
    <3> QED
      BY <1>2, <1>4, <2>1, <2>4, ForwardInv
  <2> QED
    BY <2>2, <2>3, <2>4
<1> QED
  BY <1>3, <1>4

------------------------------------------------------------------------------
(* A caller gives up. *)

Marked(cs, c) == [cs EXCEPT ![c].aborted = TRUE]

\* What is recorded of it.
LEMMA MarkFacts ==
  ASSUME NEW cs \in Seq(CallRecords), NEW c \in DOMAIN cs, NEW ds, ds = Marked(cs, c)
  PROVE  /\ Settles(cs, ds)
         /\ \A d \in DOMAIN cs : d # c => ds[d] = cs[d]
         /\ ds[c].outcome = cs[c].outcome /\ ds[c].sound = cs[c].sound
<1> DEFINE n == Len(cs)
           r == cs[c]
           x == [r EXCEPT !.aborted = TRUE]
<1>1. n \in Nat /\ DOMAIN cs = 1..n /\ \A d \in 1..n : cs[d] \in CallRecords
  BY LenProperties, ElementOfSeq
<1>2. r \in CallRecords
  BY <1>1
<1>3. ds = [cs EXCEPT ![c] = x]
  BY DEF Marked
<1> HIDE DEF r
<1>4. /\ x \in CallRecords
      /\ x.op = r.op /\ x.handle = r.handle /\ x.host = r.host
      /\ x.outcome = r.outcome /\ x.sound = r.sound
  BY <1>2 DEF CallRecords
<1> HIDE DEF x, n
<1>5. cs \in [1..n -> CallRecords]
  BY <1>1 DEF n
<1>6. /\ ds \in [1..n -> CallRecords] /\ DOMAIN ds = DOMAIN cs
      /\ ds[c] = x /\ \A d \in DOMAIN cs : d # c => ds[d] = cs[d]
  BY <1>1, <1>3, <1>4, <1>5
<1>7. ds \in Seq(CallRecords)
  BY <1>1, <1>6, IsSequence
<1>8. Grows(cs, ds)
  <2> SUFFICES ASSUME NEW d \in DOMAIN cs
               PROVE  ds[d].op = cs[d].op /\ ds[d].handle = cs[d].handle /\ ds[d].host = cs[d].host
    BY <1>6 DEF Grows
  <2>1. CASE d = c
    BY <1>4, <1>6, <2>1 DEF r
  <2>2. CASE d # c
    BY <1>6, <2>2
  <2> QED
    BY <2>1, <2>2
<1>9. ds[c].outcome = cs[c].outcome /\ ds[c].sound = cs[c].sound
  BY <1>4, <1>6 DEF r
<1>10. \A d \in DOMAIN cs : ds[d].outcome = cs[d].outcome
  BY <1>6, <1>9
<1> QED
  BY <1>6, <1>7, <1>8, <1>9, <1>10 DEF Settles

WithStop(q, c) == Append(q, Stop(c))

\* A stop message is posted after the requests.
LEMMA StopQueued ==
  ASSUME NEW cs, NEW e, NEW q, q \in Seq(Messages), NEW c, c \in Nat, Orderly(cs, e, q),
         NEW r, r = WithStop(q, c)
  PROVE  /\ Orderly(cs, e, r) /\ r \in Seq(Messages) /\ Coming(e, r) = Coming(e, q)
         /\ \E k \in DOMAIN r : r[k] = Stop(c)
         /\ \A k \in DOMAIN q : \E l \in DOMAIN r : r[l] = q[k]
<1> DEFINE m == Stop(c)
           n == Len(q)
<1>1. m \in Messages /\ m.type = "stop"
  BY DEF Stop, Messages
<1> HIDE DEF m
<1>2. /\ r \in Seq(Messages)
      /\ Requested(r) = Requested(q) \cup (IF m.type = "request" THEN {m.call} ELSE {})
  BY <1>1, AppendMessage DEF m, WithStop
<1>3. /\ n \in Nat /\ DOMAIN q = 1..n /\ DOMAIN r = 1..(n + 1) /\ r[n + 1] = m
      /\ \A k \in 1..n : r[k] = q[k]
  BY <1>1, AppendFacts DEF m, WithStop
<1> HIDE DEF n
<1>4. Requested(r) = Requested(q)
  BY <1>1, <1>2
<1>5. Coming(e, r) = Coming(e, q)
  BY <1>4 DEF Coming
<1>6. \A k, l \in DOMAIN r : k < l /\ r[k].type = "request" /\ r[l].type = "request"
                              => Before(cs, r[k].call, r[l].call)
  <2> SUFFICES ASSUME NEW k \in DOMAIN r, NEW l \in DOMAIN r, k < l,
                      r[k].type = "request", r[l].type = "request"
               PROVE  Before(cs, r[k].call, r[l].call)
    OBVIOUS
  <2>1. k # n + 1 /\ l # n + 1
    BY <1>1, <1>3
  <2>2. k \in 1..n /\ l \in 1..n
    BY <1>3, <2>1
  <2> QED
    BY <1>3, <2>2 DEF Orderly
<1>7. Orderly(cs, e, r)
  BY <1>4, <1>5, <1>6 DEF Orderly
<1>8. n + 1 \in DOMAIN r /\ \A k \in 1..n : k \in DOMAIN r
  BY <1>3
<1>9. \A k \in DOMAIN q : \E l \in DOMAIN r : r[l] = q[k]
  BY <1>3, <1>8
<1> QED
  BY <1>2, <1>3, <1>5, <1>7, <1>8, <1>9 DEF m

\* A run in a worker is asked to stop.
LEMMA StopServed ==
  ASSUME NEW cs, NEW ds, NEW c \in Nat, Settles(cs, ds), \A d \in DOMAIN cs : d # c => ds[d] = cs[d],
         c \in DOMAIN cs, ds[c].outcome = cs[c].outcome, ds[c].sound = cs[c].sound,
         NEW w, NEW h, NEW t \in ThreadRecords, NEW o, NEW e, Serves(cs, w, h, t, o, e),
         NEW u, u.state = t.state, u.inbox = WithStop(t.inbox, c)
  PROVE  Serves(ds, w, h, u, o, e)
<1> DEFINE q == t.inbox
           r == u.inbox
<1>1. Orderly(cs, e, q) /\ q \in Seq(Messages)
  BY DEF Serves, ThreadRecords
<1>2. r = WithStop(q, c)
  OBVIOUS
<1> HIDE DEF q, r
<1>3. /\ Orderly(cs, e, r) /\ r \in Seq(Messages) /\ Coming(e, r) = Coming(e, q)
      /\ \E k \in DOMAIN r : r[k] = Stop(c)
      /\ \A k \in DOMAIN q : \E l \in DOMAIN r : r[l] = q[k]
  <2>1. q \in Seq(Messages) /\ c \in Nat /\ Orderly(cs, e, q) /\ r = WithStop(q, c)
    BY <1>1, <1>2
  <2> QED
    BY ONLY <2>1, StopQueued, SMTT(30)
<1>4. Grows(cs, ds) /\ DOMAIN ds = DOMAIN cs /\ CallsOn(ds, w) = CallsOn(cs, w)
  BY SettledCalls DEF Settles
<1>5. CallsOn(cs, w) \subseteq DOMAIN cs
  BY DEF CallsOn
<1>6. \A d \in DOMAIN cs : ds[d].outcome = cs[d].outcome
  OBVIOUS
<1>7. Orderly(ds, e, r)
  BY <1>3, <1>4, OrderlyFrame
<1>8. ASSUME t.state # "closed" PROVE Kept(ds, CallsOn(ds, w), e, o)
  <2> SUFFICES ASSUME NEW d \in CallsOn(cs, w), ds[d].op = "edit", ~IsFreed(ds, ds[d].handle),
                      ds[d].outcome = "ok" \/ d \in OkCalls(o) \cup OkCalls(e.finished)
               PROVE  Logged(e, ds[d].handle, d)
    BY <1>4 DEF Kept
  <2>1. cs[d].op = "edit" /\ ds[d].handle = cs[d].handle /\ ~IsFreed(cs, cs[d].handle)
    BY <1>4, <1>5 DEF Grows, IsFreed
  <2>2. cs[d].outcome = "ok" \/ d \in OkCalls(o) \cup OkCalls(e.finished)
    BY <1>5, <1>6
  <2>3. Kept(cs, CallsOn(cs, w), e, o)
    BY <1>8 DEF Serves
  <2> QED
    BY <2>1, <2>2, <2>3 DEF Kept
<1>9. ToSet(h.pending) = {d \in CallsOn(ds, w) : ds[d].outcome = "pending"}
  BY <1>4, <1>5, <1>6 DEF Serves
<1>10. Awaited(h.pending, u, o, e)
  <2>1. Carrying(e, r) = Carrying(e, q)
    BY <1>3 DEF Carrying
  <2> QED
    BY <2>1 DEF Serves, Awaited, q, r
<1>11. \A d \in CallsOn(ds, w) : ds[d].outcome = "ok" => h.answered /\ ds[d].sound
  <2> SUFFICES ASSUME NEW d \in CallsOn(cs, w), ds[d].outcome = "ok" PROVE h.answered /\ ds[d].sound
    BY <1>4
  <2>1. h.answered /\ cs[d].sound
    BY <1>5, <1>6 DEF Serves
  <2>2. CASE d = c
    BY <2>1, <2>2
  <2>3. CASE d # c
    BY <1>5, <2>1, <2>3
  <2> QED
    BY <2>2, <2>3, <2>1
<1>12. StopsArrive(ds, r, e)
  <2> SUFFICES ASSUME NEW d \in Coming(e, r) \cup e.running, ds[d].op = "run", ds[d].aborted,
                      d \notin e.stops
               PROVE  \E k \in DOMAIN r : r[k] = Stop(d)
    BY DEF StopsArrive
  <2>1. CASE d = c
    BY <1>3, <2>1
  <2>2. CASE d # c
    <3>1. d \in Coming(e, q) \cup e.running /\ d \in DOMAIN cs
      BY <1>3, <1>5 DEF Serves, Past, q
    <3>2. \E k \in DOMAIN q : q[k] = Stop(d)
      BY <2>2, <3>1 DEF Serves, StopsArrive, q
    <3> QED
      BY <1>3, <3>2
  <2> QED
    BY <2>1, <2>2
<1>13. /\ Past(e) \cup Coming(e, r) \subseteq CallsOn(ds, w)
       /\ OkCalls(o) \subseteq CallsOn(ds, w)
  BY <1>3, <1>4 DEF Serves, q
<1> QED
  BY <1>7, <1>8, <1>9, <1>10, <1>11, <1>12, <1>13 DEF Serves, r

\* A call that the page's engine serves is given up; the engine may be told.
LEMMA GivenUpOnPage ==
  ASSUME Inv, NEW c \in DOMAIN calls, OnPage(host, calls[c].host), NEW f, IsEngine(f),
         f.waiting = engine[Page].waiting, f.running = engine[Page].running,
         f.finished = engine[Page].finished, f.table = engine[Page].table,
         calls' = Marked(calls, c), engine' = [engine EXCEPT ![Page] = f],
         UNCHANGED <<active, host, thread, outbox>>
  PROVE  Inv'
<1> DEFINE ds == calls'
           e == engine[Page]
           p == <<>>
           N == {}
<1>1. Page \notin Workers /\ Page \in Engines /\ Workers \subseteq Engines
  BY PageIsNoWorker
<1>2. /\ calls \in Seq(CallRecords) /\ IsEngine(e) /\ PageInv(calls, host, e)
      /\ \A d \in DOMAIN calls : CallInv(calls, host, d)
  BY <1>1 DEF Inv, TypeOK
<1>3. ds = Marked(calls, c)
  OBVIOUS
<1> HIDE DEF ds
<1>4. /\ Settles(calls, ds)
      /\ \A d \in DOMAIN calls : d # c => ds[d] = calls[d]
      /\ ds[c].outcome = calls[c].outcome
  BY <1>2, <1>3, MarkFacts
<1>5. Grows(calls, ds) /\ DOMAIN ds = DOMAIN calls
  BY <1>4 DEF Settles
<1>6. /\ engine' = [j \in Engines |-> engine'[j]]
      /\ engine'[Page] = f
      /\ \A j \in Engines : j # Page => engine'[j] = engine[j]
  BY <1>1 DEF Inv, TypeOK
<1>7. TypeOK'
  BY <1>4, <1>6 DEF Inv, TypeOK, Settles, ds
<1>8. PageInv(ds, host, f)
  <2>1. e.waiting \in Seq(Nat) /\ p \in Seq(Nat)
    BY <1>2, EmptySeq DEF IsEngine
  <2>2. f.waiting = e.waiting \o p
    BY <2>1, ConcatEmptySeq
  <2>3. DOMAIN p = {} /\ ToSet(p) = N
    BY DEF ToSet
  <2>4. CallsOnPage(ds, host) = CallsOnPage(calls, host) \cup N
    BY <1>5 DEF CallsOnPage, Grows
  <2>5. \A d \in CallsOnPage(calls, host) : ds[d].outcome = calls[d].outcome
    BY <1>4 DEF CallsOnPage
  <2>6. /\ N \subseteq DOMAIN ds /\ N \cap CallsOnPage(calls, host) = {}
        /\ ToSet(p) \subseteq N /\ \A d \in N : ds[d].outcome = "pending" => d \in ToSet(p)
        /\ \A d \in N : ds[d].op = "edit" => ds[d].outcome # "ok"
        /\ \A x \in CallsOnPage(calls, host), y \in ToSet(p) : Before(ds, x, y)
        /\ \A k, l \in DOMAIN p : k < l => Before(ds, p[k], p[l])
    BY <2>3
  <2>7. f.running = e.running /\ f.finished = e.finished /\ f.table = e.table
    OBVIOUS
  <2> HIDE DEF p, N, e
  <2> QED
    BY <1>2, <1>5, <2>1, <2>2, <2>4, <2>5, <2>6, <2>7, PageTakes
<1>9. \A d \in DOMAIN calls' : CallInv(calls', host', d)
  BY <1>2, <1>4, CallsFrame DEF Settles, ds
<1>10. ASSUME NEW w \in Workers, host[w].state \notin {"forwarding", "direct"}
       PROVE  /\ CallsOn(calls', w) = CallsOn(calls, w)
              /\ \A d \in CallsOn(calls, w) : calls'[d] = calls[d]
  <2>1. CallsOn(ds, w) = CallsOn(calls, w)
    BY <1>4, SettledCalls
  <2>2. calls[c].host # w
    BY <1>1, <1>10 DEF OnPage
  <2> QED
    BY <1>4, <2>1, <2>2 DEF CallsOn, ds
<1>11. \A w \in Workers : engine'[w] = engine[w]
  BY <1>1, <1>6
<1>12. ActiveInv(active', host') /\ Grows(calls, calls') /\ PageInv(calls', host', engine'[Page])
  BY <1>5, <1>6, <1>8 DEF Inv, ds
<1> QED
  BY <1>7, <1>9, <1>10, <1>11, <1>12, SystemChange

\* An AbortSignal fires.
LEMMA AbortInv ==
  ASSUME Inv, NEW c \in DOMAIN calls, Abort(c)
  PROVE  Inv'
<1> DEFINE w == calls[c].host
           state == IF w = Page THEN "direct" ELSE host[w].state
           e == engine[Page]
<1>1. Page \notin Workers /\ Page \in Engines /\ Workers \subseteq Engines
  BY PageIsNoWorker
<1>2. calls \in Seq(CallRecords) /\ IsEngine(e) /\ c \in Nat
  BY <1>1, LenProperties DEF Inv, TypeOK
<1>3. w \in Engines
  <2>1. calls[c] \in CallRecords
    BY <1>2, LenProperties, ElementOfSeq
  <2> QED
    BY <2>1 DEF CallRecords
<1>4. state = "serving" => w \in Workers /\ host[w].state = "serving"
  BY <1>3 DEF Engines
<1>5. state \in {"forwarding", "direct"} => OnPage(host, calls[c].host)
  BY <1>3 DEF Engines, OnPage
<1>6. UNCHANGED outbox
  BY DEF Abort
<1>7. CASE /\ state = "serving"
           /\ calls' = Marked(calls, c)
           /\ thread' = [thread EXCEPT ![w].inbox = Append(@, [type |-> "stop", call |-> c])]
           /\ UNCHANGED <<active, host, engine>>
  <2> DEFINE t == thread[w]
             q == Append(t.inbox, Stop(c))
             u == [t EXCEPT !.inbox = q]
             ds == calls'
  <2>1. w \in Workers /\ host[w].state = "serving"
    BY <1>4, <1>7
  <2>2. /\ Serves(calls, w, host[w], t, outbox[w], engine[w]) /\ IsEngine(engine[w])
        /\ t \in ThreadRecords /\ outbox[w] \in Seq(AnswerRecords) /\ host[w] \in HostRecords
    BY <2>1, ServingFacts
  <2>3. thread' = [thread EXCEPT ![w] = u]
    BY <1>7, <2>1 DEF Stop, Inv, TypeOK
  <2>4. t.inbox \in Seq(Messages) /\ Stop(c) \in Messages
    BY <1>2, <2>2 DEF ThreadRecords, Stop, Messages
  <2>5. q \in Seq(Messages)
    BY <2>4, AppendMessage
  <2> HIDE DEF t, q
  <2>6. u \in ThreadRecords /\ u.state = t.state /\ u.inbox = q
    BY <2>2, <2>5 DEF ThreadRecords
  <2> HIDE DEF u, ds
  <2>7. /\ Settles(calls, ds)
        /\ \A d \in DOMAIN calls : d # c => ds[d] = calls[d]
        /\ ds[c].outcome = calls[c].outcome /\ ds[c].sound = calls[c].sound
    <3>1. ds = Marked(calls, c)
      BY <1>7 DEF ds
    <3> QED
      BY ONLY <1>2, <3>1, c \in DOMAIN calls, MarkFacts
  <2>8. u.inbox = WithStop(t.inbox, c)
    BY <2>6 DEF q, WithStop
  <2>9. Serves(ds, w, host[w], u, outbox[w], engine[w])
    <3> HIDE DEF w
    <3> QED
      BY <1>2, <2>2, <2>6, <2>7, <2>8, StopServed
  <2>10. WorkerInv(ds, w, host[w], u, outbox[w], engine[w])
    BY <2>1, <2>9 DEF WorkerInv
  <2>11. /\ host' = [host EXCEPT ![w] = host[w]] /\ outbox' = [outbox EXCEPT ![w] = outbox[w]]
         /\ engine' = [engine EXCEPT ![w] = engine[w]] /\ calls' = ds /\ active' \in {active, None}
    BY <1>1, <1>6, <1>7, <2>1 DEF Inv, TypeOK, ds
  <2>12. \A d \in DOMAIN calls : calls[d].host # w => ds[d] = calls[d]
    BY <2>7
  <2> HIDE DEF w
  <2>13. HostStep(w, host[w], u, outbox[w], engine[w], ds)
    BY <2>1, <2>2, <2>3, <2>6, <2>7, <2>10, <2>11, <2>12 DEF HostStep
  <2> QED
    BY <2>1, <2>13, HostChange
<1>8. CASE /\ state \in {"forwarding", "direct"}
           /\ calls' = Marked(calls, c)
           /\ engine' = [engine EXCEPT ![Page].stops = @ \cup {c}]
           /\ UNCHANGED <<active, host, thread>>
  <2> DEFINE f == Stopped(e, c)
  <2>1. engine' = [engine EXCEPT ![Page] = f]
    BY <1>1, <1>8 DEF Stopped, Inv, TypeOK
  <2>2. /\ IsEngine(f)
        /\ f.waiting = e.waiting /\ f.running = e.running
        /\ f.finished = e.finished /\ f.table = e.table
    BY <1>2, StopFields
  <2> HIDE DEF f
  <2> QED
    BY <1>5, <1>6, <1>8, <2>1, <2>2, GivenUpOnPage
<1>9. CASE /\ state \in {"forwarding", "direct"}
           /\ calls' = Marked(calls, c)
           /\ UNCHANGED <<active, host, thread, engine>>
  <2>1. engine' = [engine EXCEPT ![Page] = e]
    BY <1>1, <1>9 DEF Inv, TypeOK
  <2> QED
    BY <1>2, <1>5, <1>6, <1>9, <2>1, GivenUpOnPage
<1>10. CASE state = "serving" /\ Cancel(w, "aborted")
  <2> DEFINE h == [host[w] EXCEPT !.state = "dropped", !.pending = <<>>]
  <2>1. w \in Workers /\ host[w].state = "serving"
    BY <1>4, <1>10
  <2>2. host[w] \in HostRecords /\ outbox[w] \in Seq(AnswerRecords)
    BY <2>1, ServingFacts
  <2>3. /\ h \in HostRecords /\ h.state = "dropped" /\ h.isolated = host[w].isolated
        /\ h.pending = <<>>
    <3>1. <<>> \in Seq(Nat)
      BY EmptySeq
    <3> QED
      BY <2>2, <3>1 DEF HostRecords
  <2>4. /\ host' = [host EXCEPT ![w] = h] /\ outbox' = [outbox EXCEPT ![w] = outbox[w]]
        /\ active' = Retired(w, None) /\ engine' = [engine EXCEPT ![w] = NewEngine]
        /\ thread' = [thread EXCEPT ![w] = [state |-> "gone", inbox |-> <<>>]]
        /\ calls' = Settle(calls, ToSet(host[w].pending), "aborted")
    BY <1>6, <1>10, <2>1 DEF Cancel, Inv, TypeOK
  <2>5. "aborted" \in {"error", "aborted"}
    OBVIOUS
  <2> HIDE DEF h, w
  <2> QED
    BY <2>1, <2>2, <2>3, <2>4, <2>5, DropInv
<1> QED
  BY <1>7, <1>8, <1>9, <1>10 DEF Abort, Marked

------------------------------------------------------------------------------
(* New calls. *)

\* The call r becomes the last of the calls cs, with the number n.
IsLast(cs, ds, r, n) == ds = Append(cs, r) /\ n = Len(cs) + 1

\* The other calls are as they were.
LEMMA AddedCall ==
  ASSUME NEW cs, cs \in Seq(CallRecords), NEW r, r \in CallRecords, NEW ds, NEW n,
         IsLast(cs, ds, r, n)
  PROVE  /\ ds \in Seq(CallRecords) /\ Grows(cs, ds)
         /\ n \in Nat /\ n \notin DOMAIN cs /\ DOMAIN ds = DOMAIN cs \cup {n}
         /\ \A c \in DOMAIN cs : ds[c] = cs[c] /\ c \in Nat /\ c < n
         /\ ds[n] = r
<1>1. /\ ds \in Seq(CallRecords) /\ Len(cs) \in Nat /\ DOMAIN cs = 1..Len(cs)
      /\ DOMAIN ds = 1..n /\ ds[n] = r
      /\ \A c \in 1..Len(cs) : ds[c] = cs[c]
  BY AppendFacts DEF IsLast
<1> DEFINE m == Len(cs)
<1>2. m \in Nat /\ n = m + 1 /\ DOMAIN cs = 1..m
  BY <1>1 DEF IsLast
<1> HIDE DEF m
<1>3. 1..n = 1..m \cup {n} /\ n \notin 1..m /\ n \in Nat /\ \A c \in 1..m : c \in Nat /\ c < n
  BY <1>2
<1>4. \A c \in DOMAIN cs : ds[c] = cs[c]
  BY <1>1
<1>5. Grows(cs, ds)
  BY <1>1, <1>2, <1>3, <1>4 DEF Grows
<1> QED
  BY <1>1, <1>2, <1>3, <1>4, <1>5

\* The calls cs become ds with a new call n of host w.
Adds(cs, ds, n, w) ==
  /\ Grows(cs, ds)
  /\ n \in Nat /\ n \notin DOMAIN cs /\ DOMAIN ds = DOMAIN cs \cup {n}
  /\ \A c \in DOMAIN cs : ds[c] = cs[c] /\ c \in Nat /\ c < n
  /\ ds[n].host = w

Posting(q, n) == Append(q, [type |-> "request", call |-> n])

\* A request is posted after everything else.
LEMMA RequestQueued ==
  ASSUME NEW cs, NEW ds, NEW n, NEW w, Adds(cs, ds, n, w), NEW e, NEW q, q \in Seq(Messages),
         Orderly(cs, e, q), NEW r, r = Posting(q, n)
  PROVE  /\ Orderly(ds, e, r) /\ r \in Seq(Messages) /\ Coming(e, r) = Coming(e, q) \cup {n}
         /\ \A k \in DOMAIN q : \E l \in DOMAIN r : r[l] = q[k]
<1> DEFINE m == [type |-> "request", call |-> n]
           z == Len(q)
<1>1. m \in Messages /\ m.type = "request" /\ m.call = n
  BY DEF Messages, Adds
<1> HIDE DEF m
<1>2. /\ r \in Seq(Messages)
      /\ Requested(r) = Requested(q) \cup (IF m.type = "request" THEN {m.call} ELSE {})
  BY <1>1, AppendMessage DEF m, Posting
<1>3. /\ z \in Nat /\ DOMAIN q = 1..z /\ DOMAIN r = 1..(z + 1) /\ r[z + 1] = m
      /\ \A k \in 1..z : r[k] = q[k]
  BY <1>1, AppendFacts DEF m, Posting
<1> HIDE DEF z
<1>4. Requested(r) = Requested(q) \cup {n}
  BY <1>1, <1>2
<1>5. Coming(e, r) = Coming(e, q) \cup {n}
  BY <1>4 DEF Coming
<1>6. Orderly(ds, e, q)
  BY OrderlyFrame DEF Adds
<1>7. Past(e) \cup Coming(e, q) \subseteq DOMAIN cs
  BY DEF Orderly
<1>8. \A x \in DOMAIN cs : Before(ds, x, n)
  BY DEF Before, Adds
<1>9. \A k, l \in DOMAIN r : k < l /\ r[k].type = "request" /\ r[l].type = "request"
                              => Before(ds, r[k].call, r[l].call)
  <2> SUFFICES ASSUME NEW k \in DOMAIN r, NEW l \in DOMAIN r, k < l,
                      r[k].type = "request", r[l].type = "request"
               PROVE  Before(ds, r[k].call, r[l].call)
    OBVIOUS
  <2>1. k \in 1..z
    BY <1>3
  <2>2. CASE l = z + 1
    <3>1. q[k].call \in Requested(q) /\ r[k] = q[k]
      BY <1>3, <2>1 DEF Requested
    <3>2. r[k].call \in DOMAIN cs
      BY <1>7, <3>1 DEF Coming
    <3> QED
      BY <1>1, <1>3, <1>8, <2>2, <3>2
  <2>3. CASE l # z + 1
    <3>1. l \in 1..z
      BY <1>3, <2>3
    <3> QED
      BY <1>3, <1>6, <2>1, <3>1 DEF Orderly
  <2> QED
    BY <2>2, <2>3
<1>10. Past(e) \cup Coming(e, r) \subseteq DOMAIN ds
  BY <1>5, <1>7 DEF Adds
<1>11. \A x \in Past(e), y \in Coming(e, r) : Before(ds, x, y)
  <2>1. \A x \in Past(e), y \in Coming(e, q) : Before(ds, x, y)
    BY <1>6 DEF Orderly
  <2> QED
    BY <1>5, <1>7, <1>8, <2>1
<1>12. \A x \in ToSet(e.waiting), y \in Requested(r) : Before(ds, x, y)
  <2>1. \A x \in ToSet(e.waiting), y \in Requested(q) : Before(ds, x, y)
    BY <1>6 DEF Orderly
  <2>2. ToSet(e.waiting) \subseteq DOMAIN cs
    BY <1>7 DEF Coming
  <2> QED
    BY <1>4, <1>8, <2>1, <2>2
<1>13. Orderly(ds, e, r)
  BY <1>6, <1>9, <1>10, <1>11, <1>12 DEF Orderly
<1>14. \A k \in DOMAIN q : \E l \in DOMAIN r : r[l] = q[k]
  <2>1. \A k \in 1..z : k \in 1..(z + 1)
    BY <1>3
  <2> QED
    BY <1>3, <2>1
<1> QED
  BY <1>2, <1>5, <1>13, <1>14

\* A host that serves gets a call.
LEMMA PostServes ==
  ASSUME NEW cs, NEW ds, NEW n, NEW w, Adds(cs, ds, n, w), ds[n].outcome = "pending", ~ds[n].aborted,
         NEW h, h.pending \in Seq(Nat), NEW t \in ThreadRecords, NEW o, NEW e,
         Serves(cs, w, h, t, o, e),
         NEW g, g.pending = Append(h.pending, n), g.answered = h.answered,
         NEW u, t.state # "closed" => u.state # "closed", t.state = "closed" => u.state = "closed",
         u.inbox = Posting(t.inbox, n)
  PROVE  Serves(ds, w, g, u, o, e)
<1> DEFINE q == t.inbox
           r == u.inbox
           p == h.pending
           s == g.pending
<1>1. Orderly(cs, e, q) /\ q \in Seq(Messages)
  BY DEF Serves, ThreadRecords
<1>2. r = Posting(q, n) /\ s = Append(p, n) /\ p \in Seq(Nat)
  OBVIOUS
<1>3. /\ Grows(cs, ds) /\ n \in Nat /\ n \notin DOMAIN cs
      /\ \A c \in DOMAIN cs : ds[c] = cs[c] /\ c \in Nat /\ c < n
  BY DEF Adds
<1> HIDE DEF q, r, p, s
<1>4. /\ Orderly(ds, e, r) /\ r \in Seq(Messages) /\ Coming(e, r) = Coming(e, q) \cup {n}
      /\ \A k \in DOMAIN q : \E l \in DOMAIN r : r[l] = q[k]
  BY ONLY <1>1, <1>2, Adds(cs, ds, n, w), RequestQueued
<1>5. /\ Len(p) \in Nat /\ DOMAIN p = 1..Len(p) /\ DOMAIN s = 1..(Len(p) + 1)
      /\ s[Len(p) + 1] = n /\ ToSet(s) = ToSet(p) \cup {n}
      /\ \A k \in 1..Len(p) : s[k] = p[k]
  <2> DEFINE N == Nat
  <2>1. p \in Seq(N) /\ n \in N
    BY <1>2, <1>3
  <2> HIDE DEF N
  <2> QED
    BY <1>2, <2>1, AppendFacts
<1>6. CallsOn(ds, w) = CallsOn(cs, w) \cup {n}
  BY DEF CallsOn, Adds
<1>7. CallsOn(cs, w) \subseteq DOMAIN cs
  BY DEF CallsOn
<1>8. ASSUME t.state # "closed" PROVE Kept(ds, CallsOn(ds, w), e, o)
  <2> SUFFICES ASSUME NEW d \in CallsOn(ds, w), ds[d].op = "edit", ~IsFreed(ds, ds[d].handle),
                      ds[d].outcome = "ok" \/ d \in OkCalls(o) \cup OkCalls(e.finished)
               PROVE  Logged(e, ds[d].handle, d)
    BY DEF Kept
  <2>1. OkCalls(o) \cup OkCalls(e.finished) \subseteq CallsOn(cs, w)
    <3>1. OkCalls(e.finished) \subseteq Past(e)
      BY DEF OkCalls, CallsOf, Past
    <3> QED
      BY <3>1 DEF Serves
  <2>2. d \in CallsOn(cs, w) /\ d \in DOMAIN cs
    BY <1>6, <1>7, <2>1
  <2>3. ~IsFreed(cs, cs[d].handle)
    BY <1>3, <2>2 DEF Grows, IsFreed
  <2>4. Kept(cs, CallsOn(cs, w), e, o)
    BY <1>8 DEF Serves
  <2> QED
    BY <1>3, <2>2, <2>3, <2>4 DEF Kept
<1>9. \A k, l \in DOMAIN s : k < l => s[k] < s[l]
  <2> SUFFICES ASSUME NEW k \in DOMAIN s, NEW l \in DOMAIN s, k < l PROVE s[k] < s[l]
    OBVIOUS
  <2>1. k \in 1..Len(p) /\ s[k] = p[k]
    BY <1>5
  <2>2. CASE l = Len(p) + 1
    <3>1. p[k] \in ToSet(p)
      BY <1>5, <2>1 DEF ToSet
    <3>2. p[k] \in DOMAIN cs
      BY <1>7, <3>1 DEF Serves, p
    <3> QED
      BY <1>3, <1>5, <2>1, <2>2, <3>2
  <2>3. CASE l # Len(p) + 1
    <3>1. l \in 1..Len(p) /\ s[l] = p[l]
      BY <1>5, <2>3
    <3> QED
      BY <1>5, <2>1, <3>1 DEF Serves, p
  <2> QED
    BY <2>2, <2>3
<1>10. ToSet(s) = {c \in CallsOn(ds, w) : ds[c].outcome = "pending"}
  <2>1. ToSet(p) = {c \in CallsOn(cs, w) : cs[c].outcome = "pending"}
    BY DEF Serves, p
  <2> QED
    BY <1>3, <1>5, <1>6, <1>7, <2>1
<1>11. Awaited(s, u, o, e)
  <2>1. Carrying(e, r) = Carrying(e, q) \cup {n}
    BY <1>4 DEF Carrying
  <2>2. Awaited(p, t, o, e)
    BY DEF Serves, p
  <2> QED
    BY <1>5, <2>1, <2>2 DEF Awaited, q, r
<1>12. \A c \in CallsOn(ds, w) : ds[c].outcome = "ok" => g.answered /\ ds[c].sound
  BY <1>3, <1>6, <1>7 DEF Serves
<1>13. StopsArrive(ds, r, e)
  <2> SUFFICES ASSUME NEW d \in Coming(e, r) \cup e.running, ds[d].op = "run", ds[d].aborted,
                      d \notin e.stops
               PROVE  \E k \in DOMAIN r : r[k] = Stop(d)
    BY DEF StopsArrive
  <2>1. d # n
    OBVIOUS
  <2>2. d \in Coming(e, q) \cup e.running /\ d \in DOMAIN cs
    BY <1>4, <1>7, <2>1 DEF Serves, Past, q
  <2>3. \E k \in DOMAIN q : q[k] = Stop(d)
    BY <1>3, <2>2 DEF Serves, StopsArrive, q
  <2> QED
    BY <1>4, <2>3
<1>14. /\ Past(e) \cup Coming(e, r) \subseteq CallsOn(ds, w)
       /\ OkCalls(o) \subseteq CallsOn(ds, w)
  BY <1>4, <1>6 DEF Serves, q
<1>15. t.state = "closed" \/ t.state # "closed"
  OBVIOUS
<1> QED
  BY <1>4, <1>8, <1>9, <1>10, <1>11, <1>12, <1>13, <1>14, <1>15 DEF Serves, r, s

\* The hosts hs, where host w may just have been created, are in order.
Ready(hs, w) ==
  /\ hs \in [Workers -> HostRecords]
  /\ \A v \in Workers : v # w => hs[v] = host[v]
  /\ \A v \in Workers : WorkerInv(calls, v, hs[v], thread[v], outbox[v], engine[v])
  /\ PageInv(calls, hs, engine[Page])
  /\ \A c \in DOMAIN calls : CallInv(calls, hs, c)

\* The call r suits its host: a study's calls go where the study is, an isolated
\* host gets one call.
Suits(r, hs, w) ==
  /\ r \in CallRecords /\ r.host = w /\ r.outcome = "pending" /\ ~r.aborted
  /\ r.op = "create" => r.handle = NextCall
  /\ r.op \in {"edit", "free"} =>
       /\ r.handle \in DOMAIN calls
       /\ calls[r.handle].op = "create"
       /\ calls[r.handle].outcome = "ok"
       /\ calls[r.handle].host = w
  /\ r.op \in {"run", "solve"} => w \in Workers /\ hs[w].isolated
  /\ r.op \in {"create", "edit", "free"} /\ w \in Workers => ~hs[w].isolated
  /\ w \in Workers => hs[w].state # "unused" /\ (hs[w].isolated => CallsOn(calls, w) = {})

\* What the calls say of their studies and hosts stays true.
LEMMA NewCallInv ==
  ASSUME NEW r, NEW hs, NEW w, Suits(r, hs, w), \A c \in DOMAIN calls : CallInv(calls, hs, c),
         NEW ds, NEW n, n = NextCall, Adds(calls, ds, n, w), ds[n].op = r.op, ds[n].handle = r.handle,
         NEW gs, \A v \in Workers : gs[v].isolated = hs[v].isolated, NEW d \in DOMAIN ds
  PROVE  CallInv(ds, gs, d)
<1>1. /\ n \notin DOMAIN calls /\ DOMAIN ds = DOMAIN calls \cup {n} /\ ds[n].host = w
      /\ \A c \in DOMAIN calls : ds[c] = calls[c]
  BY DEF Adds
<1>2. CallsOn(ds, w) = CallsOn(calls, w) \cup {n}
  BY <1>1 DEF CallsOn
<1>3. \A v : v # w => CallsOn(ds, v) = CallsOn(calls, v)
  BY <1>1 DEF CallsOn
<1>4. CASE d = n
  BY <1>1, <1>2, <1>4 DEF CallInv, Suits
<1>5. CASE d # n
  <2>1. d \in DOMAIN calls /\ ds[d] = calls[d] /\ CallInv(calls, hs, d)
    BY <1>1, <1>5
  <2>2. ASSUME calls[d].host \in Workers, hs[calls[d].host].isolated
        PROVE  CallsOn(ds, calls[d].host) = {d}
    <3>1. calls[d].host # w
      BY <2>1, <2>2 DEF Suits, CallsOn
    <3> QED
      BY <1>3, <2>1, <2>2, <3>1 DEF CallInv
  <2>3. calls[d].op \in {"edit", "free"} => ds[calls[d].handle] = calls[calls[d].handle]
    BY <1>1, <2>1 DEF CallInv
  <2> QED
    BY <1>1, <2>1, <2>2, <2>3 DEF CallInv
<1> QED
  BY <1>4, <1>5

\* What a new call leaves to show.
LEMMA CallAdded ==
  ASSUME Inv, NEW r, NEW hs, NEW w \in Engines, Ready(hs, w), Suits(r, hs, w), TypeOK',
         Adds(calls, calls', NextCall, w), calls'[NextCall].op = r.op,
         calls'[NextCall].handle = r.handle,
         \A v \in Workers : host'[v].isolated = hs[v].isolated /\ host'[v].state = hs[v].state,
         \A v \in Workers : v # w =>
           host'[v] = hs[v] /\ thread'[v] = thread[v] /\ engine'[v] = engine[v],
         UNCHANGED outbox, ActiveInv(active', hs),
         PageInv(calls', host', engine'[Page]),
         w \in Workers => WorkerInv(calls', w, host'[w], thread'[w], outbox'[w], engine'[w])
  PROVE  Inv'
<1>1. \A d \in DOMAIN calls' : CallInv(calls', host', d)
  <2> DEFINE ds == calls'
             n == NextCall
  <2>1. /\ \A c \in DOMAIN calls : CallInv(calls, hs, c)
        /\ n = NextCall /\ Adds(calls, ds, n, w) /\ ds[n].op = r.op /\ ds[n].handle = r.handle
        /\ \A v \in Workers : host'[v].isolated = hs[v].isolated
    BY DEF Ready
  <2> HIDE DEF ds, n
  <2>2. \A d \in DOMAIN ds : CallInv(ds, host', d)
    BY <2>1, NewCallInv
  <2> QED
    BY <2>2 DEF ds
<1>2. Grows(calls, calls')
  BY DEF Adds
<1>3. ActiveInv(active', host')
  BY DEF ActiveInv
<1>4. ASSUME NEW v \in Workers
      PROVE  \/ WorkerInv(calls', v, host'[v], thread'[v], outbox'[v], engine'[v])
             \/ /\ host'[v] = host[v] /\ thread'[v] = thread[v]
                /\ outbox'[v] = outbox[v] /\ engine'[v] = engine[v]
                /\ CallsOn(calls', v) = CallsOn(calls, v)
                /\ \A c \in CallsOn(calls, v) : calls'[c] = calls[c]
  <2>1. CASE v = w
    BY <2>1
  <2>2. CASE v # w
    <3>1. host'[v] = host[v]
      BY <2>2 DEF Ready
    <3>2. CallsOn(calls', v) = CallsOn(calls, v) /\ \A c \in CallsOn(calls, v) : calls'[c] = calls[c]
      BY <2>2 DEF CallsOn, Adds
    <3> QED
      BY <2>2, <3>1, <3>2
  <2> QED
    BY <2>1, <2>2
<1> QED
  BY <1>1, <1>2, <1>3, <1>4, SystemChange

\* What a host that does not serve the page's calls adds to them.
LEMMA PageUnconcerned ==
  ASSUME NEW cs, NEW ds, NEW n, NEW w, Adds(cs, ds, n, w), NEW hs, NEW gs, NEW e,
         PageInv(cs, hs, e), ~OnPage(hs, w), \A v \in Workers : gs[v].state = hs[v].state
  PROVE  PageInv(ds, gs, e)
<1>1. \A i : OnPage(gs, i) <=> OnPage(hs, i)
  BY DEF OnPage
<1>2. CallsOnPage(ds, gs) = CallsOnPage(cs, hs)
  BY <1>1 DEF CallsOnPage, Adds
<1>3. Grows(cs, ds) /\ \A c \in CallsOnPage(cs, hs) : ds[c] = cs[c]
  BY DEF CallsOnPage, Adds
<1> QED
  BY <1>2, <1>3, PageFrame

\* A call that is not posted: the engine on the page's thread gets it, or it is
\* rejected because that engine cannot be loaded.
LEMMA PageGetsCall ==
  ASSUME NEW cs, NEW ds, NEW n, NEW w, Adds(cs, ds, n, w), NEW hs, NEW e, IsEngine(e),
         PageInv(cs, hs, e), OnPage(hs, w),
         ds[n].outcome = IF e.load = "unsupported" THEN "error" ELSE "pending",
         NEW s, s = <<n>>, NEW f, f = Direct(e, s)
  PROVE  PageInv(ds, hs, f) /\ IsEngine(f)
<1> DEFINE p == IF e.load = "unsupported" THEN <<>> ELSE s
           S == {n}
<1>1. /\ Grows(cs, ds) /\ n \in Nat /\ n \notin DOMAIN cs /\ DOMAIN ds = DOMAIN cs \cup {n}
      /\ \A c \in DOMAIN cs : ds[c] = cs[c] /\ c \in Nat /\ c < n
      /\ ds[n].host = w
  BY DEF Adds
<1>2. s \in Seq(Nat) /\ ToSet(s) = {n} /\ DOMAIN s = {1} /\ e.waiting \in Seq(Nat)
  BY <1>1 DEF ToSet, IsEngine
<1>3. /\ IsEngine(f)
      /\ f.waiting = e.waiting \o p
      /\ f.running = e.running /\ f.finished = e.finished /\ f.table = e.table
  <2>1. IsEngine(e) /\ s \in Seq(Nat) /\ f = Direct(e, s)
    BY <1>2
  <2> QED
    BY ONLY <2>1, DirectFields
<1>4. /\ p \in Seq(Nat) /\ ToSet(p) \subseteq S
      /\ ds[n].outcome = "pending" => n \in ToSet(p)
      /\ DOMAIN p \subseteq {1}
  <2>1. CASE e.load = "unsupported"
    <3>1. p = <<>> /\ <<>> \in Seq(Nat) /\ ToSet(<<>>) = {} /\ DOMAIN <<>> = {}
      BY <2>1, EmptySeq DEF ToSet
    <3> HIDE DEF p
    <3> QED
      BY <2>1, <3>1
  <2>2. CASE e.load # "unsupported"
    BY <1>2, <2>2
  <2> QED
    BY <2>1, <2>2
<1> HIDE DEF p
<1>5. /\ CallsOnPage(ds, hs) = CallsOnPage(cs, hs) \cup S
      /\ S \subseteq DOMAIN ds /\ S \cap CallsOnPage(cs, hs) = {}
      /\ CallsOnPage(cs, hs) \subseteq DOMAIN cs
  BY <1>1 DEF CallsOnPage
<1>6. \A c \in CallsOnPage(cs, hs) : ds[c].outcome = cs[c].outcome
  BY <1>1, <1>5
<1>7. /\ \A c \in S : ds[c].outcome = "pending" => c \in ToSet(p)
      /\ \A c \in S : ds[c].op = "edit" => ds[c].outcome # "ok"
  BY <1>4
<1>8. \A x \in CallsOnPage(cs, hs), y \in ToSet(p) : Before(ds, x, y)
  BY <1>1, <1>4, <1>5 DEF Before
<1>9. \A k, l \in DOMAIN p : k < l => Before(ds, p[k], p[l])
  BY <1>4
<1> HIDE DEF S
<1>10. PageInv(ds, hs, f)
  BY <1>1, <1>2, <1>3, <1>4, <1>5, <1>6, <1>7, <1>8, <1>9, PageTakes, ZenonT(30)
<1> QED
  BY <1>3, <1>10

\* A call is made.
LEMMA DispatchInv ==
  ASSUME Inv, NEW r, NEW hs, NEW w \in Engines, Ready(hs, w), Suits(r, hs, w),
         Dispatch(NextCall, r, hs, w), active' \in Engines \cup {None}, ActiveInv(active', hs),
         UNCHANGED outbox
  PROVE  Inv'
<1> DEFINE n == NextCall
           state == IF w = Page THEN "direct" ELSE hs[w].state
           e == engine[Page]
           rejected == state = "dropped" \/
                       (state \in {"direct", "forwarding"} /\ e.load = "unsupported")
           result == IF rejected THEN "error" ELSE "pending"
           x == [r EXCEPT !.outcome = result]
           ds == calls'
<1>1. Page \notin Workers /\ Page \in Engines /\ Workers \subseteq Engines
  BY PageIsNoWorker
<1>2. /\ ds = Append(calls, x)
      /\ host' = IF state = "serving" THEN [hs EXCEPT ![w].pending = Append(@, n)] ELSE hs
      /\ thread' = IF state = "serving"
                   THEN [thread EXCEPT ![w] =
                           [state |-> IF @.state = "none" THEN "up" ELSE @.state,
                            inbox |-> Append(@.inbox, [type |-> "request", call |-> n])]]
                   ELSE thread
      /\ engine' = IF state \in {"direct", "forwarding"}
                   THEN [engine EXCEPT ![Page] = Direct(@, <<n>>)] ELSE engine
  BY DEF Dispatch
<1>3. /\ calls \in Seq(CallRecords) /\ IsEngine(e)
      /\ engine = [i \in Engines |-> engine[i]] /\ \A i \in Engines : IsEngine(engine[i])
      /\ thread \in [Workers -> ThreadRecords] /\ outbox \in [Workers -> Seq(AnswerRecords)]
  BY <1>1 DEF Inv, TypeOK
<1>4. /\ hs \in [Workers -> HostRecords] /\ PageInv(calls, hs, e)
      /\ w \in Workers => WorkerInv(calls, w, hs[w], thread[w], outbox[w], engine[w])
  BY DEF Ready
<1>5. /\ state \in {"serving", "forwarding", "direct", "dropped"}
      /\ w \in Workers => state = hs[w].state
      /\ state \in {"direct", "forwarding"} <=> OnPage(hs, w)
      /\ state \in {"serving", "dropped"} => w \in Workers
  <2>1. w \in Workers => hs[w].state \in {"serving", "forwarding", "direct", "dropped"}
    BY <1>4 DEF HostRecords, Suits
  <2> QED
    BY <1>1, <2>1 DEF OnPage, Engines
<1>6. result \in {"error", "pending"}
  OBVIOUS
<1>7. /\ state = "serving" => result = "pending"
      /\ state = "dropped" => result = "error"
      /\ state \in {"direct", "forwarding"} =>
           result = IF e.load = "unsupported" THEN "error" ELSE "pending"
  OBVIOUS
<1> HIDE DEF n, state, result, rejected
<1>8. /\ x \in CallRecords /\ x.op = r.op /\ x.handle = r.handle /\ x.host = w
      /\ x.outcome = result /\ ~x.aborted
  BY <1>6 DEF Suits, CallRecords
<1> HIDE DEF x, ds
<1>9. /\ ds \in Seq(CallRecords) /\ Grows(calls, ds)
      /\ n \in Nat /\ n \notin DOMAIN calls /\ DOMAIN ds = DOMAIN calls \cup {n}
      /\ \A c \in DOMAIN calls : ds[c] = calls[c] /\ c \in Nat /\ c < n
      /\ ds[n] = x
  <2>1. IsLast(calls, ds, x, n)
    BY <1>2 DEF IsLast, n, NextCall
  <2>2. calls \in Seq(CallRecords) /\ x \in CallRecords
    BY <1>3, <1>8
  <2> QED
    BY ONLY <2>1, <2>2, AddedCall, ZenonT(30)
<1>10. /\ Adds(calls, ds, n, w) /\ ds[n].op = r.op /\ ds[n].handle = r.handle
       /\ ds[n].outcome = result /\ ~ds[n].aborted
  BY <1>8, <1>9 DEF Adds
<1>11. ASSUME TypeOK',
              \A v \in Workers : host'[v].isolated = hs[v].isolated /\ host'[v].state = hs[v].state,
              \A v \in Workers : v # w =>
                host'[v] = hs[v] /\ thread'[v] = thread[v] /\ engine'[v] = engine[v],
              PageInv(ds, host', engine'[Page]),
              w \in Workers => WorkerInv(ds, w, host'[w], thread'[w], outbox[w], engine'[w])
       PROVE  Inv'
  BY <1>10, <1>11, CallAdded DEF ds, n
<1>12. CASE state = "serving"
  <2> DEFINE h == hs[w]
             p == Append(h.pending, n)
             g == [h EXCEPT !.pending = p]
             t == thread[w]
             q == Posting(t.inbox, n)
             s == IF t.state = "none" THEN "up" ELSE t.state
             u == [state |-> s, inbox |-> q]
  <2>1. w \in Workers /\ h.state = "serving" /\ ~OnPage(hs, w)
    BY <1>5, <1>12
  <2>2. /\ h \in HostRecords /\ t \in ThreadRecords
        /\ Serves(calls, w, h, t, outbox[w], engine[w])
    BY <1>3, <1>4, <2>1 DEF WorkerInv
  <2>3. host' = [hs EXCEPT ![w] = g] /\ thread' = [thread EXCEPT ![w] = u] /\ engine' = engine
    BY <1>2, <1>3, <1>4, <1>12, <2>1 DEF Posting
  <2>4. h.pending \in Seq(Nat) /\ p \in Seq(Nat)
    <3> DEFINE N == Nat
    <3>1. h.pending \in Seq(N) /\ n \in N
      BY <1>9, <2>2 DEF HostRecords
    <3> HIDE DEF N, h
    <3>2. p \in Seq(N)
      BY <3>1, AppendFacts
    <3> QED
      BY <3>1, <3>2 DEF N
  <2>5. q \in Seq(Messages)
    <3>1. t.inbox \in Seq(Messages) /\ [type |-> "request", call |-> n] \in Messages
      BY <1>9, <2>2 DEF ThreadRecords, Messages
    <3> QED
      BY <3>1, AppendMessage DEF Posting
  <2>6. /\ s \in {"none", "up", "gone", "closed"}
        /\ t.state # "closed" => s # "closed"
    BY <2>2 DEF ThreadRecords
  <2>7. t.state = "closed" => s = "closed"
    BY <2>2 DEF ThreadRecords
  <2> HIDE DEF h, p, t, q, s
  <2>8. /\ g \in HostRecords /\ g.state = h.state /\ g.isolated = h.isolated
        /\ g.answered = h.answered /\ g.pending = p
    BY <2>2, <2>4 DEF HostRecords
  <2>9. u \in ThreadRecords /\ u.state = s /\ u.inbox = q
    BY <2>5, <2>6 DEF ThreadRecords
  <2> HIDE DEF g, u
  <2>10. Serves(ds, w, g, u, outbox[w], engine[w])
    <3>1. g.pending = Append(h.pending, n) /\ u.inbox = Posting(t.inbox, n)
      BY <2>8, <2>9 DEF p, q
    <3>2. (t.state # "closed" => u.state # "closed") /\ (t.state = "closed" => u.state = "closed")
      BY <2>6, <2>7, <2>9
    <3>3. ds[n].outcome = "pending" /\ ~ds[n].aborted
      BY <1>7, <1>10, <1>12
    <3> QED
      BY <1>10, <2>2, <2>4, <2>8, <3>1, <3>2, <3>3, PostServes
  <2>11. /\ host' \in [Workers -> HostRecords] /\ host'[w] = g
         /\ thread' \in [Workers -> ThreadRecords] /\ thread'[w] = u
         /\ \A v \in Workers : v # w => host'[v] = hs[v] /\ thread'[v] = thread[v]
    BY <1>3, <1>4, <2>1, <2>3, <2>8, <2>9
  <2>12. TypeOK'
    BY <1>3, <1>9, <2>3, <2>11 DEF TypeOK, ds
  <2>13. \A v \in Workers : host'[v].isolated = hs[v].isolated /\ host'[v].state = hs[v].state
    BY <2>8, <2>11 DEF h
  <2>14. PageInv(ds, host', engine'[Page])
    BY <1>4, <1>10, <2>1, <2>3, <2>13, PageUnconcerned
  <2>15. WorkerInv(ds, w, host'[w], thread'[w], outbox[w], engine'[w])
    BY <2>1, <2>3, <2>8, <2>10, <2>11 DEF WorkerInv
  <2> QED
    BY <1>11, <2>3, <2>11, <2>12, <2>13, <2>14, <2>15
<1>13. CASE state = "dropped"
  <2>1. w \in Workers /\ hs[w].state = "dropped" /\ ~OnPage(hs, w)
    BY <1>5, <1>13
  <2>2. host' = hs /\ thread' = thread /\ engine' = engine
    BY <1>2, <1>13
  <2>3. TypeOK'
    BY <1>3, <1>4, <1>9, <2>2 DEF TypeOK, ds
  <2>4. PageInv(ds, host', engine'[Page])
    BY <1>4, <1>10, <2>1, <2>2, PageUnconcerned
  <2>5. WorkerInv(ds, w, hs[w], thread[w], outbox[w], engine[w])
    <3>1. Idle(calls, w, hs[w], thread[w], outbox[w], engine[w])
      BY <1>4, <2>1 DEF WorkerInv
    <3>2. CallsOn(ds, w) \subseteq CallsOn(calls, w) \cup {n} /\ CallsOn(calls, w) \subseteq DOMAIN calls
      BY <1>9 DEF CallsOn
    <3>3. ds[n].outcome = "error"
      BY <1>7, <1>10, <1>13
    <3>4. \A c \in CallsOn(ds, w) : ds[c].outcome # "pending" /\ (ds[c].outcome = "ok" => ds[c].sound)
      BY <1>9, <2>1, <3>1, <3>2, <3>3 DEF Idle
    <3>5. Idle(ds, w, hs[w], thread[w], outbox[w], engine[w])
      BY <2>1, <3>1, <3>4 DEF Idle
    <3> QED
      BY <2>1, <3>5 DEF WorkerInv
  <2> QED
    BY <1>11, <2>2, <2>3, <2>4, <2>5
<1>14. CASE state \in {"direct", "forwarding"}
  <2> DEFINE s == <<n>>
             f == Direct(e, s)
  <2>1. OnPage(hs, w) /\ (w \in Workers => hs[w].state \in {"direct", "forwarding"})
    BY <1>5, <1>14
  <2>2. host' = hs /\ thread' = thread /\ engine' = [engine EXCEPT ![Page] = f]
    BY <1>1, <1>2, <1>3, <1>14
  <2>3. ds[n].outcome = IF e.load = "unsupported" THEN "error" ELSE "pending"
    BY <1>7, <1>10, <1>14
  <2>4. s = <<n>> /\ f = Direct(e, s)
    OBVIOUS
  <2> HIDE DEF s, f, e
  <2>5. PageInv(ds, hs, f) /\ IsEngine(f)
    BY <1>3, <1>4, <1>10, <2>1, <2>3, <2>4, PageGetsCall
  <2>6. /\ engine' = [i \in Engines |-> engine'[i]] /\ engine'[Page] = f
        /\ \A i \in Engines : i # Page => engine'[i] = engine[i]
    BY <1>1, <1>3, <2>2
  <2>7. TypeOK'
    BY <1>3, <1>4, <1>9, <2>2, <2>5, <2>6 DEF TypeOK, ds
  <2>8. ASSUME w \in Workers PROVE WorkerInv(ds, w, host'[w], thread'[w], outbox[w], engine'[w])
    <3>1. hs[w].state \in {"direct", "forwarding"} /\ engine'[w] = engine[w]
      BY <1>1, <2>1, <2>6, <2>8
    <3>2. Idle(calls, w, hs[w], thread[w], outbox[w], engine[w])
      BY <1>4, <2>8, <3>1 DEF WorkerInv
    <3>3. Idle(ds, w, hs[w], thread[w], outbox[w], engine[w])
      BY <3>1, <3>2 DEF Idle
    <3> QED
      BY <2>2, <3>1, <3>3 DEF WorkerInv
  <2>9. \A v \in Workers : engine'[v] = engine[v]
    BY <1>1, <2>6
  <2> QED
    BY <1>11, <2>2, <2>5, <2>6, <2>7, <2>8, <2>9
<1> QED
  BY <1>5, <1>12, <1>13, <1>14

\* The hosts that there are.
LEMMA HostsReady ==
  ASSUME Inv, NEW w
  PROVE  Ready(host, w)
BY DEF Inv, TypeOK, Ready

\* A host that nothing has been asked of.
LEMMA FreshServes ==
  ASSUME NEW cs, NEW w, CallsOn(cs, w) = {}, NEW h, h.pending = <<>>, NEW t, t.inbox = <<>>,
         NEW o, o = <<>>
  PROVE  Serves(cs, w, h, t, o, NewEngine)
<1> DEFINE z == <<>>
           e == NewEngine
<1>1. /\ e.waiting = z /\ e.running = {} /\ e.finished = z /\ e.table = z /\ e.trapped = FALSE
      /\ DOMAIN z = {}
  BY DEF NewEngine
<1> HIDE DEF e
<1>2. ToSet(z) = {} /\ CallsOf(z) = {} /\ OkCalls(z) = {} /\ Requested(z) = {} /\ Logs(z) = {}
  BY <1>1 DEF ToSet, CallsOf, OkCalls, Requested, Logs
<1> HIDE DEF z
<1>3. Past(e) = {} /\ Coming(e, z) = {} /\ Carrying(e, z) = {}
  BY <1>1, <1>2 DEF Past, Coming, Carrying
<1>4. Orderly(cs, e, z)
  BY <1>1, <1>2, <1>3 DEF Orderly
<1>5. Covered(z) /\ TrapsFirst(z, e)
  BY <1>1 DEF Covered, TrapsFirst
<1>6. StopsArrive(cs, z, e)
  BY <1>1, <1>3 DEF StopsArrive
<1>7. Kept(cs, CallsOn(cs, w), e, z)
  BY DEF Kept
<1>8. h.pending = z /\ t.inbox = z /\ o = z
  BY DEF z
<1>9. Awaited(h.pending, t, o, e)
  BY <1>2, <1>8 DEF Awaited
<1> QED
  BY <1>1, <1>2, <1>3, <1>4, <1>5, <1>6, <1>7, <1>8, <1>9 DEF Serves, e

\* A host is created.
LEMMA CreatedReady ==
  ASSUME Inv, NEW w \in Workers, host[w].state = "unused",
         NEW h \in HostRecords, h.state \in {"serving", "direct"}, h.pending = host[w].pending,
         NEW hs, hs = [host EXCEPT ![w] = h]
  PROVE  Ready(hs, w) /\ CallsOn(calls, w) = {} /\ hs[w] = h
<1>1. /\ hs \in [Workers -> HostRecords] /\ hs[w] = h
      /\ \A v \in Workers : v # w => hs[v] = host[v]
  BY DEF Inv, TypeOK
<1>2. Idle(calls, w, host[w], thread[w], outbox[w], engine[w])
  BY DEF Inv, WorkerInv
<1>3. /\ CallsOn(calls, w) = {} /\ h.pending = <<>> /\ thread[w].inbox = <<>> /\ outbox[w] = <<>>
      /\ engine[w] = NewEngine
  BY <1>2 DEF Idle
<1>4. WorkerInv(calls, w, h, thread[w], outbox[w], engine[w])
  <2>1. CASE h.state = "serving"
    <3>1. Serves(calls, w, h, thread[w], outbox[w], engine[w])
      BY <1>3, FreshServes
    <3> QED
      BY <2>1, <3>1 DEF WorkerInv
  <2>2. CASE h.state = "direct"
    <3>1. Idle(calls, w, h, thread[w], outbox[w], engine[w])
      BY <1>2, <2>2 DEF Idle
    <3> QED
      BY <2>2, <3>1 DEF WorkerInv
  <2> QED
    BY <2>1, <2>2
<1>5. \A v \in Workers : WorkerInv(calls, v, hs[v], thread[v], outbox[v], engine[v])
  <2>1. ASSUME NEW v \in Workers, v # w
        PROVE  WorkerInv(calls, v, hs[v], thread[v], outbox[v], engine[v])
    <3>1. hs[v] = host[v] /\ WorkerInv(calls, v, host[v], thread[v], outbox[v], engine[v])
      BY <1>1, <2>1 DEF Inv
    <3> QED
      BY <3>1
  <2> QED
    BY <1>1, <1>4, <2>1
<1>6. \A c \in DOMAIN calls : calls[c].host # w
  BY <1>3 DEF CallsOn
<1>7. CallsOnPage(calls, hs) = CallsOnPage(calls, host)
  BY <1>1, <1>6 DEF CallsOnPage, OnPage
<1>8. PageInv(calls, hs, engine[Page])
  <2>1. PageInv(calls, host, engine[Page])
    BY DEF Inv
  <2> QED
    BY <1>7, <2>1 DEF PageInv
<1>9. ASSUME NEW c \in DOMAIN calls PROVE CallInv(calls, hs, c)
  <2>1. CallInv(calls, host, c)
    BY DEF Inv
  <2>2. calls[c].host \in Workers => hs[calls[c].host] = host[calls[c].host]
    BY <1>1, <1>6
  <2> QED
    BY <2>1, <2>2 DEF CallInv
<1> QED
  BY <1>1, <1>3, <1>5, <1>8, <1>9 DEF Ready

\* The fields of a request.
LEMMA RequestFields ==
  ASSUME NEW op \in {"create", "edit", "free", "run", "solve"}, NEW handle,
         handle \in Nat \cup {None}, NEW w \in Engines, NEW r, r = Request(op, handle, w)
  PROVE  /\ r \in CallRecords /\ r.op = op /\ r.handle = handle /\ r.host = w
         /\ r.outcome = "pending" /\ ~r.aborted
BY DEF Request, CallRecords

\* The number of the next call.
LEMMA NextCallIsNat == ASSUME Inv PROVE NextCall \in Nat
<1>1. calls \in Seq(CallRecords)
  BY DEF Inv, TypeOK
<1>2. Len(calls) \in Nat
  BY <1>1, LenProperties
<1> QED
  BY <1>2 DEF NextCall

\* createStudy.
LEMMA CreateStudyInv ==
  ASSUME Inv, CreateStudy
  PROVE  Inv'
<1> DEFINE n == NextCall
<1>1. n \in Nat \cup {None} /\ active \in Engines \cup {None} /\ UNCHANGED outbox
  BY NextCallIsNat DEF CreateStudy, Inv, TypeOK
<1>2. Page \notin Workers /\ Page \in Engines /\ Workers \subseteq Engines
  BY PageIsNoWorker
<1>3. CASE /\ active # None
           /\ Dispatch(n, Request("create", n, active), host, active)
           /\ UNCHANGED active
  <2> DEFINE w == active
             r == Request("create", n, w)
  <2>1. w \in Engines
    BY <1>1, <1>3
  <2>2. /\ r \in CallRecords /\ r.op = "create" /\ r.handle = n /\ r.host = w
        /\ r.outcome = "pending" /\ ~r.aborted
    <3> HIDE DEF r, w, n
    <3> QED
      BY <1>1, <2>1, RequestFields DEF r
  <2>3. ActiveInv(w, host) /\ Ready(host, w)
    BY HostsReady DEF Inv
  <2>4. Suits(r, host, w)
    <3> HIDE DEF r
    <3> QED
      BY <2>2, <2>3 DEF Suits, ActiveInv
  <2>5. active' \in Engines \cup {None} /\ ActiveInv(active', host) /\ Dispatch(n, r, host, w)
    BY <1>1, <1>3, <2>3
  <2> HIDE DEF r, w
  <2> QED
    BY <1>1, <2>1, <2>3, <2>4, <2>5, DispatchInv
<1>4. CASE \E w \in Workers :
             /\ NewHost(w)
             /\ active' = w
             /\ Dispatch(n, Request("create", n, w), Created(w, "serving", FALSE), w)
  <2>1. PICK w \in Workers :
             /\ NewHost(w)
             /\ active' = w
             /\ Dispatch(n, Request("create", n, w), Created(w, "serving", FALSE), w)
    BY <1>4
  <2> DEFINE r == Request("create", n, w)
             h == [host[w] EXCEPT !.state = "serving", !.isolated = FALSE]
             hs == [host EXCEPT ![w] = h]
  <2>2. Created(w, "serving", FALSE) = hs /\ host[w] \in HostRecords /\ host[w].state = "unused"
    BY <2>1 DEF Created, NewHost, Inv, TypeOK
  <2>3. /\ h \in HostRecords /\ h.state = "serving" /\ ~h.isolated /\ h.pending = host[w].pending
    BY <2>2 DEF HostRecords
  <2>4. /\ r \in CallRecords /\ r.op = "create" /\ r.handle = n /\ r.host = w
        /\ r.outcome = "pending" /\ ~r.aborted
    <3>1. w \in Engines
      BY <1>2
    <3> HIDE DEF r, n
    <3> QED
      BY <1>1, <3>1, RequestFields DEF r
  <2>5. Ready(hs, w) /\ CallsOn(calls, w) = {} /\ hs[w] = h
    <3>1. /\ Inv /\ w \in Workers /\ host[w].state = "unused" /\ h \in HostRecords
          /\ h.state \in {"serving", "direct"} /\ h.pending = host[w].pending
          /\ hs = [host EXCEPT ![w] = h]
      BY <2>2, <2>3
    <3> HIDE DEF hs, h
    <3> QED
      BY ONLY <3>1, CreatedReady
  <2>6. Dispatch(n, r, hs, w) /\ active' = w
    BY <2>1, <2>2
  <2> HIDE DEF r, h, hs
  <2>7. Suits(r, hs, w)
    BY <2>3, <2>4, <2>5 DEF Suits
  <2>8. ActiveInv(active', hs) /\ active' \in Engines \cup {None} /\ w \in Engines
    BY <1>2, <2>3, <2>5, <2>6 DEF ActiveInv
  <2> QED
    BY <1>1, <2>5, <2>6, <2>7, <2>8, DispatchInv
<1>5. CASE /\ active' = Page
           /\ Dispatch(n, Request("create", n, Page), host, Page)
  <2> DEFINE r == Request("create", n, Page)
  <2>1. /\ r \in CallRecords /\ r.op = "create" /\ r.handle = n /\ r.host = Page
        /\ r.outcome = "pending" /\ ~r.aborted
    <3> HIDE DEF r, n
    <3> QED
      BY <1>1, <1>2, RequestFields DEF r
  <2>2. Ready(host, Page)
    BY HostsReady
  <2>3. Dispatch(n, r, host, Page)
    BY <1>5
  <2> HIDE DEF r
  <2>4. Suits(r, host, Page)
    BY <1>2, <2>1 DEF Suits
  <2>5. active' \in Engines \cup {None} /\ ActiveInv(active', host)
    BY <1>2, <1>5 DEF ActiveInv
  <2> QED
    BY <1>1, <1>2, <2>2, <2>3, <2>4, <2>5, DispatchInv
<1> QED
  BY <1>3, <1>4, <1>5 DEF CreateStudy

\* A method of a study.
LEMMA UseStudyInv ==
  ASSUME Inv, UseStudy
  PROVE  Inv'
<1> DEFINE n == NextCall
<1>1. PICK h \in DOMAIN calls, op \in {"edit", "free"} \cap Ops :
        /\ calls[h].op = "create"
        /\ calls[h].outcome = "ok"
        /\ Dispatch(n, Request(op, h, calls[h].host), host, calls[h].host)
  BY DEF UseStudy
<1> DEFINE w == calls[h].host
           r == Request(op, h, w)
<1>2. calls \in Seq(CallRecords)
  BY DEF Inv, TypeOK
<1>3. h \in Nat /\ calls[h] \in CallRecords
  BY <1>2, LenProperties, ElementOfSeq
<1>4. w \in Engines
  BY <1>3 DEF CallRecords
<1>5. /\ r \in CallRecords /\ r.op = op /\ r.handle = h /\ r.host = w
      /\ r.outcome = "pending" /\ ~r.aborted
  <2>1. op \in {"create", "edit", "free", "run", "solve"} /\ h \in Nat \cup {None}
    BY <1>3
  <2> HIDE DEF r, w
  <2> QED
    BY <1>4, <2>1, RequestFields DEF r
<1>6. w \in Workers => host[w].state # "unused" /\ ~host[w].isolated
  <2>1. CallInv(calls, host, h) /\ h \in CallsOn(calls, w)
    BY DEF Inv, CallsOn
  <2> QED
    BY <1>1, <2>1 DEF Inv, WorkerInv, Idle, CallInv
<1>7. Ready(host, w)
  BY HostsReady
<1>8. Dispatch(n, r, host, w) /\ UNCHANGED <<active, outbox>>
  BY <1>1 DEF UseStudy
<1>9. calls[r.handle].host = w /\ calls[r.handle].op = "create" /\ calls[r.handle].outcome = "ok"
  BY <1>1, <1>5
<1> HIDE DEF r, w
<1>10. Suits(r, host, w)
  BY <1>5, <1>6, <1>9 DEF Suits
<1>11. active' \in Engines \cup {None} /\ ActiveInv(active', host)
  BY <1>8 DEF Inv, TypeOK
<1> QED
  BY <1>4, <1>7, <1>8, <1>10, <1>11, DispatchInv

\* callIsolated.
LEMMA CallIsolatedInv ==
  ASSUME Inv, CallIsolated
  PROVE  Inv'
<1> DEFINE n == NextCall
<1>1. PICK op \in {"run", "solve"} \cap Ops, w \in Workers, state \in {"serving", "direct"} :
        /\ NewHost(w)
        /\ Dispatch(n, Request(op, None, w), Created(w, state, TRUE), w)
  BY DEF CallIsolated
<1> DEFINE r == Request(op, None, w)
           h == [host[w] EXCEPT !.state = state, !.isolated = TRUE]
           hs == [host EXCEPT ![w] = h]
<1>2. /\ Created(w, state, TRUE) = hs /\ host[w] \in HostRecords /\ host[w].state = "unused"
      /\ w \in Engines
  BY <1>1, PageIsNoWorker DEF Created, NewHost, Inv, TypeOK
<1>3. /\ h \in HostRecords /\ h.state = state /\ h.isolated /\ h.pending = host[w].pending
  BY <1>2 DEF HostRecords
<1>4. /\ r \in CallRecords /\ r.op = op /\ r.host = w /\ r.outcome = "pending" /\ ~r.aborted
  <2>1. op \in {"create", "edit", "free", "run", "solve"} /\ None \in Nat \cup {None}
    OBVIOUS
  <2> HIDE DEF r
  <2> QED
    BY <1>2, <2>1, RequestFields DEF r
<1>5. Ready(hs, w) /\ CallsOn(calls, w) = {} /\ hs[w] = h
  <2>1. hs = [host EXCEPT ![w] = h] /\ h.state \in {"serving", "direct"}
    BY <1>3
  <2> HIDE DEF hs, h
  <2> QED
    BY <1>2, <1>3, <2>1, CreatedReady
<1>6. Dispatch(n, r, hs, w) /\ UNCHANGED <<active, outbox>>
  BY <1>1, <1>2 DEF CallIsolated
<1>7. ActiveInv(active', hs) /\ active' \in Engines \cup {None}
  <2>1. active \in Workers => active # w /\ hs[active] = host[active]
    BY <1>2 DEF Inv, TypeOK, ActiveInv
  <2> QED
    BY <1>6, <2>1 DEF Inv, TypeOK, ActiveInv
<1> HIDE DEF r, h, hs
<1>8. Suits(r, hs, w)
  BY <1>3, <1>4, <1>5 DEF Suits
<1> QED
  BY <1>2, <1>5, <1>6, <1>7, <1>8, DispatchInv

------------------------------------------------------------------------------
(* The invariant. *)

\* It holds when the page has loaded.
LEMMA InitInv == Init => Inv
<1> SUFFICES ASSUME Init PROVE Inv
  OBVIOUS
<1> DEFINE z == <<>>
           e == NewEngine
<1>1. Page \notin Workers /\ Page \in Engines /\ Workers \subseteq Engines
  BY PageIsNoWorker
<1>2. /\ z \in Seq(Nat) /\ z \in Seq(Messages) /\ z \in Seq(AnswerRecords) /\ z \in Seq(CallRecords)
      /\ DOMAIN z = {} /\ calls = z
  BY EmptySeq DEF Init
<1>3. /\ \A w \in Workers : host[w].state = "unused" /\ host[w].pending = z
      /\ \A w \in Workers : thread[w].state = "none" /\ thread[w].inbox = z /\ outbox[w] = z
      /\ \A i \in Engines : engine[i] = e
  BY DEF Init
<1>4. TypeOK
  <2>1. host \in [Workers -> HostRecords]
    BY <1>2 DEF Init, HostRecords
  <2>2. thread \in [Workers -> ThreadRecords] /\ outbox \in [Workers -> Seq(AnswerRecords)]
    BY <1>2 DEF Init, ThreadRecords
  <2>3. engine = [i \in Engines |-> engine[i]] /\ active = None
    BY DEF Init
  <2>4. \A i \in Engines : IsEngine(engine[i])
    BY <1>3, NewEngineFacts
  <2> QED
    BY <1>2, <2>1, <2>2, <2>3, <2>4 DEF TypeOK
<1>5. ActiveInv(active, host)
  BY HostAssumption DEF Init, ActiveInv, Workers
<1> HIDE DEF e, z
<1>6. \A w \in Workers : WorkerInv(calls, w, host[w], thread[w], outbox[w], engine[w])
  <2> SUFFICES ASSUME NEW w \in Workers PROVE Idle(calls, w, host[w], thread[w], outbox[w], engine[w])
    BY <1>3 DEF WorkerInv
  <2>1. CallsOn(calls, w) = {}
    BY <1>2 DEF CallsOn
  <2> QED
    BY <1>1, <1>3, <2>1 DEF Idle, e, z
<1>7. PageInv(calls, host, engine[Page])
  <2>1. e.waiting = z /\ e.running = {} /\ e.finished = z /\ e.table = z
    BY DEF NewEngine, e, z
  <2>2. ToSet(z) = {} /\ CallsOf(z) = {} /\ Requested(z) = {} /\ Logs(z) = {}
    BY <1>2 DEF ToSet, CallsOf, Requested, Logs
  <2>3. Past(e) = {} /\ Coming(e, z) = {}
    BY <1>2, <2>1, <2>2 DEF Past, Coming
  <2>4. Orderly(calls, e, z)
    BY <1>2, <2>1, <2>2, <2>3 DEF Orderly
  <2>5. CallsOnPage(calls, host) = {}
    BY <1>2 DEF CallsOnPage
  <2>6. Kept(calls, CallsOnPage(calls, host), e, z)
    BY <2>5 DEF Kept
  <2>7. engine[Page] = e
    BY <1>1, <1>3
  <2> QED
    BY <2>3, <2>4, <2>5, <2>6, <2>7 DEF PageInv, z
<1>8. \A c \in DOMAIN calls : CallInv(calls, host, c)
  BY <1>2
<1> QED
  BY <1>4, <1>5, <1>6, <1>7, <1>8 DEF Inv

\* Every step preserves it.
LEMMA NextInv == Inv /\ [Next]_vars => Inv'
<1> SUFFICES ASSUME Inv, [Next]_vars PROVE Inv'
  OBVIOUS
<1>1. CASE UNCHANGED vars
  BY <1>1 DEF vars, Inv, TypeOK
<1>2. CASE PageStep
  BY <1>2, CreateStudyInv, UseStudyInv, CallIsolatedInv, AbortInv DEF PageStep
<1>3. ASSUME NEW w \in Workers, Receive(w) PROVE Inv'
  <2>1. CASE ReceiveAnswer(w)
    BY <2>1, ReceiveAnswerInv
  <2>2. CASE ReceiveFatal(w) \/ ReceiveError(w)
    BY <2>2, FailInv DEF ReceiveFatal, ReceiveError
  <2> QED
    BY <1>3, <2>1, <2>2 DEF Receive
<1>4. ASSUME NEW w \in Workers, TakeMessage(w) \/ WorkerError(w) \/ Answer(w) PROVE Inv'
  BY <1>4, TakeMessageInv, WorkerErrorInv, AnswerInv
<1>5. ASSUME NEW i \in Engines, EngineStep(i) \/ LoadFails(i) PROVE Inv'
  BY <1>5, LoadInv, LoadFailsInv, ExecuteInv, EndRunInv DEF EngineStep
<1>8. ASSUME NEW i \in Engines, NEW c \in engine[i].running, TrapRun(i, c) PROVE Inv'
  BY <1>8, TrapRunInv
<1>6. CASE DirectAnswer
  BY <1>6, DirectAnswerInv
<1>7. CASE Done
  BY <1>1, <1>7 DEF Done
<1> QED
  BY <1>1, <1>2, <1>3, <1>4, <1>5, <1>6, <1>7, <1>8 DEF Next

\* Whatever fails and whatever is aborted, every engine works on its own calls,
\* once each and edits in order, a host that serves owns its pending calls, and
\* every other call is with the page's engine (host.ts, worker.ts, module.ts).
THEOREM Invariance == Spec => []Inv
BY InitInv, NextInv, PTL DEF Spec

------------------------------------------------------------------------------
(* What follows for the page. *)

\* The host of a call.
LEMMA CallHost ==
  ASSUME Inv, NEW c \in DOMAIN calls
  PROVE  calls[c].host \in Engines
<1>1. calls \in Seq(CallRecords)
  BY DEF Inv, TypeOK
<1>2. calls[c] \in CallRecords
  BY <1>1, LenProperties, ElementOfSeq
<1> QED
  BY <1>2 DEF CallRecords

\* Only a serving host has pending calls, and they are its own.
LEMMA Owner ==
  ASSUME Inv, NEW w \in Workers, NEW c \in ToSet(host[w].pending)
  PROVE  host[w].state = "serving" /\ c \in DOMAIN calls /\ calls[c].host = w
<1>1. host[w].state = "serving"
  <2>1. host[w].pending # <<>>
    BY EmptySeq DEF ToSet
  <2> QED
    BY <2>1 DEF Inv, WorkerInv, Idle
<1>2. Serves(calls, w, host[w], thread[w], outbox[w], engine[w])
  BY <1>1, ServingFacts
<1> QED
  BY <1>1, <1>2 DEF Serves, CallsOn

\* A promise of callTimed (host.ts) is owned by exactly one side, which will be
\* heard of.
THEOREM PromisesAreOwned == Spec => []PendingIsOwnedOnce
<1>1. Inv => PendingIsOwnedOnce
  <2> SUFFICES ASSUME Inv, NEW c \in DOMAIN calls, calls[c].outcome = "pending"
               PROVE  LET owners == {w \in Workers : c \in ToSet(host[w].pending)} IN
                      \/ Carried(c, Page) /\ owners = {}
                      \/ /\ ~Carried(c, Page)
                         /\ \E w \in Workers :
                              /\ owners = {w}
                              /\ host[w].state = "serving"
                              /\ \/ Carried(c, w) \/ Posted(c, w) \/ Returning(c, w)
                                 \/ thread[w].state = "closed"
    BY DEF PendingIsOwnedOnce
  <2> DEFINE i == calls[c].host
             owners == {w \in Workers : c \in ToSet(host[w].pending)}
  <2>1. i \in Engines /\ PageInv(calls, host, engine[Page])
    BY CallHost DEF Inv
  <2>2. \A w \in owners : host[w].state = "serving" /\ i = w
    BY Owner
  <2>3. \A j \in Engines : Carried(c, j) <=>
          c \in ToSet(engine[j].waiting) \cup engine[j].running \cup CallsOf(engine[j].finished)
    BY DEF Carried, CallsOf
  <2>4. CASE OnPage(host, i)
    <3>1. c \in Carrying(engine[Page], <<>>)
      BY <2>1, <2>4 DEF PageInv, CallsOnPage
    <3>2. Requested(<<>>) = {}
      BY DEF Requested
    <3>3. Carried(c, Page)
      BY <2>3, <3>1, <3>2, PageIsNoWorker DEF Carrying, Coming
    <3>4. owners = {}
      BY <2>2, <2>4, PageIsNoWorker DEF OnPage
    <3> QED
      BY <3>3, <3>4
  <2>5. CASE ~OnPage(host, i)
    <3>1. i \in Workers /\ c \in CallsOn(calls, i)
      BY <2>1, <2>5 DEF OnPage, Engines, CallsOn
    <3>2. host[i].state = "serving"
      <4>1. host[i].state \in {"unused", "serving", "dropped"}
        <5>1. host[i] \in HostRecords
          BY <3>1 DEF Inv, TypeOK
        <5> QED
          BY <2>5, <3>1, <5>1 DEF OnPage, HostRecords
      <4> QED
        BY <3>1, <4>1 DEF Inv, WorkerInv, Idle
    <3> DEFINE t == thread[i]
               o == outbox[i]
               e == engine[i]
    <3>3. Serves(calls, i, host[i], t, o, e) /\ t \in ThreadRecords
      BY <3>1, <3>2, ServingFacts
    <3>4. c \in ToSet(host[i].pending)
      BY <3>1, <3>3 DEF Serves
    <3>5. owners = {i}
      BY <2>2, <3>1, <3>4
    <3>6. ~Carried(c, Page)
      <4>1. Carried(c, Page) => c \in Past(engine[Page]) \cup Coming(engine[Page], <<>>)
        BY <2>3, PageIsNoWorker DEF Past, Coming
      <4> QED
        BY <2>1, <2>5, <4>1 DEF PageInv, CallsOnPage
    <3>7. \/ t.state = "closed"
          \/ \E k \in DOMAIN o : o[k].answer \in {"fatal", "event"}
          \/ c \in Carrying(e, t.inbox) \/ c \in CallsOf(o)
      BY <3>3, <3>4 DEF Serves, Awaited
    <3>8. c \in CallsOf(o) => Returning(c, i)
      BY DEF CallsOf, Returning
    <3>9. c \in Carrying(e, t.inbox) => Carried(c, i) \/ c \in Requested(t.inbox)
      BY <2>1, <2>3 DEF Carrying, Coming
    <3>10. c \in Requested(t.inbox) => Posted(c, i)
      <4> SUFFICES ASSUME c \in Requested(t.inbox) PROVE Posted(c, i)
        OBVIOUS
      <4>1. PICK k \in DOMAIN t.inbox : t.inbox[k].type = "request" /\ t.inbox[k].call = c
        BY DEF Requested
      <4>2. t.inbox[k] \in Messages
        <5>1. t.inbox \in Seq(Messages)
          BY <3>3 DEF ThreadRecords
        <5> QED
          BY <5>1, LenProperties, ElementOfSeq
      <4>3. t.inbox[k] = [type |-> "request", call |-> c]
        BY <4>1, <4>2 DEF Messages
      <4> QED
        BY <4>3 DEF Posted
    <3>11. (\E k \in DOMAIN o : o[k].answer \in {"fatal", "event"}) => Returning(c, i)
      BY DEF Returning
    <3> QED
      BY <3>1, <3>2, <3>5, <3>6, <3>7, <3>8, <3>9, <3>10, <3>11
  <2> QED
    BY <2>4, <2>5
<1> QED
  BY <1>1, Invariance, PTL

\* An edit that was acknowledged is in the study that the next call on it
\* reaches: #fail (host.ts) replaces a worker only before its first answer.
THEOREM EditsAreKept == Spec => []AcknowledgedEditsKept
<1>1. Inv => AcknowledgedEditsKept
  <2> SUFFICES ASSUME Inv, NEW c \in DOMAIN calls, calls[c].op = "edit", calls[c].outcome = "ok",
                      Reachable(calls[c].host), ~Freed(calls[c].handle),
                      calls[c].host \in Workers => thread[calls[c].host].state # "closed"
               PROVE  LET table == engine[Serving(calls[c].host)].table IN
                      /\ calls[c].handle \in DOMAIN table
                      /\ \E k \in DOMAIN table[calls[c].handle] : table[calls[c].handle][k] = c
    BY DEF AcknowledgedEditsKept
  <2> DEFINE i == calls[c].host
             h == calls[c].handle
  <2>1. i \in Engines /\ ~IsFreed(calls, h)
    BY CallHost DEF Freed, IsFreed
  <2>2. Logged(engine[Serving(i)], h, c)
    <3>1. CASE i \in Workers /\ host[i].state = "serving"
      <4>1. Serves(calls, i, host[i], thread[i], outbox[i], engine[i])
        BY <3>1, ServingFacts
      <4>2. Kept(calls, CallsOn(calls, i), engine[i], outbox[i]) /\ c \in CallsOn(calls, i)
        BY <3>1, <4>1 DEF Serves, CallsOn
      <4>3. Serving(i) = i
        BY <3>1, PageIsNoWorker DEF Serving
      <4> QED
        BY <2>1, <4>2, <4>3 DEF Kept
    <3>2. CASE ~(i \in Workers /\ host[i].state = "serving")
      <4>1. OnPage(host, i) /\ Serving(i) = Page
        BY <2>1, <3>2, PageIsNoWorker DEF Reachable, OnPage, Engines, Serving
      <4>2. Kept(calls, CallsOnPage(calls, host), engine[Page], <<>>) /\ c \in CallsOnPage(calls, host)
        BY <4>1 DEF Inv, PageInv, CallsOnPage
      <4> QED
        BY <2>1, <4>1, <4>2 DEF Kept
    <3> QED
      BY <3>1, <3>2
  <2> QED
    BY <2>2 DEF Logged, ToSet
<1> QED
  BY <1>1, Invariance, PTL

\* A study's edits take effect once each, in the order in which the page asked
\* for them (scope.onmessage of worker.ts, the replay of host.ts).
THEOREM EditsAreOrdered == Spec => []EditsInOrder
<1>1. Inv => EditsInOrder
  <2> SUFFICES ASSUME Inv, NEW i \in Engines, NEW h \in DOMAIN engine[i].table,
                      NEW k \in 1..Len(engine[i].table[h]) - 1
               PROVE  engine[i].table[h][k] < engine[i].table[h][k + 1]
    BY DEF EditsInOrder
  <2> DEFINE e == engine[i]
             log == e.table[h]
  <2>1. \A x, y \in DOMAIN log : x < y => log[x] < log[y]
    <3>1. CASE i \in Workers /\ host[i].state # "serving"
      <4>1. e = NewEngine
        BY <3>1, WorkingServes
      <4>2. DOMAIN e.table = {}
        BY <4>1 DEF NewEngine
      <4> QED
        BY <4>2
    <3>2. CASE i \in Workers => host[i].state = "serving"
      <4>1. Orderly(calls, e, Inbox(i))
        BY <3>2, EngineFacts
      <4> QED
        BY <4>1 DEF Orderly
    <3> QED
      BY <3>1, <3>2
  <2>2. log \in Seq(Nat)
    BY DEF Inv, TypeOK, IsEngine
  <2>3. Len(log) \in Nat /\ DOMAIN log = 1..Len(log) /\ k \in 1..Len(log) - 1
    BY <2>2, LenProperties
  <2> HIDE DEF log
  <2>4. k \in DOMAIN log /\ k + 1 \in DOMAIN log /\ k < k + 1
    BY <2>3
  <2>5. log[k] < log[k + 1]
    BY <2>1, <2>4
  <2> QED
    BY <2>5 DEF log
<1> QED
  BY <1>1, Invariance, PTL

\* What an instance computed after a trap never reaches a caller of its worker:
\* the fatal answer is posted first and rejects the rest (worker.ts, host.ts).
THEOREM AnswersAreSound == Spec => []WorkerAnswersAreSound
<1>1. Inv => WorkerAnswersAreSound
  <2> SUFFICES ASSUME Inv, NEW c \in DOMAIN calls, calls[c].outcome = "ok", calls[c].host # Page,
                      host[calls[c].host].state \in {"serving", "dropped"}
               PROVE  calls[c].sound
    BY DEF WorkerAnswersAreSound
  <2> DEFINE w == calls[c].host
  <2>1. w \in Workers /\ c \in CallsOn(calls, w)
    BY CallHost DEF Engines, CallsOn
  <2>2. WorkerInv(calls, w, host[w], thread[w], outbox[w], engine[w])
    BY <2>1 DEF Inv
  <2> QED
    BY <2>1, <2>2 DEF WorkerInv, Serves, Idle
<1> QED
  BY <1>1, Invariance, PTL

\* A run in a worker that was asked to stop sees it at its next trial
\* (cancelledOperations of worker.ts), also when the stop came first.
THEOREM StopsAreSeen == Spec => []WorkerSeesStop
<1>1. Inv => WorkerSeesStop
  <2> SUFFICES ASSUME Inv, NEW c \in DOMAIN calls, NEW w \in Workers, calls[c].aborted,
                      c \in engine[w].running
               PROVE  \/ c \in engine[w].stops
                      \/ w # Page /\ \E k \in DOMAIN thread[w].inbox :
                                       thread[w].inbox[k] = [type |-> "stop", call |-> c]
    BY DEF WorkerSeesStop, SeesStop
  <2>1. engine[w] # NewEngine
    BY DEF NewEngine
  <2>2. Serves(calls, w, host[w], thread[w], outbox[w], engine[w])
    BY <2>1, WorkingServes
  <2>3. calls[c].op = "run"
    BY <2>2 DEF Serves, Orderly
  <2> QED
    BY <2>2, <2>3, PageIsNoWorker DEF Serves, StopsArrive, Stop
<1> QED
  BY <1>1, Invariance, PTL
==============================================================================
