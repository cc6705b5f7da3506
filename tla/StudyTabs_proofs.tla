-------------------------- MODULE StudyTabs_proofs --------------------------
(***************************************************************************)
(* Proofs about the browser's Studies, for any number of tabs, operations, *)
(* approval tokens and queued requests.                                    *)
(*                                                                         *)
(* The argument: a tab's copy is an earlier version of the stored Study,   *)
(* and the stored Study itself when the revisions agree (Past).  So a save *)
(* that passes the revision check adds one operation to what is stored,    *)
(* and what the tab knew about its copy, its approvals above all, still    *)
(* holds of what it overwrites.                                            *)
(***************************************************************************)
EXTENDS StudyTabs, SequenceTheorems, TLAPS

Stages == {"idle", "creating", "running", "committing", "publishing"}
Results == {"unused", "pending", "resolved", "rejected", "abandoned"}

TypeOK ==
  /\ stored \in Bundles \cup {NoBundle}
  /\ bundle \in [Tabs -> Bundles \cup {NoBundle}]
  /\ queue \in [Tabs -> Seq(Requests)]
  /\ stage \in [Tabs -> Stages]
  /\ completed \in [Tabs -> Bundles \cup {NoBundle}]
  /\ approvals \in [Tabs -> SUBSET Approvals]
  /\ outcome \in [Ops -> Results]

\* d is a version of s, and s itself when it is as long.
Past(d, s) ==
  /\ d \in Bundles
  /\ s \in Bundles
  /\ d.study = s.study
  /\ Len(d.log) <= Len(s.log)
  /\ \A i \in 1..Len(d.log) : d.log[i] = s.log[i]
  /\ Len(d.log) = Len(s.log) => d = s

\* From revision `seen` to revision n, only inspections were committed to d.
Quiet(d, seen, n) == \A j \in (seen + 1)..n : d.log[j].kind = "inspect"

\* The applied proposals of d were approved.
Approved(d) ==
  \A i \in 1..Len(d.log) : d.log[i].kind = "apply" =>
    d.log[i].seen \in Nat /\ Quiet(d, d.log[i].seen, i - 1)

Busy == {"running", "committing", "publishing"}

\* A tab with the copy b, the queue q, at stage g, with the answer c.
Copies(s, b, q, g, c) ==
  /\ b # NoBundle => Past(b, s)
  /\ q # <<>> => b # NoBundle
  /\ g = "creating" => b = NoBundle /\ Past(c, s)
  /\ g \in Busy => q # <<>> /\ Head(q).expected = Revision(b)
  /\ g \in {"committing", "publishing"} => c \in Answers(b, Head(q))
  /\ g = "publishing" => Past(c, s)

\* The approvals of a tab are for what the tab shows.
Held(b, held) ==
  \A a \in held :
    /\ b # NoBundle
    /\ a.revision = Revision(b)
    /\ b.goal = a.goal
    /\ b.recommended = a.state
    /\ \E p \in b.proposals : p.id = a.proposal /\ p.base = a.base
    /\ a.seen <= a.revision
    /\ Quiet(b, a.seen, a.revision)

\* So were the ones of its queued requests when they were queued.
Asked(b, q) ==
  \A i \in 1..Len(q) : q[i].kind = "apply" =>
    /\ q[i].approval # None
    /\ q[i].expected = q[i].approval.revision
    /\ q[i].expected <= Revision(b)
    /\ Quiet(b, q[i].approval.seen, q[i].expected)

SavedOps(d) == {e.op : e \in Range(d.log)}

\* A queued request is pending, and saved only while its save is being reported.
QueuedOps ==
  \A t \in Tabs : \A i \in 1..Len(queue[t]) :
    /\ outcome[queue[t][i].op] = "pending"
    /\ queue[t][i].op # stored.study
    /\ queue[t][i].op \in SavedOps(stored) => stage[t] = "publishing" /\ i = 1

\* No operation is queued twice, in a tab or in two.
QueuedOnce ==
  \A t, u \in Tabs : \A i \in 1..Len(queue[t]), j \in 1..Len(queue[u]) :
    queue[t][i].op = queue[u][j].op => t = u /\ i = j

\* An identity that was not used is nowhere in the store, and none is used
\* before there is a Study.
UnusedOps ==
  \A o \in Ops :
    /\ stored = NoBundle => outcome[o] = "unused"
    /\ stored # NoBundle /\ outcome[o] = "unused" =>
         o \notin SavedOps(stored) /\ o # stored.study

\* OutcomeIsTrue, in terms of SavedOps.
OutcomesHold ==
  stored # NoBundle =>
    \A o \in Ops \ {stored.study} :
      /\ outcome[o] = "resolved" => o \in SavedOps(stored)
      /\ outcome[o] = "rejected" => o \notin SavedOps(stored)

\* The inductive invariant.
Inv ==
  /\ TypeOK
  /\ stored # NoBundle => Approved(stored)
  /\ \A t \in Tabs : Copies(stored, bundle[t], queue[t], stage[t], completed[t])
  /\ \A t \in Tabs : Held(bundle[t], approvals[t])
  /\ \A t \in Tabs : Asked(bundle[t], queue[t])
  /\ QueuedOps
  /\ QueuedOnce
  /\ UnusedOps
  /\ OutcomesHold

------------------------------------------------------------------------------
(* Versions of a Study. *)

\* A bundle's revision is a number and its log a sequence of entries.
LEMMA LogFacts ==
  ASSUME NEW d \in Bundles
  PROVE  /\ d.log \in Seq(Entries)
         /\ Len(d.log) \in Nat
         /\ d # NoBundle
         /\ DOMAIN d.log = 1..Len(d.log)
         /\ \A i \in 1..Len(d.log) : d.log[i] \in Entries
<1>1. d.log \in Seq(Entries) /\ d # NoBundle BY TabsAssumption DEF Bundles
<1>2. Len(d.log) \in Nat /\ DOMAIN d.log = 1..Len(d.log) BY <1>1, LenProperties
<1>3. \A i \in 1..Len(d.log) : d.log[i] \in Entries BY <1>1, ElementOfSeq
<1> QED BY <1>1, <1>2, <1>3

\* The operations in a log, by position.
LEMMA SavedOpsFacts ==
  ASSUME NEW d \in Bundles
  PROVE  /\ SavedOps(d) = {d.log[i].op : i \in 1..Len(d.log)}
         /\ SavedOps(d) \subseteq Ops
<1>1. /\ DOMAIN d.log = 1..Len(d.log)
      /\ \A i \in 1..Len(d.log) : d.log[i] \in Entries
  BY LogFacts
<1>2. SavedOps(d) = {d.log[i].op : i \in 1..Len(d.log)} BY <1>1 DEF SavedOps, Range
<1>3. \A e \in Entries : e.op \in Ops BY DEF Entries
<1> QED BY <1>1, <1>2, <1>3

\* A version is a version of itself.
LEMMA PastReflexive ==
  ASSUME NEW d \in Bundles
  PROVE  Past(d, d)
BY LogFacts DEF Past

\* A version of a version is a version.
LEMMA PastTransitive ==
  ASSUME NEW a, NEW b, NEW c, Past(a, b), Past(b, c)
  PROVE  Past(a, c)
<1>1. a \in Bundles /\ b \in Bundles /\ c \in Bundles BY DEF Past
<1>2. Len(a.log) \in Nat /\ Len(b.log) \in Nat /\ Len(c.log) \in Nat BY <1>1, LogFacts
<1>3. \A i \in 1..Len(a.log) : i \in 1..Len(b.log) BY <1>2 DEF Past
<1> QED BY <1>1, <1>2, <1>3 DEF Past

\* What was quiet in a version is quiet in the later ones.
LEMMA QuietPast ==
  ASSUME NEW d, NEW s, Past(d, s), NEW seen \in Nat, NEW n \in Nat, n <= Len(d.log),
         Quiet(d, seen, n)
  PROVE  Quiet(s, seen, n)
<1>1. Len(d.log) \in Nat BY LogFacts DEF Past
<1>2. \A j \in (seen + 1)..n : j \in 1..Len(d.log) BY <1>1
<1> QED BY <1>2 DEF Quiet, Past

\* The entry that a request leaves in the log.
Entry(r) ==
  [op |-> r.op, kind |-> r.kind, seen |-> IF r.approval = None THEN None ELSE r.approval.seen]

\* What the engine's answers to a request (executeStudyDocument) have in common.
LEMMA AnswerFacts ==
  ASSUME NEW d \in Bundles, NEW r \in Requests, r.kind = "apply" => r.approval # None,
         NEW x \in Answers(d, r)
  PROVE  /\ x \in Bundles
         /\ x.study = d.study
         /\ x.log = Append(d.log, Entry(r))
         /\ r.kind = "inspect" =>
              x.goal = d.goal /\ x.recommended = d.recommended /\ x.proposals = d.proposals
<1> DEFINE log == Append(d.log, Entry(r))
           next == [d EXCEPT !.log = log]
           made == [next EXCEPT !.proposals = @ \cup {Proposal(d, r.op)}]
<1>1. Entry(r) \in Entries
  BY DEF Entry, Entries, Requests, Approvals
<1>2. log \in Seq(Entries) BY <1>1, LogFacts, AppendProperties
<1>3. \/ r.kind \in {"inspect", "branch"} /\ x = next
      \/ r.kind = "revise_goal" /\ x = [next EXCEPT !.goal = r.op, !.recommended = None]
      \/ r.kind = "edit_demand" /\ x = [made EXCEPT !.recommended = r.op]
      \/ r.kind = "edit_demand" /\ x = [next EXCEPT !.recommended = None]
      \/ r.kind = "propose" /\ x = [made EXCEPT !.recommended = r.op]
      \/ r.kind = "propose" /\ x = next
      \/ r.kind = "apply" /\ x = [next EXCEPT !.applied = r.approval.state]
  <2>1. r.kind \in {"inspect", "branch", "revise_goal", "edit_demand", "propose", "apply"}
    BY TabsAssumption DEF Requests
  <2>2. x \in CASE r.kind \in {"inspect", "branch"} -> {next}
              [] r.kind = "revise_goal" -> {[next EXCEPT !.goal = r.op, !.recommended = None]}
              [] r.kind = "edit_demand" -> {[made EXCEPT !.recommended = r.op],
                                            [next EXCEPT !.recommended = None]}
              [] r.kind = "propose" -> {[made EXCEPT !.recommended = r.op], next}
              [] r.kind = "apply" -> IF Binds(d, r.approval)
                                     THEN {[next EXCEPT !.applied = r.approval.state]} ELSE {}
    BY DEF Answers, Entry
  <2> HIDE DEF next, made
  <2>3. CASE r.kind \in {"inspect", "branch"} BY <2>2, <2>3
  <2>4. CASE r.kind = "revise_goal" BY <2>2, <2>4
  <2>5. CASE r.kind = "edit_demand" BY <2>2, <2>5
  <2>6. CASE r.kind = "propose" BY <2>2, <2>6
  <2>7. CASE r.kind = "apply" BY <2>2, <2>7
  <2> QED BY <2>1, <2>3, <2>4, <2>5, <2>6, <2>7
<1>4. r.op \in Ops /\ (r.kind = "apply" => r.approval.state \in Ops)
  BY DEF Requests, Approvals
<1>5. Proposal(d, r.op) \in Proposals BY <1>4 DEF Proposal, Proposals, Bundles
<1> HIDE DEF log
<1>6. next \in Bundles /\ next.study = d.study /\ next.log = log
      /\ next.goal = d.goal /\ next.recommended = d.recommended
      /\ next.proposals = d.proposals
  BY <1>2 DEF Bundles
<1> HIDE DEF next
<1>7. made \in Bundles /\ made.study = d.study /\ made.log = log
  BY <1>5, <1>6 DEF Bundles
<1> HIDE DEF made
<1>8. x \in Bundles /\ x.study = d.study /\ x.log = log
  BY <1>3, <1>4, <1>6, <1>7 DEF Bundles
<1>9. r.kind = "inspect" =>
        x.goal = d.goal /\ x.recommended = d.recommended /\ x.proposals = d.proposals
  BY <1>3, <1>6
<1> QED BY <1>8, <1>9 DEF log

\* An answer is the next version, with one operation more.
LEMMA AnswerIsNext ==
  ASSUME NEW d \in Bundles, NEW r \in Requests, r.kind = "apply" => r.approval # None,
         NEW x \in Answers(d, r)
  PROVE  /\ x \in Bundles
         /\ Past(d, x)
         /\ Revision(x) = Revision(d) + 1
         /\ x.log[Revision(x)] = Entry(r)
         /\ SavedOps(x) = SavedOps(d) \cup {r.op}
<1> DEFINE n == Len(d.log)
<1>1. /\ x \in Bundles /\ x.study = d.study /\ x.log = Append(d.log, Entry(r))
  BY AnswerFacts
<1>2. d.log \in Seq(Entries) /\ n \in Nat BY LogFacts
<1>3. Entry(r) \in Entries BY DEF Entry, Entries, Requests, Approvals
<1>4. /\ Len(x.log) = n + 1 /\ x.log[n + 1] = Entry(r)
      /\ \A i \in 1..n : x.log[i] = d.log[i]
  BY <1>1, <1>2, <1>3, AppendProperties
<1>5. Past(d, x) BY <1>1, <1>2, <1>4 DEF Past
<1>6. SavedOps(x) = SavedOps(d) \cup {r.op}
  <2>1. /\ SavedOps(x) = {x.log[i].op : i \in 1..(n + 1)}
        /\ SavedOps(d) = {d.log[i].op : i \in 1..n}
    BY <1>1, <1>4, SavedOpsFacts
  <2>2. Entry(r).op = r.op BY DEF Entry
  <2>3. \A i \in 1..(n + 1) : i \in 1..n \/ i = n + 1 BY <1>2
  <2>4. (1..n) \subseteq 1..(n + 1) /\ n + 1 \in 1..(n + 1) BY <1>2
  <2> DEFINE f(i) == x.log[i].op
  <2>5. \A i \in 1..n : f(i) = d.log[i].op BY <1>4
  <2>6. f(n + 1) = r.op BY <1>4, <2>2
  <2> HIDE DEF f
  <2>7. {f(i) : i \in 1..(n + 1)} = {f(i) : i \in 1..n} \cup {f(n + 1)} BY <2>3, <2>4
  <2>8. {f(i) : i \in 1..n} = {d.log[i].op : i \in 1..n} BY <2>5
  <2>9. SavedOps(x) = {f(i) : i \in 1..(n + 1)} BY <2>1 DEF f
  <2> QED BY <2>1, <2>6, <2>7, <2>8, <2>9
<1> QED BY <1>1, <1>4, <1>5, <1>6 DEF Revision

------------------------------------------------------------------------------
(* Tabs and queues. *)

\* A tab that follows a version follows the later ones.
LEMMA CopiesPast ==
  ASSUME NEW s, NEW s2, Past(s, s2), NEW b, NEW q, NEW g, NEW c, Copies(s, b, q, g, c)
  PROVE  Copies(s2, b, q, g, c)
BY PastTransitive DEF Copies

\* A queue that is not empty has a first request and a rest.
LEMMA QueueFacts ==
  ASSUME NEW q \in Seq(Requests), q # <<>>
  PROVE  /\ Len(q) \in Nat /\ 1 \in 1..Len(q)
         /\ Head(q) = q[1] /\ q[1] \in Requests
         /\ Tail(q) \in Seq(Requests)
         /\ Len(Tail(q)) \in Nat /\ Len(Tail(q)) = Len(q) - 1
         /\ \A i \in 1..Len(Tail(q)) : i + 1 \in 1..Len(q) /\ Tail(q)[i] = q[i + 1]
<1>1. Len(q) \in Nat BY LenProperties
<1>2. Len(q) # 0 BY EmptySeq
<1>3. 1 \in 1..Len(q) BY <1>1, <1>2
<1>4. q[1] \in Requests BY <1>3, ElementOfSeq
<1>5. /\ Head(q) = q[1]
      /\ Tail(q) \in Seq(Requests)
      /\ Len(Tail(q)) = Len(q) - 1
      /\ \A i \in 1..Len(Tail(q)) : Tail(q)[i] = q[i + 1]
  BY HeadTailProperties
<1>6. Len(Tail(q)) \in Nat BY <1>5, LenProperties
<1>7. \A i \in 1..Len(Tail(q)) : i + 1 \in 1..Len(q) BY <1>1, <1>5, <1>6
<1> QED BY <1>1, <1>3, <1>4, <1>5, <1>6, <1>7

\* An empty queue asks for nothing.
LEMMA EmptyQueue ==
  /\ <<>> \in Seq(Requests)
  /\ Len(<<>>) = 0
  /\ 1..Len(<<>>) = {}
<1>1. <<>> \in Seq(Requests) /\ Len(<<>>) = 0 BY EmptySeq
<1> QED BY <1>1

\* What the invariant says of a tab that has requests.
LEMMA CurrentFacts ==
  ASSUME Inv, NEW t \in Tabs, queue[t] # <<>>
  PROVE  /\ bundle[t] \in Bundles /\ stored \in Bundles
         /\ Past(bundle[t], stored)
         /\ queue[t] \in Seq(Requests)
         /\ Current(t) = queue[t][1] /\ Current(t) \in Requests
         /\ 1 \in 1..Len(queue[t])
         /\ Current(t).op \in Ops
         /\ outcome[Current(t).op] = "pending"
         /\ Current(t).op # stored.study
         /\ stage[t] # "creating"
         /\ Current(t).kind = "apply" =>
              /\ Current(t).approval \in Approvals
              /\ Current(t).expected = Current(t).approval.revision
              /\ Quiet(bundle[t], Current(t).approval.seen, Current(t).expected)
<1>1. Copies(stored, bundle[t], queue[t], stage[t], completed[t]) BY DEF Inv
<1>2. Past(bundle[t], stored) /\ bundle[t] # NoBundle /\ stage[t] # "creating"
  BY <1>1 DEF Copies
<1>3. bundle[t] \in Bundles /\ stored \in Bundles BY <1>2 DEF Past
<1>4. queue[t] \in Seq(Requests) BY DEF Inv, TypeOK
<1>5. Current(t) = queue[t][1] /\ Current(t) \in Requests /\ 1 \in 1..Len(queue[t])
  BY <1>4, QueueFacts DEF Current
<1>6. Asked(bundle[t], queue[t]) BY DEF Inv
<1>7. Current(t).kind = "apply" =>
        /\ Current(t).approval # None
        /\ Current(t).expected = Current(t).approval.revision
        /\ Quiet(bundle[t], Current(t).approval.seen, Current(t).expected)
  BY <1>5, <1>6 DEF Asked
<1>8. Current(t).op \in Ops /\ Current(t).approval \in Approvals \cup {None}
  BY <1>5 DEF Requests
<1>9. outcome[Current(t).op] = "pending" /\ Current(t).op # stored.study
  BY <1>5 DEF Inv, QueuedOps
<1> QED BY <1>2, <1>3, <1>4, <1>5, <1>7, <1>8, <1>9

\* What the invariant says of a closed tab.
LEMMA ClosedFacts ==
  ASSUME Inv, NEW t \in Tabs, bundle[t] = NoBundle
  PROVE  /\ queue[t] = <<>> /\ approvals[t] = {}
         /\ stage[t] \in {"idle", "creating"}
<1>1. Copies(stored, bundle[t], queue[t], stage[t], completed[t]) BY DEF Inv
<1>2. queue[t] = <<>> BY <1>1 DEF Copies
<1>3. stage[t] \notin Busy BY <1>1, <1>2 DEF Copies
<1>4. stage[t] \in {"idle", "creating"} BY <1>3 DEF Inv, TypeOK, Stages, Busy
<1>5. Held(NoBundle, approvals[t]) BY DEF Inv
<1>6. approvals[t] = {} BY <1>5 DEF Held
<1> QED BY <1>2, <1>4, <1>6

\* Before there is a Study, every tab is closed and idle.
LEMMA BeforeCreate ==
  ASSUME Inv, stored = NoBundle, NEW t \in Tabs
  PROVE  bundle[t] = NoBundle /\ stage[t] = "idle"
<1>1. Copies(stored, bundle[t], queue[t], stage[t], completed[t]) BY DEF Inv
<1>2. ~ Past(bundle[t], stored) /\ ~ Past(completed[t], stored)
  BY TabsAssumption DEF Past
<1>3. bundle[t] = NoBundle /\ stage[t] # "creating" BY <1>1, <1>2 DEF Copies
<1> QED BY <1>3, ClosedFacts

------------------------------------------------------------------------------
(* One lemma per action. *)

\* Nothing is stored, nothing is open.
LEMMA InitInv == Init => Inv
<1> SUFFICES ASSUME Init PROVE Inv OBVIOUS
<1>1. TypeOK BY EmptyQueue DEF Init, TypeOK, Stages, Results
<1>2. \A t \in Tabs : Copies(stored, bundle[t], queue[t], stage[t], completed[t])
  BY DEF Init, Copies, Busy
<1>3. \A t \in Tabs : Held(bundle[t], approvals[t]) /\ Asked(bundle[t], queue[t])
  BY EmptyQueue DEF Init, Held, Asked
<1>4. QueuedOps /\ QueuedOnce BY EmptyQueue DEF Init, QueuedOps, QueuedOnce
<1>5. UnusedOps /\ OutcomesHold BY DEF Init, UnusedOps, OutcomesHold
<1>6. stored = NoBundle BY DEF Init
<1> QED BY <1>1, <1>2, <1>3, <1>4, <1>5, <1>6 DEF Inv

\* Aborts and reports of saves are not part of the invariant.
LEMMA FrameInv ==
  ASSUME Inv, UNCHANGED <<stored, bundle, queue, stage, completed, approvals, outcome>>
  PROVE  Inv'
<1>1. TypeOK' BY DEF Inv, TypeOK
<1>2. \A t \in Tabs : Copies(stored, bundle[t], queue[t], stage[t], completed[t])' BY DEF Inv
<1>3. \A t \in Tabs : Held(bundle[t], approvals[t])' /\ Asked(bundle[t], queue[t])' BY DEF Inv
<1>4. QueuedOps' /\ QueuedOnce' BY DEF Inv, QueuedOps, QueuedOnce
<1>5. UnusedOps' /\ OutcomesHold' BY DEF Inv, UnusedOps, OutcomesHold
<1>6. (stored # NoBundle => Approved(stored))' BY DEF Inv
<1> QED BY <1>1, <1>2, <1>3, <1>4, <1>5, <1>6 DEF Inv

\* StudyDocumentController.create, up to the stored bundle.
LEMMA CreateInv ==
  ASSUME Inv, NEW t \in Tabs, NEW op \in Ops, Create(t, op)
  PROVE  Inv'
<1> DEFINE new == [study |-> op, goal |-> op, recommended |-> None, applied |-> op,
                   proposals |-> {}, log |-> <<>>]
<1>1. /\ stored = NoBundle /\ stored' = new
      /\ completed' = [completed EXCEPT ![t] = new]
      /\ stage' = [stage EXCEPT ![t] = "creating"]
      /\ outcome' = [outcome EXCEPT ![op] = "pending"]
      /\ bundle' = bundle /\ queue' = queue /\ approvals' = approvals
  BY DEF Create
<1>2. new \in Bundles /\ new.log = <<>> /\ new.study = op
  <2>1. <<>> \in Seq(Entries) BY EmptySeq
  <2> QED BY <2>1 DEF Bundles
<1> HIDE DEF new
<1>3. \A u \in Tabs : /\ bundle[u] = NoBundle /\ stage[u] = "idle"
                      /\ queue[u] = <<>> /\ approvals[u] = {}
  BY <1>1, BeforeCreate, ClosedFacts
<1>4. TypeOK' BY <1>1, <1>2 DEF Inv, TypeOK, Stages, Results
<1>5. Approved(new) BY <1>2, EmptyQueue DEF Approved
<1>6. ASSUME NEW u \in Tabs
      PROVE  Copies(stored, bundle[u], queue[u], stage[u], completed[u])'
  <2>1. bundle'[u] = NoBundle /\ queue'[u] = <<>> BY <1>1, <1>3
  <2>2. CASE u = t
    <3>1. stage'[u] = "creating" /\ completed'[u] = new
      BY <1>1, <2>2 DEF Inv, TypeOK
    <3>2. Past(new, new) BY <1>2, PastReflexive
    <3> QED BY <1>1, <2>1, <3>1, <3>2 DEF Copies, Busy
  <2>3. CASE u # t
    <3>1. stage'[u] = "idle" BY <1>1, <1>3, <2>3 DEF Inv, TypeOK
    <3> QED BY <2>1, <3>1 DEF Copies, Busy
  <2> QED BY <2>2, <2>3
<1>7. \A u \in Tabs : Held(bundle[u], approvals[u])' /\ Asked(bundle[u], queue[u])'
  BY <1>1, <1>3, EmptyQueue DEF Held, Asked
<1>8. QueuedOps' /\ QueuedOnce' BY <1>1, <1>3, EmptyQueue DEF QueuedOps, QueuedOnce
<1>9. SavedOps(new) = {}
  <2>1. SavedOps(new) = {new.log[i].op : i \in 1..Len(new.log)} BY <1>2, SavedOpsFacts
  <2> QED BY <1>2, <2>1, EmptyQueue
<1>10. new # NoBundle BY <1>2, LogFacts
<1>11. \A o \in Ops : outcome'[o] = IF o = op THEN "pending" ELSE "unused"
  BY <1>1 DEF Inv, TypeOK, UnusedOps
<1>12. UnusedOps' BY <1>1, <1>2, <1>9, <1>10, <1>11 DEF UnusedOps
<1>13. OutcomesHold' BY <1>1, <1>2, <1>11 DEF OutcomesHold
<1> QED BY <1>1, <1>4, <1>5, <1>6, <1>7, <1>8, <1>12, <1>13 DEF Inv

\* create's promise is resolved.
LEMMA CreatedInv ==
  ASSUME Inv, NEW t \in Tabs, Created(t)
  PROVE  Inv'
<1> DEFINE b == completed[t]
<1>1. /\ stage[t] = "creating" /\ stored' = stored
      /\ bundle' = [bundle EXCEPT ![t] = b]
      /\ outcome' = [outcome EXCEPT ![b.study] = "resolved"]
      /\ stage' = [stage EXCEPT ![t] = "idle"]
      /\ completed' = [completed EXCEPT ![t] = NoBundle]
      /\ queue' = queue /\ approvals' = approvals
  BY DEF Created
<1>2. Copies(stored, bundle[t], queue[t], stage[t], completed[t]) BY DEF Inv
<1>3. bundle[t] = NoBundle /\ Past(b, stored) BY <1>1, <1>2 DEF Copies
<1>4. b \in Bundles /\ stored \in Bundles /\ b.study = stored.study BY <1>3 DEF Past
<1>5. queue[t] = <<>> /\ approvals[t] = {} BY <1>3, ClosedFacts
<1> HIDE DEF b
<1>6. b.study \in Ops BY <1>4 DEF Bundles
<1>7. TypeOK' BY <1>1, <1>4, <1>6 DEF Inv, TypeOK, Stages, Results
<1>8. ASSUME NEW u \in Tabs
      PROVE  /\ Copies(stored, bundle[u], queue[u], stage[u], completed[u])'
             /\ Held(bundle[u], approvals[u])'
             /\ Asked(bundle[u], queue[u])'
  <2>1. CASE u = t
    <3>1. /\ bundle'[u] = b /\ stage'[u] = "idle" /\ queue'[u] = <<>>
          /\ approvals'[u] = {}
      BY <1>1, <1>5, <2>1 DEF Inv, TypeOK
    <3> QED BY <1>1, <1>3, <3>1, EmptyQueue DEF Copies, Held, Asked, Busy
  <2>2. CASE u # t
    <3>1. /\ bundle'[u] = bundle[u] /\ stage'[u] = stage[u] /\ queue'[u] = queue[u]
          /\ completed'[u] = completed[u] /\ approvals'[u] = approvals[u]
      BY <1>1, <2>2 DEF Inv, TypeOK
    <3> QED BY <1>1, <3>1 DEF Inv
  <2> QED BY <2>1, <2>2
<1>9. \A o \in Ops \ {stored.study} : outcome'[o] = outcome[o]
  BY <1>1, <1>4 DEF Inv, TypeOK
<1>10. QueuedOps'
  <2>1. ASSUME NEW u \in Tabs, NEW i \in 1..Len(queue[u])
        PROVE  /\ outcome'[queue[u][i].op] = "pending"
               /\ queue[u][i].op \in SavedOps(stored) => stage'[u] = "publishing" /\ i = 1
    <3>1. queue[u] \in Seq(Requests) BY DEF Inv, TypeOK
    <3>2. queue[u][i] \in Requests BY <3>1, ElementOfSeq
    <3>3. queue[u][i].op \in Ops BY <3>2 DEF Requests
    <3>4. u # t BY <1>5, EmptyQueue
    <3>5. stage'[u] = stage[u] BY <1>1, <3>4 DEF Inv, TypeOK
    <3> QED BY <1>9, <3>3, <3>5 DEF Inv, QueuedOps
  <2> QED BY <1>1, <2>1 DEF Inv, QueuedOps
<1>11. QueuedOnce' BY <1>1 DEF Inv, QueuedOnce
<1>12. stored # NoBundle BY <1>4, LogFacts
<1>13. UnusedOps'
  <2>1. outcome'[stored.study] = "resolved" BY <1>1, <1>4, <1>6 DEF Inv, TypeOK
  <2> QED BY <1>1, <1>9, <1>12, <2>1 DEF Inv, UnusedOps
<1>14. OutcomesHold' BY <1>1, <1>9 DEF Inv, OutcomesHold
<1>15. (stored # NoBundle => Approved(stored))' BY <1>1 DEF Inv
<1> QED BY <1>7, <1>8, <1>10, <1>11, <1>13, <1>14, <1>15 DEF Inv

\* StudyDocumentController.open.
LEMMA OpenInv ==
  ASSUME Inv, NEW t \in Tabs, Open(t)
  PROVE  Inv'
<1>1. /\ bundle[t] = NoBundle /\ stage[t] = "idle" /\ stored # NoBundle
      /\ bundle' = [bundle EXCEPT ![t] = stored]
      /\ UNCHANGED <<stored, queue, stage, completed, approvals, outcome>>
  BY DEF Open
<1>2. stored \in Bundles BY <1>1 DEF Inv, TypeOK
<1>3. Past(stored, stored) BY <1>2, PastReflexive
<1>4. queue[t] = <<>> /\ approvals[t] = {} BY <1>1, ClosedFacts
<1>5. TypeOK' BY <1>1, <1>2 DEF Inv, TypeOK
<1>6. ASSUME NEW u \in Tabs
      PROVE  /\ Copies(stored, bundle[u], queue[u], stage[u], completed[u])'
             /\ Held(bundle[u], approvals[u])'
             /\ Asked(bundle[u], queue[u])'
  <2>1. CASE u = t
    <3>1. bundle'[u] = stored BY <1>1, <2>1 DEF Inv, TypeOK
    <3> QED BY <1>1, <1>3, <1>4, <2>1, <3>1, EmptyQueue DEF Copies, Held, Asked, Busy
  <2>2. CASE u # t
    <3>1. bundle'[u] = bundle[u] BY <1>1, <2>2 DEF Inv, TypeOK
    <3> QED BY <1>1, <3>1 DEF Inv
  <2> QED BY <2>1, <2>2
<1>7. QueuedOps' /\ QueuedOnce' BY <1>1 DEF Inv, QueuedOps, QueuedOnce
<1>8. UnusedOps' /\ OutcomesHold' BY <1>1 DEF Inv, UnusedOps, OutcomesHold
<1>9. (stored # NoBundle => Approved(stored))' BY <1>1 DEF Inv
<1> QED BY <1>5, <1>6, <1>7, <1>8, <1>9 DEF Inv

\* recordUserApproval: the approval is for the revision on screen.
LEMMA RecordUserApprovalInv ==
  ASSUME Inv, NEW t \in Tabs, NEW token \in Tokens, RecordUserApproval(t, token)
  PROVE  Inv'
<1> DEFINE n == Revision(bundle[t])
<1>1. PICK p \in bundle[t].proposals :
        /\ p.goal = bundle[t].goal
        /\ p.state = bundle[t].recommended
        /\ approvals' = [approvals EXCEPT ![t] = @ \cup
             {[token |-> token, proposal |-> p.id, state |-> p.state, goal |-> p.goal,
               base |-> p.base, revision |-> n, seen |-> n]}]
  BY DEF RecordUserApproval
<1> DEFINE a == [token |-> token, proposal |-> p.id, state |-> p.state, goal |-> p.goal,
                 base |-> p.base, revision |-> n, seen |-> n]
<1>2. /\ bundle[t] # NoBundle
      /\ UNCHANGED <<stored, bundle, queue, stage, completed, outcome>>
  BY DEF RecordUserApproval
<1>3. bundle[t] \in Bundles BY <1>2 DEF Inv, TypeOK
<1>4. n \in Nat BY <1>3, LogFacts DEF Revision
<1>5. p \in Proposals BY <1>3 DEF Bundles
<1> HIDE DEF n
<1>6. /\ a \in Approvals
      /\ a.revision = n /\ a.seen = n /\ a.goal = p.goal /\ a.state = p.state
      /\ a.proposal = p.id /\ a.base = p.base
  BY <1>4, <1>5 DEF Approvals, Proposals
<1> HIDE DEF a
<1>7. approvals' = [approvals EXCEPT ![t] = @ \cup {a}] BY <1>1 DEF a
<1>8. TypeOK' BY <1>2, <1>6, <1>7 DEF Inv, TypeOK
<1>9. ASSUME NEW u \in Tabs PROVE Held(bundle[u], approvals[u])'
  <2>0. Held(bundle[u], approvals[u]) BY DEF Inv
  <2>1. CASE u = t
    <3>1. approvals'[u] = approvals[u] \cup {a} BY <1>7, <2>1 DEF Inv, TypeOK
    <3>2. Quiet(bundle[t], n, n) BY <1>4 DEF Quiet
    <3>3. Held(bundle[t], {a}) BY <1>1, <1>2, <1>4, <1>6, <3>2 DEF Held, n
    <3> QED BY <1>2, <2>0, <2>1, <3>1, <3>3 DEF Held
  <2>2. CASE u # t
    <3>1. approvals'[u] = approvals[u] BY <1>7, <2>2 DEF Inv, TypeOK
    <3> QED BY <1>2, <2>0, <3>1
  <2> QED BY <2>1, <2>2
<1>10. \A u \in Tabs : /\ Copies(stored, bundle[u], queue[u], stage[u], completed[u])'
                       /\ Asked(bundle[u], queue[u])'
  BY <1>2 DEF Inv
<1>11. QueuedOps' /\ QueuedOnce'
  <2>1. QueuedOps' BY <1>2 DEF Inv, QueuedOps
  <2>2. QueuedOnce' BY <1>2 DEF Inv, QueuedOnce
  <2> QED BY <2>1, <2>2
<1>12. UnusedOps' /\ OutcomesHold' BY <1>2 DEF Inv, UnusedOps, OutcomesHold
<1>13. (stored # NoBundle => Approved(stored))' BY <1>2 DEF Inv
<1> QED BY <1>8, <1>9, <1>10, <1>11, <1>12, <1>13 DEF Inv

\* The tab goes away with its promises.
LEMMA CloseInv ==
  ASSUME Inv, NEW t \in Tabs, Close(t)
  PROVE  Inv'
<1>1. /\ bundle' = [bundle EXCEPT ![t] = NoBundle]
      /\ queue' = [queue EXCEPT ![t] = <<>>]
      /\ stage' = [stage EXCEPT ![t] = "idle"]
      /\ completed' = [completed EXCEPT ![t] = NoBundle]
      /\ approvals' = [approvals EXCEPT ![t] = {}]
      /\ outcome' = [o \in Ops |-> IF o \in Working(t) THEN "abandoned" ELSE outcome[o]]
      /\ stored' = stored
  BY DEF Close
<1>2. TypeOK' BY <1>1, EmptyQueue DEF Inv, TypeOK, Stages, Results
<1>3. ASSUME NEW u \in Tabs
      PROVE  /\ u = t => queue'[u] = <<>>
             /\ u # t => queue'[u] = queue[u] /\ stage'[u] = stage[u]
             /\ Copies(stored, bundle[u], queue[u], stage[u], completed[u])'
             /\ Held(bundle[u], approvals[u])'
             /\ Asked(bundle[u], queue[u])'
  <2>1. CASE u = t
    <3>1. /\ bundle'[u] = NoBundle /\ stage'[u] = "idle" /\ queue'[u] = <<>>
          /\ approvals'[u] = {}
      BY <1>1, <2>1 DEF Inv, TypeOK
    <3> QED BY <2>1, <3>1, EmptyQueue DEF Copies, Held, Asked, Busy
  <2>2. CASE u # t
    <3>1. /\ bundle'[u] = bundle[u] /\ stage'[u] = stage[u] /\ queue'[u] = queue[u]
          /\ completed'[u] = completed[u] /\ approvals'[u] = approvals[u]
      BY <1>1, <2>2 DEF Inv, TypeOK
    <3> QED BY <1>1, <2>2, <3>1 DEF Inv
  <2> QED BY <2>1, <2>2
<1>4. ASSUME NEW u \in Tabs \ {t}, NEW i \in 1..Len(queue[u])
      PROVE  queue[u][i].op \in Ops /\ queue[u][i].op \notin Working(t)
  <2>1. queue[u] \in Seq(Requests) /\ queue[t] \in Seq(Requests) BY DEF Inv, TypeOK
  <2>2. queue[u][i] \in Requests BY <2>1, ElementOfSeq
  <2>3. queue[u][i].op \in Ops BY <2>2 DEF Requests
  <2>4. DOMAIN queue[t] = 1..Len(queue[t]) BY <2>1, LenProperties
  <2>5. \A r \in Range(queue[t]) : r.op # queue[u][i].op
    BY <2>4 DEF Inv, QueuedOnce, Range
  <2>6. stage[t] = "creating" => completed[t].study = stored.study
    BY DEF Inv, Copies, Past
  <2>7. queue[u][i].op # stored.study BY DEF Inv, QueuedOps
  <2> QED BY <2>3, <2>5, <2>6, <2>7 DEF Working
<1>5. \A o \in Ops : outcome'[o] = "abandoned" \/ outcome'[o] = outcome[o]
  BY <1>1
<1>6. QueuedOps'
  <2>1. ASSUME NEW u \in Tabs, NEW i \in 1..Len(queue'[u])
        PROVE  /\ outcome'[queue'[u][i].op] = "pending"
               /\ queue'[u][i].op # stored.study
               /\ queue'[u][i].op \in SavedOps(stored) => stage'[u] = "publishing" /\ i = 1
    <3>1. u # t /\ queue'[u] = queue[u] /\ stage'[u] = stage[u]
      BY <1>3, EmptyQueue
    <3>2. queue[u][i].op \in Ops /\ queue[u][i].op \notin Working(t) BY <1>4, <3>1
    <3>3. outcome'[queue[u][i].op] = outcome[queue[u][i].op] BY <1>1, <3>2
    <3> QED BY <3>1, <3>3 DEF Inv, QueuedOps
  <2> QED BY <1>1, <2>1 DEF QueuedOps
<1>7. QueuedOnce' BY <1>3, EmptyQueue DEF Inv, QueuedOnce
<1>8. UnusedOps'
  <2>1. stored = NoBundle => Working(t) = {}
    <3> SUFFICES ASSUME stored = NoBundle PROVE Working(t) = {} OBVIOUS
    <3>1. bundle[t] = NoBundle /\ stage[t] = "idle" BY BeforeCreate
    <3>2. queue[t] = <<>> BY <3>1, ClosedFacts
    <3>3. Range(queue[t]) = {} BY <3>2 DEF Range
    <3> QED BY <3>1, <3>3 DEF Working
  <2> QED BY <1>1, <1>5, <2>1 DEF Inv, UnusedOps
<1>9. OutcomesHold' BY <1>1, <1>5 DEF Inv, OutcomesHold
<1>10. (stored # NoBundle => Approved(stored))' BY <1>1 DEF Inv
<1> QED BY <1>2, <1>3, <1>6, <1>7, <1>8, <1>9, <1>10 DEF Inv

\* #execute: a request joins the queue; an Apply with its approval.
LEMMA EnqueueInv ==
  ASSUME Inv, NEW t \in Tabs, NEW op \in Ops, NEW kind \in Kinds \cup {"apply"},
         NEW expected \in Nat, NEW approval \in Approvals \cup {None},
         Enqueue(t, op, kind, expected, approval),
         kind = "apply" =>
           /\ approval # None
           /\ expected = approval.revision
           /\ expected <= Revision(bundle[t])
           /\ Quiet(bundle[t], approval.seen, expected)
  PROVE  Inv'
<1> DEFINE r == [op |-> op, kind |-> kind, expected |-> expected, approval |-> approval]
           q == queue[t]
           more == Append(q, r)
<1>1. /\ bundle[t] # NoBundle /\ outcome[op] = "unused"
      /\ queue' = [queue EXCEPT ![t] = more]
      /\ outcome' = [outcome EXCEPT ![op] = "pending"]
      /\ UNCHANGED <<stored, bundle, stage, completed, approvals>>
  BY DEF Enqueue
<1>2. /\ r \in Requests /\ r.op = op /\ r.kind = kind /\ r.expected = expected
      /\ r.approval = approval
  BY DEF Requests
<1> HIDE DEF r
<1>3. q \in Seq(Requests) BY DEF Inv, TypeOK
<1>4. Len(q) \in Nat BY <1>3, LenProperties
<1>5. /\ more \in Seq(Requests) /\ Len(more) = Len(q) + 1 /\ more[Len(q) + 1] = r
      /\ \A i \in 1..Len(q) : more[i] = q[i]
  BY <1>2, <1>3, AppendProperties
<1>6. more # <<>>
  <2>1. Len(more) # 0 BY <1>4, <1>5
  <2> QED BY <1>5, <2>1, EmptySeq
<1>7. q # <<>> => Head(more) = Head(q)
  <2> SUFFICES ASSUME q # <<>> PROVE Head(more) = Head(q) OBVIOUS
  <2>1. Head(more) = more[1] BY <1>5, <1>6, QueueFacts
  <2>2. Head(q) = q[1] /\ 1 \in 1..Len(q) BY <1>3, QueueFacts
  <2> QED BY <1>5, <2>1, <2>2
<1> HIDE DEF more
<1>8. TypeOK' BY <1>1, <1>5 DEF Inv, TypeOK, Results
<1>9. \A i \in 1..Len(more) : i \in 1..Len(q) \/ i = Len(q) + 1 BY <1>4, <1>5
<1>10. /\ queue'[t] = more
       /\ \A u \in Tabs \ {t} : queue'[u] = queue[u]
  BY <1>1 DEF Inv, TypeOK
<1>11. ASSUME NEW u \in Tabs
       PROVE  /\ Copies(stored, bundle[u], queue[u], stage[u], completed[u])'
              /\ Held(bundle[u], approvals[u])'
              /\ Asked(bundle[u], queue[u])'
  <2>1. CASE u = t
    <3>1. /\ Copies(stored, bundle[t], q, stage[t], completed[t])
          /\ Asked(bundle[t], q)
      BY DEF Inv
    <3>2. Copies(stored, bundle[t], more, stage[t], completed[t])
      BY <1>1, <1>6, <1>7, <3>1 DEF Copies, Busy
    <3>3. Asked(bundle[t], more)
      BY <1>2, <1>5, <1>9, <3>1 DEF Asked
    <3>4. Held(bundle[t], approvals[t]) BY DEF Inv
    <3> QED BY <1>1, <1>10, <2>1, <3>2, <3>3, <3>4
  <2>2. CASE u # t BY <1>1, <1>10, <2>2 DEF Inv
  <2> QED BY <2>1, <2>2
<1>12. Past(bundle[t], stored) BY <1>1 DEF Inv, Copies
<1>13. stored # NoBundle BY <1>12, LogFacts DEF Past
<1>14. op # stored.study /\ op \notin SavedOps(stored)
  BY <1>1, <1>13 DEF Inv, UnusedOps
<1>15. ASSUME NEW u \in Tabs, NEW i \in 1..Len(queue[u])
       PROVE  queue[u][i].op \in Ops /\ queue[u][i].op # op
  <2>1. queue[u] \in Seq(Requests) BY DEF Inv, TypeOK
  <2>2. queue[u][i] \in Requests BY <2>1, ElementOfSeq
  <2>3. outcome[queue[u][i].op] = "pending" BY DEF Inv, QueuedOps
  <2> QED BY <1>1, <2>2, <2>3 DEF Requests
<1>16. \A o \in Ops : outcome'[o] = IF o = op THEN "pending" ELSE outcome[o]
  BY <1>1 DEF Inv, TypeOK
<1>17. \A u \in Tabs : \A i \in 1..Len(queue'[u]) :
         \/ i \in 1..Len(queue[u]) /\ queue'[u][i] = queue[u][i]
         \/ u = t /\ i = Len(q) + 1 /\ queue'[u][i] = r
  BY <1>5, <1>9, <1>10
<1>18. QueuedOps'
  <2>1. ASSUME NEW u \in Tabs, NEW i \in 1..Len(queue'[u])
        PROVE  /\ outcome'[queue'[u][i].op] = "pending"
               /\ queue'[u][i].op # stored.study
               /\ queue'[u][i].op \in SavedOps(stored) => stage[u] = "publishing" /\ i = 1
    <3>1. CASE i \in 1..Len(queue[u]) /\ queue'[u][i] = queue[u][i]
      BY <1>15, <1>16, <3>1 DEF Inv, QueuedOps
    <3>2. CASE u = t /\ i = Len(q) + 1 /\ queue'[u][i] = r
      BY <1>2, <1>14, <1>16, <3>2
    <3> QED BY <1>17, <3>1, <3>2
  <2> QED BY <1>1, <2>1 DEF QueuedOps
<1>19. QueuedOnce'
  <2> SUFFICES ASSUME NEW u \in Tabs, NEW v \in Tabs,
                      NEW i \in 1..Len(queue'[u]), NEW j \in 1..Len(queue'[v]),
                      queue'[u][i].op = queue'[v][j].op
               PROVE  u = v /\ i = j
    BY DEF QueuedOnce
  <2>1. CASE queue'[u][i].op = op
    <3>1. u = t /\ i = Len(q) + 1
      <4>1. ~ (i \in 1..Len(queue[u]) /\ queue'[u][i] = queue[u][i]) BY <1>15, <2>1
      <4> QED BY <1>17, <4>1
    <3>2. v = t /\ j = Len(q) + 1
      <4>1. ~ (j \in 1..Len(queue[v]) /\ queue'[v][j] = queue[v][j]) BY <1>15, <2>1
      <4> QED BY <1>17, <4>1
    <3> QED BY <3>1, <3>2
  <2>2. CASE queue'[u][i].op # op
    <3>1. /\ i \in 1..Len(queue[u]) /\ queue'[u][i] = queue[u][i]
          /\ j \in 1..Len(queue[v]) /\ queue'[v][j] = queue[v][j]
      BY <1>2, <1>17, <2>2
    <3> QED BY <3>1 DEF Inv, QueuedOnce
  <2> QED BY <2>1, <2>2
<1>20. UnusedOps' BY <1>1, <1>13, <1>16 DEF Inv, UnusedOps
<1>21. OutcomesHold' BY <1>1, <1>16 DEF Inv, OutcomesHold
<1>22. (stored # NoBundle => Approved(stored))' BY <1>1 DEF Inv
<1> QED BY <1>8, <1>11, <1>18, <1>19, <1>20, <1>21, <1>22 DEF Inv

\* The first request is settled with the truth: what depends on the operations.
LEMMA SettleOps ==
  ASSUME Inv, NEW t \in Tabs, queue[t] # <<>>, NEW result \in {"resolved", "rejected"},
         Settle(t, result), stored' = stored,
         result = "rejected" => stage[t] # "publishing",
         result = "resolved" => Current(t).op \in SavedOps(stored)
  PROVE  /\ queue' = [queue EXCEPT ![t] = Tail(@)]
         /\ queue' \in [Tabs -> Seq(Requests)]
         /\ stage' \in [Tabs -> Stages]
         /\ completed' \in [Tabs -> Bundles \cup {NoBundle}]
         /\ outcome' \in [Ops -> Results]
         /\ QueuedOps' /\ QueuedOnce' /\ UnusedOps' /\ OutcomesHold'
<1> DEFINE op == Current(t).op
           rest == Tail(queue[t])
<1>1. /\ outcome' = [outcome EXCEPT ![op] = result]
      /\ queue' = [queue EXCEPT ![t] = rest]
      /\ stage' = [stage EXCEPT ![t] = "idle"]
      /\ completed' = [completed EXCEPT ![t] = NoBundle]
  BY DEF Settle
<1>2. /\ stored \in Bundles /\ queue[t] \in Seq(Requests)
      /\ Current(t) = queue[t][1] /\ 1 \in 1..Len(queue[t])
      /\ op \in Ops /\ outcome[op] = "pending" /\ op # stored.study
  BY CurrentFacts
<1>3. /\ rest \in Seq(Requests)
      /\ Len(queue[t]) \in Nat /\ Len(rest) \in Nat
      /\ \A i \in 1..Len(rest) : i + 1 \in 1..Len(queue[t]) /\ rest[i] = queue[t][i + 1]
  BY <1>2, QueueFacts
<1>4. op \in SavedOps(stored) => stage[t] = "publishing" BY <1>2 DEF Inv, QueuedOps
<1> HIDE DEF op, rest
<1>5. /\ queue' \in [Tabs -> Seq(Requests)]
      /\ stage' \in [Tabs -> Stages]
      /\ completed' \in [Tabs -> Bundles \cup {NoBundle}]
      /\ outcome' \in [Ops -> Results]
  BY <1>1, <1>3 DEF Inv, TypeOK, Stages, Results
<1>6. /\ queue'[t] = rest
      /\ \A u \in Tabs \ {t} : queue'[u] = queue[u] /\ stage'[u] = stage[u]
      /\ \A o \in Ops : outcome'[o] = IF o = op THEN result ELSE outcome[o]
  BY <1>1 DEF Inv, TypeOK
<1>7. stored # NoBundle BY <1>2, LogFacts
\* A request that stays was at a later position of its queue.
<1>8. ASSUME NEW u \in Tabs, NEW i \in 1..Len(queue'[u])
      PROVE  LET j == IF u = t THEN i + 1 ELSE i IN
             /\ j \in 1..Len(queue[u]) /\ queue'[u][i] = queue[u][j]
             /\ queue[u][j].op \in Ops \ {op}
  <2> DEFINE j == IF u = t THEN i + 1 ELSE i
  <2>1. j \in 1..Len(queue[u]) /\ queue'[u][i] = queue[u][j]
    <3>1. CASE u = t BY <1>3, <1>6, <3>1
    <3>2. CASE u # t BY <1>6, <3>2
    <3> QED BY <3>1, <3>2
  <2>2. u # t \/ j # 1
    <3>1. CASE u = t
      <4>1. i \in 1..Len(rest) BY <1>6, <3>1
      <4>2. i + 1 # 1 BY <1>3, <4>1
      <4> QED BY <3>1, <4>2
    <3> QED BY <3>1
  <2> HIDE DEF j
  <2>3. queue[u] \in Seq(Requests) BY DEF Inv, TypeOK
  <2>4. queue[u][j] \in Requests BY <2>1, <2>3, ElementOfSeq
  <2>5. queue[u][j].op # op
    BY <1>2, <2>1, <2>2 DEF Inv, QueuedOnce, op
  <2> QED BY <2>1, <2>4, <2>5 DEF Requests, j
<1>9. QueuedOps'
  <2>1. ASSUME NEW u \in Tabs, NEW i \in 1..Len(queue'[u])
        PROVE  /\ outcome'[queue'[u][i].op] = "pending"
               /\ queue'[u][i].op # stored.study
               /\ queue'[u][i].op \in SavedOps(stored) => stage'[u] = "publishing" /\ i = 1
    <3> DEFINE j == IF u = t THEN i + 1 ELSE i
    <3>1. /\ j \in 1..Len(queue[u]) /\ queue'[u][i] = queue[u][j]
          /\ queue[u][j].op \in Ops \ {op}
      BY <1>8
    <3> HIDE DEF j
    <3>2. /\ outcome[queue[u][j].op] = "pending"
          /\ queue[u][j].op # stored.study
          /\ queue[u][j].op \in SavedOps(stored) => stage[u] = "publishing" /\ j = 1
      BY <3>1 DEF Inv, QueuedOps
    <3>3. outcome'[queue'[u][i].op] = "pending" BY <1>6, <3>1, <3>2
    <3>4. CASE u = t
      <4>1. i \in 1..Len(rest) BY <1>6, <3>4
      <4>2. j # 1 BY <1>3, <3>4, <4>1 DEF j
      <4> QED BY <3>1, <3>2, <3>3, <4>2
    <3>5. CASE u # t
      <4>1. j = i BY <3>5 DEF j
      <4> QED BY <1>6, <3>1, <3>2, <3>3, <3>5, <4>1
    <3> QED BY <3>4, <3>5
  <2> QED BY <2>1 DEF QueuedOps
<1>10. QueuedOnce'
  <2> SUFFICES ASSUME NEW u \in Tabs, NEW v \in Tabs,
                      NEW i \in 1..Len(queue'[u]), NEW k \in 1..Len(queue'[v]),
                      queue'[u][i].op = queue'[v][k].op
               PROVE  u = v /\ i = k
    BY DEF QueuedOnce
  <2> DEFINE j == IF u = t THEN i + 1 ELSE i
             l == IF v = t THEN k + 1 ELSE k
  <2>1. /\ j \in 1..Len(queue[u]) /\ queue'[u][i] = queue[u][j]
        /\ l \in 1..Len(queue[v]) /\ queue'[v][k] = queue[v][l]
    BY <1>8
  <2> HIDE DEF j, l
  <2>2. u = v /\ j = l BY <2>1 DEF Inv, QueuedOnce
  <2>3. i \in Int /\ k \in Int OBVIOUS
  <2> QED BY <2>2, <2>3 DEF j, l
<1>11. UnusedOps' BY <1>6, <1>7 DEF Inv, UnusedOps
<1>12. OutcomesHold'
  <2>1. result = "rejected" => op \notin SavedOps(stored) BY <1>4
  <2>2. result = "resolved" => op \in SavedOps(stored) BY DEF op
  <2> QED BY <1>6, <2>1, <2>2 DEF Inv, OutcomesHold
<1> QED BY <1>1, <1>5, <1>9, <1>10, <1>11, <1>12 DEF rest

\* The requests that remain ask for what they asked for.
LEMMA TailAsked ==
  ASSUME NEW b, NEW q \in Seq(Requests), q # <<>>, Asked(b, q)
  PROVE  Asked(b, Tail(q))
<1>1. \A i \in 1..Len(Tail(q)) : i + 1 \in 1..Len(q) /\ Tail(q)[i] = q[i + 1]
  BY QueueFacts
<1> QED BY <1>1 DEF Asked

\* They still do when the tab moves to a later version.
LEMMA AskedPast ==
  ASSUME NEW b, NEW c, Past(b, c), NEW q \in Seq(Requests), Asked(b, q)
  PROVE  Asked(c, q)
<1> SUFFICES ASSUME NEW i \in 1..Len(q), q[i].kind = "apply"
             PROVE  /\ q[i].approval # None
                    /\ q[i].expected = q[i].approval.revision
                    /\ q[i].expected <= Revision(c)
                    /\ Quiet(c, q[i].approval.seen, q[i].expected)
  BY DEF Asked
<1>1. q[i] \in Requests BY ElementOfSeq
<1>2. /\ q[i].approval # None
      /\ q[i].expected = q[i].approval.revision
      /\ q[i].expected <= Len(b.log)
      /\ Quiet(b, q[i].approval.seen, q[i].expected)
  BY DEF Asked, Revision
<1>3. q[i].expected \in Nat /\ q[i].approval \in Approvals BY <1>1, <1>2 DEF Requests
<1>4. q[i].approval.seen \in Nat BY <1>3 DEF Approvals
<1>5. Quiet(c, q[i].approval.seen, q[i].expected) BY <1>2, <1>3, <1>4, QuietPast
<1>6. Len(b.log) \in Nat /\ Len(c.log) \in Nat /\ Len(b.log) <= Len(c.log)
  BY LogFacts DEF Past
<1> QED BY <1>2, <1>3, <1>5, <1>6 DEF Revision

\* The first request fails before anything is saved.
LEMMA RejectInv ==
  ASSUME Inv, NEW t \in Tabs, queue[t] # <<>>, stage[t] # "publishing", Reject(t)
  PROVE  Inv'
<1>1. /\ Settle(t, "rejected") /\ stored' = stored /\ bundle' = bundle
      /\ approvals' = approvals
  BY DEF Reject
<1>2. /\ queue' = [queue EXCEPT ![t] = Tail(@)]
      /\ queue' \in [Tabs -> Seq(Requests)]
      /\ stage' \in [Tabs -> Stages]
      /\ completed' \in [Tabs -> Bundles \cup {NoBundle}]
      /\ outcome' \in [Ops -> Results]
      /\ QueuedOps' /\ QueuedOnce' /\ UnusedOps' /\ OutcomesHold'
  BY <1>1, SettleOps
<1>3. TypeOK' BY <1>1, <1>2 DEF Inv, TypeOK
<1>4. stage' = [stage EXCEPT ![t] = "idle"] /\ completed' = [completed EXCEPT ![t] = NoBundle]
  BY <1>1 DEF Settle
<1>5. ASSUME NEW u \in Tabs
      PROVE  /\ Copies(stored, bundle[u], queue[u], stage[u], completed[u])'
             /\ Held(bundle[u], approvals[u])'
             /\ Asked(bundle[u], queue[u])'
  <2>1. CASE u = t
    <3>1. stage'[u] = "idle" /\ queue'[u] = Tail(queue[t])
      BY <1>2, <1>4, <2>1 DEF Inv, TypeOK
    <3>2. queue[t] \in Seq(Requests) BY DEF Inv, TypeOK
    <3>3. Asked(bundle[t], Tail(queue[t])) BY <3>2, TailAsked DEF Inv
    <3>4. bundle[t] # NoBundle /\ Past(bundle[t], stored) BY DEF Inv, Copies
    <3>5. Copies(stored, bundle[t], Tail(queue[t]), "idle", completed'[t])
      BY <3>4 DEF Copies, Busy
    <3>6. Held(bundle[t], approvals[t]) BY DEF Inv
    <3> QED BY <1>1, <2>1, <3>1, <3>3, <3>5, <3>6
  <2>2. CASE u # t
    <3>1. queue'[u] = queue[u] /\ stage'[u] = stage[u] /\ completed'[u] = completed[u]
      BY <1>2, <1>4, <2>2 DEF Inv, TypeOK
    <3> QED BY <1>1, <3>1 DEF Inv
  <2> QED BY <2>1, <2>2
<1>6. (stored # NoBundle => Approved(stored))' BY <1>1 DEF Inv
<1> QED BY <1>2, <1>3, <1>5, <1>6 DEF Inv

\* The steps of a request that only move it on: Start and Answer.
LEMMA ProceedInv ==
  ASSUME Inv, NEW t \in Tabs, NEW next \in {"running", "committing"}, Proceed(t, next),
         NEW c \in Bundles \cup {NoBundle}, completed' = [completed EXCEPT ![t] = c],
         stored' = stored, queue[t] # <<>>, stage[t] # "publishing",
         Current(t).expected = Revision(bundle[t]),
         next = "committing" => c \in Answers(bundle[t], Current(t))
  PROVE  Inv'
<1>1. /\ stage' = [stage EXCEPT ![t] = next]
      /\ UNCHANGED <<bundle, queue, approvals, outcome>>
  BY DEF Proceed
<1>2. TypeOK' BY <1>1 DEF Inv, TypeOK, Stages
<1>3. Past(bundle[t], stored) /\ bundle[t] # NoBundle /\ stage[t] # "creating"
  BY CurrentFacts, LogFacts
<1>4. ASSUME NEW u \in Tabs
      PROVE  Copies(stored, bundle[u], queue[u], stage[u], completed[u])'
  <2>1. CASE u = t
    <3>1. stage'[u] = next /\ completed'[u] = c BY <1>1, <2>1 DEF Inv, TypeOK
    <3>2. Copies(stored, bundle[t], queue[t], next, c)
      BY <1>3 DEF Copies, Current, Busy
    <3> QED BY <1>1, <2>1, <3>1, <3>2
  <2>2. CASE u # t
    <3>1. stage'[u] = stage[u] /\ completed'[u] = completed[u]
      BY <1>1, <2>2 DEF Inv, TypeOK
    <3> QED BY <1>1, <3>1 DEF Inv
  <2> QED BY <2>1, <2>2
<1>5. \A u \in Tabs : Held(bundle[u], approvals[u])' /\ Asked(bundle[u], queue[u])'
  BY <1>1 DEF Inv
<1>6. QueuedOps'
  <2>1. \A u \in Tabs : stage[u] = "publishing" => stage'[u] = "publishing"
    BY <1>1 DEF Inv, TypeOK
  <2> QED BY <1>1, <2>1 DEF Inv, QueuedOps
<1>7. QueuedOnce' BY <1>1 DEF Inv, QueuedOnce
<1>8. UnusedOps' /\ OutcomesHold' BY <1>1 DEF Inv, UnusedOps, OutcomesHold
<1>9. (stored # NoBundle => Approved(stored))' BY DEF Inv
<1> QED BY <1>2, <1>4, <1>5, <1>6, <1>7, <1>8, <1>9 DEF Inv

\* The first checks of a request.
LEMMA StartInv ==
  ASSUME Inv, NEW t \in Tabs, Start(t)
  PROVE  Inv'
<1>1. queue[t] # <<>> /\ stage[t] = "idle" BY DEF Start
<1>2. CASE Reject(t) BY <1>1, <1>2, RejectInv
<1>3. CASE /\ Current(t).expected = Revision(bundle[t])
           /\ Proceed(t, "running") /\ UNCHANGED <<stored, completed>>
  <2>1. completed' = [completed EXCEPT ![t] = completed[t]] BY <1>3 DEF Inv, TypeOK
  <2>2. completed[t] \in Bundles \cup {NoBundle} BY DEF Inv, TypeOK
  <2> QED BY <1>1, <1>3, <2>1, <2>2, ProceedInv
<1> QED BY <1>2, <1>3 DEF Start

\* The engine fails or answers.
LEMMA AnswerInv ==
  ASSUME Inv, NEW t \in Tabs, Answer(t)
  PROVE  Inv'
<1>1. stage[t] = "running" BY DEF Answer
<1>2. queue[t] # <<>> /\ Current(t).expected = Revision(bundle[t])
  BY <1>1 DEF Inv, Copies, Busy, Current
<1>3. CASE Reject(t) BY <1>1, <1>2, <1>3, RejectInv
<1>4. CASE /\ \E d \in Answers(bundle[t], Current(t)) :
                completed' = [completed EXCEPT ![t] = d]
           /\ Proceed(t, "committing")
           /\ UNCHANGED stored
  <2>1. PICK d \in Answers(bundle[t], Current(t)) : completed' = [completed EXCEPT ![t] = d]
    BY <1>4
  <2>2. /\ bundle[t] \in Bundles /\ Current(t) \in Requests
        /\ Current(t).kind = "apply" => Current(t).approval # None
    BY <1>2, CurrentFacts, TabsAssumption
  <2>3. d \in Bundles BY <2>2, AnswerFacts
  <2> QED BY <1>1, <1>2, <1>4, <2>1, <2>3, ProceedInv
<1> QED BY <1>3, <1>4 DEF Answer

\* What a save that passes the revision check (#write) stores: the stored
\* bundle is the one the request was answered for, so the answer is its next
\* version.
LEMMA SaveFacts ==
  ASSUME Inv, NEW t \in Tabs, stage[t] \in {"committing", "publishing"}
  PROVE  /\ queue[t] # <<>>
         /\ Current(t).expected = Revision(bundle[t])
         /\ bundle[t] \in Bundles
         /\ completed[t] \in Bundles
         /\ Past(bundle[t], completed[t])
         /\ Revision(completed[t]) = Revision(bundle[t]) + 1
         /\ completed[t].log[Revision(completed[t])] = Entry(Current(t))
         /\ SavedOps(completed[t]) = SavedOps(bundle[t]) \cup {Current(t).op}
         /\ Current(t).kind = "inspect" =>
              /\ completed[t].goal = bundle[t].goal
              /\ completed[t].recommended = bundle[t].recommended
              /\ completed[t].proposals = bundle[t].proposals
         /\ stage[t] = "committing" /\ RevisionMatches(t) => bundle[t] = stored
<1>1. Copies(stored, bundle[t], queue[t], stage[t], completed[t]) BY DEF Inv
<1>2. queue[t] # <<>> /\ Current(t).expected = Revision(bundle[t])
  BY <1>1 DEF Copies, Busy, Current
<1>3. completed[t] \in Answers(bundle[t], Current(t)) BY <1>1 DEF Copies, Current
<1>4. /\ bundle[t] \in Bundles /\ Current(t) \in Requests /\ Past(bundle[t], stored)
      /\ Current(t).kind = "apply" => Current(t).approval # None
  BY <1>2, CurrentFacts, TabsAssumption
<1>5. Current(t).kind = "inspect" =>
        /\ completed[t].goal = bundle[t].goal
        /\ completed[t].recommended = bundle[t].recommended
        /\ completed[t].proposals = bundle[t].proposals
  BY <1>3, <1>4, AnswerFacts
<1>6. /\ completed[t] \in Bundles
      /\ Past(bundle[t], completed[t])
      /\ Revision(completed[t]) = Revision(bundle[t]) + 1
      /\ completed[t].log[Revision(completed[t])] = Entry(Current(t))
      /\ SavedOps(completed[t]) = SavedOps(bundle[t]) \cup {Current(t).op}
  BY <1>3, <1>4, AnswerIsNext
<1>7. RevisionMatches(t) => bundle[t] = stored
  BY <1>2, <1>4 DEF RevisionMatches, Revision, Past
<1> QED BY <1>2, <1>4, <1>5, <1>6, <1>7

\* The approval of an Apply is still good when its bundle is stored.
LEMMA SaveApproved ==
  ASSUME Inv, NEW t \in Tabs, stage[t] = "committing", RevisionMatches(t)
  PROVE  Approved(completed[t])
<1> DEFINE c == completed[t]
           n == Revision(bundle[t])
           r == Current(t)
<1>1. /\ queue[t] # <<>> /\ r.expected = n
      /\ bundle[t] \in Bundles /\ c \in Bundles
      /\ Past(bundle[t], c) /\ Revision(c) = n + 1
      /\ c.log[Revision(c)] = Entry(r)
      /\ bundle[t] = stored
  BY SaveFacts
<1>2. Approved(bundle[t]) BY <1>1, LogFacts DEF Inv
<1>3. n \in Nat BY <1>1, LogFacts DEF Revision
<1>4. /\ r \in Requests
      /\ r.kind = "apply" =>
           r.approval \in Approvals /\ Quiet(bundle[t], r.approval.seen, r.expected)
  BY <1>1, CurrentFacts
<1> HIDE DEF c, r
<1> SUFFICES ASSUME NEW i \in 1..Len(c.log), c.log[i].kind = "apply"
             PROVE  c.log[i].seen \in Nat /\ Quiet(c, c.log[i].seen, i - 1)
  BY DEF Approved, c
<1>5. CASE i \in 1..n
  <2>1. c.log[i] = bundle[t].log[i] BY <1>1, <1>5 DEF Past, Revision
  <2>2. c.log[i].seen \in Nat /\ Quiet(bundle[t], c.log[i].seen, i - 1)
    BY <1>2, <1>5, <2>1 DEF Approved, Revision
  <2>3. i - 1 \in Nat /\ i - 1 <= n BY <1>3, <1>5
  <2> QED BY <1>1, <2>2, <2>3, QuietPast DEF Revision
<1>6. CASE i = n + 1
  <2>1. c.log[i] = Entry(r) BY <1>1, <1>6
  <2>2. r.kind = "apply" BY <2>1 DEF Entry
  <2>3. r.approval \in Approvals /\ r.approval # None BY <1>4, <2>2, TabsAssumption
  <2>4. c.log[i].seen = r.approval.seen BY <2>1, <2>3 DEF Entry
  <2>5. r.approval.seen \in Nat BY <2>3 DEF Approvals
  <2>6. Quiet(bundle[t], r.approval.seen, n) BY <1>1, <1>4, <2>2
  <2>7. n <= Len(bundle[t].log) BY <1>3 DEF Revision
  <2>8. Quiet(c, r.approval.seen, n) BY <1>1, <1>3, <2>5, <2>6, <2>7, QuietPast
  <2>9. i - 1 = n BY <1>3, <1>6
  <2> QED BY <2>4, <2>5, <2>8, <2>9
<1>7. i \in 1..n \/ i = n + 1 BY <1>1, <1>3 DEF Revision
<1> QED BY <1>5, <1>6, <1>7

\* The read-write transaction of #write.
LEMMA CommitInv ==
  ASSUME Inv, NEW t \in Tabs, Commit(t)
  PROVE  Inv'
<1>1. stage[t] = "committing" BY DEF Commit
<1>2. queue[t] # <<>> BY <1>1, SaveFacts
<1>3. CASE Reject(t) BY <1>1, <1>2, <1>3, RejectInv
<1>4. CASE /\ RevisionMatches(t)
           /\ stored' = completed[t]
           /\ Proceed(t, "publishing")
           /\ UNCHANGED completed
  <2> DEFINE c == completed[t]
             op == Current(t).op
  <2>1. /\ stage' = [stage EXCEPT ![t] = "publishing"] /\ stored' = c
        /\ UNCHANGED <<bundle, queue, completed, approvals, outcome>>
    BY <1>4 DEF Proceed
  <2>2. /\ c \in Bundles /\ Past(stored, c) /\ c.study = stored.study
        /\ SavedOps(c) = SavedOps(stored) \cup {op}
    <3>1. /\ c \in Bundles /\ Past(bundle[t], c) /\ bundle[t] = stored
          /\ SavedOps(c) = SavedOps(bundle[t]) \cup {op}
      BY <1>1, <1>4, SaveFacts
    <3>2. c.study = stored.study BY <3>1 DEF Past
    <3> QED BY <3>1, <3>2
  <2>3. Approved(c) BY <1>1, <1>4, SaveApproved
  <2>4. /\ Current(t) = queue[t][1] /\ 1 \in 1..Len(queue[t])
        /\ outcome[op] = "pending" /\ stored \in Bundles
    BY <1>2, CurrentFacts
  <2>5. op = queue[t][1].op BY <2>4
  <2> HIDE DEF c, op
  <2>6. stored # NoBundle /\ c # NoBundle BY <2>2, <2>4, LogFacts
  <2>7. TypeOK' BY <2>1, <2>2 DEF Inv, TypeOK, Stages
  <2>8. ASSUME NEW u \in Tabs
        PROVE  Copies(stored, bundle[u], queue[u], stage[u], completed[u])'
    <3>1. Copies(c, bundle[u], queue[u], stage[u], completed[u])
      BY <2>2, CopiesPast DEF Inv
    <3>2. CASE u = t
      <4>1. stage'[u] = "publishing" BY <2>1, <3>2 DEF Inv, TypeOK
      <4>2. Past(c, c) BY <2>2, PastReflexive
      <4>3. Copies(c, bundle[t], queue[t], "publishing", c)
        BY <1>1, <3>1, <3>2, <4>2 DEF Copies, Busy, c
      <4> QED BY <2>1, <3>2, <4>1, <4>3 DEF c
    <3>3. CASE u # t
      <4>1. stage'[u] = stage[u] BY <2>1, <3>3 DEF Inv, TypeOK
      <4> QED BY <2>1, <3>1, <4>1
    <3> QED BY <3>2, <3>3
  <2>9. \A u \in Tabs : Held(bundle[u], approvals[u])' /\ Asked(bundle[u], queue[u])'
    BY <2>1 DEF Inv
  <2>10. QueuedOps'
    <3>1. ASSUME NEW u \in Tabs, NEW i \in 1..Len(queue[u])
          PROVE  /\ outcome[queue[u][i].op] = "pending"
                 /\ queue[u][i].op # c.study
                 /\ queue[u][i].op \in SavedOps(c) => stage'[u] = "publishing" /\ i = 1
      <4>1. /\ outcome[queue[u][i].op] = "pending"
            /\ queue[u][i].op # stored.study
            /\ queue[u][i].op \in SavedOps(stored) => stage[u] = "publishing" /\ i = 1
        BY DEF Inv, QueuedOps
      <4>2. queue[u][i].op = op => u = t /\ i = 1
        BY <2>4, <2>5 DEF Inv, QueuedOnce
      <4>3. stage'[t] = "publishing" /\ (stage[u] = "publishing" => stage'[u] = "publishing")
        BY <2>1 DEF Inv, TypeOK
      <4> QED BY <2>2, <4>1, <4>2, <4>3
    <3> QED BY <2>1, <3>1 DEF QueuedOps
  <2>11. QueuedOnce' BY <2>1 DEF Inv, QueuedOnce
  <2>12. UnusedOps' BY <2>1, <2>2, <2>4, <2>6 DEF Inv, UnusedOps
  <2>13. OutcomesHold' BY <2>1, <2>2, <2>4, <2>6 DEF Inv, OutcomesHold
  <2> QED BY <2>1, <2>3, <2>7, <2>8, <2>9, <2>10, <2>11, <2>12, <2>13 DEF Inv
<1> QED BY <1>3, <1>4 DEF Commit

\* An inspection renews the approvals; anything else lets them expire.
LEMMA RenewedApprovals ==
  ASSUME Inv, NEW t \in Tabs, stage[t] = "publishing", Current(t).kind = "inspect"
  PROVE  /\ Refreshed(t) \subseteq Approvals
         /\ Held(completed[t], Refreshed(t))
<1> DEFINE b == bundle[t]
           c == completed[t]
           n == Revision(b)
<1>1. /\ queue[t] # <<>> /\ b \in Bundles /\ c \in Bundles
      /\ Past(b, c) /\ Revision(c) = n + 1
      /\ c.log[n + 1] = Entry(Current(t))
      /\ c.goal = b.goal /\ c.recommended = b.recommended /\ c.proposals = b.proposals
  BY SaveFacts
<1>2. n \in Nat /\ n = Len(b.log) BY <1>1, LogFacts DEF Revision
<1>3. c.log[n + 1].kind = "inspect" BY <1>1 DEF Entry
<1>4. c # NoBundle BY <1>1, LogFacts
<1>5. approvals[t] \subseteq Approvals /\ Held(b, approvals[t]) BY DEF Inv, TypeOK
<1> HIDE DEF b, c
<1>6. ASSUME NEW a \in approvals[t]
      PROVE  LET x == [a EXCEPT !.revision = n + 1] IN
             x \in Approvals /\ Held(c, {x})
  <2> DEFINE x == [a EXCEPT !.revision = n + 1]
  <2>1. a \in Approvals BY <1>5
  <2>2. /\ x \in Approvals /\ x.revision = n + 1 /\ x.seen = a.seen /\ x.goal = a.goal
        /\ x.state = a.state /\ x.proposal = a.proposal /\ x.base = a.base
        /\ a.seen \in Nat
    BY <1>2, <2>1 DEF Approvals
  <2>3. /\ a.revision = n /\ b.goal = a.goal /\ b.recommended = a.state
        /\ \E p \in b.proposals : p.id = a.proposal /\ p.base = a.base
        /\ a.seen <= a.revision
        /\ Quiet(b, a.seen, a.revision)
    BY <1>5 DEF Held
  <2>4. Quiet(c, a.seen, n) BY <1>1, <1>2, <2>2, <2>3, QuietPast
  <2>5. Quiet(c, a.seen, n + 1)
    <3>1. \A j \in (a.seen + 1)..(n + 1) : j \in (a.seen + 1)..n \/ j = n + 1
      BY <1>2, <2>2
    <3> QED BY <1>3, <2>4, <3>1 DEF Quiet
  <2>6. a.seen <= n + 1 BY <1>2, <2>2, <2>3
  <2> HIDE DEF x
  <2>7. Held(c, {x}) BY <1>1, <1>4, <2>2, <2>3, <2>5, <2>6 DEF Held
  <2> QED BY <2>2, <2>7 DEF x
<1>7. Refreshed(t) = {[a EXCEPT !.revision = n + 1] : a \in approvals[t]}
  BY <1>1 DEF Refreshed, c
<1>8. Refreshed(t) \subseteq Approvals BY <1>6, <1>7
<1>9. \A x \in Refreshed(t) : Held(c, {x}) BY <1>6, <1>7
<1>10. Held(c, Refreshed(t)) BY <1>9 DEF Held
<1> QED BY <1>8, <1>10 DEF c

\* The completion of the save reaches the tab.
LEMMA PublishInv ==
  ASSUME Inv, NEW t \in Tabs, Publish(t)
  PROVE  Inv'
<1> DEFINE c == completed[t]
           kept == IF KeepsApprovals(Current(t).kind) THEN Refreshed(t) ELSE {}
<1>1. /\ stage[t] = "publishing" /\ stored' = stored
      /\ bundle' = [bundle EXCEPT ![t] = c]
      /\ approvals' = [approvals EXCEPT ![t] = kept]
      /\ Settle(t, "resolved")
  BY DEF Publish, Report
<1>2. /\ queue[t] # <<>> /\ c \in Bundles /\ Past(bundle[t], c)
      /\ Current(t).op \in SavedOps(c)
  BY <1>1, SaveFacts
<1>3. Past(c, stored) BY <1>1 DEF Inv, Copies
<1>4. SavedOps(c) \subseteq SavedOps(stored)
  <2>1. c \in Bundles /\ stored \in Bundles BY <1>3 DEF Past
  <2>2. /\ SavedOps(c) = {c.log[i].op : i \in 1..Len(c.log)}
        /\ SavedOps(stored) = {stored.log[i].op : i \in 1..Len(stored.log)}
    BY <2>1, SavedOpsFacts
  <2>3. Len(c.log) \in Nat /\ Len(stored.log) \in Nat BY <2>1, LogFacts
  <2>4. \A i \in 1..Len(c.log) : i \in 1..Len(stored.log) /\ c.log[i] = stored.log[i]
    BY <1>3, <2>3 DEF Past
  <2> QED BY <2>2, <2>4
<1>5. /\ queue' = [queue EXCEPT ![t] = Tail(@)]
      /\ queue' \in [Tabs -> Seq(Requests)]
      /\ stage' \in [Tabs -> Stages]
      /\ completed' \in [Tabs -> Bundles \cup {NoBundle}]
      /\ outcome' \in [Ops -> Results]
      /\ QueuedOps' /\ QueuedOnce' /\ UnusedOps' /\ OutcomesHold'
  BY <1>1, <1>2, <1>4, SettleOps
<1>6. kept \subseteq Approvals /\ Held(c, kept)
  BY <1>1, RenewedApprovals DEF KeepsApprovals, Held
<1>7. stage' = [stage EXCEPT ![t] = "idle"] /\ completed' = [completed EXCEPT ![t] = NoBundle]
  BY <1>1 DEF Settle
<1> HIDE DEF c, kept
<1>8. TypeOK' BY <1>1, <1>2, <1>5, <1>6 DEF Inv, TypeOK
<1>9. ASSUME NEW u \in Tabs
      PROVE  /\ Copies(stored, bundle[u], queue[u], stage[u], completed[u])'
             /\ Held(bundle[u], approvals[u])'
             /\ Asked(bundle[u], queue[u])'
  <2>1. CASE u = t
    <3>1. /\ stage'[u] = "idle" /\ queue'[u] = Tail(queue[t])
          /\ bundle'[u] = c /\ approvals'[u] = kept
      BY <1>1, <1>5, <1>7, <2>1 DEF Inv, TypeOK
    <3>2. queue[t] \in Seq(Requests) BY DEF Inv, TypeOK
    <3>3. Tail(queue[t]) \in Seq(Requests) BY <1>2, <3>2, QueueFacts
    <3>4. Asked(bundle[t], Tail(queue[t])) BY <1>2, <3>2, TailAsked DEF Inv
    <3>5. Asked(c, Tail(queue[t])) BY <1>2, <3>3, <3>4, AskedPast
    <3>6. c # NoBundle BY <1>2, LogFacts
    <3>7. Copies(stored, c, Tail(queue[t]), "idle", completed'[t])
      BY <1>3, <3>6 DEF Copies, Busy
    <3> QED BY <1>1, <1>6, <2>1, <3>1, <3>5, <3>7
  <2>2. CASE u # t
    <3>1. /\ queue'[u] = queue[u] /\ stage'[u] = stage[u] /\ completed'[u] = completed[u]
          /\ bundle'[u] = bundle[u] /\ approvals'[u] = approvals[u]
      BY <1>1, <1>5, <1>7, <2>2 DEF Inv, TypeOK
    <3> QED BY <1>1, <3>1 DEF Inv
  <2> QED BY <2>1, <2>2
<1>10. (stored # NoBundle => Approved(stored))' BY <1>1 DEF Inv
<1> QED BY <1>5, <1>8, <1>9, <1>10 DEF Inv

\* execute.
LEMMA SubmitInv ==
  ASSUME Inv, NEW t \in Tabs, NEW op \in Ops, Submit(t, op)
  PROVE  Inv'
<1>1. PICK kind \in Kinds :
        /\ bundle[t] # NoBundle
        /\ \E ahead \in 0..Len(queue[t]) :
             Enqueue(t, op, kind, Revision(bundle[t]) + ahead, None)
  BY DEF Submit
<1>2. PICK ahead \in 0..Len(queue[t]) :
        Enqueue(t, op, kind, Revision(bundle[t]) + ahead, None)
  BY <1>1
<1>3. bundle[t] \in Bundles /\ queue[t] \in Seq(Requests) BY <1>1 DEF Inv, TypeOK
<1>4. Revision(bundle[t]) \in Nat BY <1>3, LogFacts DEF Revision
<1>5. Len(queue[t]) \in Nat BY <1>3, LenProperties
<1>6. Revision(bundle[t]) + ahead \in Nat BY <1>4, <1>5
<1>7. kind # "apply" BY TabsAssumption
<1> QED BY <1>2, <1>6, <1>7, EnqueueInv

\* applyApprovedProposal.
LEMMA ApplyApprovedProposalInv ==
  ASSUME Inv, NEW t \in Tabs, NEW op \in Ops, ApplyApprovedProposal(t, op)
  PROVE  Inv'
<1>1. PICK a \in approvals[t] : Enqueue(t, op, "apply", a.revision, a)
  BY DEF ApplyApprovedProposal
<1>2. a \in Approvals /\ a # None BY TabsAssumption DEF Inv, TypeOK
<1>3. a.revision = Revision(bundle[t]) /\ Quiet(bundle[t], a.seen, a.revision)
  BY DEF Inv, Held
<1>4. a.revision \in Nat BY <1>2 DEF Approvals
<1>5. a.revision <= Revision(bundle[t]) BY <1>3, <1>4
<1> QED BY <1>1, <1>2, <1>3, <1>4, <1>5, EnqueueInv

\* Every step keeps the invariant.
LEMMA NextInv ==
  ASSUME Inv, Next
  PROVE  Inv'
<1>1. PICK t \in Tabs :
        \/ Open(t) \/ Close(t) \/ Abort(t) \/ Work(t)
        \/ \E op \in Fresh : Create(t, op) \/ Submit(t, op) \/ ApplyApprovedProposal(t, op)
        \/ \E token \in Tokens : RecordUserApproval(t, token)
  BY DEF Next
<1>2. CASE Abort(t) BY <1>2, FrameInv DEF Abort, tabs
<1>3. CASE Work(t) BY <1>3, CreatedInv, StartInv, AnswerInv, CommitInv, PublishInv DEF Work
<1>4. Fresh \subseteq Ops BY DEF Fresh
<1>5. CASE \E op \in Fresh : Create(t, op) \/ Submit(t, op) \/ ApplyApprovedProposal(t, op)
  BY <1>4, <1>5, CreateInv, SubmitInv, ApplyApprovedProposalInv
<1>6. CASE \E token \in Tokens : RecordUserApproval(t, token)
  BY <1>6, RecordUserApprovalInv
<1> QED BY <1>1, <1>2, <1>3, <1>5, <1>6, OpenInv, CloseInv

------------------------------------------------------------------------------
(* The theorems. *)

\* The invariant holds in every state, whatever tabs, aborts and closes do.
THEOREM Invariance == Spec => []Inv
<1>1. Inv /\ UNCHANGED vars => Inv' BY FrameInv DEF vars
<1> QED BY InitInv, NextInv, <1>1, PTL DEF Spec

\* ApplyFollowsApproval: between the revision that the user approved and the
\* Apply that the store accepts there are only inspections (applyApprovedProposal
\* behind #write's revision check).
THEOREM ApplyIsApproved == Spec => []ApplyFollowsApproval
<1>1. Inv => ApplyFollowsApproval BY DEF Inv, Approved, Quiet, ApplyFollowsApproval
<1> QED BY Invariance, <1>1, PTL

\* ApprovalsAreCurrent: the approvals a tab holds pass isApprovalCurrent.
THEOREM HeldApprovalsAreCurrent == Spec => []ApprovalsAreCurrent
<1>1. Inv => ApprovalsAreCurrent BY DEF Inv, Held, ApprovalsAreCurrent, IsCurrent
<1> QED BY Invariance, <1>1, PTL

\* OutcomeIsTrue: a resolved promise is stored, a rejected one is not.
THEOREM PromisesAreTrue == Spec => []OutcomeIsTrue
<1>1. Inv => OutcomeIsTrue BY DEF Inv, OutcomesHold, SavedOps, OutcomeIsTrue
<1> QED BY Invariance, <1>1, PTL

\* What StudyRegister sees of a version is kept in the later ones.
LEMMA ViewFacts ==
  ASSUME NEW d \in Bundles
  PROVE  /\ View(d) = [study |-> d.study, revision |-> Revision(d), ops |-> SavedOps(d)]
         /\ View(d) \in Register!Bundles
         /\ View(d) # NoBundle
<1>1. d # NoBundle /\ Revision(d) \in Nat BY LogFacts DEF Revision
<1>2. View(d) = [study |-> d.study, revision |-> Revision(d), ops |-> SavedOps(d)]
  BY <1>1 DEF View, SavedOps
<1>3. SavedOps(d) \subseteq Ops BY SavedOpsFacts
<1>4. View(d) \in [study : Ops, revision : Nat, ops : SUBSET Ops]
  BY <1>1, <1>2, <1>3 DEF Bundles
<1> QED BY <1>2, <1>4, TabsAssumption DEF Register!Bundles

\* A save that was reported is still there.
LEMMA ViewKept ==
  ASSUME NEW d, NEW s, Past(d, s)
  PROVE  Register!Kept(View(d), View(s))
<1>1. d \in Bundles /\ s \in Bundles BY DEF Past
<1>2. /\ View(d) = [study |-> d.study, revision |-> Revision(d), ops |-> SavedOps(d)]
      /\ View(s) = [study |-> s.study, revision |-> Revision(s), ops |-> SavedOps(s)]
      /\ View(d) # NoBundle /\ View(s) # NoBundle
  BY <1>1, ViewFacts
<1>3. SavedOps(d) \subseteq SavedOps(s)
  <2>1. /\ SavedOps(d) = {d.log[i].op : i \in 1..Len(d.log)}
        /\ SavedOps(s) = {s.log[i].op : i \in 1..Len(s.log)}
    BY <1>1, SavedOpsFacts
  <2>2. Len(d.log) \in Nat /\ Len(s.log) \in Nat BY <1>1, LogFacts
  <2>3. \A i \in 1..Len(d.log) : i \in 1..Len(s.log) /\ d.log[i] = s.log[i]
    BY <2>2 DEF Past
  <2> QED BY <2>1, <2>3
<1>4. d.study = s.study /\ Revision(d) <= Revision(s) BY DEF Past, Revision
<1> QED BY <1>2, <1>3, <1>4 DEF Register!Kept

\* RegisterSpec: the tabs and IndexedDB implement StudyRegister, so no tab
\* overwrites another tab's commit and no reported save disappears.
THEOREM ImplementsRegister == Spec => RegisterSpec
<1>1. Init => Register!Init BY DEF Init, Register!Init, View
<1>2. Inv /\ [Next]_vars => [Register!Next]_(Register!vars)
  <2> SUFFICES ASSUME Inv, [Next]_vars
               PROVE  Register!Next \/ UNCHANGED <<View(stored), confirmed>>
    BY DEF Register!vars
  <2>1. ASSUME stored' = stored, confirmed' = confirmed
        PROVE  UNCHANGED <<View(stored), confirmed>>
    BY <2>1
  <2>2. ASSUME NEW t \in Tabs, NEW op \in Ops, Create(t, op) PROVE Register!Next
    <3>1. stored = NoBundle /\ confirmed' = confirmed BY <2>2 DEF Create
    <3>2. stored' \in Bundles
      <4>1. TypeOK' BY <2>2, CreateInv DEF Inv
      <4>2. stored' # NoBundle
        <5>1. Past(completed[t], stored)' /\ stored' = completed'[t]
          <6>1. stage'[t] = "creating" BY <2>2 DEF Create, Inv, TypeOK
          <6>2. Copies(stored, bundle[t], queue[t], stage[t], completed[t])'
            BY <2>2, CreateInv DEF Inv
          <6>3. stored' = completed'[t] BY <2>2 DEF Create, Inv, TypeOK
          <6> QED BY <6>1, <6>2, <6>3 DEF Copies
        <5> QED BY <5>1, TabsAssumption DEF Past
      <4> QED BY <4>1, <4>2 DEF TypeOK
    <3>3. View(stored) = NoBundle BY <3>1 DEF View
    <3>4. View(stored') \in Register!Bundles BY <3>2, ViewFacts
    <3> QED BY <3>1, <3>3, <3>4 DEF Register!Next, Register!Create
  <2>3. ASSUME NEW t \in Tabs, Created(t) PROVE Register!Next
    <3>1. /\ stored' = stored /\ confirmed' = confirmed \cup {View(completed[t])}
          /\ stage[t] = "creating"
      BY <2>3 DEF Created
    <3>2. Past(completed[t], stored) BY <3>1 DEF Inv, Copies
    <3>3. View(completed[t]) \in Register!Bundles BY <3>2, ViewFacts DEF Past
    <3>4. Register!Kept(View(completed[t]), View(stored)) BY <3>2, ViewKept
    <3> QED BY <3>1, <3>3, <3>4 DEF Register!Next, Register!Confirm
  <2>4. ASSUME NEW t \in Tabs, Publish(t) PROVE Register!Next
    <3>1. /\ stored' = stored /\ confirmed' = confirmed \cup {View(completed[t])}
          /\ stage[t] = "publishing"
      BY <2>4 DEF Publish
    <3>2. Past(completed[t], stored) BY <3>1 DEF Inv, Copies
    <3>3. View(completed[t]) \in Register!Bundles BY <3>2, ViewFacts DEF Past
    <3>4. Register!Kept(View(completed[t]), View(stored)) BY <3>2, ViewKept
    <3> QED BY <3>1, <3>3, <3>4 DEF Register!Next, Register!Confirm
  <2>5. ASSUME NEW t \in Tabs, stage[t] = "committing", RevisionMatches(t),
               stored' = completed[t], confirmed' = confirmed
        PROVE  Register!Next
    <3>1. /\ queue[t] # <<>> /\ bundle[t] = stored
          /\ bundle[t] \in Bundles /\ completed[t] \in Bundles
          /\ Past(bundle[t], completed[t])
          /\ Revision(completed[t]) = Revision(bundle[t]) + 1
          /\ SavedOps(completed[t]) = SavedOps(bundle[t]) \cup {Current(t).op}
      BY <2>5, SaveFacts
    <3>2. Current(t).op \in Ops BY <3>1, CurrentFacts
    <3>3. /\ View(stored) = [study |-> stored.study, revision |-> Revision(stored),
                             ops |-> SavedOps(stored)]
          /\ View(stored) # NoBundle
          /\ View(stored') = [study |-> completed[t].study,
                              revision |-> Revision(completed[t]),
                              ops |-> SavedOps(completed[t])]
      BY <2>5, <3>1, ViewFacts
    <3>4. completed[t].study = stored.study BY <3>1 DEF Past
    <3>5. View(stored') = Register!Advance(View(stored), Current(t).op)
      BY <3>1, <3>3, <3>4 DEF Register!Advance
    <3> QED BY <2>5, <3>2, <3>3, <3>5 DEF Register!Next, Register!Commit
  <2>6. CASE UNCHANGED vars BY <2>1, <2>6 DEF vars
  <2>7. CASE Next
    <3>1. PICK t \in Tabs :
            \/ Open(t) \/ Close(t) \/ Abort(t) \/ Work(t)
            \/ \E op \in Fresh : Create(t, op) \/ Submit(t, op) \/ ApplyApprovedProposal(t, op)
            \/ \E token \in Tokens : RecordUserApproval(t, token)
      BY <2>7 DEF Next
    <3>2. Fresh \subseteq Ops BY DEF Fresh
    <3>3. CASE \/ Open(t) \/ Close(t) \/ Abort(t) \/ Start(t)
               \/ \E op \in Fresh : Submit(t, op) \/ ApplyApprovedProposal(t, op)
               \/ \E token \in Tokens : RecordUserApproval(t, token)
      <4>1. stored' = stored /\ confirmed' = confirmed
        BY <3>3 DEF Open, Close, Abort, Start, Reject, Proceed, Submit, Enqueue,
                    ApplyApprovedProposal, RecordUserApproval
      <4> QED BY <4>1, <2>1
    <3>4. CASE Answer(t)
      <4>1. stored' = stored /\ confirmed' = confirmed BY <3>4 DEF Answer, Reject, Proceed
      <4> QED BY <4>1, <2>1
    <3>5. CASE Commit(t)
      <4>1. CASE Reject(t)
        <5>1. stored' = stored /\ confirmed' = confirmed BY <4>1 DEF Reject
        <5> QED BY <5>1, <2>1
      <4>2. CASE RevisionMatches(t) /\ stored' = completed[t] /\ Proceed(t, "publishing")
        BY <2>5, <3>5, <4>2 DEF Commit, Proceed
      <4> QED BY <3>5, <4>1, <4>2 DEF Commit
    <3> QED BY <2>2, <2>3, <2>4, <3>1, <3>2, <3>3, <3>4, <3>5 DEF Work
  <2> QED BY <2>6, <2>7
<1> QED BY <1>1, <1>2, Invariance, PTL DEF Spec, RegisterSpec, Register!Spec
==============================================================================
