------------------------------ MODULE StudyTabs ------------------------------
(***************************************************************************)
(* Studies in the browser: IndexedDbStudyStore and StudyDocumentController *)
(* of packages/engine/src/study-document.ts.  Several tabs keep a copy of  *)
(* one saved Study; the page and an agent queue operations in a tab, the   *)
(* user approves proposals, callers abort operations, tabs are closed.     *)
(*                                                                         *)
(* The document is abstracted to what approvals and saves depend on (the   *)
(* operations themselves are in StudyDocument): a goal, a state and a      *)
(* proposal are named by the operation that made them, and the log of      *)
(* committed operations stands for the rest.  The revision is its length.  *)
(***************************************************************************)
EXTENDS Naturals, Sequences, SequencesExt

CONSTANTS
  Tabs,          \* controllers, each in a tab of its own
  Ops,           \* identities of operations and of the Studies they create
  Tokens,        \* approval tokens
  NoBundle,      \* no Study is stored, or the tab is closed
  None,          \* null
  Kinds,         \* the kinds of operations that execute is called with
  MaxQueue       \* bound on the operations queued in a tab

\* StudyBundle, StudyOperation and Approval, in this abstraction.  An entry
\* of the log and an approval say, for the properties only, at which revision
\* the user looked (`seen`).
Proposals == [id : Ops, goal : Ops, base : Ops, state : Ops]

Entries ==
  [op : Ops, kind : Kinds \cup {"apply"}, seen : Nat \cup {None}]

Bundles ==
  [study : Ops, goal : Ops, recommended : Ops \cup {None}, applied : Ops,
   proposals : SUBSET Proposals, log : Seq(Entries)]

Approvals ==
  [token : Tokens, proposal : Ops, state : Ops, goal : Ops, base : Ops,
   revision : Nat, seen : Nat]

Requests ==
  [op : Ops, kind : Kinds \cup {"apply"}, expected : Nat, approval : Approvals \cup {None}]

\* NoBundle is no document, and none of those that StudyRegister stores.
ASSUME TabsAssumption ==
  /\ MaxQueue \in Nat \ {0}
  /\ Kinds \subseteq {"inspect", "branch", "revise_goal", "edit_demand", "propose"}
  /\ NoBundle \notin Bundles
  /\ NoBundle \notin [study : Ops, revision : Nat, ops : SUBSET Ops]
  /\ None \notin Approvals

VARIABLES
  stored,      \* the bundle in IndexedDB
  bundle,      \* #bundle of each tab
  queue,       \* #queue: requests not settled, the first one is being worked on
  stage,       \* how far the first request is
  completed,   \* the backend's answer to the first request
  approvals,   \* #approvals
  aborted,     \* operations not settled whose AbortSignal fired
  outcome,     \* what became of the promise of each operation
  confirmed    \* bundles, as StudyRegister sees them, whose save was reported

vars == <<stored, bundle, queue, stage, completed, approvals, aborted, outcome, confirmed>>

Revision(d) == Len(d.log)

\* What StudyRegister knows of a bundle.
View(d) ==
  IF d = NoBundle THEN NoBundle
  ELSE [study |-> d.study, revision |-> Revision(d), ops |-> {e.op : e \in Range(d.log)}]

Register == INSTANCE StudyRegister WITH current <- View(stored)

Init ==
  /\ stored = NoBundle
  /\ bundle = [t \in Tabs |-> NoBundle]
  /\ queue = [t \in Tabs |-> <<>>]
  /\ stage = [t \in Tabs |-> "idle"]
  /\ completed = [t \in Tabs |-> NoBundle]
  /\ approvals = [t \in Tabs |-> {}]
  /\ aborted = {}
  /\ outcome = [o \in Ops |-> "unused"]
  /\ confirmed = {}

------------------------------------------------------------------------------
(* StudyDocumentController.create, .open; the tab's end. *)

tabs == <<bundle, queue, stage, completed, approvals>>

\* create, and import of a Study without history: the engine makes the bundle
\* and one transaction adds it.  A failure of either leaves everything as it was.
Create(t, op) ==
  /\ bundle[t] = NoBundle
  /\ stage[t] = "idle"
  /\ stored = NoBundle
  /\ outcome[op] = "unused"
  /\ stored' = [study |-> op, goal |-> op, recommended |-> None, applied |-> op,
                proposals |-> {}, log |-> <<>>]
  /\ completed' = [completed EXCEPT ![t] = stored']
  /\ stage' = [stage EXCEPT ![t] = "creating"]
  /\ outcome' = [outcome EXCEPT ![op] = "pending"]
  /\ UNCHANGED <<bundle, queue, approvals, aborted, confirmed>>

\* The transaction's completion reaches the tab: the caller gets its controller.
Created(t) ==
  /\ stage[t] = "creating"
  /\ bundle' = [bundle EXCEPT ![t] = completed[t]]
  /\ confirmed' = confirmed \cup {View(completed[t])}
  /\ outcome' = [outcome EXCEPT ![completed[t].study] = "resolved"]
  /\ stage' = [stage EXCEPT ![t] = "idle"]
  /\ completed' = [completed EXCEPT ![t] = NoBundle]
  /\ UNCHANGED <<stored, queue, approvals, aborted>>

\* The saved bundle without approvals.
Open(t) ==
  /\ bundle[t] = NoBundle
  /\ stage[t] = "idle"
  /\ stored # NoBundle
  /\ bundle' = [bundle EXCEPT ![t] = stored]
  /\ UNCHANGED <<stored, queue, stage, completed, approvals, aborted, outcome, confirmed>>

\* The operations whose promises live in the tab.
Working(t) ==
  {r.op : r \in Range(queue[t])} \cup
  (IF stage[t] = "creating" THEN {completed[t].study} ELSE {})

\* The tab is closed, reloaded or crashes, whatever it is doing.
Close(t) ==
  /\ bundle[t] # NoBundle \/ stage[t] = "creating"
  /\ bundle' = [bundle EXCEPT ![t] = NoBundle]
  /\ queue' = [queue EXCEPT ![t] = <<>>]
  /\ stage' = [stage EXCEPT ![t] = "idle"]
  /\ completed' = [completed EXCEPT ![t] = NoBundle]
  /\ approvals' = [approvals EXCEPT ![t] = {}]
  /\ outcome' = [o \in Ops |-> IF o \in Working(t) THEN "abandoned" ELSE outcome[o]]
  /\ aborted' = aborted \ Working(t)
  /\ UNCHANGED <<stored, confirmed>>

------------------------------------------------------------------------------
(* StudyDocumentController.execute. *)

\* #execute: the request is queued behind the earlier ones.
Enqueue(t, op, kind, expected, approval) ==
  /\ bundle[t] # NoBundle
  /\ outcome[op] = "unused"
  /\ Len(queue[t]) < MaxQueue
  /\ queue' = [queue EXCEPT ![t] = Append(@,
       [op |-> op, kind |-> kind, expected |-> expected, approval |-> approval])]
  /\ outcome' = [outcome EXCEPT ![op] = "pending"]
  /\ UNCHANGED <<stored, bundle, stage, completed, approvals, aborted, confirmed>>

\* execute: any operation but Apply.  A caller expects the revision it saw, or
\* one it counts on because of operations already queued.
Submit(t, op) ==
  \E kind \in Kinds :
    /\ bundle[t] # NoBundle
    /\ \E ahead \in 0..Len(queue[t]) :
         Enqueue(t, op, kind, Revision(bundle[t]) + ahead, None)

\* The AbortSignal of a request fires while its promise is pending.
Abort(t) ==
  \E r \in Range(queue[t]) :
    /\ aborted' = aborted \cup {r.op}
    /\ UNCHANGED <<stored, tabs, outcome, confirmed>>

Current(t) == Head(queue[t])

\* The first request is settled and the next one may start, whatever the
\* outcome: `operation.catch(() => undefined)`.
Settle(t, result) ==
  /\ outcome' = [outcome EXCEPT ![Current(t).op] = result]
  /\ queue' = [queue EXCEPT ![t] = Tail(@)]
  /\ stage' = [stage EXCEPT ![t] = "idle"]
  /\ completed' = [completed EXCEPT ![t] = NoBundle]
  /\ aborted' = aborted \ {Current(t).op}

\* The operation throws before anything is saved.
Reject(t) ==
  /\ Settle(t, "rejected")
  /\ UNCHANGED <<stored, bundle, approvals, confirmed>>

Proceed(t, next) ==
  /\ stage' = [stage EXCEPT ![t] = next]
  /\ UNCHANGED <<bundle, queue, approvals, aborted, outcome, confirmed>>

\* The first checks, when the requests before it are settled.
Start(t) ==
  /\ queue[t] # <<>>
  /\ stage[t] = "idle"
  /\ IF Current(t).op \in aborted \/ Current(t).expected # Revision(bundle[t])
     THEN Reject(t)
     ELSE Proceed(t, "running") /\ UNCHANGED <<stored, completed>>

\* The state a request works on is the applied one; what it makes is named by
\* the request.
Proposal(d, op) == [id |-> op, goal |-> d.goal, base |-> d.applied, state |-> op]

\* Apply as the engine checks it (StudyDocument!Binds).
Binds(d, a) ==
  /\ d.goal = a.goal
  /\ d.recommended = a.state
  /\ \E p \in d.proposals : p.id = a.proposal /\ p.goal = a.goal /\ p.base = a.base
                            /\ p.state = a.state

\* The documents the engine may answer request r with.
Answers(d, r) ==
  LET next == [d EXCEPT !.log = Append(@, [op |-> r.op, kind |-> r.kind,
                 seen |-> IF r.approval = None THEN None ELSE r.approval.seen])]
      made == [next EXCEPT !.proposals = @ \cup {Proposal(d, r.op)}]
  IN  CASE r.kind \in {"inspect", "branch"} -> {next}
        [] r.kind = "revise_goal" -> {[next EXCEPT !.goal = r.op, !.recommended = None]}
        [] r.kind = "edit_demand" -> {[made EXCEPT !.recommended = r.op],
                                      [next EXCEPT !.recommended = None]}
        [] r.kind = "propose" -> {[made EXCEPT !.recommended = r.op], next}
        [] r.kind = "apply" -> IF Binds(d, r.approval)
                               THEN {[next EXCEPT !.applied = r.approval.state]} ELSE {}

\* The engine fails or answers; the answer to an aborted request is dropped,
\* unless it is a search, which ends with what it has.
Answer(t) ==
  /\ stage[t] = "running"
  /\ \/ Reject(t)
     \/ /\ Current(t).op \in aborted => Current(t).kind = "propose"
        /\ \E d \in Answers(bundle[t], Current(t)) :
             completed' = [completed EXCEPT ![t] = d]
        /\ Proceed(t, "committing")
        /\ UNCHANGED stored

\* Mutant of RevisionMatches: the put is not compared with the stored bundle.
RevisionMatchesAny(t) == stored # NoBundle

\* #write: the stored bundle is still the one the operation started from.
RevisionMatches(t) ==
  /\ stored # NoBundle
  /\ Revision(stored) = Current(t).expected
  /\ Revision(completed[t]) = Current(t).expected + 1

\* Mutant of Commit: nothing settles the promise of an aborted transaction.
CommitSilently(t) ==
  /\ stage[t] = "committing"
  /\ RevisionMatches(t)
  /\ \/ Reject(t)
     \/ /\ stored' = completed[t]
        /\ Proceed(t, "publishing")
        /\ UNCHANGED completed

\* One read-write transaction: another tab got there first, the browser
\* refuses the write, or the bundle is stored.
Commit(t) ==
  /\ stage[t] = "committing"
  /\ \/ Reject(t)
     \/ /\ RevisionMatches(t)
        /\ stored' = completed[t]
        /\ Proceed(t, "publishing")
        /\ UNCHANGED completed

\* Mutant of KeepsApprovals: a search keeps them too.
KeepsApprovalsSearch(kind) == kind \in {"inspect", "propose"}

\* The operations (inspect, compare, record_evidence) that leave what was
\* approved as it is.
KeepsApprovals(kind) == kind = "inspect"

\* Mutant of Refreshed: approvals keep the revision they were given at.
RefreshedNever(t) == approvals[t]

Refreshed(t) == {[a EXCEPT !.revision = Revision(completed[t])] : a \in approvals[t]}

\* Mutant of Report: a late abort is thrown to the caller.
ReportAbort(t) == IF Current(t).op \in aborted THEN "rejected" ELSE "resolved"

\* The operation is saved, so its promise is resolved, aborted or not.
Report(t) == "resolved"

\* The transaction's completion reaches the tab: the saved bundle becomes the
\* tab's bundle and the approvals follow it or expire.
Publish(t) ==
  /\ stage[t] = "publishing"
  /\ bundle' = [bundle EXCEPT ![t] = completed[t]]
  /\ approvals' = [approvals EXCEPT ![t] =
                     IF KeepsApprovals(Current(t).kind) THEN Refreshed(t) ELSE {}]
  /\ confirmed' = confirmed \cup {View(completed[t])}
  /\ Settle(t, Report(t))
  /\ UNCHANGED stored

------------------------------------------------------------------------------
(* Approval. *)

\* recordUserApproval: the user approves the recommended proposal on screen.
RecordUserApproval(t, token) ==
  /\ bundle[t] # NoBundle
  /\ bundle[t].recommended # None
  /\ \A u \in Tabs : \A a \in approvals[u] : a.token # token
  /\ \A u \in Tabs : \A i \in 1..Len(queue[u]) :
       queue[u][i].approval # None => queue[u][i].approval.token # token
  /\ \E p \in bundle[t].proposals :
       /\ p.goal = bundle[t].goal
       /\ p.state = bundle[t].recommended
       /\ approvals' = [approvals EXCEPT ![t] = @ \cup
            {[token |-> token, proposal |-> p.id, state |-> p.state, goal |-> p.goal,
              base |-> p.base, revision |-> Revision(bundle[t]),
              seen |-> Revision(bundle[t])]}]
  /\ UNCHANGED <<stored, bundle, queue, stage, completed, aborted, outcome, confirmed>>

\* isApprovalCurrent
IsCurrent(t, a) ==
  /\ Revision(bundle[t]) = a.revision
  /\ bundle[t].goal = a.goal
  /\ bundle[t].recommended = a.state
  /\ \E p \in bundle[t].proposals : p.id = a.proposal /\ p.base = a.base

\* applyApprovedProposal
ApplyApprovedProposal(t, op) ==
  \E a \in approvals[t] : IsCurrent(t, a) /\ Enqueue(t, op, "apply", a.revision, a)

------------------------------------------------------------------------------

\* The identity of the next operation: which one it is makes no difference.
Fresh ==
  LET unused == {o \in Ops : outcome[o] = "unused"}
  IN  IF unused = {} THEN {} ELSE {CHOOSE o \in unused : TRUE}

Work(t) == Created(t) \/ Start(t) \/ Answer(t) \/ Commit(t) \/ Publish(t)

Next ==
  \E t \in Tabs :
    \/ Open(t) \/ Close(t) \/ Abort(t) \/ Work(t)
    \/ \E op \in Fresh : Create(t, op) \/ Submit(t, op) \/ ApplyApprovedProposal(t, op)
    \/ \E token \in Tokens : RecordUserApproval(t, token)

Spec == Init /\ [][Next]_vars

\* The engine answers (StudySearch!Terminates), IndexedDB completes or aborts
\* every transaction, and an open tab runs its callbacks.
FairSpec == Spec /\ \A t \in Tabs : WF_vars(Work(t))

------------------------------------------------------------------------------
(* Properties. *)

\* "Human approval binds a particular proposal, starting state and goal": when
\* a proposal is applied, nothing but inspections was committed since the
\* revision at which the user approved it, in this tab or in any other, although
\* approvals are renewed from revision to revision and requests wait in queues.
\* In particular no approval is used twice.
ApplyFollowsApproval ==
  stored # NoBundle =>
    \A i \in 1..Len(stored.log) : stored.log[i].kind = "apply" =>
      \A j \in (stored.log[i].seen + 1)..(i - 1) : stored.log[j].kind = "inspect"

\* Viewing keeps an approval usable: whatever the tab shows, every approval it
\* holds passes isApprovalCurrent, also one given while an operation was being
\* saved.
ApprovalsAreCurrent == \A t \in Tabs : \A a \in approvals[t] : IsCurrent(t, a)

\* A promise tells the truth about the save, across failed transactions, other
\* tabs' commits and aborts that come too late: resolved means stored, rejected
\* means not stored.
OutcomeIsTrue ==
  stored # NoBundle =>
    LET saved == {e.op : e \in Range(stored.log)} IN
    \A o \in Ops \ {stored.study} :
      /\ outcome[o] = "resolved" => o \in saved
      /\ outcome[o] = "rejected" => o \notin saved

\* Tabs implement the register: no tab overwrites another tab's commit.
RegisterSpec == Register!Spec

\* Every promise is settled while its tab stays open, however the requests
\* before it ended: there are finitely many requests, so again and again none
\* is pending.
EveryRequestSettles == []<>(\A o \in Ops : outcome[o] # "pending")
==============================================================================
