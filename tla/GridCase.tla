------------------------------ MODULE GridCase ------------------------------
(***************************************************************************)
(* One case of the web UI: packages/svelte/src/lib/controller.svelte.ts    *)
(* with the BrowserStudy of packages/engine/src/index.ts.                  *)
(*                                                                         *)
(* The page runs one event at a time and each of its promises continues    *)
(* later: solves, selections and Study builds overlap.  An action is an    *)
(* event with all that follows until every continuation awaits something   *)
(* again.  The engine answers in the order of the calls, the server        *)
(* whenever it likes.  The case is a backend case whose network and DC OPF *)
(* base solution are loaded.  Demand and rating edits are one value each,  *)
(* a solution or a column is the point that it was computed at.            *)
(***************************************************************************)
EXTENDS Naturals, Sequences, Functions

CONSTANTS
  Formulations,  \* a subset of "dcopf", "acpf", "socwr", the first among them
  Targets,       \* what can be selected: "bus", "branch"
  Values,        \* demand and rating edits; 0 is none
  MaxSolves,     \* bound on the solves that a user starts
  MaxSelections, \* bound on the selections
  MaxCrashes,    \* bound on the crashes of the engine
  None

ASSUME GridAssumption ==
  /\ "dcopf" \in Formulations
  /\ Formulations \subseteq {"dcopf", "acpf", "socwr"}
  /\ Targets \subseteq {"bus", "branch"}
  /\ 0 \in Values
  /\ {MaxSolves, MaxSelections, MaxCrashes} \subseteq Nat
  /\ None \notin Nat \cup ({"solve", "select", "build"} \X Nat)

VARIABLES
  page,     \* the controller, its continuations, its calls and its server requests
  studies,  \* the Studies of the engine
  crashes

vars == <<page, studies, crashes>>

PointAt(formulation, deltas, ratings) ==
  [formulation |-> formulation, deltas |-> deltas, ratings |-> ratings]
Base(formulation) == PointAt(formulation, 0, 0)

\* The point that the case is at.
Current(p) == PointAt(p.formulation, p.deltas, p.ratings)

Init ==
  /\ page =
       [formulation |-> "dcopf", deltas |-> 0, ratings |-> 0,
        solution |-> Base("dcopf"), baseSolution |-> Base("dcopf"),
        column |-> None,
        solving |-> FALSE,
        failed |-> FALSE,       \* the solve that ended last told the user so
        seq |-> 0,              \* solveSeq
        selected |-> None,      \* selectedBus or selectedBranch
        selection |-> 0,        \* sensitivitySeq
        abort |-> None,         \* the selection whose AbortController is live
        json |-> FALSE,         \* studyInputJson is here
        listed |-> TRUE, disposed |-> FALSE,
        unavailable |-> FALSE,  \* studyUnavailable
        computeOff |-> FALSE,   \* serverComputeOff
        cache |-> None,         \* caseStudies
        build |-> None,         \* studyBuilds
        handles |-> <<>>,       \* the formulation of every handle
        waiters |-> <<>>,       \* who awaits the build of every handle, in order
        index |-> {},           \* the index maps that a BrowserStudy has memoized
        tasks |-> <<>>,         \* what awaits something
        stream |-> None,        \* the solve stream
        queue |-> <<>>]         \* the calls that the engine has not answered
  /\ studies = <<>>
  /\ crashes = 0

End(p, t) == [p EXCEPT !.tasks = Restrict(@, DOMAIN @ \ {t})]
Await(p, t, task) == [p EXCEPT !.tasks = [u \in DOMAIN @ \cup {t} |-> IF u = t THEN task ELSE @[u]]]
Call(p, op, h, t, point) ==
  [p EXCEPT !.queue = Append(@, [op |-> op, study |-> h, task |-> t, point |-> point])]

------------------------------------------------------------------------------
(* The Study of a case. *)

\* disposeStudy: a build in flight finds its entry gone and frees what it built.
DisposeStudy(p) ==
  LET q == IF p.cache = None THEN p ELSE Call(p, "free", p.cache, None, None)
  IN  [q EXCEPT !.cache = None, !.build = None]

\* createStudy, with a handle of its own.
Build(p, t) ==
  LET h == Len(p.handles) + 1
      b == <<"build", h>>
      q == Await(p, b, [at |-> "new"])
  IN  [Call(q, "new", h, b, Base(p.formulation)) EXCEPT
         !.build = h, !.handles = Append(@, p.formulation), !.waiters = Append(@, <<t>>),
         !.tasks[t].at = "build", !.tasks[t].study = h]

------------------------------------------------------------------------------
(* Columns. *)

\* acceptSensitivity.
Accept(p, column) ==
  IF p.listed /\ column.target = p.selected THEN [p EXCEPT !.column = column] ELSE p

\* selectTarget without a column from the browser, fetchServerColumn: DC OPF
\* without rating edits may ask the server.
NoColumn(p, t) ==
  IF p.abort = t /\ p.formulation = "dcopf" /\ p.ratings = 0 /\ ~p.computeOff
  THEN [p EXCEPT !.tasks[t].at = "server", !.tasks[t].point = Current(p)]
  ELSE End(p, t)

------------------------------------------------------------------------------
(* The end of a solve. *)

\* Mutant of SolveFails: the message is shown, the flag stays.
SolveFailsOpen(p, t) == [End(p, t) EXCEPT !.failed = TRUE]

\* A solve that tells the user why there is no result.
SolveFails(p, t) == [End(p, t) EXCEPT !.solving = FALSE, !.failed = TRUE]

\* What follows a Study that is unavailable or fails, and serverSolve.
\* The request rounds deltas to 0.01 MW, which whole megawatts do not show.
Fallback(p, t) ==
  IF p.formulation # "dcopf" \/ p.ratings # 0 \/ p.computeOff THEN SolveFails(p, t)
  ELSE [End(p, t) EXCEPT
          !.stream = [seq |-> t[2], target |-> p.tasks[t].target, point |-> Current(p), at |-> "open"]]

------------------------------------------------------------------------------
(* The continuations of a solve and of a selection. *)

\* Mutant of Superseded: the newest solve is not told apart.
SupersededNever(p, t) == FALSE

\* seq # c.solveSeq.
Superseded(p, t) == t[1] = "solve" /\ t[2] # p.seq

\* #senseTarget, #replaceEdits: a target may need the index map first.
ReplaceEdits(p, t) ==
  LET task == p.tasks[t]
      h == task.study
      known == task.target = None \/ p.handles[h] = "acpf" \/ <<h, task.target>> \in p.index
  IN  IF known
      THEN Call([p EXCEPT !.tasks[t].at = "edits"], "edits", h, t, task.point)
      ELSE Call([p EXCEPT !.tasks[t].at = "index"], "solution", h, t, None)

\* What follows getStudy in runSolve and in browserSensitivity; the edits are
\* read now.
WithStudy(p, t, h) ==
  LET point == [Current(p) EXCEPT !.formulation = IF h = None THEN @ ELSE p.handles[h]]
      q == [p EXCEPT !.tasks[t].study = h, !.tasks[t].point = point]
  IN  IF Superseded(p, t) THEN End(p, t)
      ELSE IF t[1] = "solve"
      THEN IF h = None THEN Fallback(p, t)
           ELSE ReplaceEdits(
                  [q EXCEPT !.baseSolution = IF @ = None /\ p.cache = h THEN Base(p.handles[h]) ELSE @], t)
      ELSE IF h = None \/ p.handles[h] = "acpf" THEN NoColumn(p, t)
      ELSE ReplaceEdits(q, t)

\* getStudy.
GetStudy(p, t) ==
  IF p.disposed \/ p.unavailable THEN WithStudy(p, t, None)
  ELSE IF p.cache # None /\ p.handles[p.cache] = p.formulation THEN WithStudy(p, t, p.cache)
  ELSE IF p.build # None /\ p.handles[p.build] = p.formulation
  THEN [p EXCEPT !.waiters[p.build] = Append(@, t),
                 !.tasks[t].at = "build", !.tasks[t].study = p.build]
  ELSE LET q == IF p.cache = None THEN p ELSE Call(p, "free", p.cache, None, None)
       IN  Build([q EXCEPT !.cache = None], t)

\* What follows ensureStudyInputJson.
WithJson(p, t) ==
  IF Superseded(p, t) \/ (p.disposed /\ t[1] = "solve") THEN End(p, t) ELSE GetStudy(p, t)

WithoutJson(p, t) ==
  IF Superseded(p, t) \/ (p.disposed /\ t[1] = "solve") THEN End(p, t)
  ELSE IF t[1] = "solve" THEN Fallback(p, t)
  ELSE NoColumn(p, t)

Start(p, t, target) ==
  LET q == Await(p, t, [at |-> "json", target |-> target, study |-> None, point |-> None])
  IN  IF p.json THEN WithJson(q, t) ELSE q

\* runSolve.
RunSolve(p, target) ==
  LET seq == p.seq + 1
      q == [p EXCEPT !.stream = None, !.seq = seq, !.solving = TRUE, !.failed = FALSE]
  IN  Start(q, <<"solve", seq>>, IF p.formulation = "acpf" THEN None ELSE target)

------------------------------------------------------------------------------
(* Answers. *)

\* Mutant of Settled: a Study that nobody wants is kept.
SettledAlways(p, h) ==
  [p EXCEPT !.cache = h, !.build = IF @ = h THEN None ELSE @]

\* The end of a build: it is cached, or freed when the formulation changed or
\* another build or a disposal took its entry.
Settled(p, h) ==
  IF p.formulation = p.handles[h] /\ p.build = h
  THEN [p EXCEPT !.cache = h, !.build = None]
  ELSE Call(p, "free", h, None, None)

\* The promise of a build resolves: everyone who awaits it continues, in order.
Resolve(p, h, study) ==
  LET w == p.waiters[h]
      q[i \in 0..Len(w)] ==
        IF i = 0 THEN [End(p, <<"build", h>>) EXCEPT !.waiters[h] = <<>>]
        ELSE WithStudy(q[i - 1], w[i], study)
  IN  q[Len(w)]

\* commit in runSolve, finishSolve.
Committed(p, t) ==
  LET task == p.tasks[t]
      q == [End(p, t) EXCEPT !.solution = task.point, !.solving = FALSE,
              !.baseSolution = IF @ = None /\ p.deltas = 0 THEN task.point ELSE @]
  IN  IF Superseded(p, t) THEN End(p, t)
      ELSE IF task.target = None THEN q
      ELSE Accept(q, [target |-> task.target, point |-> task.point])

\* sensitivity in selectTarget.
Sensed(p, t) ==
  LET task == p.tasks[t] IN
  IF p.abort = t /\ p.selection = t[2]
  THEN Accept(End(p, t), [target |-> task.target, point |-> task.point])
  ELSE End(p, t)

\* A call on the Study was refused, in runSolve and in selectTarget.
Refused(p, t, infeasible) ==
  IF Superseded(p, t) THEN End(p, t)
  ELSE IF t[1] = "select" THEN NoColumn(p, t)
  ELSE IF infeasible /\ p.formulation # "dcopf" THEN SolveFails(p, t)
  ELSE Fallback(DisposeStudy(p), t)

\* study_new.
AnswerNew(p, call) ==
  \/ /\ page' = Call([p EXCEPT !.tasks[call.task].at = "base"], "solution", call.study, call.task, None)
     /\ studies' = [h \in DOMAIN studies \cup {call.study} |->
                      IF h = call.study THEN call.point ELSE studies[h]]
  \/ \E permanent \in BOOLEAN :
       /\ page' = Resolve([p EXCEPT !.unavailable = @ \/ permanent,
                                    !.build = IF @ = call.study THEN None ELSE @],
                          call.study, None)
       /\ UNCHANGED studies

\* study_solution, for a build or for an index map.
AnswerSolution(p, call) ==
  LET t == call.task
      h == call.study
      known == [p EXCEPT !.index = @ \cup {<<h, p.tasks[t].target>>}]
      gone == [p EXCEPT !.build = IF @ = h THEN None ELSE @]
      settled == Settled(p, h)
  IN
  /\ page' = IF t[1] = "build"
             THEN IF h \in DOMAIN studies
                  THEN Resolve(settled, h, IF settled.cache = h THEN h ELSE None)
                  ELSE Resolve(gone, h, None)
             ELSE IF h \in DOMAIN studies THEN ReplaceEdits(known, t) ELSE Refused(p, t, FALSE)
  /\ UNCHANGED studies

\* study_replace_edits.  A solve that succeeds without a column is left out.
AnswerEdits(p, call) ==
  LET t == call.task IN
  \/ /\ call.study \in DOMAIN studies
     /\ studies' = [studies EXCEPT ![call.study] = call.point]
     /\ page' = IF t[1] = "solve" THEN Committed(p, t) ELSE Sensed(p, t)
  \/ /\ \E infeasible \in BOOLEAN :
          /\ infeasible => call.study \in DOMAIN studies
          /\ page' = Refused(p, t, infeasible)
     /\ UNCHANGED studies

\* study_free.
AnswerFree(p, call) ==
  /\ page' = p
  /\ studies' = Restrict(studies, DOMAIN studies \ {call.study})

EngineAnswers ==
  /\ page.queue # <<>>
  /\ \E call \in {Head(page.queue)}, p \in {[page EXCEPT !.queue = Tail(@)]} :
       \/ call.op = "new" /\ AnswerNew(p, call)
       \/ call.op = "solution" /\ AnswerSolution(p, call)
       \/ call.op = "edits" /\ AnswerEdits(p, call)
       \/ call.op = "free" /\ AnswerFree(p, call)
  /\ UNCHANGED crashes

\* The engine loses its Studies; the calls that name one are refused from now on.
Crash ==
  /\ crashes < MaxCrashes
  /\ crashes' = crashes + 1
  /\ studies' = <<>>
  /\ UNCHANGED page

\* getCaseModuleJson.
ModuleArrives(t) ==
  /\ page.tasks[t].at = "json"
  /\ page' \in {WithJson([page EXCEPT !.json = TRUE], t), WithoutJson(page, t)}
  /\ UNCHANGED <<studies, crashes>>

\* getSensitivity, getBranchSensitivity: a column, a failure, or compute is off.
ServerColumn(t) ==
  /\ page.tasks[t].at = "server"
  /\ LET task == page.tasks[t]
         p == End(page, t)
     IN  page' \in
           {IF page.abort = t /\ page.selection = t[2]
            THEN Accept(p, [target |-> task.target, point |-> task.point])
            ELSE p,
            p,
            [p EXCEPT !.computeOff = TRUE]}
  /\ UNCHANGED <<studies, crashes>>

\* The handlers of openSolveStream: solution, column of a bus, end, failure.
StreamEvent ==
  /\ page.stream # None
  /\ LET st == page.stream
         live == st.seq = page.seq
         shut == [page EXCEPT !.stream = None]
     IN
     \/ /\ st.at = "open"
        /\ page' = [page EXCEPT !.stream.at = IF st.target = "bus" THEN "solved" ELSE "sensed",
                                !.solution = IF live THEN st.point ELSE @]
     \/ /\ st.at = "solved"
        /\ LET p == [page EXCEPT !.stream.at = "sensed"] IN
           page' = IF live THEN Accept(p, [target |-> "bus", point |-> st.point]) ELSE p
     \/ /\ st.at = "sensed"
        /\ page' = IF live THEN [shut EXCEPT !.solving = FALSE] ELSE shut
     \/ page' = IF live THEN [shut EXCEPT !.solving = FALSE, !.failed = TRUE] ELSE shut
  /\ UNCHANGED <<studies, crashes>>

------------------------------------------------------------------------------
(* The user. *)

User == page.listed /\ ~page.disposed
MaySolve == User /\ page.seq < MaxSolves

\* selectTarget, beginBusSelection and beginBranchSelection.
\* awaitFocus, before the column is requested, is part of the step: the sequence
\* number and the abort are looked at after it as after every await.
SelectTarget(target) ==
  /\ User
  /\ page.selection < MaxSelections
  /\ LET n == page.selection + 1
         t == <<"select", n>>
         p == [page EXCEPT !.selection = n, !.abort = t, !.selected = target, !.column = None]
     IN  page' = IF p.formulation = "acpf" THEN p ELSE Start(p, t, target)
  /\ UNCHANGED <<studies, crashes>>

ClearedSelection(p) ==
  [p EXCEPT !.selection = @ + 1, !.abort = None, !.selected = None, !.column = None]

\* clearSelection.
ClearSelection ==
  /\ User
  /\ page.selected # None
  /\ page' = ClearedSelection(page)
  /\ UNCHANGED <<studies, crashes>>

\* commitDelta.
CommitDelta(value) ==
  /\ MaySolve
  /\ page.selected = "bus"
  /\ value # page.deltas
  /\ page' = RunSolve([page EXCEPT !.deltas = value], "bus")
  /\ UNCHANGED <<studies, crashes>>

\* commitRating.
CommitRating(value) ==
  /\ MaySolve
  /\ page.selected = "branch"
  /\ value # page.ratings
  /\ page' = RunSolve([page EXCEPT !.ratings = value], "branch")
  /\ UNCHANGED <<studies, crashes>>

\* resetCase.
ResetCase ==
  /\ MaySolve
  /\ LET p == [page EXCEPT !.deltas = 0, !.ratings = 0,
                           !.solution = IF page.baseSolution = None THEN @ ELSE page.baseSolution]
     IN  page' = RunSolve(p, page.selected)
  /\ UNCHANGED <<studies, crashes>>

\* changeFormulation, until it solves.
Reformulated(p, next) ==
  [DisposeStudy([p EXCEPT !.formulation = next]) EXCEPT
     !.baseSolution = None, !.solution = None, !.column = None, !.selection = @ + 1]

ChangeFormulation(next) ==
  /\ MaySolve
  /\ next # page.formulation
  /\ page' = RunSolve(Reformulated(page, next), page.selected)
  /\ UNCHANGED <<studies, crashes>>

\* removeBackendCase.
RemoveBackendCase ==
  /\ User
  /\ page' = [ClearedSelection(DisposeStudy([page EXCEPT !.stream = None, !.seq = @ + 1]))
                EXCEPT !.listed = FALSE]
  /\ UNCHANGED <<studies, crashes>>

\* dispose.
Dispose ==
  /\ User
  /\ page' = [DisposeStudy([page EXCEPT !.abort = None, !.seq = @ + 1]) EXCEPT !.disposed = TRUE]
  /\ UNCHANGED <<studies, crashes>>

------------------------------------------------------------------------------
(* The system. *)

Answers ==
  \/ EngineAnswers
  \/ \E t \in DOMAIN page.tasks : ModuleArrives(t) \/ ServerColumn(t)
  \/ StreamEvent

Next ==
  \/ Answers
  \/ Crash
  \/ \E target \in Targets : SelectTarget(target)
  \/ ClearSelection
  \/ \E value \in Values : CommitDelta(value) \/ CommitRating(value)
  \/ ResetCase
  \/ \E next \in Formulations : ChangeFormulation(next)
  \/ RemoveBackendCase
  \/ Dispose

\* Every call, request and stream is answered sooner or later: by the engine, by
\* its host when the engine is gone, by the server or by the browser's network
\* error.
Spec == Init /\ [][Next]_vars /\ WF_vars(Answers)

------------------------------------------------------------------------------
(* Properties. *)

\* When the case is at rest and no solve told the user otherwise, the solution is
\* the one of the demand, the ratings and the formulation on the screen: never an
\* answer of a superseded solve, never the server's answer without the rating
\* edits.  A solution is never one of another formulation.
SolutionIsCurrent ==
  page.listed /\ ~page.disposed =>
    /\ page.solution # None => page.solution.formulation = page.formulation
    /\ ~page.solving /\ ~page.failed => page.solution = Current(page)

\* A column belongs to the selection and to the formulation.
ColumnIsSelected ==
  page.column # None =>
    /\ page.column.target = page.selected
    /\ page.column.point.formulation = page.formulation

\* What runSolve, selectTarget, resetCase and changeFormulation leave on the
\* screen fits together, in whatever order their answers arrive.
ScreenIsCurrent == SolutionIsCurrent /\ ColumnIsSelected

\* Every Study in the engine is the cached one, is being built, or is about to be
\* freed; after dispose none stays.  A cached Study is never a freed one.  (A
\* selection that still awaits the module when its case is removed builds a Study
\* that nobody frees.)
StudiesAreOwned ==
  LET freed == {page.queue[i].study : i \in {j \in DOMAIN page.queue : page.queue[j].op = "free"}}
  IN
  /\ page.listed =>
       \A h \in DOMAIN studies : h = page.cache \/ <<"build", h>> \in DOMAIN page.tasks \/ h \in freed
  /\ page.cache # None =>
       /\ page.cache \notin freed
       /\ crashes = 0 => page.cache \in DOMAIN studies
  /\ page.disposed => page.cache = None

\* A solve ends: with a result, with a message, or because another one took over.
SolveEnds == []<>(~page.solving \/ ~page.listed \/ page.disposed)

\* The comment at the fast path of runPreview: the column is "already solved at
\* the committed point".
ColumnIsCommitted ==
  page.column # None /\ ~page.disposed /\ ~page.solving /\ ~page.failed =>
    page.column.point = Current(page)
=============================================================================
