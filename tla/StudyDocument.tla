---------------------------- MODULE StudyDocument ----------------------------
(***************************************************************************)
(* The Study document and its operations: crates/tellegen/src/document.rs  *)
(* and crates/tellegen/src/study_ops.rs.                                   *)
(*                                                                         *)
(* Records are named by a hash of their contents, so here a record is its  *)
(* own identity: adding a state or a decision twice adds it once, and two  *)
(* experiments with the same contents differ by their position.  A network *)
(* is an element of Inputs; a solve that is not the subject of this module *)
(* (StudySearch has the search) succeeds or fails.                         *)
(*                                                                         *)
(* An operation maps a document to the set of documents it may produce;    *)
(* the empty set is an Err.                                                *)
(***************************************************************************)
EXTENDS Integers, Sequences, FiniteSets

CONSTANTS
  Inputs,        \* networks
  BaseInput,     \* the network the Study was created from
  Requests,      \* what a goal asks for
  MaxTrials,     \* bound on the trials of one search
  MaxRevision,   \* the largest revision (u64::MAX in the code)
  MaxRecords     \* the largest number of records (100000 in the code)

ASSUME DocumentAssumption ==
  /\ BaseInput \in Inputs
  /\ MaxTrials \in Nat
  /\ MaxRevision \in Nat
  /\ MaxRecords \in Nat

VARIABLE doc

\* Option::None, unlike every record of a document.
None == [none |-> TRUE]

StateNode(parent, input, solved, label) ==
  [parent |-> parent, input |-> input, solved |-> solved, label |-> label]

\* An ExperimentRecord; `refers` are the states it names besides its start: the
\* result states, and the assessed recommendation of a challenge.  `accepted`
\* are the states, or None, in the records of its accepted trials.
Record(kind, start, goal, results, refers, accepted, termination) ==
  [kind |-> kind, start |-> start, goal |-> goal, results |-> results,
   refers |-> refers, accepted |-> accepted, termination |-> termination]

Assessment(kind, start, goal, assessed) ==
  Record(kind, start, goal, {}, assessed, {}, "completed")

Experiment(kind, start, goal, results, termination) ==
  Record(kind, start, goal, results, results, {}, termination)

Planning(start, goal, results, accepted) ==
  Record("planning", start, goal, results, results, accepted, "ended")

Decision(position, state, choice) ==
  [experiment |-> position, state |-> state, choice |-> choice]

Goal(parent, anchor, request) ==
  [parent |-> parent, anchor |-> anchor, request |-> request]

------------------------------------------------------------------------------
(* StudyBundle: the parts operations are made of. *)

AddState(d, s) == [d EXCEPT !.states = @ \cup {s}]
AddExperiment(d, e) == [d EXCEPT !.experiments = Append(@, e)]

\* Mutant of AddDecision: the latest decision on an experiment replaces others.
AddDecisionLatest(d, r) ==
  [d EXCEPT !.decisions = {x \in @ : x.experiment # r.experiment} \cup {r}]

AddDecision(d, r) == [d EXCEPT !.decisions = @ \cup {r}]

\* inspect
InspectState(d, s) == IF s \in d.states THEN {[d EXCEPT !.inspected = s]} ELSE {}

\* Mutant of ReviseGoal: the recommendation of the old goal stays.
ReviseGoalKeeping(d, g) ==
  IF g.anchor \in d.states /\ g.parent = d.active
  THEN {[d EXCEPT !.goals = @ \cup {g}, !.active = g]}
  ELSE {}

\* Mutant of ReviseGoal: any goal may be revised.
ReviseAnyGoal(d, g) ==
  IF g.anchor \in d.states
  THEN {[d EXCEPT !.goals = @ \cup {g}, !.active = g, !.recommended = None]}
  ELSE {}

\* revise_goal
ReviseGoal(d, g) ==
  IF g.anchor \in d.states /\ g.parent = d.active
  THEN {[d EXCEPT !.goals = @ \cup {g}, !.active = g, !.recommended = None]}
  ELSE {}

Optional(x, set) == x = None \/ x \in set

Positions(d) == 1..Len(d.experiments)

\* The size limit of validate.
WithinLimit(d) ==
  Cardinality(d.states) + Cardinality(d.goals) + Len(d.experiments)
    + Cardinality(d.decisions) <= MaxRecords

\* The references that validate requires.
ReferencesExist(d) ==
  /\ \A s \in d.states : Optional(s.parent, d.states)
  /\ \A g \in d.goals : g.anchor \in d.states /\ Optional(g.parent, d.goals)
  /\ \A i \in Positions(d) :
       LET e == d.experiments[i] IN
       /\ Optional(e.start, d.states)
       /\ e.kind # "historical_import" => e.start # None
       /\ Optional(e.goal, d.goals)
       /\ e.kind = "planning" => e.goal # None
       /\ e.refers \subseteq d.states
       /\ None \notin e.accepted
       /\ e.kind \in {"inspection", "sensitivity"} => e.results = {}
  /\ \A r \in d.decisions : r.experiment \in Positions(d) /\ r.state \in d.states
  /\ Optional(d.inspected, d.states)
  /\ Optional(d.recommended, d.states)
  /\ Optional(d.applied, d.states)
  /\ Optional(d.active, d.goals)

\* transaction: the operation on a copy, one revision further, validated.
Transaction(d, results) ==
  IF d.revision < MaxRevision
  THEN {r \in {[x EXCEPT !.revision = d.revision + 1] : x \in results} :
          WithinLimit(r) /\ ReferencesExist(r)}
  ELSE {}

------------------------------------------------------------------------------
(* execute_study, one definition for each operation. *)

Branch(d, s) ==
  {AddExperiment(x, Experiment("inspection", s, d.active, {}, "branch_selected")) :
     x \in InspectState(d, s)}

\* compare_states evaluates both states under a goal of this Study, and needs
\* their results for it; without a goal it only shows them.
MayCompare(d, left, right, goal) ==
  /\ {left, right} \subseteq d.states
  /\ goal # None => goal \in d.goals /\ left.solved /\ right.solved

Compare(d, left, right, goal) ==
  IF MayCompare(d, left, right, goal)
  THEN {AddExperiment(d, Experiment("inspection", left, goal, {}, "completed"))}
  ELSE {}

\* RecordEvidence leaves every check to validate.
RecordEvidence(d, s, goal, sensitivity, assessed) ==
  {AddExperiment(d, Assessment(
     IF assessed # None THEN "challenge"
     ELSE IF sensitivity THEN "sensitivity" ELSE "inspection",
     s, goal, {assessed} \ {None}))}

\* edit_saved_case: the result of a failed solve is an unsolved state, which is
\* inspected and recommended like any other.
EditSavedCase(d, s, goal, input, label) ==
  {LET node == StateNode(s, input, solved, label)
       e == Experiment("counterfactual", s, goal, {node},
                       IF solved THEN "completed" ELSE "solve_failed")
       x == AddExperiment(AddState(d, node), e)
   IN  [x EXCEPT !.inspected = node, !.recommended = node] : solved \in BOOLEAN}

\* counterfactual with constrain_to_goal: a failed or cancelled solve leaves a
\* record without a state; a result that misses the goal's demand total is
\* kept and inspected but not recommended.
EditWithinGoal(d, s, goal, input) ==
  LET failed ==
        [AddExperiment(d, Experiment("counterfactual", s, goal, {}, "failed"))
           EXCEPT !.recommended = None]
      node == StateNode(s, input, TRUE, <<"edit">>)
      done(permitted) ==
        LET x == AddExperiment(AddState(d, node),
                   Experiment("counterfactual", s, goal, {node},
                     IF permitted THEN "completed" ELSE "demand_total_incomplete"))
            y == [x EXCEPT !.inspected = node,
                           !.recommended = IF permitted THEN node ELSE None]
        IN  IF permitted
            THEN AddDecision(y, Decision(Len(y.experiments), node, "recommend"))
            ELSE y
  IN  {failed, done(TRUE), done(FALSE)}

EditDemand(d, s, goal, constrained, input) ==
  IF d.active # goal \/ s \notin d.states THEN {}
  ELSE IF goal = None \/ ~constrained THEN EditSavedCase(d, s, goal, input, <<"edit">>)
  ELSE EditWithinGoal(d, s, goal, input)

RestoreBase(d, s, goal) ==
  IF d.active # goal \/ s \notin d.states THEN {}
  ELSE EditSavedCase(d, s, goal, BaseInput, <<"base">>)

\* A trial of a search: the network it tried (None: its solve failed), the
\* number of its parent_trial (0: none), and whether it was accepted.
Trials == [input : Inputs \cup {None}, parent : 0..MaxTrials, accepted : BOOLEAN]

\* Trials in the order of a search (StudySearch): an iteration's trials descend
\* from the trial accepted last before it, and one of them may be accepted.
InSearchOrder(t) ==
  \A i \in DOMAIN t :
    /\ t[i].parent \in {0} \cup {j \in 1..(i - 1) : t[j].accepted}
    /\ t[i].accepted => t[i].input # None
    /\ \A j \in 1..(i - 1) :
         /\ t[j].parent <= t[i].parent
         /\ t[j].accepted =>
              j <= t[i].parent \/ (t[i].parent = t[j].parent /\ ~t[i].accepted)

Searches == {t \in UNION {[1..n -> Trials] : n \in 0..MaxTrials} : InSearchOrder(t)}

\* What a search may leave behind: its trials, and whether the starting state
\* was a feasible candidate; when it was not, the first iteration that solves a
\* trial accepts one.
Outcomes ==
  {o \in [trials : Searches, start : BOOLEAN] :
     o.start \/ (\A i \in DOMAIN o.trials : o.trials[i].input = None)
             \/ (\E i \in DOMAIN o.trials : o.trials[i].accepted)}

\* trial_states: a solved trial is saved under its number, with the state of
\* its parent trial as its parent, or the starting state.
TrialStates(s, t) ==
  LET state[i \in DOMAIN t] ==
        IF t[i].input = None THEN None
        ELSE StateNode(IF t[i].parent \in 1..(i - 1) THEN state[t[i].parent] ELSE s,
                       t[i].input, TRUE, <<"trial", i>>)
  IN  state

AcceptedTrials(t) == {i \in DOMAIN t : t[i].accepted}
LastAccepted(t) == CHOOSE i \in AcceptedTrials(t) : \A j \in AcceptedTrials(t) : j <= i

\* The recommendation of propose_async: the state of the last accepted trial,
\* or the starting state.
RecommendedBy(s, o, states) ==
  IF AcceptedTrials(o.trials) # {} THEN states[LastAccepted(o.trials)]
  ELSE IF o.start THEN s ELSE None

\* Mutant of Saved: only the recommended trial is saved.
SavedRecommended(o, states) ==
  {states[i] : i \in {i \in AcceptedTrials(o.trials) : i = LastAccepted(o.trials)}}

\* The states that the trials of a search add.
Saved(o, states) == {states[i] : i \in DOMAIN o.trials} \ {None}

\* propose: the record has the trials' states as its results, and the starting
\* state when it is the recommendation.  A search that recommends nothing (or
\* never ran: no start, no trial) leaves the earlier recommendation alone.
Propose(d, s, goal) ==
  IF d.active = None \/ d.active # goal \/ s \notin d.states THEN {}
  ELSE {LET states == TrialStates(s, o.trials)
            saved == Saved(o, states)
            node == RecommendedBy(s, o, states)
            results == saved \cup
              (IF AcceptedTrials(o.trials) = {} /\ o.start THEN {s} ELSE {})
            accepted == {states[i] : i \in AcceptedTrials(o.trials)}
            x == [d EXCEPT !.states = @ \cup saved]
            y == AddExperiment(x, Planning(s, goal, results, accepted))
        IN  IF node = None THEN y
            ELSE [AddDecision(y, Decision(Len(y.experiments), node, "recommend"))
                    EXCEPT !.recommended = node] : o \in Outcomes}

\* The binding an Apply request must still match.
Binds(d, proposal, s, goal, base) ==
  /\ proposal \in Positions(d)
  /\ d.experiments[proposal].kind \in {"planning", "counterfactual"}
  /\ d.experiments[proposal].goal = goal
  /\ d.experiments[proposal].start = base
  /\ d.active = goal
  /\ d.recommended = s
  /\ s \in d.experiments[proposal].results

\* Mutant of Apply: no decision is recorded.
ApplySilently(d, proposal, s, goal, base) ==
  IF Binds(d, proposal, s, goal, base)
  THEN {[d EXCEPT !.applied = s, !.inspected = s]}
  ELSE {}

Apply(d, proposal, s, goal, base) ==
  IF Binds(d, proposal, s, goal, base)
  THEN {[AddDecision(d, Decision(proposal, s, "apply")) EXCEPT !.applied = s, !.inspected = s]}
  ELSE {}

------------------------------------------------------------------------------
(* The document under any sequence of operations. *)

\* StudyBundle::empty
Empty ==
  [revision |-> 0, states |-> {}, goals |-> {}, experiments |-> <<>>, decisions |-> {},
   active |-> None, inspected |-> None, recommended |-> None, applied |-> None]

\* create_study: a saved or unsolved starting point, with or without a goal; a
\* goal without a saved result costs the first solve and its record.
CreateStudy ==
  \E input \in Inputs, solved \in BOOLEAN, request \in Requests \cup {None} :
    LET root == StateNode(None, input, solved \/ request # None, <<"start">>)
        goal == Goal(None, root, request)
        opened == [AddState(Empty, root) EXCEPT !.applied = root, !.inspected = root]
    IN  IF request = None THEN doc = opened
        ELSE \E planned \in ReviseGoal(opened, goal) :
               doc = IF solved THEN planned
                     ELSE AddExperiment(planned,
                            Experiment("counterfactual", root, goal, {}, "completed"))

\* import_journal: evidence of the old format, without any state.
ImportJournal ==
  doc = AddExperiment(Empty,
          Experiment("historical_import", None, None, {}, "historical_evidence_only"))

Init == CreateStudy \/ ImportJournal

Execute(results) == doc' \in Transaction(doc, results)

\* A request may name a state or a goal the Study does not have.
Unknown == StateNode(None, BaseInput, FALSE, <<"unknown">>)
Named == doc.states \cup {Unknown}
GoalOrNone == doc.goals \cup {None, Goal(None, Unknown, None)}

Inspecting == \E s \in Named : Execute(InspectState(doc, s))
Branching == \E s \in Named : Execute(Branch(doc, s))
RevisingGoal ==
  \E g \in GoalOrNone, s \in Named, r \in Requests : Execute(ReviseGoal(doc, Goal(g, s, r)))
Comparing ==
  \E l, r \in Named, g \in GoalOrNone : Execute(Compare(doc, l, r, g))
Recording ==
  \E s \in Named, g \in GoalOrNone, b \in BOOLEAN, a \in {doc.recommended, None, Unknown} :
    Execute(RecordEvidence(doc, s, g, b, a))
EditingDemand ==
  \E s \in Named, g \in GoalOrNone, b \in BOOLEAN, i \in Inputs :
    Execute(EditDemand(doc, s, g, b, i))
RestoringBase == \E s \in Named, g \in GoalOrNone : Execute(RestoreBase(doc, s, g))
Proposing == \E s \in Named, g \in GoalOrNone \ {None} : Execute(Propose(doc, s, g))
Applying ==
  \E p \in Positions(doc), s, b \in doc.states, g \in GoalOrNone :
    Execute(Apply(doc, p, s, g, b))

Next ==
  \/ Inspecting \/ Branching \/ RevisingGoal \/ Comparing \/ Recording
  \/ EditingDemand \/ RestoringBase \/ Proposing \/ Applying

Spec == Init /\ [][Next]_doc

------------------------------------------------------------------------------
(* Properties. *)

\* "A revised goal ... expires that approval": the recommendation is a result
\* of an experiment under the goal that is active now, from whatever operation
\* it came and whatever followed it.
RecommendationMatchesGoal ==
  doc.recommended # None =>
    \E i \in Positions(doc) :
      /\ doc.experiments[i].kind \in {"planning", "counterfactual"}
      /\ doc.experiments[i].goal = doc.active
      /\ doc.recommended \in doc.experiments[i].results

\* "Viewing an alternative does not apply it": the applied state is the
\* starting point or one that a recorded decision applied, and that decision
\* names the experiment that produced the state.
AppliedIsDecided ==
  doc.applied # None /\ doc.applied.label # <<"start">> =>
    \E r \in doc.decisions :
      /\ r.choice = "apply"
      /\ r.state = doc.applied
      /\ doc.applied \in doc.experiments[r.experiment].results

\* Goals form one line of revisions, each naming the goal it replaced.
GoalsFormALine ==
  \A g, h \in doc.goals : g.parent = h.parent => g = h

\* validate runs last and its Err throws the solves away: below the last
\* revision, what a branch, a restored base, an edit, a comparison, an Apply or a
\* search (with any number of saved trials, some of them parents of others) has
\* produced names only records that exist.  The limit on records is then the
\* only reason to refuse it.  RecordEvidence, which leaves its checks to
\* validate, is not among them.
WorkIsKept ==
  doc.revision < MaxRevision =>
    \A s \in doc.states :
      /\ \A r \in Branch(doc, s) : ReferencesExist(r)
      /\ \A g \in GoalOrNone :
           /\ \A r \in RestoreBase(doc, s, g) \cup Propose(doc, s, g) : ReferencesExist(r)
           /\ \A i \in Inputs, solve \in BOOLEAN :
                \A r \in EditDemand(doc, s, g, solve, i) : ReferencesExist(r)
           /\ \A t \in doc.states :
                /\ \A r \in Compare(doc, s, t, g) : ReferencesExist(r)
                /\ \A p \in Positions(doc) : \A r \in Apply(doc, p, s, g, t) : ReferencesExist(r)

\* "Changing the goal creates a new revision and retains earlier results":
\* an operation only adds to the history.
HistoryGrows ==
  [][/\ doc.states \subseteq doc'.states
     /\ doc.goals \subseteq doc'.goals
     /\ doc.decisions \subseteq doc'.decisions
     /\ Len(doc.experiments) <= Len(doc'.experiments)
     /\ SubSeq(doc'.experiments, 1, Len(doc.experiments)) = doc.experiments]_doc
==============================================================================
