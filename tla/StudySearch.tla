----------------------------- MODULE StudySearch -----------------------------
(***************************************************************************)
(* One planning proposal: propose_async of crates/tellegen/src/study_ops.rs *)
(* with the beam search explore_async of crates/tellegen/src/exploration.rs *)
(* it runs.                                                                *)
(*                                                                         *)
(* A vector of decision changes is a point, an objective value a natural   *)
(* number, and the points proposed by the gradient are any feasible ones.  *)
(* Every exact solve is a step of its own, so that a cancellation may      *)
(* arrive while it runs.                                                   *)
(***************************************************************************)
EXTENDS Naturals, Sequences, FiniteSets

CONSTANTS
  Points,      \* feasible decision changes
  Start,       \* the changes of the starting state
  Values,      \* objective values
  Options,     \* the SearchOptions a request may carry
  None         \* Option::None

ASSUME SearchAssumption ==
  /\ Values \subseteq Nat
  /\ None \notin Values \cup Points \cup Nat
  /\ \A o \in Options :
       /\ o.max_solves \in Nat
       /\ o.beam_width \in Nat \ {0}
       /\ o.max_iterations \in Nat
       /\ o.min_improvement \in Nat

VARIABLES
  options,      \* the request's SearchOptions
  cancelled,    \* the user asked to stop
  phase,        \* the next step of propose_async
  solves,       \* solve_count: exact solves charged so far
  value,        \* objective value of the current point
  best,         \* SearchResult.best: its objective value, or None
  trials,       \* SearchResult.trials
  visited,      \* points that were tried
  iteration,    \* iterations begun
  parent,       \* parent_trial: index of the last accepted trial, or None
  candidates,   \* the candidates of this iteration not tried yet
  beam,         \* how many of them this iteration may still try
  winner,       \* index of the best trial of this iteration, or None
  termination,  \* why the search ended
  recommended   \* index of the recommended trial, 0: the starting state, or None

vars == <<options, cancelled, phase, solves, value, best, trials, visited, iteration,
          parent, candidates, beam, winner, termination, recommended>>

\* The starting state needs a second solve when it differs from the goal's anchor.
Init ==
  /\ options \in Options
  /\ cancelled = FALSE
  /\ phase = "load_anchor"
  /\ solves = 0
  /\ value = None
  /\ best = None
  /\ trials = <<>>
  /\ visited = {Start}
  /\ iteration = 0
  /\ parent = None
  /\ candidates = {}
  /\ beam = 0
  /\ winner = None
  /\ termination = "iteration_limit"
  /\ recommended = None

search == <<value, best, trials, visited, iteration, parent, candidates, beam, winner>>

\* The user's request to stop, at any moment.
Cancel ==
  /\ phase # "recorded"
  /\ ~cancelled
  /\ cancelled' = TRUE
  /\ UNCHANGED <<options, phase, solves, search, termination, recommended>>

\* The run ends and propose_async goes on to write its record.
End(reason) ==
  /\ termination' = reason
  /\ phase' = "record"
  /\ UNCHANGED <<options, cancelled, solves, recommended>>

\* An exact solve begins: it is charged before its outcome is known.
BeginSolve(next) ==
  /\ solves' = solves + 1
  /\ phase' = next
  /\ UNCHANGED <<options, cancelled, termination, recommended>>

------------------------------------------------------------------------------
(* propose_async before the search. *)

\* Checkpoint and budget before the solve of the goal's anchor.
LoadAnchor ==
  /\ phase = "load_anchor"
  /\ \/ cancelled /\ End("cancelled")
     \/ ~cancelled /\ options.max_solves = 0 /\ End("solve_budget")
     \/ ~cancelled /\ options.max_solves # 0 /\ BeginSolve("anchor")
  /\ UNCHANGED search

\* The solve fails, or the starting state is the anchor (the search begins), or
\* its changes are replayed first.
SolveAnchor ==
  /\ phase = "anchor"
  /\ \/ End("error")
     \/ /\ phase' \in {"replay", "prepare"}
        /\ UNCHANGED <<options, cancelled, solves, termination, recommended>>
  /\ UNCHANGED search

\* Mutant of Affordable: a request for n solves pays for n + 1.
AffordableInclusive == solves <= options.max_solves

\* The budget check before an exact solve.
Affordable == solves < options.max_solves

\* Mutant of ReplayStart: no checkpoint between the two solves.
ReplayWithoutCheckpoint ==
  /\ phase = "replay"
  /\ \/ ~Affordable /\ End("solve_budget")
     \/ Affordable /\ BeginSolve("replaying")
  /\ UNCHANGED search

\* Checkpoint and budget before the starting state's own solve.
ReplayStart ==
  /\ phase = "replay"
  /\ \/ cancelled /\ End("cancelled")
     \/ ~cancelled /\ ~Affordable /\ End("solve_budget")
     \/ ~cancelled /\ Affordable /\ BeginSolve("replaying")
  /\ UNCHANGED search

SolveStart ==
  /\ phase = "replaying"
  /\ \/ End("error")
     \/ /\ phase' = "prepare"
        /\ UNCHANGED <<options, cancelled, solves, termination, recommended>>
  /\ UNCHANGED search

\* The starting state is checked and evaluated; it is the first best candidate
\* when it satisfies the decision space.
Prepare ==
  /\ phase = "prepare"
  /\ \/ End("error") /\ UNCHANGED search
     \/ /\ value' \in Values
        /\ best' \in {None, value'}
        /\ phase' = "iterate"
        /\ UNCHANGED <<options, cancelled, solves, trials, visited, iteration, parent,
                       candidates, beam, winner, termination, recommended>>

------------------------------------------------------------------------------
(* explore_async. *)

\* The loop over iterations: its exits, in order, and the choice of candidates.
Iterate ==
  /\ phase = "iterate"
  /\ \/ /\ iteration = options.max_iterations
        /\ End(termination)
        /\ UNCHANGED search
     \/ /\ iteration < options.max_iterations
        /\ cancelled
        /\ End("cancelled")
        /\ UNCHANGED search
     \/ /\ iteration < options.max_iterations
        /\ ~cancelled
        /\ ~Affordable
        /\ End("solve_budget")
        /\ UNCHANGED search
     \/ /\ iteration < options.max_iterations
        /\ ~cancelled
        /\ Affordable
        /\ \/ /\ End("derivative_unavailable") \/ End("no_feasible_moves")
              /\ UNCHANGED search
           \/ /\ candidates' \in SUBSET (Points \ visited) \ {{}}
              /\ beam' = options.beam_width
              /\ winner' = None
              /\ phase' = "beam"
              /\ UNCHANGED <<options, cancelled, solves, value, best, trials, visited,
                             iteration, parent, termination, recommended>>

\* The loop over candidates leaves with a reason for the whole search.
LeaveBeam(reason) ==
  /\ termination' = reason
  /\ phase' = "settle"
  /\ UNCHANGED <<options, cancelled, solves, search, recommended>>

\* Checkpoint and budget before each candidate's solve.
NextCandidate ==
  /\ phase = "beam"
  /\ \/ (candidates = {} \/ beam = 0) /\ LeaveBeam(termination)
     \/ candidates # {} /\ beam > 0 /\ cancelled /\ LeaveBeam("cancelled")
     \/ candidates # {} /\ beam > 0 /\ ~cancelled /\ ~Affordable
        /\ LeaveBeam("solve_budget")
     \/ /\ candidates # {}
        /\ beam > 0
        /\ ~cancelled
        /\ Affordable
        /\ \E c \in candidates :
             /\ candidates' = candidates \ {c}
             /\ visited' = visited \cup {c}
             /\ trials' = Append(trials, [point |-> c, iteration |-> iteration,
                                          parent |-> parent, exact |-> None,
                                          accepted |-> FALSE])
        /\ beam' = beam - 1
        /\ BeginSolve("solving")
        /\ UNCHANGED <<value, best, iteration, parent, winner>>

\* Mutant of Wins: a trial is compared with the other trials only.
WinsBeam(exact) ==
  winner = None \/ exact + options.min_improvement < trials[winner].exact

\* Whether an exact value makes its trial the winner of the iteration so far.
Wins(exact) ==
  /\ best = None \/ exact + options.min_improvement < value
  /\ winner = None \/ exact + options.min_improvement < trials[winner].exact

\* `result.trials.len()` before the trial is pushed.
TrialIndex == Len(trials)

\* Mutant of SolveCandidate: a failed solve is refunded and tried again.
SolveCandidateRefunded ==
  /\ phase = "solving"
  /\ phase' = "beam"
  /\ \/ /\ solves' = solves - 1
        /\ beam' = beam + 1
        /\ candidates' = candidates \cup {trials[Len(trials)].point}
        /\ trials' = SubSeq(trials, 1, Len(trials) - 1)
        /\ UNCHANGED winner
     \/ \E exact \in Values :
          /\ trials' = [trials EXCEPT ![Len(trials)].exact = exact]
          /\ winner' = IF Wins(exact) THEN TrialIndex ELSE winner
          /\ UNCHANGED <<solves, beam, candidates>>
  /\ UNCHANGED <<options, cancelled, value, best, visited, iteration, parent,
                 termination, recommended>>

\* The candidate's solve fails, or gives its exact value.
SolveCandidate ==
  /\ phase = "solving"
  /\ phase' = "beam"
  /\ \/ UNCHANGED <<trials, winner>>
     \/ \E exact \in Values :
          /\ trials' = [trials EXCEPT ![Len(trials)].exact = exact]
          /\ winner' = IF Wins(exact) THEN TrialIndex ELSE winner
  /\ UNCHANGED <<options, cancelled, solves, value, best, visited, iteration, parent,
                 candidates, beam, termination, recommended>>

\* The winner is accepted, whatever ended the loop over candidates.
Accept == winner # None

\* Mutant of ReasonWithoutWinner: the reason names the budget.
ReasonBudget == "solve_budget"

\* Without a winner, and without another reason, the search has converged.
ReasonWithoutWinner ==
  IF termination = "iteration_limit" THEN "no_verified_improvement" ELSE termination

Settle ==
  /\ phase = "settle"
  /\ \/ /\ Accept
        /\ trials' = [trials EXCEPT ![winner].accepted = TRUE]
        /\ best' = trials[winner].exact
        /\ value' = trials[winner].exact
        /\ parent' = winner
        /\ termination' = termination
     \/ /\ ~Accept
        /\ termination' = ReasonWithoutWinner
        /\ UNCHANGED <<trials, best, value, parent>>
  /\ phase' = IF termination' = "iteration_limit" THEN "iterate" ELSE "record"
  /\ iteration' = iteration + 1
  /\ UNCHANGED <<options, cancelled, solves, visited, candidates, beam, winner,
                 recommended>>

------------------------------------------------------------------------------
(* propose_async after the search. *)

Accepted == {i \in 1..Len(trials) : trials[i].accepted}

\* Mutant of LastAccepted: the first accepted trial is kept.
FirstAccepted == CHOOSE i \in Accepted : \A j \in Accepted : i <= j

\* The trial that overwrites `recommendation` last.
LastAccepted == CHOOSE i \in Accepted : \A j \in Accepted : j <= i

\* The recommended state: the last accepted trial's, or the starting state when
\* it was feasible and nothing better was found.
Record ==
  /\ phase = "record"
  /\ recommended' =
       IF Accepted # {} THEN LastAccepted
       ELSE IF best # None THEN 0 ELSE None
  /\ phase' = "recorded"
  /\ UNCHANGED <<options, cancelled, solves, search, termination>>

Advance ==
  \/ LoadAnchor \/ SolveAnchor \/ ReplayStart \/ SolveStart \/ Prepare
  \/ Iterate \/ NextCandidate \/ SolveCandidate \/ Settle \/ Record

Next == Cancel \/ Advance \/ (phase = "recorded" /\ UNCHANGED vars)

Spec == Init /\ [][Next]_vars

\* The host polls the future until it is ready.
FairSpec == Spec /\ WF_vars(Advance)

------------------------------------------------------------------------------
(* Properties. *)

\* "Every attempted solve counts against Solve budget, including failed trials
\* and any required starting-point solve": the record's solve_count never
\* exceeds max_solves, although three places of two functions charge it.
BudgetRespected == solves <= options.max_solves

Exact(i) == trials[i].exact # None

\* "Best feasible candidate verified by exact solves": the recommended state is a
\* solved, accepted trial, or the feasible starting state when none was accepted,
\* and its own exact value is matched, up to min_improvement, by every trial that
\* was solved, however the search ended (in particular when it was cancelled or
\* ran out of budget within an iteration).
RecommendationIsBest ==
  phase = "recorded" =>
    \A i \in 1..Len(trials) : Exact(i) =>
      \/ /\ recommended \in Accepted
         /\ Exact(recommended)
         /\ trials[recommended].exact <= trials[i].exact + options.min_improvement
      \/ /\ recommended = 0 /\ Accepted = {} /\ best # None
         /\ value <= trials[i].exact + options.min_improvement

\* Every accepted trial improves on the trial its saved state descends from.
LineageImproves ==
  \A i \in Accepted :
    /\ Exact(i)
    /\ trials[i].parent # None =>
         /\ trials[i].parent \in Accepted
         /\ trials[i].exact + options.min_improvement < trials[trials[i].parent].exact

\* The reason in the record is the reason the search stopped.
ReasonIsTrue ==
  phase = "recorded" =>
    /\ termination = "solve_budget" => solves = options.max_solves
    /\ termination = "cancelled" => cancelled
    /\ termination = "no_verified_improvement" =>
         \A i \in 1..Len(trials) :
           trials[i].iteration + 1 = iteration /\ Exact(i) =>
             best # None /\ value <= trials[i].exact + options.min_improvement

\* No solve begins after the user's request to stop.
CancelStopsSolves == [][cancelled => solves' = solves]_vars

\* The search ends and leaves its record.
Terminates == <>(phase = "recorded")
==============================================================================
