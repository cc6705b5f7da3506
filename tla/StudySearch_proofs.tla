-------------------------- MODULE StudySearch_proofs --------------------------
(***************************************************************************)
(* Proofs about StudySearch, for any points, values and search options.    *)
(***************************************************************************)
EXTENDS StudySearch, SequenceTheorems, TLAPS

------------------------------------------------------------------------------
(* The inductive invariant. *)

\* A TrialRecord; the index of a trial is its position.
Trials ==
  [point : Points, iteration : Nat, parent : Nat \cup {None},
   exact : Values \cup {None}, accepted : BOOLEAN]

Preparing == {"load_anchor", "anchor", "replay", "replaying", "prepare"}
InIteration == {"beam", "solving", "settle"}
Ended == {"record", "recorded"}

\* The types of the search's state.
TypeOK ==
  /\ options \in Options
  /\ cancelled \in BOOLEAN
  /\ phase \in Preparing \cup {"iterate"} \cup InIteration \cup Ended
  /\ solves \in Nat
  /\ value \in Values \cup {None}
  /\ best \in Values \cup {None}
  /\ trials \in Seq(Trials)
  /\ iteration \in Nat
  /\ parent \in Nat \cup {None}
  /\ candidates \subseteq Points
  /\ beam \in Nat
  /\ winner \in Nat \cup {None}

\* Nothing is charged before the first solve, and nothing is tried before the
\* search itself.
NothingTried ==
  /\ phase = "load_anchor" => solves = 0
  /\ phase \in Preparing => trials = <<>> /\ best = None /\ parent = None

\* What the current point is: its value is the best one when there is a best
\* one, and the last accepted trial made it.
PointIsBest ==
  /\ phase \in {"iterate"} \cup InIteration => value # None
  /\ best # None => best = value
  /\ parent = None => Accepted = {}
  /\ parent # None =>
       /\ parent \in Accepted
       /\ best = trials[parent].exact
       /\ best # None
       /\ \A i \in Accepted : i <= parent

\* The trial whose solve is running is the last one.
LastIsOpen ==
  phase = "solving" =>
    /\ trials # <<>>
    /\ trials[Len(trials)].exact = None
    /\ ~trials[Len(trials)].accepted
    /\ trials[Len(trials)].parent = parent

\* The winner of an iteration is a solved trial of this iteration, later than
\* all accepted ones, and better than the point it started from.
WinnerImproves ==
  phase \in InIteration /\ winner # None =>
    /\ winner \in 1..Len(trials)
    /\ Exact(winner)
    /\ ~trials[winner].accepted
    /\ trials[winner].parent = parent
    /\ \A i \in Accepted : i < winner
    /\ best # None => trials[winner].exact + options.min_improvement < value

\* Every solved trial is matched, up to the threshold, by the best point or by
\* the winner of the iteration that is not settled yet.
Matched(i) ==
  \/ best # None /\ best <= trials[i].exact + options.min_improvement
  \/ /\ phase \in InIteration
     /\ winner # None
     /\ trials[winner].exact <= trials[i].exact + options.min_improvement

EveryTrialIsMatched == \A i \in 1..Len(trials) : Exact(i) => Matched(i)

\* A reason is set once, by what it names, and ends the search.
ReasonHolds ==
  /\ termination # "iteration_limit" => phase \in {"settle"} \cup Ended
  /\ termination = "solve_budget" => solves = options.max_solves
  /\ termination = "cancelled" => cancelled

\* The recommended trial is the one the search stands on.
RecordIsComplete ==
  phase = "recorded" =>
    recommended = IF Accepted # {} THEN parent ELSE IF best # None THEN 0 ELSE None

Inv ==
  /\ TypeOK
  /\ BudgetRespected
  /\ NothingTried
  /\ PointIsBest
  /\ LastIsOpen
  /\ WinnerImproves
  /\ EveryTrialIsMatched
  /\ LineageImproves
  /\ ReasonHolds
  /\ RecordIsComplete

------------------------------------------------------------------------------
(* Init and the steps. *)

\* The invariant holds when a proposal is requested.
LEMMA InitInv == Init => Inv
<1> SUFFICES ASSUME Init PROVE Inv
  OBVIOUS
<1>1. TypeOK
  <2>1. trials \in Seq(Trials)
    BY EmptySeq DEF Init
  <2> QED
    BY <2>1 DEF Init, TypeOK, Preparing
<1>2. BudgetRespected /\ NothingTried /\ LastIsOpen /\ ReasonHolds /\ RecordIsComplete
  BY SearchAssumption DEF Init, BudgetRespected, NothingTried, LastIsOpen, ReasonHolds, RecordIsComplete
<1>3. PointIsBest /\ WinnerImproves /\ EveryTrialIsMatched /\ LineageImproves
  BY DEF Init, PointIsBest, WinnerImproves, EveryTrialIsMatched, LineageImproves, Accepted, InIteration
<1> QED
  BY <1>1, <1>2, <1>3 DEF Inv

\* A step that leaves the search's own variables alone keeps what only they
\* decide, as long as it stays out of the iteration.
LEMMA SearchUnchanged ==
  ASSUME Inv, UNCHANGED <<options, search>>, phase \notin InIteration,
         phase' \notin InIteration
  PROVE  /\ LastIsOpen' /\ WinnerImproves' /\ EveryTrialIsMatched' /\ LineageImproves'
         /\ (value # None \/ phase' # "iterate") => PointIsBest'
<1>1. LastIsOpen' /\ WinnerImproves'
  BY DEF LastIsOpen, WinnerImproves, InIteration
<1>2. EveryTrialIsMatched'
  BY DEF Inv, EveryTrialIsMatched, Matched, Exact, search
<1>3. LineageImproves' /\ Accepted' = Accepted
  BY DEF Inv, LineageImproves, Accepted, Exact, search
<1>4. (value # None \/ phase' # "iterate") => PointIsBest'
  BY <1>3 DEF Inv, PointIsBest, search
<1> QED
  BY <1>1, <1>2, <1>3, <1>4

\* The run ends outside an iteration, for a reason that holds.
LEMMA EndInv ==
  ASSUME Inv, NEW reason, End(reason), UNCHANGED search,
         phase \in Preparing \cup {"iterate"},
         reason = "solve_budget" => solves = options.max_solves,
         reason = "cancelled" => cancelled
  PROVE  Inv'
<1> USE DEF End, search
<1>1. TypeOK' /\ BudgetRespected'
  BY DEF Inv, TypeOK, BudgetRespected, Ended
<1>2. NothingTried' /\ ReasonHolds' /\ RecordIsComplete'
  BY DEF NothingTried, ReasonHolds, RecordIsComplete, Ended, Preparing
<1>3. LastIsOpen' /\ WinnerImproves' /\ EveryTrialIsMatched' /\ LineageImproves' /\ PointIsBest'
  BY SearchUnchanged DEF Preparing, InIteration
<1> QED
  BY <1>1, <1>2, <1>3 DEF Inv

\* A step of propose_async before the search that goes on: it may charge a
\* solve when the budget has one.
LEMMA PrepareInv ==
  ASSUME Inv, UNCHANGED <<options, cancelled, search, termination, recommended>>,
         phase \in Preparing, phase' \in Preparing \ {"load_anchor"},
         \/ solves' = solves
         \/ solves < options.max_solves /\ solves' = solves + 1
  PROVE  Inv'
<1> USE DEF search
<1>1. TypeOK' /\ BudgetRespected'
  BY SearchAssumption DEF Inv, TypeOK, BudgetRespected
<1>2. NothingTried' /\ RecordIsComplete'
  BY DEF Inv, NothingTried, RecordIsComplete, Preparing
<1>3. termination = "iteration_limit"
  BY DEF Inv, ReasonHolds, Preparing, Ended
<1>4. ReasonHolds'
  BY <1>3 DEF ReasonHolds
<1>5. LastIsOpen' /\ WinnerImproves' /\ EveryTrialIsMatched' /\ LineageImproves' /\ PointIsBest'
  BY SearchUnchanged DEF Preparing, InIteration
<1> QED
  BY <1>1, <1>2, <1>4, <1>5 DEF Inv

\* The user's request changes nothing but the flag.
LEMMA CancelInv ==
  ASSUME Inv, Cancel
  PROVE  Inv'
<1> USE DEF Cancel, search
<1>1. TypeOK' /\ BudgetRespected' /\ NothingTried'
  BY DEF Inv, TypeOK, BudgetRespected, NothingTried
<1>2. PointIsBest' /\ LastIsOpen' /\ WinnerImproves' /\ LineageImproves'
  BY DEF Inv, PointIsBest, LastIsOpen, WinnerImproves, LineageImproves, Accepted, Exact
<1>3. EveryTrialIsMatched'
  BY DEF Inv, EveryTrialIsMatched, Matched, Exact
<1>4. ReasonHolds' /\ RecordIsComplete'
  BY DEF Inv, ReasonHolds, RecordIsComplete
<1> QED
  BY <1>1, <1>2, <1>3, <1>4 DEF Inv

\* The budget of a request that has no solve left is used up.
LEMMA BudgetUsedUp ==
  ASSUME Inv, ~Affordable
  PROVE  solves = options.max_solves
BY SearchAssumption DEF Inv, TypeOK, BudgetRespected, Affordable

\* Loading the anchor's document keeps the invariant, found or not.
LEMMA LoadAnchorInv ==
  ASSUME Inv, LoadAnchor
  PROVE  Inv'
<1>1. phase = "load_anchor" /\ solves = 0 /\ UNCHANGED search /\ options.max_solves \in Nat
  BY SearchAssumption DEF Inv, TypeOK, NothingTried, LoadAnchor
<1>2. CASE cancelled /\ End("cancelled")
  BY <1>1, <1>2, EndInv DEF Preparing
<1>3. CASE options.max_solves = 0 /\ End("solve_budget")
  BY <1>1, <1>3, EndInv DEF Preparing
<1>4. CASE options.max_solves # 0 /\ BeginSolve("anchor")
  BY <1>1, <1>4, PrepareInv DEF BeginSolve, Preparing
<1> QED
  BY <1>2, <1>3, <1>4 DEF LoadAnchor

\* Solving the anchor keeps the invariant, whatever the solve returns.
LEMMA SolveAnchorInv ==
  ASSUME Inv, SolveAnchor
  PROVE  Inv'
<1>1. phase = "anchor" /\ UNCHANGED search
  BY DEF SolveAnchor
<1>2. CASE End("error")
  BY <1>1, <1>2, EndInv DEF Preparing
<1>3. CASE ~End("error")
  BY <1>1, <1>3, PrepareInv DEF SolveAnchor, Preparing
<1> QED
  BY <1>2, <1>3

\* Replaying the start point keeps the invariant.
LEMMA ReplayStartInv ==
  ASSUME Inv, ReplayStart
  PROVE  Inv'
<1>1. phase = "replay" /\ UNCHANGED search
  BY DEF ReplayStart
<1>2. CASE cancelled /\ End("cancelled")
  BY <1>1, <1>2, EndInv DEF Preparing
<1>3. CASE ~Affordable /\ End("solve_budget")
  BY <1>1, <1>3, EndInv, BudgetUsedUp DEF Preparing
<1>4. CASE Affordable /\ BeginSolve("replaying")
  BY <1>1, <1>4, PrepareInv DEF BeginSolve, Affordable, Preparing
<1> QED
  BY <1>2, <1>3, <1>4 DEF ReplayStart

\* Solving the start point keeps the invariant.
LEMMA SolveStartInv ==
  ASSUME Inv, SolveStart
  PROVE  Inv'
<1>1. phase = "replaying" /\ UNCHANGED search
  BY DEF SolveStart
<1>2. CASE End("error")
  BY <1>1, <1>2, EndInv DEF Preparing
<1>3. CASE ~End("error")
  BY <1>1, <1>3, PrepareInv DEF SolveStart, Preparing
<1> QED
  BY <1>2, <1>3

\* The search begins with the value of its starting state.
LEMMA PreparedInv ==
  ASSUME Inv, Prepare
  PROVE  Inv'
<1>1. phase = "prepare" /\ trials = <<>> /\ parent = None
  BY DEF Prepare, Inv, NothingTried, Preparing
<1>2. CASE End("error") /\ UNCHANGED search
  BY <1>1, <1>2, EndInv DEF Preparing
<1>3. CASE ~(End("error") /\ UNCHANGED search)
  <2>1. /\ value' \in Values /\ best' \in {None, value'} /\ phase' = "iterate"
        /\ UNCHANGED <<options, cancelled, solves, trials, visited, iteration, parent,
                       candidates, beam, winner, termination, recommended>>
    BY <1>3 DEF Prepare
  <2>2. TypeOK' /\ BudgetRespected'
    BY <2>1 DEF Inv, TypeOK, BudgetRespected
  <2>3. termination = "iteration_limit"
    BY <1>1 DEF Inv, ReasonHolds, Ended
  <2>4. NothingTried' /\ LastIsOpen' /\ WinnerImproves' /\ ReasonHolds' /\ RecordIsComplete'
    BY <2>1, <2>3 DEF NothingTried, LastIsOpen, WinnerImproves, ReasonHolds, RecordIsComplete,
                      Preparing, InIteration
  <2>5. Accepted' = {} /\ EveryTrialIsMatched'
    BY <1>1, <2>1 DEF Accepted, EveryTrialIsMatched
  <2>6. PointIsBest' /\ LineageImproves'
    BY <1>1, <2>1, <2>5, SearchAssumption DEF PointIsBest, LineageImproves
  <2> QED
    BY <2>2, <2>4, <2>5, <2>6 DEF Inv
<1> QED
  BY <1>2, <1>3

------------------------------------------------------------------------------
(* explore_async. *)

\* The head of an iteration, with its limits and its moves, keeps the invariant.
LEMMA IterateInv ==
  ASSUME Inv, Iterate
  PROVE  Inv'
<1>1. phase = "iterate"
  BY DEF Iterate
<1>2. termination = "iteration_limit"
  BY <1>1 DEF Inv, ReasonHolds, Ended
<1>3. ASSUME NEW reason, End(reason), UNCHANGED search,
             reason = "solve_budget" => ~Affordable, reason = "cancelled" => cancelled
      PROVE  Inv'
  BY <1>1, <1>3, EndInv, BudgetUsedUp
<1>4. ASSUME /\ candidates' \in SUBSET (Points \ visited) \ {{}}
             /\ beam' = options.beam_width
             /\ winner' = None
             /\ phase' = "beam"
             /\ UNCHANGED <<options, cancelled, solves, value, best, trials, visited,
                            iteration, parent, termination, recommended>>
      PROVE  Inv'
  <2>1. TypeOK' /\ BudgetRespected'
    BY <1>4, SearchAssumption DEF Inv, TypeOK, BudgetRespected, InIteration
  <2>2. NothingTried' /\ LastIsOpen' /\ WinnerImproves' /\ ReasonHolds' /\ RecordIsComplete'
    BY <1>2, <1>4 DEF NothingTried, LastIsOpen, WinnerImproves, ReasonHolds, RecordIsComplete,
                      Preparing
  <2>3. Accepted' = Accepted /\ LineageImproves'
    BY <1>4 DEF Inv, LineageImproves, Accepted, Exact
  <2>4. PointIsBest'
    BY <1>1, <1>4, <2>3 DEF Inv, PointIsBest
  <2>5. EveryTrialIsMatched'
    BY <1>1, <1>4 DEF Inv, EveryTrialIsMatched, Matched, Exact, InIteration
  <2> QED
    BY <2>1, <2>2, <2>3, <2>4, <2>5 DEF Inv
<1> QED
  BY <1>2, <1>3, <1>4 DEF Iterate

\* The loop over candidates ends: what is matched stays matched.
LEMMA LeaveBeamInv ==
  ASSUME Inv, phase = "beam", NEW reason, LeaveBeam(reason),
         reason = "solve_budget" => ~Affordable, reason = "cancelled" => cancelled
  PROVE  Inv'
<1> USE DEF LeaveBeam, search
<1>1. TypeOK' /\ BudgetRespected' /\ NothingTried'
  BY DEF Inv, TypeOK, BudgetRespected, NothingTried, InIteration, Preparing
<1>2. Accepted' = Accepted /\ LineageImproves'
  BY DEF Inv, LineageImproves, Accepted, Exact
<1>3. PointIsBest' /\ LastIsOpen'
  BY <1>2 DEF Inv, PointIsBest, LastIsOpen, InIteration
<1>4. WinnerImproves'
  BY <1>2 DEF Inv, WinnerImproves, Exact, InIteration
<1>5. EveryTrialIsMatched'
  BY DEF Inv, EveryTrialIsMatched, Matched, Exact, InIteration
<1>6. ReasonHolds' /\ RecordIsComplete'
  BY BudgetUsedUp DEF ReasonHolds, RecordIsComplete
<1> QED
  BY <1>1, <1>2, <1>3, <1>4, <1>5, <1>6 DEF Inv

\* One more trial that is neither solved nor accepted: the others, the accepted
\* ones and what was matched are as before.
LEMMA TrialAppended ==
  ASSUME trials \in Seq(Trials), NEW x \in Trials, ~x.accepted,
         trials' = Append(trials, x)
  PROVE  /\ trials' \in Seq(Trials)
         /\ Len(trials') = Len(trials) + 1
         /\ \A i \in 1..Len(trials) : trials'[i] = trials[i]
         /\ trials'[Len(trials) + 1] = x
         /\ Accepted' = Accepted
<1>1. /\ trials' \in Seq(Trials)
      /\ Len(trials') = Len(trials) + 1
      /\ \A i \in 1..Len(trials) : trials'[i] = trials[i]
      /\ trials'[Len(trials) + 1] = x
  BY AppendProperties
<1>2. Len(trials) \in Nat
  BY LenProperties
<1> QED
  BY <1>1, <1>2 DEF Accepted

\* Taking the next candidate, or ending the iteration, keeps the invariant.
LEMMA NextCandidateInv ==
  ASSUME Inv, NextCandidate
  PROVE  Inv'
<1>1. phase = "beam"
  BY DEF NextCandidate
<1>2. termination = "iteration_limit"
  BY <1>1 DEF Inv, ReasonHolds, Ended
<1>3. CASE \/ LeaveBeam(termination)
           \/ cancelled /\ LeaveBeam("cancelled")
           \/ ~Affordable /\ LeaveBeam("solve_budget")
  BY <1>1, <1>2, <1>3, LeaveBeamInv
<1>4. ASSUME Affordable, beam > 0, NEW c \in candidates,
             candidates' = candidates \ {c},
             trials' = Append(trials, [point |-> c, iteration |-> iteration,
                                       parent |-> parent, exact |-> None,
                                       accepted |-> FALSE]),
             beam' = beam - 1,
             BeginSolve("solving"),
             UNCHANGED <<value, best, iteration, parent, winner>>
      PROVE  Inv'
  <2> DEFINE x == [point |-> c, iteration |-> iteration, parent |-> parent,
                   exact |-> None, accepted |-> FALSE]
  <2>1. x \in Trials /\ ~x.accepted /\ x.exact = None /\ x.parent = parent
    BY DEF Inv, TypeOK, Trials
  <2>2. trials \in Seq(Trials) /\ Len(trials) \in Nat /\ trials' = Append(trials, x)
    BY <1>4, LenProperties DEF Inv, TypeOK
  <2> HIDE DEF x
  <2>3. /\ trials' \in Seq(Trials)
        /\ Len(trials') = Len(trials) + 1
        /\ \A i \in 1..Len(trials) : trials'[i] = trials[i]
        /\ trials'[Len(trials) + 1] = x
        /\ Accepted' = Accepted
    BY <2>1, <2>2, TrialAppended
  <2>4. TypeOK'
    BY <1>4, <2>3 DEF Inv, TypeOK, BeginSolve, InIteration
  <2>5. BudgetRespected' /\ ReasonHolds' /\ NothingTried' /\ RecordIsComplete'
    BY <1>2, <1>4, SearchAssumption DEF Inv, TypeOK, BudgetRespected, ReasonHolds,
       NothingTried, RecordIsComplete, BeginSolve, Affordable, Preparing
  <2>6. PointIsBest'
    BY <1>1, <1>4, <2>2, <2>3 DEF Inv, PointIsBest, BeginSolve, Accepted, InIteration
  <2>7. LastIsOpen'
    BY <1>4, <2>1, <2>2, <2>3, EmptySeq DEF LastIsOpen
  <2>8. WinnerImproves'
    BY <1>1, <1>4, <2>2, <2>3 DEF Inv, WinnerImproves, BeginSolve, Exact, InIteration
  <2>9. EveryTrialIsMatched'
    <3> SUFFICES ASSUME NEW i \in 1..Len(trials'), Exact(i)'
                 PROVE  Matched(i)'
      BY DEF EveryTrialIsMatched
    <3>1. i \in 1..Len(trials) /\ Exact(i) /\ trials'[i] = trials[i]
      BY <2>1, <2>2, <2>3 DEF Exact
    <3>2. Matched(i)
      BY <3>1 DEF Inv, EveryTrialIsMatched
    <3>3. winner # None => trials'[winner] = trials[winner]
      BY <1>1, <2>3 DEF Inv, WinnerImproves, InIteration
    <3> QED
      BY <1>1, <1>4, <3>1, <3>2, <3>3 DEF Matched, BeginSolve, InIteration
  <2>10. LineageImproves'
    BY <1>4, <2>2, <2>3 DEF Inv, LineageImproves, Accepted, Exact, BeginSolve
  <2> QED
    BY <2>4, <2>5, <2>6, <2>7, <2>8, <2>9, <2>10 DEF Inv
<1> QED
  BY <1>3, <1>4 DEF NextCandidate

\* The exact value of a solved trial is a number.
LEMMA ExactIsNat ==
  ASSUME TypeOK, NEW i \in 1..Len(trials), Exact(i)
  PROVE  trials[i].exact \in Nat
<1>1. trials[i] \in Trials
  BY ElementOfSeq DEF TypeOK
<1> QED
  BY <1>1, SearchAssumption DEF Trials, Exact

\* The solve of the last trial fails or gives its value: the new winner matches
\* everything that the former one matched.
LEMMA SolveCandidateInv ==
  ASSUME Inv, SolveCandidate
  PROVE  Inv'
<1> DEFINE n == Len(trials)
<1>1. /\ phase = "solving" /\ phase' = "beam"
      /\ UNCHANGED <<options, cancelled, solves, value, best, visited, iteration, parent,
                     candidates, beam, termination, recommended>>
  BY DEF SolveCandidate
<1>2. /\ trials \in Seq(Trials) /\ n \in Nat \ {0} /\ DOMAIN trials = 1..n
      /\ trials[n] \in Trials /\ trials[n].exact = None /\ ~trials[n].accepted
      /\ trials[n].parent = parent
  BY <1>1, EmptySeq, LenProperties, ElementOfSeq DEF Inv, TypeOK, LastIsOpen
<1>3. options.min_improvement \in Nat /\ value \in Nat /\ None \notin Nat /\ Values \subseteq Nat
  BY <1>1, SearchAssumption DEF Inv, TypeOK, PointIsBest, InIteration
<1>4. TypeOK' /\ BudgetRespected' /\ NothingTried' /\ ReasonHolds' /\ RecordIsComplete' /\ LastIsOpen'
  <2>1. trials' \in Seq(Trials) /\ winner' \in Nat \cup {None}
    <3>1. CASE UNCHANGED <<trials, winner>>
      BY <3>1 DEF Inv, TypeOK
    <3>2. ASSUME NEW exact \in Values,
                 trials' = [trials EXCEPT ![n].exact = exact],
                 winner' = IF Wins(exact) THEN TrialIndex ELSE winner
          PROVE  trials' \in Seq(Trials) /\ winner' \in Nat \cup {None}
      <4>1. [trials[n] EXCEPT !.exact = exact] \in Trials
        BY <1>2 DEF Trials
      <4>2. trials' = [trials EXCEPT ![n] = [trials[n] EXCEPT !.exact = exact]]
        BY <3>2
      <4>3. trials' \in Seq(Trials)
        BY <1>2, <4>1, <4>2, ExceptSeq
      <4> QED
        BY <1>2, <3>2, <4>3 DEF Inv, TypeOK, TrialIndex
    <3> QED
      BY <3>1, <3>2 DEF SolveCandidate
  <2> QED
    BY <1>1, <2>1 DEF Inv, TypeOK, BudgetRespected, NothingTried, ReasonHolds, RecordIsComplete,
                      LastIsOpen, Preparing, InIteration, Ended
<1>5. CASE UNCHANGED <<trials, winner>>
  <2>1. Accepted' = Accepted /\ LineageImproves'
    BY <1>1, <1>5 DEF Inv, LineageImproves, Accepted, Exact
  <2>2. PointIsBest'
    BY <1>1, <1>5, <2>1 DEF Inv, PointIsBest, InIteration
  <2>3. WinnerImproves'
    BY <1>1, <1>5, <2>1 DEF Inv, WinnerImproves, Exact, InIteration
  <2>4. EveryTrialIsMatched'
    BY <1>1, <1>5 DEF Inv, EveryTrialIsMatched, Matched, Exact, InIteration
  <2> QED
    BY <1>4, <2>1, <2>2, <2>3, <2>4 DEF Inv
<1>6. ASSUME NEW exact \in Values,
             trials' = [trials EXCEPT ![n].exact = exact],
             winner' = IF Wins(exact) THEN TrialIndex ELSE winner
      PROVE  Inv'
  <2>1. /\ Len(trials') = n
        /\ \A i \in 1..n : i # n => trials'[i] = trials[i]
        /\ trials'[n].exact = exact /\ trials'[n].accepted = trials[n].accepted
        /\ trials'[n].parent = parent
    <3>1. [trials[n] EXCEPT !.exact = exact] \in Trials
      BY <1>2 DEF Trials
    <3>2. trials' = [trials EXCEPT ![n] = [trials[n] EXCEPT !.exact = exact]]
      BY <1>6
    <3>3. /\ Len(trials') = n
          /\ \A i \in 1..n : i # n => trials'[i] = trials[i]
          /\ trials'[n] = [trials[n] EXCEPT !.exact = exact]
      BY <1>2, <3>1, <3>2, ExceptSeq
    <3> QED
      BY <1>2, <3>3 DEF Trials
  <2>2. Accepted' = Accepted /\ n \notin Accepted /\ Accepted \subseteq 1..n
    BY <1>2, <2>1 DEF Accepted
  <2>3. PointIsBest'
    BY <1>1, <2>1, <2>2 DEF Inv, PointIsBest, InIteration
  <2>4. LineageImproves'
    BY <1>1, <2>1, <2>2 DEF Inv, LineageImproves, Exact
  <2>5. winner # None => winner \in 1..(n - 1) /\ trials[winner].exact \in Nat
    <3> SUFFICES ASSUME winner # None
                 PROVE  winner \in 1..(n - 1) /\ trials[winner].exact \in Nat
      OBVIOUS
    <3>1. winner \in 1..n /\ Exact(winner)
      BY <1>1 DEF Inv, WinnerImproves, InIteration
    <3>2. winner # n
      BY <1>2, <3>1 DEF Exact
    <3>3. trials[winner].exact \in Nat
      BY <3>1, ExactIsNat DEF Inv
    <3>4. n \in Nat /\ winner \in 1..n /\ winner # n
      BY <1>2, <3>1, <3>2
    <3> HIDE DEF n
    <3>5. winner \in 1..(n - 1)
      BY <3>4
    <3> QED
      BY <3>3, <3>5
  <2>6. WinnerImproves'
    <3>1. CASE Wins(exact)
      <4>1. winner' = n /\ trials'[n].exact # None
        BY <1>3, <1>6, <2>1, <3>1 DEF TrialIndex
      <4>2. best # None => exact + options.min_improvement < value
        BY <3>1 DEF Wins
      <4>3. \A i \in Accepted' : i < n
        BY <1>2, <2>2
      <4>4. n \in 1..Len(trials') /\ ~trials'[n].accepted /\ trials'[n].parent = parent'
        <5>1. n \in 1..n
          BY <1>2
        <5> QED
          BY <1>1, <1>2, <2>1, <5>1, Zenon
      <4>5. best' # None => trials'[n].exact + options'.min_improvement < value'
        BY <1>1, <2>1, <4>2
      <4> QED
        BY <4>1, <4>3, <4>4, <4>5 DEF WinnerImproves, Exact
    <3>2. CASE ~Wins(exact)
      <4>1. winner' = winner
        BY <1>6, <3>2
      <4> QED
        BY <1>1, <1>2, <2>1, <2>2, <2>5, <4>1 DEF Inv, WinnerImproves, Exact, InIteration
    <3> QED
      BY <3>1, <3>2
  <2>7. EveryTrialIsMatched'
    <3> SUFFICES ASSUME NEW i \in 1..n, Exact(i)'
                 PROVE  Matched(i)'
      BY <2>1 DEF EveryTrialIsMatched
    <3>0. best # None => best = value
      BY DEF Inv, PointIsBest
    <3>1. CASE i # n
      <4>1. Exact(i) /\ trials'[i] = trials[i] /\ trials[i].exact \in Nat
        <5>1. Exact(i) /\ trials'[i] = trials[i]
          BY <2>1, <3>1 DEF Exact
        <5> QED
          BY <5>1, ExactIsNat DEF Inv
      <4>2. Matched(i)
        BY <4>1 DEF Inv, EveryTrialIsMatched
      <4>3. CASE best # None /\ best <= trials[i].exact + options.min_improvement
        BY <1>1, <4>1, <4>3 DEF Matched
      <4>4. CASE winner # None /\ trials[winner].exact <= trials[i].exact + options.min_improvement
        <5>1. CASE Wins(exact)
          <6>1. winner' = n /\ exact + options.min_improvement < trials[winner].exact
            BY <1>6, <4>4, <5>1 DEF Wins, TrialIndex
          <6>2. exact <= trials[i].exact + options.min_improvement
            BY <1>3, <2>5, <4>1, <4>4, <6>1
          <6> QED
            BY <1>1, <1>2, <1>3, <2>1, <4>1, <6>1, <6>2 DEF Matched, InIteration
        <5>2. CASE ~Wins(exact)
          <6>1. winner' = winner /\ trials'[winner] = trials[winner]
            BY <1>2, <1>6, <2>1, <2>5, <4>4, <5>2
          <6> QED
            BY <1>1, <4>1, <4>4, <6>1 DEF Matched, InIteration
        <5> QED
          BY <5>1, <5>2
      <4> QED
        BY <4>2, <4>3, <4>4 DEF Matched
    <3>2. CASE i = n
      <4>1. CASE Wins(exact)
        BY <1>1, <1>2, <1>3, <1>6, <2>1, <3>2, <4>1 DEF Matched, InIteration, TrialIndex
      <4>2. CASE best # None /\ ~(exact + options.min_improvement < value)
        BY <1>1, <1>3, <2>1, <3>0, <3>2, <4>2 DEF Matched
      <4>3. CASE /\ ~Wins(exact)
                 /\ winner # None
                 /\ ~(exact + options.min_improvement < trials[winner].exact)
        BY <1>1, <1>3, <1>6, <2>1, <2>5, <3>2, <4>3 DEF Matched, InIteration
      <4> QED
        BY <4>1, <4>2, <4>3 DEF Wins
    <3> QED
      BY <3>1, <3>2
  <2> QED
    BY <1>4, <2>3, <2>4, <2>6, <2>7 DEF Inv
<1> QED
  BY <1>5, <1>6 DEF SolveCandidate

\* The winner, if there is one, becomes the point that matches every trial.
LEMMA SettleInv ==
  ASSUME Inv, Settle
  PROVE  Inv'
<1>1. /\ phase = "settle"
      /\ phase' = IF termination' = "iteration_limit" THEN "iterate" ELSE "record"
      /\ iteration' = iteration + 1
      /\ UNCHANGED <<options, cancelled, solves, visited, candidates, beam, winner, recommended>>
  BY DEF Settle
<1>2. /\ trials \in Seq(Trials) /\ Len(trials) \in Nat /\ DOMAIN trials = 1..Len(trials)
      /\ options.min_improvement \in Nat /\ value \in Nat /\ None \notin Nat /\ Values \subseteq Nat
  BY <1>1, LenProperties, SearchAssumption DEF Inv, TypeOK, PointIsBest, InIteration
<1>3. phase' \in {"iterate", "record"} /\ BudgetRespected'
  BY <1>1 DEF Inv, BudgetRespected
<1>4. NothingTried' /\ LastIsOpen' /\ WinnerImproves' /\ RecordIsComplete'
  BY <1>3 DEF NothingTried, LastIsOpen, WinnerImproves, RecordIsComplete, Preparing, InIteration
<1>5. CASE Accept
  <2> DEFINE w == winner
  <2>1. /\ trials' = [trials EXCEPT ![w].accepted = TRUE]
        /\ best' = trials[w].exact /\ value' = trials[w].exact
        /\ parent' = w /\ termination' = termination
    BY <1>5 DEF Settle
  <2>2. /\ w # None /\ w \in 1..Len(trials) /\ Exact(w) /\ ~trials[w].accepted
        /\ trials[w].parent = parent /\ (\A i \in Accepted : i < w)
        /\ best # None => trials[w].exact + options.min_improvement < value
    BY <1>1, <1>5 DEF Inv, WinnerImproves, InIteration, Accept
  <2>3. trials[w] \in Trials /\ trials[w].exact \in Nat /\ trials[w].exact \in Values
    <3>1. trials[w] \in Trials
      BY <1>2, <2>2, ElementOfSeq
    <3>2. trials[w].exact \in Nat
      BY <2>2, ExactIsNat DEF Inv
    <3> QED
      BY <2>2, <3>1, <3>2 DEF Trials, Exact
  <2>4. /\ trials' \in Seq(Trials)
        /\ Len(trials') = Len(trials)
        /\ \A i \in 1..Len(trials) : i # w => trials'[i] = trials[i]
        /\ trials'[w] = [trials[w] EXCEPT !.accepted = TRUE]
    <3>1. [trials[w] EXCEPT !.accepted = TRUE] \in Trials
      BY <2>3 DEF Trials
    <3>2. trials' = [trials EXCEPT ![w] = [trials[w] EXCEPT !.accepted = TRUE]]
      BY <2>1
    <3> QED
      BY <1>2, <2>2, <3>1, <3>2, ExceptSeq
  <2>5. /\ trials'[w].exact = trials[w].exact
        /\ trials'[w].parent = trials[w].parent
        /\ trials'[w].accepted
    BY <2>3, <2>4 DEF Trials
  <2>6. \A i \in 1..Len(trials) : trials'[i].exact = trials[i].exact /\ trials'[i].parent = trials[i].parent
    BY <2>4, <2>5
  <2>7. Accepted' = Accepted \cup {w}
    BY <2>2, <2>4, <2>5 DEF Accepted
  <2>8. TypeOK'
    BY <1>1, <1>3, <2>1, <2>2, <2>3, <2>4 DEF Inv, TypeOK, Ended
  <2>9. PointIsBest'
    <3>1. value' # None /\ best' = value' /\ parent' # None /\ parent' \in Accepted'
      BY <1>2, <2>1, <2>2, <2>3, <2>7
    <3>2. best' = trials'[parent'].exact
      BY <2>1, <2>5
    <3>3. \A i \in Accepted' : i <= parent'
      BY <1>2, <2>1, <2>2, <2>7 DEF Accepted
    <3> QED
      BY <3>1, <3>2, <3>3 DEF PointIsBest
  <2>10. LineageImproves'
    <3> SUFFICES ASSUME NEW i \in Accepted'
                 PROVE  /\ Exact(i)'
                        /\ trials'[i].parent # None =>
                             /\ trials'[i].parent \in Accepted'
                             /\ trials'[i].exact + options.min_improvement < trials'[trials'[i].parent].exact
      BY <1>1 DEF LineageImproves
    <3>1. CASE i = w
      <4>1. Exact(i)'
        BY <2>2, <2>5, <3>1 DEF Exact
      <4>2. parent # None => parent \in Accepted /\ best = value /\ best # None /\ best = trials[parent].exact
        BY DEF Inv, PointIsBest
      <4>3. parent # None => trials'[parent].exact = value
        BY <2>6, <4>2 DEF Accepted
      <4> QED
        BY <2>2, <2>5, <2>7, <3>1, <4>1, <4>2, <4>3
    <3>2. CASE i # w
      <4>1. i \in Accepted /\ i \in 1..Len(trials)
        BY <2>7, <3>2 DEF Accepted
      <4>2. /\ Exact(i)
            /\ trials[i].parent # None =>
                 /\ trials[i].parent \in Accepted
                 /\ trials[i].parent \in 1..Len(trials)
                 /\ trials[i].exact + options.min_improvement < trials[trials[i].parent].exact
        BY <4>1 DEF Inv, LineageImproves, Accepted
      <4> QED
        BY <2>6, <2>7, <4>1, <4>2 DEF Exact
    <3> QED
      BY <3>1, <3>2
  <2>11. EveryTrialIsMatched'
    <3> SUFFICES ASSUME NEW i \in 1..Len(trials), Exact(i)'
                 PROVE  Matched(i)'
      BY <2>4 DEF EveryTrialIsMatched
    <3>1. Exact(i) /\ trials[i].exact \in Nat
      BY <2>6, ExactIsNat DEF Exact, Inv
    <3>2. Matched(i) /\ (best # None => best = value)
      BY <3>1 DEF Inv, EveryTrialIsMatched, PointIsBest
    <3>3. trials[w].exact <= trials[i].exact + options.min_improvement
      BY <1>2, <2>2, <2>3, <3>1, <3>2 DEF Matched
    <3> QED
      BY <1>1, <1>2, <2>1, <2>3, <2>6, <3>3 DEF Matched
  <2>12. ReasonHolds'
    BY <1>1, <2>1 DEF Inv, ReasonHolds, Ended
  <2> QED
    BY <1>3, <1>4, <2>8, <2>9, <2>10, <2>11, <2>12 DEF Inv
<1>6. CASE ~Accept
  <2>1. termination' = ReasonWithoutWinner /\ UNCHANGED <<trials, best, value, parent>>
    BY <1>6 DEF Settle
  <2>2. TypeOK'
    BY <1>1, <1>3, <2>1 DEF Inv, TypeOK, Ended
  <2>3. Accepted' = Accepted /\ LineageImproves'
    BY <1>1, <2>1 DEF Inv, LineageImproves, Accepted, Exact
  <2>4. PointIsBest'
    BY <1>1, <2>1, <2>3 DEF Inv, PointIsBest, InIteration
  <2>5. EveryTrialIsMatched'
    BY <1>1, <1>6, <2>1 DEF Inv, EveryTrialIsMatched, Matched, Exact, Accept
  <2>6. ReasonHolds'
    BY <1>1, <2>1 DEF Inv, ReasonHolds, ReasonWithoutWinner, Ended
  <2> QED
    BY <1>3, <1>4, <2>2, <2>3, <2>4, <2>5, <2>6 DEF Inv
<1> QED
  BY <1>5, <1>6

------------------------------------------------------------------------------
(* propose_async after the search. *)

\* The trial that the loop over the accepted ones ends with is the one that the
\* search stands on.
LEMMA LastAcceptedIsParent ==
  ASSUME Inv, Accepted # {}
  PROVE  LastAccepted = parent /\ parent # None
<1>1. parent # None /\ parent \in Accepted /\ \A i \in Accepted : i <= parent
  BY DEF Inv, PointIsBest
<1>2. Accepted \subseteq Nat
  BY LenProperties DEF Accepted, Inv, TypeOK
<1>3. \A i \in Accepted : (\A j \in Accepted : j <= i) => i = parent
  BY <1>1, <1>2
<1> QED
  BY <1>1, <1>3 DEF LastAccepted

\* Recording the result keeps the invariant.
LEMMA RecordInv ==
  ASSUME Inv, Record
  PROVE  Inv'
<1> USE DEF Record, search
<1>1. TypeOK' /\ BudgetRespected' /\ NothingTried' /\ ReasonHolds'
  BY DEF Inv, TypeOK, BudgetRespected, NothingTried, ReasonHolds, Ended, Preparing
<1>2. LastIsOpen' /\ WinnerImproves' /\ EveryTrialIsMatched' /\ LineageImproves' /\ PointIsBest'
  BY SearchUnchanged DEF InIteration
<1>3. RecordIsComplete'
  <2>1. Accepted' = Accepted /\ parent' = parent /\ best' = best
    BY DEF Accepted
  <2> QED
    BY <2>1, LastAcceptedIsParent DEF RecordIsComplete
<1> QED
  BY <1>1, <1>2, <1>3 DEF Inv

\* Every step keeps the invariant.
LEMMA NextInv == Inv /\ [Next]_vars => Inv'
<1> SUFFICES ASSUME Inv, [Next]_vars PROVE Inv'
  OBVIOUS
<1>1. CASE Cancel
  BY <1>1, CancelInv
<1>2. CASE LoadAnchor \/ SolveAnchor \/ ReplayStart \/ SolveStart \/ Prepare
  BY <1>2, LoadAnchorInv, SolveAnchorInv, ReplayStartInv, SolveStartInv, PreparedInv
<1>3. CASE Iterate \/ NextCandidate \/ SolveCandidate \/ Settle
  BY <1>3, IterateInv, NextCandidateInv, SolveCandidateInv, SettleInv
<1>4. CASE Record
  BY <1>4, RecordInv
<1>5. CASE UNCHANGED vars
  <2> USE <1>5 DEF vars
  <2>1. TypeOK' /\ BudgetRespected' /\ NothingTried' /\ LastIsOpen' /\ ReasonHolds'
    BY DEF Inv, TypeOK, BudgetRespected, NothingTried, LastIsOpen, ReasonHolds
  <2>2. Accepted' = Accepted /\ LineageImproves'
    BY DEF Inv, LineageImproves, Accepted, Exact
  <2>3. RecordIsComplete'
    BY <2>2 DEF Inv, RecordIsComplete
  <2>4. PointIsBest' /\ WinnerImproves' /\ EveryTrialIsMatched'
    BY <2>2 DEF Inv, PointIsBest, WinnerImproves, EveryTrialIsMatched, Matched, Exact
  <2> QED
    BY <2>1, <2>2, <2>3, <2>4 DEF Inv
<1> QED
  BY <1>1, <1>2, <1>3, <1>4, <1>5 DEF Next, Advance

------------------------------------------------------------------------------
(* The theorems. *)

\* The invariant holds in every state of a proposal.
THEOREM Invariance == Spec => []Inv
BY InitInv, NextInv, PTL DEF Spec

\* solve_count never exceeds max_solves: the anchor, the starting state and
\* every candidate are charged before they are solved, failed ones too.
THEOREM BudgetIsRespected == Spec => []BudgetRespected
<1>1. Inv => BudgetRespected
  BY DEF Inv
<1> QED
  BY <1>1, Invariance, PTL

\* Every accepted trial improves on the trial it descends from, by more than
\* min_improvement, in searches of any length.
THEOREM LineageIsImproving == Spec => []LineageImproves
<1>1. Inv => LineageImproves
  BY DEF Inv
<1> QED
  BY <1>1, Invariance, PTL

\* Whatever ended the search, no solved trial is better than the recommended
\* state, by that state's own exact value, by more than min_improvement: the last
\* accepted trial is the point the search stands on, and that point matches
\* every trial.
THEOREM RecommendationIsTheBest == Spec => []RecommendationIsBest
<1>1. ASSUME Inv, phase = "recorded", NEW i \in 1..Len(trials), Exact(i)
      PROVE  \/ /\ recommended \in Accepted
                /\ Exact(recommended)
                /\ trials[recommended].exact <= trials[i].exact + options.min_improvement
             \/ /\ recommended = 0 /\ Accepted = {} /\ best # None
                /\ value <= trials[i].exact + options.min_improvement
  <2>1. best # None /\ best <= trials[i].exact + options.min_improvement
    BY <1>1 DEF Inv, EveryTrialIsMatched, Matched, InIteration
  <2>2. CASE Accepted # {}
    <3>1. parent \in Accepted /\ best = trials[parent].exact
      BY <1>1, <2>2 DEF Inv, PointIsBest
    <3>2. recommended = parent
      BY <1>1, <2>2 DEF Inv, RecordIsComplete
    <3> QED
      BY <2>1, <3>1, <3>2 DEF Exact
  <2>3. CASE Accepted = {}
    <3>1. best = value
      BY <1>1, <2>1 DEF Inv, PointIsBest
    <3>2. recommended = 0
      BY <1>1, <2>1, <2>3 DEF Inv, RecordIsComplete
    <3> QED
      BY <2>1, <2>3, <3>1, <3>2
  <2> QED
    BY <2>2, <2>3
<1>2. Inv => RecommendationIsBest
  BY <1>1 DEF RecommendationIsBest
<1> QED
  BY <1>2, Invariance, PTL

\* The termination that the record names is why the search stopped.
THEOREM ReasonIsTheReason == Spec => []ReasonIsTrue
<1>1. Inv => ReasonIsTrue
  BY DEF Inv, ReasonIsTrue, ReasonHolds, EveryTrialIsMatched, Matched, PointIsBest, InIteration
<1> QED
  BY <1>1, Invariance, PTL

\* After the user's request to stop no solve begins: there is a checkpoint
\* before each of the three places that charge one.
THEOREM NoSolveAfterCancel == Spec => CancelStopsSolves
<1>1. [Next]_vars => [cancelled => solves' = solves]_vars
  BY DEF Next, Advance, Cancel, LoadAnchor, SolveAnchor, ReplayStart, SolveStart, Prepare,
         Iterate, NextCandidate, SolveCandidate, Settle, Record, End, BeginSolve, LeaveBeam, vars
<1> QED
  BY <1>1, PTL DEF Spec, CancelStopsSolves

==============================================================================
