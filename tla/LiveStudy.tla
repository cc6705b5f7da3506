------------------------------ MODULE LiveStudy ------------------------------
(***************************************************************************)
(* The live Study of crates/tellegen/src/study.rs: a base network, a log   *)
(* of edits in commits, linear constraints and the point solved last.      *)
(*                                                                         *)
(* The log is interpreted three times.  A solve folds it per key and then  *)
(* per element (api.rs, on the dense model); a preview subtracts two folds *)
(* and aggregates the difference; a save, an export and the decision check *)
(* replay it edit by edit on the network (apply_network_edits).  An        *)
(* element has two keys, its number and its uid.  Powers are whole MW, so  *)
(* the tolerance of 1e-9 disappears.  A solve may always fail.             *)
(***************************************************************************)
EXTENDS Integers, Sequences, SequencesExt, FiniteSets

CONSTANTS
  Buses, Branches,
  Reference,      \* the bus that balances the network
  Locked,         \* isolated buses, branches that are out of service
  Edits,          \* NetworkEdit: [key |-> [element, form], mw]
  Generation,     \* fixed generation of a bus, in the power flow formulation
  Synthetic,      \* the limit that lowering gives a branch that states none
  Sources,        \* the modules a Study may start from at first
  Formulations,   \* Problem: a subset of "dcopf", "acpf", "socwr"
  MaxLog,         \* bound on the edits of a log
  MaxCommits,     \* bound on its commits (an empty batch is a commit)
  MaxReloads,     \* bound on the sessions that continue a saved file
  None

\* A network is [loads, rate, located]: the loads in service of every bus, the
\* stated rate_a of every branch (0 where there is none), and whether it
\* has coordinates.
Networks ==
  [loads : [Buses -> Seq(Int)], rate : [Branches -> Nat], located : BOOLEAN]

\* The ids of history entries: tellegen-edit-n, or those of other programs.
Names == {"edit", "parse"} \X Nat

\* A module is [kind, of, net, spec, history].  An edit names its element by
\* number or by uid.
ASSUME StudyAssumption ==
  /\ Buses \cap Branches = {}
  /\ Reference \in Buses
  /\ Locked \subseteq Buses \cup Branches
  /\ \A e \in Edits :
       /\ e.mw \in Int
       /\ e.key = [element |-> e.key.element, form |-> e.key.form]
       /\ e.key.form \in {"id", "uid"}
  /\ \A m \in Sources :
       /\ m.net \in Networks
       /\ m.spec \in [Buses -> Int] \cup {None}
       /\ m.history \in Seq(Names) /\ IsInjective(m.history)
  /\ None \notin [Buses -> Int]
  /\ Generation \in [Buses -> Int]
  /\ Synthetic \in Nat \ {0}
  /\ Formulations \subseteq {"dcopf", "acpf", "socwr"}
  /\ MaxLog \in Nat
  /\ MaxCommits \in Nat
  /\ MaxReloads \in Nat

VARIABLES
  study,     \* the Study
  reloads    \* how often a saved file was read back

vars == <<study, reloads>>

Elements == Buses \cup Branches
Batches == UNION {[1..n -> Edits] : n \in 0..MaxLog}

\* The sums of the first i powers of a sequence.
Sums(powers) ==
  LET sum[i \in 0..Len(powers)] == IF i = 0 THEN 0 ELSE sum[i - 1] + powers[i]
  IN  sum

Total(powers) == Sums(powers)[Len(powers)]
Demand(net, b) == Total(net.loads[b])
Limit(net, l) == IF net.rate[l] = 0 THEN Synthetic ELSE net.rate[l]

------------------------------------------------------------------------------
(* The dense model: fold, validation and the application of folded edits. *)

Cumulative(log, k) ==
  Total([i \in 1..Len(log) |-> IF log[i].key = k THEN log[i].mw ELSE 0])

\* fold: one cumulative delta for every key, zeros included.
Fold(log) == [k \in {log[i].key : i \in DOMAIN log} |-> Cumulative(log, k)]

\* The delta of a key; none is zero.
At(edits, k) == IF k \in DOMAIN edits THEN edits[k] ELSE 0

\* validate_canonical_edits.
Canonical(edits) ==
  \A k \in DOMAIN edits : k.element \in Elements \ Locked

\* aggregate_demand_deltas, aggregate_rating_deltas, dense_cols: the keys of an
\* element are combined before anything is checked.
Aggregate(edits) ==
  [e \in Elements |-> At(edits, [element |-> e, form |-> "id"])
                       + At(edits, [element |-> e, form |-> "uid"])]

\* The injection of a bus before any edit: an AC power flow instance states it,
\* a network implies it.
NetInjection(s, b) ==
  IF s.spec # None THEN s.spec[b] ELSE Generation[b] - Demand(s.base, b)

\* The point that a solve is about: base plus edits.
Point(s, edits) ==
  LET delta == Aggregate(edits) IN
  [demand |-> [b \in Buses |-> Demand(s.base, b) + delta[b]],
   limit |-> [l \in Branches |-> Limit(s.base, l) + delta[l]],
   injection |-> [b \in Buses \ {Reference} |-> NetInjection(s, b) - delta[b]]]

\* apply_demand_deltas, apply_rating_deltas, reject_rating_deltas and
\* reject_linear_constraints: what a formulation refuses before it solves.
Accepted(s, edits, rows) ==
  LET touched == {k.element : k \in DOMAIN edits}
      point == Point(s, edits)
  IN
  /\ \A b \in touched \cap Buses : point.demand[b] >= 0
  /\ \A l \in touched \cap Branches : s.formulation # "acpf" /\ point.limit[l] > 0
  /\ rows = {} \/ s.formulation = "dcopf"

\* solve_log, when the solver converges.
Solved(s, log, rows) == [point |-> Point(s, Fold(log)), rows |-> rows]

\* Mutant of ReplacementStep: keys that the target does not name stay.
ReplacementStepKeeps(current, target) ==
  LET from == Fold(current)
      to == Fold(target)
      moved == {k \in DOMAIN to : to[k] # At(from, k)}
  IN  [k \in moved |-> to[k] - At(from, k)]

\* replacement_step: the difference of two folds, zeros left out.
ReplacementStep(current, target) ==
  LET from == Fold(current)
      to == Fold(target)
      moved == {k \in DOMAIN from \cup DOMAIN to : At(to, k) # At(from, k)}
  IN  [k \in moved |-> At(to, k) - At(from, k)]

------------------------------------------------------------------------------
(* Materialization: the log replayed on the network. *)

\* Mutant of ApplyEdit: the delta lands on every load of the bus.
ApplyEditEveryLoad(net, e) ==
  LET x == e.key.element IN
  IF net = None THEN None
  ELSE IF x \in Buses
  THEN IF Demand(net, x) + e.mw < 0 THEN None
       ELSE IF net.loads[x] = <<>> THEN [net EXCEPT !.loads[x] = <<e.mw>>]
       ELSE [net EXCEPT !.loads[x] = [i \in DOMAIN @ |-> @[i] + e.mw]]
  ELSE IF net.rate[x] = 0 \/ net.rate[x] + e.mw <= 0 THEN None
  ELSE [net EXCEPT !.rate[x] = @ + e.mw]

\* One step of apply_network_edits; None is its error.
ApplyEdit(net, e) ==
  LET x == e.key.element IN
  IF net = None THEN None
  ELSE IF x \in Buses
  THEN IF Demand(net, x) + e.mw < 0 THEN None
       ELSE IF net.loads[x] = <<>> THEN [net EXCEPT !.loads[x] = <<e.mw>>]
       ELSE [net EXCEPT !.loads[x][1] = @ + e.mw]
  ELSE IF net.rate[x] = 0 \/ net.rate[x] + e.mw <= 0 THEN None
  ELSE [net EXCEPT !.rate[x] = @ + e.mw]

\* materialized_network.
Materialized(s) ==
  LET net[i \in 0..Len(s.log)] ==
        IF i = 0 THEN s.base ELSE ApplyEdit(net[i - 1], s.log[i])
  IN  net[Len(s.log)]

\* The sum of the edits of an element, by either key.
Moved(log, e) ==
  Total([i \in 1..Len(log) |-> IF log[i].key.element = e THEN log[i].mw ELSE 0])

\* materialized_instance: the specifications of an AC power flow instance move
\* with the demand, those of a network are taken from the edited network.
Specification(s, net) ==
  [b \in Buses |->
     IF s.spec = None THEN Generation[b] - Demand(net, b)
     ELSE IF b = Reference THEN s.spec[b]
     ELSE s.spec[b] - Moved(s.log, b)]

\* One entry of retained_module: the next number that no entry has.
AddEntry(h) ==
  LET n == CHOOSE k \in h.next..(h.next + Len(h.ids)) :
             /\ <<"edit", k>> \notin ToSet(h.ids)
             /\ \A j \in h.next..(k - 1) : <<"edit", j>> \in ToSet(h.ids)
  IN  [ids |-> Append(h.ids, <<"edit", n>>), next |-> n + 1]

\* The history that retained_module writes.
History(s) ==
  LET h[i \in 0..Len(s.log)] ==
        IF i = 0 THEN [ids |-> s.history, next |-> Len(s.history)] ELSE AddEntry(h[i - 1])
  IN  h[Len(s.log)].ids

------------------------------------------------------------------------------
(* What a save returns: a module, or None for an error. *)

\* save_module: the network, with the edits as history.
SaveModule(s) ==
  IF Materialized(s) = None THEN None
  ELSE [kind |-> "network", of |-> None, net |-> Materialized(s), spec |-> None,
        history |-> History(s)]

\* The instance that save_instance_module and the solutions are about.
\* reject_constraints: it has no place for the extra rows.
Instance(s, kind, history) ==
  IF s.constraints # {} \/ Materialized(s) = None THEN None
  ELSE [kind |-> kind, of |-> s.formulation, net |-> Materialized(s),
        spec |-> IF s.formulation = "acpf" THEN Specification(s, Materialized(s)) ELSE None,
        history |-> history]

\* save_instance_module: without the edits' history.
SaveInstanceModule(s) == Instance(s, "instance", s.history)

\* save_solution_module; save_exact_module for what is not DC OPF.
SaveSolutionModule(s) ==
  Instance(s, "solution", IF s.formulation = "dcopf" THEN History(s) ELSE s.history)

Saved(s) == {SaveModule(s), SaveInstanceModule(s), SaveSolutionModule(s)} \ {None}

------------------------------------------------------------------------------
(* Sessions. *)

\* solve_state, from_dynamic_module: an instance starts a Study of its own
\* formulation only, a solution starts none.
Startable(m, f) == m.kind = "network" \/ (m.kind = "instance" /\ m.of = f)

\* Study::new, from_network_and_module: the base is solved at once.
New(m, f) ==
  LET s == [formulation |-> f, base |-> m.net, spec |-> m.spec, history |-> m.history,
            log |-> <<>>, bounds |-> <<>>, constraints |-> {}, solved |-> None]
  IN  [s EXCEPT !.solved = Solved(s, <<>>, {})]

Init ==
  /\ \E m \in Sources, f \in Formulations : Startable(m, f) /\ study = New(m, f)
  /\ reloads = 0

\* A later session reads what this one saved.
Reload(f) ==
  /\ reloads < MaxReloads
  /\ \E m \in Saved(study) : Startable(m, f) /\ study' = New(m, f)
  /\ reloads' = reloads + 1

\* commit_log: everything is replaced after the solve, or nothing.
CommitLog(log, bounds) ==
  \/ /\ Canonical(Fold(log))
     /\ Accepted(study, Fold(log), study.constraints)
     /\ study' = [study EXCEPT !.log = log, !.bounds = bounds,
                               !.solved = Solved(study, log, study.constraints)]
  \/ UNCHANGED study

\* commit_with: one more batch.
CommitWith(edits) ==
  /\ Len(study.log) + Len(edits) <= MaxLog
  /\ Len(study.bounds) < MaxCommits
  /\ LET log == study.log \o edits IN CommitLog(log, Append(study.bounds, Len(log)))
  /\ UNCHANGED reloads

\* replace_edits_with: the edits are the whole state.
ReplaceEditsWith(edits) ==
  /\ CommitLog(edits, IF edits = <<>> THEN <<>> ELSE <<Len(edits)>>)
  /\ UNCHANGED reloads

\* Mutant of Restored: set_constraints returns its error and nothing else.
RestoredNot(s, previous) == s

\* The error path of set_constraints.
Restored(s, previous) == [s EXCEPT !.constraints = previous]

\* set_constraints: the new rows are in place while the log is solved again.
SetConstraints(rows) ==
  /\ LET s == [study EXCEPT !.constraints = rows] IN
     \/ /\ Accepted(s, Fold(s.log), rows)
        /\ study' = [s EXCEPT !.solved = Solved(s, s.log, rows)]
     \/ study' = Restored(s, study.constraints)
  /\ UNCHANGED reloads

\* apply_geo_layer: coordinates on the base, nothing is solved.
ApplyGeoLayer ==
  /\ study' = [study EXCEPT !.base = [loads |-> @.loads, rate |-> @.rate, located |-> TRUE]]
  /\ UNCHANGED reloads

------------------------------------------------------------------------------
(* The system. *)

Rows == {{}, {"row"}}

Next ==
  \/ \E edits \in Batches : CommitWith(edits) \/ ReplaceEditsWith(edits)
  \/ \E rows \in Rows : SetConstraints(rows)
  \/ ApplyGeoLayer
  \/ \E f \in Formulations : Reload(f)

Spec == Init /\ [][Next]_vars

------------------------------------------------------------------------------
(* Properties. *)

\* "The operating point is always base + the whole edit log": after any mixture
\* of commits, replacements, changed constraints and failed solves, the point
\* solved last is the one that the log, the base and the constraints describe,
\* and the commits partition the log.
SolvedIsCurrent ==
  /\ study.solved = Solved(study, study.log, study.constraints)
  /\ Canonical(Fold(study.log))
  /\ Accepted(study, Fold(study.log), study.constraints)
  /\ \A i \in 2..Len(study.bounds) : study.bounds[i - 1] <= study.bounds[i]
  /\ study.log # <<>> => study.bounds # <<>>
  /\ study.bounds # <<>> => Last(study.bounds) = Len(study.log)

\* Whatever a save returns is what was solved: the replay of the log edit by
\* edit arrives where the folded log was solved, constraints are never dropped,
\* the coordinates are on board, and a Study that is started from the file starts
\* at this point.  The history's entries have different names, although the
\* module came with entries of its own, earlier sessions' among them.  (A network
\* saved from a Study on an AC power flow instance carries the demands, not the
\* instance's injections.)
SavedIsSolved ==
  \A m \in Saved(study) :
    LET again == New(m, study.formulation).solved.point
        point == study.solved.point
    IN
    /\ again.demand = point.demand
    /\ again.limit = point.limit
    /\ (study.formulation = "acpf" /\ (study.spec = None \/ m.kind # "network"))
         => again.injection = point.injection
    /\ m.kind # "network" => study.solved.rows = {}
    /\ m.net.located = study.base.located
    /\ IsInjective(m.history)

\* What preview_replacement linearizes is the way from the point solved last to
\* the point that replace_edits would solve, for every target.
PreviewReaches ==
  \A target \in Batches : Canonical(Fold(target)) =>
    LET delta == Aggregate(ReplacementStep(study.log, target))
        there == Point(study, Fold(target))
    IN  /\ \A b \in Buses : study.solved.point.demand[b] + delta[b] = there.demand[b]
        /\ \A l \in Branches : study.solved.point.limit[l] + delta[l] = there.limit[l]
==============================================================================
