------------------------ MODULE StudyDocument_proofs ------------------------
(***************************************************************************)
(* Proofs about the Study document, for any networks, goals and limits.    *)
(*                                                                         *)
(* Every operation is execute_study's: it makes a new document from the    *)
(* old one, and transaction numbers and validates it.  So the proofs say   *)
(* once what a result owes the document it was made from (Sound), once     *)
(* that a sound result keeps the invariant (SoundStep), and then, for each *)
(* operation, that its results are sound and that their references exist.  *)
(***************************************************************************)
EXTENDS StudyDocument, SequenceTheorems, WellFoundedInduction, TLAPS

Fields ==
  {"revision", "states", "goals", "experiments", "decisions",
   "active", "inspected", "recommended", "applied"}

IsSequence(s) == s \in Seq({s[i] : i \in DOMAIN s})

\* A document is a record of its nine fields, with a sequence of experiments.
Shape(d) == d = [f \in Fields |-> d[f]] /\ IsSequence(d.experiments)

\* No record of a document is the missing one.
RecordsExist(d) == None \notin d.states /\ None \notin d.goals

\* The active goal is the last of the line: no goal revises it yet.
ActiveIsLast(d) == \A g \in d.goals : g.parent # d.active

\* The inductive invariant.
Inv ==
  /\ Shape(doc)
  /\ RecordsExist(doc)
  /\ ReferencesExist(doc)
  /\ RecommendationMatchesGoal
  /\ AppliedIsDecided
  /\ GoalsFormALine
  /\ ActiveIsLast(doc)

------------------------------------------------------------------------------
(* What the result of an operation owes the document it was made from. *)

\* x has everything of the history of d.
Extends(d, x) ==
  /\ d.states \subseteq x.states
  /\ d.goals \subseteq x.goals
  /\ d.decisions \subseteq x.decisions
  /\ Len(d.experiments) <= Len(x.experiments)
  /\ \A i \in Positions(d) : x.experiments[i] = d.experiments[i]

Recommends(d, x) ==
  \/ x.recommended = None
  \/ x.recommended = d.recommended /\ x.active = d.active
  \/ \E i \in Positions(x) :
       /\ x.experiments[i].kind \in {"planning", "counterfactual"}
       /\ x.experiments[i].goal = x.active
       /\ x.recommended \in x.experiments[i].results

Applies(d, x) ==
  \/ x.applied = d.applied
  \/ \E r \in x.decisions :
       /\ r.choice = "apply"
       /\ r.state = x.applied
       /\ x.applied \in x.experiments[r.experiment].results

Revises(d, x) ==
  \/ x.goals = d.goals /\ x.active = d.active
  \/ /\ x.goals = d.goals \cup {x.active}
     /\ x.active.parent = d.active

Sound(d, x) ==
  /\ Shape(x)
  /\ RecordsExist(x)
  /\ Extends(d, x)
  /\ Recommends(d, x)
  /\ Applies(d, x)
  /\ Revises(d, x)

------------------------------------------------------------------------------
(* Facts about the parts. *)

\* Appending keeps a sequence and its elements (AddExperiment).
LEMMA AppendKeeps ==
  ASSUME NEW s, IsSequence(s), NEW e
  PROVE  /\ IsSequence(Append(s, e))
         /\ Len(s) \in Nat
         /\ Len(Append(s, e)) = Len(s) + 1
         /\ Append(s, e)[Len(s) + 1] = e
         /\ \A i \in 1..Len(s) : Append(s, e)[i] = s[i]
<1> DEFINE S == {s[i] : i \in DOMAIN s}
           T == S \cup {e}
           a == Append(s, e)
<1>1. s \in Seq(S) BY DEF IsSequence
<1>2. s \in Seq(T)
  <2>1. \A i \in 1..Len(s) : s[i] \in S BY <1>1, ElementOfSeq
  <2>2. Len(s) \in Nat /\ s \in [1..Len(s) -> S] BY <1>1, LenProperties
  <2> QED BY <2>1, <2>2
<1>3. /\ a \in Seq(T)
      /\ Len(a) = Len(s) + 1
      /\ a[Len(s) + 1] = e
      /\ \A i \in 1..Len(s) : a[i] = s[i]
  BY <1>2, AppendProperties
<1>4. Len(s) \in Nat /\ DOMAIN s = 1..Len(s) BY <1>1, LenProperties
<1>5. DOMAIN a = 1..(Len(s) + 1) BY <1>3, LenProperties
<1>6. {a[i] : i \in DOMAIN a} = T
  <2>1. ASSUME NEW i \in DOMAIN a PROVE a[i] \in T
    BY <1>3, <1>5, ElementOfSeq
  <2>2. ASSUME NEW x \in T PROVE \E i \in DOMAIN a : a[i] = x
    <3>1. CASE x = e BY <3>1, <1>3, <1>4, <1>5
    <3>2. CASE x \in S
      <4>1. PICK i \in DOMAIN s : x = s[i] BY <3>2
      <4> QED BY <4>1, <1>3, <1>4, <1>5
    <3> QED BY <3>1, <3>2
  <2> QED BY <2>1, <2>2
<1> HIDE DEF T
<1> QED BY <1>3, <1>4, <1>6 DEF IsSequence

\* No state and no goal is Option::None.
LEMMA RecordsAreNotNone ==
  /\ \A p, i, s, l : StateNode(p, i, s, l) # None
  /\ \A p, a, r : Goal(p, a, r) # None
BY DEF StateNode, Goal, None

\* AddExperiment appends, and changes nothing else.
LEMMA AddExperimentFields ==
  ASSUME NEW d, Shape(d), NEW e
  PROVE  LET x == AddExperiment(d, e) IN
         /\ Shape(x)
         /\ \A f \in Fields \ {"experiments"} : x[f] = d[f]
         /\ Len(d.experiments) \in Nat
         /\ Len(x.experiments) = Len(d.experiments) + 1
         /\ x.experiments[Len(x.experiments)] = e
         /\ \A i \in Positions(d) : x.experiments[i] = d.experiments[i]
<1> DEFINE x == AddExperiment(d, e)
<1>1. /\ x = [f \in Fields |-> x[f]]
      /\ x.experiments = Append(d.experiments, e)
      /\ \A f \in Fields \ {"experiments"} : x[f] = d[f]
  BY DEF Shape, AddExperiment, Fields
<1>2. /\ IsSequence(Append(d.experiments, e))
      /\ Len(d.experiments) \in Nat
      /\ Len(Append(d.experiments, e)) = Len(d.experiments) + 1
      /\ Append(d.experiments, e)[Len(d.experiments) + 1] = e
      /\ \A i \in 1..Len(d.experiments) : Append(d.experiments, e)[i] = d.experiments[i]
  BY AppendKeeps DEF Shape
<1> HIDE DEF x
<1>3. /\ Shape(x)
      /\ Len(d.experiments) \in Nat
      /\ Len(x.experiments) = Len(d.experiments) + 1
      /\ x.experiments[Len(x.experiments)] = e
      /\ \A i \in Positions(d) : x.experiments[i] = d.experiments[i]
  BY <1>1, <1>2 DEF Shape, Positions
<1> QED BY <1>1, <1>3 DEF x

\* The experiments of a document have a length.
LEMMA LengthIsNat ==
  ASSUME NEW d, Shape(d)
  PROVE  Len(d.experiments) \in Nat
BY LenProperties DEF Shape, IsSequence

------------------------------------------------------------------------------
(* A sound result that transaction accepts keeps the invariant. *)

\* transaction (study_ops.rs): numbers the result and validates its references.
LEMMA SoundStep ==
  ASSUME Inv, NEW results, \A x \in results : Sound(doc, x), Execute(results)
  PROVE  /\ Inv'
         /\ Extends(doc, doc')
<1>1. PICK x \in results :
        /\ doc' = [x EXCEPT !.revision = doc.revision + 1]
        /\ ReferencesExist(doc')
  BY DEF Execute, Transaction
<1>2. Sound(doc, x) OBVIOUS
<1>3. /\ doc' = [f \in Fields |-> doc'[f]]
      /\ \A f \in Fields \ {"revision"} : doc'[f] = x[f]
  BY <1>1, <1>2 DEF Sound, Shape, Fields
<1>4. /\ doc'.states = x.states /\ doc'.goals = x.goals
      /\ doc'.experiments = x.experiments /\ doc'.decisions = x.decisions
      /\ doc'.active = x.active /\ doc'.recommended = x.recommended
      /\ doc'.applied = x.applied
  BY <1>3 DEF Fields
<1>5. Shape(doc)' /\ RecordsExist(doc)'
  BY <1>2, <1>3, <1>4 DEF Sound, Shape, RecordsExist
<1>6. Len(doc.experiments) \in Nat /\ Len(x.experiments) \in Nat
  BY <1>2, LengthIsNat DEF Inv, Sound
<1>7. Extends(doc, doc') BY <1>2, <1>4 DEF Sound, Extends
<1>8. RecommendationMatchesGoal'
  <2>1. CASE x.recommended = None
    BY <2>1, <1>4 DEF RecommendationMatchesGoal
  <2>2. CASE x.recommended = doc.recommended /\ x.active = doc.active
    BY <2>2, <1>2, <1>4, <1>6 DEF Inv, Sound, Extends, RecommendationMatchesGoal, Positions
  <2>3. CASE \E i \in Positions(x) :
               /\ x.experiments[i].kind \in {"planning", "counterfactual"}
               /\ x.experiments[i].goal = x.active
               /\ x.recommended \in x.experiments[i].results
    BY <2>3, <1>4 DEF RecommendationMatchesGoal, Positions
  <2> QED BY <1>2, <2>1, <2>2, <2>3 DEF Sound, Recommends
<1>9. AppliedIsDecided'
  <2>1. CASE x.applied = doc.applied
    <3> SUFFICES ASSUME doc.applied # None, doc.applied.label # <<"start">>
                 PROVE  \E r \in x.decisions :
                          /\ r.choice = "apply"
                          /\ r.state = doc.applied
                          /\ doc.applied \in x.experiments[r.experiment].results
      BY <2>1, <1>4 DEF AppliedIsDecided
    <3>1. PICK r \in doc.decisions :
            /\ r.choice = "apply"
            /\ r.state = doc.applied
            /\ doc.applied \in doc.experiments[r.experiment].results
      BY DEF Inv, AppliedIsDecided
    <3>2. r.experiment \in Positions(doc) BY DEF Inv, ReferencesExist
    <3> QED BY <3>1, <3>2, <1>2 DEF Sound, Extends
  <2>2. CASE \E r \in x.decisions :
               /\ r.choice = "apply"
               /\ r.state = x.applied
               /\ x.applied \in x.experiments[r.experiment].results
    BY <2>2, <1>4 DEF AppliedIsDecided
  <2> QED BY <1>2, <2>1, <2>2 DEF Sound, Applies
<1>10. GoalsFormALine' /\ ActiveIsLast(doc)'
  <2>1. CASE x.goals = doc.goals /\ x.active = doc.active
    BY <2>1, <1>4 DEF Inv, GoalsFormALine, ActiveIsLast
  <2>2. CASE x.goals = doc.goals \cup {x.active} /\ x.active.parent = doc.active
    <3>1. x.active \notin doc.goals BY <2>2 DEF Inv, ActiveIsLast
    <3>2. x.active # None BY <2>2, <1>2 DEF Sound, RecordsExist
    <3>3. \A g \in doc.goals : g.parent # x.active
      BY <3>1, <3>2 DEF Inv, ReferencesExist, Optional
    <3>4. doc.active # x.active BY <3>1, <3>2 DEF Inv, ReferencesExist, Optional
    <3>5. \A g \in doc.goals : g.parent # doc.active BY DEF Inv, ActiveIsLast
    <3> QED BY <2>2, <3>3, <3>4, <3>5, <1>4 DEF Inv, GoalsFormALine, ActiveIsLast
  <2> QED BY <1>2, <2>1, <2>2 DEF Sound, Revises
<1> QED BY <1>1, <1>5, <1>7, <1>8, <1>9, <1>10 DEF Inv

------------------------------------------------------------------------------
(* The operations.  Base(d) is what they need of the document they start from. *)

Base(d) == Shape(d) /\ RecordsExist(d) /\ ReferencesExist(d)

\* An experiment that names only records of the document.
Refers(d, e) ==
  /\ Optional(e.start, d.states)
  /\ e.kind # "historical_import" => e.start # None
  /\ Optional(e.goal, d.goals)
  /\ e.kind = "planning" => e.goal # None
  /\ e.refers \subseteq d.states
  /\ None \notin e.accepted
  /\ e.kind \in {"inspection", "sensitivity"} => e.results = {}

\* Any experiment may be added (AddExperiment); its references decide the rest.
LEMMA AddExperimentSound ==
  ASSUME NEW d, Base(d), NEW e
  PROVE  LET x == AddExperiment(d, e) IN
         /\ Sound(d, x)
         /\ Refers(d, e) => ReferencesExist(x)
<1> DEFINE x == AddExperiment(d, e)
<1>1. /\ Shape(x)
      /\ \A f \in Fields \ {"experiments"} : x[f] = d[f]
      /\ Len(d.experiments) \in Nat
      /\ Len(x.experiments) = Len(d.experiments) + 1
      /\ x.experiments[Len(x.experiments)] = e
      /\ \A i \in Positions(d) : x.experiments[i] = d.experiments[i]
  BY AddExperimentFields DEF Base
<1> HIDE DEF x
<1>2. /\ x.states = d.states /\ x.goals = d.goals /\ x.decisions = d.decisions
      /\ x.active = d.active /\ x.recommended = d.recommended
      /\ x.applied = d.applied /\ x.inspected = d.inspected
  BY <1>1 DEF Fields
<1>3. Sound(d, x)
  BY <1>1, <1>2 DEF Base, Sound, RecordsExist, Extends, Recommends, Applies, Revises
<1>4. ASSUME Refers(d, e) PROVE ReferencesExist(x)
  <2>1. \A i \in Positions(x) : i \in Positions(d) \/ i = Len(x.experiments)
    BY <1>1 DEF Positions
  <2>2. \A i \in Positions(x) : Refers(d, x.experiments[i])
    BY <2>1, <1>1, <1>4 DEF Base, ReferencesExist, Refers
  <2>3. \A i \in Positions(d) : i \in Positions(x) BY <1>1 DEF Positions
  <2> QED BY <1>2, <2>2, <2>3 DEF Base, ReferencesExist, Refers
<1> QED BY <1>3, <1>4 DEF x

\* StudyBundle::inspect.
LEMMA InspectStateSound ==
  ASSUME NEW d, Base(d), NEW s, NEW x \in InspectState(d, s)
  PROVE  /\ Sound(d, x)
         /\ ReferencesExist(x)
         /\ \A f \in Fields \ {"inspected"} : x[f] = d[f]
<1>1. s \in d.states /\ x = [d EXCEPT !.inspected = s] BY DEF InspectState
<1>2. /\ x = [f \in Fields |-> x[f]]
      /\ x.inspected = s
      /\ \A f \in Fields \ {"inspected"} : x[f] = d[f]
  BY <1>1 DEF Base, Shape, Fields
<1>3. /\ x.states = d.states /\ x.goals = d.goals /\ x.decisions = d.decisions
      /\ x.active = d.active /\ x.recommended = d.recommended
      /\ x.applied = d.applied /\ x.experiments = d.experiments
  BY <1>2 DEF Fields
<1>4. Shape(x) BY <1>2, <1>3 DEF Base, Shape
<1>5. Sound(d, x)
  BY <1>3, <1>4, LengthIsNat
  DEF Base, Sound, RecordsExist, Extends, Recommends, Applies, Revises
<1>6. ReferencesExist(x) BY <1>1, <1>2, <1>3 DEF Base, ReferencesExist, Optional, Positions
<1> QED BY <1>2, <1>5, <1>6

\* branch: inspect, then the record of the selection.
LEMMA BranchSound ==
  ASSUME NEW d, Base(d), NEW s, NEW x \in Branch(d, s)
  PROVE  Sound(d, x) /\ ReferencesExist(x)
<1> DEFINE e == Experiment("inspection", s, d.active, {}, "branch_selected")
<1>1. PICK y \in InspectState(d, s) : x = AddExperiment(y, e) BY DEF Branch
<1>2. /\ Sound(d, y) /\ ReferencesExist(y)
      /\ \A f \in Fields \ {"inspected"} : y[f] = d[f]
  BY InspectStateSound
<1>3. /\ y.states = d.states /\ y.goals = d.goals /\ y.decisions = d.decisions
      /\ y.active = d.active /\ y.recommended = d.recommended
      /\ y.applied = d.applied /\ y.experiments = d.experiments
  BY <1>2 DEF Fields
<1>4. Base(y) BY <1>2 DEF Sound, Base
<1>5. Sound(y, x) /\ (Refers(y, e) => ReferencesExist(x))
  BY <1>1, <1>4, AddExperimentSound
<1>6. s \in d.states BY <1>1 DEF InspectState
<1>7. Refers(y, e)
  BY <1>3, <1>6 DEF Refers, Experiment, Record, Base, RecordsExist, ReferencesExist, Optional
<1>8. Sound(d, x)
  BY <1>3, <1>5 DEF Sound, Extends, Recommends, Applies, Revises, Positions
<1> QED BY <1>5, <1>7, <1>8

\* StudyBundle::revise_goal, for a goal that is a record.
LEMMA ReviseGoalSound ==
  ASSUME NEW d, Base(d), NEW g, g # None, NEW x \in ReviseGoal(d, g)
  PROVE  /\ Sound(d, x)
         /\ ReferencesExist(x)
<1>1. /\ g.anchor \in d.states /\ g.parent = d.active
      /\ x = [d EXCEPT !.goals = @ \cup {g}, !.active = g, !.recommended = None]
  BY DEF ReviseGoal
<1>2. /\ x = [f \in Fields |-> x[f]]
      /\ x.goals = d.goals \cup {g} /\ x.active = g /\ x.recommended = None
      /\ \A f \in Fields \ {"goals", "active", "recommended"} : x[f] = d[f]
  BY <1>1 DEF Base, Shape, Fields
<1>3. /\ x.states = d.states /\ x.decisions = d.decisions
      /\ x.inspected = d.inspected
      /\ x.applied = d.applied /\ x.experiments = d.experiments
  BY <1>2 DEF Fields
<1>4. Shape(x) BY <1>2, <1>3 DEF Base, Shape
<1>5. Sound(d, x)
  BY <1>1, <1>2, <1>3, <1>4, LengthIsNat
  DEF Base, Sound, RecordsExist, Extends, Recommends, Applies, Revises
<1>6. ReferencesExist(x)
  <2>1. Positions(x) = Positions(d) BY <1>3 DEF Positions
  <2> QED BY <1>1, <1>2, <1>3, <2>1 DEF Base, ReferencesExist, Optional
<1> QED BY <1>5, <1>6

\* compare_states.
LEMMA CompareSound ==
  ASSUME NEW d, Base(d), NEW l, NEW r, NEW g, NEW x \in Compare(d, l, r, g)
  PROVE  Sound(d, x) /\ ReferencesExist(x)
<1> DEFINE e == Experiment("inspection", l, g, {}, "completed")
<1>1. MayCompare(d, l, r, g) /\ x = AddExperiment(d, e) BY DEF Compare
<1>2. Refers(d, e)
  BY <1>1 DEF Refers, Experiment, Record, MayCompare, Optional, Base, RecordsExist
<1> HIDE DEF e
<1> QED BY <1>1, <1>2, AddExperimentSound

\* RecordEvidence: sound whatever it names; validate judges its references.
LEMMA RecordEvidenceSound ==
  ASSUME NEW d, Base(d), NEW s, NEW g, NEW b, NEW a, NEW x \in RecordEvidence(d, s, g, b, a)
  PROVE  Sound(d, x)
BY AddExperimentSound DEF RecordEvidence

\* What the operations that solve have in common: they add states, one
\* experiment that names them, and decisions about it, inspect one of the
\* states and recommend a result of the experiment under the active goal.
Works(d, x, e, N) ==
  /\ x = [f \in Fields |-> x[f]]
  /\ x.experiments = Append(d.experiments, e)
  /\ x.states = d.states \cup N
  /\ \A n \in N : n # None /\ Optional(n.parent, x.states)
  /\ x.goals = d.goals /\ x.active = d.active /\ x.applied = d.applied
  /\ Refers(x, e)
  /\ d.decisions \subseteq x.decisions
  /\ \A r \in x.decisions \ d.decisions :
       r.experiment = Len(x.experiments) /\ r.state \in x.states
  /\ Optional(x.inspected, x.states)
  /\ \/ x.recommended \in {None, d.recommended}
     \/ /\ e.kind \in {"planning", "counterfactual"}
        /\ e.goal = d.active
        /\ x.recommended \in e.results \cap x.states

\* Such a result is sound and validate finds all its references.
LEMMA WorkSound ==
  ASSUME NEW d, Base(d), NEW x, NEW e, NEW N, Works(d, x, e, N)
  PROVE  Sound(d, x) /\ ReferencesExist(x)
<1>0. /\ d.states \subseteq x.states /\ d.goals = x.goals
      /\ d.decisions \subseteq x.decisions /\ Refers(x, e)
  BY DEF Works
<1>1. /\ IsSequence(x.experiments)
      /\ Len(d.experiments) \in Nat
      /\ Len(x.experiments) = Len(d.experiments) + 1
      /\ x.experiments[Len(x.experiments)] = e
      /\ \A i \in 1..Len(d.experiments) : x.experiments[i] = d.experiments[i]
  <2>1. IsSequence(d.experiments) BY DEF Base, Shape
  <2>2. /\ IsSequence(Append(d.experiments, e))
        /\ Len(d.experiments) \in Nat
        /\ Len(Append(d.experiments, e)) = Len(d.experiments) + 1
        /\ Append(d.experiments, e)[Len(d.experiments) + 1] = e
        /\ \A i \in 1..Len(d.experiments) :
             Append(d.experiments, e)[i] = d.experiments[i]
    BY <2>1, AppendKeeps
  <2>3. x.experiments = Append(d.experiments, e) BY DEF Works
  <2> QED BY <2>2, <2>3
<1>2. Shape(x) BY <1>1 DEF Shape, Works
<1>3. Len(x.experiments) \in Positions(x)
  <2>1. Len(d.experiments) + 1 \in 1..(Len(d.experiments) + 1) BY <1>1
  <2> QED BY <1>1, <2>1 DEF Positions
<1>4. Sound(d, x)
  <2>1. Extends(d, x) BY <1>0, <1>1 DEF Extends, Positions
  <2>2. RecordsExist(x) BY DEF Works, Base, RecordsExist
  <2>3. Recommends(d, x) BY <1>1, <1>3 DEF Works, Recommends
  <2>4. Applies(d, x) /\ Revises(d, x) BY DEF Works, Applies, Revises
  <2> QED BY <1>2, <2>1, <2>2, <2>3, <2>4 DEF Sound
<1>5. ReferencesExist(x)
  <2>0. Positions(x) = 1..(Len(d.experiments) + 1) BY <1>1 DEF Positions
  <2>1. \A i \in Positions(x) : i \in Positions(d) \/ i = Len(x.experiments)
    BY <1>1, <2>0 DEF Positions
  <2>2. \A i \in Positions(d) : i \in Positions(x) /\ x.experiments[i] = d.experiments[i]
    BY <1>1, <2>0 DEF Positions
  <2>3. \A i \in Positions(x) : Refers(x, x.experiments[i])
    <3>1. \A i \in Positions(d) : Refers(d, d.experiments[i])
      BY DEF Base, ReferencesExist, Refers
    <3>2. \A i \in Positions(d) : Refers(x, d.experiments[i])
      BY <3>1, <1>0 DEF Refers, Optional
    <3> QED BY <1>0, <1>1, <2>1, <2>2, <3>2
  <2>4. \A s \in x.states : Optional(s.parent, x.states)
    BY DEF Works, Base, ReferencesExist, Optional
  <2>5. \A g \in x.goals : g.anchor \in x.states /\ Optional(g.parent, x.goals)
    BY DEF Works, Base, ReferencesExist
  <2>6. \A r \in x.decisions : r.experiment \in Positions(x) /\ r.state \in x.states
    BY <1>3, <2>2 DEF Works, Base, ReferencesExist
  <2>7. /\ Optional(x.recommended, x.states)
        /\ Optional(x.applied, x.states)
        /\ Optional(x.active, x.goals)
    BY DEF Works, Base, ReferencesExist, Optional
  <2> QED BY <2>3, <2>4, <2>5, <2>6, <2>7 DEF Works, ReferencesExist, Refers
<1> QED BY <1>4, <1>5

\* edit_saved_case, of a state of the document under its active goal.
LEMMA EditSavedCaseSound ==
  ASSUME NEW d, Base(d), NEW s \in d.states, NEW i, NEW l,
         NEW x \in EditSavedCase(d, s, d.active, i, l)
  PROVE  Sound(d, x) /\ ReferencesExist(x)
<1>1. PICK solved \in BOOLEAN :
        LET node == StateNode(s, i, solved, l)
            e == Experiment("counterfactual", s, d.active, {node},
                            IF solved THEN "completed" ELSE "solve_failed")
            y == AddExperiment(AddState(d, node), e)
        IN  x = [y EXCEPT !.inspected = node, !.recommended = node]
  BY DEF EditSavedCase
<1> DEFINE node == StateNode(s, i, solved, l)
           e == Experiment("counterfactual", s, d.active, {node},
                           IF solved THEN "completed" ELSE "solve_failed")
<1>2. node # None /\ node.parent = s BY RecordsAreNotNone DEF StateNode
<1>3. /\ e.kind = "counterfactual" /\ e.start = s /\ e.goal = d.active
      /\ e.results = {node} /\ e.refers = {node} /\ e.accepted = {}
  BY DEF Experiment, Record
<1> HIDE DEF node, e
<1>4. x = [AddExperiment(AddState(d, node), e) EXCEPT !.inspected = node, !.recommended = node]
  BY <1>1 DEF node, e
<1>5. /\ x = [f \in Fields |-> x[f]]
      /\ x.experiments = Append(d.experiments, e)
      /\ x.states = d.states \cup {node}
      /\ x.inspected = node /\ x.recommended = node
      /\ x.goals = d.goals /\ x.active = d.active /\ x.applied = d.applied
      /\ x.decisions = d.decisions
  BY <1>4 DEF Base, Shape, AddExperiment, AddState, Fields
<1>6. Refers(x, e)
  BY <1>3, <1>5 DEF Refers, Optional, Base, RecordsExist, ReferencesExist
<1>7. /\ \A n \in {node} : n # None /\ Optional(n.parent, x.states)
      /\ Optional(x.inspected, x.states)
      /\ \A r \in x.decisions \ d.decisions :
           r.experiment = Len(x.experiments) /\ r.state \in x.states
      /\ d.decisions \subseteq x.decisions
      /\ e.kind \in {"planning", "counterfactual"}
      /\ x.recommended \in e.results \cap x.states
  BY <1>2, <1>3, <1>5 DEF Optional
<1>8. Works(d, x, e, {node}) BY <1>3, <1>5, <1>6, <1>7 DEF Works
<1> QED BY <1>8, WorkSound

\* counterfactual with constrain_to_goal, under the active goal.
LEMMA EditWithinGoalSound ==
  ASSUME NEW d, Base(d), NEW s \in d.states, NEW i,
         NEW x \in EditWithinGoal(d, s, d.active, i)
  PROVE  Sound(d, x) /\ ReferencesExist(x)
<1> DEFINE node == StateNode(s, i, TRUE, <<"edit">>)
           failure == Experiment("counterfactual", s, d.active, {}, "failed")
           success(p) == Experiment("counterfactual", s, d.active, {node},
                           IF p THEN "completed" ELSE "demand_total_incomplete")
           y(p) == [AddExperiment(AddState(d, node), success(p)) EXCEPT
                      !.inspected = node, !.recommended = IF p THEN node ELSE None]
<1>1. node # None /\ node.parent = s BY RecordsAreNotNone DEF StateNode
<1>2. /\ failure.kind = "counterfactual" /\ failure.start = s /\ failure.goal = d.active
      /\ failure.results = {} /\ failure.refers = {} /\ failure.accepted = {}
  BY DEF Experiment, Record
<1>3. \A p \in BOOLEAN :
        /\ success(p).kind = "counterfactual" /\ success(p).start = s
        /\ success(p).goal = d.active
        /\ success(p).results = {node} /\ success(p).refers = {node}
        /\ success(p).accepted = {}
  BY DEF Experiment, Record
<1>4. \/ x = [AddExperiment(d, failure) EXCEPT !.recommended = None]
      \/ x = AddDecision(y(TRUE), Decision(Len(y(TRUE).experiments), node, "recommend"))
      \/ x = y(FALSE)
  BY DEF EditWithinGoal
<1> HIDE DEF node, failure, success
<1>5. CASE x = [AddExperiment(d, failure) EXCEPT !.recommended = None]
  <2>1. /\ x = [f \in Fields |-> x[f]]
        /\ x.experiments = Append(d.experiments, failure)
        /\ x.states = d.states
        /\ x.inspected = d.inspected /\ x.recommended = None
        /\ x.goals = d.goals /\ x.active = d.active /\ x.applied = d.applied
        /\ x.decisions = d.decisions
    BY <1>5 DEF Base, Shape, AddExperiment, Fields
  <2>2. Refers(x, failure)
    BY <1>2, <2>1 DEF Refers, Optional, Base, RecordsExist, ReferencesExist
  <2>3. x.states = d.states \cup {} BY <2>1
  <2>4. /\ Optional(x.inspected, x.states)
        /\ \A r \in x.decisions \ d.decisions :
             r.experiment = Len(x.experiments) /\ r.state \in x.states
        /\ d.decisions \subseteq x.decisions
        /\ x.recommended \in {None, d.recommended}
        /\ \A n \in {} : n # None /\ Optional(n.parent, x.states)
    BY <2>1 DEF Base, ReferencesExist
  <2>5. Works(d, x, failure, {}) BY <2>1, <2>2, <2>3, <2>4 DEF Works
  <2> QED BY <2>5, WorkSound
<1>6. \A p \in BOOLEAN :
        /\ y(p) = [f \in Fields |-> y(p)[f]]
        /\ y(p).experiments = Append(d.experiments, success(p))
        /\ y(p).states = d.states \cup {node}
        /\ y(p).inspected = node
        /\ y(p).recommended = IF p THEN node ELSE None
        /\ y(p).goals = d.goals /\ y(p).active = d.active /\ y(p).applied = d.applied
        /\ y(p).decisions = d.decisions
  <2> TAKE p \in BOOLEAN
  <2> DEFINE n == IF p THEN node ELSE None
             e == success(p)
             z == [d EXCEPT !.states = @ \cup {node}]
             w == [z EXCEPT !.experiments = Append(@, e)]
  <2>1. y(p) = [w EXCEPT !.inspected = node, !.recommended = n]
    BY DEF AddExperiment, AddState
  <2> HIDE DEF n, e, y
  <2>2. /\ w = [f \in Fields |-> w[f]]
        /\ w.experiments = Append(d.experiments, e)
        /\ w.states = d.states \cup {node}
        /\ w.goals = d.goals /\ w.active = d.active /\ w.applied = d.applied
        /\ w.decisions = d.decisions
    BY DEF Base, Shape, Fields
  <2> HIDE DEF w
  <2>3. /\ y(p) = [f \in Fields |-> y(p)[f]]
        /\ y(p).experiments = Append(d.experiments, e)
        /\ y(p).states = d.states \cup {node}
        /\ y(p).inspected = node
        /\ y(p).recommended = n
        /\ y(p).goals = d.goals /\ y(p).active = d.active /\ y(p).applied = d.applied
        /\ y(p).decisions = d.decisions
    BY <2>1, <2>2 DEF Fields
  <2> QED BY <2>3 DEF n, e
<1> HIDE DEF y
<1>7. CASE x = AddDecision(y(TRUE), Decision(Len(y(TRUE).experiments), node, "recommend"))
  <2> DEFINE r == Decision(Len(y(TRUE).experiments), node, "recommend")
  <2>1. r.experiment = Len(y(TRUE).experiments) /\ r.state = node BY DEF Decision
  <2> HIDE DEF r
  <2>2. x = [y(TRUE) EXCEPT !.decisions = @ \cup {r}] BY <1>7 DEF AddDecision, r
  <2>3. /\ x = [f \in Fields |-> x[f]]
        /\ x.experiments = Append(d.experiments, success(TRUE))
        /\ x.states = d.states \cup {node}
        /\ x.inspected = node /\ x.recommended = node
        /\ x.goals = d.goals /\ x.active = d.active /\ x.applied = d.applied
        /\ x.decisions = d.decisions \cup {r}
        /\ r.experiment = Len(x.experiments)
    BY <1>6, <2>1, <2>2 DEF Fields
  <2>4. Refers(x, success(TRUE))
    BY <1>3, <2>3 DEF Refers, Optional, Base, RecordsExist, ReferencesExist
  <2>5. /\ success(TRUE).kind \in {"planning", "counterfactual"}
        /\ success(TRUE).goal = d.active
        /\ x.recommended \in success(TRUE).results \cap x.states
    BY <1>3, <2>3
  <2>6. Works(d, x, success(TRUE), {node})
    BY <1>1, <2>1, <2>3, <2>4, <2>5 DEF Works, Optional
  <2> QED BY <2>6, WorkSound
<1>8. CASE x = y(FALSE)
  <2>1. /\ x = [f \in Fields |-> x[f]]
        /\ x.experiments = Append(d.experiments, success(FALSE))
        /\ x.states = d.states \cup {node}
        /\ x.inspected = node /\ x.recommended = None
        /\ x.goals = d.goals /\ x.active = d.active /\ x.applied = d.applied
        /\ x.decisions = d.decisions
    BY <1>6, <1>8
  <2>2. Refers(x, success(FALSE))
    BY <1>3, <2>1 DEF Refers, Optional, Base, RecordsExist, ReferencesExist
  <2>3. Works(d, x, success(FALSE), {node}) BY <1>1, <2>1, <2>2 DEF Works, Optional
  <2> QED BY <2>3, WorkSound
<1> QED BY <1>4, <1>5, <1>7, <1>8

\* EditDemand and RestoreBase.
LEMMA EditSound ==
  ASSUME NEW d, Base(d), NEW s, NEW g, NEW b, NEW i,
         NEW x \in EditDemand(d, s, g, b, i) \cup RestoreBase(d, s, g)
  PROVE  Sound(d, x) /\ ReferencesExist(x)
<1>1. /\ s \in d.states /\ g = d.active
      /\ \/ x \in EditSavedCase(d, s, g, i, <<"edit">>)
         \/ x \in EditSavedCase(d, s, g, BaseInput, <<"base">>)
         \/ x \in EditWithinGoal(d, s, g, i)
  BY DEF EditDemand, RestoreBase
<1> QED BY <1>1, EditSavedCaseSound, EditWithinGoalSound

\* A nonempty set of numbers has a least one.
LEMMA Least ==
  ASSUME NEW T, T \subseteq Nat, T # {}
  PROVE  \E m \in T : \A k \in T : m <= k
<1> DEFINE R == OpToRel(<, Nat)
<1>1. IsWellFoundedOn(R, Nat) BY NatLessThanWellFounded
<1>2. \A a, b \in Nat : a < b => <<a, b>> \in R BY DEF OpToRel
<1> HIDE DEF R
<1>3. PICK m \in T : \A k \in T : ~(<<k, m>> \in R) BY <1>1, WFMin
<1>4. ASSUME NEW k \in T PROVE m <= k
  <2>1. k \in Nat /\ m \in Nat OBVIOUS
  <2>2. ~(k < m) BY <1>2, <1>3, <2>1
  <2> QED BY <2>1, <2>2
<1> QED BY <1>4

\* What trial_states holds for trial i, when the states of the trials before it
\* are those of st.
TrialState(st, s, t, i) ==
  IF t[i].input = None THEN None
  ELSE StateNode(IF t[i].parent \in 1..(i - 1) THEN st[t[i].parent] ELSE s,
                 t[i].input, TRUE, <<"trial", i>>)

StatesUpTo(st, s, t, n) == st = [i \in 1..n |-> TrialState(st, s, t, i)]

\* The loop of propose_async has a result: the states of n trials and what the
\* loop adds for one more are the states of n + 1 trials, so no number of trials
\* is the least one without.
LEMMA TrialStatesExist ==
  ASSUME NEW s, NEW t
  PROVE  \A n \in Nat : \E st : StatesUpTo(st, s, t, n)
<1> DEFINE T == {n \in Nat : ~\E st : StatesUpTo(st, s, t, n)}
<1> SUFFICES ASSUME T # {} PROVE FALSE OBVIOUS
<1>1. PICK m \in T : \A k \in T : m <= k
  <2>1. T \subseteq Nat OBVIOUS
  <2> HIDE DEF T
  <2> QED BY <2>1, Least
<1>2. m \in Nat /\ ~\E st : StatesUpTo(st, s, t, m) OBVIOUS
<1>3. m # 0
  <2>1. StatesUpTo([i \in 1..0 |-> None], s, t, 0) BY DEF StatesUpTo
  <2> QED BY <1>2, <2>1
<1>4. m - 1 \in Nat /\ m - 1 \notin T BY <1>1, <1>2, <1>3
<1>5. PICK st : StatesUpTo(st, s, t, m - 1) BY <1>4
<1> DEFINE su == [i \in 1..m |-> TrialState(st, s, t, i)]
<1> HIDE DEF T
<1>6. \A i \in 1..(m - 1) : su[i] = st[i]
  <2> TAKE i \in 1..(m - 1)
  <2>1. i \in 1..m BY <1>2
  <2>2. st[i] = TrialState(st, s, t, i) BY <1>5 DEF StatesUpTo
  <2> QED BY <2>1, <2>2
<1>7. \A i \in 1..m : TrialState(su, s, t, i) = TrialState(st, s, t, i)
  <2> TAKE i \in 1..m
  <2>1. t[i].parent \in 1..(i - 1) => t[i].parent \in 1..(m - 1) BY <1>2
  <2>2. t[i].parent \in 1..(i - 1) => su[t[i].parent] = st[t[i].parent] BY <1>6, <2>1
  <2> HIDE DEF su
  <2> QED BY <2>2 DEF TrialState
<1>8. su = [i \in 1..m |-> TrialState(su, s, t, i)] BY <1>7
<1> QED BY <1>2, <1>8 DEF StatesUpTo

\* trial_states, entry by entry.
LEMMA TrialStatesEntries ==
  ASSUME NEW s, NEW t, NEW n \in Nat, DOMAIN t = 1..n
  PROVE  \A i \in 1..n : TrialStates(s, t)[i] = TrialState(TrialStates(s, t), s, t, i)
<1> DEFINE st == TrialStates(s, t)
<1>1. st = CHOOSE f : f = [i \in DOMAIN t |-> TrialState(f, s, t, i)]
  BY DEF TrialStates, TrialState
<1>2. st = CHOOSE f : StatesUpTo(f, s, t, n) BY <1>1 DEF StatesUpTo
<1> HIDE DEF st
<1>3. StatesUpTo(st, s, t, n) BY <1>2, TrialStatesExist
<1>4. \A i \in 1..n : st[i] = TrialState(st, s, t, i) BY <1>3 DEF StatesUpTo
<1> QED BY <1>4 DEF st

\* The loop that overwrites `recommendation` ends with an accepted trial.
LEMMA LastAcceptedExists ==
  ASSUME NEW t, NEW n \in Nat, DOMAIN t = 1..n, AcceptedTrials(t) # {}
  PROVE  LastAccepted(t) \in AcceptedTrials(t)
<1> DEFINE A == AcceptedTrials(t)
           U == {b \in Nat : \A j \in A : j <= b}
<1>1. A # {} /\ A \subseteq 1..n BY DEF AcceptedTrials
<1> HIDE DEF A
<1>2. n \in U BY <1>1
<1>3. PICK b \in U : \A k \in U : b <= k
  <2>1. U \subseteq Nat OBVIOUS
  <2> HIDE DEF U
  <2> QED BY <1>2, <2>1, Least
<1>4. b \in Nat /\ \A j \in A : j \in Nat /\ 1 <= j /\ j <= b BY <1>1
<1>5. b \in A
  <2> SUFFICES ASSUME b \notin A PROVE FALSE OBVIOUS
  <2>1. PICK j \in A : TRUE BY <1>1
  <2>2. b - 1 \in Nat BY <1>4, <2>1
  <2>3. \A k \in A : k <= b - 1
    <3> TAKE k \in A
    <3>1. k \in Nat /\ k <= b /\ k # b /\ b \in Nat BY <1>4
    <3> QED BY <3>1
  <2>4. b - 1 \in U BY <2>2, <2>3
  <2>5. b <= b - 1 BY <1>3, <2>4
  <2> QED BY <1>4, <2>5
<1>6. \E i \in A : \A j \in A : j <= i BY <1>4, <1>5
<1> QED BY <1>6 DEF LastAccepted, A

\* What a search may leave behind: a saved trial descends from the start or from
\* another saved trial, accepted trials are saved, and the recommendation is a
\* result.
LEMMA OutcomeFacts ==
  ASSUME NEW s, s # None, NEW o \in Outcomes
  PROVE  LET states == TrialStates(s, o.trials)
             N == Saved(o, states)
             A == AcceptedTrials(o.trials)
             node == RecommendedBy(s, o, states)
         IN  /\ \A m \in N : m # None /\ m.parent \in N \cup {s}
             /\ \A i \in A : states[i] \in N
             /\ node # None => (A # {} /\ node \in N) \/ (A = {} /\ o.start /\ node = s)
<1> DEFINE t == o.trials
           st == TrialStates(s, t)
           N == Saved(o, st)
           A == AcceptedTrials(t)
           node == RecommendedBy(s, o, st)
<1>1. t \in Searches BY DEF Outcomes
<1>2. PICK n \in 0..MaxTrials : t \in [1..n -> Trials] BY <1>1 DEF Searches
<1>3. n \in Nat /\ DOMAIN t = 1..n /\ InSearchOrder(t)
  BY <1>1, <1>2, DocumentAssumption DEF Searches
<1>4. \A i \in 1..n :
        /\ t[i].parent \in {0} \cup {j \in 1..(i - 1) : t[j].accepted}
        /\ t[i].accepted => t[i].input # None
  BY <1>3 DEF InSearchOrder
<1>5. \A i \in 1..n : st[i] = TrialState(st, s, t, i) BY <1>3, TrialStatesEntries
<1>6. N = {st[i] : i \in 1..n} \ {None} BY <1>3 DEF Saved
<1>7. A = {i \in 1..n : t[i].accepted} BY <1>3 DEF AcceptedTrials
<1>8. node = IF A # {} THEN st[LastAccepted(t)] ELSE IF o.start THEN s ELSE None
  BY DEF RecommendedBy
<1>9. A # {} => LastAccepted(t) \in A BY <1>3, LastAcceptedExists
<1> HIDE DEF t, st, N, A, node
<1>10. \A i \in 1..n : t[i].input # None => st[i] # None BY <1>5, RecordsAreNotNone DEF TrialState
<1>11. \A i \in A : st[i] \in N BY <1>4, <1>6, <1>7, <1>10
<1>12. ASSUME NEW m \in N PROVE m # None /\ m.parent \in N \cup {s}
  <2>1. PICK i \in 1..n : m = st[i] /\ m # None BY <1>6
  <2>2. m.parent = IF t[i].parent \in 1..(i - 1) THEN st[t[i].parent] ELSE s
    <3> DEFINE q == IF t[i].parent \in 1..(i - 1) THEN st[t[i].parent] ELSE s
    <3>1. m = StateNode(q, t[i].input, TRUE, <<"trial", i>>)
      BY <1>5, <2>1 DEF TrialState
    <3> HIDE DEF q
    <3>2. m.parent = q BY <3>1 DEF StateNode
    <3> QED BY <3>2 DEF q
  <2>3. t[i].parent \in 1..(i - 1) => t[i].parent \in A
    <3>1. t[i].parent \in 1..(i - 1) =>
            t[i].parent \in 1..n /\ t[t[i].parent].accepted
      BY <1>3, <1>4
    <3> QED BY <1>7, <3>1
  <2> QED BY <1>11, <2>1, <2>2, <2>3
<1>13. node # None => (A # {} /\ node \in N) \/ (A = {} /\ o.start /\ node = s)
  BY <1>8, <1>9, <1>11
<1> QED BY <1>11, <1>12, <1>13 DEF t, st, N, A, node

\* propose.
LEMMA ProposeSound ==
  ASSUME NEW d, Base(d), NEW s, NEW g, NEW x \in Propose(d, s, g)
  PROVE  Sound(d, x) /\ ReferencesExist(x)
<1>1. s \in d.states /\ g = d.active /\ d.active # None BY DEF Propose
<1>2. PICK o \in Outcomes :
        LET states == TrialStates(s, o.trials)
            saved == Saved(o, states)
            node == RecommendedBy(s, o, states)
            results == saved \cup
              (IF AcceptedTrials(o.trials) = {} /\ o.start THEN {s} ELSE {})
            accepted == {states[i] : i \in AcceptedTrials(o.trials)}
            y == [d EXCEPT !.states = @ \cup saved]
            z == AddExperiment(y, Planning(s, g, results, accepted))
        IN  x = IF node = None THEN z
                ELSE [AddDecision(z, Decision(Len(z.experiments), node, "recommend"))
                        EXCEPT !.recommended = node]
  BY <1>1 DEF Propose
<1> DEFINE states == TrialStates(s, o.trials)
           A == AcceptedTrials(o.trials)
           N == Saved(o, states)
           node == RecommendedBy(s, o, states)
           results == N \cup (IF A = {} /\ o.start THEN {s} ELSE {})
           accepted == {states[i] : i \in A}
           e == Planning(s, g, results, accepted)
           z == AddExperiment([d EXCEPT !.states = @ \cup N], e)
           r == Decision(Len(z.experiments), node, "recommend")
<1>3. /\ \A n \in N : n # None /\ n.parent \in N \cup {s}
      /\ results \subseteq d.states \cup N
      /\ node # None => node \in results
      /\ None \notin accepted
  <2>1. s # None BY <1>1 DEF Base, RecordsExist
  <2>2. /\ \A m \in N : m # None /\ m.parent \in N \cup {s}
        /\ \A i \in A : states[i] \in N
        /\ node # None => (A # {} /\ node \in N) \/ (A = {} /\ o.start /\ node = s)
    BY <2>1, OutcomeFacts
  <2> HIDE DEF states, A, N, node
  <2> QED BY <1>1, <2>2
<1>4. /\ e.kind = "planning" /\ e.start = s /\ e.goal = d.active
      /\ e.results = results /\ e.refers = results /\ e.accepted = accepted
  BY <1>1 DEF Planning, Record
<1>5. r.experiment = Len(z.experiments) /\ r.state = node BY DEF Decision
<1>6. x = IF node = None THEN z ELSE [AddDecision(z, r) EXCEPT !.recommended = node]
  BY <1>2
<1> HIDE DEF states, A, N, node, results, accepted, e, r
<1>7. /\ z = [f \in Fields |-> z[f]]
      /\ z.experiments = Append(d.experiments, e)
      /\ z.states = d.states \cup N
      /\ z.inspected = d.inspected /\ z.recommended = d.recommended
      /\ z.goals = d.goals /\ z.active = d.active /\ z.applied = d.applied
      /\ z.decisions = d.decisions
  BY DEF Base, Shape, AddExperiment, Fields
<1> HIDE DEF z
<1>8. /\ x = [f \in Fields |-> x[f]]
      /\ x.experiments = Append(d.experiments, e)
      /\ x.states = d.states \cup N
      /\ x.inspected = d.inspected
      /\ x.goals = d.goals /\ x.active = d.active /\ x.applied = d.applied
      /\ \/ /\ x.recommended = d.recommended
            /\ x.decisions = d.decisions
         \/ /\ node # None
            /\ x.recommended = node
            /\ x.decisions = d.decisions \cup {r}
  <2>1. CASE node = None BY <2>1, <1>6, <1>7
  <2>2. CASE node # None BY <2>2, <1>6, <1>7 DEF AddDecision, Fields
  <2> QED BY <2>1, <2>2
<1>9. Refers(x, e)
  BY <1>1, <1>3, <1>4, <1>8 DEF Refers, Optional, Base, RecordsExist, ReferencesExist
<1>10. /\ \A n \in N : n # None /\ Optional(n.parent, x.states)
       /\ Optional(x.inspected, x.states)
  BY <1>1, <1>3, <1>8 DEF Optional, Base, ReferencesExist
<1>11. /\ d.decisions \subseteq x.decisions
       /\ \A q \in x.decisions \ d.decisions :
            q.experiment = Len(x.experiments) /\ q.state \in x.states
       /\ \/ x.recommended \in {None, d.recommended}
          \/ x.recommended \in e.results \cap x.states
  BY <1>3, <1>4, <1>5, <1>7, <1>8
<1>12. Works(d, x, e, N) BY <1>4, <1>8, <1>9, <1>10, <1>11 DEF Works
<1> QED BY <1>12, WorkSound

\* Apply.
LEMMA ApplySound ==
  ASSUME NEW d, Base(d), NEW p, NEW s, NEW g, NEW b, NEW x \in Apply(d, p, s, g, b),
         s \in d.states
  PROVE  Sound(d, x) /\ ReferencesExist(x)
<1> DEFINE r == Decision(p, s, "apply")
<1>1. /\ Binds(d, p, s, g, b)
      /\ x = [AddDecision(d, r) EXCEPT !.applied = s, !.inspected = s]
  BY DEF Apply
<1>2. r.experiment = p /\ r.state = s /\ r.choice = "apply" BY DEF Decision
<1> HIDE DEF r
<1>3. /\ x = [f \in Fields |-> x[f]]
      /\ x.decisions = d.decisions \cup {r} /\ x.applied = s /\ x.inspected = s
      /\ x.states = d.states /\ x.goals = d.goals /\ x.experiments = d.experiments
      /\ x.active = d.active /\ x.recommended = d.recommended
  BY <1>1 DEF Base, Shape, AddDecision, Fields
<1>4. p \in Positions(d) /\ s \in d.experiments[p].results BY <1>1 DEF Binds
<1>5. Shape(x) BY <1>3 DEF Base, Shape
<1>6. Applies(d, x) BY <1>2, <1>3, <1>4 DEF Applies
<1>7. Sound(d, x)
  BY <1>3, <1>5, <1>6, LengthIsNat DEF Base, Sound, RecordsExist, Extends, Recommends, Revises
<1>8. ReferencesExist(x)
  <2>1. Positions(x) = Positions(d) BY <1>3 DEF Positions
  <2>2. ReferencesExist(d) BY DEF Base
  <2>3. \A q \in x.decisions : q.experiment \in Positions(x) /\ q.state \in x.states
    BY <1>2, <1>3, <1>4, <2>1, <2>2 DEF ReferencesExist
  <2>4. Optional(x.inspected, x.states) /\ Optional(x.applied, x.states)
    BY <1>3 DEF Optional
  <2> QED BY <1>3, <2>1, <2>2, <2>3, <2>4 DEF ReferencesExist
<1> QED BY <1>7, <1>8

------------------------------------------------------------------------------
(* The document under any sequence of operations. *)

\* create_study and import_journal leave a document that satisfies it all.
LEMMA InitInv == Init => Inv
<1>1. /\ Empty = [f \in Fields |-> Empty[f]]
      /\ Empty.states = {} /\ Empty.goals = {} /\ Empty.experiments = <<>>
      /\ Empty.decisions = {} /\ Empty.active = None /\ Empty.inspected = None
      /\ Empty.recommended = None /\ Empty.applied = None
  BY DEF Empty, Fields
<1>2. IsSequence(<<>>)
  <2>1. <<>> \in Seq({<<>>[i] : i \in DOMAIN <<>>}) BY EmptySeq
  <2> QED BY <2>1 DEF IsSequence
<1>3. Shape(Empty) BY <1>1, <1>2 DEF Shape
<1>4. Len(Empty.experiments) = 0 BY <1>1
<1>5. Base(Empty)
  <2>1. Positions(Empty) = {} BY <1>4 DEF Positions
  <2>2. ReferencesExist(Empty) BY <1>1, <2>1 DEF ReferencesExist, Optional
  <2> QED BY <1>1, <1>3, <2>2 DEF Base, RecordsExist
<1>6. ASSUME CreateStudy PROVE Inv
  <2>1. PICK input \in Inputs, solved \in BOOLEAN, request \in Requests \cup {None} :
          LET root == StateNode(None, input, solved \/ request # None, <<"start">>)
              goal == Goal(None, root, request)
              opened == [AddState(Empty, root) EXCEPT !.applied = root, !.inspected = root]
          IN  IF request = None THEN doc = opened
              ELSE \E planned \in ReviseGoal(opened, goal) :
                     doc = IF solved THEN planned
                           ELSE AddExperiment(planned,
                                  Experiment("counterfactual", root, goal, {}, "completed"))
    BY <1>6 DEF CreateStudy
  <2> DEFINE root == StateNode(None, input, solved \/ request # None, <<"start">>)
             goal == Goal(None, root, request)
             opened == [AddState(Empty, root) EXCEPT !.applied = root, !.inspected = root]
             e == Experiment("counterfactual", root, goal, {}, "completed")
  <2>2. root # None /\ root.parent = None /\ root.label = <<"start">>
    BY RecordsAreNotNone DEF StateNode
  <2>3. goal # None /\ goal.parent = None /\ goal.anchor = root
    BY RecordsAreNotNone DEF Goal
  <2>4. /\ e.kind = "counterfactual" /\ e.start = root /\ e.goal = goal
        /\ e.results = {} /\ e.refers = {} /\ e.accepted = {}
    BY DEF Experiment, Record
  <2>5. \/ doc = opened
        \/ \E planned \in ReviseGoal(opened, goal) :
             doc \in {planned, AddExperiment(planned, e)}
    BY <2>1
  <2> HIDE DEF root, goal, e
  <2>6. /\ opened = [f \in Fields |-> opened[f]]
        /\ opened.states = {root} /\ opened.goals = {} /\ opened.experiments = <<>>
        /\ opened.decisions = {} /\ opened.active = None /\ opened.inspected = root
        /\ opened.recommended = None /\ opened.applied = root
    BY <1>1 DEF AddState, Fields
  <2> HIDE DEF opened
  <2>7. Base(opened)
    <3>1. Shape(opened) BY <1>2, <2>6 DEF Shape
    <3>2. Positions(opened) = {} BY <2>6 DEF Positions
    <3> QED BY <2>2, <2>6, <3>1, <3>2 DEF Base, RecordsExist, ReferencesExist, Optional
  <2>8. CASE doc = opened
    BY <2>2, <2>6, <2>7, <2>8
    DEF Inv, Base, RecommendationMatchesGoal, AppliedIsDecided, GoalsFormALine, ActiveIsLast
  <2>9. CASE \E planned \in ReviseGoal(opened, goal) :
               doc \in {planned, AddExperiment(planned, e)}
    <3>1. PICK planned \in ReviseGoal(opened, goal) :
            doc \in {planned, AddExperiment(planned, e)}
      BY <2>9
    <3>2. Sound(opened, planned) /\ ReferencesExist(planned)
      BY <2>3, <2>7, ReviseGoalSound
    <3>3. planned = [opened EXCEPT !.goals = @ \cup {goal}, !.active = goal, !.recommended = None]
      BY DEF ReviseGoal
    <3>4. /\ planned.states = {root} /\ planned.goals = {goal} /\ planned.active = goal
          /\ planned.recommended = None /\ planned.applied = root
      BY <2>6, <3>3 DEF Fields
    <3>5. Base(planned) BY <3>2 DEF Base, Sound
    <3>6. Base(doc) /\ \A f \in Fields \ {"experiments"} : doc[f] = planned[f]
      <4>1. CASE doc = planned BY <4>1, <3>5
      <4>2. CASE doc = AddExperiment(planned, e)
        <5>1. Refers(planned, e) BY <2>2, <2>3, <2>4, <3>4 DEF Refers, Optional
        <5>2. Sound(planned, doc) /\ ReferencesExist(doc)
          BY <4>2, <3>5, <5>1, AddExperimentSound
        <5>3. \A f \in Fields \ {"experiments"} : doc[f] = planned[f]
          BY <4>2, <3>5, AddExperimentFields DEF Base
        <5> QED BY <5>2, <5>3 DEF Sound, Base
      <4> QED BY <3>1, <4>1, <4>2
    <3>7. /\ doc.goals = {goal} /\ doc.active = goal
          /\ doc.recommended = None /\ doc.applied = root
      BY <3>4, <3>6 DEF Fields
    <3>8. goal.parent # goal BY <2>3
    <3> QED BY <2>2, <3>6, <3>7, <3>8
      DEF Inv, Base, RecommendationMatchesGoal, AppliedIsDecided, GoalsFormALine, ActiveIsLast
  <2> QED BY <2>5, <2>8, <2>9
<1>7. ASSUME ImportJournal PROVE Inv
  <2> DEFINE e == Experiment("historical_import", None, None, {}, "historical_evidence_only")
  <2>1. doc = AddExperiment(Empty, e) BY <1>7 DEF ImportJournal
  <2>2. Refers(Empty, e) BY DEF Experiment, Record, Refers, Optional
  <2> HIDE DEF e
  <2>3. Sound(Empty, doc) /\ ReferencesExist(doc)
    BY <2>1, <2>2, <1>5, AddExperimentSound
  <2>4. \A f \in Fields \ {"experiments"} : doc[f] = Empty[f]
    BY <2>1, <1>3, AddExperimentFields
  <2>5. doc.goals = {} /\ doc.recommended = None /\ doc.applied = None
    BY <1>1, <2>4 DEF Fields
  <2> QED BY <2>3, <2>5
    DEF Inv, Sound, RecommendationMatchesGoal, AppliedIsDecided, GoalsFormALine, ActiveIsLast
<1> QED BY <1>6, <1>7 DEF Init

\* Every operation keeps the invariant and the history.
LEMMA NextInv ==
  ASSUME Inv, Next
  PROVE  Inv' /\ Extends(doc, doc')
<1>1. Base(doc) BY DEF Inv, Base
<1>2. CASE Inspecting BY <1>1, <1>2, InspectStateSound, SoundStep DEF Inspecting
<1>3. CASE Branching BY <1>1, <1>3, BranchSound, SoundStep DEF Branching
<1>4. CASE RevisingGoal
  BY <1>1, <1>4, ReviseGoalSound, RecordsAreNotNone, SoundStep DEF RevisingGoal
<1>5. CASE Comparing BY <1>1, <1>5, CompareSound, SoundStep DEF Comparing
<1>6. CASE Recording BY <1>1, <1>6, RecordEvidenceSound, SoundStep DEF Recording
<1>7. CASE EditingDemand BY <1>1, <1>7, EditSound, SoundStep DEF EditingDemand
<1>8. CASE RestoringBase BY <1>1, <1>8, EditSound, SoundStep DEF RestoringBase
<1>9. CASE Proposing BY <1>1, <1>9, ProposeSound, SoundStep DEF Proposing
<1>10. CASE Applying BY <1>1, <1>10, ApplySound, SoundStep DEF Applying
<1> QED
  BY <1>2, <1>3, <1>4, <1>5, <1>6, <1>7, <1>8, <1>9, <1>10 DEF Next

\* The invariant holds in every document the operations can reach.
THEOREM Invariance == Spec => []Inv
<1>1. Inv /\ UNCHANGED doc => Inv'
  <2> SUFFICES ASSUME Inv, doc' = doc PROVE Inv' OBVIOUS
  <2>1. (Shape(doc) /\ RecordsExist(doc) /\ ActiveIsLast(doc))'
    BY DEF Inv, Shape, RecordsExist, ActiveIsLast
  <2>2. ReferencesExist(doc)' BY DEF Inv
  <2>3. RecommendationMatchesGoal' BY DEF Inv, RecommendationMatchesGoal, Positions
  <2>4. (AppliedIsDecided /\ GoalsFormALine)' BY DEF Inv, AppliedIsDecided, GoalsFormALine
  <2> QED BY <2>1, <2>2, <2>3, <2>4 DEF Inv
<1> QED BY InitInv, NextInv, <1>1, PTL DEF Spec

\* RecommendationMatchesGoal: the recommendation is a result of an experiment
\* under the goal that is active now (revise_goal clears it).
THEOREM RecommendationIsForTheGoal == Spec => []RecommendationMatchesGoal
<1>1. Inv => RecommendationMatchesGoal BY DEF Inv
<1> QED BY Invariance, <1>1, PTL

\* AppliedIsDecided: only an Apply, recorded as a decision on the experiment
\* that produced the state, changes the applied state.
THEOREM ApplyIsRecorded == Spec => []AppliedIsDecided
<1>1. Inv => AppliedIsDecided BY DEF Inv
<1> QED BY Invariance, <1>1, PTL

\* GoalsFormALine: a goal is revised at most once.
THEOREM GoalsAreALine == Spec => []GoalsFormALine
<1>1. Inv => GoalsFormALine BY DEF Inv
<1> QED BY Invariance, <1>1, PTL

\* WorkIsKept: validate finds every reference of what an operation produced, so
\* no finished solve is refused for a reason other than the limits.
THEOREM ValidateKeepsWork == Spec => []WorkIsKept
<1>1. Inv => WorkIsKept
  <2> SUFFICES ASSUME Inv PROVE WorkIsKept OBVIOUS
  <2>1. Base(doc) BY DEF Inv, Base
  <2> QED BY <2>1, BranchSound, EditSound, ProposeSound, CompareSound, ApplySound
    DEF WorkIsKept
<1> QED BY Invariance, <1>1, PTL

\* HistoryGrows: an operation adds to the states, goals, experiments and
\* decisions and takes nothing away.
THEOREM HistoryIsKept == Spec => HistoryGrows
<1> DEFINE A == /\ doc.states \subseteq doc'.states
                /\ doc.goals \subseteq doc'.goals
                /\ doc.decisions \subseteq doc'.decisions
                /\ Len(doc.experiments) <= Len(doc'.experiments)
                /\ SubSeq(doc'.experiments, 1, Len(doc.experiments)) = doc.experiments
<1>1. ASSUME Inv, Inv', Next PROVE A
  <2>1. Extends(doc, doc') BY <1>1, NextInv
  <2> DEFINE s == doc.experiments
             t == doc'.experiments
             S == {s[i] : i \in DOMAIN s}
             T == {t[i] : i \in DOMAIN t}
  <2>2. s \in Seq(S) /\ t \in Seq(T) BY <1>1 DEF Inv, Shape, IsSequence
  <2>3. Len(s) <= Len(t) /\ \A i \in 1..Len(s) : t[i] = s[i]
    BY <2>1 DEF Extends, Positions
  <2> HIDE DEF s, t, S, T
  <2>4. Len(s) \in Nat /\ Len(t) \in Nat /\ s = [i \in 1..Len(s) |-> s[i]]
    <3>1. Len(s) \in Nat /\ s \in [1..Len(s) -> S] BY <2>2, LenProperties
    <3>2. Len(t) \in Nat BY <2>2, LenProperties
    <3> QED BY <3>1, <3>2
  <2>5. SubSeq(t, 1, Len(s)) = s
    <3>1. SubSeq(t, 1, Len(s)) = [i \in 1..Len(s) |-> t[i]]
      BY <2>2, <2>3, <2>4
    <3> QED BY <2>3, <2>4, <3>1
  <2> QED BY <2>1, <2>5 DEF Extends, s, t
<1>2. Inv /\ Inv' /\ [Next]_doc => [A]_doc BY <1>1
<1>3. [][A]_doc => HistoryGrows BY DEF HistoryGrows
<1> QED BY Invariance, <1>2, <1>3, PTL DEF Spec, HistoryGrows
==============================================================================
