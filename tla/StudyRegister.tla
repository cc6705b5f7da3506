---------------------------- MODULE StudyRegister ----------------------------
(***************************************************************************)
(* What a Study store promises, whatever it is made of: one saved Study,   *)
(* advanced one revision at a time, from which nothing that was reported   *)
(* as saved ever disappears.                                               *)
(*                                                                         *)
(* A bundle is abstracted to the identity of its Study, its revision and   *)
(* the set of operations whose effects it holds.  FileStudyStore (files    *)
(* and a lock) and StudyTabs (IndexedDB and browser tabs) implement this   *)
(* specification.                                                          *)
(***************************************************************************)
EXTENDS Naturals

CONSTANT Ops,        \* identities of operations (and of the Studies they create)
         NoBundle    \* the store holds no Study yet

Bundles == [study : Ops, revision : Nat, ops : SUBSET Ops]

\* b is nothing, or c is a later version of the same Study that still holds
\* every operation b holds.
Kept(b, c) ==
  \/ b = NoBundle
  \/ /\ b # NoBundle
     /\ c # NoBundle
     /\ c.study = b.study
     /\ b.revision <= c.revision
     /\ b.ops \subseteq c.ops

\* One completed operation on bundle b: StudyBundle::transaction.
Advance(b, op) ==
  [study |-> b.study, revision |-> b.revision + 1, ops |-> b.ops \cup {op}]

VARIABLES
  current,     \* the saved bundle, or NoBundle
  confirmed    \* the bundles whose save was reported as successful

vars == <<current, confirmed>>

Init == current = NoBundle /\ confirmed = {}

\* The first save at a destination that holds no Study.
Create ==
  /\ current = NoBundle
  /\ current' \in Bundles
  /\ UNCHANGED confirmed

\* A revision-checked save: exactly one operation on top of the current bundle.
Commit ==
  /\ current # NoBundle
  /\ \E op \in Ops : current' = Advance(current, op)
  /\ UNCHANGED confirmed

\* A successful save is reported; what it saved is still there.
Confirm ==
  /\ confirmed \subseteq confirmed'
  /\ \A b \in confirmed' \ confirmed : b \in Bundles /\ Kept(b, current)
  /\ UNCHANGED current

\* The machine stops: unconfirmed saves may vanish, confirmed ones may not.
Lose ==
  /\ current' \in Bundles \cup {NoBundle}
  /\ Kept(current', current)
  /\ \A b \in confirmed : Kept(b, current')
  /\ UNCHANGED confirmed

Next == Create \/ Commit \/ Confirm \/ Lose

Spec == Init /\ [][Next]_vars
==============================================================================
