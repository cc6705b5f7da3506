------------------------ MODULE FileStudyStore_proofs ------------------------
(***************************************************************************)
(* Proofs about FileStudyStore, for any number of processes, any set of    *)
(* operations and any largest revision.                                    *)
(***************************************************************************)
EXTENDS FileStudyStore, TLAPS

\* A bundle keeps itself.
LEMMA KeptReflexive ==
  ASSUME NEW b \in Bundles \cup {NoBundle}
  PROVE  Kept(b, b)
BY DEF Kept, Register!Kept, Bundles, Register!Bundles

\* What a version keeps, its later versions keep.
LEMMA KeptTransitive ==
  ASSUME NEW a \in Bundles \cup {NoBundle},
         NEW b \in Bundles \cup {NoBundle},
         NEW c \in Bundles \cup {NoBundle},
         Kept(a, b), Kept(b, c)
  PROVE  Kept(a, c)
BY DEF Kept, Register!Kept, Bundles, Register!Bundles

\* One more operation (StudyBundle::transaction) keeps everything before it.
LEMMA AdvanceKeeps ==
  ASSUME NEW b \in Bundles, NEW op \in Ops
  PROVE  /\ Advance(b, op) \in Bundles
         /\ Advance(b, op).revision = b.revision + 1
         /\ Advance(b, op).ops = b.ops \cup {op}
         /\ Advance(b, op).study = b.study
         /\ Kept(b, Advance(b, op))
BY ConstantsAssumption DEF Kept, Register!Kept, Bundles, Register!Bundles, Advance, Register!Advance

\* The invariant holds before the first command.
LEMMA InitInv == Init => Inv
<1> SUFFICES ASSUME Init PROVE Inv
  OBVIOUS
<1>1. TypeOK
  BY DEF Init, TypeOK, Critical, Results
<1>2. LockHeld /\ CandidateOK /\ BaseIsPast /\ CandidateIsNext /\ CandidateIsSaved
  BY DEF Init, LockHeld, CandidateOK, BaseIsPast, CandidateIsNext, CandidateIsSaved, Critical
<1>3. PossibleIsPast
  BY KeptReflexive DEF Init, PossibleIsPast
<1>4. ReportedSavesSurvive
  BY DEF Init, ReportedSavesSurvive
<1>5. OperationIsFresh
  BY DEF Init, OperationIsFresh, Unsaved
<1> QED
  BY <1>1, <1>2, <1>3, <1>4, <1>5 DEF Inv

------------------------------------------------------------------------------
(* One lemma per action, one step per part of the invariant. *)

\* Both commands begin alike: process p, until now idle, prepares bundle c,
\* made from b with the unused operation op.
LEMMA BeginInv ==
  ASSUME NEW p \in Procs, NEW op \in Ops,
         NEW b \in Bundles \cup {NoBundle}, NEW c \in Bundles,
         c.revision <= MaxRevision,
         b = NoBundle \/ (b = file /\ c = Advance(b, op)),
         c.ops = (IF b = NoBundle THEN {op} ELSE b.ops \cup {op}),
         Inv, Begin(p, b, c, op)
  PROVE  Inv'
<1>1. TypeOK' /\ LockHeld' /\ CandidateOK'
  BY DEF Inv, TypeOK, LockHeld, CandidateOK, Begin, Critical, Results
<1>2. BaseIsPast'
  <2>1. Kept(file, file)
    BY KeptReflexive DEF Inv, TypeOK
  <2> QED
    BY <2>1 DEF Inv, TypeOK, BaseIsPast, Begin
<1>3. CandidateIsNext' /\ CandidateIsSaved'
  BY DEF Inv, TypeOK, CandidateIsNext, CandidateIsSaved, Begin
<1>4. PossibleIsPast' /\ ReportedSavesSurvive'
  BY DEF Inv, PossibleIsPast, ReportedSavesSurvive, Begin
<1>5. OperationIsFresh'
  <2>1. b # NoBundle => b.ops \subseteq used
    BY DEF Inv, PossibleIsPast, OperationIsFresh
  <2>2. cand'[p] = c /\ c # NoBundle /\ c.ops \subseteq used' /\ op \in c.ops
    BY <2>1, ConstantsAssumption DEF Inv, TypeOK, Begin
  <2>3. \A q \in Procs \ {p} : cand'[q] = cand[q] /\ (Unsaved(q)' => Unsaved(q))
    BY DEF Inv, TypeOK, Begin, Unsaved
  <2>4. op \notin used /\ used' = used \cup {op} /\ possible' = possible
    BY DEF Begin
  <2>5. \A d \in possible' : d # NoBundle => d.ops \subseteq used' /\ op \notin d.ops
    BY <2>4 DEF Inv, OperationIsFresh
  <2>6. \A q \in Procs : cand'[q] # NoBundle => cand'[q].ops \subseteq used'
    BY <2>2, <2>3, <2>4 DEF Inv, OperationIsFresh
  <2>7. ASSUME NEW q \in Procs \ {p}, Unsaved(q)'
        PROVE  /\ cand'[q] # NoBundle
               /\ \E o \in cand'[q].ops :
                    /\ \A d \in possible' : d # NoBundle => o \notin d.ops
                    /\ \A r \in Procs \ {q} : cand'[r] # NoBundle => o \notin cand'[r].ops
    <3>1. cand[q] # NoBundle /\ cand[q].ops \subseteq used
      BY <2>3, <2>7 DEF Inv, OperationIsFresh
    <3>2. PICK o \in cand[q].ops :
            /\ \A d \in possible : d # NoBundle => o \notin d.ops
            /\ \A r \in Procs \ {q} : cand[r] # NoBundle => o \notin cand[r].ops
      BY <2>3, <2>7 DEF Inv, OperationIsFresh
    <3>3. o # op /\ o \notin c.ops
      BY <2>4, <3>1, <3>2 DEF Inv, PossibleIsPast
    <3> QED
      BY <2>2, <2>3, <2>4, <3>1, <3>2, <3>3
  <2>8. \A q \in Procs \ {p} : cand'[q] # NoBundle => op \notin cand'[q].ops
    BY <2>3, <2>4 DEF Inv, OperationIsFresh
  <2> QED
    BY <2>2, <2>5, <2>6, <2>7, <2>8 DEF OperationIsFresh
<1> QED
  BY <1>1, <1>2, <1>3, <1>4, <1>5 DEF Inv

\* `study create` and `study import` start from no file.
LEMMA CreateOrImportInv ==
  ASSUME NEW p \in Procs, Inv, CreateOrImport(p)
  PROVE  Inv'
<1>1. PICK op \in Ops, r \in 0..MaxRevision :
        Begin(p, NoBundle, [study |-> op, revision |-> r, ops |-> {op}], op)
  BY DEF CreateOrImport
<1> DEFINE c == [study |-> op, revision |-> r, ops |-> {op}]
<1>2. c \in Bundles /\ c.revision <= MaxRevision /\ c.ops = {op}
  BY ConstantsAssumption DEF Bundles, Register!Bundles
<1>3. Begin(p, NoBundle, c, op)
  BY <1>1
<1> HIDE DEF c
<1> QED
  BY <1>2, <1>3, BeginInv

\* `study run` starts from the file it loaded.
LEMMA RunInv ==
  ASSUME NEW p \in Procs, Inv, Run(p)
  PROVE  Inv'
<1>1. PICK op \in Ops : Begin(p, file, Advance(file, op), op)
  BY DEF Run
<1>2. file \in Bundles /\ file.revision < MaxRevision
  BY DEF Inv, TypeOK, Run
<1>3. Advance(file, op).revision <= MaxRevision
  BY <1>2, AdvanceKeeps, ConstantsAssumption DEF Bundles, Register!Bundles
<1> QED
  BY <1>1, <1>2, <1>3, AdvanceKeeps, BeginInv, ConstantsAssumption

\* lock() creates the lock file or ends the command.
LEMMA LockInv ==
  ASSUME NEW p \in Procs, Inv, Lock(p)
  PROVE  Inv'
<1>1. TypeOK' /\ LockHeld' /\ CandidateOK'
  BY ConstantsAssumption DEF Inv, TypeOK, LockHeld, CandidateOK, Lock, CreateNew, Goto, Exit, Critical, Results
<1>2. BaseIsPast' /\ CandidateIsNext' /\ CandidateIsSaved'
  BY DEF Inv, TypeOK, BaseIsPast, CandidateIsNext, CandidateIsSaved, Lock, CreateNew, Goto, Exit, Critical
<1>3. PossibleIsPast' /\ ReportedSavesSurvive'
  BY DEF Inv, PossibleIsPast, ReportedSavesSurvive, Lock, CreateNew, Goto, Exit
<1>4. OperationIsFresh'
  BY DEF Inv, TypeOK, OperationIsFresh, Unsaved, Lock, CreateNew, Goto, Exit
<1> QED
  BY <1>1, <1>2, <1>3, <1>4 DEF Inv

\* The check under the lock turns equal revisions into an unchanged file.
LEMMA CheckInv ==
  ASSUME NEW p \in Procs, Inv, Check(p)
  PROVE  Inv'
<1>1. TypeOK' /\ LockHeld' /\ CandidateOK'
  BY DEF Inv, TypeOK, LockHeld, CandidateOK, Check, Goto, Return, Critical, Results
<1>2. BaseIsPast' /\ CandidateIsSaved'
  BY DEF Inv, TypeOK, BaseIsPast, CandidateIsSaved, Check, Goto, Return, Critical
<1>3. CandidateIsNext'
  <2> SUFFICES ASSUME NEW q \in Procs, pc'[q] \in {"open", "rename"}
               PROVE  file = NoBundle \/ \E op \in Ops : cand[q] = Advance(file, op)
    BY DEF CandidateIsNext, Check, Goto, Return
  <2>1. CASE q # p
    BY <2>1 DEF Inv, TypeOK, CandidateIsNext, Check, Goto, Return
  <2>2. CASE q = p
    <3>1. pc[p] = "check" /\ MayWrite(p)
      BY <2>2 DEF Inv, TypeOK, Check, Goto, Return
    <3> QED
      BY <2>2, <3>1 DEF Inv, BaseIsPast, MayWrite
  <2> QED
    BY <2>1, <2>2
<1>4. PossibleIsPast' /\ ReportedSavesSurvive'
  BY DEF Inv, PossibleIsPast, ReportedSavesSurvive, Check, Goto, Return
<1>5. OperationIsFresh'
  BY DEF Inv, TypeOK, OperationIsFresh, Unsaved, Check, Goto, Return
<1> QED
  BY <1>1, <1>2, <1>3, <1>4, <1>5 DEF Inv

\* Writing the temporary file touches nothing that is shared.
LEMMA WriteTemporaryInv ==
  ASSUME NEW p \in Procs, Inv, WriteTemporary(p)
  PROVE  Inv'
<1>1. TypeOK' /\ LockHeld' /\ CandidateOK'
  BY DEF Inv, TypeOK, LockHeld, CandidateOK, WriteTemporary, RemoveTemporary, Goto, Return, Critical, Results
<1>2. BaseIsPast' /\ CandidateIsNext' /\ CandidateIsSaved'
  BY DEF Inv, TypeOK, BaseIsPast, CandidateIsNext, CandidateIsSaved, WriteTemporary, RemoveTemporary, Goto, Return, Critical
<1>3. PossibleIsPast' /\ ReportedSavesSurvive'
  BY DEF Inv, PossibleIsPast, ReportedSavesSurvive, WriteTemporary, RemoveTemporary, Goto, Return
<1>4. OperationIsFresh'
  BY DEF Inv, TypeOK, OperationIsFresh, Unsaved, WriteTemporary, RemoveTemporary, Goto, Return
<1> QED
  BY <1>1, <1>2, <1>3, <1>4 DEF Inv

\* The rename publishes a bundle one operation ahead of the file.
LEMMA RenameInv ==
  ASSUME NEW p \in Procs, Inv, Rename(p)
  PROVE  Inv'
<1>1. pc[p] = "rename" /\ lock = p /\ cand[p] \in Bundles /\ result[p] = "none"
  BY DEF Inv, Rename, LockHeld, Critical, CandidateOK
<1>2. \A q \in Procs : pc[q] \in Critical => q = p
  BY <1>1 DEF Inv, LockHeld
<1>3. file # NoBundle => \E op \in Ops : cand[p] = Advance(file, op)
  BY <1>1 DEF Inv, CandidateIsNext
<1>4. Kept(file, cand[p])
  BY <1>3, AdvanceKeeps DEF Inv, TypeOK, Kept, Register!Kept
<1>5. CASE Return(p, "not_saved") /\ UNCHANGED <<file, possible>>
  <2>1. TypeOK' /\ LockHeld' /\ CandidateOK'
    BY <1>1, <1>5 DEF Inv, TypeOK, LockHeld, CandidateOK, Rename, RemoveTemporary, Return, Goto, Critical, Results
  <2>2. BaseIsPast' /\ CandidateIsNext' /\ CandidateIsSaved'
    BY <1>1, <1>5 DEF Inv, TypeOK, BaseIsPast, CandidateIsNext, CandidateIsSaved, Rename, Return, Goto, Critical
  <2>3. PossibleIsPast' /\ ReportedSavesSurvive'
    BY <1>5 DEF Inv, PossibleIsPast, ReportedSavesSurvive, Rename
  <2>4. OperationIsFresh'
    BY <1>1, <1>5 DEF Inv, TypeOK, OperationIsFresh, Unsaved, Rename, Return, Goto
  <2> QED
    BY <2>1, <2>2, <2>3, <2>4 DEF Inv
<1>6. CASE file' = cand[p] /\ possible' = possible \cup {cand[p]} /\ Goto(p, "sync") /\ UNCHANGED result
  <2>1. TypeOK'
    BY <1>1, <1>6 DEF Inv, TypeOK, CandidateOK, Rename, RemoveTemporary, Goto, Critical
  <2>2. LockHeld' /\ CandidateOK'
    BY <1>1, <1>6 DEF Inv, TypeOK, LockHeld, CandidateOK, Rename, Goto, Critical
  <2>3. BaseIsPast'
    <3> SUFFICES ASSUME NEW q \in Procs, pc'[q] \in {"lock", "check"}, base'[q] # NoBundle
                 PROVE  /\ file' # NoBundle
                        /\ Kept(base[q], file')
                        /\ base[q].revision = file'.revision => base[q] = file'
                        /\ \E op \in Ops : cand[q] = Advance(base[q], op)
      BY <1>6 DEF BaseIsPast, Goto
    <3>1. pc[q] = "lock" /\ base[q] # NoBundle
      BY <1>1, <1>2, <1>6 DEF Inv, TypeOK, Goto, Critical
    <3>2. /\ file \in Bundles
          /\ base[q] \in Bundles
          /\ Kept(base[q], file)
          /\ \E op \in Ops : cand[q] = Advance(base[q], op)
      BY <3>1 DEF Inv, TypeOK, BaseIsPast
    <3>3. cand[p].revision = file.revision + 1
      BY <1>3, <3>2, AdvanceKeeps, ConstantsAssumption
    <3>4. base[q].revision <= file.revision
      BY <3>1, <3>2 DEF Kept, Register!Kept
    <3>5. Kept(base[q], cand[p])
      BY <1>1, <1>4, <3>2, KeptTransitive
    <3>6. base[q].revision # cand[p].revision
      BY <3>2, <3>3, <3>4 DEF Bundles, Register!Bundles
    <3> QED
      BY <1>1, <1>6, <3>2, <3>5, <3>6, ConstantsAssumption
  <2>4. CandidateIsNext'
    BY <1>1, <1>2, <1>6 DEF Inv, TypeOK, CandidateIsNext, Goto, Critical
  <2>5. CandidateIsSaved'
    BY <1>1, <1>2, <1>6 DEF Inv, TypeOK, CandidateIsSaved, Goto, Critical
  <2>6. PossibleIsPast'
    <3> SUFFICES ASSUME NEW b \in possible \cup {cand[p]} PROVE Kept(b, cand[p])
      BY <1>6 DEF PossibleIsPast
    <3>1. CASE b \in possible
      BY <1>1, <1>4, <3>1, KeptTransitive DEF Inv, TypeOK, PossibleIsPast
    <3> QED
      BY <1>1, <3>1, KeptReflexive
  <2>7. ReportedSavesSurvive'
    <3> SUFFICES ASSUME NEW a \in acked, NEW b \in possible \cup {cand[p]} PROVE Kept(a, b)
      BY <1>6 DEF ReportedSavesSurvive, Rename
    <3>1. CASE b \in possible
      BY <3>1 DEF Inv, ReportedSavesSurvive
    <3>2. Kept(a, file)
      BY DEF Inv, ReportedSavesSurvive
    <3>3. Kept(a, cand[p])
      BY <1>1, <1>4, <3>2, KeptTransitive DEF Inv, TypeOK
    <3> QED
      BY <3>1, <3>3
  <2>8. OperationIsFresh'
    <3>1. \A b \in possible' : b # NoBundle => b.ops \subseteq used'
      BY <1>1, <1>6, ConstantsAssumption DEF Inv, OperationIsFresh, Rename
    <3>2. \A q \in Procs : cand'[q] # NoBundle => cand'[q].ops \subseteq used'
      BY <1>6 DEF Inv, OperationIsFresh, Rename, Goto
    <3>3. ASSUME NEW q \in Procs, Unsaved(q)'
          PROVE  /\ cand[q] # NoBundle
                 /\ \E op \in cand[q].ops :
                      /\ \A b \in possible' : b # NoBundle => op \notin b.ops
                      /\ \A r \in Procs \ {q} : cand[r] # NoBundle => op \notin cand[r].ops
      <4>1. q # p /\ Unsaved(q)
        BY <1>1, <1>6, <3>3 DEF Inv, TypeOK, Unsaved, Goto
      <4>2. cand[q] # NoBundle
        BY <4>1 DEF Inv, OperationIsFresh
      <4>3. PICK op \in cand[q].ops :
              /\ \A b \in possible : b # NoBundle => op \notin b.ops
              /\ \A r \in Procs \ {q} : cand[r] # NoBundle => op \notin cand[r].ops
        BY <4>1 DEF Inv, OperationIsFresh
      <4>4. op \notin cand[p].ops
        BY <1>1, <4>1, <4>3, ConstantsAssumption
      <4> QED
        BY <1>6, <4>2, <4>3, <4>4
    <3> QED
      BY <1>6, <3>1, <3>2, <3>3 DEF OperationIsFresh, Goto
  <2> QED
    BY <2>1, <2>2, <2>3, <2>4, <2>5, <2>6, <2>7, <2>8 DEF Inv
<1> QED
  BY <1>5, <1>6 DEF Rename

\* The directory fsync leaves only the candidate possible.
LEMMA SyncDirectoryInv ==
  ASSUME NEW p \in Procs, Inv, SyncDirectory(p)
  PROVE  Inv'
<1>1. TypeOK' /\ LockHeld' /\ CandidateOK'
  BY DEF Inv, TypeOK, LockHeld, CandidateOK, SyncDirectory, SyncError, Goto, Return, Critical, Results
<1>2. BaseIsPast' /\ CandidateIsNext' /\ CandidateIsSaved'
  BY DEF Inv, TypeOK, BaseIsPast, CandidateIsNext, CandidateIsSaved, SyncDirectory, SyncError, Goto, Return, Critical
<1>3. PossibleIsPast' /\ ReportedSavesSurvive'
  BY DEF Inv, PossibleIsPast, ReportedSavesSurvive, SyncDirectory, SyncError, Goto, Return
<1>4. OperationIsFresh'
  <2>1. possible' \subseteq possible /\ cand' = cand /\ used' = used
    BY DEF Inv, PossibleIsPast, SyncDirectory, SyncError, Goto, Return
  <2>2. \A q \in Procs : Unsaved(q)' => Unsaved(q)
    BY DEF Inv, TypeOK, Unsaved, SyncDirectory, SyncError, Goto, Return
  <2> QED
    BY <2>1, <2>2 DEF Inv, OperationIsFresh
<1> QED
  BY <1>1, <1>2, <1>3, <1>4 DEF Inv

\* The report of success comes after the fsync.
LEMMA UnlockInv ==
  ASSUME NEW p \in Procs, Inv, Unlock(p)
  PROVE  Inv'
<1>1. TypeOK'
  BY DEF Inv, TypeOK, CandidateOK, Unlock, Exit, Critical, Results
<1>2. LockHeld'
  BY ConstantsAssumption DEF Inv, LockHeld, TypeOK, Unlock, Exit, Critical, Results
<1>3. CandidateOK'
  BY ConstantsAssumption DEF Inv, CandidateOK, TypeOK, Unlock, Exit, Critical, Results
<1>4. BaseIsPast'
  BY ConstantsAssumption DEF Inv, BaseIsPast, TypeOK, Unlock, Exit, Critical, Results
<1>5. CandidateIsNext'
  BY ConstantsAssumption DEF Inv, CandidateIsNext, TypeOK, Unlock, Exit, Critical, Results
<1>6. CandidateIsSaved'
  BY ConstantsAssumption DEF Inv, CandidateIsSaved, TypeOK, Unlock, Exit, Critical, Results
<1>7. PossibleIsPast'
  BY ConstantsAssumption DEF Inv, PossibleIsPast, Unlock, Exit, Critical, Results
<1>8. ReportedSavesSurvive'
  <2> SUFFICES ASSUME NEW a \in acked', NEW b \in possible \cup {file}
               PROVE  Kept(a, b)
    BY DEF ReportedSavesSurvive, Unlock
  <2>1. CASE a \in acked
    BY <2>1 DEF Inv, ReportedSavesSurvive
  <2>2. CASE a \notin acked
    <3>1. a = cand[p] /\ file = cand[p] /\ possible = {file}
      BY <2>2 DEF Inv, Unlock, CandidateIsSaved
    <3> QED
      BY <3>1, KeptReflexive DEF Inv, TypeOK
  <2> QED
    BY <2>1, <2>2
<1>9. OperationIsFresh'
  BY ConstantsAssumption DEF Inv, OperationIsFresh, Unsaved, TypeOK, CandidateOK, Unlock, Exit, Critical, Results
<1> QED
  BY <1>1, <1>2, <1>3, <1>4, <1>5, <1>6, <1>7, <1>8, <1>9 DEF Inv

\* A killed process leaves its lock and temporary file, nothing else.
LEMMA KillInv ==
  ASSUME NEW p \in Procs, Inv, Kill(p)
  PROVE  Inv'
<1>1. TypeOK' /\ LockHeld' /\ CandidateOK'
  BY DEF Inv, TypeOK, LockHeld, CandidateOK, Kill, Exit, Critical, Results
<1>2. BaseIsPast' /\ CandidateIsNext' /\ CandidateIsSaved'
  BY DEF Inv, TypeOK, BaseIsPast, CandidateIsNext, CandidateIsSaved, Kill, Exit, Critical
<1>3. PossibleIsPast' /\ ReportedSavesSurvive'
  BY DEF Inv, PossibleIsPast, ReportedSavesSurvive, Kill, Exit
<1>4. OperationIsFresh'
  BY DEF Inv, TypeOK, OperationIsFresh, Unsaved, Kill, Exit
<1> QED
  BY <1>1, <1>2, <1>3, <1>4 DEF Inv

\* A loss of power brings back an earlier version of the file.
LEMMA PowerLossInv ==
  ASSUME Inv, PowerLoss
  PROVE  Inv'
<1>1. TypeOK'
  <2>1. file' # NoBundle => file'.revision <= MaxRevision
    <3> SUFFICES ASSUME file' # NoBundle PROVE file'.revision <= MaxRevision
      OBVIOUS
    <3>1. file' \in Bundles /\ Kept(file', file) /\ file \in Bundles \cup {NoBundle}
      BY DEF Inv, TypeOK, PossibleIsPast, PowerLoss
    <3> QED
      BY <3>1, ConstantsAssumption DEF Inv, TypeOK, Kept, Register!Kept, Bundles, Register!Bundles
  <2> QED
    BY <2>1 DEF Inv, TypeOK, PowerLoss, Results, Critical
<1>2. LockHeld'
  BY ConstantsAssumption DEF Inv, LockHeld, TypeOK, PowerLoss, Critical, Results
<1>3. CandidateOK'
  BY ConstantsAssumption DEF Inv, CandidateOK, TypeOK, PowerLoss, Critical, Results
<1>4. BaseIsPast'
  BY ConstantsAssumption DEF Inv, BaseIsPast, TypeOK, PowerLoss, Critical, Results
<1>5. CandidateIsNext'
  BY ConstantsAssumption DEF Inv, CandidateIsNext, TypeOK, PowerLoss, Critical, Results
<1>6. CandidateIsSaved'
  BY ConstantsAssumption DEF Inv, CandidateIsSaved, TypeOK, PowerLoss, Critical, Results
<1>7. PossibleIsPast'
  BY KeptReflexive DEF Inv, TypeOK, PossibleIsPast, PowerLoss
<1>8. ReportedSavesSurvive'
  BY DEF Inv, ReportedSavesSurvive, PowerLoss
<1>9. OperationIsFresh'
  BY DEF Inv, OperationIsFresh, Unsaved, PowerLoss
<1> QED
  BY <1>1, <1>2, <1>3, <1>4, <1>5, <1>6, <1>7, <1>8, <1>9 DEF Inv

\* A lock removed by hand belonged to no running process.
LEMMA OperatorRemovesLockInv ==
  ASSUME Inv, OperatorRemovesLock
  PROVE  Inv'
<1>1. TypeOK' /\ LockHeld' /\ CandidateOK'
  BY DEF Inv, TypeOK, LockHeld, CandidateOK, OperatorRemovesLock, Critical, Results
<1>2. BaseIsPast' /\ CandidateIsNext' /\ CandidateIsSaved'
  BY DEF Inv, TypeOK, BaseIsPast, CandidateIsNext, CandidateIsSaved, OperatorRemovesLock, Critical
<1>3. PossibleIsPast' /\ ReportedSavesSurvive'
  BY DEF Inv, PossibleIsPast, ReportedSavesSurvive, OperatorRemovesLock
<1>4. OperationIsFresh'
  BY DEF Inv, TypeOK, OperationIsFresh, Unsaved, OperatorRemovesLock
<1> QED
  BY <1>1, <1>2, <1>3, <1>4 DEF Inv

\* A step that changes nothing preserves the invariant.
LEMMA StutterInv ==
  ASSUME Inv, UNCHANGED vars
  PROVE  Inv'
BY DEF Inv, vars, TypeOK, LockHeld, CandidateOK, BaseIsPast, CandidateIsNext,
       CandidateIsSaved, PossibleIsPast, ReportedSavesSurvive, OperationIsFresh, Unsaved

\* Every step preserves the invariant.
LEMMA NextInv == Inv /\ [Next]_vars => Inv'
<1> SUFFICES ASSUME Inv, [Next]_vars PROVE Inv'
  OBVIOUS
<1>1. ASSUME NEW p \in Procs, CreateOrImport(p) \/ Run(p) PROVE Inv'
  BY <1>1, CreateOrImportInv, RunInv
<1>2. ASSUME NEW p \in Procs, Step(p) PROVE Inv'
  BY <1>2, LockInv, CheckInv, WriteTemporaryInv, RenameInv, SyncDirectoryInv, UnlockInv DEF Step
<1>3. ASSUME NEW p \in Procs, Kill(p) PROVE Inv'
  BY <1>3, KillInv
<1> QED
  BY <1>1, <1>2, <1>3, PowerLossInv, OperatorRemovesLockInv, StutterInv DEF Next

\* Every reachable state satisfies the inductive invariant.
THEOREM Invariance == Spec => []Inv
BY InitInv, NextInv, PTL DEF Spec

\* The state of the store keeps its types; in particular no saved revision ever
\* passes the largest one (checked_add in transaction and commit).
THEOREM TypeCorrect == Spec => []TypeOK
<1>1. Inv => TypeOK
  BY DEF Inv
<1> QED
  BY <1>1, Invariance, PTL

\* The lock file excludes concurrent writers, through kills, losses of power,
\* reused pids and locks removed by hand.
THEOREM WritersExclusive == Spec => []Exclusive
<1>1. Inv => Exclusive
  BY DEF Inv, LockHeld, Exclusive
<1> QED
  BY <1>1, Invariance, PTL

\* A save that create or commit reported as successful is never lost: not to a
\* concurrent writer, a kill, or a loss of power.
THEOREM SavesSurvive == Spec => []ReportedSavesSurvive
<1>1. Inv => ReportedSavesSurvive
  BY DEF Inv
<1> QED
  BY <1>1, Invariance, PTL

\* FileStudyStore implements StudyRegister.
THEOREM ImplementsRegister == Spec => RegisterSpec
<1>1. Init => Register!Init
  BY DEF Init, Register!Init
<1>2. Inv /\ Inv' /\ [Next]_vars => [Register!Next]_(Register!vars)
  <2> SUFFICES ASSUME Inv, Inv', Next, UNCHANGED Register!vars => FALSE
               PROVE  Register!Next
    BY DEF vars, Register!vars
  <2> USE DEF Register!vars, Register!Next
  <2>1. ASSUME NEW p \in Procs, Rename(p) PROVE Register!Next
    <3>1. file' = cand[p] /\ acked' = acked /\ cand[p] \in Bundles
      BY <2>1 DEF Rename, Inv, CandidateOK
    <3>2. CASE file = NoBundle
      BY <3>1, <3>2 DEF Register!Create, Bundles
    <3>3. CASE file # NoBundle
      BY <2>1, <3>1, <3>3 DEF Inv, CandidateIsNext, Rename, Register!Commit, Advance
    <3> QED
      BY <3>2, <3>3
  <2>2. ASSUME NEW p \in Procs, Unlock(p) PROVE Register!Next
    <3>1. file' = file /\ acked' = acked \cup {cand[p]} /\ file = cand[p] /\ cand[p] \in Bundles
      BY <2>2 DEF Unlock, Inv, CandidateIsSaved, CandidateOK
    <3>2. Kept(cand[p], file)
      BY <3>1, KeptReflexive
    <3> QED
      BY <3>1, <3>2 DEF Register!Confirm, Kept, Bundles
  <2>3. ASSUME PowerLoss PROVE Register!Next
    BY <2>3 DEF PowerLoss, Inv, TypeOK, PossibleIsPast, ReportedSavesSurvive,
                Register!Lose, Kept, Bundles
  <2>4. ASSUME NEW p \in Procs,
               \/ CreateOrImport(p) \/ Run(p) \/ Lock(p) \/ Check(p)
               \/ WriteTemporary(p) \/ SyncDirectory(p) \/ Kill(p)
        PROVE  FALSE
    BY <2>4 DEF CreateOrImport, Run, Begin, Lock, Check, WriteTemporary, SyncDirectory, Kill
  <2> QED
    BY <2>1, <2>2, <2>3, <2>4 DEF Next, Step, OperatorRemovesLock
<1> QED
  BY <1>1, <1>2, Invariance, PTL DEF Spec, RegisterSpec, Register!Spec

\* A refused save left nothing at the path.
THEOREM RefusalsAreHonest == Spec => []RefusedMeansNotSaved
<1>1. Inv => RefusedMeansNotSaved
  <2> SUFFICES ASSUME Inv, NEW p \in Procs, result[p] \in {"conflict", "not_saved"}
               PROVE  cand[p] \notin possible
    BY DEF RefusedMeansNotSaved
  <2>1. Unsaved(p)
    BY DEF Unsaved
  <2> QED
    BY <2>1 DEF Inv, OperationIsFresh
<1> QED
  BY <1>1, Invariance, PTL

==============================================================================
