--------------------------- MODULE FileStudyStore ----------------------------
(***************************************************************************)
(* crates/tellegen/src/study_storage.rs: Studies saved as files, with the  *)
(* `tellegen study create|import|run` commands of crates/tellegen-cli that *)
(* use it.  Several processes work on one path without any other           *)
(* coordination.  A process may be killed between any two of its steps,    *)
(* the machine may lose power, and every system call may fail.             *)
(*                                                                         *)
(* A process is identified by its pid, the number in its lock file and in  *)
(* the name of its temporary file.  A pid that runs again after it died is *)
(* the case of the reused pid.                                             *)
(***************************************************************************)
EXTENDS Naturals

CONSTANTS
  Procs,        \* pids
  NoProc,       \* no lock file exists
  Ops,          \* identities of operations
  NoBundle,     \* the path holds no file
  MaxRevision   \* the largest revision (u64::MAX in the code)

VARIABLES
  file,      \* the bundle that a reader of the path finds
  possible,  \* the bundles the path may hold after a loss of power
  lock,      \* the pid in the lock file, or NoProc
  temps,     \* the pids whose temporary file exists
  pc,        \* the next step of each process; "idle": no such process runs
  base,      \* the bundle `study run` loaded; NoBundle in `create` and `import`
  cand,      \* the bundle the process wants to save
  result,    \* what create or commit is about to return
  acked,     \* the bundles whose save was reported as successful
  used       \* the operations that were started: each has its own identity

vars == <<file, possible, lock, temps, pc, base, cand, result, acked, used>>

Register == INSTANCE StudyRegister WITH current <- file, confirmed <- acked

Bundles == Register!Bundles
Kept(b, c) == Register!Kept(b, c)
Advance(b, op) == Register!Advance(b, op)

ASSUME ConstantsAssumption ==
  /\ NoProc \notin Procs
  /\ NoBundle \notin Bundles
  /\ MaxRevision \in Nat

Results == {"none", "ok", "conflict", "not_saved", "unconfirmed"}

\* Steps made while the process's WriteLock exists.
Critical == {"check", "open", "rename", "sync", "unlock"}

Init ==
  /\ file = NoBundle
  /\ possible = {NoBundle}
  /\ lock = NoProc
  /\ temps = {}
  /\ pc = [p \in Procs |-> "idle"]
  /\ base = [p \in Procs |-> NoBundle]
  /\ cand = [p \in Procs |-> NoBundle]
  /\ result = [p \in Procs |-> "none"]
  /\ acked = {}
  /\ used = {}

------------------------------------------------------------------------------
(* The command, before it writes. *)

\* A process p starts to save bundle c, which it made from bundle b.
Begin(p, b, c, op) ==
  /\ pc[p] = "idle"
  /\ op \notin used
  /\ used' = used \cup {op}
  /\ base' = [base EXCEPT ![p] = b]
  /\ cand' = [cand EXCEPT ![p] = c]
  /\ pc' = [pc EXCEPT ![p] = "lock"]
  /\ result' = [result EXCEPT ![p] = "none"]
  /\ UNCHANGED <<file, possible, lock, temps, acked>>

\* `study create` makes revision 0; `study import` takes any bundle.
CreateOrImport(p) ==
  \E op \in Ops, r \in 0..MaxRevision :
    Begin(p, NoBundle, [study |-> op, revision |-> r, ops |-> {op}], op)

\* Mutant of Run: the revision is advanced without checked_add.
RunUnchecked(p) ==
  /\ file # NoBundle
  /\ \E op \in Ops : Begin(p, file, Advance(file, op), op)

\* `study run`: load without the lock, execute the operation on the loaded
\* bundle.  A revision that cannot be advanced ends the command here.
Run(p) ==
  /\ file # NoBundle
  /\ file.revision < MaxRevision
  /\ \E op \in Ops : Begin(p, file, Advance(file, op), op)

------------------------------------------------------------------------------
(* FileStudyStore::create and ::commit. *)

Goto(p, step) ==
  /\ pc' = [pc EXCEPT ![p] = step]
  /\ UNCHANGED <<base, cand>>

\* The process ends and with it what it held in memory.
Exit(p) ==
  /\ pc' = [pc EXCEPT ![p] = "idle"]
  /\ base' = [base EXCEPT ![p] = NoBundle]
  /\ cand' = [cand EXCEPT ![p] = NoBundle]
  /\ result' = [result EXCEPT ![p] = "none"]

\* Leave the body with an outcome: what remains is to drop the lock.
Return(p, outcome) ==
  /\ result' = [result EXCEPT ![p] = outcome]
  /\ Goto(p, "unlock")

\* Mutant of CreateNew: the lock file is opened without create_new.
CreateAny == TRUE

\* create_new succeeds when no lock file exists.
CreateNew == lock = NoProc

\* FileStudyStore::lock.  An existing lock file, or a failure to write the
\* pid (the WriteLock is dropped and the file removed), ends the command.
Lock(p) ==
  /\ pc[p] = "lock"
  /\ \/ /\ CreateNew
        /\ lock' = p
        /\ Goto(p, "check")
        /\ UNCHANGED result
     \/ /\ Exit(p)
        /\ UNCHANGED lock
  /\ UNCHANGED <<file, possible, temps, acked, used>>

\* Mutant of MayWrite: the file is not loaded again under the lock.
MayWriteUnchecked(p) ==
  (base[p] = NoBundle) = (file = NoBundle)

\* The condition under which the locked writer may replace the file.
MayWrite(p) ==
  IF base[p] = NoBundle
  THEN file = NoBundle
  ELSE /\ file # NoBundle
       /\ file.revision = base[p].revision
       /\ file.study = cand[p].study
       /\ cand[p].revision = base[p].revision + 1

\* Mutant of Check: a conflicting writer waits for its turn under the lock.
CheckWaits(p) ==
  /\ pc[p] = "check"
  /\ MayWrite(p)
  /\ Goto(p, "open")
  /\ UNCHANGED <<file, possible, lock, temps, result, acked, used>>

\* create: `self.path.exists()`; commit: load again, which may fail, and check
\* the revision.  A path that cannot be examined, which exists() reports as absent,
\* is left out.
Check(p) ==
  /\ pc[p] = "check"
  /\ \/ /\ MayWrite(p)
        /\ Goto(p, "open")
        /\ UNCHANGED result
     \/ /\ ~MayWrite(p) \/ base[p] # NoBundle
        /\ Return(p, "conflict")
  /\ UNCHANGED <<file, possible, lock, temps, acked, used>>

\* A failed write removes whatever is there under the temporary name; an error
\* of that removal is ignored.
RemoveTemporary(p) == temps' \in {temps \ {p}, temps \cup {p}}

\* write, first part: a new temporary file, its contents, its fsync.  A file
\* of that name left by a dead process with the same pid makes create_new fail.
WriteTemporary(p) ==
  /\ pc[p] = "open"
  /\ \/ /\ p \notin temps
        /\ temps' = temps \cup {p}
        /\ Goto(p, "rename")
        /\ UNCHANGED result
     \/ /\ RemoveTemporary(p)
        /\ Return(p, "not_saved")
  /\ UNCHANGED <<file, possible, lock, acked, used>>

\* write, second part: the rename that publishes the bundle.
Rename(p) ==
  /\ pc[p] = "rename"
  /\ \/ /\ file' = cand[p]
        /\ temps' = temps \ {p}
        /\ possible' = possible \cup {cand[p]}
        /\ Goto(p, "sync")
        /\ UNCHANGED result
     \/ /\ RemoveTemporary(p)
        /\ Return(p, "not_saved")
        /\ UNCHANGED <<file, possible>>
  /\ UNCHANGED <<lock, acked, used>>

\* Mutant of SyncError: one message for every failure of write.
SyncErrorNotSaved == "not_saved"

\* "Study file was written but directory durability could not be confirmed"
SyncError == "unconfirmed"

\* Mutant of SyncDirectory: the directory is not synced.
SyncSkipped(p) ==
  /\ pc[p] = "sync"
  /\ Return(p, "ok")
  /\ UNCHANGED <<file, possible, lock, temps, acked, used>>

\* write, last part: fsync of the directory.  It may fail after the rename.
SyncDirectory(p) ==
  /\ pc[p] = "sync"
  /\ \/ /\ possible' = {file}
        /\ Return(p, "ok")
     \/ /\ Return(p, SyncError)
        /\ UNCHANGED possible
  /\ UNCHANGED <<file, lock, temps, acked, used>>

\* The WriteLock is dropped: the lock file is removed by its path, an error
\* is ignored.  Then the command reports its outcome and the process ends.
Unlock(p) ==
  /\ pc[p] = "unlock"
  /\ \/ lock' = NoProc
     \/ UNCHANGED lock
  /\ acked' = IF result[p] = "ok" THEN acked \cup {cand[p]} ELSE acked
  /\ Exit(p)
  /\ UNCHANGED <<file, possible, temps, used>>

------------------------------------------------------------------------------
(* The environment. *)

\* The process is killed: no destructor runs, its files stay.
Kill(p) ==
  /\ pc[p] # "idle"
  /\ Exit(p)
  /\ UNCHANGED <<file, possible, lock, temps, acked, used>>

\* Loss of power: every process ends, and directory entries made or removed
\* since the last directory fsync may or may not have reached the disk.
PowerLoss ==
  /\ pc' = [p \in Procs |-> "idle"]
  /\ base' = [p \in Procs |-> NoBundle]
  /\ cand' = [p \in Procs |-> NoBundle]
  /\ result' = [p \in Procs |-> "none"]
  /\ file' \in possible
  /\ possible' = {file'}
  /\ lock' \in Procs \cup {NoProc}
  /\ temps' \in SUBSET Procs
  /\ UNCHANGED <<acked, used>>

\* The operator follows the message of FileStudyStore::lock: "verify it is no
\* longer running before removing" the lock file.
OperatorRemovesLock ==
  /\ lock # NoProc
  /\ pc[lock] = "idle"
  /\ lock' = NoProc
  /\ UNCHANGED <<file, possible, temps, pc, base, cand, result, acked, used>>

Step(p) ==
  \/ Lock(p)
  \/ Check(p)
  \/ WriteTemporary(p)
  \/ Rename(p)
  \/ SyncDirectory(p)
  \/ Unlock(p)

Next ==
  \/ \E p \in Procs : CreateOrImport(p) \/ Run(p) \/ Step(p) \/ Kill(p)
  \/ PowerLoss
  \/ OperatorRemovesLock

Spec == Init /\ [][Next]_vars

\* A running process keeps taking steps, and an operator who was told of a
\* stale lock eventually removes it.
Fairness ==
  /\ \A p \in Procs : WF_vars(Step(p))
  /\ WF_vars(OperatorRemovesLock)

FairSpec == Spec /\ Fairness

------------------------------------------------------------------------------
(* Properties. *)

TypeOK ==
  /\ file \in Bundles \cup {NoBundle}
  /\ file # NoBundle => file.revision <= MaxRevision
  /\ possible \in SUBSET (Bundles \cup {NoBundle})
  /\ lock \in Procs \cup {NoProc}
  /\ temps \in SUBSET Procs
  /\ pc \in [Procs -> Critical \cup {"idle", "lock"}]
  /\ base \in [Procs -> Bundles \cup {NoBundle}]
  /\ cand \in [Procs -> Bundles \cup {NoBundle}]
  /\ result \in [Procs -> Results]
  /\ acked \in SUBSET Bundles
  /\ used \in SUBSET Ops

\* Mutual exclusion of create and commit: the lock file, dropped by path and
\* sometimes removed by hand, never lets two writers between the revision
\* check and the rename.
Exclusive ==
  \A p, q \in Procs : pc[p] \in Critical /\ pc[q] \in Critical => p = q

\* No lost update and no lost save: a bundle whose create or commit returned
\* Ok is contained in whatever the path holds now, and in whatever it may hold
\* after a loss of power at this very moment.
ReportedSavesSurvive ==
  \A a \in acked : \A b \in possible \cup {file} : Kept(a, b)

\* "Study was not saved" and the revision conflict are told only when the
\* bundle is not and cannot become the contents of the path; the failed
\* directory fsync, after the rename, must not be reported that way.
RefusedMeansNotSaved ==
  \A p \in Procs :
    result[p] \in {"conflict", "not_saved"} => cand[p] \notin possible

\* The store implements the abstract register: the file changes by one
\* operation at a time on top of the bundle it replaces, and a loss of power
\* takes back unconfirmed saves only.
RegisterSpec == Register!Spec

\* A lock file never blocks the Study for ever, whoever left it behind.
LockIsReleased == (lock # NoProc) ~> (lock = NoProc)

------------------------------------------------------------------------------
(* The inductive invariant behind the properties above. *)

\* A process between lock and unlock owns the lock file.
LockHeld == \A p \in Procs : pc[p] \in Critical => lock = p

\* Whatever changed since `study run` loaded its base, the file holds a later
\* version of it; so equal revisions mean an unchanged file.
BaseIsPast ==
  \A p \in Procs :
    pc[p] \in {"lock", "check"} /\ base[p] # NoBundle =>
      /\ file # NoBundle
      /\ Kept(base[p], file)
      /\ base[p].revision = file.revision => base[p] = file
      /\ \E op \in Ops : cand[p] = Advance(base[p], op)

\* What a checked writer is about to publish is one operation ahead.
CandidateIsNext ==
  \A p \in Procs :
    pc[p] \in {"open", "rename"} =>
      file = NoBundle \/ \E op \in Ops : cand[p] = Advance(file, op)

\* After the rename the file is the candidate; after the fsync nothing else
\* can be found at the path.
CandidateIsSaved ==
  \A p \in Procs :
    /\ pc[p] = "sync" => file = cand[p]
    /\ pc[p] = "unlock" /\ result[p] = "ok" => file = cand[p] /\ possible = {file}

\* Every bundle a loss of power may bring back is an earlier version.
PossibleIsPast == file \in possible /\ \A b \in possible : Kept(b, file)

\* A running process has a candidate within the range of revisions.
CandidateOK ==
  \A p \in Procs :
    /\ pc[p] # "idle" => cand[p] \in Bundles /\ cand[p].revision <= MaxRevision
    /\ pc[p] # "unlock" => result[p] = "none"

\* The operation of a candidate that was not saved is nowhere else.
Unsaved(p) ==
  \/ pc[p] \in {"lock", "check", "open", "rename"}
  \/ result[p] \in {"conflict", "not_saved"}

OperationIsFresh ==
  /\ \A b \in possible : b # NoBundle => b.ops \subseteq used
  /\ \A p \in Procs : cand[p] # NoBundle => cand[p].ops \subseteq used
  /\ \A p \in Procs : Unsaved(p) =>
       /\ cand[p] # NoBundle
       /\ \E op \in cand[p].ops :
            /\ \A b \in possible : b # NoBundle => op \notin b.ops
            /\ \A q \in Procs \ {p} : cand[q] # NoBundle => op \notin cand[q].ops

Inv ==
  /\ TypeOK
  /\ LockHeld
  /\ CandidateOK
  /\ BaseIsPast
  /\ CandidateIsNext
  /\ CandidateIsSaved
  /\ PossibleIsPast
  /\ ReportedSavesSurvive
  /\ OperationIsFresh

==============================================================================
