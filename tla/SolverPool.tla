------------------------------ MODULE SolverPool ------------------------------
(***************************************************************************)
(* On-demand solves of the HTTP server (crates/tellegen-server/src/lib.rs): *)
(* the sensitivity and the solve_stream handlers and run_solve_limited     *)
(* under them.  Requests wait for one of a few solver permits, a blocking  *)
(* task solves while it holds the permit, a deadline bounds the wait and   *)
(* the solve, clients hang up at any moment.                               *)
(*                                                                         *)
(* The request and its blocking task are separate: dropping the request's  *)
(* future (a deadline, a hang-up) leaves a task that has started running,  *)
(* with its permit, until it converges or sees the cancel flag.            *)
(***************************************************************************)
EXTENDS Naturals, Sequences, SequencesExt, FiniteSets

CONSTANTS
  Requests,     \* identities of requests
  Endpoints,    \* the endpoints they go to: "solve", "sensitivity"
  Capacity,     \* solver_concurrency
  Compute       \* compute_enabled

ASSUME PoolAssumption ==
  /\ Capacity \in Nat \ {0}
  /\ Endpoints \subseteq {"solve", "sensitivity"}
  /\ Compute \in BOOLEAN

VARIABLES
  permits,     \* free permits of solver_permits
  waiters,     \* the semaphore's queue
  request,     \* the future of run_solve_limited
  endpoint,    \* the handler the request belongs to
  connected,   \* requests whose client is still there
  reply,       \* what the client was sent last
  task,        \* the blocking task
  cancel       \* requests whose cancel flag is set

vars == <<permits, waiters, request, endpoint, connected, reply, task, cancel>>

Init ==
  /\ permits = Capacity
  /\ waiters = <<>>
  /\ request = [r \in Requests |-> "none"]
  /\ endpoint = [r \in Requests |-> "none"]
  /\ connected = {}
  /\ reply = [r \in Requests |-> "none"]
  /\ task = [r \in Requests |-> "none"]
  /\ cancel = {}

------------------------------------------------------------------------------
(* The handlers up to run_solve_limited. *)

\* require_compute, the rate limiter, the case, the target and the deltas each
\* turn a request away before it costs anything.
Refusals ==
  IF Compute THEN {"limited", "not found", "bad request"} ELSE {"forbidden"}

Refuse(r, e) ==
  /\ request[r] = "none"
  /\ \E why \in Refusals : reply' = [reply EXCEPT ![r] = why]
  /\ endpoint' = [endpoint EXCEPT ![r] = e]
  /\ request' = [request EXCEPT ![r] = "answered"]
  /\ UNCHANGED <<permits, waiters, connected, task, cancel>>

\* The request is accepted: solve_stream sends its status event, then both
\* wait for a permit under the deadline.
Accept(r, e) ==
  /\ Compute
  /\ request[r] = "none"
  /\ endpoint' = [endpoint EXCEPT ![r] = e]
  /\ request' = [request EXCEPT ![r] = "waiting"]
  /\ waiters' = Append(waiters, r)
  /\ connected' = connected \cup {r}
  /\ reply' = [reply EXCEPT ![r] = IF e = "solve" THEN "status" ELSE "none"]
  /\ UNCHANGED <<permits, task, cancel>>

------------------------------------------------------------------------------
(* run_solve_limited. *)

\* The semaphore is fair: a free permit goes to the first waiter.
Grant ==
  /\ permits > 0
  /\ waiters # <<>>
  /\ permits' = permits - 1
  /\ waiters' = Tail(waiters)
  /\ request' = [request EXCEPT ![Head(waiters)] = "granted"]
  /\ UNCHANGED <<endpoint, connected, reply, task, cancel>>

\* acquire_owned returns: the permit moves into the blocking task.
Spawn(r) ==
  /\ request[r] = "granted"
  /\ request' = [request EXCEPT ![r] = "running"]
  /\ task' = [task EXCEPT ![r] = "iterating"]
  /\ UNCHANGED <<permits, waiters, endpoint, connected, reply, cancel>>

\* Mutant of Dropped: a permit that was granted but not used is forgotten.
DroppedGrant(r) == 0

\* The permits that dropping the future of run_solve_limited gives back: a
\* permit that has been granted and not yet moved into a task.
Dropped(r) == IF request[r] = "granted" THEN 1 ELSE 0

\* A waiter that is dropped leaves the semaphore's queue.
LeaveQueue(r) ==
  IF request[r] = "waiting"
  THEN \E i \in DOMAIN waiters : waiters[i] = r /\ waiters' = RemoveAt(waiters, i)
  ELSE UNCHANGED waiters

\* The future of run_solve_limited is dropped.
DropFuture(r, next) ==
  /\ request[r] \in {"waiting", "granted", "running"}
  /\ request' = [request EXCEPT ![r] = next]
  /\ LeaveQueue(r)
  /\ permits' = permits + Dropped(r)

\* Mutant of Timeout: the deadline answers and leaves the task alone.
TimeoutOnly(r) ==
  /\ DropFuture(r, "answered")
  /\ reply' = [reply EXCEPT ![r] = IF r \in connected THEN "timed out" ELSE @]
  /\ UNCHANGED <<endpoint, connected, task, cancel>>

\* The deadline: the cancel flag is set, the client told (an error, or the fail
\* event of the stream).
Timeout(r) ==
  /\ DropFuture(r, "answered")
  /\ cancel' = cancel \cup {r}
  /\ reply' = [reply EXCEPT ![r] = IF r \in connected THEN "timed out" ELSE @]
  /\ UNCHANGED <<endpoint, connected, task>>

\* Mutant of Deliver: a late answer is sent after the time-out.
DeliverLate(r) ==
  /\ request[r] \in {"running", "answered"}
  /\ task[r] \in {"solved", "failed"}
  /\ request' = [request EXCEPT ![r] = "answered"]
  /\ reply' = [reply EXCEPT ![r] = IF r \notin connected THEN @
                                   ELSE IF task[r] = "solved" THEN "result" ELSE "error"]
  /\ UNCHANGED <<permits, waiters, endpoint, connected, task, cancel>>

\* The answer of a task that ended while its request was waiting for it.
\* The 404 for a target that the solved network does not have counts as a result.
Deliver(r) ==
  /\ request[r] = "running"
  /\ task[r] \in {"solved", "failed"}
  /\ request' = [request EXCEPT ![r] = "answered"]
  /\ reply' = [reply EXCEPT ![r] = IF r \notin connected THEN @
                                   ELSE IF task[r] = "solved" THEN "result" ELSE "error"]
  /\ UNCHANGED <<permits, waiters, endpoint, connected, task, cancel>>

------------------------------------------------------------------------------
(* The blocking task: solve_instance_cancellable, then its permit's drop. *)

Live == {"iterating", "converged"}

\* The interior point method converges; what follows does not look at the flag.
Converge(r) ==
  /\ task[r] = "iterating"
  /\ task' = [task EXCEPT ![r] = "converged"]
  /\ UNCHANGED <<permits, waiters, request, endpoint, connected, reply, cancel>>

EndTask(r, result) ==
  /\ task' = [task EXCEPT ![r] = result]
  /\ permits' = permits + 1
  /\ UNCHANGED <<waiters, request, endpoint, connected, reply, cancel>>

\* Sensitivities and the response are computed.
Finish(r) == task[r] = "converged" /\ \E result \in {"solved", "failed"} : EndTask(r, result)

\* The edits are refused, the problem is infeasible, or the task panics.
FailTask(r) == task[r] = "iterating" /\ EndTask(r, "failed")

\* Mutant of ObserveCancel: the flag is polled after convergence only.
ObserveCancelLate(r) == task[r] = "converged" /\ r \in cancel /\ EndTask(r, "failed")

\* The next iteration polls the flag.
ObserveCancel(r) == task[r] = "iterating" /\ r \in cancel /\ EndTask(r, "failed")

------------------------------------------------------------------------------
(* Clients. *)

\* The client closes the connection.  The handler of a sensitivity request is
\* dropped with it; the task of solve_stream learns from its channel.
HangUp(r) ==
  /\ r \in connected
  /\ connected' = connected \ {r}
  /\ IF endpoint[r] = "sensitivity" /\ request[r] \in {"waiting", "granted", "running"}
     THEN DropFuture(r, "gone")
     ELSE UNCHANGED <<request, waiters, permits>>
  /\ UNCHANGED <<endpoint, reply, task, cancel>>

\* solve_stream: tx.closed() wins the select.
NoticeClosed(r) ==
  /\ endpoint[r] = "solve"
  /\ r \notin connected
  /\ DropFuture(r, "gone")
  /\ cancel' = cancel \cup {r}
  /\ UNCHANGED <<endpoint, connected, reply, task>>

------------------------------------------------------------------------------
(* The system. *)

Work(r) == Spawn(r) \/ Deliver(r) \/ NoticeClosed(r)
TaskStep(r) == Finish(r) \/ ObserveCancel(r)

\* Nothing is left to do.
Quiet ==
  /\ \A r \in Requests : request[r] \in {"answered", "gone"} /\ task[r] \notin Live
  /\ UNCHANGED vars

Next ==
  \/ \E r \in Requests, e \in Endpoints : Refuse(r, e) \/ Accept(r, e)
  \/ Grant
  \/ \E r \in Requests : Work(r) \/ Timeout(r) \/ Converge(r) \/ TaskStep(r) \/ FailTask(r) \/ HangUp(r)
  \/ Quiet

Spec == Init /\ [][Next]_vars

\* The runtime polls futures that can go on, timers fire, an iteration ends.
\* Nothing makes an interior point method converge.
Fairness ==
  /\ WF_vars(Grant)
  /\ \A r \in Requests : WF_vars(Work(r)) /\ WF_vars(Timeout(r)) /\ WF_vars(TaskStep(r))

FairSpec == Spec /\ Fairness

------------------------------------------------------------------------------
(* Properties. *)

\* The types of the pool's state.
TypeOK ==
  /\ permits \in 0..Capacity
  /\ waiters \in Seq(Requests)
  /\ request \in [Requests -> {"none", "waiting", "granted", "running", "answered", "gone"}]
  /\ endpoint \in [Requests -> Endpoints \cup {"none"}]
  /\ connected \subseteq Requests
  /\ reply \in [Requests -> Refusals \cup {"none", "status", "result", "error", "timed out"}]
  /\ task \in [Requests -> Live \cup {"none", "solved", "failed"}]
  /\ cancel \subseteq Requests

Holders == {r \in Requests : request[r] = "granted" \/ task[r] \in Live}

\* Every permit is free, on its way to a request, or held by a task that is
\* still running: no deadline or hang-up loses one or gives one back twice.
PermitsConserved == permits + Cardinality(Holders) = Capacity

\* The semaphore's queue holds exactly the requests that wait under a deadline,
\* each once: a request that timed out or hung up is never granted a permit.
WaitersAreCurrent ==
  /\ ToSet(waiters) = {r \in Requests : request[r] = "waiting"}
  /\ \A i, j \in DOMAIN waiters : waiters[i] = waiters[j] => i = j

\* The pool's bookkeeping, as one invariant: its parts need each other, because
\* a permit goes to whoever is first in the queue.
PoolInv == TypeOK /\ PermitsConserved /\ WaitersAreCurrent

\* run_solve_limited's comment: one deadline bounds the whole operation.  A
\* task that is solving has a request that still waits under the deadline, or
\* its cancel flag is set.
DeadlineBoundsSolve ==
  \A r \in Requests : task[r] = "iterating" => request[r] = "running" \/ r \in cancel

\* A client that stays is told what its own task computed: a result only from a
\* task that solved, an error only from one that failed, and a time-out only
\* after the flag has been set.
ReplyIsTrue ==
  \A r \in Requests :
    /\ reply[r] = "result" => task[r] = "solved"
    /\ reply[r] = "error" => task[r] = "failed" /\ r \notin cancel
    /\ reply[r] = "timed out" => r \in cancel

\* solve_stream keeps its deadline although its clients hang up and although
\* tasks of abandoned sensitivity requests hold permits.
StreamDeadline ==
  \A r \in Requests :
    task[r] = "iterating" /\ endpoint[r] = "solve" => request[r] = "running" \/ r \in cancel

\* Every request that solve_stream accepted comes to an end and its permit is
\* free again, also when no solve ever converges and an abandoned sensitivity
\* request keeps a permit for good.
PoolRecovers ==
  \A r \in Requests :
    request[r] = "waiting" /\ endpoint[r] = "solve"
      ~> (request[r] \in {"answered", "gone"} /\ task[r] \notin Live)
==============================================================================
