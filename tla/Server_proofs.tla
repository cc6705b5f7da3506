---------------------------- MODULE Server_proofs -----------------------------
(***************************************************************************)
(* Proofs about the HTTP server, SolverPool and RateLimiter: two parts     *)
(* that share no state.                                                    *)
(*                                                                         *)
(* SolverPool, for any requests, also infinitely many, and any number of   *)
(* permits.                                                                *)
(*                                                                         *)
(* RateLimiter, for any senders, headers, handlers, endpoints and limits,  *)
(* and for ever: the bound on the clock is arbitrary.  The argument: a     *)
(* bucket is a tail of its sender's accepted requests, each at most Delay  *)
(* older than its acceptance, and an accepted request leaves the bucket    *)
(* only when Window - Delay has passed (Recorded).  So whatever lies in    *)
(* one window is still in the bucket when the next event is counted,       *)
(* although the instants of a bucket are not in order.                     *)
(***************************************************************************)
EXTENDS SolverPool, RateLimiter, FiniteSetTheorems, SequenceTheorems, WellFoundedInduction, TLAPS

------------------------------------------------------------------------------
(* The solver pool: the inductive invariant. *)

Waiting == {"none", "waiting", "granted"}
Over == {"answered", "gone"}

\* A task exists once its request has moved its permit into it, and a flag or a
\* final reply is the end of a request.
TaskFollowsRequest ==
  \A r \in Requests :
    /\ request[r] \in Waiting => task[r] = "none"
    /\ r \in cancel => request[r] \in Over
    /\ reply[r] \in {"result", "error", "timed out"} => request[r] \in Over

Inv ==
  /\ PoolInv
  /\ IsFiniteSet(Holders)
  /\ TaskFollowsRequest
  /\ ReplyIsTrue
  /\ StreamDeadline

------------------------------------------------------------------------------
(* The queue. *)

\* A queue without its entry i.
LEMMA RemoveAtProperties ==
  ASSUME NEW S, NEW q \in Seq(S), NEW i \in 1..Len(q)
  PROVE  /\ RemoveAt(q, i) \in Seq(S)
         /\ Len(RemoveAt(q, i)) = Len(q) - 1
         /\ \A j \in 1..(Len(q) - 1) : RemoveAt(q, i)[j] = IF j < i THEN q[j] ELSE q[j + 1]
<1> DEFINE n == Len(q)
           a == SubSeq(q, 1, i - 1)
           b == SubSeq(q, i + 1, n)
<1>1. n \in Nat /\ i \in Nat /\ 1 <= i /\ i <= n /\ \A j \in 1..n : q[j] \in S
  BY LenProperties, ElementOfSeq
<1>2. /\ a \in Seq(S) /\ Len(a) = i - 1
      /\ \A j \in 1..(i - 1) : a[j] = q[j]
  <2>1. \A j \in 1..(i - 1) : q[j] \in S
    BY <1>1
  <2>2. /\ a \in Seq(S)
        /\ Len(a) = IF 1 <= i - 1 THEN i - 1 - 1 + 1 ELSE 0
        /\ \A j \in 1..(i - 1 - 1 + 1) : a[j] = q[1 + j - 1]
    BY <1>1, <2>1, SubSeqProperties
  <2> QED
    BY <1>1, <2>2
<1>3. /\ b \in Seq(S) /\ Len(b) = n - i
      /\ \A j \in 1..(n - i) : b[j] = q[i + j]
  <2>1. \A j \in (i + 1)..n : q[j] \in S
    BY <1>1
  <2>2. /\ b \in Seq(S)
        /\ Len(b) = IF i + 1 <= n THEN n - (i + 1) + 1 ELSE 0
        /\ \A j \in 1..(n - (i + 1) + 1) : b[j] = q[(i + 1) + j - 1]
    BY <1>1, <2>1, SubSeqProperties
  <2> QED
    BY <1>1, <2>2
<1>4. RemoveAt(q, i) = a \o b
  BY DEF RemoveAt
<1> HIDE DEF a, b, n
<1>5. /\ a \o b \in Seq(S)
      /\ Len(a \o b) = Len(a) + Len(b)
      /\ \A j \in 1..(Len(a) + Len(b)) : (a \o b)[j] = IF j <= Len(a) THEN a[j] ELSE b[j - Len(a)]
  BY <1>2, <1>3, ConcatProperties
<1>6. \A j \in 1..(n - 1) : (a \o b)[j] = IF j < i THEN q[j] ELSE q[j + 1]
  <2> SUFFICES ASSUME NEW j \in 1..(n - 1)
               PROVE  (a \o b)[j] = IF j < i THEN q[j] ELSE q[j + 1]
    OBVIOUS
  <2>1. CASE j < i
    BY <1>1, <1>2, <1>3, <1>5, <2>1
  <2>2. CASE ~(j < i)
    <3>1. j - (i - 1) \in 1..(n - i) /\ i + (j - (i - 1)) = j + 1
      BY <1>1, <2>2
    <3> QED
      BY <1>1, <1>2, <1>3, <1>5, <2>2, <3>1
  <2> QED
    BY <2>1, <2>2
<1> QED
  BY <1>1, <1>2, <1>3, <1>4, <1>5, <1>6 DEF n

\* Entries of a queue without repetitions: without entry i, exactly that
\* request is gone.
LEMMA RemoveAtCurrent ==
  ASSUME NEW S, NEW q \in Seq(S), NEW i \in 1..Len(q),
         \A j, k \in DOMAIN q : q[j] = q[k] => j = k
  PROVE  /\ ToSet(RemoveAt(q, i)) = ToSet(q) \ {q[i]}
         /\ \A j, k \in DOMAIN RemoveAt(q, i) : RemoveAt(q, i)[j] = RemoveAt(q, i)[k] => j = k
<1> DEFINE p == RemoveAt(q, i)
           n == Len(q)
<1>1. /\ p \in Seq(S) /\ Len(p) = n - 1
      /\ \A j \in 1..(n - 1) : p[j] = IF j < i THEN q[j] ELSE q[j + 1]
  BY RemoveAtProperties
<1>2. n \in Nat /\ i \in 1..n /\ DOMAIN q = 1..n /\ DOMAIN p = 1..(n - 1)
  BY <1>1, LenProperties
<1> HIDE DEF p, n
<1> DEFINE from(j) == IF j < i THEN j ELSE j + 1
<1>0. ASSUME NEW j \in 1..(n - 1)
      PROVE  from(j) \in 1..n /\ from(j) # i /\ p[j] = q[from(j)]
  BY <1>1, <1>2
<1>3. ASSUME NEW j \in 1..(n - 1), NEW k \in 1..(n - 1), p[j] = p[k]
      PROVE  j = k
  <2>1. from(j) = from(k)
    <3> HIDE DEF from
    <3> QED
      BY <1>0, <1>2, <1>3
  <2> QED
    BY <1>2, <2>1
<1>4. ASSUME NEW j \in 1..(n - 1)
      PROVE  p[j] \in ToSet(q) \ {q[i]}
  <2> HIDE DEF from
  <2> QED
    BY <1>0, <1>2 DEF ToSet
<1>5. ASSUME NEW j \in 1..n, j # i
      PROVE  q[j] \in ToSet(p)
  <2>1. CASE j < i
    <3>1. j \in 1..(n - 1) /\ p[j] = q[j]
      BY <1>1, <1>2, <2>1
    <3> QED
      BY <1>2, <3>1 DEF ToSet
  <2>2. CASE ~(j < i)
    <3>1. j - 1 \in 1..(n - 1) /\ ~(j - 1 < i) /\ (j - 1) + 1 = j
      BY <1>2, <1>5, <2>2
    <3>2. p[j - 1] = q[j]
      BY <1>1, <3>1
    <3> QED
      BY <1>2, <3>1, <3>2 DEF ToSet
  <2> QED
    BY <2>1, <2>2
<1>6. ToSet(p) = ToSet(q) \ {q[i]}
  <2>1. ToSet(p) \subseteq ToSet(q) \ {q[i]}
    BY <1>2, <1>4 DEF ToSet
  <2>2. ToSet(q) \ {q[i]} \subseteq ToSet(p)
    BY <1>2, <1>5 DEF ToSet
  <2> QED
    BY <2>1, <2>2
<1> QED
  BY <1>2, <1>3, <1>6 DEF p

------------------------------------------------------------------------------
(* The permits. *)

\* A holder comes or goes with a permit, or the holders stay.
LEMMA HoldersCounted ==
  ASSUME Inv,
         \/ Holders' = Holders /\ permits' = permits
         \/ \E r \in Holders : Holders' = Holders \ {r} /\ permits' = permits + 1
         \/ permits > 0 /\ \E r \in Requests \ Holders :
              Holders' = Holders \cup {r} /\ permits' = permits - 1
  PROVE  IsFiniteSet(Holders') /\ PermitsConserved' /\ permits' \in 0..Capacity
<1>1. /\ permits \in Nat /\ Capacity \in Nat /\ IsFiniteSet(Holders)
      /\ permits + Cardinality(Holders) = Capacity /\ Cardinality(Holders) \in Nat
  <2>1. IsFiniteSet(Holders) /\ Cardinality(Holders) \in Nat
    BY FS_CardinalityType DEF Inv
  <2>2. permits \in Nat /\ Capacity \in Nat /\ permits + Cardinality(Holders) = Capacity
    <3>1. permits \in 0..Capacity /\ Capacity \in Nat
      BY PoolAssumption DEF Inv, PoolInv, TypeOK
    <3>2. permits + Cardinality(Holders) = Capacity
      BY DEF Inv, PoolInv, PermitsConserved
    <3> QED
      BY <3>1, <3>2
  <2> QED
    BY <2>1, <2>2
<1>2. CASE Holders' = Holders /\ permits' = permits
  BY <1>1, <1>2 DEF PermitsConserved
<1>3. ASSUME NEW r \in Holders, Holders' = Holders \ {r}, permits' = permits + 1
      PROVE  IsFiniteSet(Holders') /\ PermitsConserved' /\ permits' \in 0..Capacity
  <2>1. IsFiniteSet(Holders') /\ Cardinality(Holders') = Cardinality(Holders) - 1
    BY <1>1, <1>3, FS_RemoveElement
  <2>2. Cardinality(Holders') \in Nat
    BY <2>1, FS_CardinalityType
  <2> QED
    BY <1>1, <1>3, <2>1, <2>2 DEF PermitsConserved
<1>4. ASSUME NEW r \in Requests \ Holders, permits > 0,
             Holders' = Holders \cup {r}, permits' = permits - 1
      PROVE  IsFiniteSet(Holders') /\ PermitsConserved' /\ permits' \in 0..Capacity
  <2>1. IsFiniteSet(Holders') /\ Cardinality(Holders') = Cardinality(Holders) + 1
    BY <1>1, <1>4, FS_AddElement
  <2> QED
    BY <1>1, <1>4, <2>1 DEF PermitsConserved
<1> QED
  BY <1>2, <1>3, <1>4

------------------------------------------------------------------------------
(* Init and the steps. *)

\* The server starts with every permit free.
LEMMA InitInv == Init => Inv
<1> SUFFICES ASSUME Init PROVE Inv
  OBVIOUS
<1>1. Holders = {}
  BY DEF Init, Holders, Live
<1>2. IsFiniteSet(Holders) /\ PermitsConserved
  BY <1>1, FS_EmptySet, PoolAssumption DEF Init, PermitsConserved
<1>3. TypeOK
  BY EmptySeq, PoolAssumption DEF Init, TypeOK, Live
<1>4. WaitersAreCurrent
  BY DEF Init, WaitersAreCurrent, ToSet
<1>5. TaskFollowsRequest /\ ReplyIsTrue /\ StreamDeadline
  BY DEF Init, TaskFollowsRequest, ReplyIsTrue, StreamDeadline, Waiting
<1> QED
  BY <1>2, <1>3, <1>4, <1>5 DEF Inv, PoolInv

\* A request that is turned away.
LEMMA RefuseInv ==
  ASSUME Inv, NEW r \in Requests, NEW e \in Endpoints, Refuse(r, e)
  PROVE  Inv'
<1> USE DEF Inv, PoolInv, Refuse
<1>1. request[r] = "none" /\ task[r] = "none" /\ r \notin cancel
  BY DEF TaskFollowsRequest, Waiting, Over
<1>2. Holders' = Holders
  BY <1>1 DEF TypeOK, Holders, Live
<1>3. IsFiniteSet(Holders') /\ PermitsConserved' /\ permits' \in 0..Capacity
  BY <1>2, HoldersCounted
<1>4. TypeOK'
  BY <1>3 DEF TypeOK
<1>5. WaitersAreCurrent'
  BY <1>1 DEF TypeOK, WaitersAreCurrent
<1>6. TaskFollowsRequest'
  BY <1>1 DEF TypeOK, TaskFollowsRequest, Waiting, Over
<1>7. PICK why \in Refusals : reply' = [reply EXCEPT ![r] = why]
  OBVIOUS
<1>8. why \notin {"result", "error", "timed out"}
  BY DEF Refusals
<1>9. ReplyIsTrue'
  BY <1>7, <1>8 DEF TypeOK, ReplyIsTrue
<1>10. StreamDeadline'
  BY <1>1 DEF TypeOK, StreamDeadline
<1> QED
  BY <1>3, <1>4, <1>5, <1>6, <1>9, <1>10

\* A request joins the end of the queue.
LEMMA AcceptInv ==
  ASSUME Inv, NEW r \in Requests, NEW e \in Endpoints, Accept(r, e)
  PROVE  Inv'
<1> USE DEF Inv, PoolInv, Accept
<1>1. request[r] = "none" /\ task[r] = "none" /\ r \notin cancel
  BY DEF TaskFollowsRequest, Waiting, Over
<1>2. Holders' = Holders
  BY <1>1 DEF TypeOK, Holders, Live
<1>3. IsFiniteSet(Holders') /\ PermitsConserved' /\ permits' \in 0..Capacity
  BY <1>2, HoldersCounted
<1>4. /\ waiters' \in Seq(Requests) /\ Len(waiters') = Len(waiters) + 1
      /\ \A i \in 1..Len(waiters) : waiters'[i] = waiters[i]
      /\ waiters'[Len(waiters) + 1] = r
      /\ Len(waiters) \in Nat /\ DOMAIN waiters = 1..Len(waiters)
      /\ DOMAIN waiters' = 1..(Len(waiters) + 1)
  <2>1. waiters \in Seq(Requests) /\ waiters' = Append(waiters, r)
    BY DEF TypeOK
  <2>2. /\ waiters' \in Seq(Requests) /\ Len(waiters') = Len(waiters) + 1
        /\ \A i \in 1..Len(waiters) : waiters'[i] = waiters[i]
        /\ waiters'[Len(waiters) + 1] = r
    BY <2>1, AppendProperties
  <2>3. /\ Len(waiters) \in Nat /\ DOMAIN waiters = 1..Len(waiters)
        /\ DOMAIN waiters' = 1..Len(waiters')
    BY <2>1, <2>2, LenProperties
  <2> QED
    BY <2>2, <2>3
<1>5. TypeOK'
  BY <1>3, <1>4 DEF TypeOK
<1>6. WaitersAreCurrent'
  <2> DEFINE n == Len(waiters)
  <2>1. r \notin ToSet(waiters)
    BY <1>1 DEF WaitersAreCurrent
  <2>2. \A i \in 1..n : waiters[i] \in ToSet(waiters)
    BY <1>4 DEF ToSet
  <2>3. ToSet(waiters') = ToSet(waiters) \cup {r}
    BY <1>4 DEF ToSet
  <2>4. {x \in Requests : request'[x] = "waiting"} = {x \in Requests : request[x] = "waiting"} \cup {r}
    BY DEF TypeOK
  <2>5. \A i, j \in 1..n : waiters[i] = waiters[j] => i = j
    BY <1>4 DEF WaitersAreCurrent
  <2> HIDE DEF n
  <2>6. ASSUME NEW i \in 1..(n + 1), NEW j \in 1..(n + 1), waiters'[i] = waiters'[j]
        PROVE  i = j
    <3>1. n \in Nat /\ \A k \in 1..(n + 1) : k \in 1..n \/ k = n + 1
      BY <1>4 DEF n
    <3>2. /\ \A k \in 1..n : waiters'[k] = waiters[k] /\ waiters[k] # r
          /\ waiters'[n + 1] = r
      BY <1>4, <2>1, <2>2 DEF n
    <3> QED
      BY <2>5, <2>6, <3>1, <3>2
  <2> QED
    BY <1>4, <2>3, <2>4, <2>6 DEF WaitersAreCurrent, n
<1>7. TaskFollowsRequest'
  BY <1>1 DEF TypeOK, TaskFollowsRequest, Waiting, Over
<1>8. ReplyIsTrue'
  BY DEF TypeOK, ReplyIsTrue
<1>9. StreamDeadline'
  BY <1>1 DEF TypeOK, StreamDeadline
<1> QED
  BY <1>3, <1>5, <1>6, <1>7, <1>8, <1>9

\* The first of the queue gets a permit.
LEMMA GrantInv ==
  ASSUME Inv, Grant
  PROVE  Inv'
<1> USE DEF Inv, PoolInv, Grant
<1> DEFINE r == Head(waiters)
           n == Len(waiters)
<1>1. /\ n \in Nat \ {0} /\ DOMAIN waiters = 1..n /\ r = waiters[1] /\ r \in Requests
      /\ waiters' \in Seq(Requests) /\ Len(waiters') = n - 1 /\ DOMAIN waiters' = 1..(n - 1)
      /\ \A i \in 1..(n - 1) : waiters'[i] = waiters[i + 1]
  <2>1. waiters \in Seq(Requests) /\ waiters # <<>> /\ waiters' = Tail(waiters)
    BY DEF TypeOK
  <2>2. n \in Nat \ {0} /\ DOMAIN waiters = 1..n
    BY <2>1, EmptySeq, LenProperties
  <2>3. /\ r \in Requests /\ waiters' \in Seq(Requests) /\ Len(waiters') = n - 1
        /\ \A i \in 1..(n - 1) : waiters'[i] = waiters[i + 1]
    BY <2>1, HeadTailProperties
  <2>4. DOMAIN waiters' = 1..Len(waiters') /\ r = waiters[1]
    BY <2>1, <2>3, LenProperties
  <2> QED
    BY <2>2, <2>3, <2>4
<1>2. request[r] = "waiting" /\ task[r] = "none" /\ r \notin cancel
  <2>1. r \in ToSet(waiters)
    BY <1>1 DEF ToSet
  <2> QED
    BY <2>1 DEF WaitersAreCurrent, TaskFollowsRequest, Waiting, Over
<1> HIDE DEF r
<1>3. permits' = permits - 1 /\ request' = [request EXCEPT ![r] = "granted"]
  BY DEF r
<1>4. Holders' = Holders \cup {r} /\ r \notin Holders
  <2>1. r \in Requests /\ request \in [Requests -> {"none", "waiting", "granted", "running", "answered", "gone"}]
    BY <1>1 DEF TypeOK
  <2> QED
    BY <1>2, <1>3, <2>1 DEF Holders, Live
<1>5. IsFiniteSet(Holders') /\ PermitsConserved' /\ permits' \in 0..Capacity
  BY <1>1, <1>3, <1>4, HoldersCounted
<1>6. TypeOK'
  BY <1>1, <1>3, <1>5 DEF TypeOK
<1>7. WaitersAreCurrent'
  <2> HIDE DEF n
  <2>1. \A i, j \in 1..n : waiters[i] = waiters[j] => i = j
    BY <1>1 DEF WaitersAreCurrent
  <2>2. ASSUME NEW i \in 1..(n - 1), NEW j \in 1..(n - 1), waiters'[i] = waiters'[j]
        PROVE  i = j
    <3>1. i + 1 \in 1..n /\ j + 1 \in 1..n /\ waiters[i + 1] = waiters[j + 1]
      BY <1>1, <2>2
    <3>2. i + 1 = j + 1
      BY <2>1, <3>1
    <3> QED
      BY <3>2
  <2>3. ASSUME NEW i \in 1..(n - 1)
        PROVE  waiters'[i] \in ToSet(waiters) \ {r}
    <3>1. i + 1 \in 1..n /\ 1 \in 1..n /\ i + 1 # 1
      BY <1>1
    <3> QED
      BY <1>1, <2>1, <3>1 DEF ToSet
  <2>4. ASSUME NEW i \in 1..n, waiters[i] # r
        PROVE  waiters[i] \in ToSet(waiters')
    <3>1. i - 1 \in 1..(n - 1) /\ (i - 1) + 1 = i
      BY <1>1, <2>4
    <3> QED
      BY <1>1, <3>1 DEF ToSet
  <2>5. ToSet(waiters') = ToSet(waiters) \ {r}
    <3>1. ToSet(waiters') \subseteq ToSet(waiters) \ {r}
      BY <1>1, <2>3 DEF ToSet
    <3>2. ToSet(waiters) \ {r} \subseteq ToSet(waiters')
      BY <1>1, <2>4 DEF ToSet
    <3> QED
      BY <3>1, <3>2
  <2>6. {x \in Requests : request'[x] = "waiting"} = {x \in Requests : request[x] = "waiting"} \ {r}
    BY <1>1, <1>3 DEF TypeOK
  <2> QED
    BY <1>1, <2>2, <2>5, <2>6 DEF WaitersAreCurrent
<1>8. \A x \in Requests : request'[x] = IF x = r THEN "granted" ELSE request[x]
  BY <1>3 DEF TypeOK
<1>9. TaskFollowsRequest'
  <2>1. reply[r] \notin {"result", "error", "timed out"}
    BY <1>1, <1>2 DEF TaskFollowsRequest, Over
  <2> QED
    BY <1>2, <1>8, <2>1 DEF TaskFollowsRequest, Waiting, Over
<1>10. ReplyIsTrue' /\ StreamDeadline'
  BY <1>2, <1>8 DEF ReplyIsTrue, StreamDeadline
<1> QED
  BY <1>5, <1>6, <1>7, <1>9, <1>10

\* The permit moves from the request into its task.
LEMMA SpawnInv ==
  ASSUME Inv, NEW r \in Requests, Spawn(r)
  PROVE  Inv'
<1> USE DEF Inv, PoolInv, Spawn
<1>1. request[r] = "granted" /\ task[r] = "none" /\ r \notin cancel
  BY DEF TaskFollowsRequest, Waiting, Over
<1>2. Holders' = Holders
  BY <1>1 DEF TypeOK, Holders, Live
<1>3. IsFiniteSet(Holders') /\ PermitsConserved' /\ permits' \in 0..Capacity
  BY <1>2, HoldersCounted
<1>4. TypeOK'
  BY <1>3 DEF TypeOK, Live
<1>5. WaitersAreCurrent'
  BY <1>1 DEF TypeOK, WaitersAreCurrent
<1>6. TaskFollowsRequest'
  BY <1>1 DEF TypeOK, TaskFollowsRequest, Waiting, Over
<1>7. ReplyIsTrue'
  BY <1>1 DEF TypeOK, ReplyIsTrue, TaskFollowsRequest, Over
<1>8. StreamDeadline'
  BY DEF TypeOK, StreamDeadline
<1> QED
  BY <1>3, <1>4, <1>5, <1>6, <1>7, <1>8

\* A dropped future leaves the queue and gives back the permit that it was
\* granted and has not moved into a task.
LEMMA DropFutureFacts ==
  ASSUME Inv, NEW r \in Requests, NEW next \in Over, DropFuture(r, next), UNCHANGED task
  PROVE  /\ IsFiniteSet(Holders') /\ PermitsConserved' /\ permits' \in 0..Capacity
         /\ waiters' \in Seq(Requests) /\ WaitersAreCurrent'
         /\ request \in [Requests -> {"none", "waiting", "granted", "running", "answered", "gone"}]
         /\ request[r] \notin Over
         /\ request' = [request EXCEPT ![r] = next]
<1> USE DEF Inv, PoolInv
<1>1. /\ request \in [Requests -> {"none", "waiting", "granted", "running", "answered", "gone"}]
      /\ request' = [request EXCEPT ![r] = next]
      /\ request[r] \in {"waiting", "granted", "running"} /\ next \in {"answered", "gone"}
      /\ permits' = permits + Dropped(r) /\ permits \in Nat
  <2>1. permits \in 0..Capacity /\ Capacity \in Nat
    BY PoolAssumption DEF TypeOK
  <2>2. permits \in Nat
    BY <2>1
  <2> QED
    BY <2>2 DEF TypeOK, DropFuture, Over
<1>2. request[r] = "granted" => task[r] = "none"
  BY DEF TaskFollowsRequest, Waiting
<1>3. IsFiniteSet(Holders') /\ PermitsConserved' /\ permits' \in 0..Capacity
  <2>1. CASE request[r] = "granted"
    <3>1. permits' = permits + 1 /\ r \in Holders /\ Holders' = Holders \ {r}
      BY <1>1, <1>2, <2>1 DEF Dropped, Holders, Live
    <3> QED
      BY <3>1, HoldersCounted
  <2>2. CASE request[r] # "granted"
    <3>1. permits' = permits /\ Holders' = Holders
      BY <1>1, <2>2 DEF Dropped, Holders, Live
    <3> QED
      BY <3>1, HoldersCounted
  <2> QED
    BY <2>1, <2>2
<1>4. waiters' \in Seq(Requests) /\ WaitersAreCurrent'
  <2>1. /\ waiters \in Seq(Requests) /\ DOMAIN waiters = 1..Len(waiters)
        /\ ToSet(waiters) = {x \in Requests : request[x] = "waiting"}
        /\ \A i, j \in DOMAIN waiters : waiters[i] = waiters[j] => i = j
    BY LenProperties DEF TypeOK, WaitersAreCurrent
  <2>2. CASE request[r] = "waiting"
    <3>1. PICK i \in 1..Len(waiters) : waiters[i] = r /\ waiters' = RemoveAt(waiters, i)
      BY <2>1, <2>2 DEF DropFuture, LeaveQueue
    <3>2. waiters' \in Seq(Requests)
      BY <2>1, <3>1, RemoveAtProperties
    <3>3. /\ ToSet(waiters') = ToSet(waiters) \ {r}
          /\ \A j, k \in DOMAIN waiters' : waiters'[j] = waiters'[k] => j = k
      BY <2>1, <3>1, RemoveAtCurrent
    <3>4. {x \in Requests : request'[x] = "waiting"} = {x \in Requests : request[x] = "waiting"} \ {r}
      BY <1>1
    <3> QED
      BY <2>1, <3>2, <3>3, <3>4 DEF WaitersAreCurrent
  <2>3. CASE request[r] # "waiting"
    <3>1. waiters' = waiters
      BY <2>3 DEF DropFuture, LeaveQueue
    <3>2. {x \in Requests : request'[x] = "waiting"} = {x \in Requests : request[x] = "waiting"}
      BY <1>1, <2>3
    <3> QED
      BY <2>1, <3>1, <3>2 DEF WaitersAreCurrent
  <2> QED
    BY <2>2, <2>3
<1> QED
  BY <1>1, <1>3, <1>4 DEF Over

\* The deadline.
LEMMA TimeoutInv ==
  ASSUME Inv, NEW r \in Requests, Timeout(r)
  PROVE  Inv'
<1> USE DEF Inv, PoolInv, Timeout
<1>1. /\ IsFiniteSet(Holders') /\ PermitsConserved' /\ permits' \in 0..Capacity
      /\ waiters' \in Seq(Requests) /\ WaitersAreCurrent'
      /\ request[r] \notin Over
      /\ request' = [request EXCEPT ![r] = "answered"]
  BY DropFutureFacts DEF Over
<1>2. TypeOK'
  BY <1>1 DEF TypeOK
<1>3. TaskFollowsRequest'
  BY <1>1 DEF TypeOK, TaskFollowsRequest, Waiting, Over
<1>4. reply[r] \notin {"result", "error", "timed out"}
  BY <1>1 DEF TaskFollowsRequest
<1>5. ReplyIsTrue'
  BY <1>4 DEF TypeOK, ReplyIsTrue
<1>6. StreamDeadline'
  BY <1>1 DEF TypeOK, StreamDeadline
<1> QED
  BY <1>1, <1>2, <1>3, <1>5, <1>6

\* The stream's task notices that the client is gone.
LEMMA NoticeClosedInv ==
  ASSUME Inv, NEW r \in Requests, NoticeClosed(r)
  PROVE  Inv'
<1> USE DEF Inv, PoolInv, NoticeClosed
<1>1. /\ IsFiniteSet(Holders') /\ PermitsConserved' /\ permits' \in 0..Capacity
      /\ waiters' \in Seq(Requests) /\ WaitersAreCurrent'
      /\ request[r] \notin Over
      /\ request' = [request EXCEPT ![r] = "gone"]
  BY DropFutureFacts DEF Over
<1>2. TypeOK'
  BY <1>1 DEF TypeOK
<1>3. TaskFollowsRequest'
  BY <1>1 DEF TypeOK, TaskFollowsRequest, Waiting, Over
<1>4. reply[r] \notin {"result", "error", "timed out"}
  BY <1>1 DEF TaskFollowsRequest
<1>5. ReplyIsTrue'
  BY <1>4 DEF TypeOK, ReplyIsTrue
<1>6. StreamDeadline'
  BY <1>1 DEF TypeOK, StreamDeadline
<1> QED
  BY <1>1, <1>2, <1>3, <1>5, <1>6

\* A hang-up drops the future of a sensitivity request only.
LEMMA HangUpInv ==
  ASSUME Inv, NEW r \in Requests, HangUp(r)
  PROVE  Inv'
<1> USE DEF Inv, PoolInv, HangUp
<1>1. CASE endpoint[r] = "sensitivity" /\ request[r] \in {"waiting", "granted", "running"}
  <2>1. /\ IsFiniteSet(Holders') /\ PermitsConserved' /\ permits' \in 0..Capacity
        /\ waiters' \in Seq(Requests) /\ WaitersAreCurrent'
        /\ request[r] \notin Over
        /\ request' = [request EXCEPT ![r] = "gone"]
    BY <1>1, DropFutureFacts DEF Over
  <2>2. TypeOK'
    BY <2>1 DEF TypeOK
  <2>3. TaskFollowsRequest'
    BY <2>1 DEF TypeOK, TaskFollowsRequest, Waiting, Over
  <2>4. ReplyIsTrue'
    BY DEF ReplyIsTrue
  <2>5. StreamDeadline'
    BY <1>1, <2>1 DEF TypeOK, StreamDeadline
  <2> QED
    BY <2>1, <2>2, <2>3, <2>4, <2>5
<1>2. CASE ~(endpoint[r] = "sensitivity" /\ request[r] \in {"waiting", "granted", "running"})
  <2>1. UNCHANGED <<request, waiters, permits, endpoint, reply, task, cancel>>
    BY <1>2
  <2>2. Holders' = Holders
    BY <2>1 DEF Holders, Live
  <2>3. IsFiniteSet(Holders') /\ PermitsConserved'
    BY <2>1, <2>2, HoldersCounted
  <2>4. TypeOK' /\ WaitersAreCurrent'
    BY <2>1 DEF TypeOK, WaitersAreCurrent, Refusals
  <2>5. TaskFollowsRequest' /\ ReplyIsTrue' /\ StreamDeadline'
    BY <2>1 DEF TaskFollowsRequest, ReplyIsTrue, StreamDeadline
  <2> QED
    BY <2>3, <2>4, <2>5
<1> QED
  BY <1>1, <1>2

\* The answer of an ended task.
LEMMA DeliverInv ==
  ASSUME Inv, NEW r \in Requests, Deliver(r)
  PROVE  Inv'
<1> USE DEF Inv, PoolInv, Deliver
<1>1. request[r] = "running" /\ r \notin cancel /\ task[r] \in {"solved", "failed"}
  BY DEF TaskFollowsRequest, Over
<1>2. Holders' = Holders
  BY <1>1 DEF TypeOK, Holders, Live
<1>3. IsFiniteSet(Holders') /\ PermitsConserved' /\ permits' \in 0..Capacity
  BY <1>2, HoldersCounted
<1>4. TypeOK'
  BY <1>3 DEF TypeOK
<1>5. WaitersAreCurrent'
  BY <1>1 DEF TypeOK, WaitersAreCurrent
<1>6. TaskFollowsRequest'
  BY <1>1 DEF TypeOK, TaskFollowsRequest, Waiting, Over
<1>7. ReplyIsTrue'
  BY <1>1 DEF TypeOK, ReplyIsTrue
<1>8. StreamDeadline'
  BY <1>1 DEF TypeOK, StreamDeadline
<1> QED
  BY <1>3, <1>4, <1>5, <1>6, <1>7, <1>8

\* The solver converges; its task goes on.
LEMMA ConvergeInv ==
  ASSUME Inv, NEW r \in Requests, Converge(r)
  PROVE  Inv'
<1> USE DEF Inv, PoolInv, Converge
<1>1. Holders' = Holders
  BY DEF TypeOK, Holders, Live
<1>2. IsFiniteSet(Holders') /\ PermitsConserved' /\ permits' \in 0..Capacity
  BY <1>1, HoldersCounted
<1>3. TypeOK' /\ WaitersAreCurrent'
  BY DEF TypeOK, WaitersAreCurrent, Live
<1>4. TaskFollowsRequest' /\ ReplyIsTrue' /\ StreamDeadline'
  BY DEF TypeOK, TaskFollowsRequest, ReplyIsTrue, StreamDeadline, Waiting
<1> QED
  BY <1>2, <1>3, <1>4

\* A task ends and its permit is free again.
LEMMA EndTaskInv ==
  ASSUME Inv, NEW r \in Requests, task[r] \in Live, NEW result \in {"solved", "failed"},
         EndTask(r, result)
  PROVE  Inv'
<1> USE DEF Inv, PoolInv, EndTask
<1>1. request[r] \notin Waiting
  BY DEF TaskFollowsRequest, Live
<1>2. r \in Holders /\ Holders' = Holders \ {r}
  BY <1>1 DEF TypeOK, Holders, Live, Waiting
<1>3. IsFiniteSet(Holders') /\ PermitsConserved' /\ permits' \in 0..Capacity
  BY <1>2, HoldersCounted
<1>4. TypeOK' /\ WaitersAreCurrent'
  BY <1>3 DEF TypeOK, WaitersAreCurrent
<1>5. TaskFollowsRequest'
  BY <1>1 DEF TypeOK, TaskFollowsRequest
<1>6. ReplyIsTrue' /\ StreamDeadline'
  BY DEF TypeOK, ReplyIsTrue, StreamDeadline, Live
<1> QED
  BY <1>3, <1>4, <1>5, <1>6

\* A stuttering step keeps the invariant.
LEMMA StutterInv == Inv /\ UNCHANGED vars => Inv'
<1> SUFFICES ASSUME Inv, UNCHANGED vars PROVE Inv'
  OBVIOUS
<1> USE DEF Inv, PoolInv, vars
<1>1. Holders' = Holders
  BY DEF Holders, Live
<1>2. IsFiniteSet(Holders') /\ PermitsConserved' /\ permits' \in 0..Capacity
  BY <1>1, HoldersCounted
<1>3. TypeOK' /\ WaitersAreCurrent'
  BY DEF TypeOK, WaitersAreCurrent, Refusals
<1>4. TaskFollowsRequest' /\ ReplyIsTrue' /\ StreamDeadline'
  BY DEF TaskFollowsRequest, ReplyIsTrue, StreamDeadline
<1> QED
  BY <1>2, <1>3, <1>4

\* Every step keeps the invariant.
LEMMA NextInv == Inv /\ [Next]_vars => Inv'
<1> SUFFICES ASSUME Inv, [Next]_vars PROVE Inv'
  OBVIOUS
<1>1. ASSUME NEW r \in Requests, NEW e \in Endpoints, Refuse(r, e) \/ Accept(r, e)
      PROVE  Inv'
  BY <1>1, RefuseInv, AcceptInv
<1>2. CASE Grant
  BY <1>2, GrantInv
<1>3. ASSUME NEW r \in Requests, Work(r) \/ Timeout(r) \/ Converge(r) \/ HangUp(r)
      PROVE  Inv'
  BY <1>3, SpawnInv, DeliverInv, NoticeClosedInv, TimeoutInv, ConvergeInv, HangUpInv DEF Work
<1>4. ASSUME NEW r \in Requests, TaskStep(r) \/ FailTask(r)
      PROVE  Inv'
  BY <1>4, EndTaskInv DEF TaskStep, Finish, ObserveCancel, FailTask, Live
<1>5. CASE Quiet \/ UNCHANGED vars
  BY <1>5, StutterInv DEF Quiet
<1> QED
  BY <1>1, <1>2, <1>3, <1>4, <1>5 DEF Next

------------------------------------------------------------------------------
(* The theorems. *)

\* The invariant holds in every state of the server.
THEOREM Invariance == Spec => []Inv
BY InitInv, NextInv, PTL DEF Spec

\* No permit is lost or given back twice and the semaphore's queue holds exactly
\* the waiting requests, through deadlines and hang-ups at any moment.
THEOREM PermitsAreConserved == Spec => []PoolInv
<1>1. Inv => PoolInv
  BY DEF Inv
<1> QED
  BY <1>1, Invariance, PTL

\* A reply says what the request's own task did.
THEOREM RepliesAreTrue == Spec => []ReplyIsTrue
<1>1. Inv => ReplyIsTrue
  BY DEF Inv
<1> QED
  BY <1>1, Invariance, PTL

\* A solve of solve_stream runs under its deadline or has been told to stop.
THEOREM StreamKeepsDeadline == Spec => []StreamDeadline
<1>1. Inv => StreamDeadline
  BY DEF Inv
<1> QED
  BY <1>1, Invariance, PTL

------------------------------------------------------------------------------
(* The rate limiter: the inductive invariant. *)

\* What a handler has read; the key is its sender's own.
Readings ==
  {r \in [state : {"read"}, sender : Senders, key : ExpensiveEndpoints \X Senders, at : Nat] :
     r.key[2] = r.sender}

QueueOf(b, key) == IF key \in DOMAIN b THEN b[key] ELSE <<>>

IsBuckets(b) ==
  /\ b = [k \in DOMAIN b |-> b[k]]
  /\ DOMAIN b \subseteq ExpensiveEndpoints \X Senders
  /\ \A k \in DOMAIN b : b[k] \in Seq(Nat)

LimiterTypeOK ==
  /\ now \in Nat
  /\ IsBuckets(bucket)
  /\ handler \in [Handlers -> Readings \cup {Idle}]
  /\ accepted \in [Senders -> [ExpensiveEndpoints -> Seq(Nat)]]

\* A handler waits for the mutex no longer than Delay.
Prompt(t, n) == t <= n /\ n <= t + Delay

\* q is the bucket of the requests accepted at the instants a, at time n.
Recorded(q, a, n) ==
  /\ Len(q) <= Len(a)
  /\ \A k \in 1..Len(q) : Prompt(q[k], a[Len(a) - Len(q) + k])
  /\ \A i \in 1..(Len(a) - Len(q)) : a[i] + Window <= n + Delay

\* The requests accepted at the instants a keep the limit m.
InWindow(a, i) == {j \in i..Len(a) : a[j] - a[i] < Window - Delay}
Limited(a, m) == \A i \in DOMAIN a : Cardinality(InWindow(a, i)) <= m

LimiterInv ==
  /\ LimiterTypeOK
  /\ \A h \in Handlers : handler[h].state = "read" => Prompt(handler[h].at, now)
  /\ \A s \in Senders, e \in ExpensiveEndpoints : Recorded(QueueOf(bucket, <<e, s>>), accepted[s][e], now)
  /\ \A s \in Senders, e \in ExpensiveEndpoints : Limited(accepted[s][e], Events[e])

------------------------------------------------------------------------------
(* Pruning. *)

\* A set of naturals has one least element.
LEMMA LeastNatural ==
  ASSUME NEW S \in SUBSET Nat, S # {}
  PROVE  Min(S) \in S /\ \A y \in S : Min(S) <= y
<1> DEFINE less == {p \in Nat \X Nat : p[1] < p[2]}
<1>1. IsWellFoundedOn(less, Nat)
  BY NatLessThanWellFounded DEF OpToRel
<1> HIDE DEF less
<1>2. PICK x \in S : \A y \in S : ~(<<y, x>> \in less)
  BY <1>1, WFMin
<1>3. ASSUME NEW y \in S
      PROVE  x <= y
  <2>1. <<y, x>> \notin less /\ x \in Nat /\ y \in Nat
    BY <1>2
  <2>2. <<y, x>> \in Nat \X Nat
    BY <2>1
  <2>3. ~(y < x)
    BY <2>1, <2>2 DEF less
  <2> QED
    BY <2>1, <2>3
<1> QED
  BY <1>3 DEF Min

\* What is left of q at time t: a tail that begins with a live instant, if any.
Pruned(q, t, p) ==
  /\ p \in Seq(Nat)
  /\ Len(p) <= Len(q)
  /\ \A k \in 1..Len(p) : p[k] = q[Len(q) - Len(p) + k]
  /\ \A i \in 1..(Len(q) - Len(p)) : ~Fresh(q[i], t)
  /\ p # <<>> => Fresh(Head(p), t)

\* prune_rate_bucket drops dead instants from the front and stops at a live one.
LEMMA PruneFacts ==
  ASSUME NEW q \in Seq(Nat), NEW t \in Nat
  PROVE  Pruned(q, t, Prune(q, t))
<1> DEFINE p == Prune(q, t)
           live == {i \in DOMAIN q : Fresh(q[i], t)}
           n == Len(q)
<1> SUFFICES Pruned(q, t, p)
  OBVIOUS
<1>1. n \in Nat /\ DOMAIN q = 1..n /\ live \subseteq 1..n
  BY LenProperties
<1>2. CASE live = {}
  <2>1. p = <<>>
    BY <1>2 DEF Prune
  <2>2. Len(p) = 0 /\ p \in Seq(Nat)
    BY <2>1
  <2>3. \A i \in 1..n : ~Fresh(q[i], t)
    BY <1>1, <1>2
  <2> HIDE DEF p
  <2> QED
    BY <1>1, <2>1, <2>2, <2>3 DEF Pruned
<1>3. CASE live # {}
  <2> DEFINE m == Min(live)
  <2>0. p = SubSeq(q, m, n)
    BY <1>3 DEF Prune
  <2>1. m \in live /\ \A i \in live : m <= i
    <3>1. live \in SUBSET Nat
      BY <1>1
    <3> HIDE DEF live
    <3> QED
      BY <1>3, <3>1, LeastNatural
  <2> HIDE DEF m, p
  <2>2. m \in 1..n /\ Fresh(q[m], t)
    BY <1>1, <2>1
  <2>3. ASSUME NEW i \in 1..(m - 1)
        PROVE  ~Fresh(q[i], t)
    <3>1. i \in DOMAIN q /\ ~(m <= i)
      BY <1>1, <2>2
    <3> QED
      BY <2>1, <3>1
  <2> HIDE DEF live
  <2>4. \A i \in m..n : q[i] \in Nat
    BY <1>1, <2>2
  <2>5. p \in Seq(Nat) /\ Len(p) = n - m + 1 /\ \A i \in 1..(n - m + 1) : p[i] = q[m + i - 1]
    BY <1>1, <2>0, <2>2, <2>4, SubSeqProperties
  <2>6. ASSUME NEW k \in 1..Len(p)
        PROVE  p[k] = q[n - Len(p) + k]
    <3>1. n - Len(p) + k = m + k - 1 /\ k \in 1..(n - m + 1)
      BY <1>1, <2>2, <2>5
    <3> QED
      BY <2>5, <3>1
  <2>7. p # <<>> /\ Head(p) = q[m]
    <3>1. Len(p) # 0 /\ 1 \in 1..(n - m + 1) /\ m + 1 - 1 = m
      BY <1>1, <2>2, <2>5
    <3>2. p # <<>> /\ p[1] = q[m]
      BY <2>5, <3>1
    <3> QED
      BY <2>5, <3>2
  <2> QED
    BY <1>1, <2>2, <2>3, <2>5, <2>6, <2>7 DEF Pruned
<1> QED
  BY <1>2, <1>3

\* Pruning by a handler that was prompt leaves what a window still needs.
LEMMA PruneRecorded ==
  ASSUME NEW q \in Seq(Nat), NEW a \in Seq(Nat), NEW n \in Nat, NEW t \in Nat,
         Recorded(q, a, n), Prompt(t, n), NEW p, Pruned(q, t, p)
  PROVE  Recorded(p, a, n)
<1> DEFINE l == Len(a)
           m == Len(q)
           k == Len(p)
<1>1. /\ p \in Seq(Nat) /\ k <= m
      /\ \A i \in 1..k : p[i] = q[m - k + i]
      /\ \A i \in 1..(m - k) : ~Fresh(q[i], t)
  BY DEF Pruned
<1>2. l \in Nat /\ m \in Nat /\ k \in Nat /\ Window \in Nat /\ Delay \in Nat
  BY <1>1, LenProperties, LimiterAssumption
<1>3. /\ m <= l
      /\ \A i \in 1..m : Prompt(q[i], a[l - m + i])
      /\ \A i \in 1..(l - m) : a[i] + Window <= n + Delay
  BY DEF Recorded
<1>4. (\A i \in 1..m : q[i] \in Nat) /\ (\A i \in 1..l : a[i] \in Nat)
  BY LenProperties
<1> HIDE DEF l, m, k
<1>5. ASSUME NEW i \in 1..k
      PROVE  Prompt(p[i], a[l - k + i])
  <2>1. m - k + i \in 1..m /\ l - m + (m - k + i) = l - k + i
    BY <1>1, <1>2
  <2> QED
    BY <1>1, <1>3, <2>1
<1>6. ASSUME NEW i \in 1..(l - k)
      PROVE  a[i] + Window <= n + Delay
  <2>1. CASE i <= l - m
    BY <1>2, <1>3, <2>1
  <2>2. CASE i > l - m
    <3> DEFINE j == i - (l - m)
    <3>1. j \in 1..(m - k) /\ j \in 1..m /\ l - m + j = i
      BY <1>1, <1>2, <1>3, <2>2
    <3> HIDE DEF j
    <3>2. ~Fresh(q[j], t) /\ Prompt(q[j], a[i]) /\ q[j] \in Nat
      BY <1>1, <1>3, <1>4, <3>1
    <3>3. a[i] \in Nat
      BY <1>2, <1>3, <1>4, <3>1
    <3>4. t <= n /\ a[i] <= q[j] + Delay
      BY <3>2 DEF Prompt
    <3>5. q[j] <= t /\ ~(t - q[j] < Window)
      BY <3>2 DEF Fresh
    <3>6. \A x, y \in Nat : x <= y + Delay /\ y <= t /\ ~(t - y < Window) => x + Window <= n + Delay
      BY <1>2, <3>4
    <3> QED
      BY <3>2, <3>3, <3>4, <3>5, <3>6
  <2> QED
    BY <1>2, <2>1, <2>2
<1> QED
  BY <1>1, <1>2, <1>3, <1>5, <1>6 DEF Recorded, l, m, k

\* An event is recorded when its request is accepted.
LEMMA AppendRecorded ==
  ASSUME NEW q \in Seq(Nat), NEW a \in Seq(Nat), NEW n \in Nat, NEW t \in Nat,
         Recorded(q, a, n), Prompt(t, n), NEW p, p = Append(q, t), NEW b, b = Append(a, n)
  PROVE  Recorded(p, b, n)
<1> DEFINE l == Len(a)
           m == Len(q)
<1>1. l \in Nat /\ m \in Nat /\ m <= l
  BY LenProperties DEF Recorded
<1>2. /\ Len(p) = m + 1 /\ p[m + 1] = t /\ \A i \in 1..m : p[i] = q[i]
      /\ Len(b) = l + 1 /\ b[l + 1] = n /\ \A i \in 1..l : b[i] = a[i]
  BY AppendProperties
<1>3. /\ \A i \in 1..m : Prompt(q[i], a[l - m + i])
      /\ \A i \in 1..(l - m) : a[i] + Window <= n + Delay
  BY DEF Recorded
<1> HIDE DEF l, m
<1>4. Len(b) - Len(p) = l - m
  BY <1>1, <1>2
<1>5. ASSUME NEW i \in 1..(m + 1)
      PROVE  Prompt(p[i], b[l - m + i])
  <2>1. CASE i = m + 1
    <3>1. l - m + i = l + 1
      BY <1>1, <2>1
    <3> QED
      BY <1>2, <2>1, <3>1
  <2>2. CASE i # m + 1
    <3>1. i \in 1..m /\ l - m + i \in 1..l
      BY <1>1, <2>2
    <3> QED
      BY <1>2, <1>3, <3>1
  <2> QED
    BY <2>1, <2>2
<1>6. ASSUME NEW i \in 1..(l - m)
      PROVE  b[i] + Window <= n + Delay
  <2>1. i \in 1..l
    BY <1>1
  <2> QED
    BY <1>2, <1>3, <2>1
<1>7. \A i \in 1..Len(p) : Prompt(p[i], b[Len(b) - Len(p) + i])
  BY <1>2, <1>4, <1>5
<1>8. \A i \in 1..(Len(b) - Len(p)) : b[i] + Window <= n + Delay
  BY <1>4, <1>6
<1>9. Len(p) <= Len(b)
  BY <1>1, <1>2
<1> QED
  BY ONLY <1>7, <1>8, <1>9 DEF Recorded

\* While the bucket has room, one more request keeps the limit.
LEMMA LimitKept ==
  ASSUME NEW q \in Seq(Nat), NEW a \in Seq(Nat), NEW n \in Nat, NEW m \in Nat,
         Recorded(q, a, n), Limited(a, m), Len(q) < m, NEW b, b = Append(a, n)
  PROVE  Limited(b, m)
<1> DEFINE l == Len(a)
           k == Len(q)
<1>1. l \in Nat /\ k \in Nat /\ k <= l /\ DOMAIN a = 1..l
  BY LenProperties DEF Recorded
<1>2. b \in Seq(Nat) /\ Len(b) = l + 1 /\ b[l + 1] = n /\ \A i \in 1..l : b[i] = a[i]
  BY AppendProperties
<1>3. DOMAIN b = 1..(l + 1)
  BY <1>2, LenProperties
<1>4. Window \in Nat /\ Delay \in Nat /\ Delay <= Window
  BY LimiterAssumption
<1>5. \A i \in 1..(l - k) : a[i] + Window <= n + Delay
  BY DEF Recorded
<1>6. \A i \in 1..l : a[i] \in Nat
  BY <1>1
<1> HIDE DEF l, k
<1>7. ASSUME NEW i \in 1..(l + 1)
      PROVE  Cardinality(InWindow(b, i)) <= m
  <2>1. CASE i \in 1..(l - k)
    <3>1. i \in 1..l /\ a[i] \in Nat /\ b[i] = a[i]
      BY <1>1, <1>2, <1>6, <2>1
    <3>2. ~(n - a[i] < Window - Delay)
      <4>1. \A x \in Nat : x + Window <= n + Delay => ~(n - x < Window - Delay)
        BY <1>4
      <4> QED
        BY <1>5, <2>1, <3>1, <4>1
    <3>3. \A j \in i..(l + 1) : j = l + 1 \/ (j \in i..l /\ b[j] = a[j])
      BY <1>1, <1>2, <3>1
    <3>4. i..l \subseteq i..(l + 1) /\ l + 1 \notin i..l
      BY <1>1, <3>1
    <3>5. \A j \in i..l : b[j] = a[j]
      BY <1>1, <1>2, <3>1
    <3>6. InWindow(b, i) = InWindow(a, i)
      BY <1>2, <3>1, <3>2, <3>3, <3>4, <3>5 DEF InWindow, l
    <3> QED
      BY <1>1, <3>1, <3>6 DEF Limited
  <2>2. CASE i \notin 1..(l - k)
    <3>1. i > l - k /\ i \in Int /\ l + 1 \in Int
      BY <1>1, <2>2
    <3>2. /\ IsFiniteSet(i..(l + 1))
          /\ Cardinality(i..(l + 1)) = IF i > l + 1 THEN 0 ELSE (l + 1) - i + 1
      BY <3>1, FS_Interval
    <3>3. InWindow(b, i) \in SUBSET (i..(l + 1))
      BY <1>2 DEF InWindow
    <3>4. /\ IsFiniteSet(InWindow(b, i))
          /\ Cardinality(InWindow(b, i)) <= Cardinality(i..(l + 1))
      BY <3>2, <3>3, FS_Subset
    <3>5. Cardinality(InWindow(b, i)) \in Nat
      BY <3>4, FS_CardinalityType
    <3>6. (l + 1) - i + 1 <= m
      BY <1>1, <3>1 DEF k
    <3> QED
      BY <1>1, <3>2, <3>4, <3>5, <3>6
  <2> QED
    BY <2>1, <2>2
<1> QED
  BY <1>3, <1>7 DEF Limited

\* Time passes.
LEMMA TickRecorded ==
  ASSUME NEW q \in Seq(Nat), NEW a \in Seq(Nat), NEW n \in Nat, Recorded(q, a, n)
  PROVE  Recorded(q, a, n + 1)
<1>1. Len(q) \in Nat /\ Len(a) \in Nat /\ Window \in Nat /\ Delay \in Nat
  BY LenProperties, LimiterAssumption
<1>2. ASSUME NEW i \in 1..(Len(a) - Len(q))
      PROVE  a[i] + Window <= n + 1 + Delay
  <2>1. a[i] + Window <= n + Delay /\ a[i] \in Nat
    BY <1>1 DEF Recorded
  <2>2. \A x \in Nat : x + Window <= n + Delay => x + Window <= n + 1 + Delay
    BY <1>1
  <2> QED
    BY <2>1, <2>2
<1> QED
  BY <1>2 DEF Recorded

------------------------------------------------------------------------------
(* Buckets. *)

\* A bucket is stored under its key, and no other one changes.
LEMMA StoredFacts ==
  ASSUME LimiterTypeOK, NEW key \in ExpensiveEndpoints \X Senders, NEW q \in Seq(Nat), NEW b, b = Stored(key, q)
  PROVE  /\ IsBuckets(b)
         /\ \A k : QueueOf(b, k) = IF k = key THEN q ELSE QueueOf(bucket, k)
<1>1. /\ DOMAIN b = DOMAIN bucket \cup {key}
      /\ \A k \in DOMAIN b : b[k] = IF k = key THEN q ELSE bucket[k]
      /\ b = [k \in DOMAIN b |-> b[k]]
  BY DEF Stored
<1> QED
  BY <1>1 DEF IsBuckets, QueueOf, LimiterTypeOK

\* A sweep prunes every bucket or none; an empty bucket is as good as none.
LEMMA SweptFacts ==
  ASSUME NEW b, IsBuckets(b), NEW t \in Nat, NEW c, c = Swept(b, t)
  PROVE  /\ IsBuckets(c)
         /\ \A k : QueueOf(c, k) = QueueOf(b, k) \/ QueueOf(c, k) = Prune(QueueOf(b, k), t)
<1>1. CASE Cardinality(DOMAIN b) > Cap
  <2>1. /\ DOMAIN c = {k \in DOMAIN b : Prune(b[k], t) # <<>>}
        /\ \A k \in DOMAIN c : c[k] = Prune(b[k], t)
        /\ c = [k \in DOMAIN c |-> c[k]]
    BY <1>1 DEF Swept
  <2>2. \A k \in DOMAIN b : Prune(b[k], t) \in Seq(Nat)
    BY PruneFacts DEF Pruned, IsBuckets
  <2>3. IsBuckets(c)
    BY <2>1, <2>2 DEF IsBuckets
  <2>4. ASSUME NEW k
        PROVE  QueueOf(c, k) = QueueOf(b, k) \/ QueueOf(c, k) = Prune(QueueOf(b, k), t)
    BY <2>1 DEF QueueOf
  <2> QED
    BY <2>3, <2>4
<1>2. CASE ~(Cardinality(DOMAIN b) > Cap)
  BY <1>2 DEF Swept
<1> QED
  BY <1>1, <1>2

\* The key of a request is its sender's own, whatever the sender wrote.
LEMMA KeyIsOwn ==
  ASSUME NEW s \in Senders, NEW f \in Forged
  PROVE  ClientKey(s, f) = s
<1>1. CASE s \notin Proxied
  BY <1>1 DEF ClientKey
<1>2. CASE s \in Proxied
  <2> DEFINE S == {f[i] : i \in DOMAIN f} \cup {s}
             h == Append(f, s)
             n == Len(f) + 1
  <2>1. f \in Seq(S)
    <3>1. f \in Seq({f[i] : i \in DOMAIN f})
      BY LimiterAssumption
    <3> QED
      BY <3>1
  <2>2. Len(h) = n /\ h \in Seq(S) /\ h[n] = s /\ n \in Nat
    <3>1. s \in S
      OBVIOUS
    <3> HIDE DEF S
    <3> QED
      BY <2>1, <3>1, AppendProperties, LenProperties
  <2>3. DOMAIN h = 1..n
    <3> HIDE DEF h, S, n
    <3> QED
      BY <2>2, LenProperties
  <2>4. s # Empty
    BY LimiterAssumption DEF Senders
  <2> DEFINE T == Named(h)
  <2> HIDE DEF h, n
  <2>5. n \in T /\ T \subseteq 1..n
    BY <2>2, <2>3, <2>4 DEF Named, n
  <2> HIDE DEF T
  <2>6. Max(T) = n
    <3>1. \A x \in T : (\A y \in T : x >= y) <=> x = n
      BY <2>2, <2>5
    <3> QED
      BY <2>5, <3>1 DEF Max
  <2>7. ClientKey(s, f) = h[Max(T)]
    BY <1>2 DEF ClientKey, ForwardedKey, Header, h, T
  <2> QED
    BY <2>2, <2>6, <2>7
<1> QED
  BY <1>1, <1>2


------------------------------------------------------------------------------
(* LimiterInit and the steps. *)

\* The invariant holds when the server starts.
LEMMA LimiterInitInv == LimiterInit => LimiterInv
<1> SUFFICES ASSUME LimiterInit PROVE LimiterInv
  OBVIOUS
<1>1. /\ now = 0 /\ bucket = <<>> /\ handler = [h \in Handlers |-> Idle]
      /\ accepted = [s \in Senders |-> [e \in ExpensiveEndpoints |-> <<>>]]
  BY DEF LimiterInit
<1>2. \A s \in Senders, e \in ExpensiveEndpoints : accepted[s][e] = <<>>
  BY <1>1
<1>3. \A k : QueueOf(bucket, k) = <<>>
  BY <1>1 DEF QueueOf
<1>4. LimiterTypeOK
  BY <1>1 DEF LimiterTypeOK, IsBuckets
<1>5. Recorded(<<>>, <<>>, now)
  BY DEF Recorded
<1>6. \A m : Limited(<<>>, m)
  BY DEF Limited
<1> QED
  BY <1>1, <1>2, <1>3, <1>4, <1>5, <1>6 DEF LimiterInv, Idle

\* Reading the clock keeps the invariant.
LEMMA ReadInv ==
  ASSUME LimiterInv, NEW h \in Handlers, NEW s \in Senders, NEW e \in ExpensiveEndpoints, NEW f \in Forged,
         Read(h, s, e, f)
  PROVE  LimiterInv'
<1> DEFINE r == [state |-> "read", sender |-> s, key |-> <<e, s>>, at |-> now]
<1>1. /\ handler' = [handler EXCEPT ![h] = r]
      /\ now' = now /\ bucket' = bucket /\ accepted' = accepted
  BY KeyIsOwn DEF Read
<1>2. r \in Readings /\ Prompt(r.at, now)
  <2>1. now \in Nat /\ Delay \in Nat
    BY LimiterAssumption DEF LimiterInv, LimiterTypeOK
  <2> QED
    BY <2>1 DEF Readings, Prompt
<1> HIDE DEF r
<1>3. LimiterTypeOK'
  BY <1>1, <1>2 DEF LimiterInv, LimiterTypeOK, IsBuckets
<1>4. \A g \in Handlers : handler'[g] = IF g = h THEN r ELSE handler[g]
  BY <1>1 DEF LimiterInv, LimiterTypeOK
<1>5. \A g \in Handlers : handler'[g].state = "read" => Prompt(handler'[g].at, now')
  BY <1>1, <1>2, <1>4 DEF LimiterInv
<1> QED
  BY <1>1, <1>3, <1>5 DEF LimiterInv, QueueOf

\* A request that is decided: its bucket is pruned, and has the event added when
\* there is room; then all buckets may be swept.
LEMMA DecideInv ==
  ASSUME LimiterInv, NEW h \in Handlers, Decide(h)
  PROVE  LimiterInv'
<1> DEFINE t == handler[h].at
           key == handler[h].key
           s == handler[h].sender
           e == key[1]
           q == Prune(Queue(key), t)
<1>1. /\ handler[h] \in Readings /\ handler[h].state = "read"
      /\ t \in Nat /\ s \in Senders /\ e \in ExpensiveEndpoints /\ key = <<e, s>>
      /\ key \in ExpensiveEndpoints \X Senders
  BY DEF Decide, LimiterInv, LimiterTypeOK, Idle, Readings
<1>2. /\ now \in Nat /\ Prompt(t, now) /\ now' = now /\ LimiterTypeOK
      /\ handler' = [handler EXCEPT ![h] = Idle]
  BY <1>1 DEF LimiterInv, LimiterTypeOK, Decide
<1>3. \/ /\ bucket' = Stored(key, q)
         /\ accepted' = accepted
      \/ /\ Len(q) < Events[e]
         /\ bucket' = Swept(Stored(key, Append(q, t)), t)
         /\ accepted' = [accepted EXCEPT ![s][e] = Append(@, now)]
  <2>1. Events[e] \in Nat
    BY <1>1, LimiterAssumption
  <2>2. q \in Seq(Nat)
    <3>1. Queue(key) \in Seq(Nat)
      BY <1>2 DEF Queue, LimiterTypeOK, IsBuckets
    <3> QED
      BY <1>1, <3>1, PruneFacts DEF Pruned
  <2>3. Len(q) \in Nat
    BY <2>2, LenProperties
  <2>4. ~(Len(q) >= Events[e]) => Len(q) < Events[e]
    BY <2>1, <2>3
  <2> HIDE DEF q
  <2> QED
    BY <2>4 DEF Decide, Full, q
<1>4. \A k : QueueOf(bucket, k) \in Seq(Nat) /\ Pruned(QueueOf(bucket, k), t, Prune(QueueOf(bucket, k), t))
  <2>1. \A k : QueueOf(bucket, k) \in Seq(Nat)
    BY <1>2 DEF QueueOf, LimiterTypeOK, IsBuckets
  <2> QED
    BY <1>1, <2>1, PruneFacts
<1>5. q = Prune(QueueOf(bucket, key), t) /\ q \in Seq(Nat)
  BY <1>4 DEF Queue, QueueOf, Pruned
<1> HIDE DEF t, key, s, e, q
<1>6. \A g \in Handlers : handler'[g].state = "read" =>
        g # h /\ handler'[g] = handler[g] /\ Prompt(handler'[g].at, now')
  BY <1>2 DEF LimiterInv, LimiterTypeOK, Idle
<1>7. \A u \in Senders, d \in ExpensiveEndpoints :
        /\ accepted[u][d] \in Seq(Nat)
        /\ Recorded(QueueOf(bucket, <<d, u>>), accepted[u][d], now)
        /\ Limited(accepted[u][d], Events[d])
  BY DEF LimiterInv, LimiterTypeOK
<1>8. \A u \in Senders, d \in ExpensiveEndpoints :
        Recorded(Prune(QueueOf(bucket, <<d, u>>), t), accepted[u][d], now)
  BY <1>1, <1>2, <1>4, <1>7, PruneRecorded
<1>9. CASE /\ bucket' = Stored(key, q)
           /\ accepted' = accepted
  <2>1. /\ IsBuckets(bucket')
        /\ \A k : QueueOf(bucket', k) = IF k = key THEN q ELSE QueueOf(bucket, k)
    BY <1>1, <1>2, <1>5, <1>9, StoredFacts
  <2>2. \A u \in Senders, d \in ExpensiveEndpoints : Recorded(QueueOf(bucket', <<d, u>>), accepted'[u][d], now')
    BY <1>2, <1>5, <1>7, <1>8, <1>9, <2>1
  <2>3. LimiterTypeOK'
    BY <1>2, <1>9, <2>1 DEF LimiterTypeOK
  <2> QED
    BY <1>6, <1>7, <1>9, <2>2, <2>3 DEF LimiterInv
<1>10. CASE /\ Len(q) < Events[e]
            /\ bucket' = Swept(Stored(key, Append(q, t)), t)
            /\ accepted' = [accepted EXCEPT ![s][e] = Append(@, now)]
  <2> DEFINE p == Append(q, t)
             b == Stored(key, p)
             old == accepted[s][e]
             new == Append(old, now)
  <2>1. p \in Seq(Nat) /\ new \in Seq(Nat) /\ old \in Seq(Nat) /\ Events[e] \in Nat
    BY <1>1, <1>2, <1>5, <1>7, LimiterAssumption
  <2>2. Recorded(q, old, now)
    BY <1>1, <1>5, <1>8
  <2>3. Recorded(p, new, now)
    BY <1>1, <1>2, <1>5, <2>1, <2>2, AppendRecorded
  <2>4. Limited(new, Events[e])
    <3>1. Limited(old, Events[e])
      BY <1>1, <1>7
    <3> QED
      BY <1>2, <1>5, <1>10, <2>1, <2>2, <3>1, LimitKept
  <2>5. /\ accepted' \in [Senders -> [ExpensiveEndpoints -> Seq(Nat)]]
        /\ \A u \in Senders, d \in ExpensiveEndpoints :
             accepted'[u][d] = IF u = s /\ d = e THEN new ELSE accepted[u][d]
    BY <1>1, <1>2, <1>10, <2>1 DEF LimiterTypeOK
  <2> HIDE DEF p, new, old
  <2>6. IsBuckets(b) /\ \A k : QueueOf(b, k) = IF k = key THEN p ELSE QueueOf(bucket, k)
    <3>1. LimiterTypeOK /\ key \in ExpensiveEndpoints \X Senders /\ p \in Seq(Nat) /\ b = Stored(key, p)
      BY <1>1, <1>2, <2>1
    <3> HIDE DEF b
    <3> QED
      BY ONLY <3>1, StoredFacts
  <2>7. /\ IsBuckets(bucket')
        /\ \A k : \/ QueueOf(bucket', k) = QueueOf(b, k)
                  \/ QueueOf(bucket', k) = Prune(QueueOf(b, k), t)
    <3>1. bucket' = Swept(b, t)
      BY <1>10 DEF p
    <3> HIDE DEF b
    <3> QED
      BY <1>1, <2>6, <3>1, SweptFacts
  <2> HIDE DEF b
  <2>8. ASSUME NEW u \in Senders, NEW d \in ExpensiveEndpoints
        PROVE  Recorded(QueueOf(bucket', <<d, u>>), accepted'[u][d], now)
    <3> DEFINE k == <<d, u>>
    <3>1. CASE k = key
      <4>1. QueueOf(b, k) = p /\ accepted'[u][d] = new
        BY <1>1, <2>5, <2>6, <3>1
      <4>2. Recorded(Prune(p, t), new, now)
        <5>1. Pruned(p, t, Prune(p, t))
          BY <1>1, <2>1, PruneFacts
        <5> QED
          BY <1>1, <1>2, <2>1, <2>3, <5>1, PruneRecorded
      <4> QED
        BY <2>3, <2>7, <4>1, <4>2
    <3>2. CASE k # key
      <4>1. QueueOf(b, k) = QueueOf(bucket, k) /\ accepted'[u][d] = accepted[u][d]
        BY <1>1, <2>5, <2>6, <3>2
      <4> QED
        BY <1>7, <1>8, <2>7, <4>1
    <3> QED
      BY <3>1, <3>2
  <2>9. \A u \in Senders, d \in ExpensiveEndpoints : Limited(accepted'[u][d], Events[d])
    BY <1>7, <2>4, <2>5
  <2>10. LimiterTypeOK'
    BY <1>2, <2>5, <2>7 DEF LimiterTypeOK
  <2> QED
    BY <1>2, <1>6, <2>8, <2>9, <2>10 DEF LimiterInv
<1> QED
  BY <1>3, <1>9, <1>10

\* Time passes while no handler has waited too long.
LEMMA TickInv == LimiterInv /\ Tick => LimiterInv'
<1> SUFFICES ASSUME LimiterInv, Tick PROVE LimiterInv'
  OBVIOUS
<1>1. /\ now' = now + 1 /\ bucket' = bucket /\ handler' = handler /\ accepted' = accepted
      /\ \A h \in Handlers : handler[h].state = "read" => now - handler[h].at < Delay
      /\ now \in Nat /\ Delay \in Nat
  BY LimiterAssumption DEF Tick, LimiterInv, LimiterTypeOK
<1>2. ASSUME NEW h \in Handlers, handler[h].state = "read"
      PROVE  Prompt(handler[h].at, now + 1)
  <2> DEFINE t == handler[h].at
  <2>1. t \in Nat /\ t <= now /\ now - t < Delay
    BY <1>1, <1>2 DEF LimiterInv, LimiterTypeOK, Readings, Idle, Prompt
  <2> HIDE DEF t
  <2>2. t <= now + 1 /\ now + 1 <= t + Delay
    BY <1>1, <2>1
  <2> QED
    BY <2>2 DEF Prompt, t
<1>3. ASSUME NEW s \in Senders, NEW e \in ExpensiveEndpoints
      PROVE  Recorded(QueueOf(bucket, <<e, s>>), accepted[s][e], now + 1)
  <2>1. QueueOf(bucket, <<e, s>>) \in Seq(Nat) /\ accepted[s][e] \in Seq(Nat)
    BY DEF LimiterInv, LimiterTypeOK, QueueOf, IsBuckets
  <2>2. Recorded(QueueOf(bucket, <<e, s>>), accepted[s][e], now)
    BY DEF LimiterInv
  <2> QED
    BY <1>1, <2>1, <2>2, TickRecorded
<1>4. LimiterTypeOK'
  BY <1>1 DEF LimiterInv, LimiterTypeOK, IsBuckets
<1> QED
  BY <1>1, <1>2, <1>3, <1>4 DEF LimiterInv, QueueOf

\* Every step keeps the invariant.
LEMMA LimiterNextInv == LimiterInv /\ [LimiterNext]_limiterVars => LimiterInv'
<1> SUFFICES ASSUME LimiterInv, [LimiterNext]_limiterVars PROVE LimiterInv'
  OBVIOUS
<1>1. CASE UNCHANGED limiterVars
  BY <1>1 DEF limiterVars, LimiterInv, LimiterTypeOK, QueueOf, IsBuckets
<1>2. CASE LimiterNext
  BY <1>2, TickInv, ReadInv, DecideInv DEF LimiterNext
<1> QED
  BY <1>1, <1>2

------------------------------------------------------------------------------
(* The theorems. *)

\* The invariant holds in every state, however requests overlap.
THEOREM LimiterInvariance == LimiterSpec => []LimiterInv
BY LimiterInitInv, LimiterNextInv, PTL DEF LimiterSpec

\* SendersAreApart: no sender gets more than its limit through in a window that
\* is Delay shorter, and no bucket holds more than its own sender's requests
\* (check_expensive_rate_limit with expensive_client_key).
THEOREM LimitsHold == LimiterSpec => []SendersAreApart
<1>1. LimiterInv => SendersAreApart
  <2> SUFFICES ASSUME LimiterInv PROVE SendersAreApart
    OBVIOUS
  <2>1. SenderWindow
    BY DEF LimiterInv, Limited, InWindow, SenderWindow
  <2>2. ASSUME NEW k \in DOMAIN bucket
        PROVE  Len(bucket[k]) <= Len(accepted[k[2]][k[1]])
    <3>1. PICK e \in ExpensiveEndpoints, s \in Senders : k = <<e, s>>
      BY DEF LimiterInv, LimiterTypeOK, IsBuckets
    <3> QED
      BY <3>1 DEF LimiterInv, Recorded, QueueOf
  <2> QED
    BY <2>1, <2>2 DEF SendersAreApart, BucketsAreOwn
<1> QED
  BY <1>1, LimiterInvariance, PTL

\* IdleBucketsAreSwept: above the cap an accepted request leaves only buckets
\* that begin with an event that still counts (the retain of
\* check_expensive_rate_limit).
THEOREM SweepsAreComplete == LimiterSpec => IdleBucketsAreSwept
<1> DEFINE Sweeps(h) ==
      /\ handler[h].state = "read" /\ handler'[h].state = "idle"
      /\ accepted' # accepted
      /\ Cardinality(DOMAIN bucket') > Cap
      => \A k \in DOMAIN bucket' : bucket'[k] # <<>> /\ Fresh(Head(bucket'[k]), handler[h].at)
<1>1. ASSUME LimiterInv, [LimiterNext]_limiterVars, NEW h \in Handlers
      PROVE  Sweeps(h)
  <2> SUFFICES ASSUME handler[h].state = "read", handler'[h].state = "idle",
                      accepted' # accepted, Cardinality(DOMAIN bucket') > Cap,
                      NEW k \in DOMAIN bucket'
               PROVE  bucket'[k] # <<>> /\ Fresh(Head(bucket'[k]), handler[h].at)
    OBVIOUS
  <2>1. PICK g \in Handlers : Decide(g)
    BY <1>1 DEF LimiterNext, limiterVars, Tick, Read
  <2>2. g = h
    BY <1>1, <2>1 DEF Decide, LimiterInv, LimiterTypeOK
  <2> DEFINE t == handler[h].at
             key == handler[h].key
             b == Stored(key, Append(Prune(Queue(key), t), t))
  <2>3. bucket' = Swept(b, t)
    BY <2>1, <2>2 DEF Decide
  <2>4. t \in Nat /\ key \in ExpensiveEndpoints \X Senders
    BY <1>1 DEF LimiterInv, LimiterTypeOK, Readings, Idle
  <2>5. IsBuckets(b)
    <3>1. Queue(key) \in Seq(Nat)
      BY <1>1 DEF LimiterInv, LimiterTypeOK, IsBuckets, Queue
    <3>2. Append(Prune(Queue(key), t), t) \in Seq(Nat)
      BY <2>4, <3>1, PruneFacts DEF Pruned
    <3> HIDE DEF key, t
    <3> QED
      BY <1>1, <2>4, <3>2, StoredFacts DEF LimiterInv
  <2> HIDE DEF b
  <2>6. /\ k \in DOMAIN b /\ bucket'[k] = Prune(b[k], t)
        /\ Prune(b[k], t) # <<>>
    BY <2>3 DEF Swept
  <2>7. Fresh(Head(Prune(b[k], t)), t)
    <3>1. b[k] \in Seq(Nat)
      BY <2>5, <2>6 DEF IsBuckets
    <3> QED
      BY <2>4, <2>6, <3>1, PruneFacts DEF Pruned
  <2> QED
    BY <2>6, <2>7
<1>2. LimiterInv /\ [LimiterNext]_limiterVars => [\A h \in Handlers : Sweeps(h)]_limiterVars
  BY <1>1
<1> QED
  BY <1>2, LimiterInvariance, PTL DEF LimiterSpec, IdleBucketsAreSwept
===============================================================================
