------------------------------ MODULE RateLimiter -----------------------------
(***************************************************************************)
(* The rate limiter of the HTTP server: check_expensive_rate_limit,        *)
(* prune_rate_bucket and expensive_client_key of                           *)
(* crates/tellegen-server/src/lib.rs.  Handlers run in parallel; each      *)
(* reads the clock first and takes the mutex of the buckets later.         *)
(*                                                                         *)
(* Senders reach the server directly or through a trusted proxy that       *)
(* appends the sender's address to x-forwarded-for; what a sender puts in  *)
(* the header itself is its own choice.                                    *)
(***************************************************************************)
EXTENDS Naturals, Sequences, SequencesExt, FiniteSets

CONSTANTS
  Direct,       \* senders whose peer address is not a trusted proxy
  Proxied,      \* senders behind a trusted proxy
  Forged,       \* values of the header that senders choose: sequences of entries
  Empty,        \* an entry that is empty after trimming
  ExpensiveEndpoints, \* endpoints with a limit of their own
  Handlers,     \* requests being handled at a time
  Events,       \* events allowed per window, a function of the endpoint
  Window,       \* length of the window
  Delay,        \* bound on the time between reading the clock and the mutex
  Cap,          \* RATE_LIMIT_BUCKET_CAP
  MaxTime       \* bound on the clock

ASSUME LimiterAssumption ==
  /\ Window \in Nat \ {0}
  /\ Delay \in 0..Window
  /\ Events \in [ExpensiveEndpoints -> Nat]
  /\ Cap \in Nat
  /\ MaxTime \in Nat
  /\ \A f \in Forged : f \in Seq({f[i] : i \in DOMAIN f})
  /\ Empty \notin Direct \cup Proxied

Senders == Direct \cup Proxied

VARIABLES
  now,        \* the monotonic clock
  bucket,     \* expensive_requests: a function from keys to queues of instants
  handler,    \* what each handler has read: its key, its sender, its instant
  accepted    \* instants, under the mutex, of the accepted requests of a sender

limiterVars == <<now, bucket, handler, accepted>>

Idle == [state |-> "idle"]

LimiterInit ==
  /\ now = 0
  /\ bucket = <<>>
  /\ handler = [h \in Handlers |-> Idle]
  /\ accepted = [s \in Senders |-> [e \in ExpensiveEndpoints |-> <<>>]]

------------------------------------------------------------------------------
(* expensive_client_key. *)

\* Entries that are not empty after trimming.
Named(entries) == {i \in DOMAIN entries : entries[i] # Empty}

\* Mutant of ForwardedKey: the leftmost entry names the client.
ForwardedKeyLeft(entries) == entries[Min(Named(entries))]

\* The rightmost entry of x-forwarded-for that is not empty.
ForwardedKey(entries) == entries[Max(Named(entries))]

\* The header as it arrives: the proxy appends the sender's address.
Header(s, forged) == IF s \in Proxied THEN Append(forged, s) ELSE forged

\* A peer that is not a trusted proxy is its own key, whatever it sends.
ClientKey(s, forged) == IF s \in Proxied THEN ForwardedKey(Header(s, forged)) ELSE s

------------------------------------------------------------------------------
(* check_expensive_rate_limit. *)

\* prune_rate_bucket stops at the first instant that is younger than the window,
\* or that lies after t: another handler read the clock later and was faster.
Fresh(seen, t) == seen > t \/ t - seen < Window

Prune(q, t) ==
  LET live == {i \in DOMAIN q : Fresh(q[i], t)} IN
  IF live = {} THEN <<>> ELSE SubSeq(q, Min(live), Len(q))

\* The handler reads the clock.  A limit of 0, which turns the limiter off, the
\* x-real-ip header and private direct peers are left out.
Read(h, s, e, forged) ==
  /\ handler[h].state = "idle"
  /\ Events[e] > 0
  /\ handler' = [handler EXCEPT ![h] =
       [state |-> "read", sender |-> s, key |-> <<e, ClientKey(s, forged)>>, at |-> now]]
  /\ UNCHANGED <<now, bucket, accepted>>

Queue(key) == IF key \in DOMAIN bucket THEN bucket[key] ELSE <<>>

\* The limit is used up.
Full(q, e) == Len(q) >= Events[e]

Stored(key, q) == [k \in DOMAIN bucket \cup {key} |-> IF k = key THEN q ELSE bucket[k]]

\* Mutant of Swept: the buckets are pruned, the empty ones stay.
SweptKept(b, t) ==
  IF Cardinality(DOMAIN b) > Cap THEN [k \in DOMAIN b |-> Prune(b[k], t)] ELSE b

\* Above the cap every bucket is pruned and the empty ones are dropped.
Swept(b, t) ==
  IF Cardinality(DOMAIN b) > Cap
  THEN [k \in {k \in DOMAIN b : Prune(b[k], t) # <<>>} |-> Prune(b[k], t)]
  ELSE b

\* Under the mutex: prune the bucket, refuse or record the event, sweep.
Decide(h) ==
  /\ handler[h].state = "read"
  /\ LET t == handler[h].at
         key == handler[h].key
         s == handler[h].sender
         q == Prune(Queue(key), t)
     IN
     \/ /\ Full(q, key[1])
        /\ bucket' = Stored(key, q)
        /\ UNCHANGED accepted
     \/ /\ ~Full(q, key[1])
        /\ bucket' = Swept(Stored(key, Append(q, t)), t)
        /\ accepted' = [accepted EXCEPT ![s][key[1]] = Append(@, now)]
  /\ handler' = [handler EXCEPT ![h] = Idle]
  /\ UNCHANGED now

\* Time passes, but no handler waits longer than Delay for the mutex.
Tick ==
  /\ now < MaxTime
  /\ \A h \in Handlers : handler[h].state = "read" => now - handler[h].at < Delay
  /\ now' = now + 1
  /\ UNCHANGED <<bucket, handler, accepted>>

LimiterNext ==
  \/ Tick
  \/ \E h \in Handlers, s \in Senders, e \in ExpensiveEndpoints, f \in Forged : Read(h, s, e, f)
  \/ \E h \in Handlers : Decide(h)

LimiterSpec == LimiterInit /\ [][LimiterNext]_limiterVars

------------------------------------------------------------------------------
(* Properties. *)

\* However its requests overlap and whatever it writes into the header, no
\* sender gets more than Events requests through in a window that is shorter
\* than Window by the time a handler may wait for the mutex.
SenderWindow ==
  \A s \in Senders, e \in ExpensiveEndpoints :
    \A i \in DOMAIN accepted[s][e] :
      LET q == accepted[s][e] IN
      Cardinality({j \in i..Len(q) : q[j] - q[i] < Window - Delay}) <= Events[e]

\* A sender that keeps below its limit is never refused because of others: a
\* bucket holds only instants at which requests of its own sender were read.
BucketsAreOwn ==
  \A k \in DOMAIN bucket : Len(bucket[k]) <= Len(accepted[k[2]][k[1]])

\* What a sender may do depends on its own requests, and on nothing that others
\* send or that it writes into the header: expensive_client_key and the pruning
\* of prune_rate_bucket together.
SendersAreApart == SenderWindow /\ BucketsAreOwn

\* Buckets of senders that went away are dropped once there are more than Cap:
\* above the cap, what is left after an accepted request is in use, up to a
\* request refused in the meantime.
IdleBucketsAreSwept ==
  [][\A h \in Handlers :
       /\ handler[h].state = "read" /\ handler'[h].state = "idle"
       /\ accepted' # accepted
       /\ Cardinality(DOMAIN bucket') > Cap
       => \A k \in DOMAIN bucket' : bucket'[k] # <<>> /\ Fresh(Head(bucket'[k]), handler[h].at)]_limiterVars
==============================================================================
