--------------------------- MODULE GridCase_proofs ---------------------------
(***************************************************************************)
(* Proofs about one case of the web UI, for any number of solves,          *)
(* selections, formulations and crashes of the engine.                     *)
(*                                                                         *)
(* Everything that awaits is a task.  Wired says what each task awaits:    *)
(* every call in the queue belongs to one task that awaits just that call, *)
(* everyone in the list of a build awaits that build.  Screen and Aimed    *)
(* say what the answers may put on the screen, Owned who frees a Study.    *)
(***************************************************************************)
EXTENDS GridCase, SequenceTheorems, NaturalsInduction, WellFoundedInduction, TLAPS

Fields ==
  {"formulation", "deltas", "ratings", "solution", "baseSolution", "column", "solving",
   "failed", "seq", "selected", "selection", "abort", "json", "listed", "disposed",
   "unavailable", "computeOff", "cache", "build", "handles", "waiters", "index", "tasks",
   "stream", "queue"}

TaskIds == {"solve", "select", "build"} \X Nat
Points == [formulation : Formulations, deltas : Values, ratings : Values]
Calls ==
  [op : {"new", "solution", "edits", "free"}, study : Nat, task : TaskIds \cup {None},
   point : Points \cup {None}]

\* What a solve or a selection awaits, and what a build awaits.
Waits ==
  [at : {"json", "build", "index", "edits", "server"}, target : Targets \cup {None},
   study : Nat \cup {None}, point : Points \cup {None}]
Steps == [at : {"new", "base"}]

\* The call is the one that its task awaits.
Placed(tasks, c) ==
  /\ c.task \in DOMAIN tasks
  /\ c.op = "new" => c.task = <<"build", c.study>> /\ tasks[c.task].at = "new"
  /\ c.op = "solution" =>
       \/ c.task = <<"build", c.study>> /\ tasks[c.task].at = "base"
       \/ c.task[1] # "build" /\ tasks[c.task].at = "index" /\ tasks[c.task].study = c.study
  /\ c.op = "edits" =>
       c.task[1] # "build" /\ tasks[c.task].at = "edits" /\ tasks[c.task].study = c.study

\* Nobody will continue t: no call of the queue and no build.
Uncalled(queue, t) == \A i \in DOMAIN queue : queue[i].op # "free" => queue[i].task # t
Unlisted(waiters, t) == \A h \in DOMAIN waiters : \A i \in DOMAIN waiters[h] : waiters[h][i] # t

\* Who is called and who is listed awaits that; nobody twice.
Called(tasks, queue) ==
  /\ queue \in Seq(Calls)
  /\ \A i \in DOMAIN queue : queue[i].op # "free" => Placed(tasks, queue[i])
  /\ \A i, j \in DOMAIN queue :
       queue[i].op # "free" /\ queue[j].op # "free" /\ queue[i].task = queue[j].task => i = j

Listed(tasks, waiters) ==
  /\ waiters \in Seq(Seq(TaskIds))
  /\ \A h \in DOMAIN waiters : \A i \in DOMAIN waiters[h] :
       /\ waiters[h][i] \in DOMAIN tasks /\ waiters[h][i][1] # "build"
       /\ tasks[waiters[h][i]].at = "build" /\ tasks[waiters[h][i]].study = h
  /\ \A h \in DOMAIN waiters : \A i, j \in DOMAIN waiters[h] : waiters[h][i] = waiters[h][j] => i = j

\* The Studies that the queue frees.
Freed(queue) == {queue[i].study : i \in {j \in DOMAIN queue : queue[j].op = "free"}}

------------------------------------------------------------------------------
(* The queue. *)

\* The calls of a queue with one more.
LEMMA Appended ==
  ASSUME NEW queue \in Seq(Calls), NEW c \in Calls
  PROVE  /\ Append(queue, c) \in Seq(Calls)
         /\ DOMAIN queue = 1..Len(queue) /\ Len(queue) \in Nat
         /\ DOMAIN Append(queue, c) = 1..(Len(queue) + 1)
         /\ \A i \in DOMAIN queue : Append(queue, c)[i] = queue[i]
         /\ Append(queue, c)[Len(queue) + 1] = c
<1>1. /\ Append(queue, c) \in Seq(Calls)
      /\ Len(Append(queue, c)) = Len(queue) + 1
      /\ \A i \in 1..Len(queue) : Append(queue, c)[i] = queue[i]
      /\ Append(queue, c)[Len(queue) + 1] = c
  BY AppendProperties
<1>2. DOMAIN queue = 1..Len(queue) /\ Len(queue) \in Nat BY LenProperties
<1>3. DOMAIN Append(queue, c) = 1..Len(Append(queue, c)) BY <1>1, LenProperties
<1> QED BY <1>1, <1>2, <1>3

\* A task that awaits nothing yet makes its call.
LEMMA CallsMore ==
  ASSUME NEW tasks, NEW queue, Called(tasks, queue), NEW c \in Calls,
         c.op # "free", Placed(tasks, c), Uncalled(queue, c.task)
  PROVE  /\ Called(tasks, Append(queue, c))
         /\ \A u : u # c.task /\ Uncalled(queue, u) => Uncalled(Append(queue, c), u)
         /\ Freed(Append(queue, c)) = Freed(queue)
<1>1. queue \in Seq(Calls) BY DEF Called
<1> DEFINE more == Append(queue, c)
           n == Len(queue)
<1>2. /\ more \in Seq(Calls) /\ n \in Nat /\ DOMAIN queue = 1..n /\ DOMAIN more = 1..(n + 1)
      /\ \A i \in 1..n : more[i] = queue[i]
      /\ more[n + 1] = c
  BY <1>1, Appended
<1> HIDE DEF more, n
<1>3. \A i \in 1..(n + 1) : i \in 1..n \/ i = n + 1 BY <1>2
<1>4. \A i \in 1..(n + 1) : more[i].op # "free" => Placed(tasks, more[i])
  BY <1>2, <1>3 DEF Called
<1>5. ASSUME NEW i \in 1..(n + 1), NEW j \in 1..(n + 1),
             more[i].op # "free", more[j].op # "free", more[i].task = more[j].task
      PROVE  i = j
  <2>1. CASE i \in 1..n /\ j \in 1..n BY <1>2, <1>5, <2>1 DEF Called
  <2>2. CASE i \in 1..n /\ j = n + 1 BY <1>2, <1>5, <2>2 DEF Uncalled
  <2>3. CASE i = n + 1 /\ j \in 1..n BY <1>2, <1>5, <2>3 DEF Uncalled
  <2> QED BY <1>3, <2>1, <2>2, <2>3
<1>6. Called(tasks, more) BY <1>2, <1>4, <1>5 DEF Called
<1>7. \A u : u # c.task /\ Uncalled(queue, u) => Uncalled(more, u)
  BY <1>2, <1>3 DEF Uncalled
<1>8. Freed(more) = Freed(queue)
  <2>1. \A i \in 1..(n + 1) : more[i].op = "free" => i \in 1..n BY <1>2, <1>3
  <2>2. \A i \in 1..n : i \in 1..(n + 1) BY <1>2
  <2> QED BY <1>2, <2>1, <2>2 DEF Freed
<1> QED BY <1>6, <1>7, <1>8 DEF more

\* A Study is freed.
LEMMA CallsFree ==
  ASSUME NEW tasks, NEW queue, Called(tasks, queue), NEW c \in Calls, c.op = "free"
  PROVE  /\ Called(tasks, Append(queue, c))
         /\ \A u : Uncalled(queue, u) => Uncalled(Append(queue, c), u)
         /\ Freed(Append(queue, c)) = Freed(queue) \cup {c.study}
<1>1. queue \in Seq(Calls) BY DEF Called
<1> DEFINE more == Append(queue, c)
           n == Len(queue)
<1>2. /\ more \in Seq(Calls) /\ n \in Nat /\ DOMAIN queue = 1..n /\ DOMAIN more = 1..(n + 1)
      /\ \A i \in 1..n : more[i] = queue[i]
      /\ more[n + 1] = c
  BY <1>1, Appended
<1> HIDE DEF more, n
<1>3. \A i \in 1..(n + 1) : i \in 1..n \/ i = n + 1 BY <1>2
<1>4. \A i \in 1..(n + 1) : more[i].op # "free" => i \in 1..n BY <1>2, <1>3
<1>5. Called(tasks, more) BY <1>2, <1>4 DEF Called
<1>6. \A u : Uncalled(queue, u) => Uncalled(more, u) BY <1>2, <1>4 DEF Uncalled
<1>7. Freed(more) = Freed(queue) \cup {c.study}
  <2>1. n + 1 \in 1..(n + 1) /\ \A i \in 1..n : i \in 1..(n + 1) BY <1>2
  <2>2. ASSUME NEW x \in Freed(more) PROVE x \in Freed(queue) \cup {c.study}
    <3>1. PICK i \in 1..(n + 1) : more[i].op = "free" /\ x = more[i].study BY <1>2, <2>2 DEF Freed
    <3> QED BY <1>2, <1>3, <3>1 DEF Freed
  <2>3. ASSUME NEW x \in Freed(queue) PROVE x \in Freed(more)
    <3>1. PICK i \in 1..n : queue[i].op = "free" /\ x = queue[i].study BY <1>2, <2>3 DEF Freed
    <3> QED BY <1>2, <2>1, <3>1 DEF Freed
  <2>4. c.study \in Freed(more) BY <1>2, <2>1 DEF Freed
  <2> QED BY <2>2, <2>3, <2>4
<1> QED BY <1>5, <1>6, <1>7 DEF more


\* The engine answers the first call: its task awaits nothing now.
LEMMA CallAnswered ==
  ASSUME NEW tasks, NEW queue, Called(tasks, queue), queue # <<>>
  PROVE  /\ Called(tasks, Tail(queue))
         /\ Head(queue) \in Calls
         /\ Head(queue).op # "free" =>
              /\ Placed(tasks, Head(queue))
              /\ Uncalled(Tail(queue), Head(queue).task)
         /\ \A u : Uncalled(queue, u) => Uncalled(Tail(queue), u)
         /\ Head(queue).op # "free" => Freed(Tail(queue)) = Freed(queue)
         /\ Head(queue).op = "free" =>
              /\ Head(queue).study \in Freed(queue)
              /\ Freed(Tail(queue)) \subseteq Freed(queue)
              /\ Freed(queue) \subseteq Freed(Tail(queue)) \cup {Head(queue).study}
<1>1. queue \in Seq(Calls) BY DEF Called
<1> DEFINE rest == Tail(queue)
           c == Head(queue)
           n == Len(queue)
<1>2. /\ rest \in Seq(Calls) /\ n \in Nat \ {0} /\ DOMAIN queue = 1..n /\ DOMAIN rest = 1..(n - 1)
      /\ \A i \in 1..(n - 1) : rest[i] = queue[i + 1]
      /\ c = queue[1] /\ c \in Calls
  <2>1. n \in Nat /\ DOMAIN queue = 1..n BY <1>1, LenProperties
  <2>2. n # 0 BY <1>1, EmptySeq
  <2>3. /\ rest \in Seq(Calls) /\ Len(rest) = n - 1
        /\ \A i \in 1..Len(rest) : rest[i] = queue[i + 1]
        /\ c = queue[1] /\ c \in Calls
    BY <1>1, HeadTailProperties
  <2>4. DOMAIN rest = 1..Len(rest) BY <2>3, LenProperties
  <2> QED BY <2>1, <2>2, <2>3, <2>4
<1> HIDE DEF rest, c, n
<1>3. \A i \in 1..(n - 1) : i + 1 \in 1..n /\ i + 1 # 1 BY <1>2
<1>4. 1 \in 1..n /\ \A i \in 1..n : i # 1 => i - 1 \in 1..(n - 1) /\ rest[i - 1] = queue[i] BY <1>2
<1>5. Called(tasks, rest)
  <2>1. \A i \in 1..(n - 1) : rest[i].op # "free" => Placed(tasks, rest[i])
    BY <1>2, <1>3 DEF Called
  <2>2. ASSUME NEW i \in 1..(n - 1), NEW j \in 1..(n - 1),
               rest[i].op # "free", rest[j].op # "free", rest[i].task = rest[j].task
        PROVE  i = j
    <3> DEFINE a == i + 1
               b == j + 1
    <3>1. a \in DOMAIN queue /\ b \in DOMAIN queue /\ queue[a] = rest[i] /\ queue[b] = rest[j]
      BY <1>2, <1>3
    <3> HIDE DEF a, b
    <3>2. a = b BY <2>2, <3>1 DEF Called
    <3> QED BY <3>2 DEF a, b
  <2> QED BY <1>2, <2>1, <2>2 DEF Called
<1>6. c.op # "free" => Placed(tasks, c) BY <1>2, <1>4 DEF Called
<1>7. c.op # "free" => Uncalled(rest, c.task)
  <2> SUFFICES ASSUME c.op # "free", NEW i \in 1..(n - 1), rest[i].op # "free", rest[i].task = c.task
               PROVE  FALSE
    BY <1>2 DEF Uncalled
  <2> QED BY <1>2, <1>3, <1>4 DEF Called
<1>8. \A u : Uncalled(queue, u) => Uncalled(rest, u) BY <1>2, <1>3 DEF Uncalled
<1>9. Freed(rest) \subseteq Freed(queue)
  <2> SUFFICES ASSUME NEW x \in Freed(rest) PROVE x \in Freed(queue) OBVIOUS
  <2>1. PICK i \in 1..(n - 1) : rest[i].op = "free" /\ x = rest[i].study BY <1>2 DEF Freed
  <2> QED BY <1>2, <1>3, <2>1 DEF Freed
<1>10. ASSUME NEW x \in Freed(queue) PROVE x \in Freed(rest) \/ (c.op = "free" /\ x = c.study)
  <2>1. PICK i \in 1..n : queue[i].op = "free" /\ x = queue[i].study BY <1>2, <1>10 DEF Freed
  <2>2. CASE i = 1 BY <1>2, <2>1, <2>2
  <2>3. CASE i # 1
    <3> DEFINE k == i - 1
    <3>1. k \in DOMAIN rest /\ rest[k] = queue[i] BY <1>2, <1>4, <2>3
    <3> HIDE DEF k
    <3> QED BY <2>1, <3>1 DEF Freed
  <2> QED BY <2>2, <2>3
<1>11. c.op = "free" => c.study \in Freed(queue) BY <1>2, <1>4 DEF Freed
<1> QED BY <1>2, <1>5, <1>6, <1>7, <1>8, <1>9, <1>10, <1>11 DEF rest, c

------------------------------------------------------------------------------
(* The tasks and the lists of the builds. *)

\* other differs from tasks at t only.
Apart(tasks, other, t) ==
  \A u \in DOMAIN tasks : u # t => u \in DOMAIN other /\ other[u] = tasks[u]

\* A task that awaits nothing may change, end or begin.
LEMMA TaskChanges ==
  ASSUME NEW tasks, NEW other, NEW t, NEW queue, NEW waiters, Apart(tasks, other, t),
         Called(tasks, queue), Listed(tasks, waiters), Uncalled(queue, t), Unlisted(waiters, t)
  PROVE  Called(other, queue) /\ Listed(other, waiters)
<1>1. ASSUME NEW i \in DOMAIN queue, queue[i].op # "free" PROVE Placed(other, queue[i])
  <2>1. Placed(tasks, queue[i]) /\ queue[i].task # t BY <1>1 DEF Called, Uncalled
  <2>2. queue[i].task \in DOMAIN tasks BY <2>1 DEF Placed
  <2>3. queue[i].task \in DOMAIN other /\ other[queue[i].task] = tasks[queue[i].task]
    BY <2>1, <2>2 DEF Apart
  <2> QED BY <2>1, <2>3 DEF Placed
<1>2. Called(other, queue) BY <1>1 DEF Called
<1>3. ASSUME NEW h \in DOMAIN waiters, NEW i \in DOMAIN waiters[h]
      PROVE  /\ waiters[h][i] \in DOMAIN other /\ waiters[h][i][1] # "build"
             /\ other[waiters[h][i]].at = "build" /\ other[waiters[h][i]].study = h
  <2> DEFINE u == waiters[h][i]
  <2>1. /\ u \in DOMAIN tasks /\ u[1] # "build" /\ tasks[u].at = "build" /\ tasks[u].study = h
        /\ u # t
    BY DEF Listed, Unlisted
  <2>2. u \in DOMAIN other /\ other[u] = tasks[u] BY <2>1 DEF Apart
  <2> HIDE DEF u
  <2>3. u \in DOMAIN other /\ u[1] # "build" /\ other[u].at = "build" /\ other[u].study = h
    BY <2>1, <2>2
  <2> QED BY <2>3 DEF u
<1>4. Listed(other, waiters) BY <1>3 DEF Listed
<1> QED BY <1>2, <1>4

\* A task joins the build that it awaits.
LEMMA ListJoined ==
  ASSUME NEW tasks, NEW waiters, Listed(tasks, waiters), NEW h \in DOMAIN waiters,
         NEW t \in TaskIds, Unlisted(waiters, t), t \in DOMAIN tasks, t[1] # "build",
         tasks[t].at = "build", tasks[t].study = h
  PROVE  /\ Listed(tasks, [waiters EXCEPT ![h] = Append(@, t)])
         /\ Len([waiters EXCEPT ![h] = Append(@, t)]) = Len(waiters)
         /\ \A u : u # t /\ Unlisted(waiters, u) => Unlisted([waiters EXCEPT ![h] = Append(@, t)], u)
<1> DEFINE w == waiters[h]
           n == Len(w)
           more == Append(w, t)
           other == [waiters EXCEPT ![h] = more]
<1>1. waiters \in Seq(Seq(TaskIds)) BY DEF Listed
<1>2. w \in Seq(TaskIds) BY <1>1, ElementOfSeq, LenProperties
<1>3. /\ more \in Seq(TaskIds) /\ n \in Nat /\ DOMAIN w = 1..n /\ DOMAIN more = 1..(n + 1)
      /\ \A i \in 1..n : more[i] = w[i]
      /\ more[n + 1] = t
  <2>1. /\ more \in Seq(TaskIds) /\ Len(more) = n + 1
        /\ \A i \in 1..n : more[i] = w[i]
        /\ more[n + 1] = t
    BY <1>2, AppendProperties
  <2> QED BY <1>2, <2>1, LenProperties
<1>4. other \in Seq(Seq(TaskIds)) /\ Len(other) = Len(waiters)
  BY <1>1, <1>3, ExceptSeq, LenProperties
<1>5. /\ DOMAIN other = DOMAIN waiters /\ other[h] = more /\ waiters[h] = w
      /\ \A k \in DOMAIN waiters : k # h => other[k] = waiters[k]
  OBVIOUS
<1> HIDE DEF w, n, more, other
<1>6. \A i \in 1..(n + 1) : i \in 1..n \/ i = n + 1 BY <1>3
<1>7. ASSUME NEW k \in DOMAIN waiters, NEW i \in DOMAIN other[k]
      PROVE  /\ other[k][i] \in DOMAIN tasks /\ other[k][i][1] # "build"
             /\ tasks[other[k][i]].at = "build" /\ tasks[other[k][i]].study = k
  <2>1. CASE k # h BY <1>5, <1>7, <2>1 DEF Listed
  <2>2. CASE k = h /\ i \in 1..n
    <3>1. other[k][i] = waiters[k][i] /\ i \in DOMAIN waiters[k] BY <1>3, <1>5, <2>2
    <3> QED BY <3>1 DEF Listed
  <2>3. CASE k = h /\ i = n + 1 BY <1>3, <1>5, <2>3
  <2> QED BY <1>3, <1>5, <1>6, <2>1, <2>2, <2>3
<1>8. ASSUME NEW k \in DOMAIN waiters, NEW i \in DOMAIN other[k], NEW j \in DOMAIN other[k],
             other[k][i] = other[k][j]
      PROVE  i = j
  <2>1. CASE k # h BY <1>5, <1>8, <2>1 DEF Listed
  <2>2. CASE k = h
    <3>1. \A m \in 1..n : more[m] = waiters[h][m] /\ m \in DOMAIN waiters[h] /\ more[m] # t
      BY <1>3, <1>5 DEF Unlisted
    <3>2. i \in 1..(n + 1) /\ j \in 1..(n + 1) /\ more[i] = more[j] BY <1>3, <1>5, <1>8, <2>2
    <3>3. CASE i \in 1..n /\ j \in 1..n BY <3>1, <3>2, <3>3 DEF Listed
    <3>4. CASE ~(i \in 1..n /\ j \in 1..n) BY <1>3, <1>6, <3>1, <3>2, <3>4
    <3> QED BY <3>3, <3>4
  <2> QED BY <2>1, <2>2
<1>9. Listed(tasks, other) BY <1>4, <1>5, <1>7, <1>8 DEF Listed
<1>10. ASSUME NEW u, u # t, Unlisted(waiters, u) PROVE Unlisted(other, u)
  <2> SUFFICES ASSUME NEW k \in DOMAIN waiters, NEW i \in DOMAIN other[k] PROVE other[k][i] # u
    BY <1>5 DEF Unlisted
  <2>1. CASE k # h BY <1>5, <1>10, <2>1 DEF Unlisted
  <2>2. CASE k = h BY <1>3, <1>5, <1>6, <1>10, <2>2 DEF Unlisted
  <2> QED BY <2>1, <2>2
<1> QED BY <1>4, <1>9, <1>10 DEF w, more, other


\* A build begins with the task that asked for it.
LEMMA ListBegun ==
  ASSUME NEW tasks, NEW waiters, Listed(tasks, waiters),
         NEW t \in TaskIds, Unlisted(waiters, t), t \in DOMAIN tasks, t[1] # "build",
         tasks[t].at = "build", tasks[t].study = Len(waiters) + 1
  PROVE  /\ Listed(tasks, Append(waiters, <<t>>))
         /\ Len(Append(waiters, <<t>>)) = Len(waiters) + 1
         /\ \A u : u # t /\ Unlisted(waiters, u) => Unlisted(Append(waiters, <<t>>), u)
<1> DEFINE one == <<t>>
           n == Len(waiters)
           other == Append(waiters, one)
<1>1. waiters \in Seq(Seq(TaskIds)) BY DEF Listed
<1>2. one \in Seq(TaskIds) /\ DOMAIN one = {1} /\ one[1] = t OBVIOUS
<1> HIDE DEF one
<1>3. /\ other \in Seq(Seq(TaskIds)) /\ n \in Nat /\ DOMAIN waiters = 1..n
      /\ Len(other) = n + 1 /\ DOMAIN other = 1..(n + 1)
      /\ \A h \in 1..n : other[h] = waiters[h]
      /\ other[n + 1] = one
  <2>1. /\ other \in Seq(Seq(TaskIds)) /\ Len(other) = n + 1
        /\ \A i \in 1..n : other[i] = waiters[i]
        /\ other[n + 1] = one
    BY <1>1, <1>2, AppendProperties
  <2> QED BY <1>1, <2>1, LenProperties
<1>4. tasks[t].study = n + 1 OBVIOUS
<1> HIDE DEF n, other
<1>5. \A h \in 1..(n + 1) : h \in 1..n \/ h = n + 1 BY <1>3
<1>6. ASSUME NEW h \in 1..(n + 1), NEW i \in DOMAIN other[h]
      PROVE  /\ other[h][i] \in DOMAIN tasks /\ other[h][i][1] # "build"
             /\ tasks[other[h][i]].at = "build" /\ tasks[other[h][i]].study = h
  <2>1. CASE h \in 1..n
    <3>1. other[h] = waiters[h] /\ h \in DOMAIN waiters BY <1>3, <2>1
    <3> QED BY <1>6, <3>1 DEF Listed
  <2>2. CASE h = n + 1
    <3>1. other[h][i] = t BY <1>2, <1>3, <1>6, <2>2
    <3> QED BY <1>4, <2>2, <3>1
  <2> QED BY <1>5, <2>1, <2>2
<1>7. ASSUME NEW h \in 1..(n + 1), NEW i \in DOMAIN other[h], NEW j \in DOMAIN other[h],
             other[h][i] = other[h][j]
      PROVE  i = j
  <2>1. CASE h \in 1..n
    <3>1. other[h] = waiters[h] /\ h \in DOMAIN waiters BY <1>3, <2>1
    <3> QED BY <1>7, <3>1 DEF Listed
  <2>2. CASE h = n + 1 BY <1>2, <1>3, <1>7, <2>2
  <2> QED BY <1>5, <2>1, <2>2
<1>8. Listed(tasks, other) BY <1>3, <1>6, <1>7 DEF Listed
<1>9. ASSUME NEW u, u # t, Unlisted(waiters, u) PROVE Unlisted(other, u)
  <2> SUFFICES ASSUME NEW h \in 1..(n + 1), NEW i \in DOMAIN other[h] PROVE other[h][i] # u
    BY <1>3 DEF Unlisted
  <2>1. CASE h \in 1..n BY <1>3, <1>9, <2>1 DEF Unlisted
  <2>2. CASE h = n + 1 BY <1>2, <1>3, <1>9, <2>2
  <2> QED BY <1>5, <2>1, <2>2
<1> QED BY <1>3, <1>8, <1>9 DEF one, n, other

\* A build ends: nobody awaits it any more.
LEMMA ListLeft ==
  ASSUME NEW tasks, NEW waiters, Listed(tasks, waiters), NEW h \in DOMAIN waiters
  PROVE  /\ Listed(tasks, [waiters EXCEPT ![h] = <<>>])
         /\ Len([waiters EXCEPT ![h] = <<>>]) = Len(waiters)
         /\ \A u : Unlisted(waiters, u) => Unlisted([waiters EXCEPT ![h] = <<>>], u)
         /\ \A i \in DOMAIN waiters[h] : Unlisted([waiters EXCEPT ![h] = <<>>], waiters[h][i])
<1> DEFINE none == <<>>
           other == [waiters EXCEPT ![h] = none]
<1>1. waiters \in Seq(Seq(TaskIds)) BY DEF Listed
<1>2. none \in Seq(TaskIds) /\ DOMAIN none = {} OBVIOUS
<1> HIDE DEF none
<1>3. other \in Seq(Seq(TaskIds)) /\ Len(other) = Len(waiters)
  BY <1>1, <1>2, ExceptSeq, LenProperties
<1>4. /\ DOMAIN other = DOMAIN waiters /\ other[h] = none
      /\ \A k \in DOMAIN waiters : k # h => other[k] = waiters[k]
  OBVIOUS
<1> HIDE DEF other
<1>5. \A k \in DOMAIN other : \A i \in DOMAIN other[k] : k # h /\ k \in DOMAIN waiters /\ other[k] = waiters[k]
  BY <1>2, <1>4
<1>6. Listed(tasks, other)
  <2>1. ASSUME NEW k \in DOMAIN other, NEW i \in DOMAIN other[k]
        PROVE  /\ other[k][i] \in DOMAIN tasks /\ other[k][i][1] # "build"
               /\ tasks[other[k][i]].at = "build" /\ tasks[other[k][i]].study = k
               /\ \A j \in DOMAIN other[k] : other[k][i] = other[k][j] => i = j
    <3>1. k \in DOMAIN waiters /\ other[k] = waiters[k] BY <1>5
    <3> QED BY <3>1 DEF Listed
  <2> QED BY <1>3, <2>1 DEF Listed
<1>7. \A u : Unlisted(waiters, u) => Unlisted(other, u) BY <1>5 DEF Unlisted
<1>8. ASSUME NEW i \in DOMAIN waiters[h] PROVE Unlisted(other, waiters[h][i])
  <2> SUFFICES ASSUME NEW k \in DOMAIN other, NEW j \in DOMAIN other[k], other[k][j] = waiters[h][i]
               PROVE  FALSE
    BY DEF Unlisted
  <2>1. k # h /\ k \in DOMAIN waiters /\ other[k] = waiters[k] BY <1>5
  <2>2. tasks[waiters[k][j]].study = k BY <2>1 DEF Listed
  <2>3. tasks[waiters[h][i]].study = h BY DEF Listed
  <2> QED BY <2>1, <2>2, <2>3
<1> QED BY <1>3, <1>6, <1>7, <1>8 DEF none, other

------------------------------------------------------------------------------
(* The invariant of a page. *)

Handles(p) == 1..Len(p.handles)

\* A page is a record of its fields.
Page(p) == p = [f \in Fields |-> p[f]]

Typed(p) ==
  /\ p.formulation \in Formulations /\ p.deltas \in Values /\ p.ratings \in Values
  /\ p.seq \in Nat /\ p.selection \in Nat
  /\ p.selected \in Targets \cup {None}
  /\ p.abort \in ({"select"} \X Nat) \cup {None}
  /\ p.handles \in Seq(Formulations)
  /\ Len(p.waiters) = Len(p.handles)
  /\ p.cache \in Handles(p) \cup {None}
  /\ p.build \in Handles(p) \cup {None}

\* A task that may exist, and what it awaits.
Begun(p, t) ==
  \/ t[1] = "solve" /\ t[2] <= p.seq
  \/ t[1] = "select" /\ t[2] <= p.selection
  \/ t[1] = "build" /\ t[2] \in Handles(p)

Running(p, t, task) ==
  /\ t \in TaskIds /\ Begun(p, t)
  /\ t[1] = "build" => task \in Steps
  /\ t[1] # "build" => task \in Waits /\ task.study \in Handles(p) \cup {None}

\* What the newest solve and the live selection compute: the point on the screen,
\* a point of the formulation on the screen.
Aims(p, t, point) ==
  /\ t = <<"solve", p.seq>> => point = Current(p)
  /\ t = p.abort /\ t[2] = p.selection => point.formulation = p.formulation

Aimed(p, t, task) ==
  t[1] # "build" /\ task.at \in {"index", "edits", "server"} => Aims(p, t, task.point)

Tasks(p) ==
  /\ p.tasks = [t \in DOMAIN p.tasks |-> p.tasks[t]]
  /\ \A t \in DOMAIN p.tasks : Running(p, t, p.tasks[t]) /\ Aimed(p, t, p.tasks[t])

Wired(p) ==
  /\ Called(p.tasks, p.queue)
  /\ Listed(p.tasks, p.waiters)
  /\ \A i \in DOMAIN p.queue : p.queue[i].study \in Handles(p)

\* What is on the screen, and what the stream may put there.
Live(p) == p.stream # None /\ p.stream.seq = p.seq

Screen(p) ==
  /\ p.solution # None => p.solution.formulation = p.formulation
  /\ p.baseSolution # None => p.baseSolution.formulation = p.formulation
  /\ ~p.solving /\ ~p.failed => p.solution = Current(p)
  /\ p.column # None => p.column.target = p.selected /\ p.column.point.formulation = p.formulation

Streams == [seq : Nat, target : Targets \cup {None}, point : Points, at : {"open", "solved", "sensed"}]

Streaming(p) ==
  /\ p.stream \in Streams \cup {None}
  /\ p.stream # None => p.stream.seq <= p.seq
  /\ Live(p) => p.stream.point = Current(p) /\ (p.stream.at # "open" => p.solution = Current(p))

Good(p) == Page(p) /\ Typed(p) /\ Tasks(p) /\ Wired(p) /\ Screen(p) /\ Streaming(p)

\* Who frees a Study: the cache, the build, or the queue already.
Owned(p, held, n) ==
  /\ DOMAIN held \subseteq Handles(p)
  /\ p.listed =>
       \A h \in DOMAIN held : h = p.cache \/ <<"build", h>> \in DOMAIN p.tasks \/ h \in Freed(p.queue)
  /\ p.cache # None => p.cache \notin Freed(p.queue) /\ (n = 0 => p.cache \in DOMAIN held)
  /\ p.disposed => p.cache = None /\ p.build = None
  /\ p.cache = None \/ p.build = None
  /\ \A h \in Handles(p) : <<"build", h>> \in DOMAIN p.tasks =>
       /\ h # p.cache /\ h \notin Freed(p.queue)
       /\ p.tasks[<<"build", h>>].at = "new" => h \notin DOMAIN held

\* The inductive invariant.
Inv == Good(page) /\ Owned(page, studies, crashes) /\ crashes \in Nat

\* t is a solve or a selection that awaits nothing.
Idle(p, t) ==
  /\ t \in DOMAIN p.tasks /\ t[1] # "build"
  /\ Uncalled(p.queue, t) /\ Unlisted(p.waiters, t)

\* What the continuation of a task leaves alone.
Still(p, q) ==
  /\ q.formulation = p.formulation /\ q.deltas = p.deltas /\ q.ratings = p.ratings
  /\ q.seq = p.seq /\ q.selection = p.selection /\ q.abort = p.abort /\ q.selected = p.selected

Quiet(p, q) ==
  /\ q.listed = p.listed /\ q.disposed = p.disposed /\ q.cache = p.cache /\ q.build = p.build
  /\ q.handles = p.handles /\ Freed(q.queue) = Freed(p.queue)
  /\ \A t : t[1] = "build" =>
       /\ t \in DOMAIN q.tasks <=> t \in DOMAIN p.tasks
       /\ t \in DOMAIN p.tasks => q.tasks[t] = p.tasks[t]

\* Task t goes on: the page stays good, the others go on waiting.
Continues(p, t, q) ==
  /\ Good(q) /\ Still(p, q) /\ Quiet(p, q)
  /\ \A u : u # t /\ Idle(p, u) => Idle(q, u)


------------------------------------------------------------------------------
(* The continuation of one task. *)

\* The fields that neither a change of a task nor one of the screen touches.
Kept(p, q) ==
  /\ q.listed = p.listed /\ q.disposed = p.disposed /\ q.cache = p.cache /\ q.build = p.build
  /\ q.handles = p.handles /\ q.waiters = p.waiters /\ q.queue = p.queue

\* Only task t changes: it ends, or goes on as it may.
TaskStep(p, t, q) ==
  /\ q.tasks = [u \in DOMAIN q.tasks |-> q.tasks[u]]
  /\ Apart(p.tasks, q.tasks, t)
  /\ DOMAIN q.tasks \subseteq DOMAIN p.tasks \cup {t}
  /\ t \in DOMAIN q.tasks => Running(p, t, q.tasks[t]) /\ Aimed(p, t, q.tasks[t])

\* What a task may be depends on little of the page.
LEMMA RunningSame ==
  ASSUME NEW p, NEW q, NEW t, NEW task, Still(p, q), q.handles = p.handles
  PROVE  /\ Running(p, t, task) => Running(q, t, task)
         /\ Aimed(p, t, task) => Aimed(q, t, task)
BY DEF Still, Running, Begun, Handles, Aimed, Aims, Current, PointAt

\* The page after the step of a task that awaits nothing.
LEMMA TaskGoesOn ==
  ASSUME NEW p, NEW q, NEW t, Good(p), Idle(p, t), Page(q), Still(p, q), Kept(p, q),
         TaskStep(p, t, q), Screen(q), Streaming(q)
  PROVE  Continues(p, t, q)
<1>1. Typed(q) BY DEF Good, Typed, Still, Kept, Handles
<1>2. Tasks(q)
  <2>1. ASSUME NEW u \in DOMAIN q.tasks PROVE Running(p, u, q.tasks[u]) /\ Aimed(p, u, q.tasks[u])
    <3>1. CASE u = t BY <3>1 DEF TaskStep
    <3>2. CASE u # t
      <4>1. u \in DOMAIN p.tasks /\ q.tasks[u] = p.tasks[u] BY <3>2 DEF TaskStep, Apart
      <4> QED BY <4>1 DEF Good, Tasks
    <3> QED BY <3>1, <3>2
  <2>2. \A u \in DOMAIN q.tasks : Running(q, u, q.tasks[u]) /\ Aimed(q, u, q.tasks[u])
    BY <2>1, RunningSame DEF Kept
  <2> QED BY <2>2 DEF Tasks, TaskStep
<1>3. Wired(q)
  <2>1. Called(q.tasks, p.queue) /\ Listed(q.tasks, p.waiters)
    BY TaskChanges DEF Good, Wired, Idle, TaskStep
  <2> QED BY <2>1 DEF Good, Wired, Kept, Handles
<1>4. Quiet(p, q)
  <2>1. ASSUME NEW u, u[1] = "build"
        PROVE  /\ u \in DOMAIN q.tasks <=> u \in DOMAIN p.tasks
               /\ u \in DOMAIN p.tasks => q.tasks[u] = p.tasks[u]
    BY <2>1 DEF TaskStep, Apart, Idle
  <2> QED BY <2>1 DEF Quiet, Kept
<1>5. \A u : u # t /\ Idle(p, u) => Idle(q, u) BY DEF Idle, TaskStep, Apart, Kept
<1> QED BY <1>1, <1>2, <1>3, <1>4, <1>5 DEF Continues, Good

\* A continuation after a continuation of the same task.
LEMMA ContinuesOn ==
  ASSUME NEW p, NEW q, NEW r, NEW t, Continues(p, t, q), Continues(q, t, r)
  PROVE  Continues(p, t, r)
<1>1. Still(p, r) BY DEF Continues, Still
<1>2. Quiet(p, r) BY DEF Continues, Quiet
<1> QED BY <1>1, <1>2 DEF Continues

\* What a quiet step leaves alone is what Owned is about.
LEMMA QuietOwns ==
  ASSUME NEW p, NEW q, NEW held, NEW n, Quiet(p, q), Owned(p, held, n)
  PROVE  Owned(q, held, n)
<1>1. \A h : <<"build", h>>[1] = "build" OBVIOUS
<1>2. \A h : /\ <<"build", h>> \in DOMAIN q.tasks <=> <<"build", h>> \in DOMAIN p.tasks
             /\ <<"build", h>> \in DOMAIN p.tasks => q.tasks[<<"build", h>>] = p.tasks[<<"build", h>>]
  BY <1>1 DEF Quiet
<1> QED BY <1>2 DEF Quiet, Owned, Handles

\* A task makes the call that it awaits.
LEMMA TaskCalls ==
  ASSUME NEW p, NEW t, NEW op \in {"solution", "edits"}, NEW h, NEW point \in Points \cup {None},
         Good(p), Idle(p, t), h \in Handles(p),
         Placed(p.tasks, [op |-> op, study |-> h, task |-> t, point |-> point])
  PROVE  Continues(p, t, Call(p, op, h, t, point))
<1> DEFINE c == [op |-> op, study |-> h, task |-> t, point |-> point]
           more == Append(p.queue, c)
           q == Call(p, op, h, t, point)
<1>0. Len(p.handles) \in Nat BY LenProperties DEF Good, Typed
<1>1. t \in TaskIds BY DEF Idle, Good, Tasks, Running
<1>2. c \in Calls /\ c.op # "free" /\ c.task = t /\ c.study = h
  <2>1. h \in Nat BY <1>0 DEF Handles
  <2> QED BY <1>1, <2>1 DEF Calls
<1>3. Placed(p.tasks, c) OBVIOUS
<1>4. Called(p.tasks, p.queue) /\ Uncalled(p.queue, t) BY DEF Good, Wired, Idle
<1>5. q = [p EXCEPT !.queue = more] BY DEF Call
<1> HIDE DEF c, more, q
<1>6. /\ Called(p.tasks, more)
      /\ \A u : u # t /\ Uncalled(p.queue, u) => Uncalled(more, u)
      /\ Freed(more) = Freed(p.queue)
  BY <1>2, <1>3, <1>4, CallsMore DEF more
<1>7. /\ Page(q) /\ q.queue = more
      /\ \A f \in Fields \ {"queue"} : q[f] = p[f]
  BY <1>5 DEF Good, Page, Fields
<1>8. \A i \in DOMAIN more : more[i].study \in Handles(p)
  <2>1. /\ DOMAIN p.queue = 1..Len(p.queue) /\ Len(p.queue) \in Nat
        /\ DOMAIN more = 1..(Len(p.queue) + 1)
        /\ \A i \in DOMAIN p.queue : more[i] = p.queue[i]
        /\ more[Len(p.queue) + 1] = c
    BY <1>2, <1>4, Appended DEF Called, more
  <2> QED BY <1>2, <2>1 DEF Good, Wired
<1>9. /\ q.tasks = p.tasks /\ q.waiters = p.waiters /\ q.handles = p.handles /\ q.cache = p.cache
      /\ q.build = p.build /\ q.listed = p.listed /\ q.disposed = p.disposed
      /\ q.solution = p.solution /\ q.baseSolution = p.baseSolution /\ q.column = p.column
      /\ q.solving = p.solving /\ q.failed = p.failed /\ q.stream = p.stream
  BY <1>7 DEF Fields
<1>10. Still(p, q) BY <1>7 DEF Fields, Still
<1>11. Typed(q) BY <1>9, <1>10 DEF Good, Typed, Still, Handles
<1>12. Tasks(q) BY <1>9, <1>10, RunningSame DEF Good, Tasks
<1>13. Wired(q) BY <1>6, <1>7, <1>8, <1>9 DEF Good, Wired, Handles
<1>14. Screen(q) /\ Streaming(q)
  BY <1>9, <1>10 DEF Good, Screen, Streaming, Live, Still, Current, PointAt
<1>15. Quiet(p, q) BY <1>6, <1>7, <1>9 DEF Quiet
<1>16. \A u : u # t /\ Idle(p, u) => Idle(q, u) BY <1>6, <1>7, <1>9 DEF Idle
<1> QED BY <1>7, <1>10, <1>11, <1>12, <1>13, <1>14, <1>15, <1>16 DEF Continues, Good, q


\* The point on the screen.
LEMMA CurrentPoint ==
  ASSUME NEW p, Good(p)
  PROVE  Current(p) \in Points /\ Current(p).formulation = p.formulation
BY DEF Good, Typed, Current, PointAt, Points

\* A solve or a selection is a record of what it awaits.
LEMMA IdleTask ==
  ASSUME NEW p, NEW t, Good(p), Idle(p, t)
  PROVE  /\ t \in TaskIds /\ t[1] # "build" /\ t \in DOMAIN p.tasks /\ Begun(p, t)
         /\ p.tasks[t] \in Waits /\ p.tasks[t].study \in Handles(p) \cup {None}
BY DEF Good, Tasks, Running, Idle

\* A task ends.
LEMMA TaskEnded ==
  ASSUME NEW p, NEW q, NEW t, q.tasks = Restrict(p.tasks, DOMAIN p.tasks \ {t})
  PROVE  TaskStep(p, t, q)
BY DEF TaskStep, Apart, Restrict

\* A task goes on to await something else.
LEMMA TaskReplaced ==
  ASSUME NEW p, NEW q, NEW t, NEW task, Good(p), Idle(p, t),
         q.tasks = [p.tasks EXCEPT ![t] = task],
         Running(p, t, task), Aimed(p, t, task)
  PROVE  TaskStep(p, t, q) /\ q.tasks[t] = task /\ t \in DOMAIN q.tasks
<1>1. p.tasks = [u \in DOMAIN p.tasks |-> p.tasks[u]] /\ t \in DOMAIN p.tasks
  BY DEF Good, Tasks, Idle
<1> DEFINE old == p.tasks
           new == q.tasks
<1>2. new = [old EXCEPT ![t] = task] /\ t \in DOMAIN old BY <1>1
<1> HIDE DEF old, new
<1>3. /\ DOMAIN new = DOMAIN old /\ new[t] = task
      /\ \A u \in DOMAIN old : u # t => new[u] = old[u]
      /\ new = [u \in DOMAIN new |-> new[u]]
  BY <1>2
<1> QED BY <1>1, <1>3 DEF TaskStep, Apart, old, new

\* The fields of a page that ended a task and changed little else.
LEMMA EndFields ==
  ASSUME NEW p, NEW t, Page(p)
  PROVE  /\ Page(End(p, t))
         /\ End(p, t).tasks = Restrict(p.tasks, DOMAIN p.tasks \ {t})
         /\ \A f \in Fields \ {"tasks"} : End(p, t)[f] = p[f]
BY DEF Page, End, Fields

\* A task ends, and nothing else happens.
LEMMA EndContinues ==
  ASSUME NEW p, NEW t, Good(p), Idle(p, t)
  PROVE  Continues(p, t, End(p, t))
<1> DEFINE q == End(p, t)
<1>1. /\ Page(q) /\ q.tasks = Restrict(p.tasks, DOMAIN p.tasks \ {t})
      /\ \A f \in Fields \ {"tasks"} : q[f] = p[f]
  BY EndFields DEF Good
<1> HIDE DEF q
<1>2. TaskStep(p, t, q) BY <1>1, TaskEnded
<1>3. Still(p, q) /\ Kept(p, q) BY <1>1 DEF Fields, Still, Kept
<1>4. Screen(q) /\ Streaming(q)
  BY <1>1 DEF Fields, Good, Screen, Streaming, Live, Current, PointAt
<1> QED BY <1>1, <1>2, <1>3, <1>4, TaskGoesOn DEF q

\* A solve ends with a message.
LEMMA SolveFailsContinues ==
  ASSUME NEW p, NEW t, Good(p), Idle(p, t)
  PROVE  Continues(p, t, SolveFails(p, t))
<1> DEFINE e == End(p, t)
           q == [e EXCEPT !.solving = FALSE, !.failed = TRUE]
<1>1. /\ Page(e) /\ e.tasks = Restrict(p.tasks, DOMAIN p.tasks \ {t})
      /\ \A f \in Fields \ {"tasks"} : e[f] = p[f]
  BY EndFields DEF Good
<1> HIDE DEF e
<1>2. /\ Page(q) /\ q.tasks = e.tasks /\ q.failed = TRUE
      /\ \A f \in Fields \ {"tasks", "solving", "failed"} : q[f] = p[f]
  BY <1>1 DEF Page, Fields
<1> HIDE DEF q
<1>3. TaskStep(p, t, q) BY <1>1, <1>2, TaskEnded
<1>4. Still(p, q) /\ Kept(p, q) BY <1>2 DEF Fields, Still, Kept
<1>5. Screen(q) /\ Streaming(q)
  BY <1>2 DEF Fields, Good, Screen, Streaming, Live, Current, PointAt
<1>6. Continues(p, t, q) BY <1>2, <1>3, <1>4, <1>5, TaskGoesOn
<1> QED BY <1>6 DEF SolveFails, q, e

\* A solve goes on with the server, at the point on the screen.
LEMMA FallbackContinues ==
  ASSUME NEW p, NEW t, Good(p), Idle(p, t), t[1] = "solve"
  PROVE  Continues(p, t, Fallback(p, t))
<1> DEFINE e == End(p, t)
           st == [seq |-> t[2], target |-> p.tasks[t].target, point |-> Current(p), at |-> "open"]
           q == [e EXCEPT !.stream = st]
<1>1. /\ Page(e) /\ e.tasks = Restrict(p.tasks, DOMAIN p.tasks \ {t})
      /\ \A f \in Fields \ {"tasks"} : e[f] = p[f]
  BY EndFields DEF Good
<1>2. st \in Streams /\ st.seq <= p.seq /\ st.point = Current(p) /\ st.at = "open"
  <2>1. t \in TaskIds /\ Begun(p, t) /\ p.tasks[t] \in Waits BY IdleTask
  <2>2. t[2] \in Nat /\ t[2] <= p.seq BY <2>1 DEF TaskIds, Begun
  <2>3. Current(p) \in Points BY CurrentPoint
  <2> QED BY <2>1, <2>2, <2>3 DEF Streams, Waits
<1> HIDE DEF e, st
<1>3. /\ Page(q) /\ q.tasks = e.tasks /\ q.stream = st
      /\ \A f \in Fields \ {"tasks", "stream"} : q[f] = p[f]
  BY <1>1 DEF Page, Fields
<1> HIDE DEF q
<1>4. TaskStep(p, t, q) BY <1>1, <1>3, TaskEnded
<1>5. Still(p, q) /\ Kept(p, q) BY <1>3 DEF Fields, Still, Kept
<1>6. Current(q) = Current(p) BY <1>5 DEF Still, Current, PointAt
<1>7. Screen(q) BY <1>3, <1>6 DEF Fields, Good, Screen
<1>8. Streaming(q) BY <1>2, <1>3, <1>5, <1>6 DEF Streaming, Live, Still
<1>9. Continues(p, t, q) BY <1>3, <1>4, <1>5, <1>7, <1>8, TaskGoesOn
<1> QED BY <1>9, SolveFailsContinues DEF Fallback, q, e, st

\* Nothing has changed but the record of t.
Replaced(p, t, task, q) == q = [p EXCEPT !.tasks = [@ EXCEPT ![t] = task]]

\* A task goes on to await something else.
LEMMA ReplacedContinues ==
  ASSUME NEW p, NEW q, NEW t, NEW task, Good(p), Idle(p, t),
         Replaced(p, t, task, q), Running(p, t, task), Aimed(p, t, task)
  PROVE  Continues(p, t, q) /\ Idle(q, t) /\ q.tasks[t] = task
<1>1. /\ Page(q) /\ q.tasks = [p.tasks EXCEPT ![t] = task]
      /\ \A f \in Fields \ {"tasks"} : q[f] = p[f]
  BY DEF Good, Page, Fields, Replaced
<1>2. TaskStep(p, t, q) /\ q.tasks[t] = task /\ t \in DOMAIN q.tasks BY <1>1, TaskReplaced
<1>3. Still(p, q) /\ Kept(p, q) BY <1>1 DEF Fields, Still, Kept
<1>4. Screen(q) /\ Streaming(q)
  BY <1>1 DEF Fields, Good, Screen, Streaming, Live, Current, PointAt
<1>5. Idle(q, t) BY <1>2, <1>3 DEF Idle, Kept
<1> QED BY <1>1, <1>2, <1>3, <1>4, <1>5, TaskGoesOn


\* One field of the record of a task.
LEMMA ReplacedAt ==
  ASSUME NEW p, NEW t, NEW at
  PROVE  Replaced(p, t, [p.tasks[t] EXCEPT !.at = at], [p EXCEPT !.tasks[t].at = at])
BY DEF Replaced

\* Two fields, one after the other.
LEMMA ReplacedTwice ==
  ASSUME NEW p, NEW q, NEW r, NEW t, NEW a, NEW b, Good(p), Idle(p, t),
         Replaced(p, t, a, q), Replaced(q, t, b, r)
  PROVE  Replaced(p, t, b, r)
<1>1. /\ p = [f \in Fields |-> p[f]] /\ p.tasks = [u \in DOMAIN p.tasks |-> p.tasks[u]]
      /\ t \in DOMAIN p.tasks
  BY DEF Good, Page, Tasks, Idle
<1> DEFINE x == p.tasks
           y == [x EXCEPT ![t] = a]
           z == [y EXCEPT ![t] = b]
<1>2. z = [x EXCEPT ![t] = b] OBVIOUS
<1>3. q = [p EXCEPT !.tasks = y] BY DEF Replaced
<1>4. q.tasks = y BY <1>1, <1>3 DEF Fields
<1>5. r = [q EXCEPT !.tasks = z] BY <1>4 DEF Replaced
<1> HIDE DEF x, y, z
<1>6. r = [p EXCEPT !.tasks = z] BY <1>1, <1>3, <1>5 DEF Fields
<1> QED BY <1>2, <1>6 DEF Replaced, x


\* The task gets another Study.
LEMMA ReplacedStudy ==
  ASSUME NEW p, NEW t, NEW h
  PROVE  Replaced(p, t, [p.tasks[t] EXCEPT !.study = h], [p EXCEPT !.tasks[t].study = h])
BY DEF Replaced

\* The task gets another point.
LEMMA ReplacedPoint ==
  ASSUME NEW p, NEW t, NEW point
  PROVE  Replaced(p, t, [p.tasks[t] EXCEPT !.point = point], [p EXCEPT !.tasks[t].point = point])
BY DEF Replaced

\* The record of t after one replacement.
LEMMA ReplacedTask ==
  ASSUME NEW p, NEW q, NEW t, NEW task, Good(p), Idle(p, t), Replaced(p, t, task, q)
  PROVE  q.tasks[t] = task
<1>1. p = [f \in Fields |-> p[f]] /\ t \in DOMAIN p.tasks BY DEF Good, Page, Idle
<1> DEFINE y == [p.tasks EXCEPT ![t] = task]
<1>2. q = [p EXCEPT !.tasks = y] BY DEF Replaced
<1>3. y[t] = task BY <1>1
<1> HIDE DEF y
<1>4. q.tasks = y BY <1>1, <1>2 DEF Fields
<1> QED BY <1>3, <1>4

\* A selection without a column from the browser ends or asks the server.
LEMMA NoColumnContinues ==
  ASSUME NEW p, NEW t, Good(p), Idle(p, t)
  PROVE  Continues(p, t, NoColumn(p, t))
<1> DEFINE point == Current(p)
           q == [p EXCEPT !.tasks[t].at = "server"]
           r == [q EXCEPT !.tasks[t].point = point]
           a == [p.tasks[t] EXCEPT !.at = "server"]
           b == [a EXCEPT !.point = point]
<1>1. Replaced(p, t, a, q) BY ReplacedAt
<1>2. q.tasks[t] = a
  <2> HIDE DEF q, a
  <2> QED BY <1>1, ReplacedTask
<1>3. Replaced(q, t, b, r)
  <2> HIDE DEF q, a, point
  <2> QED BY <1>2, ReplacedPoint
<1>4. Replaced(p, t, b, r)
  <2> HIDE DEF q, a, b, r
  <2> QED BY <1>1, <1>3, ReplacedTwice
<1>5. b \in Waits /\ b.study \in Handles(p) \cup {None} /\ b.at = "server" /\ b.point = point
  <2>1. p.tasks[t] \in Waits /\ p.tasks[t].study \in Handles(p) \cup {None} BY IdleTask
  <2>2. point \in Points BY CurrentPoint
  <2> HIDE DEF point
  <2> QED BY <2>1, <2>2 DEF Waits
<1>6. Running(p, t, b)
  <2> HIDE DEF b
  <2> QED BY <1>5, IdleTask DEF Running
<1>7. Aimed(p, t, b)
  <2> HIDE DEF b
  <2> QED BY <1>5, CurrentPoint DEF Aimed, Aims
<1>8. Continues(p, t, r)
  <2> HIDE DEF b, r
  <2> QED BY <1>4, <1>6, <1>7, ReplacedContinues
<1>9. NoColumn(p, t) = r \/ NoColumn(p, t) = End(p, t) BY DEF NoColumn
<1> HIDE DEF r
<1> QED BY <1>8, <1>9, EndContinues

\* The Study is asked for its index map or for the solution of the edits.
LEMMA ReplaceEditsContinues ==
  ASSUME NEW p, NEW t, Good(p), Idle(p, t), p.tasks[t].study \in Handles(p),
         p.tasks[t].point \in Points \cup {None}, Aims(p, t, p.tasks[t].point)
  PROVE  Continues(p, t, ReplaceEdits(p, t))
<1> DEFINE task == p.tasks[t]
           h == task.study
           sent(at) == [p EXCEPT !.tasks[t].at = at]
<1>1. ASSUME NEW at \in {"index", "edits"}
      PROVE  /\ Continues(p, t, sent(at)) /\ Idle(sent(at), t)
             /\ sent(at).tasks[t].at = at /\ sent(at).tasks[t].study = h
             /\ t \in DOMAIN sent(at).tasks
  <2> DEFINE a == [task EXCEPT !.at = at]
             q == sent(at)
  <2>1. Replaced(p, t, a, q) BY ReplacedAt
  <2>2. /\ a \in Waits /\ a.study = h /\ a.at = at /\ a.point = task.point
    <3>1. task \in Waits BY IdleTask
    <3> HIDE DEF task
    <3> QED BY <3>1 DEF Waits
  <2> HIDE DEF a, q
  <2>3. Running(p, t, a) BY <2>2, IdleTask DEF Running
  <2>4. Aimed(p, t, a) BY <2>2 DEF Aimed
  <2>5. Continues(p, t, q) /\ Idle(q, t) /\ q.tasks[t] = a BY <2>1, <2>3, <2>4, ReplacedContinues
  <2>6. t \in DOMAIN q.tasks BY <2>5 DEF Idle
  <2>7. Continues(p, t, q) /\ Idle(q, t) /\ q.tasks[t].at = at /\ q.tasks[t].study = h
    BY <2>2, <2>5
  <2> QED BY <2>6, <2>7 DEF q
<1>2. t[1] # "build" BY DEF Idle
<1>3. ASSUME NEW at \in {"index", "edits"}, NEW op \in {"solution", "edits"},
             NEW point \in Points \cup {None},
             (op = "solution" /\ at = "index") \/ (op = "edits" /\ at = "edits")
      PROVE  Continues(p, t, Call(sent(at), op, h, t, point))
  <2> DEFINE q == sent(at)
             c == [op |-> op, study |-> h, task |-> t, point |-> point]
  <2>1. /\ Continues(p, t, q) /\ Idle(q, t) /\ q.tasks[t].at = at /\ q.tasks[t].study = h
        /\ t \in DOMAIN q.tasks
    BY <1>1
  <2> HIDE DEF sent, q
  <2>2. Placed(q.tasks, c) BY <1>2, <1>3, <2>1 DEF Placed
  <2>3. Good(q) /\ h \in Handles(q) BY <2>1 DEF Continues, Quiet, Handles
  <2> HIDE DEF h
  <2>4. Continues(q, t, Call(q, op, h, t, point)) BY <2>1, <2>2, <2>3, TaskCalls
  <2>5. Continues(p, t, Call(q, op, h, t, point))
    <3> DEFINE r == Call(q, op, h, t, point)
    <3> HIDE DEF r
    <3>1. Continues(q, t, r) BY <2>4 DEF r
    <3> QED BY <2>1, <3>1, ContinuesOn DEF r
  <2> QED BY <2>5 DEF q
<1>4. /\ Continues(p, t, Call(sent("edits"), "edits", h, t, task.point))
      /\ Continues(p, t, Call(sent("index"), "solution", h, t, None))
  <2> HIDE DEF sent, h
  <2> QED BY <1>3
<1>5. \/ ReplaceEdits(p, t) = Call(sent("edits"), "edits", h, t, task.point)
      \/ ReplaceEdits(p, t) = Call(sent("index"), "solution", h, t, None)
  BY DEF ReplaceEdits
<1> HIDE DEF sent, h
<1> QED BY <1>4, <1>5


\* The screen changes, no task does.
LEMMA ScreenChanges ==
  ASSUME NEW p, NEW q, Good(p), Page(q), Still(p, q), Kept(p, q), q.tasks = p.tasks,
         Screen(q), Streaming(q)
  PROVE  /\ Good(q) /\ Quiet(p, q)
         /\ \A t : Idle(p, t) => Idle(q, t)
<1>1. Typed(q) BY DEF Good, Typed, Still, Kept, Handles
<1>2. Tasks(q) BY RunningSame DEF Good, Tasks, Kept
<1>3. Wired(q) BY DEF Good, Wired, Kept, Handles
<1>4. Quiet(p, q) BY DEF Quiet, Kept
<1>5. \A t : Idle(p, t) => Idle(q, t) BY DEF Idle, Kept
<1> QED BY <1>1, <1>2, <1>3, <1>4, <1>5 DEF Good

\* What follows getStudy, with no Study or with one of the formulation on the screen.
LEMMA WithStudyContinues ==
  ASSUME NEW p, NEW t, NEW h, Good(p), Idle(p, t),
         h = None \/ (h \in Handles(p) /\ p.handles[h] = p.formulation)
  PROVE  Continues(p, t, WithStudy(p, t, h))
<1> DEFINE point == [Current(p) EXCEPT !.formulation = IF h = None THEN @ ELSE p.handles[h]]
           o == [p EXCEPT !.tasks[t].study = h]
           q == [o EXCEPT !.tasks[t].point = point]
           base == IF q.baseSolution = None /\ p.cache = h THEN Base(p.handles[h]) ELSE q.baseSolution
           r == [q EXCEPT !.baseSolution = base]
           a == [p.tasks[t] EXCEPT !.study = h]
           b == [a EXCEPT !.point = point]
<1>1. point = Current(p) BY DEF Current, PointAt
<1>2. \/ WithStudy(p, t, h) = End(p, t)
      \/ t[1] = "solve" /\ WithStudy(p, t, h) = Fallback(p, t)
      \/ WithStudy(p, t, h) = NoColumn(p, t)
      \/ h # None /\ WithStudy(p, t, h) = ReplaceEdits(q, t)
      \/ h # None /\ WithStudy(p, t, h) = ReplaceEdits(r, t)
  BY DEF WithStudy
<1> HIDE DEF point
<1>3. ASSUME h # None
      PROVE  Continues(p, t, ReplaceEdits(q, t)) /\ Continues(p, t, ReplaceEdits(r, t))
  <2>1. Replaced(p, t, a, o) BY ReplacedStudy
  <2>2. o.tasks[t] = a
    <3> HIDE DEF o, a
    <3> QED BY <2>1, ReplacedTask
  <2>3. Replaced(o, t, b, q)
    <3> HIDE DEF o, a
    <3> QED BY <2>2, ReplacedPoint
  <2>4. Replaced(p, t, b, q)
    <3> HIDE DEF o, q, a, b
    <3> QED BY <2>1, <2>3, ReplacedTwice
  <2>5. b \in Waits /\ b.study = h /\ b.point = Current(p) /\ h \in Handles(p)
    <3>1. p.tasks[t] \in Waits BY IdleTask
    <3>2. point \in Points BY <1>1, CurrentPoint
    <3>3. h \in Handles(p) /\ h \in Nat BY <1>3, LenProperties DEF Handles, Good, Typed
    <3> QED BY <1>1, <3>1, <3>2, <3>3 DEF Waits
  <2> HIDE DEF o, a, b, q
  <2>6. Running(p, t, b) BY <2>5, IdleTask DEF Running
  <2>7. Aims(p, t, Current(p)) BY CurrentPoint DEF Aims
  <2>8. Aimed(p, t, b) BY <2>5, <2>7 DEF Aimed
  <2>9. Continues(p, t, q) /\ Idle(q, t) /\ q.tasks[t] = b
    BY <2>4, <2>6, <2>8, ReplacedContinues
  <2>10. /\ Good(q) /\ h \in Handles(q) /\ Current(q) = Current(p) /\ Aims(q, t, Current(q))
    <3>1. Good(q) /\ Still(p, q) /\ Quiet(p, q) BY <2>9 DEF Continues
    <3>2. Current(q) = Current(p) BY <3>1 DEF Still, Current, PointAt
    <3>3. Aims(q, t, Current(q)) BY <3>1, CurrentPoint DEF Aims
    <3> QED BY <2>5, <3>1, <3>2, <3>3 DEF Quiet, Handles
  <2>11. q.tasks[t].study = h /\ q.tasks[t].point = Current(q) /\ Current(q) \in Points
    BY <2>5, <2>9, <2>10, CurrentPoint
  <2>12. Continues(q, t, ReplaceEdits(q, t)) BY <2>9, <2>10, <2>11, ReplaceEditsContinues
  <2>13. /\ Page(r) /\ r.baseSolution = base
         /\ \A f \in Fields \ {"baseSolution"} : r[f] = q[f]
    <3> HIDE DEF base
    <3> QED BY <2>10 DEF Good, Page, Fields
  <2>14. base # None => base.formulation = q.formulation
    <3>1. p.handles[h] = q.formulation
      BY <1>3, <2>9 DEF Continues, Still
    <3>2. Base(p.handles[h]).formulation = q.formulation BY <3>1 DEF Base, PointAt
    <3> QED BY <2>10, <3>2 DEF Good, Screen
  <2> HIDE DEF r, base
  <2>15. Still(q, r) /\ Kept(q, r) /\ r.tasks = q.tasks BY <2>13 DEF Fields, Still, Kept
  <2>16. Current(r) = Current(q) BY <2>15 DEF Still, Current, PointAt
  <2>17. Screen(r) /\ Streaming(r)
    BY <2>10, <2>13, <2>14, <2>16 DEF Fields, Good, Screen, Streaming, Live
  <2>18. Good(r) /\ Quiet(q, r) /\ \A u : Idle(q, u) => Idle(r, u)
    BY <2>10, <2>13, <2>15, <2>17, ScreenChanges
  <2>19. Continues(q, t, r) /\ Idle(r, t) BY <2>9, <2>15, <2>18 DEF Continues
  <2>20. /\ r.tasks[t].study \in Handles(r) /\ r.tasks[t].point \in Points
         /\ Aims(r, t, r.tasks[t].point)
    BY <2>10, <2>11, <2>15, <2>16 DEF Kept, Handles, Aims, Still
  <2>21. Continues(r, t, ReplaceEdits(r, t)) BY <2>18, <2>19, <2>20, ReplaceEditsContinues
  <2> DEFINE x == ReplaceEdits(q, t)
             y == ReplaceEdits(r, t)
  <2> HIDE DEF x, y
  <2>22. Continues(p, t, x) BY <2>9, <2>12, ContinuesOn DEF x
  <2>23. Continues(p, t, r) BY <2>9, <2>19, ContinuesOn
  <2>24. Continues(p, t, y) BY <2>21, <2>23, ContinuesOn DEF y
  <2> QED BY <2>22, <2>24 DEF x, y
<1> HIDE DEF q, r
<1> QED BY <1>2, <1>3, EndContinues, FallbackContinues, NoColumnContinues


------------------------------------------------------------------------------
(* A Study is freed, a Study is built. *)

FreeCall(h) == [op |-> "free", study |-> h, task |-> None, point |-> None]

\* The queue after the cached Study is freed.
Disposing(p) == IF p.cache = None THEN p.queue ELSE Append(p.queue, FreeCall(p.cache))

\* A free call is a call for no task.
LEMMA FreesQueue ==
  ASSUME NEW p, NEW h, Good(p), h \in Handles(p)
  PROVE  /\ Called(p.tasks, Append(p.queue, FreeCall(h)))
         /\ \A u : Uncalled(p.queue, u) => Uncalled(Append(p.queue, FreeCall(h)), u)
         /\ \A i \in DOMAIN Append(p.queue, FreeCall(h)) :
              Append(p.queue, FreeCall(h))[i].study \in Handles(p)
         /\ Freed(Append(p.queue, FreeCall(h))) = Freed(p.queue) \cup {h}
<1> DEFINE c == FreeCall(h)
           more == Append(p.queue, c)
<1>1. c \in Calls /\ c.op = "free" /\ c.study = h
  <2>1. h \in Nat BY LenProperties DEF Good, Typed, Handles
  <2> QED BY <2>1 DEF Calls, FreeCall
<1>2. Called(p.tasks, p.queue) BY DEF Good, Wired
<1> HIDE DEF c
<1>3. /\ Called(p.tasks, more)
      /\ \A u : Uncalled(p.queue, u) => Uncalled(more, u)
      /\ Freed(more) = Freed(p.queue) \cup {h}
  BY <1>1, <1>2, CallsFree
<1>4. /\ DOMAIN p.queue = 1..Len(p.queue) /\ Len(p.queue) \in Nat
      /\ DOMAIN more = 1..(Len(p.queue) + 1)
      /\ \A i \in DOMAIN p.queue : more[i] = p.queue[i]
      /\ more[Len(p.queue) + 1] = c
  BY <1>1, <1>2, Appended DEF Called
<1> HIDE DEF more
<1>5. \A i \in DOMAIN more : more[i].study \in Handles(p)
  BY <1>1, <1>4 DEF Good, Wired
<1> QED BY <1>3, <1>5 DEF c, more

\* disposeStudy frees the cached Study and calls nobody.
LEMMA DisposingQueue ==
  ASSUME NEW p, Good(p)
  PROVE  /\ Called(p.tasks, Disposing(p))
         /\ \A u : Uncalled(p.queue, u) => Uncalled(Disposing(p), u)
         /\ \A i \in DOMAIN Disposing(p) : Disposing(p)[i].study \in Handles(p)
         /\ Freed(p.queue) \subseteq Freed(Disposing(p))
         /\ p.cache # None => p.cache \in Freed(Disposing(p))
         /\ \A h \in Freed(Disposing(p)) : h \in Freed(p.queue) \/ (p.cache # None /\ h = p.cache)
<1>1. CASE p.cache = None BY <1>1 DEF Disposing, Good, Wired
<1>2. CASE p.cache # None
  <2>1. p.cache \in Handles(p) BY <1>2 DEF Good, Typed
  <2>2. Disposing(p) = Append(p.queue, FreeCall(p.cache)) BY <1>2 DEF Disposing
  <2> DEFINE more == Append(p.queue, FreeCall(p.cache))
  <2>3. /\ Called(p.tasks, more)
        /\ \A u : Uncalled(p.queue, u) => Uncalled(more, u)
        /\ \A i \in DOMAIN more : more[i].study \in Handles(p)
        /\ Freed(more) = Freed(p.queue) \cup {p.cache}
    BY <2>1, FreesQueue
  <2> HIDE DEF more
  <2>4. Disposing(p) = more BY <2>2 DEF more
  <2> QED BY <1>2, <2>3, <2>4
<1> QED BY <1>1, <1>2

\* The cache is emptied, and the build with it or not.
Drops(p, q) ==
  /\ Page(q) /\ q.queue = Disposing(p) /\ q.cache = None /\ q.build \in {None, p.build}
  /\ \A f \in Fields \ {"queue", "cache", "build"} : q[f] = p[f]

\* Dropping the cached Study, and perhaps the build, keeps the invariant.
LEMMA DropsGood ==
  ASSUME NEW p, NEW q, NEW held, NEW n, Good(p), Owned(p, held, n), Drops(p, q)
  PROVE  /\ Good(q) /\ Owned(q, held, n) /\ Still(p, q)
         /\ \A t : Idle(p, t) => Idle(q, t)
<1>1. /\ Page(q) /\ q.queue = Disposing(p) /\ q.cache = None /\ q.build \in {None, p.build}
      /\ \A f \in Fields \ {"queue", "cache", "build"} : q[f] = p[f]
  BY DEF Drops
<1>2. /\ q.tasks = p.tasks /\ q.waiters = p.waiters /\ q.handles = p.handles
      /\ q.listed = p.listed /\ q.disposed = p.disposed
      /\ q.solution = p.solution /\ q.baseSolution = p.baseSolution /\ q.column = p.column
      /\ q.solving = p.solving /\ q.failed = p.failed /\ q.stream = p.stream
  BY <1>1 DEF Fields
<1>3. Still(p, q) BY <1>1 DEF Fields, Still
<1>4. Typed(q) BY <1>1, <1>2, <1>3 DEF Good, Typed, Still, Handles
<1>5. Tasks(q) BY <1>2, <1>3, RunningSame DEF Good, Tasks
<1>6. Wired(q) BY <1>1, <1>2, DisposingQueue DEF Good, Wired, Handles
<1>7. Screen(q) /\ Streaming(q)
  BY <1>2, <1>3 DEF Good, Screen, Streaming, Live, Still, Current, PointAt
<1>8. \A t : Idle(p, t) => Idle(q, t) BY <1>1, <1>2, DisposingQueue DEF Idle
<1>9. Owned(q, held, n)
  <2>1. Handles(q) = Handles(p) BY <1>2 DEF Handles
  <2>2. q.listed =>
          \A h \in DOMAIN held : <<"build", h>> \in DOMAIN q.tasks \/ h \in Freed(q.queue)
    <3> SUFFICES ASSUME q.listed, NEW h \in DOMAIN held
                 PROVE  <<"build", h>> \in DOMAIN q.tasks \/ h \in Freed(q.queue)
      OBVIOUS
    <3>1. h = p.cache \/ <<"build", h>> \in DOMAIN p.tasks \/ h \in Freed(p.queue)
      BY <1>2 DEF Owned
    <3>2. h # None BY LenProperties, GridAssumption DEF Good, Typed, Owned, Handles
    <3> QED BY <1>1, <1>2, <3>1, <3>2, DisposingQueue
  <2>3. ASSUME NEW h \in Handles(p), <<"build", h>> \in DOMAIN p.tasks
        PROVE  h # None /\ h \notin Freed(q.queue)
    <3>1. h # p.cache /\ h \notin Freed(p.queue) BY <2>3 DEF Owned
    <3>2. h # None BY LenProperties, GridAssumption DEF Good, Typed, Handles
    <3> QED BY <1>1, <3>1, <3>2, DisposingQueue
  <2> QED BY <1>1, <1>2, <2>1, <2>2, <2>3 DEF Owned
<1> QED BY <1>1, <1>3, <1>4, <1>5, <1>6, <1>7, <1>8, <1>9 DEF Good

\* The fields of a page whose Study is disposed of.
LEMMA DisposeFields ==
  ASSUME NEW p, Page(p)
  PROVE  Drops(p, DisposeStudy(p)) /\ DisposeStudy(p).build = None
<1> DEFINE q == IF p.cache = None THEN p ELSE Call(p, "free", p.cache, None, None)
<1>1. Page(q) /\ q.queue = Disposing(p) /\ \A f \in Fields \ {"queue"} : q[f] = p[f]
  BY DEF Page, Fields, Call, Disposing, FreeCall
<1>2. DisposeStudy(p) = [q EXCEPT !.cache = None, !.build = None] BY DEF DisposeStudy
<1> HIDE DEF q
<1> QED BY <1>1, <1>2 DEF Drops, Page, Fields


\* More handles, fewer limits: what a task may be stays so.
LEMMA RunningMore ==
  ASSUME NEW p, NEW q, NEW t, NEW task, Good(p), Still(p, q), Len(q.handles) = Len(p.handles) + 1
  PROVE  /\ Running(p, t, task) => Running(q, t, task)
         /\ Aimed(p, t, task) => Aimed(q, t, task)
         /\ Handles(p) \subseteq Handles(q)
<1>1. Handles(p) \subseteq Handles(q) BY LenProperties DEF Good, Typed, Handles
<1> QED BY <1>1 DEF Still, Running, Begun, Aimed, Aims, Current, PointAt

\* A task that asks for a Study begins the build of a new handle.
LEMMA BuildGood ==
  ASSUME NEW p, NEW t, NEW held, NEW n, Good(p), Owned(p, held, n), Idle(p, t),
         p.cache = None, ~p.disposed
  PROVE  Good(Build(p, t)) /\ Owned(Build(p, t), held, n)
<1> DEFINE m == Len(p.handles)
           h == m + 1
           b == <<"build", h>>
           new == [at |-> "new"]
           point == Base(p.formulation)
           c == [op |-> "new", study |-> h, task |-> b, point |-> point]
           more == Append(p.queue, c)
           x == [u \in DOMAIN p.tasks \cup {b} |-> IF u = b THEN new ELSE p.tasks[u]]
           old == p.tasks[t]
           task == [[old EXCEPT !.at = "build"] EXCEPT !.study = h]
           y == [x EXCEPT ![t] = task]
           hs == Append(p.handles, p.formulation)
           ws == Append(p.waiters, <<t>>)
           r == Build(p, t)
<1>1. /\ m \in Nat /\ h \in Nat /\ h \notin Handles(p) /\ h # None /\ Handles(p) = 1..m
      /\ Len(p.waiters) = m
  BY LenProperties, GridAssumption DEF Good, Typed, Handles
<1>2. /\ t \in TaskIds /\ t[1] # "build" /\ t \in DOMAIN p.tasks /\ Begun(p, t)
      /\ old \in Waits
  BY IdleTask
<1>3. b \in TaskIds /\ b[1] = "build" /\ b[2] = h /\ t # b BY <1>1, <1>2 DEF TaskIds
<1>4. b \notin DOMAIN p.tasks
  <2> SUFFICES ASSUME b \in DOMAIN p.tasks PROVE FALSE OBVIOUS
  <2>1. Begun(p, b) BY DEF Good, Tasks, Running
  <2> QED BY <1>1, <1>3, <2>1 DEF Begun
<1>5. c \in Calls /\ c.op # "free" /\ c.task = b /\ c.study = h /\ c.op = "new"
  <2>1. point \in Points BY GridAssumption DEF Base, PointAt, Points, Good, Typed
  <2> HIDE DEF point
  <2> QED BY <1>1, <1>3, <2>1 DEF Calls
<1>6. task \in Waits /\ task.at = "build" /\ task.study = h BY <1>1, <1>2 DEF Waits
<1>7. new \in Steps /\ new.at = "new" BY DEF Steps
<1>8. /\ Page(r) /\ r.queue = more /\ r.tasks = y /\ r.build = h /\ r.handles = hs
      /\ r.waiters = ws
      /\ \A f \in Fields \ {"queue", "tasks", "build", "handles", "waiters"} : r[f] = p[f]
  <2> DEFINE q1 == [p EXCEPT !.tasks = x]
             q2 == [q1 EXCEPT !.queue = Append(@, c)]
             q3 == [q2 EXCEPT !.build = h, !.handles = Append(@, p.formulation),
                              !.waiters = Append(@, <<t>>)]
             q4 == [q3 EXCEPT !.tasks[t].at = "build"]
             q5 == [q4 EXCEPT !.tasks[t].study = h]
  <2>1. r = q5 BY DEF Build, Await, Call
  <2>2. Page(q1) /\ q1.tasks = x /\ \A f \in Fields \ {"tasks"} : q1[f] = p[f]
    <3> HIDE DEF x
    <3> QED BY DEF Good, Page, Fields
  <2> HIDE DEF q1, x, c
  <2>3. /\ Page(q2) /\ q2.tasks = x /\ q2.queue = more
        /\ \A f \in Fields \ {"tasks", "queue"} : q2[f] = p[f]
    BY <2>2 DEF Page, Fields
  <2> HIDE DEF q2, more
  <2>4. /\ Page(q3) /\ q3.tasks = x /\ q3.queue = more /\ q3.build = h /\ q3.handles = hs
        /\ q3.waiters = ws
        /\ \A f \in Fields \ {"queue", "tasks", "build", "handles", "waiters"} : q3[f] = p[f]
    BY <2>3 DEF Page, Fields
  <2> HIDE DEF q3, hs, ws, h
  <2>5. x[t] = old /\ t \in DOMAIN x BY <1>2, <1>3 DEF x
  <2> HIDE DEF old
  <2> DEFINE a == [old EXCEPT !.at = "build"]
             y1 == [x EXCEPT ![t] = a]
  <2>6. q4 = [q3 EXCEPT !.tasks = y1] BY <2>4, <2>5
  <2>7. y1[t] = a /\ y = [y1 EXCEPT ![t] = task] BY <2>5
  <2> HIDE DEF y1, a, q4
  <2>8. /\ Page(q4) /\ q4.tasks = y1
        /\ \A f \in Fields \ {"tasks"} : q4[f] = q3[f]
    BY <2>4, <2>6 DEF Page, Fields
  <2>9. task = [a EXCEPT !.study = h] BY DEF a
  <2> HIDE DEF task
  <2>10. q5 = [q4 EXCEPT !.tasks = y]
    <3>1. q5 = [q4 EXCEPT !.tasks = [y1 EXCEPT ![t] = [a EXCEPT !.study = h]]] BY <2>7, <2>8
    <3> QED BY <2>7, <2>9, <3>1
  <2> HIDE DEF y, q5
  <2>11. Page(q5) /\ q5.tasks = y /\ \A f \in Fields \ {"tasks"} : q5[f] = q4[f]
    BY <2>8, <2>10 DEF Page, Fields
  <2>12. /\ q5.queue = more /\ q5.build = h /\ q5.handles = hs /\ q5.waiters = ws
         /\ \A f \in Fields \ {"queue", "tasks", "build", "handles", "waiters"} : q5[f] = p[f]
    BY <2>4, <2>8, <2>11 DEF Fields
  <2> QED BY <2>1, <2>11, <2>12
<1>9. /\ DOMAIN x = DOMAIN p.tasks \cup {b} /\ x[b] = new
      /\ \A u \in DOMAIN p.tasks : x[u] = p.tasks[u]
  BY <1>4
<1>10. /\ DOMAIN y = DOMAIN p.tasks \cup {b} /\ y[b] = new /\ y[t] = task
       /\ \A u \in DOMAIN p.tasks : u # t => y[u] = p.tasks[u]
       /\ y = [u \in DOMAIN y |-> y[u]]
  <2> HIDE DEF x, task, new, b
  <2> QED BY <1>2, <1>3, <1>9
<1>11. /\ hs \in Seq(Formulations) /\ Len(hs) = m + 1
  BY AppendProperties DEF Good, Typed
<1>12. Called(y, more) /\ (\A u : u # b /\ Uncalled(p.queue, u) => Uncalled(more, u)) /\ Freed(more) = Freed(p.queue)
       /\ Listed(y, ws) /\ Len(ws) = m + 1
  <2> HIDE DEF x, y, task, new, b, c, ws, h, m
  <2>1. Called(p.tasks, p.queue) /\ Listed(p.tasks, p.waiters) BY DEF Good, Wired
  <2>2. Uncalled(p.queue, b) BY <1>4, <2>1 DEF Uncalled, Called, Placed
  <2>3. Unlisted(p.waiters, b) BY <1>4, <2>1 DEF Unlisted, Listed
  <2>4. Apart(p.tasks, x, b) /\ Apart(x, y, t) BY <1>2, <1>3, <1>9, <1>10 DEF Apart
  <2>5. Called(x, p.queue) /\ Listed(x, p.waiters) BY <2>1, <2>2, <2>3, <2>4, TaskChanges
  <2>6. Uncalled(p.queue, t) /\ Unlisted(p.waiters, t) BY DEF Idle
  <2>7. Called(y, p.queue) /\ Listed(y, p.waiters) BY <2>4, <2>5, <2>6, TaskChanges
  <2>8. Placed(y, c) BY <1>5, <1>7, <1>10 DEF Placed, b
  <2>9. /\ Called(y, more) /\ Freed(more) = Freed(p.queue)
        /\ \A u : u # b /\ Uncalled(p.queue, u) => Uncalled(more, u)
    BY <1>5, <2>2, <2>7, <2>8, CallsMore
  <2>10. t \in DOMAIN y /\ y[t].at = "build" /\ y[t].study = Len(p.waiters) + 1
    BY <1>1, <1>2, <1>6, <1>10 DEF h, m
  <2>11. Listed(y, ws) /\ Len(ws) = Len(p.waiters) + 1
    BY <1>2, <2>6, <2>7, <2>10, ListBegun DEF ws
  <2> QED BY <1>1, <2>9, <2>11
<1>13. \A i \in DOMAIN more : more[i].study \in 1..(m + 1)
  <2>1. /\ DOMAIN p.queue = 1..Len(p.queue) /\ Len(p.queue) \in Nat
        /\ DOMAIN more = 1..(Len(p.queue) + 1)
        /\ \A i \in DOMAIN p.queue : more[i] = p.queue[i]
        /\ more[Len(p.queue) + 1] = c
    BY <1>5, Appended DEF Good, Wired, Called
  <2>2. \A i \in DOMAIN p.queue : p.queue[i].study \in 1..m BY <1>1 DEF Good, Wired
  <2>3. h \in 1..(m + 1) /\ \A k \in 1..m : k \in 1..(m + 1) BY <1>1
  <2>4. c.study \in 1..(m + 1) BY <1>5, <2>3
  <2> DEFINE k == Len(p.queue)
  <2> HIDE DEF c, more, h
  <2> SUFFICES ASSUME NEW i \in 1..(k + 1) PROVE more[i].study \in 1..(m + 1) BY <2>1
  <2>5. i \in 1..k \/ i = k + 1 BY <2>1
  <2>6. CASE i \in 1..k BY <2>1, <2>2, <2>3, <2>6
  <2>7. CASE i = k + 1 BY <2>1, <2>4, <2>7
  <2> QED BY <2>5, <2>6, <2>7
<1> HIDE DEF x, y, task, new, c, more, hs, ws, r, old
<1>14. Still(p, r) BY <1>8 DEF Fields, Still
<1>15. Handles(r) = 1..(m + 1) /\ Len(r.handles) = m + 1 BY <1>8, <1>11 DEF Handles
<1>16. Typed(r)
  <2>1. h \in 1..(m + 1) BY <1>1
  <2>2. r.cache = None BY <1>8 DEF Fields
  <2> HIDE DEF h, m
  <2> QED BY <1>8, <1>11, <1>12, <1>14, <1>15, <2>1, <2>2 DEF Good, Typed, Still
<1>17. Tasks(r)
  <2>1. ASSUME NEW u \in DOMAIN y PROVE Running(r, u, y[u]) /\ Aimed(r, u, y[u])
    <3>1. CASE u = b
      <4>1. Begun(r, b) BY <1>1, <1>3, <1>15 DEF Begun
      <4> HIDE DEF b
      <4> QED BY <1>3, <1>7, <1>10, <3>1, <4>1 DEF Running, Aimed
    <3>2. CASE u = t
      <4>1. Begun(r, t) BY <1>2, <1>14 DEF Begun, Still
      <4>2. task.study \in Handles(r) BY <1>1, <1>6, <1>15
      <4> QED BY <1>2, <1>6, <1>10, <3>2, <4>1, <4>2 DEF Running, Aimed
    <3>3. CASE u # b /\ u # t
      <4>1. u \in DOMAIN p.tasks /\ y[u] = p.tasks[u] BY <1>10, <3>3
      <4>2. Running(p, u, y[u]) /\ Aimed(p, u, y[u]) BY <4>1 DEF Good, Tasks
      <4> QED BY <1>14, <1>15, <4>2, RunningMore
    <3> QED BY <3>1, <3>2, <3>3
  <2> QED BY <1>8, <1>10, <2>1 DEF Tasks
<1>18. Wired(r) BY <1>8, <1>12, <1>13, <1>15 DEF Wired
<1>19. Screen(r) /\ Streaming(r)
  BY <1>8 DEF Fields, Good, Screen, Streaming, Live, Current, PointAt
<1>20. Owned(r, held, n)
  <2>1. r.cache = None /\ r.listed = p.listed /\ r.disposed = p.disposed BY <1>8 DEF Fields
  <2>2. DOMAIN held \subseteq 1..m BY <1>1 DEF Owned
  <2>3. DOMAIN held \subseteq Handles(r) BY <1>1, <1>15, <2>2
  <2>4. Freed(r.queue) = Freed(p.queue) /\ Freed(p.queue) \subseteq 1..m
    <3>1. \A i \in DOMAIN p.queue : p.queue[i].study \in 1..m BY <1>1 DEF Good, Wired
    <3> QED BY <1>8, <1>12, <3>1 DEF Freed
  <2>5. ASSUME r.listed, NEW k \in DOMAIN held
        PROVE  k = r.cache \/ <<"build", k>> \in DOMAIN r.tasks \/ k \in Freed(r.queue)
    BY <1>8, <1>10, <2>1, <2>4, <2>5 DEF Owned
  <2>6. ASSUME NEW k \in Handles(r), <<"build", k>> \in DOMAIN r.tasks
        PROVE  /\ k # r.cache /\ k \notin Freed(r.queue)
               /\ r.tasks[<<"build", k>>].at = "new" => k \notin DOMAIN held
    <3>1. CASE k = h BY <1>1, <2>1, <2>2, <2>4, <3>1
    <3>2. CASE k # h
      <4>1. k \in Handles(p) /\ <<"build", k>> # b BY <1>1, <1>15, <3>2
      <4>2. <<"build", k>> # t BY <1>2
      <4>3. <<"build", k>> \in DOMAIN p.tasks /\ r.tasks[<<"build", k>>] = p.tasks[<<"build", k>>]
        BY <1>8, <1>10, <2>6, <4>1, <4>2
      <4> QED BY <2>1, <2>4, <4>1, <4>3 DEF Owned
    <3> QED BY <3>1, <3>2
  <2> QED BY <2>1, <2>3, <2>5, <2>6 DEF Owned
<1> QED BY <1>8, <1>16, <1>17, <1>18, <1>19, <1>20 DEF Good, r


\* A task that asks for a Study joins the build in flight.
Joined(p, t) ==
  [p EXCEPT !.waiters[p.build] = Append(@, t), !.tasks[t].at = "build", !.tasks[t].study = p.build]

\* getStudy joins a build in flight.
LEMMA JoinGood ==
  ASSUME NEW p, NEW t, NEW held, NEW n, Good(p), Owned(p, held, n), Idle(p, t), p.build # None
  PROVE  Good(Joined(p, t)) /\ Owned(Joined(p, t), held, n)
<1> DEFINE h == p.build
           old == p.tasks[t]
           task == [[old EXCEPT !.at = "build"] EXCEPT !.study = h]
           y == [p.tasks EXCEPT ![t] = task]
           ws == [p.waiters EXCEPT ![h] = Append(@, t)]
           q == [p EXCEPT !.tasks = y]
           r == Joined(p, t)
<1>1. /\ t \in TaskIds /\ t[1] # "build" /\ t \in DOMAIN p.tasks /\ Begun(p, t)
      /\ old \in Waits
  BY IdleTask
<1>2. h \in Handles(p) /\ h \in Nat /\ h \in DOMAIN p.waiters
  <2>1. h \in Handles(p) /\ Len(p.waiters) = Len(p.handles) /\ Len(p.handles) \in Nat
    BY LenProperties DEF Good, Typed
  <2>2. DOMAIN p.waiters = 1..Len(p.waiters) BY LenProperties DEF Good, Wired, Listed
  <2> QED BY <2>1, <2>2 DEF Handles
<1>3. task \in Waits /\ task.at = "build" /\ task.study = h BY <1>1, <1>2 DEF Waits
<1>4. /\ Page(r) /\ r.tasks = y /\ r.waiters = ws
      /\ \A f \in Fields \ {"tasks", "waiters"} : r[f] = p[f]
  <2> DEFINE q1 == [p EXCEPT !.waiters = ws]
             q2 == [q1 EXCEPT !.tasks[t].at = "build"]
             q3 == [q2 EXCEPT !.tasks[t].study = h]
  <2>1. r = q3 BY DEF Joined
  <2>2. Page(q1) /\ q1.waiters = ws /\ \A f \in Fields \ {"waiters"} : q1[f] = p[f]
    <3> HIDE DEF ws
    <3> QED BY DEF Good, Page, Fields
  <2>3. q1.tasks = p.tasks BY <2>2 DEF Fields
  <2> DEFINE a == [old EXCEPT !.at = "build"]
             y1 == [p.tasks EXCEPT ![t] = a]
  <2>4. y1[t] = a /\ y = [y1 EXCEPT ![t] = task] BY <1>1
  <2> HIDE DEF q1, ws, h
  <2>5. q2 = [q1 EXCEPT !.tasks = y1] BY <2>3
  <2>6. task = [a EXCEPT !.study = h] OBVIOUS
  <2> HIDE DEF y1, a, q2, task, y
  <2>7. Page(q2) /\ q2.tasks = y1 /\ \A f \in Fields \ {"tasks"} : q2[f] = q1[f]
    BY <2>2, <2>5 DEF Page, Fields
  <2>8. q3 = [q2 EXCEPT !.tasks = y]
    <3>1. q3 = [q2 EXCEPT !.tasks = [y1 EXCEPT ![t] = [a EXCEPT !.study = h]]] BY <2>4, <2>7
    <3> QED BY <2>4, <2>6, <3>1
  <2> HIDE DEF q3
  <2>9. Page(q3) /\ q3.tasks = y /\ \A f \in Fields \ {"tasks"} : q3[f] = q2[f]
    BY <2>7, <2>8 DEF Page, Fields
  <2>10. q3.waiters = ws /\ \A f \in Fields \ {"tasks", "waiters"} : q3[f] = p[f]
    BY <2>2, <2>7, <2>9 DEF Fields
  <2> QED BY <2>1, <2>9, <2>10
<1>5. Replaced(p, t, task, q) BY DEF Replaced
<1> HIDE DEF h, old, task, q, r, ws, y
<1>6. Running(p, t, task) BY <1>1, <1>2, <1>3 DEF Running
<1>7. Aimed(p, t, task) BY <1>3 DEF Aimed
<1>8. Continues(p, t, q) /\ Idle(q, t) /\ q.tasks[t] = task BY <1>5, <1>6, <1>7, ReplacedContinues
<1>9. q.tasks = y /\ \A f \in Fields \ {"tasks"} : q[f] = p[f] BY DEF Good, Page, Fields, q
<1>10. r.tasks = q.tasks /\ \A f \in Fields \ {"waiters"} : r[f] = q[f] BY <1>4, <1>9 DEF Fields
<1>11. q.waiters = p.waiters BY <1>9 DEF Fields
<1>12. /\ Listed(q.tasks, ws) /\ Len(ws) = Len(p.waiters)
  <2>1. Listed(q.tasks, p.waiters) /\ Unlisted(p.waiters, t) /\ t \in DOMAIN q.tasks
    BY <1>8, <1>11 DEF Continues, Good, Wired, Idle
  <2> DEFINE z == q.tasks
  <2>2. /\ z[t].at = "build" /\ z[t].study = h /\ t \in TaskIds /\ t[1] # "build"
        /\ h \in DOMAIN p.waiters
    BY <1>1, <1>2, <1>3, <1>8
  <2> HIDE DEF z
  <2> QED BY <2>1, <2>2, ListJoined DEF ws, z
<1>13. Good(q) /\ Quiet(p, q) BY <1>8 DEF Continues
<1>14. Still(q, r) BY <1>10 DEF Still, Fields
<1>15. /\ r.listed = q.listed /\ r.disposed = q.disposed /\ r.cache = q.cache /\ r.build = q.build
       /\ r.handles = q.handles /\ r.queue = q.queue
  BY <1>10 DEF Fields
<1>16. Typed(r) BY <1>4, <1>11, <1>12, <1>13, <1>14, <1>15 DEF Good, Typed, Still, Handles
<1>17. Tasks(r) BY <1>10, <1>13, <1>14, <1>15, RunningSame DEF Good, Tasks
<1>18. Wired(r) BY <1>4, <1>10, <1>12, <1>13, <1>15 DEF Good, Wired, Handles
<1>19. Screen(r) /\ Streaming(r)
  BY <1>10, <1>13 DEF Fields, Good, Screen, Streaming, Live, Current, PointAt
<1>20. Quiet(q, r) BY <1>10, <1>15 DEF Quiet
<1>21. Owned(r, held, n)
  <2>1. Owned(q, held, n) BY <1>13, QuietOwns
  <2> QED BY <1>20, <2>1, QuietOwns
<1> QED BY <1>4, <1>16, <1>17, <1>18, <1>19, <1>21 DEF Good, r

------------------------------------------------------------------------------
(* The operations of the page. *)

\* Both invariants.
Sound(p, held, n) == Good(p) /\ Owned(p, held, n)

\* A continuation keeps both.
LEMMA ContinuesSound ==
  ASSUME NEW p, NEW q, NEW t, NEW held, NEW n, Sound(p, held, n), Continues(p, t, q)
  PROVE  Sound(q, held, n)
BY QuietOwns DEF Sound, Continues

\* getStudy.
LEMMA GetStudySound ==
  ASSUME NEW p, NEW t, NEW held, NEW n, Sound(p, held, n), Idle(p, t)
  PROVE  Sound(GetStudy(p, t), held, n)
<1>1. ASSUME NEW h, h = None \/ (h \in Handles(p) /\ p.handles[h] = p.formulation)
      PROVE  Sound(WithStudy(p, t, h), held, n)
  <2> DEFINE q == WithStudy(p, t, h)
  <2>1. Continues(p, t, q) BY <1>1, WithStudyContinues DEF Sound
  <2> HIDE DEF q
  <2>2. Sound(q, held, n) BY <2>1, ContinuesSound
  <2> QED BY <2>2 DEF q
<1>2. CASE p.disposed \/ p.unavailable
  <2>1. GetStudy(p, t) = WithStudy(p, t, None) BY <1>2 DEF GetStudy
  <2> QED BY <1>1, <2>1
<1>3. CASE ~(p.disposed \/ p.unavailable) /\ p.cache # None /\ p.handles[p.cache] = p.formulation
  <2>1. GetStudy(p, t) = WithStudy(p, t, p.cache) BY <1>3 DEF GetStudy
  <2>2. p.cache \in Handles(p) BY <1>3 DEF Sound, Good, Typed
  <2> QED BY <1>1, <1>3, <2>1, <2>2
<1>4. CASE /\ ~(p.disposed \/ p.unavailable)
           /\ ~(p.cache # None /\ p.handles[p.cache] = p.formulation)
           /\ p.build # None /\ p.handles[p.build] = p.formulation
  <2>1. GetStudy(p, t) = Joined(p, t) BY <1>4 DEF GetStudy, Joined
  <2> QED BY <1>4, <2>1, JoinGood DEF Sound
<1>5. CASE /\ ~(p.disposed \/ p.unavailable)
           /\ ~(p.cache # None /\ p.handles[p.cache] = p.formulation)
           /\ ~(p.build # None /\ p.handles[p.build] = p.formulation)
  <2> DEFINE o == IF p.cache = None THEN p ELSE Call(p, "free", p.cache, None, None)
             q == [o EXCEPT !.cache = None]
  <2>1. GetStudy(p, t) = Build(q, t) BY <1>5 DEF GetStudy
  <2>2. Page(o) /\ o.queue = Disposing(p) /\ \A f \in Fields \ {"queue"} : o[f] = p[f]
    BY DEF Sound, Good, Page, Fields, Call, Disposing, FreeCall
  <2> HIDE DEF o
  <2>3. Drops(p, q) BY <2>2 DEF Drops, Page, Fields
  <2>4. q.cache = None /\ q.disposed = p.disposed BY <2>3 DEF Drops, Fields
  <2> HIDE DEF q
  <2>5. Good(q) /\ Owned(q, held, n) /\ Idle(q, t) BY <2>3, DropsGood DEF Sound
  <2>6. Good(Build(q, t)) /\ Owned(Build(q, t), held, n) BY <1>5, <2>4, <2>5, BuildGood
  <2> QED BY <2>1, <2>6 DEF Sound
<1> QED BY <1>2, <1>3, <1>4, <1>5


\* What follows the module, or its failure.
LEMMA WithJsonSound ==
  ASSUME NEW p, NEW t, NEW held, NEW n, Sound(p, held, n), Idle(p, t)
  PROVE  Sound(WithJson(p, t), held, n) /\ Sound(WithoutJson(p, t), held, n)
<1>1. Continues(p, t, End(p, t)) /\ Continues(p, t, NoColumn(p, t))
  BY EndContinues, NoColumnContinues DEF Sound
<1>2. t[1] = "solve" => Continues(p, t, Fallback(p, t)) BY FallbackContinues DEF Sound
<1> DEFINE e == End(p, t)
           f == Fallback(p, t)
           c == NoColumn(p, t)
<1> HIDE DEF e, f, c
<1>3. Sound(e, held, n) BY <1>1, ContinuesSound DEF e
<1>4. Sound(c, held, n) BY <1>1, ContinuesSound DEF c
<1>5. t[1] = "solve" => Sound(f, held, n) BY <1>2, ContinuesSound DEF f
<1>6. \/ WithJson(p, t) = e
      \/ WithJson(p, t) = GetStudy(p, t)
  BY DEF WithJson, e
<1>7. \/ WithoutJson(p, t) = e
      \/ WithoutJson(p, t) = c
      \/ t[1] = "solve" /\ WithoutJson(p, t) = f
  BY DEF WithoutJson, e, f, c
<1> QED BY <1>3, <1>4, <1>5, <1>6, <1>7, GetStudySound

\* A solve or a selection begins.
LEMMA StartSound ==
  ASSUME NEW p, NEW t \in TaskIds, NEW target \in Targets \cup {None}, NEW held, NEW n,
         Sound(p, held, n), t[1] # "build", t \notin DOMAIN p.tasks, Begun(p, t)
  PROVE  Sound(Start(p, t, target), held, n)
<1> DEFINE task == [at |-> "json", target |-> target, study |-> None, point |-> None]
           y == [u \in DOMAIN p.tasks \cup {t} |-> IF u = t THEN task ELSE p.tasks[u]]
           q == Await(p, t, task)
<1>1. task \in Waits /\ task.at = "json" /\ task.study = None BY DEF Waits
<1>2. q = [p EXCEPT !.tasks = y] BY DEF Await
<1> HIDE DEF task
<1>3. /\ DOMAIN y = DOMAIN p.tasks \cup {t} /\ y[t] = task /\ y = [u \in DOMAIN y |-> y[u]]
      /\ \A u \in DOMAIN p.tasks : y[u] = p.tasks[u]
  OBVIOUS
<1> HIDE DEF y, q
<1>4. Page(q) /\ q.tasks = y /\ \A f \in Fields \ {"tasks"} : q[f] = p[f]
  BY <1>2 DEF Sound, Good, Page, Fields
<1>5. Still(p, q) /\ Kept(p, q) BY <1>4 DEF Fields, Still, Kept
<1>6. Typed(q) BY <1>5 DEF Sound, Good, Typed, Still, Kept, Handles
<1>7. Running(q, t, task) /\ Aimed(q, t, task) BY <1>1, <1>5 DEF Running, Aimed, Begun, Still
<1>8. Tasks(q)
  <2>1. ASSUME NEW u \in DOMAIN y PROVE Running(q, u, y[u]) /\ Aimed(q, u, y[u])
    <3>1. CASE u = t BY <1>3, <1>7, <3>1
    <3>2. CASE u # t
      <4>1. u \in DOMAIN p.tasks /\ y[u] = p.tasks[u] BY <1>3, <3>2
      <4>2. Running(p, u, y[u]) /\ Aimed(p, u, y[u]) BY <4>1 DEF Sound, Good, Tasks
      <4> QED BY <1>5, <4>2, RunningSame DEF Kept
    <3> QED BY <3>1, <3>2
  <2> QED BY <1>3, <1>4, <2>1 DEF Tasks
<1>9. Called(p.tasks, p.queue) /\ Listed(p.tasks, p.waiters) BY DEF Sound, Good, Wired
<1>10. Uncalled(p.queue, t) /\ Unlisted(p.waiters, t)
  <2>1. Uncalled(p.queue, t) BY <1>9 DEF Uncalled, Called, Placed
  <2>2. Unlisted(p.waiters, t) BY <1>9 DEF Unlisted, Listed
  <2> QED BY <2>1, <2>2
<1>11. Apart(p.tasks, y, t) BY <1>3 DEF Apart
<1>12. Called(y, p.queue) /\ Listed(y, p.waiters) BY <1>9, <1>10, <1>11, TaskChanges
<1>13. Wired(q) BY <1>4, <1>5, <1>12 DEF Sound, Good, Wired, Kept, Handles
<1>14. Screen(q) /\ Streaming(q)
  BY <1>4 DEF Fields, Sound, Good, Screen, Streaming, Live, Current, PointAt
<1>15. Idle(q, t) BY <1>3, <1>4, <1>5, <1>10 DEF Idle, Kept
<1>16. Quiet(p, q)
  <2>1. ASSUME NEW u, u[1] = "build"
        PROVE  /\ u \in DOMAIN q.tasks <=> u \in DOMAIN p.tasks
               /\ u \in DOMAIN p.tasks => q.tasks[u] = p.tasks[u]
    BY <1>3, <1>4, <2>1
  <2> QED BY <1>5, <2>1 DEF Quiet, Kept
<1>17. Sound(q, held, n)
  BY <1>4, <1>6, <1>8, <1>13, <1>14, <1>16, QuietOwns DEF Sound, Good
<1>18. Start(p, t, target) = q \/ Start(p, t, target) = WithJson(q, t) BY DEF Start, q, task
<1> QED BY <1>15, <1>17, <1>18, WithJsonSound

\* The newest solve and the newest selection are new, or nothing has changed.
LEMMA AimedLater ==
  ASSUME NEW p, NEW q, Good(p),
         \/ q.seq = p.seq + 1
         \/ q.seq = p.seq /\ Current(q) = Current(p),
         \/ q.selection = p.selection + 1 /\ q.abort \in ({"select"} \X Nat) \cup {None}
         \/ q.abort = None
         \/ q.selection = p.selection /\ q.abort = p.abort /\ q.formulation = p.formulation
  PROVE  \A t \in DOMAIN p.tasks : Aimed(q, t, p.tasks[t])
<1> SUFFICES ASSUME NEW t \in DOMAIN p.tasks, t[1] # "build",
                    p.tasks[t].at \in {"index", "edits", "server"}
             PROVE  Aims(q, t, p.tasks[t].point)
  BY DEF Aimed
<1>1. t \in TaskIds /\ Begun(p, t) /\ Aims(p, t, p.tasks[t].point)
  BY DEF Good, Tasks, Running, Aimed
<1>2. p.seq \in Nat /\ p.selection \in Nat BY DEF Good, Typed
<1>3. t # None BY <1>1, GridAssumption DEF TaskIds
<1>4. t = <<"solve", q.seq>> => p.tasks[t].point = Current(q)
  <2>1. CASE q.seq = p.seq + 1
    <3>1. t[1] = "solve" => t[2] <= p.seq /\ t[2] # p.seq + 1 BY <1>1, <1>2 DEF Begun, TaskIds
    <3> QED BY <2>1, <3>1
  <2>2. CASE q.seq = p.seq /\ Current(q) = Current(p) BY <1>1, <2>2 DEF Aims
  <2> QED BY <2>1, <2>2
<1>5. t = q.abort /\ t[2] = q.selection => p.tasks[t].point.formulation = q.formulation
  <2>1. CASE q.selection = p.selection + 1 /\ q.abort \in ({"select"} \X Nat) \cup {None}
    <3>1. t = q.abort => t[1] = "select" BY <1>3, <2>1
    <3>2. t[1] = "select" => t[2] <= p.selection /\ t[2] # p.selection + 1
      BY <1>1, <1>2 DEF Begun, TaskIds
    <3> QED BY <2>1, <3>1, <3>2
  <2>2. CASE q.abort = None BY <1>3, <2>2
  <2>3. CASE q.selection = p.selection /\ q.abort = p.abort /\ q.formulation = p.formulation
    BY <1>1, <2>3 DEF Aims
  <2> QED BY <2>1, <2>2, <2>3
<1> QED BY <1>4, <1>5 DEF Aims

\* The user changes what is on the screen; no task changes.
Moves(p, q) ==
  /\ Page(q) /\ Typed(q) /\ Screen(q) /\ Streaming(q)
  /\ q.tasks = p.tasks /\ q.queue = p.queue /\ q.waiters = p.waiters /\ q.handles = p.handles
  /\ q.cache = p.cache /\ q.build = p.build
  /\ q.listed => p.listed
  /\ q.disposed => p.disposed \/ (q.cache = None /\ q.build = None)
  /\ q.seq >= p.seq /\ q.selection >= p.selection

\* A change of the screen keeps the invariant when every task still aims at it.
LEMMA MovesSound ==
  ASSUME NEW p, NEW q, NEW held, NEW n, Sound(p, held, n), Moves(p, q),
         \A t \in DOMAIN p.tasks : Aimed(q, t, p.tasks[t])
  PROVE  Sound(q, held, n)
<1>1. Handles(q) = Handles(p) BY DEF Moves, Handles
<1>2. ASSUME NEW t \in DOMAIN p.tasks PROVE Running(q, t, p.tasks[t])
  <2>1. Running(p, t, p.tasks[t]) BY DEF Sound, Good, Tasks
  <2>2. Begun(q, t)
    <3>1. t[2] \in Nat BY <2>1 DEF Running, TaskIds
    <3>2. p.seq \in Nat /\ p.selection \in Nat /\ q.seq \in Nat /\ q.selection \in Nat
      BY DEF Sound, Good, Typed, Moves
    <3> QED BY <1>1, <2>1, <3>1, <3>2 DEF Running, Begun, Moves
  <2> QED BY <1>1, <2>1, <2>2 DEF Running
<1>3. Tasks(q) BY <1>2 DEF Sound, Good, Tasks, Moves
<1>4. Wired(q) BY <1>1 DEF Sound, Good, Wired, Moves
<1>5. Owned(q, held, n) BY <1>1 DEF Sound, Owned, Moves
<1> QED BY <1>3, <1>4, <1>5 DEF Sound, Good, Moves


------------------------------------------------------------------------------
(* The user. *)

\* The page that a solve starts from: the edits and the formulation are new, the
\* solution need not be theirs.
Edited(o, p) ==
  /\ Page(p) /\ Typed(p)
  /\ p.tasks = o.tasks /\ p.queue = o.queue /\ p.waiters = o.waiters /\ p.handles = o.handles
  /\ p.cache = o.cache /\ p.build = o.build /\ p.listed = o.listed /\ p.disposed = o.disposed
  /\ p.seq = o.seq
  /\ p.solution # None => p.solution.formulation = p.formulation
  /\ p.baseSolution # None => p.baseSolution.formulation = p.formulation
  /\ p.column # None => p.column.target = p.selected /\ p.column.point.formulation = p.formulation
  /\ \/ p.selection = o.selection + 1
     \/ p.selection = o.selection /\ p.abort = o.abort /\ p.formulation = o.formulation

\* runSolve.
LEMMA RunSolveSound ==
  ASSUME NEW o, NEW p, NEW target \in Targets \cup {None}, NEW held, NEW n,
         Sound(o, held, n), Edited(o, p)
  PROVE  Sound(RunSolve(p, target), held, n)
<1> DEFINE seq == p.seq + 1
           q == [p EXCEPT !.stream = None, !.seq = seq, !.solving = TRUE, !.failed = FALSE]
           t == <<"solve", seq>>
           aim == IF p.formulation = "acpf" THEN None ELSE target
<1>1. RunSolve(p, target) = Start(q, t, aim) BY DEF RunSolve
<1>2. o.seq \in Nat /\ p.seq = o.seq /\ o.selection \in Nat BY DEF Sound, Good, Typed, Edited
<1>3. /\ Page(q) /\ q.stream = None /\ q.seq = seq /\ q.solving = TRUE
      /\ \A f \in Fields \ {"stream", "seq", "solving", "failed"} : q[f] = p[f]
  <2> HIDE DEF seq
  <2> QED BY DEF Edited, Page, Fields
<1>4. seq \in Nat /\ seq > o.seq /\ seq = o.seq + 1 BY <1>2
<1> HIDE DEF q, seq
<1>5. /\ q.tasks = o.tasks /\ q.queue = o.queue /\ q.waiters = o.waiters /\ q.handles = o.handles
      /\ q.cache = o.cache /\ q.build = o.build /\ q.listed = o.listed /\ q.disposed = o.disposed
      /\ q.selection = p.selection /\ q.abort = p.abort /\ q.formulation = p.formulation
  BY <1>3 DEF Edited, Fields
<1>6. Typed(q) BY <1>3, <1>4 DEF Fields, Typed, Handles, Edited
<1>7. Screen(q) BY <1>3 DEF Fields, Screen, Edited
<1>8. Streaming(q) BY <1>3 DEF Streaming, Live
<1>9. Moves(o, q) BY <1>2, <1>3, <1>4, <1>5, <1>6, <1>7, <1>8 DEF Moves, Edited
<1>10. \A u \in DOMAIN o.tasks : Aimed(q, u, o.tasks[u])
  <2>1. q.seq = o.seq + 1 BY <1>3, <1>4
  <2>2. q.abort \in ({"select"} \X Nat) \cup {None} BY <1>6 DEF Typed
  <2>3. \/ q.selection = o.selection + 1
        \/ q.selection = o.selection /\ q.abort = o.abort /\ q.formulation = o.formulation
    BY <1>5 DEF Edited
  <2> QED BY <2>1, <2>2, <2>3, AimedLater DEF Sound
<1>11. Sound(q, held, n) BY <1>9, <1>10, MovesSound
<1>12. t \in TaskIds /\ t[1] # "build" /\ t[1] = "solve" /\ t[2] = seq BY <1>4 DEF TaskIds
<1>13. t \notin DOMAIN q.tasks
  <2> SUFFICES ASSUME t \in DOMAIN o.tasks PROVE FALSE BY <1>5
  <2>1. Begun(o, t) BY DEF Sound, Good, Tasks, Running
  <2> QED BY <1>2, <1>4, <1>12, <2>1 DEF Begun
<1>14. Begun(q, t) BY <1>3, <1>4, <1>12 DEF Begun
<1>15. aim \in Targets \cup {None} OBVIOUS
<1> HIDE DEF t, aim
<1>16. Sound(Start(q, t, aim), held, n) BY <1>11, <1>12, <1>13, <1>14, <1>15, StartSound
<1> QED BY <1>1, <1>16

\* selectTarget.
LEMMA SelectTargetSound ==
  ASSUME Inv, NEW target \in Targets, SelectTarget(target)
  PROVE  Sound(page', studies, crashes)
<1> DEFINE n == page.selection + 1
           t == <<"select", n>>
           p == [page EXCEPT !.selection = n, !.abort = t, !.selected = target, !.column = None]
<1>1. page' = p \/ page' = Start(p, t, target) BY DEF SelectTarget
<1>2. n \in Nat /\ n > page.selection /\ page.selection \in Nat BY DEF Inv, Good, Typed
<1>3. t \in TaskIds /\ t \in {"select"} \X Nat /\ t[1] = "select" /\ t[2] = n BY <1>2 DEF TaskIds
<1> HIDE DEF t, n
<1>4. /\ Page(p) /\ p.selection = n /\ p.abort = t /\ p.selected = target /\ p.column = None
      /\ \A f \in Fields \ {"selection", "abort", "selected", "column"} : p[f] = page[f]
  BY DEF Inv, Good, Page, Fields
<1> HIDE DEF p
<1>5. Typed(p) BY <1>2, <1>3, <1>4 DEF Fields, Inv, Good, Typed, Handles
<1>6. Screen(p) /\ Streaming(p)
  BY <1>4 DEF Fields, Inv, Good, Screen, Streaming, Live, Current, PointAt
<1>7. Moves(page, p)
  <2>1. page.seq \in Nat BY DEF Inv, Good, Typed
  <2> QED BY <1>2, <1>4, <1>5, <1>6, <2>1 DEF Fields, Moves
<1>8. \A u \in DOMAIN page.tasks : Aimed(p, u, page.tasks[u])
  <2>1. p.seq = page.seq /\ Current(p) = Current(page) BY <1>4 DEF Fields, Current, PointAt
  <2>2. p.selection = page.selection + 1 BY <1>4 DEF n
  <2> QED BY <1>3, <1>4, <2>1, <2>2, AimedLater DEF Inv
<1>9. Sound(p, studies, crashes) BY <1>7, <1>8, MovesSound DEF Inv, Sound
<1>10. t \notin DOMAIN p.tasks
  <2> SUFFICES ASSUME t \in DOMAIN page.tasks PROVE FALSE BY <1>7 DEF Moves
  <2>1. Begun(page, t) BY DEF Inv, Good, Tasks, Running
  <2> QED BY <1>2, <1>3, <2>1 DEF Begun
<1>11. Begun(p, t) BY <1>2, <1>3, <1>4 DEF Begun
<1>12. Sound(Start(p, t, target), studies, crashes) BY <1>3, <1>9, <1>10, <1>11, StartSound
<1> QED BY <1>1, <1>9, <1>12

\* The selection is cleared.
LEMMA ClearSelectionSound ==
  ASSUME Inv, ClearSelection
  PROVE  Sound(page', studies, crashes)
<1> DEFINE p == ClearedSelection(page)
<1>1. page' = p BY DEF ClearSelection
<1>2. /\ Page(p) /\ p.selection = page.selection + 1 /\ p.abort = None /\ p.selected = None
      /\ p.column = None
      /\ \A f \in Fields \ {"selection", "abort", "selected", "column"} : p[f] = page[f]
  BY DEF ClearedSelection, Inv, Good, Page, Fields
<1> HIDE DEF p
<1>3. page.selection \in Nat /\ page.seq \in Nat BY DEF Inv, Good, Typed
<1>4. Typed(p)
  <2>1. /\ p.formulation = page.formulation /\ p.deltas = page.deltas /\ p.ratings = page.ratings
        /\ p.seq = page.seq /\ p.handles = page.handles /\ p.waiters = page.waiters
        /\ p.cache = page.cache /\ p.build = page.build
    BY <1>2 DEF Fields
  <2> QED BY <1>2, <1>3, <2>1 DEF Inv, Good, Typed, Handles
<1>5. Screen(p) /\ Streaming(p)
  BY <1>2 DEF Fields, Inv, Good, Screen, Streaming, Live, Current, PointAt
<1>6. Moves(page, p) BY <1>2, <1>3, <1>4, <1>5 DEF Fields, Moves
<1>7. \A u \in DOMAIN page.tasks : Aimed(p, u, page.tasks[u])
  <2>1. p.seq = page.seq /\ Current(p) = Current(page) BY <1>2 DEF Fields, Current, PointAt
  <2> QED BY <1>2, <2>1, AimedLater DEF Inv
<1>8. Sound(p, studies, crashes) BY <1>6, <1>7, MovesSound DEF Inv, Sound
<1> QED BY <1>1, <1>8


\* commitDelta, commitRating and resetCase: only the edits and perhaps the solution change.
LEMMA EditsSolve ==
  ASSUME Inv, NEW p, NEW target \in Targets \cup {None}, Page(p),
         p.deltas \in Values, p.ratings \in Values,
         p.solution # None => p.solution.formulation = page.formulation,
         \A f \in Fields \ {"deltas", "ratings", "solution"} : p[f] = page[f]
  PROVE  Sound(RunSolve(p, target), studies, crashes)
<1>1. Typed(p) BY DEF Fields, Inv, Good, Typed, Handles
<1>2. Edited(page, p) BY <1>1 DEF Fields, Edited, Inv, Good, Screen
<1> QED BY <1>2, RunSolveSound DEF Inv, Sound

\* commitDelta.
LEMMA CommitDeltaSound ==
  ASSUME Inv, NEW value \in Values, CommitDelta(value)
  PROVE  Sound(page', studies, crashes)
<1> DEFINE p == [page EXCEPT !.deltas = value]
<1>1. page' = RunSolve(p, "bus") /\ page.selected = "bus" BY DEF CommitDelta
<1>2. Page(p) /\ p.deltas = value /\ \A f \in Fields \ {"deltas"} : p[f] = page[f]
  BY DEF Inv, Good, Page, Fields
<1> HIDE DEF p
<1>3. /\ p.ratings \in Values
      /\ p.solution # None => p.solution.formulation = page.formulation
  BY <1>2 DEF Fields, Inv, Good, Typed, Screen
<1>4. "bus" \in Targets \cup {None} BY <1>1 DEF Inv, Good, Typed
<1> QED BY <1>1, <1>2, <1>3, <1>4, EditsSolve

\* commitRating.
LEMMA CommitRatingSound ==
  ASSUME Inv, NEW value \in Values, CommitRating(value)
  PROVE  Sound(page', studies, crashes)
<1> DEFINE p == [page EXCEPT !.ratings = value]
<1>1. page' = RunSolve(p, "branch") /\ page.selected = "branch" BY DEF CommitRating
<1>2. Page(p) /\ p.ratings = value /\ \A f \in Fields \ {"ratings"} : p[f] = page[f]
  BY DEF Inv, Good, Page, Fields
<1> HIDE DEF p
<1>3. /\ p.deltas \in Values
      /\ p.solution # None => p.solution.formulation = page.formulation
  BY <1>2 DEF Fields, Inv, Good, Typed, Screen
<1>4. "branch" \in Targets \cup {None} BY <1>1 DEF Inv, Good, Typed
<1> QED BY <1>1, <1>2, <1>3, <1>4, EditsSolve

\* resetCase.
LEMMA ResetCaseSound ==
  ASSUME Inv, ResetCase
  PROVE  Sound(page', studies, crashes)
<1> DEFINE solution == IF page.baseSolution = None THEN page.solution ELSE page.baseSolution
           p == [page EXCEPT !.deltas = 0, !.ratings = 0, !.solution = solution]
<1>1. page' = RunSolve(p, page.selected) BY DEF ResetCase
<1>2. solution # None => solution.formulation = page.formulation BY DEF Inv, Good, Screen
<1> HIDE DEF solution
<1>3. /\ Page(p) /\ p.deltas = 0 /\ p.ratings = 0 /\ p.solution = solution
      /\ \A f \in Fields \ {"deltas", "ratings", "solution"} : p[f] = page[f]
  BY DEF Inv, Good, Page, Fields
<1> HIDE DEF p
<1>4. 0 \in Values BY GridAssumption
<1>5. page.selected \in Targets \cup {None} BY DEF Inv, Good, Typed
<1>6. p.deltas \in Values /\ p.ratings \in Values BY <1>3, <1>4
<1>7. p.solution # None => p.solution.formulation = page.formulation BY <1>2, <1>3
<1> QED BY <1>1, <1>3, <1>5, <1>6, <1>7, EditsSolve

\* Disposing of the Study commutes with what else the user's action changes.
LEMMA DisposesFirst ==
  ASSUME NEW p, NEW q, Page(q), q.cache = p.cache, q.queue = p.queue
  PROVE  LET d == DisposeStudy(q) IN
         /\ Page(d) /\ d.queue = Disposing(p) /\ d.cache = None /\ d.build = None
         /\ \A f \in Fields \ {"queue", "cache", "build"} : d[f] = q[f]
<1>1. Disposing(q) = Disposing(p) BY DEF Disposing
<1>2. Drops(q, DisposeStudy(q)) /\ DisposeStudy(q).build = None BY DisposeFields
<1> QED BY <1>1, <1>2 DEF Drops

\* The page without its Study.
LEMMA DisposedSound ==
  ASSUME Inv
  PROVE  LET o == DisposeStudy(page) IN
         /\ Sound(o, studies, crashes)
         /\ o.queue = Disposing(page) /\ o.cache = None /\ o.build = None
         /\ \A f \in Fields \ {"queue", "cache", "build"} : o[f] = page[f]
<1> DEFINE o == DisposeStudy(page)
<1>1. Drops(page, o) /\ o.build = None BY DisposeFields DEF Inv, Good
<1> HIDE DEF o
<1>2. Good(o) /\ Owned(o, studies, crashes) BY <1>1, DropsGood DEF Inv
<1> QED BY <1>1, <1>2 DEF Drops, Sound, o

\* changeFormulation.
LEMMA ChangeFormulationSound ==
  ASSUME Inv, NEW next \in Formulations, ChangeFormulation(next)
  PROVE  Sound(page', studies, crashes)
<1> DEFINE o == DisposeStudy(page)
           q == [page EXCEPT !.formulation = next]
           d == DisposeStudy(q)
           p == Reformulated(page, next)
<1>1. page' = RunSolve(p, page.selected) BY DEF ChangeFormulation
<1>2. /\ Sound(o, studies, crashes)
      /\ o.queue = Disposing(page) /\ o.cache = None /\ o.build = None
      /\ \A f \in Fields \ {"queue", "cache", "build"} : o[f] = page[f]
  BY DisposedSound
<1>3. /\ Page(q) /\ q.formulation = next
      /\ \A f \in Fields \ {"formulation"} : q[f] = page[f]
  BY DEF Inv, Good, Page, Fields
<1>4. p = [d EXCEPT !.baseSolution = None, !.solution = None, !.column = None, !.selection = @ + 1]
  BY DEF Reformulated
<1> HIDE DEF q, o, p
<1>5. q.cache = page.cache /\ q.queue = page.queue BY <1>3 DEF Fields
<1>6. /\ Page(d) /\ d.queue = Disposing(page) /\ d.cache = None /\ d.build = None
      /\ \A f \in Fields \ {"queue", "cache", "build"} : d[f] = q[f]
  BY <1>3, <1>5, DisposesFirst
<1> HIDE DEF d
<1>7. /\ Page(p) /\ p.baseSolution = None /\ p.solution = None /\ p.column = None
      /\ p.selection = d.selection + 1
      /\ \A f \in Fields \ {"baseSolution", "solution", "column", "selection"} : p[f] = d[f]
  BY <1>4, <1>6 DEF Page, Fields
<1>8. /\ p.formulation = next /\ p.selection = o.selection + 1
      /\ p.queue = o.queue /\ p.cache = o.cache /\ p.build = o.build
      /\ \A f \in Fields \ {"formulation", "baseSolution", "solution", "column", "selection",
                            "queue", "cache", "build"} : p[f] = o[f]
  BY <1>2, <1>3, <1>6, <1>7 DEF Fields
<1>9. o.selection \in Nat /\ Typed(o) BY <1>2 DEF Sound, Good, Typed
<1>10. Typed(p)
  <2>1. /\ p.deltas = o.deltas /\ p.ratings = o.ratings /\ p.seq = o.seq
        /\ p.selected = o.selected /\ p.abort = o.abort
        /\ p.handles = o.handles /\ p.waiters = o.waiters
    BY <1>8 DEF Fields
  <2> QED BY <1>8, <1>9, <2>1 DEF Typed, Handles
<1>11. Edited(o, p) BY <1>7, <1>8, <1>10 DEF Fields, Edited
<1>12. page.selected \in Targets \cup {None} BY DEF Inv, Good, Typed
<1> QED BY <1>1, <1>2, <1>11, <1>12, RunSolveSound

\* removeBackendCase.
LEMMA RemoveBackendCaseSound ==
  ASSUME Inv, RemoveBackendCase
  PROVE  Sound(page', studies, crashes)
<1> DEFINE o == DisposeStudy(page)
           q == [page EXCEPT !.stream = None, !.seq = @ + 1]
           d == DisposeStudy(q)
           c == ClearedSelection(d)
           p == [c EXCEPT !.listed = FALSE]
<1>1. page' = p BY DEF RemoveBackendCase
<1>2. /\ Sound(o, studies, crashes)
      /\ o.queue = Disposing(page) /\ o.cache = None /\ o.build = None
      /\ \A f \in Fields \ {"queue", "cache", "build"} : o[f] = page[f]
  BY DisposedSound
<1>3. /\ Page(q) /\ q.stream = None /\ q.seq = page.seq + 1
      /\ \A f \in Fields \ {"stream", "seq"} : q[f] = page[f]
  BY DEF Inv, Good, Page, Fields
<1> HIDE DEF q, o
<1>4. q.cache = page.cache /\ q.queue = page.queue BY <1>3 DEF Fields
<1>5. /\ Page(d) /\ d.queue = Disposing(page) /\ d.cache = None /\ d.build = None
      /\ \A f \in Fields \ {"queue", "cache", "build"} : d[f] = q[f]
  BY <1>3, <1>4, DisposesFirst
<1> HIDE DEF d
<1>6. /\ Page(c) /\ c.selection = d.selection + 1 /\ c.abort = None /\ c.selected = None
      /\ c.column = None
      /\ \A f \in Fields \ {"selection", "abort", "selected", "column"} : c[f] = d[f]
  <2>1. Page(d) BY <1>5
  <2> QED BY ONLY <2>1 DEF c, ClearedSelection, Page, Fields
<1> HIDE DEF c
<1>7. Page(p) /\ p.listed = FALSE /\ \A f \in Fields \ {"listed"} : p[f] = c[f]
  BY <1>6 DEF Page, Fields
<1> HIDE DEF p
<1>8. /\ p.stream = None /\ p.seq = o.seq + 1 /\ p.selection = o.selection + 1
      /\ p.abort = None /\ p.selected = None /\ p.column = None
      /\ p.queue = o.queue /\ p.cache = o.cache /\ p.build = o.build
      /\ \A f \in Fields \ {"stream", "seq", "selection", "abort", "selected", "column", "listed",
                            "queue", "cache", "build"} : p[f] = o[f]
  BY <1>2, <1>3, <1>5, <1>6, <1>7 DEF Fields
<1>9. o.selection \in Nat /\ o.seq \in Nat /\ Typed(o) /\ Screen(o) BY <1>2 DEF Sound, Good, Typed
<1>10. Typed(p)
  <2>1. /\ p.formulation = o.formulation /\ p.deltas = o.deltas /\ p.ratings = o.ratings
        /\ p.handles = o.handles /\ p.waiters = o.waiters
        /\ p.cache = o.cache /\ p.build = o.build
    BY <1>8 DEF Fields
  <2> QED BY <1>8, <1>9, <2>1 DEF Typed, Handles
<1>11. Screen(p) BY <1>8, <1>9 DEF Fields, Screen, Current, PointAt
<1>12. Streaming(p) BY <1>8 DEF Streaming, Live
<1>13. Moves(o, p) BY <1>7, <1>8, <1>9, <1>10, <1>11, <1>12 DEF Fields, Moves
<1>14. \A u \in DOMAIN o.tasks : Aimed(p, u, o.tasks[u]) BY <1>2, <1>8, AimedLater DEF Sound
<1>15. Sound(p, studies, crashes) BY <1>2, <1>13, <1>14, MovesSound
<1> QED BY <1>1, <1>15

\* dispose.
LEMMA DisposeSound ==
  ASSUME Inv, Dispose
  PROVE  Sound(page', studies, crashes)
<1> DEFINE o == DisposeStudy(page)
           q == [page EXCEPT !.abort = None, !.seq = @ + 1]
           d == DisposeStudy(q)
           p == [d EXCEPT !.disposed = TRUE]
<1>1. page' = p BY DEF Dispose
<1>2. /\ Sound(o, studies, crashes)
      /\ o.queue = Disposing(page) /\ o.cache = None /\ o.build = None
      /\ \A f \in Fields \ {"queue", "cache", "build"} : o[f] = page[f]
  BY DisposedSound
<1>3. /\ Page(q) /\ q.abort = None /\ q.seq = page.seq + 1
      /\ \A f \in Fields \ {"abort", "seq"} : q[f] = page[f]
  BY DEF Inv, Good, Page, Fields
<1> HIDE DEF q, o
<1>4. q.cache = page.cache /\ q.queue = page.queue BY <1>3 DEF Fields
<1>5. /\ Page(d) /\ d.queue = Disposing(page) /\ d.cache = None /\ d.build = None
      /\ \A f \in Fields \ {"queue", "cache", "build"} : d[f] = q[f]
  BY <1>3, <1>4, DisposesFirst
<1> HIDE DEF d
<1>6. Page(p) /\ p.disposed = TRUE /\ \A f \in Fields \ {"disposed"} : p[f] = d[f]
  BY <1>5 DEF Page, Fields
<1> HIDE DEF p
<1>7. /\ p.abort = None /\ p.seq = o.seq + 1
      /\ p.queue = o.queue /\ p.cache = o.cache /\ p.build = o.build
      /\ \A f \in Fields \ {"abort", "seq", "disposed", "queue", "cache", "build"} : p[f] = o[f]
  BY <1>2, <1>3, <1>5, <1>6 DEF Fields
<1>8. o.selection \in Nat /\ o.seq \in Nat /\ Typed(o) /\ Screen(o) /\ Streaming(o)
  BY <1>2 DEF Sound, Good, Typed
<1>9. Typed(p)
  <2>1. /\ p.formulation = o.formulation /\ p.deltas = o.deltas /\ p.ratings = o.ratings
        /\ p.selected = o.selected /\ p.selection = o.selection
        /\ p.handles = o.handles /\ p.waiters = o.waiters
    BY <1>7 DEF Fields
  <2> QED BY <1>7, <1>8, <2>1 DEF Typed, Handles
<1>10. Screen(p) BY <1>7, <1>8 DEF Fields, Screen, Current, PointAt
<1>11. Streaming(p)
  <2>1. p.stream = o.stream BY <1>7 DEF Fields
  <2>2. p.stream \in Streams \cup {None} /\ (p.stream # None => p.stream.seq <= o.seq)
    BY <1>8, <2>1 DEF Streaming
  <2>3. p.stream # None => p.stream.seq \in Nat BY <2>2 DEF Streams
  <2>4. p.stream # None => p.stream.seq <= p.seq /\ p.stream.seq # p.seq
    BY <1>7, <1>8, <2>2, <2>3
  <2> QED BY <2>2, <2>4 DEF Streaming, Live
<1>12. Moves(o, p) BY <1>2, <1>6, <1>7, <1>8, <1>9, <1>10, <1>11 DEF Fields, Moves
<1>13. \A u \in DOMAIN o.tasks : Aimed(p, u, o.tasks[u]) BY <1>2, <1>7, AimedLater DEF Sound
<1>14. Sound(p, studies, crashes) BY <1>2, <1>12, <1>13, MovesSound
<1> QED BY <1>1, <1>14


------------------------------------------------------------------------------
(* A build ends and everyone who awaits it continues. *)

\* Induction over the positions of a sequence, for a set of positions.
LEMMA PositionInduction ==
  ASSUME NEW n \in Nat, NEW P, 0 \in P, \A i \in 1..n : i - 1 \in P => i \in P
  PROVE  \A i \in 0..n : i \in P
<1> SUFFICES ASSUME NEW j \in 0..n, j \notin P PROVE FALSE
  OBVIOUS
<1> DEFINE S == {i \in 0..n : i \notin P}
           less == {p \in Nat \X Nat : p[1] < p[2]}
<1>1. IsWellFoundedOn(less, Nat) BY NatLessThanWellFounded DEF OpToRel
<1>2. S \subseteq Nat /\ S # {} OBVIOUS
<1> HIDE DEF less, S
<1>3. PICK x \in S : \A y \in S : ~(<<y, x>> \in less) BY <1>1, <1>2, WFMin
<1>4. x \in 1..n /\ x \notin P BY <1>3 DEF S
<1>5. x - 1 \in 0..n /\ x - 1 \notin P /\ x - 1 < x BY <1>4
<1>6. x - 1 \in S BY <1>5 DEF S
<1>7. <<x - 1, x>> \in less BY <1>4, <1>5 DEF less
<1> QED BY <1>3, <1>6, <1>7

\* f is the page after each of the first n continuations of w, from page a on.
Chain(n, a, w, study, f) ==
  f = [i \in 0..n |-> IF i = 0 THEN a ELSE WithStudy(f[i - 1], w[i], study)]

\* There is such a function: the recursion in Resolve is well defined.
LEMMA ChainExists ==
  ASSUME NEW n \in Nat, NEW a, NEW w, NEW study
  PROVE  \E f : Chain(n, a, w, study, f)
<1> DEFINE P == {m \in 0..n : \E f : Chain(m, a, w, study, f)}
<1>1. 0 \in P
  <2> DEFINE f == [i \in 0..0 |-> a]
  <2>1. f = [i \in 0..0 |-> IF i = 0 THEN a ELSE WithStudy(f[i - 1], w[i], study)] OBVIOUS
  <2> HIDE DEF f
  <2>2. Chain(0, a, w, study, f) BY <2>1 DEF Chain
  <2> QED BY <2>2
<1>2. ASSUME NEW m \in 1..n, m - 1 \in P PROVE m \in P
  <2>1. PICK f : Chain(m - 1, a, w, study, f) BY <1>2
  <2> DEFINE last == WithStudy(f[m - 1], w[m], study)
             g == [i \in 0..m |-> IF i = m THEN last ELSE f[i]]
  <2>2. f = [i \in 0..(m - 1) |-> IF i = 0 THEN a ELSE WithStudy(f[i - 1], w[i], study)]
    BY <2>1 DEF Chain
  <2>3. ASSUME NEW i \in 0..m
        PROVE  g[i] = IF i = 0 THEN a ELSE WithStudy(g[i - 1], w[i], study)
    <3>1. CASE i = 0
      <4>1. i \in 0..(m - 1) /\ i # m BY <3>1
      <4>2. f[i] = a BY <2>2, <3>1, <4>1
      <4> HIDE DEF last
      <4> QED BY <3>1, <4>1, <4>2
    <3>2. CASE i = m
      <4>1. i # 0 /\ i - 1 \in 0..m /\ i - 1 # m BY <3>2
      <4>2. g[i - 1] = f[i - 1]
        <5> HIDE DEF last
        <5> QED BY <4>1
      <4>3. g[i] = last
        <5> HIDE DEF last
        <5> QED BY <3>2
      <4> HIDE DEF g
      <4> QED BY <3>2, <4>1, <4>2, <4>3
    <3>3. CASE i # 0 /\ i # m
      <4>1. i \in 0..(m - 1) /\ i - 1 \in 0..m /\ i - 1 # m BY <3>3
      <4>2. g[i - 1] = f[i - 1] /\ g[i] = f[i]
        <5> HIDE DEF last
        <5> QED BY <3>3, <4>1
      <4>3. f[i] = WithStudy(f[i - 1], w[i], study) BY <2>2, <3>3, <4>1
      <4> HIDE DEF g
      <4> QED BY <3>3, <4>2, <4>3
    <3> QED BY <3>1, <3>2, <3>3
  <2>4. g = [i \in 0..m |-> g[i]]
    <3> HIDE DEF last
    <3> QED OBVIOUS
  <2> HIDE DEF g
  <2>5. g = [i \in 0..m |-> IF i = 0 THEN a ELSE WithStudy(g[i - 1], w[i], study)]
    BY <2>3, <2>4
  <2>6. Chain(m, a, w, study, g) BY <2>5 DEF Chain
  <2> QED BY <2>6
<1>3. n \in P
  <2> HIDE DEF P
  <2> QED BY <1>1, <1>2, PositionInduction
<1> QED BY <1>3

\* The page on which the continuations of a build begin.
Ended(p, h) == [End(p, <<"build", h>>) EXCEPT !.waiters[h] = <<>>]

\* Everyone who awaits the build continues, one after the other.
LEMMA ResolveSound ==
  ASSUME NEW p, NEW h, NEW study, NEW held, NEW n,
         NEW w \in Seq(TaskIds), p.waiters[h] = w,
         Sound(Ended(p, h), held, n),
         \A i \in DOMAIN w : Idle(Ended(p, h), w[i]),
         \A i, j \in DOMAIN w : w[i] = w[j] => i = j,
         \/ study = None
         \/ /\ study \in Handles(Ended(p, h))
            /\ Ended(p, h).handles[study] = Ended(p, h).formulation
  PROVE  Sound(Resolve(p, h, study), held, n)
<1> DEFINE a == Ended(p, h)
           m == Len(w)
           q == CHOOSE f : Chain(m, a, w, study, f)
           After(i) ==
             /\ Sound(q[i], held, n)
             /\ q[i].formulation = a.formulation /\ q[i].handles = a.handles
             /\ \A j \in DOMAIN w : j > i => Idle(q[i], w[j])
           P == {i \in 0..m : After(i)}
<1>1. m \in Nat /\ DOMAIN w = 1..m BY LenProperties
<1>2. Resolve(p, h, study) = q[m] BY DEF Resolve, Chain, Ended
<1>3. Sound(a, held, n) /\ \A i \in DOMAIN w : Idle(a, w[i]) OBVIOUS
<1>4. study = None \/ (study \in Handles(a) /\ a.handles[study] = a.formulation) OBVIOUS
<1> HIDE DEF a, m
<1>5. \E f : Chain(m, a, w, study, f) BY <1>1, ChainExists
<1>6. Chain(m, a, w, study, q) BY <1>5
<1> HIDE DEF q
<1>7. /\ q[0] = a
      /\ \A i \in 1..m : q[i] = WithStudy(q[i - 1], w[i], study)
  <2>1. q = [i \in 0..m |-> IF i = 0 THEN a ELSE WithStudy(q[i - 1], w[i], study)]
    BY <1>6 DEF Chain
  <2>2. q[0] = a BY <1>1, <2>1
  <2>3. ASSUME NEW i \in 1..m PROVE q[i] = WithStudy(q[i - 1], w[i], study)
    <3>1. i \in 0..m /\ i # 0 BY <1>1
    <3> QED BY <2>1, <3>1
  <2> QED BY <2>2, <2>3
<1>8. 0 \in P BY <1>1, <1>3, <1>7
<1>9. ASSUME NEW i \in 1..m, i - 1 \in P PROVE i \in P
  <2> DEFINE o == q[i - 1]
             t == w[i]
             r == q[i]
  <2>1. /\ Sound(o, held, n) /\ o.formulation = a.formulation /\ o.handles = a.handles
        /\ \A j \in DOMAIN w : j > i - 1 => Idle(o, w[j])
    BY <1>9
  <2>2. r = WithStudy(o, t, study) BY <1>7
  <2>3. i \in DOMAIN w /\ i > i - 1 BY <1>1
  <2>4. Idle(o, t) BY <2>1, <2>3
  <2>5. study = None \/ (study \in Handles(o) /\ o.handles[study] = o.formulation)
    BY <1>4, <2>1 DEF Handles
  <2>6. \A j \in DOMAIN w : j > i => j > i - 1 /\ w[j] # t
    <3> SUFFICES ASSUME NEW j \in DOMAIN w, j > i PROVE j > i - 1 /\ w[j] # t OBVIOUS
    <3>1. j # i /\ j > i - 1 BY <1>1
    <3> QED BY <2>3, <3>1
  <2> HIDE DEF o, t, r
  <2>7. Continues(o, t, WithStudy(o, t, study)) BY <2>1, <2>4, <2>5, WithStudyContinues DEF Sound
  <2>8. Continues(o, t, r) BY <2>2, <2>7
  <2>9. Sound(r, held, n) BY <2>1, <2>8, ContinuesSound
  <2>10. r.formulation = a.formulation /\ r.handles = a.handles
    BY <2>1, <2>8 DEF Continues, Still, Quiet
  <2>11. \A j \in DOMAIN w : j > i => Idle(r, w[j]) BY <2>1, <2>6, <2>8 DEF Continues
  <2>12. i \in 0..m BY <1>1
  <2> QED BY <2>9, <2>10, <2>11, <2>12 DEF r
<1>10. m \in P
  <2> HIDE DEF P
  <2>1. \A i \in 1..m : i - 1 \in P => i \in P BY <1>9
  <2>2. m \in Nat BY <1>1
  <2>3. \A i \in 0..m : i \in P BY ONLY <1>8, <2>1, <2>2, PositionInduction
  <2> QED BY <2>2, <2>3
<1> QED BY <1>2, <1>10


\* The build task of h ends and its list is emptied; what becomes of the Study is
\* in the queue, the cache and the build.
BuildOver(p, h, a) ==
  /\ Page(a)
  /\ a.tasks = Restrict(p.tasks, DOMAIN p.tasks \ {<<"build", h>>})
  /\ a.waiters = [p.waiters EXCEPT ![h] = <<>>]
  /\ \A f \in Fields \ {"tasks", "waiters", "queue", "cache", "build", "unavailable"} : a[f] = p[f]

\* There is no Study, it is cached, or it is freed.
Lost(p, h, a, held) ==
  a.queue = p.queue /\ a.cache = p.cache /\ a.build \in {None, p.build} /\ h \notin DOMAIN held
Cached(p, h, a, held) ==
  a.queue = p.queue /\ a.cache = h /\ a.build = None /\ p.build = h /\ h \in DOMAIN held
Unwanted(p, h, a) ==
  a.queue = Append(p.queue, FreeCall(h)) /\ a.cache = p.cache /\ a.build = p.build

\* The end of a build keeps the invariant, and whoever awaited it awaits nothing now.
LEMMA BuildOverSound ==
  ASSUME NEW p, NEW h, NEW a, NEW held, NEW n, Sound(p, held, n), h \in Handles(p),
         <<"build", h>> \in DOMAIN p.tasks, Uncalled(p.queue, <<"build", h>>),
         BuildOver(p, h, a), Lost(p, h, a, held) \/ Cached(p, h, a, held) \/ Unwanted(p, h, a)
  PROVE  /\ Sound(a, held, n) /\ Still(p, a) /\ a.handles = p.handles
         /\ \A i \in DOMAIN p.waiters[h] : Idle(a, p.waiters[h][i])
         /\ p.waiters[h] \in Seq(TaskIds)
         /\ \A i, j \in DOMAIN p.waiters[h] : p.waiters[h][i] = p.waiters[h][j] => i = j
<1> DEFINE b == <<"build", h>>
           ws == [p.waiters EXCEPT ![h] = <<>>]
           y == Restrict(p.tasks, DOMAIN p.tasks \ {b})
<1>1. /\ Page(a) /\ a.tasks = y /\ a.waiters = ws
      /\ \A f \in Fields \ {"tasks", "waiters", "queue", "cache", "build", "unavailable"} : a[f] = p[f]
  BY DEF BuildOver
<1>2. /\ a.handles = p.handles /\ a.listed = p.listed /\ a.disposed = p.disposed
      /\ a.solution = p.solution /\ a.baseSolution = p.baseSolution /\ a.column = p.column
      /\ a.solving = p.solving /\ a.failed = p.failed /\ a.stream = p.stream
  BY <1>1 DEF Fields
<1>3. Still(p, a) BY <1>1 DEF Fields, Still
<1>4. Handles(a) = Handles(p) BY <1>2 DEF Handles
<1>5. h \in DOMAIN p.waiters /\ h # None /\ Handles(p) \subseteq Nat
  <2>1. h \in 1..Len(p.waiters) /\ Len(p.handles) \in Nat
    BY LenProperties DEF Sound, Good, Typed, Handles
  <2>2. DOMAIN p.waiters = 1..Len(p.waiters) BY LenProperties DEF Sound, Good, Wired, Listed
  <2> QED BY <2>1, <2>2, GridAssumption DEF Handles
<1>6. Called(p.tasks, p.queue) /\ Listed(p.tasks, p.waiters) BY DEF Sound, Good, Wired
<1>7. /\ DOMAIN y = DOMAIN p.tasks \ {b}
      /\ \A u \in DOMAIN y : y[u] = p.tasks[u]
      /\ y = [u \in DOMAIN y |-> y[u]]
  BY DEF Restrict
<1>8. b[1] = "build" /\ b[2] = h OBVIOUS
<1>9. Unlisted(p.waiters, b) BY <1>6, <1>8 DEF Unlisted, Listed
<1>10. Uncalled(p.queue, b) OBVIOUS
<1> HIDE DEF y, b
<1>11. Apart(p.tasks, y, b) BY <1>7 DEF Apart
<1>12. Called(y, p.queue) /\ Listed(y, p.waiters) BY <1>6, <1>9, <1>10, <1>11, TaskChanges
<1>13. /\ Listed(y, ws) /\ Len(ws) = Len(p.waiters)
       /\ \A i \in DOMAIN p.waiters[h] : Unlisted(ws, p.waiters[h][i])
  BY <1>5, <1>12, ListLeft
<1> HIDE DEF ws
<1>14. /\ Called(y, a.queue)
       /\ \A u : Uncalled(p.queue, u) => Uncalled(a.queue, u)
       /\ \A i \in DOMAIN a.queue : a.queue[i].study \in Handles(p)
       /\ Freed(p.queue) \subseteq Freed(a.queue)
       /\ Freed(a.queue) \subseteq Freed(p.queue) \cup {h}
       /\ Unwanted(p, h, a) => h \in Freed(a.queue)
       /\ ~Unwanted(p, h, a) => Freed(a.queue) = Freed(p.queue)
  <2>1. CASE a.queue = p.queue /\ ~Unwanted(p, h, a)
    BY <1>12, <2>1 DEF Sound, Good, Wired
  <2>2. CASE Unwanted(p, h, a)
    <3> DEFINE more == Append(p.queue, FreeCall(h))
    <3>1. /\ Called(p.tasks, more)
          /\ \A u : Uncalled(p.queue, u) => Uncalled(more, u)
          /\ \A i \in DOMAIN more : more[i].study \in Handles(p)
          /\ Freed(more) = Freed(p.queue) \cup {h}
      BY FreesQueue DEF Sound
    <3>2. a.queue = more BY <2>2 DEF Unwanted
    <3> HIDE DEF more
    <3>3. Uncalled(more, b) BY <1>10, <3>1
    <3>4. Called(y, more) BY <1>6, <1>9, <1>11, <3>1, <3>3, TaskChanges
    <3> QED BY <2>2, <3>1, <3>2, <3>4
  <2> QED BY <2>1, <2>2 DEF Lost, Cached
<1>15. Typed(a)
  <2>1. a.cache \in Handles(p) \cup {None} /\ a.build \in Handles(p) \cup {None}
    BY DEF Lost, Cached, Unwanted, Sound, Good, Typed
  <2> QED BY <1>1, <1>2, <1>3, <1>4, <1>13, <2>1 DEF Sound, Good, Typed, Still
<1>16. Tasks(a)
  <2>1. ASSUME NEW u \in DOMAIN y PROVE Running(a, u, y[u]) /\ Aimed(a, u, y[u])
    <3>1. u \in DOMAIN p.tasks /\ y[u] = p.tasks[u] BY <1>7
    <3>2. Running(p, u, y[u]) /\ Aimed(p, u, y[u]) BY <3>1 DEF Sound, Good, Tasks
    <3> QED BY <1>2, <1>3, <3>2, RunningSame
  <2> QED BY <1>1, <1>7, <2>1 DEF Tasks
<1>17. Wired(a) BY <1>1, <1>4, <1>13, <1>14 DEF Wired
<1>18. Screen(a) /\ Streaming(a)
  BY <1>2, <1>3 DEF Sound, Good, Screen, Streaming, Live, Still, Current, PointAt
<1>19. Good(a) BY <1>1, <1>15, <1>16, <1>17, <1>18 DEF Good
<1>20. ASSUME NEW i \in DOMAIN p.waiters[h] PROVE Idle(a, p.waiters[h][i])
  <2> DEFINE u == p.waiters[h][i]
  <2>1. /\ u \in DOMAIN p.tasks /\ u[1] # "build" /\ p.tasks[u].at = "build"
    BY <1>5, <1>6 DEF Listed
  <2>2. Unlisted(ws, u) BY <1>13
  <2> HIDE DEF u
  <2>3. u \in DOMAIN y BY <1>7, <1>8, <2>1
  <2>4. Uncalled(p.queue, u)
    <3> SUFFICES ASSUME NEW j \in DOMAIN p.queue, p.queue[j].op # "free", p.queue[j].task = u
                 PROVE  FALSE
      BY DEF Uncalled
    <3>1. Placed(p.tasks, p.queue[j]) BY <1>6 DEF Called
    <3>2. p.queue[j].op \in {"new", "solution", "edits"}
      <4>1. p.queue[j] \in Calls BY <1>6, ElementOfSeq, LenProperties DEF Called
      <4> QED BY <4>1 DEF Calls
    <3> QED BY <2>1, <3>1, <3>2 DEF Placed
  <2>5. Uncalled(a.queue, u) BY <1>14, <2>4
  <2>6. Idle(a, u) BY <1>1, <2>1, <2>2, <2>3, <2>5 DEF Idle
  <2> QED BY <2>6 DEF u
<1>21. /\ p.waiters[h] \in Seq(TaskIds)
       /\ \A i, j \in DOMAIN p.waiters[h] : p.waiters[h][i] = p.waiters[h][j] => i = j
  BY <1>5, <1>6, ElementOfSeq, LenProperties DEF Listed
<1>22. Owned(a, held, n)
  <2>1. /\ DOMAIN held \subseteq Handles(p)
        /\ p.listed =>
             \A k \in DOMAIN held : k = p.cache \/ <<"build", k>> \in DOMAIN p.tasks \/ k \in Freed(p.queue)
        /\ p.cache # None => p.cache \notin Freed(p.queue) /\ (n = 0 => p.cache \in DOMAIN held)
        /\ p.disposed => p.cache = None /\ p.build = None
        /\ p.cache = None \/ p.build = None
        /\ \A k \in Handles(p) : <<"build", k>> \in DOMAIN p.tasks =>
             /\ k # p.cache /\ k \notin Freed(p.queue)
             /\ p.tasks[<<"build", k>>].at = "new" => k \notin DOMAIN held
    BY DEF Sound, Owned
  <2>2. h # p.cache /\ h \notin Freed(p.queue) BY <2>1
  <2>3. ASSUME NEW k, k # h
        PROVE  /\ <<"build", k>> \in DOMAIN y <=> <<"build", k>> \in DOMAIN p.tasks
               /\ <<"build", k>> \in DOMAIN y => y[<<"build", k>>] = p.tasks[<<"build", k>>]
    <3>1. <<"build", k>> # b BY <2>3 DEF b
    <3> QED BY <1>7, <3>1
  <2>4. <<"build", h>> \notin DOMAIN y BY <1>7 DEF b
  <2>5. ASSUME a.listed, NEW k \in DOMAIN held
        PROVE  k = a.cache \/ <<"build", k>> \in DOMAIN a.tasks \/ k \in Freed(a.queue)
    <3>1. k = p.cache \/ <<"build", k>> \in DOMAIN p.tasks \/ k \in Freed(p.queue)
      BY <1>2, <2>1, <2>5
    <3>2. k # None BY <1>5, <2>1, GridAssumption
    <3>3. CASE k = h BY <1>14, <2>5, <3>3 DEF Lost, Cached
    <3>4. CASE k # h
      <4>1. k = p.cache => k = a.cache
        BY <1>5, <2>1, <3>2 DEF Lost, Cached, Unwanted
      <4> QED BY <1>1, <1>14, <2>3, <3>1, <3>4, <4>1
    <3> QED BY <3>3, <3>4
  <2>6. a.cache # None => a.cache \notin Freed(a.queue) /\ (n = 0 => a.cache \in DOMAIN held)
    <3>1. CASE Lost(p, h, a, held)
      <4>1. a.queue = p.queue /\ a.cache = p.cache BY <3>1 DEF Lost
      <4> QED BY <2>1, <4>1
    <3>2. CASE Cached(p, h, a, held)
      <4>1. a.queue = p.queue /\ a.cache = h /\ h \in DOMAIN held BY <3>2 DEF Cached
      <4> QED BY <2>2, <4>1
    <3>3. CASE Unwanted(p, h, a)
      <4>1. a.cache = p.cache BY <3>3 DEF Unwanted
      <4> QED BY <1>14, <2>1, <2>2, <4>1
    <3> QED BY <3>1, <3>2, <3>3
  <2>7. /\ a.disposed => a.cache = None /\ a.build = None
        /\ a.cache = None \/ a.build = None
    BY <1>2, <1>5, <2>1 DEF Lost, Cached, Unwanted
  <2>8. ASSUME NEW k \in Handles(p), <<"build", k>> \in DOMAIN a.tasks
        PROVE  /\ k # a.cache /\ k \notin Freed(a.queue)
               /\ a.tasks[<<"build", k>>].at = "new" => k \notin DOMAIN held
    <3>1. k # h BY <1>1, <2>4, <2>8
    <3>2. <<"build", k>> \in DOMAIN p.tasks /\ a.tasks[<<"build", k>>] = p.tasks[<<"build", k>>]
      BY <1>1, <2>3, <2>8, <3>1
    <3>3. k # a.cache BY <2>1, <3>1, <3>2 DEF Lost, Cached, Unwanted
    <3> QED BY <1>14, <2>1, <3>1, <3>2, <3>3
  <2> QED BY <1>4, <2>1, <2>5, <2>6, <2>7, <2>8 DEF Owned
<1> QED BY <1>2, <1>3, <1>19, <1>20, <1>21, <1>22 DEF Sound


\* The promise of a build resolves on a page that settled what becomes of the Study.
LEMMA BuildResolves ==
  ASSUME NEW p, NEW s, NEW h, NEW study, NEW held, NEW n, Sound(p, held, n), h \in Handles(p),
         <<"build", h>> \in DOMAIN p.tasks, Uncalled(p.queue, <<"build", h>>),
         Page(s), \A f \in Fields \ {"queue", "cache", "build", "unavailable"} : s[f] = p[f],
         Lost(p, h, s, held) \/ Cached(p, h, s, held) \/ Unwanted(p, h, s),
         study = None \/ (study \in Handles(p) /\ p.handles[study] = p.formulation)
  PROVE  Sound(Resolve(s, h, study), held, n)
<1> DEFINE a == Ended(s, h)
           e == End(s, <<"build", h>>)
           ws == [s.waiters EXCEPT ![h] = <<>>]
<1>1. /\ Page(e) /\ e.tasks = Restrict(s.tasks, DOMAIN s.tasks \ {<<"build", h>>})
      /\ \A f \in Fields \ {"tasks"} : e[f] = s[f]
  BY EndFields
<1>2. a = [e EXCEPT !.waiters = ws]
  <2>1. e.waiters = s.waiters BY <1>1 DEF Fields
  <2> HIDE DEF e
  <2> QED BY <2>1 DEF Ended, e
<1> HIDE DEF e, ws, a
<1>3. Page(a) /\ a.waiters = ws /\ \A f \in Fields \ {"waiters"} : a[f] = e[f]
  BY <1>1, <1>2 DEF Page, Fields
<1>4. s.tasks = p.tasks /\ s.waiters = p.waiters BY DEF Fields
<1>5. BuildOver(p, h, a) BY <1>1, <1>3, <1>4 DEF BuildOver, Fields, ws
<1>6. Lost(p, h, a, held) \/ Cached(p, h, a, held) \/ Unwanted(p, h, a)
  <2>1. a.queue = s.queue /\ a.cache = s.cache /\ a.build = s.build BY <1>1, <1>3 DEF Fields
  <2> QED BY <2>1 DEF Lost, Cached, Unwanted
<1> DEFINE w == p.waiters[h]
<1>7. /\ Sound(a, held, n) /\ Still(p, a) /\ a.handles = p.handles
      /\ \A i \in DOMAIN w : Idle(a, w[i])
      /\ w \in Seq(TaskIds)
      /\ \A i, j \in DOMAIN w : w[i] = w[j] => i = j
  BY <1>5, <1>6, BuildOverSound
<1>8. s.waiters[h] = w BY <1>4
<1>9. study = None \/ (study \in Handles(a) /\ a.handles[study] = a.formulation)
  BY <1>7 DEF Handles, Still
<1> HIDE DEF w
<1>10. /\ w \in Seq(TaskIds) /\ s.waiters[h] = w /\ Sound(Ended(s, h), held, n)
       /\ \A i \in DOMAIN w : Idle(Ended(s, h), w[i])
       /\ \A i, j \in DOMAIN w : w[i] = w[j] => i = j
  BY <1>7, <1>8 DEF a
<1>11. \/ study = None
       \/ /\ study \in Handles(Ended(s, h))
          /\ Ended(s, h).handles[study] = Ended(s, h).formulation
  BY <1>9 DEF a
<1> QED BY ONLY <1>10, <1>11, ResolveSound

------------------------------------------------------------------------------
(* The answers of the engine. *)

\* The page with the first call taken out of the queue.
Popped(p) == p = [page EXCEPT !.queue = Tail(@)]

\* The engine takes its oldest call: its task awaits nothing now.
LEMMA PoppedPage ==
  ASSUME Inv, page.queue # <<>>, NEW p, Popped(p), NEW call, call = Head(page.queue)
  PROVE  /\ Good(p) /\ p.queue = Tail(page.queue)
         /\ \A f \in Fields \ {"queue"} : p[f] = page[f]
         /\ call \in Calls /\ call.study \in Handles(p)
         /\ call.op # "free" =>
              /\ Sound(p, studies, crashes)
              /\ Placed(p.tasks, call) /\ call.task \in TaskIds
              /\ Uncalled(p.queue, call.task) /\ Unlisted(p.waiters, call.task)
<1> DEFINE queue == page.queue
           rest == Tail(queue)
<1>1. Called(page.tasks, queue) /\ Listed(page.tasks, page.waiters) BY DEF Inv, Good, Wired
<1>2. /\ Called(page.tasks, rest) /\ call \in Calls
      /\ call.op # "free" => Placed(page.tasks, call) /\ Uncalled(rest, call.task)
      /\ call.op # "free" => Freed(rest) = Freed(queue)
  BY <1>1, CallAnswered
<1>3. Page(p) /\ p.queue = rest /\ \A f \in Fields \ {"queue"} : p[f] = page[f]
  <2>1. p = [page EXCEPT !.queue = rest] BY DEF Popped
  <2> HIDE DEF rest
  <2> QED BY <2>1 DEF Inv, Good, Page, Fields
<1>4. queue \in Seq(Calls) BY <1>1 DEF Called
<1>5. /\ rest \in Seq(Calls) /\ Len(queue) \in Nat \ {0} /\ Len(rest) = Len(queue) - 1
      /\ DOMAIN queue = 1..Len(queue) /\ DOMAIN rest = 1..(Len(queue) - 1)
      /\ \A i \in 1..(Len(queue) - 1) : rest[i] = queue[i + 1]
      /\ call = queue[1]
  <2>1. Len(queue) \in Nat /\ DOMAIN queue = 1..Len(queue) BY <1>4, LenProperties
  <2>2. Len(queue) # 0 BY <1>4, EmptySeq
  <2>3. /\ rest \in Seq(Calls) /\ Len(rest) = Len(queue) - 1
        /\ \A i \in 1..Len(rest) : rest[i] = queue[i + 1]
        /\ Head(queue) = queue[1]
    BY <1>4, HeadTailProperties
  <2>4. DOMAIN rest = 1..Len(rest) BY <2>3, LenProperties
  <2> QED BY <2>1, <2>2, <2>3, <2>4
<1>6. /\ call.study \in Handles(page)
      /\ \A i \in DOMAIN rest : rest[i].study \in Handles(page)
  <2> DEFINE m == Len(queue)
  <2>1. 1 \in 1..m /\ \A i \in 1..(m - 1) : i + 1 \in 1..m BY <1>5
  <2>2. \A i \in 1..m : queue[i].study \in Handles(page) BY <1>5 DEF Inv, Good, Wired
  <2> HIDE DEF queue, rest
  <2> QED BY <1>5, <2>1, <2>2
<1> HIDE DEF rest
<1>7. /\ p.tasks = page.tasks /\ p.waiters = page.waiters /\ p.handles = page.handles
      /\ p.cache = page.cache /\ p.build = page.build /\ p.listed = page.listed
      /\ p.disposed = page.disposed
      /\ p.solution = page.solution /\ p.baseSolution = page.baseSolution
      /\ p.column = page.column /\ p.solving = page.solving /\ p.failed = page.failed
      /\ p.stream = page.stream
  BY <1>3 DEF Fields
<1>8. Still(page, p) BY <1>3 DEF Fields, Still
<1>9. Typed(p) BY <1>7, <1>8 DEF Inv, Good, Typed, Still, Handles
<1>10. Tasks(p) BY <1>7, <1>8, RunningSame DEF Inv, Good, Tasks
<1>11. Wired(p) BY <1>1, <1>2, <1>3, <1>6, <1>7 DEF Wired, Handles
<1>12. Screen(p) /\ Streaming(p)
  BY <1>7, <1>8 DEF Inv, Good, Screen, Streaming, Live, Still, Current, PointAt
<1>13. Good(p) BY <1>3, <1>9, <1>10, <1>11, <1>12 DEF Good
<1>14. ASSUME call.op # "free"
       PROVE  /\ Sound(p, studies, crashes)
              /\ Placed(p.tasks, call) /\ call.task \in TaskIds
              /\ Uncalled(p.queue, call.task) /\ Unlisted(p.waiters, call.task)
  <2>1. Quiet(page, p) BY <1>2, <1>3, <1>7, <1>14 DEF Quiet
  <2>2. Owned(p, studies, crashes) BY <2>1, QuietOwns DEF Inv
  <2>3. Placed(p.tasks, call) /\ Uncalled(p.queue, call.task) BY <1>2, <1>3, <1>7, <1>14
  <2>4. call.op \in {"new", "solution", "edits"} BY <1>2, <1>14 DEF Calls
  <2>5. call.task \in TaskIds BY <2>3, <1>10 DEF Placed, Tasks, Running
  <2>6. call.task[1] = "build" \/ p.tasks[call.task].at \in {"index", "edits"}
    BY <2>3, <2>4 DEF Placed
  <2>7. Unlisted(page.waiters, call.task)
    <3> DEFINE u == call.task
    <3>1. u[1] = "build" \/ page.tasks[u].at # "build" BY <1>7, <2>6
    <3> HIDE DEF u
    <3>2. Unlisted(page.waiters, u) BY <1>1, <3>1 DEF Unlisted, Listed
    <3> QED BY <3>2 DEF u
  <2> QED BY <1>7, <1>13, <2>2, <2>3, <2>5, <2>7 DEF Sound
<1>15. p.queue = Tail(page.queue) BY <1>3 DEF rest
<1>16. call.study \in Handles(p) BY <1>6, <1>7 DEF Handles
<1> QED BY <1>2, <1>3, <1>13, <1>14, <1>15, <1>16


\* study_new: the Study is there, and the build awaits its base solution.
LEMMA NewAnswered ==
  ASSUME NEW p, NEW held, NEW n, NEW more, NEW h, Sound(p, held, n), h \in Handles(p),
         <<"build", h>> \in DOMAIN p.tasks, Uncalled(p.queue, <<"build", h>>),
         Unlisted(p.waiters, <<"build", h>>), DOMAIN more = DOMAIN held \cup {h}
  PROVE  Sound(Call([p EXCEPT !.tasks[<<"build", h>>].at = "base"], "solution", h, <<"build", h>>, None),
               more, n)
<1> DEFINE b == <<"build", h>>
           base == [p.tasks[b] EXCEPT !.at = "base"]
           y == [p.tasks EXCEPT ![b] = base]
           q == [p EXCEPT !.tasks = y]
           c == [op |-> "solution", study |-> h, task |-> b, point |-> None]
           queue == Append(p.queue, c)
           r == [q EXCEPT !.queue = queue]
<1>1. h \in Nat /\ h # None BY LenProperties, GridAssumption DEF Sound, Good, Typed, Handles
<1>2. b \in TaskIds /\ b[1] = "build" /\ b[2] = h BY <1>1 DEF TaskIds
<1>3. p.tasks[b] \in Steps /\ Begun(p, b) BY <1>2 DEF Sound, Good, Tasks, Running
<1>4. base \in Steps /\ base.at = "base" BY <1>3 DEF Steps
<1>5. c \in Calls /\ c.op = "solution" /\ c.task = b /\ c.study = h BY <1>1, <1>2 DEF Calls
<1>6. Call([p EXCEPT !.tasks[b].at = "base"], "solution", h, b, None) = r
  <2>1. [p EXCEPT !.tasks[b].at = "base"] = q OBVIOUS
  <2>2. q.queue = p.queue
    <3> HIDE DEF y
    <3> QED BY DEF Sound, Good, Page, Fields
  <2> HIDE DEF q, b
  <2>3. Call(q, "solution", h, b, None) = r BY <2>2 DEF Call
  <2> QED BY <2>1, <2>3
<1>7. /\ DOMAIN y = DOMAIN p.tasks /\ y[b] = base /\ y = [u \in DOMAIN y |-> y[u]]
      /\ \A u \in DOMAIN p.tasks : u # b => y[u] = p.tasks[u]
  <2> HIDE DEF base, b
  <2>1. b \in DOMAIN p.tasks BY DEF b
  <2>2. p.tasks = [u \in DOMAIN p.tasks |-> p.tasks[u]] BY DEF Sound, Good, Tasks
  <2> QED BY <2>1, <2>2
<1> HIDE DEF y
<1>8. Page(q) /\ q.tasks = y /\ \A f \in Fields \ {"tasks"} : q[f] = p[f]
  BY DEF Sound, Good, Page, Fields
<1> HIDE DEF q, queue
<1>9. Page(r) /\ r.queue = queue /\ \A f \in Fields \ {"queue"} : r[f] = q[f]
  BY <1>8 DEF Page, Fields
<1> HIDE DEF r
<1>10. /\ r.tasks = y /\ r.queue = queue
       /\ \A f \in Fields \ {"tasks", "queue"} : r[f] = p[f]
  BY <1>8, <1>9 DEF Fields
<1>11. Still(p, r) BY <1>10 DEF Fields, Still
<1>12. /\ r.handles = p.handles /\ r.waiters = p.waiters /\ r.listed = p.listed
       /\ r.disposed = p.disposed /\ r.cache = p.cache /\ r.build = p.build
       /\ r.solution = p.solution /\ r.baseSolution = p.baseSolution /\ r.column = p.column
       /\ r.solving = p.solving /\ r.failed = p.failed /\ r.stream = p.stream
  BY <1>10 DEF Fields
<1>13. Handles(r) = Handles(p) BY <1>12 DEF Handles
<1>14. Typed(r) BY <1>11, <1>12, <1>13 DEF Sound, Good, Typed, Still
<1>15. Tasks(r)
  <2>1. ASSUME NEW u \in DOMAIN y PROVE Running(r, u, y[u]) /\ Aimed(r, u, y[u])
    <3>1. CASE u = b
      <4>1. Running(p, b, base) /\ Aimed(p, b, base) BY <1>2, <1>3, <1>4 DEF Running, Aimed
      <4> HIDE DEF base, b
      <4>2. Running(r, b, base) /\ Aimed(r, b, base) BY <1>11, <1>12, <4>1, RunningSame
      <4> QED BY <1>7, <3>1, <4>2
    <3>2. CASE u # b
      <4>1. u \in DOMAIN p.tasks /\ y[u] = p.tasks[u] BY <1>7, <3>2
      <4>2. Running(p, u, y[u]) /\ Aimed(p, u, y[u]) BY <4>1 DEF Sound, Good, Tasks
      <4> QED BY <1>11, <1>12, <4>2, RunningSame
    <3> QED BY <3>1, <3>2
  <2> QED BY <1>7, <1>10, <2>1 DEF Tasks
<1>16. Called(p.tasks, p.queue) /\ Listed(p.tasks, p.waiters) BY DEF Sound, Good, Wired
<1>17. Apart(p.tasks, y, b) BY <1>7 DEF Apart
<1>18. Uncalled(p.queue, b) /\ Unlisted(p.waiters, b) OBVIOUS
<1>19. Called(y, p.queue) /\ Listed(y, p.waiters)
  <2> HIDE DEF b
  <2> QED BY <1>16, <1>17, <1>18, TaskChanges
<1>20. Placed(y, c)
  <2>1. b \in DOMAIN y BY <1>7
  <2>2. b = <<"build", h>> OBVIOUS
  <2> HIDE DEF b, base, c
  <2> QED BY <1>4, <1>5, <1>7, <2>1, <2>2 DEF Placed
<1>21. Called(y, queue) /\ Freed(queue) = Freed(p.queue)
  <2> HIDE DEF b, c
  <2> QED BY <1>5, <1>18, <1>19, <1>20, CallsMore DEF queue
<1>22. \A i \in DOMAIN queue : queue[i].study \in Handles(p)
  <2> HIDE DEF c
  <2>1. /\ DOMAIN p.queue = 1..Len(p.queue) /\ Len(p.queue) \in Nat
        /\ DOMAIN queue = 1..(Len(p.queue) + 1)
        /\ \A i \in DOMAIN p.queue : queue[i] = p.queue[i]
        /\ queue[Len(p.queue) + 1] = c
    BY <1>5, <1>16, Appended DEF Called, queue
  <2> QED BY <1>5, <2>1 DEF Sound, Good, Wired
<1>23. Wired(r) BY <1>10, <1>12, <1>13, <1>19, <1>21, <1>22 DEF Wired
<1>24. Screen(r) /\ Streaming(r)
  BY <1>11, <1>12 DEF Sound, Good, Screen, Streaming, Live, Still, Current, PointAt
<1>25. Owned(r, more, n)
  <2>1. DOMAIN more \subseteq Handles(r) BY <1>13 DEF Sound, Owned
  <2>2. Freed(r.queue) = Freed(p.queue) /\ DOMAIN r.tasks = DOMAIN p.tasks BY <1>7, <1>10, <1>21
  <2>3. ASSUME r.listed, NEW k \in DOMAIN more
        PROVE  k = r.cache \/ <<"build", k>> \in DOMAIN r.tasks \/ k \in Freed(r.queue)
    BY <1>12, <2>2, <2>3 DEF Sound, Owned
  <2>4. ASSUME NEW k \in Handles(p), <<"build", k>> \in DOMAIN r.tasks
        PROVE  /\ k # r.cache /\ k \notin Freed(r.queue)
               /\ r.tasks[<<"build", k>>].at = "new" => k \notin DOMAIN more
    <3>1. k # r.cache /\ k \notin Freed(r.queue) BY <1>12, <2>2, <2>4 DEF Sound, Owned
    <3>2. CASE k = h
      <4>1. r.tasks[<<"build", k>>].at = "base" BY <1>4, <1>7, <1>10, <3>2
      <4> QED BY <3>1, <4>1
    <3>3. CASE k # h
      <4>1. <<"build", k>> # b BY <3>3
      <4>2. r.tasks[<<"build", k>>] = p.tasks[<<"build", k>>] BY <1>7, <1>10, <2>2, <2>4, <4>1
      <4> QED BY <2>2, <2>4, <3>1, <3>3, <4>2 DEF Sound, Owned
    <3> QED BY <3>2, <3>3
  <2> QED BY <1>12, <1>13, <2>1, <2>2, <2>3, <2>4 DEF Sound, Owned
<1>26. Sound(r, more, n) BY <1>9, <1>14, <1>15, <1>23, <1>24, <1>25 DEF Sound, Good
<1> QED BY <1>6, <1>26


\* study_new.
LEMMA AnswerNewSound ==
  ASSUME Inv, page.queue # <<>>, NEW p, Popped(p), NEW call, call = Head(page.queue),
         call.op = "new", AnswerNew(p, call)
  PROVE  Sound(page', studies', crashes)
<1> DEFINE h == call.study
           b == <<"build", h>>
<1>1. /\ Sound(p, studies, crashes) /\ h \in Handles(p) /\ Placed(p.tasks, call)
      /\ Uncalled(p.queue, call.task) /\ Unlisted(p.waiters, call.task)
  BY PoppedPage
<1>2. call.task = b /\ b \in DOMAIN p.tasks /\ p.tasks[b].at = "new" BY <1>1 DEF Placed
<1>3. h \notin DOMAIN studies BY <1>1, <1>2 DEF Sound, Owned
<1>4. CASE /\ page' = Call([p EXCEPT !.tasks[call.task].at = "base"], "solution", call.study, call.task, None)
           /\ studies' = [k \in DOMAIN studies \cup {call.study} |->
                            IF k = call.study THEN call.point ELSE studies[k]]
  <2>1. DOMAIN studies' = DOMAIN studies \cup {h} BY <1>4
  <2>2. page' = Call([p EXCEPT !.tasks[b].at = "base"], "solution", h, b, None) BY <1>2, <1>4
  <2> HIDE DEF h
  <2> QED BY <1>1, <1>2, <2>1, <2>2, NewAnswered
<1>5. CASE \E permanent \in BOOLEAN :
             /\ page' = Resolve([p EXCEPT !.unavailable = @ \/ permanent,
                                          !.build = IF @ = call.study THEN None ELSE @],
                                call.study, None)
             /\ UNCHANGED studies
  <2>1. PICK permanent \in BOOLEAN :
          /\ page' = Resolve([p EXCEPT !.unavailable = @ \/ permanent,
                                       !.build = IF @ = call.study THEN None ELSE @],
                             call.study, None)
          /\ studies' = studies
    BY <1>5
  <2> DEFINE build == IF p.build = h THEN None ELSE p.build
             s == [p EXCEPT !.unavailable = @ \/ permanent, !.build = build]
  <2>2. page' = Resolve(s, h, None)
    <3>1. s = [p EXCEPT !.unavailable = @ \/ permanent,
                        !.build = IF @ = call.study THEN None ELSE @]
      OBVIOUS
    <3> QED BY <2>1, <3>1
  <2>3. build \in {None, p.build} OBVIOUS
  <2> HIDE DEF build, h
  <2>4. /\ Page(s) /\ s.build = build
        /\ \A f \in Fields \ {"unavailable", "build"} : s[f] = p[f]
    BY <1>1 DEF Sound, Good, Page, Fields
  <2> HIDE DEF s
  <2>5. Lost(p, h, s, studies) BY <1>3, <2>3, <2>4 DEF Lost, Fields
  <2>6. \A f \in Fields \ {"queue", "cache", "build", "unavailable"} : s[f] = p[f]
    BY <2>4 DEF Fields
  <2>7. Uncalled(p.queue, b) BY <1>1, <1>2
  <2>8. Sound(Resolve(s, h, None), studies, crashes)
    BY <1>1, <1>2, <2>4, <2>5, <2>6, <2>7, BuildResolves
  <2> QED BY <2>1, <2>2, <2>8
<1> QED BY <1>4, <1>5 DEF AnswerNew

\* A call on the Study was refused.
LEMMA RefusedSound ==
  ASSUME NEW p, NEW t, NEW infeasible, NEW held, NEW n, Sound(p, held, n), Idle(p, t)
  PROVE  Sound(Refused(p, t, infeasible), held, n)
<1> DEFINE e == End(p, t)
           c == NoColumn(p, t)
           s == SolveFails(p, t)
           d == DisposeStudy(p)
           f == Fallback(d, t)
<1>1. Continues(p, t, e) /\ Continues(p, t, c) /\ Continues(p, t, s)
  BY EndContinues, NoColumnContinues, SolveFailsContinues DEF Sound
<1>2. Drops(p, d) BY DisposeFields DEF Sound, Good
<1> HIDE DEF e, c, s, d
<1>3. Sound(e, held, n) BY <1>1, ContinuesSound
<1>4. Sound(c, held, n) BY <1>1, ContinuesSound
<1>5. Sound(s, held, n) BY <1>1, ContinuesSound
<1>6. Sound(d, held, n) /\ Idle(d, t) BY <1>2, DropsGood DEF Sound
<1>7. t[1] = "solve" => Continues(d, t, f) BY <1>6, FallbackContinues DEF Sound
<1> HIDE DEF f
<1>8. t[1] = "solve" => Sound(f, held, n) BY <1>6, <1>7, ContinuesSound
<1>9. t[1] = "solve" \/ t[1] = "select" BY IdleTask DEF Sound, TaskIds
<1>10. \/ Refused(p, t, infeasible) = e
       \/ Refused(p, t, infeasible) = c
       \/ Refused(p, t, infeasible) = s
       \/ t[1] # "select" /\ Refused(p, t, infeasible) = f
  BY DEF Refused, e, c, s, d, f
<1> QED BY <1>3, <1>4, <1>5, <1>8, <1>9, <1>10

\* A column is accepted when it is the one of the selection.
LEMMA AcceptFields ==
  ASSUME NEW p, NEW column, Page(p)
  PROVE  /\ Page(Accept(p, column))
         /\ \A f \in Fields \ {"column"} : Accept(p, column)[f] = p[f]
         /\ \/ Accept(p, column).column = p.column
            \/ Accept(p, column).column = column /\ column.target = p.selected
<1>1. CASE p.listed /\ column.target = p.selected
  <2>1. Accept(p, column) = [p EXCEPT !.column = column] BY <1>1 DEF Accept
  <2> QED BY <1>1, <2>1 DEF Page, Fields
<1>2. CASE ~(p.listed /\ column.target = p.selected)
  <2>1. Accept(p, column) = p BY <1>2 DEF Accept
  <2> QED BY <2>1
<1> QED BY <1>1, <1>2

\* A task ends with what the screen shows next.
LEMMA ShownContinues ==
  ASSUME NEW p, NEW q, NEW t, Good(p), Idle(p, t), Page(q),
         q.tasks = Restrict(p.tasks, DOMAIN p.tasks \ {t}),
         \A f \in Fields \ {"tasks", "solution", "baseSolution", "solving", "column", "computeOff"} :
           q[f] = p[f],
         q.solution = Current(p) \/ (q.solution = p.solution /\ q.solving = p.solving),
         q.baseSolution # None => q.baseSolution.formulation = p.formulation,
         q.column # None =>
           q.column.target = p.selected /\ q.column.point.formulation = p.formulation
  PROVE  Continues(p, t, q)
<1>1. TaskStep(p, t, q) BY TaskEnded
<1>2. Still(p, q) /\ Kept(p, q) BY DEF Fields, Still, Kept
<1>3. Current(q) = Current(p) /\ Current(p).formulation = p.formulation
  BY <1>2, CurrentPoint DEF Still, Current, PointAt
<1>4. q.failed = p.failed /\ q.stream = p.stream BY DEF Fields
<1>5. Screen(q) BY <1>2, <1>3, <1>4 DEF Good, Screen, Still
<1>6. Streaming(q) BY <1>2, <1>3, <1>4 DEF Good, Streaming, Live, Still
<1> QED BY <1>1, <1>2, <1>5, <1>6, TaskGoesOn

\* commit in runSolve: the newest solve computed the point on the screen.
LEMMA CommittedContinues ==
  ASSUME NEW p, NEW t, Good(p), Idle(p, t), p.tasks[t].at = "edits", t[1] = "solve"
  PROVE  Continues(p, t, Committed(p, t))
<1> DEFINE task == p.tasks[t]
           e == End(p, t)
           base == IF e.baseSolution = None /\ p.deltas = 0 THEN task.point ELSE e.baseSolution
           q == [e EXCEPT !.solution = task.point, !.solving = FALSE, !.baseSolution = base]
           column == [target |-> task.target, point |-> task.point]
           r == Accept(q, column)
<1>1. \/ Committed(p, t) = e
      \/ ~Superseded(p, t) /\ Committed(p, t) = q
      \/ ~Superseded(p, t) /\ Committed(p, t) = r
  BY DEF Committed
<1>2. Continues(p, t, e) BY EndContinues
<1>3. ASSUME ~Superseded(p, t) PROVE Continues(p, t, q) /\ Continues(p, t, r)
  <2>1. t = <<"solve", p.seq>>
    <3>1. t \in TaskIds BY IdleTask
    <3>2. t[2] = p.seq BY <1>3 DEF Superseded
    <3> QED BY <3>1, <3>2 DEF TaskIds
  <2>2. Aimed(p, t, task) BY DEF Good, Tasks, Idle
  <2>3. task.point = Current(p) BY <2>1, <2>2 DEF Aimed, Aims
  <2>4. Current(p).formulation = p.formulation BY CurrentPoint
  <2>5. /\ Page(e) /\ e.tasks = Restrict(p.tasks, DOMAIN p.tasks \ {t})
        /\ \A f \in Fields \ {"tasks"} : e[f] = p[f]
    <3>1. Page(p) BY DEF Good
    <3> QED BY ONLY <3>1, EndFields
  <2>6. base # None => base.formulation = p.formulation
    <3>1. e.baseSolution = p.baseSolution BY <2>5 DEF Fields
    <3> QED BY <2>3, <2>4, <3>1 DEF Good, Screen
  <2>7. column.target = task.target /\ column.point = task.point OBVIOUS
  <2> DEFINE point == task.point
             q2 == [e EXCEPT !.solution = point, !.solving = FALSE, !.baseSolution = base]
  <2>8. q2 = q OBVIOUS
  <2> HIDE DEF e, base, point, column
  <2>9. /\ Page(q2) /\ q2.solution = point /\ q2.baseSolution = base /\ q2.tasks = e.tasks
        /\ \A f \in Fields \ {"tasks", "solution", "solving", "baseSolution"} : q2[f] = e[f]
    BY <2>5 DEF Page, Fields
  <2>10. /\ Page(q) /\ q.solution = Current(p) /\ q.baseSolution = base /\ q.tasks = e.tasks
         /\ \A f \in Fields \ {"tasks", "solution", "solving", "baseSolution"} : q[f] = e[f]
    BY <2>3, <2>8, <2>9 DEF point
  <2> HIDE DEF q
  <2>11. \A f \in Fields \ {"tasks", "solution", "baseSolution", "solving", "column", "computeOff"} :
           q[f] = p[f]
    BY <2>5, <2>10 DEF Fields
  <2>12. q.column = p.column /\ q.selected = p.selected BY <2>5, <2>10 DEF Fields
  <2>13. p.column # None => p.column.target = p.selected /\ p.column.point.formulation = p.formulation
    BY DEF Good, Screen
  <2>14. Continues(p, t, q)
    BY <2>5, <2>6, <2>10, <2>11, <2>12, <2>13, ShownContinues
  <2>15. /\ Page(r) /\ \A f \in Fields \ {"column"} : r[f] = q[f]
         /\ \/ r.column = q.column
            \/ r.column = column /\ column.target = q.selected
    BY <2>10, AcceptFields
  <2> HIDE DEF r
  <2>16. r.tasks = q.tasks /\ r.solution = q.solution /\ r.baseSolution = q.baseSolution
    BY <2>15 DEF Fields
  <2>17. \A f \in Fields \ {"tasks", "solution", "baseSolution", "solving", "column", "computeOff"} :
           r[f] = p[f]
    BY <2>11, <2>15 DEF Fields
  <2>18. column.point.formulation = p.formulation BY <2>3, <2>4, <2>7
  <2>19. r.column # None => r.column.target = p.selected /\ r.column.point.formulation = p.formulation
    BY <2>12, <2>13, <2>15, <2>18
  <2>20. Continues(p, t, r)
    BY <2>5, <2>6, <2>10, <2>15, <2>16, <2>17, <2>19, ShownContinues
  <2> QED BY <2>14, <2>20
<1> HIDE DEF e, q, r
<1> QED BY <1>1, <1>2, <1>3


\* The column of the live selection.
LEMMA ColumnContinues ==
  ASSUME NEW p, NEW t, Good(p), Idle(p, t), p.tasks[t].at \in {"edits", "server"},
         p.abort = t, p.selection = t[2]
  PROVE  Continues(p, t, Accept(End(p, t), [target |-> p.tasks[t].target, point |-> p.tasks[t].point]))
<1> DEFINE task == p.tasks[t]
           e == End(p, t)
           column == [target |-> task.target, point |-> task.point]
           r == Accept(e, column)
<1>1. Aimed(p, t, task) /\ t[1] # "build" BY DEF Good, Tasks, Idle
<1>2. task.point.formulation = p.formulation BY <1>1 DEF Aimed, Aims
<1>3. /\ Page(e) /\ e.tasks = Restrict(p.tasks, DOMAIN p.tasks \ {t})
      /\ \A f \in Fields \ {"tasks"} : e[f] = p[f]
  <2>1. Page(p) BY DEF Good
  <2> QED BY ONLY <2>1, EndFields
<1>4. column.point = task.point OBVIOUS
<1> HIDE DEF e, column
<1>5. /\ Page(r) /\ \A f \in Fields \ {"column"} : r[f] = e[f]
      /\ \/ r.column = e.column
         \/ r.column = column /\ column.target = e.selected
  BY <1>3, AcceptFields
<1> HIDE DEF r
<1>6. /\ r.tasks = e.tasks /\ r.solution = p.solution /\ r.solving = p.solving
      /\ r.baseSolution = p.baseSolution /\ e.selected = p.selected /\ e.column = p.column
  BY <1>3, <1>5 DEF Fields
<1>7. \A f \in Fields \ {"tasks", "solution", "baseSolution", "solving", "column", "computeOff"} :
        r[f] = p[f]
  BY <1>3, <1>5 DEF Fields
<1>8. r.column # None => r.column.target = p.selected /\ r.column.point.formulation = p.formulation
  BY <1>2, <1>4, <1>5, <1>6 DEF Good, Screen
<1>9. r.baseSolution # None => r.baseSolution.formulation = p.formulation
  BY <1>6 DEF Good, Screen
<1>10. Continues(p, t, r) BY <1>3, <1>5, <1>6, <1>7, <1>8, <1>9, ShownContinues
<1> QED BY <1>10 DEF r, e, column

\* sensitivity in selectTarget.
LEMMA SensedContinues ==
  ASSUME NEW p, NEW t, Good(p), Idle(p, t), p.tasks[t].at = "edits"
  PROVE  Continues(p, t, Sensed(p, t))
<1>1. CASE p.abort = t /\ p.selection = t[2]
  <2>1. Sensed(p, t) = Accept(End(p, t), [target |-> p.tasks[t].target, point |-> p.tasks[t].point])
    BY <1>1 DEF Sensed
  <2> QED BY <1>1, <2>1, ColumnContinues
<1>2. CASE ~(p.abort = t /\ p.selection = t[2])
  <2>1. Sensed(p, t) = End(p, t) BY <1>2 DEF Sensed
  <2> QED BY <2>1, EndContinues
<1> QED BY <1>1, <1>2

\* A page that memoizes an index map.
LEMMA KnownSound ==
  ASSUME NEW p, NEW t, NEW index, NEW held, NEW n, Sound(p, held, n), Idle(p, t)
  PROVE  LET k == [p EXCEPT !.index = index] IN
         Sound(k, held, n) /\ Idle(k, t) /\ k.tasks = p.tasks /\ Still(p, k) /\ k.handles = p.handles
<1> DEFINE k == [p EXCEPT !.index = index]
<1>1. Page(k) /\ \A f \in Fields \ {"index"} : k[f] = p[f] BY DEF Sound, Good, Page, Fields
<1> HIDE DEF k
<1>2. Still(p, k) /\ Kept(p, k) /\ k.tasks = p.tasks BY <1>1 DEF Fields, Still, Kept
<1>3. Screen(k) /\ Streaming(k)
  BY <1>1 DEF Fields, Sound, Good, Screen, Streaming, Live, Current, PointAt
<1>4. Good(k) /\ Quiet(p, k) /\ Idle(k, t) BY <1>1, <1>2, <1>3, ScreenChanges DEF Sound
<1>5. Owned(k, held, n) BY <1>4, QuietOwns DEF Sound
<1> QED BY <1>2, <1>4, <1>5 DEF k, Sound, Kept

\* study_solution.
LEMMA AnswerSolutionSound ==
  ASSUME Inv, page.queue # <<>>, NEW p, Popped(p), NEW call, call = Head(page.queue),
         call.op = "solution", AnswerSolution(p, call)
  PROVE  Sound(page', studies', crashes)
<1> DEFINE h == call.study
           t == call.task
           b == <<"build", h>>
           known == [p EXCEPT !.index = @ \cup {<<h, p.tasks[t].target>>}]
           gone == [p EXCEPT !.build = IF @ = h THEN None ELSE @]
           settled == Settled(p, h)
<1>1. /\ Sound(p, studies, crashes) /\ h \in Handles(p) /\ Placed(p.tasks, call)
      /\ Uncalled(p.queue, t) /\ Unlisted(p.waiters, t) /\ t \in TaskIds
  BY PoppedPage
<1>2. /\ t \in DOMAIN p.tasks
      /\ \/ t = b
         \/ t[1] # "build" /\ p.tasks[t].at = "index" /\ p.tasks[t].study = h
  BY <1>1 DEF Placed
<1>3. studies' = studies BY DEF AnswerSolution
<1>4. h \in Nat /\ h # None BY <1>1, LenProperties, GridAssumption DEF Sound, Good, Typed, Handles
<1>5. CASE t = b /\ h \in DOMAIN studies
  <2> DEFINE study == IF settled.cache = h THEN h ELSE None
  <2>1. page' = Resolve(settled, h, study)
    <3>1. t[1] = "build" BY <1>5
    <3> QED BY <1>5, <3>1 DEF AnswerSolution
  <2>2. CASE p.formulation = p.handles[h] /\ p.build = h
    <3> DEFINE s == [p EXCEPT !.cache = h, !.build = None]
    <3>1. settled = s BY <2>2 DEF Settled
    <3> HIDE DEF h
    <3>2. /\ Page(s) /\ s.cache = h /\ s.build = None
          /\ \A f \in Fields \ {"cache", "build"} : s[f] = p[f]
      BY <1>1 DEF Sound, Good, Page, Fields
    <3>3. settled.cache = h /\ study = h BY <3>1, <3>2
    <3> HIDE DEF s, settled, study
    <3>4. Cached(p, h, s, studies) BY <1>5, <2>2, <3>2 DEF Cached, Fields
    <3>5. \A f \in Fields \ {"queue", "cache", "build", "unavailable"} : s[f] = p[f]
      BY <3>2 DEF Fields
    <3>6. Uncalled(p.queue, b) /\ b \in DOMAIN p.tasks BY <1>1, <1>2, <1>5
    <3>7. Sound(Resolve(s, h, h), studies, crashes)
      BY <1>1, <2>2, <3>2, <3>4, <3>5, <3>6, BuildResolves
    <3> QED BY <1>3, <2>1, <3>1, <3>3, <3>7
  <2>3. CASE ~(p.formulation = p.handles[h] /\ p.build = h)
    <3> DEFINE queue == Append(p.queue, FreeCall(h))
               s == [p EXCEPT !.queue = queue]
    <3>1. settled = s BY <2>3 DEF Settled, Call, FreeCall
    <3> HIDE DEF h, queue
    <3>2. Page(s) /\ s.queue = queue /\ \A f \in Fields \ {"queue"} : s[f] = p[f]
      BY <1>1 DEF Sound, Good, Page, Fields
    <3> HIDE DEF s
    <3>3. s.cache = p.cache BY <3>2 DEF Fields
    <3>4. Uncalled(p.queue, b) /\ b \in DOMAIN p.tasks BY <1>1, <1>2, <1>5
    <3>5. h # p.cache BY <1>1, <3>4 DEF Sound, Owned
    <3>6. study = None BY <3>1, <3>3, <3>5
    <3> HIDE DEF settled, study
    <3>7. Unwanted(p, h, s) BY <3>2 DEF Unwanted, Fields, queue
    <3>8. \A f \in Fields \ {"queue", "cache", "build", "unavailable"} : s[f] = p[f]
      BY <3>2 DEF Fields
    <3>9. Sound(Resolve(s, h, None), studies, crashes)
      BY <1>1, <3>2, <3>4, <3>7, <3>8, BuildResolves
    <3> QED BY <1>3, <2>1, <3>1, <3>6, <3>9
  <2> QED BY <2>2, <2>3
<1>6. CASE t = b /\ h \notin DOMAIN studies
  <2>1. page' = Resolve(gone, h, None)
    <3>1. t[1] = "build" BY <1>6
    <3> QED BY <1>6, <3>1 DEF AnswerSolution
  <2> DEFINE build == IF p.build = h THEN None ELSE p.build
             s == [p EXCEPT !.build = build]
  <2>2. gone = s /\ build \in {None, p.build} OBVIOUS
  <2> HIDE DEF build, h
  <2>3. Page(s) /\ s.build = build /\ \A f \in Fields \ {"build"} : s[f] = p[f]
    BY <1>1 DEF Sound, Good, Page, Fields
  <2> HIDE DEF s, gone
  <2>4. Lost(p, h, s, studies) BY <1>6, <2>2, <2>3 DEF Lost, Fields
  <2>5. \A f \in Fields \ {"queue", "cache", "build", "unavailable"} : s[f] = p[f]
    BY <2>3 DEF Fields
  <2>6. Uncalled(p.queue, b) /\ b \in DOMAIN p.tasks BY <1>1, <1>2, <1>6
  <2>7. Sound(Resolve(s, h, None), studies, crashes)
    BY <1>1, <2>3, <2>4, <2>5, <2>6, BuildResolves
  <2> QED BY <1>3, <2>1, <2>2, <2>7
<1>7. CASE t # b
  <2>1. /\ t[1] # "build" /\ p.tasks[t].at = "index" /\ p.tasks[t].study = h /\ Idle(p, t)
    BY <1>1, <1>2, <1>7 DEF Idle
  <2>2. page' = ReplaceEdits(known, t) \/ page' = Refused(p, t, FALSE)
    BY <2>1 DEF AnswerSolution
  <2>3. Sound(Refused(p, t, FALSE), studies, crashes) BY <1>1, <2>1, RefusedSound
  <2> DEFINE index == p.index \cup {<<h, p.tasks[t].target>>}
             k == [p EXCEPT !.index = index]
  <2>4. known = k OBVIOUS
  <2>5. /\ Sound(k, studies, crashes) /\ Idle(k, t) /\ k.tasks = p.tasks /\ Still(p, k)
        /\ k.handles = p.handles
    <3> HIDE DEF index
    <3> QED BY <1>1, <2>1, KnownSound
  <2>6. Aims(p, t, p.tasks[t].point) BY <1>1, <1>2, <2>1 DEF Sound, Good, Tasks, Aimed
  <2>7. p.tasks[t].point \in Points \cup {None} BY <1>1, <2>1, IdleTask DEF Sound, Waits
  <2> HIDE DEF k
  <2>8. Aims(k, t, k.tasks[t].point) BY <2>5, <2>6 DEF Aims, Still, Current, PointAt
  <2>9. k.tasks[t].study \in Handles(k) BY <1>1, <2>1, <2>5 DEF Handles
  <2>10. k.tasks[t].point \in Points \cup {None} BY <2>5, <2>7
  <2> DEFINE r == ReplaceEdits(k, t)
  <2>11. Continues(k, t, r) BY <2>5, <2>8, <2>9, <2>10, ReplaceEditsContinues DEF Sound
  <2> HIDE DEF r
  <2>12. Sound(r, studies, crashes) BY <2>5, <2>11, ContinuesSound
  <2> QED BY <1>3, <2>2, <2>3, <2>4, <2>12 DEF r
<1> QED BY <1>5, <1>6, <1>7


\* Who owns a Study depends on which Studies there are, not on their points.
LEMMA OwnedSame ==
  ASSUME NEW p, NEW held, NEW other, NEW n, DOMAIN other = DOMAIN held, Sound(p, held, n)
  PROVE  Sound(p, other, n)
BY DEF Sound, Owned

\* study_replace_edits.
LEMMA AnswerEditsSound ==
  ASSUME Inv, page.queue # <<>>, NEW p, Popped(p), NEW call, call = Head(page.queue),
         call.op = "edits", AnswerEdits(p, call)
  PROVE  Sound(page', studies', crashes)
<1> DEFINE t == call.task
<1>1. /\ Sound(p, studies, crashes) /\ Placed(p.tasks, call)
      /\ Uncalled(p.queue, t) /\ Unlisted(p.waiters, t)
  BY PoppedPage
<1>2. t \in DOMAIN p.tasks /\ t[1] # "build" /\ p.tasks[t].at = "edits" BY <1>1 DEF Placed
<1>3. Idle(p, t) /\ Good(p) BY <1>1, <1>2 DEF Idle, Sound
<1>4. \/ DOMAIN studies' = DOMAIN studies /\ t[1] = "solve" /\ page' = Committed(p, t)
      \/ DOMAIN studies' = DOMAIN studies /\ page' = Sensed(p, t)
      \/ studies' = studies /\ \E infeasible \in BOOLEAN : page' = Refused(p, t, infeasible)
  BY DEF AnswerEdits
<1> HIDE DEF t
<1>5. CASE DOMAIN studies' = DOMAIN studies /\ t[1] = "solve" /\ page' = Committed(p, t)
  <2>1. Continues(p, t, Committed(p, t)) BY <1>2, <1>3, <1>5, CommittedContinues
  <2>2. Sound(Committed(p, t), studies, crashes) BY <1>1, <2>1, ContinuesSound
  <2>3. Sound(page', studies, crashes) BY <1>5, <2>2
  <2> QED BY <1>5, <2>3, OwnedSame
<1>6. CASE DOMAIN studies' = DOMAIN studies /\ page' = Sensed(p, t)
  <2>1. Continues(p, t, Sensed(p, t)) BY <1>2, <1>3, <1>6, SensedContinues
  <2>2. Sound(Sensed(p, t), studies, crashes) BY <1>1, <2>1, ContinuesSound
  <2>3. Sound(page', studies, crashes) BY <1>6, <2>2
  <2> QED BY <1>6, <2>3, OwnedSame
<1>7. CASE studies' = studies /\ \E infeasible \in BOOLEAN : page' = Refused(p, t, infeasible)
  <2>1. PICK infeasible \in BOOLEAN : page' = Refused(p, t, infeasible) BY <1>7
  <2>2. Sound(Refused(p, t, infeasible), studies, crashes) BY <1>1, <1>3, RefusedSound
  <2> QED BY <1>7, <2>1, <2>2
<1> QED BY <1>4, <1>5, <1>6, <1>7

\* study_free: the Study is gone, and so is its call.
LEMMA AnswerFreeSound ==
  ASSUME Inv, page.queue # <<>>, NEW p, Popped(p), NEW call, call = Head(page.queue),
         call.op = "free", AnswerFree(p, call)
  PROVE  Sound(page', studies', crashes)
<1> DEFINE h == call.study
           held == Restrict(studies, DOMAIN studies \ {h})
<1>1. Good(p) /\ p.queue = Tail(page.queue) /\ \A f \in Fields \ {"queue"} : p[f] = page[f]
  BY PoppedPage
<1>2. /\ p.tasks = page.tasks /\ p.handles = page.handles /\ p.cache = page.cache
      /\ p.build = page.build /\ p.listed = page.listed /\ p.disposed = page.disposed
  BY <1>1 DEF Fields
<1>3. Called(page.tasks, page.queue) BY DEF Inv, Good, Wired
<1>4. /\ h \in Freed(page.queue) /\ Freed(p.queue) \subseteq Freed(page.queue)
      /\ Freed(page.queue) \subseteq Freed(p.queue) \cup {h}
  BY <1>1, <1>3, CallAnswered
<1>5. DOMAIN held = DOMAIN studies \ {h} BY DEF Restrict
<1>6. Owned(page, studies, crashes) BY DEF Inv
<1> HIDE DEF h, held
<1>7. DOMAIN held \subseteq Handles(p) BY <1>2, <1>5, <1>6 DEF Owned, Handles
<1>8. p.listed =>
        \A g \in DOMAIN held : g = p.cache \/ <<"build", g>> \in DOMAIN p.tasks \/ g \in Freed(p.queue)
  BY <1>2, <1>4, <1>5, <1>6 DEF Owned
<1>9. p.cache # None => p.cache \notin Freed(p.queue) /\ (crashes = 0 => p.cache \in DOMAIN held)
  BY <1>2, <1>4, <1>5, <1>6 DEF Owned
<1>10. /\ p.disposed => p.cache = None /\ p.build = None
       /\ p.cache = None \/ p.build = None
  BY <1>2, <1>6 DEF Owned
<1>11. ASSUME NEW g \in Handles(p), <<"build", g>> \in DOMAIN p.tasks
       PROVE  /\ g # p.cache /\ g \notin Freed(p.queue)
              /\ p.tasks[<<"build", g>>].at = "new" => g \notin DOMAIN held
  BY <1>2, <1>4, <1>5, <1>6, <1>11 DEF Owned, Handles
<1>12. Owned(p, held, crashes) BY <1>7, <1>8, <1>9, <1>10, <1>11 DEF Owned
<1>13. page' = p /\ studies' = held BY DEF AnswerFree, held, h
<1> QED BY <1>1, <1>12, <1>13 DEF Sound

\* The engine answers its oldest call.
LEMMA EngineAnswersSound ==
  ASSUME Inv, EngineAnswers
  PROVE  Sound(page', studies', crashes)
<1> DEFINE call == Head(page.queue)
           p == [page EXCEPT !.queue = Tail(@)]
<1>1. Popped(p) BY DEF Popped
<1>2. page.queue # <<>> BY DEF EngineAnswers
<1>3. \/ call.op = "new" /\ AnswerNew(p, call)
      \/ call.op = "solution" /\ AnswerSolution(p, call)
      \/ call.op = "edits" /\ AnswerEdits(p, call)
      \/ call.op = "free" /\ AnswerFree(p, call)
  BY DEF EngineAnswers
<1>4. call = Head(page.queue) OBVIOUS
<1> HIDE DEF call, p
<1>5. CASE call.op = "new" /\ AnswerNew(p, call) BY <1>1, <1>2, <1>4, <1>5, AnswerNewSound
<1>6. CASE call.op = "solution" /\ AnswerSolution(p, call)
  BY <1>1, <1>2, <1>4, <1>6, AnswerSolutionSound
<1>7. CASE call.op = "edits" /\ AnswerEdits(p, call) BY <1>1, <1>2, <1>4, <1>7, AnswerEditsSound
<1>8. CASE call.op = "free" /\ AnswerFree(p, call) BY <1>1, <1>2, <1>4, <1>8, AnswerFreeSound
<1> QED BY <1>3, <1>5, <1>6, <1>7, <1>8

------------------------------------------------------------------------------
(* The server. *)

\* A task that awaits the server is awaited by no call and no build.
LEMMA ServerIdle ==
  ASSUME NEW p, NEW t \in DOMAIN p.tasks, Good(p), p.tasks[t].at \in {"json", "server"}
  PROVE  Idle(p, t)
<1>1. Called(p.tasks, p.queue) /\ Listed(p.tasks, p.waiters) BY DEF Good, Wired
<1>2. Running(p, t, p.tasks[t]) BY DEF Good, Tasks
<1>3. t[1] # "build"
  <2> SUFFICES ASSUME t[1] = "build" PROVE FALSE OBVIOUS
  <2>1. p.tasks[t] \in Steps BY <1>2 DEF Running
  <2>2. p.tasks[t].at \in {"new", "base"} BY <2>1 DEF Steps
  <2> QED BY <2>2
<1>4. ASSUME NEW i \in DOMAIN p.queue, p.queue[i].op # "free", p.queue[i].task = t PROVE FALSE
  <2> DEFINE c == p.queue[i]
  <2>1. p.queue \in Seq(Calls) BY <1>1 DEF Called
  <2>2. c \in Calls BY <2>1, ElementOfSeq, LenProperties
  <2>3. Placed(p.tasks, c) BY <1>1, <1>4 DEF Called
  <2>4. c.task = t /\ c.op # "free" BY <1>4
  <2> HIDE DEF c
  <2>5. c.op \in {"new", "solution", "edits"} BY <2>2, <2>4 DEF Calls
  <2>6. p.tasks[t].at \in {"new", "base", "index", "edits"} BY <2>3, <2>4, <2>5 DEF Placed
  <2> QED BY <2>6
<1>5. Uncalled(p.queue, t) BY <1>4 DEF Uncalled
<1>6. Unlisted(p.waiters, t) BY <1>1 DEF Listed, Unlisted
<1> QED BY <1>3, <1>5, <1>6 DEF Idle

\* getCaseModuleJson.
LEMMA ModuleArrivesSound ==
  ASSUME Inv, NEW t \in DOMAIN page.tasks, ModuleArrives(t)
  PROVE  Sound(page', studies, crashes)
<1> DEFINE p == [page EXCEPT !.json = TRUE]
<1>1. Sound(page, studies, crashes) BY DEF Inv, Sound
<1>2. Idle(page, t) BY <1>1, ServerIdle DEF ModuleArrives, Sound
<1>3. page' = WithJson(p, t) \/ page' = WithoutJson(page, t) BY DEF ModuleArrives
<1>4. Page(p) /\ \A f \in Fields \ {"json"} : p[f] = page[f]
  BY DEF Inv, Good, Page, Fields
<1> HIDE DEF p
<1>5. Still(page, p) /\ Kept(page, p) /\ p.tasks = page.tasks BY <1>4 DEF Fields, Still, Kept
<1>6. Screen(p) /\ Streaming(p)
  BY <1>4 DEF Fields, Inv, Good, Screen, Streaming, Live, Current, PointAt
<1>7. Good(p) /\ Quiet(page, p) /\ Idle(p, t)
  BY <1>1, <1>2, <1>4, <1>5, <1>6, ScreenChanges DEF Sound
<1>8. Sound(p, studies, crashes) BY <1>1, <1>7, QuietOwns DEF Sound
<1>9. Sound(WithJson(p, t), studies, crashes) BY <1>7, <1>8, WithJsonSound
<1>10. Sound(WithoutJson(page, t), studies, crashes) BY <1>1, <1>2, WithJsonSound
<1> QED BY <1>3, <1>9, <1>10

\* getSensitivity, getBranchSensitivity.
LEMMA ServerColumnSound ==
  ASSUME Inv, NEW t \in DOMAIN page.tasks, ServerColumn(t)
  PROVE  Sound(page', studies, crashes)
<1> DEFINE e == End(page, t)
           a == Accept(e, [target |-> page.tasks[t].target, point |-> page.tasks[t].point])
           off == [e EXCEPT !.computeOff = TRUE]
<1>1. Sound(page, studies, crashes) /\ Good(page) BY DEF Inv, Sound
<1>2. page.tasks[t].at = "server" BY DEF ServerColumn
<1>3. Idle(page, t) BY <1>1, <1>2, ServerIdle
<1>4. \/ page' = e \/ page' = off
      \/ page.abort = t /\ page.selection = t[2] /\ page' = a
  BY DEF ServerColumn
<1>5. Continues(page, t, e) BY <1>1, <1>3, EndContinues
<1>6. ASSUME page.abort = t, page.selection = t[2] PROVE Continues(page, t, a)
  BY <1>1, <1>2, <1>3, <1>6, ColumnContinues
<1>7. Continues(page, t, off)
  <2>1. /\ Page(e) /\ e.tasks = Restrict(page.tasks, DOMAIN page.tasks \ {t})
        /\ \A f \in Fields \ {"tasks"} : e[f] = page[f]
    <3>1. Page(page) BY <1>1 DEF Good
    <3> QED BY <3>1, EndFields
  <2> HIDE DEF e
  <2>2. Page(off) /\ \A f \in Fields \ {"computeOff"} : off[f] = e[f] BY <2>1 DEF Page, Fields
  <2> HIDE DEF off
  <2>3. /\ off.tasks = e.tasks /\ off.solution = page.solution /\ off.solving = page.solving
        /\ off.baseSolution = page.baseSolution /\ off.column = page.column
    BY <2>1, <2>2 DEF Fields
  <2>4. \A f \in Fields \ {"tasks", "solution", "baseSolution", "solving", "column", "computeOff"} :
          off[f] = page[f]
    BY <2>1, <2>2 DEF Fields
  <2>5. /\ off.baseSolution # None => off.baseSolution.formulation = page.formulation
        /\ off.column # None =>
             off.column.target = page.selected /\ off.column.point.formulation = page.formulation
    BY <1>1, <2>3 DEF Good, Screen
  <2> QED BY <1>1, <1>3, <2>1, <2>2, <2>3, <2>4, <2>5, ShownContinues
<1> HIDE DEF e, a, off
<1>8. Continues(page, t, page') BY <1>4, <1>5, <1>6, <1>7
<1> QED BY <1>1, <1>8, ContinuesSound


\* What a stream changes: itself and the screen.
LEMMA StreamShows ==
  ASSUME Inv, NEW q, Page(q), Screen(q), Streaming(q),
         \A f \in Fields \ {"stream", "solution", "column", "solving", "failed"} : q[f] = page[f]
  PROVE  Sound(q, studies, crashes)
<1>1. Sound(page, studies, crashes) BY DEF Inv, Sound
<1>2. Still(page, q) /\ Kept(page, q) /\ q.tasks = page.tasks BY DEF Fields, Still, Kept
<1>3. Good(q) /\ Quiet(page, q) BY <1>1, <1>2, ScreenChanges DEF Sound
<1> QED BY <1>1, <1>3, QuietOwns DEF Sound

\* The stream moves on: the solution is that of the stream when the stream is live.
LEMMA StreamMoves ==
  ASSUME Inv, page.stream # None, NEW at \in {"solved", "sensed"}, NEW q, Page(q),
         q.stream = [page.stream EXCEPT !.at = at],
         page.stream.seq = page.seq => q.solution = page.stream.point,
         page.stream.seq # page.seq => q.solution = page.solution,
         \A f \in Fields \ {"stream", "solution"} : q[f] = page[f]
  PROVE  Sound(q, studies, crashes) /\ Streaming(q) /\ Screen(q)
<1> DEFINE st == page.stream
<1>1. /\ q.formulation = page.formulation /\ q.deltas = page.deltas /\ q.ratings = page.ratings
      /\ q.seq = page.seq /\ q.column = page.column /\ q.selected = page.selected
      /\ q.solving = page.solving /\ q.failed = page.failed /\ q.baseSolution = page.baseSolution
  BY DEF Fields
<1>2. Current(q) = Current(page) BY <1>1 DEF Current, PointAt
<1>3. Good(page) /\ Streaming(page) /\ Screen(page) BY DEF Inv, Good
<1>4. Current(page).formulation = page.formulation BY <1>3, CurrentPoint
<1>5. st \in Streams /\ st.seq <= page.seq BY <1>3 DEF Streaming
<1>6. st.seq = page.seq => st.point = Current(page) BY <1>3 DEF Streaming, Live
<1>7. /\ q.stream \in Streams /\ q.stream.seq = st.seq /\ q.stream.point = st.point
      /\ q.stream.at = at
  BY <1>5 DEF Streams
<1>8. Streaming(q) BY <1>1, <1>2, <1>5, <1>6, <1>7 DEF Streaming, Live
<1>9. Screen(q) BY <1>1, <1>2, <1>3, <1>4, <1>6 DEF Screen
<1>10. \A f \in Fields \ {"stream", "solution", "column", "solving", "failed"} : q[f] = page[f]
  OBVIOUS
<1> QED BY <1>8, <1>9, <1>10, StreamShows

\* The stream is over: it ends a solve that is still the newest.
LEMMA StreamCloses ==
  ASSUME Inv, page.stream # None, NEW q, Page(q), q.stream = None,
         \/ q.solving = page.solving /\ q.failed = page.failed
         \/ q.failed
         \/ q.failed = page.failed /\ page.solution = Current(page),
         \A f \in Fields \ {"stream", "solving", "failed"} : q[f] = page[f]
  PROVE  Sound(q, studies, crashes)
<1>1. /\ q.formulation = page.formulation /\ q.deltas = page.deltas /\ q.ratings = page.ratings
      /\ q.seq = page.seq /\ q.column = page.column /\ q.selected = page.selected
      /\ q.solution = page.solution /\ q.baseSolution = page.baseSolution
  BY DEF Fields
<1>2. Current(q) = Current(page) BY <1>1 DEF Current, PointAt
<1>3. Screen(page) BY DEF Inv, Good
<1>4. Streaming(q) BY DEF Streaming, Live
<1>5. Screen(q) BY <1>1, <1>2, <1>3 DEF Screen
<1>6. \A f \in Fields \ {"stream", "solution", "column", "solving", "failed"} : q[f] = page[f]
  OBVIOUS
<1> QED BY <1>4, <1>5, <1>6, StreamShows

\* The handlers of openSolveStream.
LEMMA StreamEventSound ==
  ASSUME Inv, StreamEvent
  PROVE  Sound(page', studies, crashes)
<1> DEFINE st == page.stream
           live == st.seq = page.seq
           shut == [page EXCEPT !.stream = None]
<1>1. page.stream # None BY DEF StreamEvent
<1>2. Good(page) /\ Page(page) /\ Streaming(page) /\ Screen(page) BY DEF Inv, Good
<1>3. /\ live => st.point = Current(page)
      /\ live /\ st.at # "open" => page.solution = Current(page)
  BY <1>1, <1>2 DEF Streaming, Live
<1>4. CASE st.at = "open"
           /\ page' = [page EXCEPT !.stream.at = IF st.target = "bus" THEN "solved" ELSE "sensed",
                                   !.solution = IF live THEN st.point ELSE @]
  <2> DEFINE at == IF st.target = "bus" THEN "solved" ELSE "sensed"
             solution == IF live THEN st.point ELSE page.solution
             stream == [page.stream EXCEPT !.at = at]
             q == [page EXCEPT !.stream = stream, !.solution = solution]
  <2>1. page' = q BY <1>4
  <2>2. at \in {"solved", "sensed"} OBVIOUS
  <2>3. /\ page.stream.seq = page.seq => solution = page.stream.point
        /\ page.stream.seq # page.seq => solution = page.solution
    OBVIOUS
  <2>4. stream = [page.stream EXCEPT !.at = at] OBVIOUS
  <2> HIDE DEF at, solution, stream
  <2>5. /\ Page(q) /\ q.stream = stream /\ q.solution = solution
        /\ \A f \in Fields \ {"stream", "solution"} : q[f] = page[f]
    BY <1>2 DEF Page, Fields
  <2> HIDE DEF q
  <2>6. Sound(q, studies, crashes) BY <1>1, <2>2, <2>3, <2>4, <2>5, StreamMoves
  <2> QED BY <2>1, <2>6
<1>5. CASE st.at = "solved"
           /\ page' = IF live THEN Accept([page EXCEPT !.stream.at = "sensed"],
                                          [target |-> "bus", point |-> st.point])
                      ELSE [page EXCEPT !.stream.at = "sensed"]
  <2> DEFINE stream == [page.stream EXCEPT !.at = "sensed"]
             q == [page EXCEPT !.stream = stream]
             column == [target |-> "bus", point |-> st.point]
             r == Accept(q, column)
  <2>1. page' = q \/ (live /\ page' = r) BY <1>5
  <2>2. stream = [page.stream EXCEPT !.at = "sensed"] OBVIOUS
  <2> HIDE DEF stream
  <2>3. Page(q) /\ q.stream = stream /\ \A f \in Fields \ {"stream"} : q[f] = page[f]
    BY <1>2 DEF Page, Fields
  <2> HIDE DEF q
  <2>4. /\ q.solution = page.solution /\ q.column = page.column /\ q.selected = page.selected
        /\ q.formulation = page.formulation
    BY <2>3 DEF Fields
  <2>5. live => st.point = Current(page) /\ page.solution = Current(page) BY <1>3, <1>5
  <2>6. /\ page.stream.seq = page.seq => q.solution = page.stream.point
        /\ page.stream.seq # page.seq => q.solution = page.solution
    BY <2>4, <2>5
  <2>7. \A f \in Fields \ {"stream", "solution"} : q[f] = page[f] BY <2>3
  <2>8. Sound(q, studies, crashes) /\ Streaming(q) /\ Screen(q)
    BY <1>1, <2>2, <2>3, <2>6, <2>7, StreamMoves
  <2>9. ASSUME live PROVE Sound(r, studies, crashes)
    <3>1. column.point = st.point OBVIOUS
    <3> HIDE DEF column
    <3>2. /\ Page(r) /\ \A f \in Fields \ {"column"} : r[f] = q[f]
          /\ \/ r.column = q.column
             \/ r.column = column /\ column.target = q.selected
      BY <2>3, AcceptFields
    <3> HIDE DEF r
    <3>3. column.point.formulation = page.formulation BY <1>2, <2>5, <2>9, <3>1, CurrentPoint
    <3>4. /\ r.formulation = q.formulation /\ r.deltas = q.deltas /\ r.ratings = q.ratings
          /\ r.solution = q.solution /\ r.baseSolution = q.baseSolution /\ r.selected = q.selected
          /\ r.solving = q.solving /\ r.failed = q.failed /\ r.seq = q.seq /\ r.stream = q.stream
      BY <3>2 DEF Fields
    <3>5. Current(r) = Current(q) BY <3>4 DEF Current, PointAt
    <3>6. Streaming(r) BY <2>8, <3>4, <3>5 DEF Streaming, Live
    <3>7. r.column # None => r.column.target = r.selected /\ r.column.point.formulation = r.formulation
      BY <2>4, <2>8, <3>2, <3>3, <3>4 DEF Screen
    <3>8. Screen(r) BY <2>8, <3>4, <3>5, <3>7 DEF Screen
    <3>9. \A f \in Fields \ {"stream", "solution", "column", "solving", "failed"} : r[f] = page[f]
      BY <2>3, <3>2
    <3> QED BY <3>2, <3>6, <3>8, <3>9, StreamShows
  <2> HIDE DEF r, live
  <2> QED BY <2>1, <2>8, <2>9
<1>6. CASE \/ page' = shut
           \/ live /\ st.at = "sensed" /\ page' = [shut EXCEPT !.solving = FALSE]
           \/ page' = [shut EXCEPT !.solving = FALSE, !.failed = TRUE]
  <2>1. Page(shut) /\ shut.stream = None /\ \A f \in Fields \ {"stream"} : shut[f] = page[f]
    BY <1>2 DEF Page, Fields
  <2> HIDE DEF shut
  <2> DEFINE done == [shut EXCEPT !.solving = FALSE]
             broken == [shut EXCEPT !.solving = FALSE, !.failed = TRUE]
  <2>2. /\ Page(done) /\ done.stream = None
        /\ \A f \in Fields \ {"stream", "solving"} : done[f] = page[f]
    BY <2>1 DEF Page, Fields
  <2>3. /\ Page(broken) /\ broken.stream = None /\ broken.failed
        /\ \A f \in Fields \ {"stream", "solving", "failed"} : broken[f] = page[f]
    BY <2>1 DEF Page, Fields
  <2>4. \/ page' = shut
        \/ live /\ st.at = "sensed" /\ page' = done
        \/ page' = broken
    BY <1>6
  <2> HIDE DEF done, broken
  <2>5. shut.solving = page.solving /\ shut.failed = page.failed /\ done.failed = page.failed
    BY <2>1, <2>2 DEF Fields
  <2>6. Sound(shut, studies, crashes) BY <1>1, <2>1, <2>5, StreamCloses
  <2>7. Sound(broken, studies, crashes) BY <1>1, <2>3, StreamCloses
  <2>8. ASSUME live, st.at = "sensed" PROVE Sound(done, studies, crashes)
    <3>1. page.solution = Current(page) BY <1>3, <2>8
    <3> QED BY <1>1, <2>2, <2>5, <3>1, StreamCloses
  <2> QED BY <2>4, <2>6, <2>7, <2>8
<1> QED BY <1>4, <1>5, <1>6 DEF StreamEvent

------------------------------------------------------------------------------
(* The invariant. *)

\* The engine loses its Studies.
LEMMA CrashSound ==
  ASSUME Inv, Crash
  PROVE  Sound(page', studies', crashes') /\ crashes' \in Nat
<1>1. page' = page /\ DOMAIN studies' = {} /\ crashes' = crashes + 1 /\ crashes \in Nat
  BY DEF Crash, Inv
<1>2. crashes' \in Nat /\ crashes' # 0 BY <1>1
<1>3. Owned(page, studies, crashes) BY DEF Inv
<1>4. Owned(page, studies', crashes') BY <1>1, <1>2, <1>3 DEF Owned
<1> QED BY <1>1, <1>2, <1>4 DEF Inv, Sound

\* A case that is loaded and at rest.
LEMMA InitInv == Init => Inv
<1> SUFFICES ASSUME Init PROVE Inv OBVIOUS
<1>1. /\ page.formulation = "dcopf" /\ page.deltas = 0 /\ page.ratings = 0
      /\ page.solution = Base("dcopf") /\ page.baseSolution = Base("dcopf") /\ page.column = None
      /\ page.seq = 0 /\ page.selected = None /\ page.selection = 0 /\ page.abort = None
      /\ ~page.disposed
      /\ page.cache = None /\ page.build = None /\ page.handles = <<>> /\ page.waiters = <<>>
      /\ page.tasks = <<>> /\ page.stream = None /\ page.queue = <<>>
      /\ studies = <<>> /\ crashes = 0
  BY DEF Init
<1>2. Page(page) BY DEF Init, Page, Fields
<1>3. /\ DOMAIN page.tasks = {} /\ DOMAIN page.queue = {} /\ DOMAIN page.waiters = {}
      /\ DOMAIN studies = {}
  BY <1>1
<1>4. Current(page) = Base("dcopf") BY <1>1 DEF Current, Base
<1>5. Base("dcopf").formulation = "dcopf" BY DEF Base, PointAt
<1>6. Typed(page)
  <2>1. Len(page.handles) = 0 /\ Len(page.waiters) = 0 /\ page.handles \in Seq(Formulations)
    BY <1>1, EmptySeq
  <2> QED BY <1>1, <2>1, GridAssumption DEF Typed
<1>7. Tasks(page) BY <1>1, <1>3 DEF Tasks
<1>8. Wired(page)
  <2>1. page.queue \in Seq(Calls) /\ page.waiters \in Seq(Seq(TaskIds)) BY <1>1, EmptySeq
  <2> QED BY <1>3, <2>1 DEF Wired, Called, Listed
<1>9. Screen(page) BY <1>1, <1>4, <1>5 DEF Screen
<1>10. Streaming(page) BY <1>1 DEF Streaming, Live
<1>11. Owned(page, studies, crashes) BY <1>1, <1>3 DEF Owned
<1> QED BY <1>1, <1>2, <1>6, <1>7, <1>8, <1>9, <1>10, <1>11 DEF Inv, Good

\* Every event of the page, of the engine and of the server preserves the invariant.
LEMMA NextInv == Inv /\ [Next]_vars => Inv'
<1> SUFFICES ASSUME Inv, [Next]_vars PROVE Inv' OBVIOUS
<1>1. Sound(page', studies', crashes') /\ crashes' \in Nat
  <2>1. ASSUME Sound(page', studies, crashes), UNCHANGED <<studies, crashes>>
        PROVE  Sound(page', studies', crashes') /\ crashes' \in Nat
    BY <2>1 DEF Inv
  <2>2. CASE EngineAnswers
    <3>1. crashes' = crashes BY <2>2 DEF EngineAnswers
    <3> QED BY <2>2, <3>1, EngineAnswersSound DEF Inv
  <2>3. CASE \E t \in DOMAIN page.tasks : ModuleArrives(t) \/ ServerColumn(t)
    <3>1. PICK t \in DOMAIN page.tasks : ModuleArrives(t) \/ ServerColumn(t) BY <2>3
    <3>2. UNCHANGED <<studies, crashes>> BY <3>1 DEF ModuleArrives, ServerColumn
    <3>3. Sound(page', studies, crashes) BY <3>1, ModuleArrivesSound, ServerColumnSound
    <3> QED BY <2>1, <3>2, <3>3
  <2>4. CASE StreamEvent
    <3>1. UNCHANGED <<studies, crashes>> BY <2>4 DEF StreamEvent
    <3> QED BY <2>1, <2>4, <3>1, StreamEventSound
  <2>5. CASE Crash BY <2>5, CrashSound
  <2>6. CASE \E target \in Targets : SelectTarget(target)
    <3>1. UNCHANGED <<studies, crashes>> BY <2>6 DEF SelectTarget
    <3> QED BY <2>1, <2>6, <3>1, SelectTargetSound
  <2>7. CASE ClearSelection
    <3>1. UNCHANGED <<studies, crashes>> BY <2>7 DEF ClearSelection
    <3> QED BY <2>1, <2>7, <3>1, ClearSelectionSound
  <2>8. CASE \E value \in Values : CommitDelta(value) \/ CommitRating(value)
    <3>1. PICK value \in Values : CommitDelta(value) \/ CommitRating(value) BY <2>8
    <3>2. UNCHANGED <<studies, crashes>> BY <3>1 DEF CommitDelta, CommitRating
    <3>3. Sound(page', studies, crashes) BY <3>1, CommitDeltaSound, CommitRatingSound
    <3> QED BY <2>1, <3>2, <3>3
  <2>9. CASE ResetCase
    <3>1. UNCHANGED <<studies, crashes>> BY <2>9 DEF ResetCase
    <3> QED BY <2>1, <2>9, <3>1, ResetCaseSound
  <2>10. CASE \E next \in Formulations : ChangeFormulation(next)
    <3>1. UNCHANGED <<studies, crashes>> BY <2>10 DEF ChangeFormulation
    <3> QED BY <2>1, <2>10, <3>1, ChangeFormulationSound
  <2>11. CASE RemoveBackendCase
    <3>1. UNCHANGED <<studies, crashes>> BY <2>11 DEF RemoveBackendCase
    <3> QED BY <2>1, <2>11, <3>1, RemoveBackendCaseSound
  <2>12. CASE Dispose
    <3>1. UNCHANGED <<studies, crashes>> BY <2>12 DEF Dispose
    <3> QED BY <2>1, <2>12, <3>1, DisposeSound
  <2>13. CASE UNCHANGED vars BY <2>13 DEF vars, Inv, Sound
  <2> QED
    BY <2>2, <2>3, <2>4, <2>5, <2>6, <2>7, <2>8, <2>9, <2>10, <2>11, <2>12, <2>13 DEF Next, Answers
<1>2. Good(page)' /\ Owned(page, studies, crashes)'
  BY <1>1 DEF Sound
<1> QED BY <1>1, <1>2 DEF Inv

\* The invariant always holds.
LEMMA Invariance == Spec => []Inv
BY InitInv, NextInv, PTL DEF Spec

\* What runSolve, selectTarget, resetCase and changeFormulation leave on the screen fits
\* together, for every number of solves, selections, formulations and crashes: an answer of
\* a superseded solve or of an old selection is never shown.
THEOREM ScreenStaysCurrent == Spec => []ScreenIsCurrent
<1>1. Inv => ScreenIsCurrent
  BY DEF Inv, Good, Screen, ScreenIsCurrent, SolutionIsCurrent, ColumnIsSelected
<1> QED BY <1>1, Invariance, PTL

\* Every Study in the engine has an owner: the cache, a build or a call that frees it; a
\* cached Study is not freed, and there while the engine never crashed; after dispose the
\* cache is empty.
THEOREM StudiesStayOwned == Spec => []StudiesAreOwned
<1>1. Inv => StudiesAreOwned BY DEF Inv, Owned, Freed, StudiesAreOwned
<1> QED BY <1>1, Invariance, PTL
==============================================================================
