---------------------------- MODULE Recoco_proofs ----------------------------
(* The tasks of the scheduler, for any tasks, wakers and calls: TasksKept,    *)
(* although other threads put tasks into the queue of the scheduler without   *)
(* a lock and a ScheduleTask may run after its task was scheduled otherwise.  *)
EXTENDS Recoco, FiniteSetTheorems, SequenceTheorems, TLAPS

(* Tasks that may wait in the hub. *)
Watched == Io \union Timers \union {Caller}

(* What registerSelect() queues. *)
Request == [task : Watched, timed : BOOLEAN]

Types ==
    /\ ready \in Seq(Tasks \union Wakers)
    /\ incoming \in Seq(Request)
    /\ tasks \in [timed : SUBSET Watched, untimed : SUBSET Watched]
    /\ tasks.timed \intersect tasks.untimed = {}
    /\ sched \in {"loop", "ping", "calls", "done"}
    /\ hub \in {"loop", "return", "done"}
    /\ rets \subseteq Hubs /\ (hub # "return" => rets = {})
    /\ readable \subseteq Io /\ blocked \subseteq Blockers
    /\ wake \in [Wakers -> Sleepers \union {Caller, "free"}]
    /\ lock \in {"new", "append", "ping"}

(* No element of a queue is there twice. *)
Once(q) == \A i, j \in 1 .. Len(q) : q[i] = q[j] => i = j

Requests(q) == {q[i].task : i \in 1 .. Len(q)}
RequestedOnce(q) == \A i, j \in 1 .. Len(q) : q[i].task = q[j].task => i = j

(* A task is ready, or its request is on the way to the hub, or it is in the *)
(* hub, or its blocking call is under way.                                   *)
Apart ==
    /\ ToSet(ready) \intersect Requests(incoming) = {}
    /\ ToSet(ready) \intersect Hubs = {}
    /\ ToSet(ready) \intersect blocked = {}
    /\ Requests(incoming) \intersect Hubs = {}
    /\ Requests(incoming) \intersect blocked = {}
    /\ Hubs \intersect blocked = {}

Scheduled == Once(ready) /\ RequestedOnce(incoming) /\ Apart

(* A ScheduleTask is ready exactly while it has a task to schedule. *)
WakersReady == \A w \in Wakers : wake[w] # "free" <=> w \in ToSet(ready)

(* The task of callLater() is started once; until its ScheduleTask has run,  *)
(* and while it runs itself, it is nowhere else.                             *)
CallerAway ==
    /\ Caller \notin ToSet(ready) /\ Caller \notin Requests(incoming) /\ Caller \notin Hubs

Started ==
    /\ sched = "calls" => CallerAway
    /\ lock = "new" => CallerAway /\ sched # "calls" /\ \A w \in Wakers : wake[w] # Caller
    /\ \A w \in Wakers : wake[w] = Caller => CallerAway /\ sched # "calls"
    /\ \A v, w \in Wakers : wake[v] = Caller /\ wake[w] = Caller => v = w

(* Calls are numbered as they are asked for. *)
Numbered ==
    /\ asked \in Nat /\ calls \in Seq(Nat) /\ called \in Seq(Nat)
    /\ asked = Len(called) + Len(calls)
    /\ \A i \in 1 .. Len(called) : called[i] = i
    /\ \A i \in 1 .. Len(calls) : calls[i] = Len(called) + i

Queues == Types /\ Scheduled /\ WakersReady /\ Started

RecocoInv == Queues /\ Numbered

-----------------------------------------------------------------------------
(* Queues without repetition. *)

(* The elements of a queue. *)
LEMMA Elements ==
    ASSUME NEW S, NEW q \in Seq(S)
    PROVE  ToSet(q) = {q[i] : i \in 1 .. Len(q)} /\ ToSet(q) \subseteq S
<1>1. DOMAIN q = 1 .. Len(q) /\ \A i \in 1 .. Len(q) : q[i] \in S
  OBVIOUS
<1> QED BY <1>1 DEF ToSet

(* A queue without its first element. *)
LEMMA TailOf ==
    ASSUME NEW S, NEW q \in Seq(S), q # <<>>
    PROVE  /\ Tail(q) \in Seq(S) /\ Head(q) \in S /\ Head(q) = q[1]
           /\ Len(q) \in Nat \ {0} /\ Len(Tail(q)) = Len(q) - 1 /\ 1 \in 1 .. Len(q)
           /\ \A i \in 1 .. Len(Tail(q)) : i + 1 \in 1 .. Len(q) /\ Tail(q)[i] = q[i + 1]
           /\ \A i \in 1 .. Len(q) : i # 1 => i - 1 \in 1 .. Len(Tail(q)) /\ q[i] = Tail(q)[i - 1]
<1>1. Tail(q) \in Seq(S) /\ Len(q) \in Nat \ {0} /\ Len(Tail(q)) = Len(q) - 1
  OBVIOUS
<1>2. Head(q) \in S /\ Head(q) = q[1] /\ 1 \in 1 .. Len(q)
  BY <1>1
<1>3. \A i \in 1 .. Len(Tail(q)) : i + 1 \in 1 .. Len(q) /\ Tail(q)[i] = q[i + 1]
  BY <1>1
<1>4. ASSUME NEW i \in 1 .. Len(q), i # 1
      PROVE  i - 1 \in 1 .. Len(Tail(q)) /\ q[i] = Tail(q)[i - 1]
  <2>1. i - 1 \in 1 .. Len(Tail(q)) /\ (i - 1) + 1 = i
    BY <1>1, <1>4
  <2> QED BY <1>3, <2>1
<1> QED BY <1>1, <1>2, <1>3, <1>4

(* A queue without its first element keeps all others once. *)
LEMMA OnceTail ==
    ASSUME NEW S, NEW q \in Seq(S), q # <<>>, Once(q)
    PROVE  Once(Tail(q)) /\ ToSet(Tail(q)) = ToSet(q) \ {Head(q)} /\ Head(q) \in ToSet(q)
<1> DEFINE s == Tail(q)
           n == Len(q)
           m == Len(s)
<1>1. /\ s \in Seq(S) /\ Head(q) = q[1] /\ n \in Nat \ {0} /\ m = n - 1 /\ 1 \in 1 .. n
      /\ \A i \in 1 .. m : i + 1 \in 1 .. n /\ s[i] = q[i + 1]
      /\ \A i \in 1 .. n : i # 1 => i - 1 \in 1 .. m /\ q[i] = s[i - 1]
  BY TailOf
<1>a. ToSet(q) = {q[i] : i \in 1 .. n}
  BY Elements
<1>b. ToSet(s) = {s[i] : i \in 1 .. m}
  <2>1. s \in Seq(S)
    BY <1>1
  <2> HIDE DEF s
  <2> QED BY <2>1, Elements
<1>c. \A i, j \in 1 .. n : q[i] = q[j] => i = j
  BY DEF Once
<1> HIDE DEF s, n, m
<1>2. /\ ToSet(q) = {q[i] : i \in 1 .. n} /\ ToSet(s) = {s[i] : i \in 1 .. m}
      /\ \A i, j \in 1 .. n : q[i] = q[j] => i = j
  BY <1>a, <1>b, <1>c
<1>3. \A i, j \in 1 .. m : s[i] = s[j] => i = j
  <2> SUFFICES ASSUME NEW i \in 1 .. m, NEW j \in 1 .. m, s[i] = s[j] PROVE i = j
    OBVIOUS
  <2>1. i + 1 = j + 1
    BY <1>1, <1>2
  <2> QED BY <1>1, <2>1
<1>4. \A i \in 1 .. m : i + 1 # 1
  BY <1>1
<1>5. ASSUME NEW x \in ToSet(s) PROVE x \in ToSet(q) /\ x # q[1]
  BY <1>1, <1>2, <1>4
<1>6. ASSUME NEW x \in ToSet(q), x # q[1] PROVE x \in ToSet(s)
  <2>1. PICK i \in 1 .. n : x = q[i]
    BY <1>a
  <2>2. i # 1
    BY <1>6, <2>1
  <2>3. i - 1 \in 1 .. m /\ x = s[i - 1]
    BY <1>1, <2>1, <2>2
  <2> QED BY <1>b, <2>3
<1> QED BY <1>1, <1>2, <1>3, <1>5, <1>6 DEF s, n, m, Once

(* A new element at the end, as fast_schedule() puts it. *)
LEMMA OnceAppend ==
    ASSUME NEW S, NEW q \in Seq(S), NEW x \in S, Once(q), x \notin ToSet(q)
    PROVE  /\ Append(q, x) \in Seq(S) /\ Once(Append(q, x))
           /\ ToSet(Append(q, x)) = ToSet(q) \union {x}
<1> DEFINE s == Append(q, x)
           n == Len(q)
<1>1. /\ s \in Seq(S) /\ n \in Nat /\ Len(s) = n + 1 /\ s[n + 1] = x
      /\ \A i \in 1 .. n : s[i] = q[i]
  OBVIOUS
<1>2. /\ ToSet(q) = {q[i] : i \in 1 .. n} /\ ToSet(s) = {s[i] : i \in 1 .. (n + 1)}
      /\ \A i, j \in 1 .. n : q[i] = q[j] => i = j
  BY <1>1, Elements DEF Once
<1> HIDE DEF s, n
<1>3. \A i \in 1 .. (n + 1) : i \in 1 .. n \/ i = n + 1
  BY <1>1
<1>4. n + 1 \in 1 .. (n + 1) /\ \A i \in 1 .. n : i \in 1 .. (n + 1)
  BY <1>1
<1>5. \A i, j \in 1 .. (n + 1) : s[i] = s[j] => i = j
  BY <1>1, <1>2, <1>3
<1>6. ToSet(s) = ToSet(q) \union {x}
  BY <1>1, <1>2, <1>3, <1>4
<1> QED BY <1>1, <1>5, <1>6 DEF s, Once

(* A new element at the front, as ScheduleTask.run() puts it. *)
LEMMA OnceFirst ==
    ASSUME NEW S, NEW q \in Seq(S), NEW x \in S, Once(q), x \notin ToSet(q)
    PROVE  /\ <<x>> \o q \in Seq(S) /\ Once(<<x>> \o q)
           /\ ToSet(<<x>> \o q) = ToSet(q) \union {x}
<1> DEFINE s == <<x>> \o q
           n == Len(q)
<1>1. s \in Seq(S) /\ n \in Nat /\ Len(s) = n + 1 /\ s[1] = x
  OBVIOUS
<1>2. \A i \in 1 .. (n + 1) : i # 1 => i - 1 \in 1 .. n /\ s[i] = q[i - 1]
  BY <1>1
<1>3. /\ ToSet(q) = {q[i] : i \in 1 .. n} /\ ToSet(s) = {s[i] : i \in 1 .. (n + 1)}
      /\ \A i, j \in 1 .. n : q[i] = q[j] => i = j
  BY <1>1, Elements DEF Once
<1> HIDE DEF s, n
<1>4. /\ 1 \in 1 .. (n + 1)
      /\ \A i \in 1 .. n : i + 1 \in 1 .. (n + 1) /\ i + 1 # 1 /\ (i + 1) - 1 = i
  BY <1>1
<1>5. \A i, j \in 1 .. (n + 1) : s[i] = s[j] => i = j
  <2> SUFFICES ASSUME NEW i \in 1 .. (n + 1), NEW j \in 1 .. (n + 1), s[i] = s[j] PROVE i = j
    OBVIOUS
  <2>1. CASE i = 1 \/ j = 1
    BY <1>1, <1>2, <1>3, <2>1
  <2>2. CASE i # 1 /\ j # 1
    <3>1. i - 1 = j - 1
      BY <1>2, <1>3, <2>2
    <3> QED BY <1>1, <3>1
  <2> QED BY <2>1, <2>2
<1>6. \A i \in 1 .. n : q[i] = s[i + 1]
  BY <1>2, <1>4
<1>7. ToSet(s) = ToSet(q) \union {x}
  BY <1>1, <1>2, <1>3, <1>4, <1>6
<1> QED BY <1>1, <1>5, <1>7 DEF s, Once

(* schedule() and ScheduleTask.run() add a task that is not ready yet. *)
LEMMA OnceSchedule ==
    ASSUME NEW S, NEW q \in Seq(S), NEW x \in S, Once(q)
    PROVE  /\ schedule(q, x) \in Seq(S) /\ Once(schedule(q, x))
           /\ ToSet(schedule(q, x)) = ToSet(q) \union {x}
<1>1. CASE x \in ToSet(q)
  BY <1>1 DEF schedule
<1>2. CASE x \notin ToSet(q)
  <2>1. schedule(q, x) = Append(q, x)
    BY <1>2 DEF schedule, fast_schedule
  <2> QED BY <1>2, <2>1, OnceAppend
<1> QED BY <1>1, <1>2

(* One more request on the way to the hub. *)
LEMMA RequestsAppend ==
    ASSUME NEW q \in Seq(Request), NEW x \in Request, RequestedOnce(q), x.task \notin Requests(q)
    PROVE  /\ Append(q, x) \in Seq(Request) /\ RequestedOnce(Append(q, x))
           /\ Requests(Append(q, x)) = Requests(q) \union {x.task}
<1> DEFINE s == Append(q, x)
           n == Len(q)
<1>1. /\ s \in Seq(Request) /\ n \in Nat /\ Len(s) = n + 1 /\ s[n + 1] = x
      /\ \A i \in 1 .. n : s[i] = q[i]
  OBVIOUS
<1>2. /\ Requests(q) = {q[i].task : i \in 1 .. n} /\ Requests(s) = {s[i].task : i \in 1 .. (n + 1)}
      /\ \A i, j \in 1 .. n : q[i].task = q[j].task => i = j
  BY <1>1 DEF Requests, RequestedOnce
<1>e. /\ RequestedOnce(s) <=> \A i, j \in 1 .. (n + 1) : s[i].task = s[j].task => i = j
  BY <1>1 DEF RequestedOnce
<1> HIDE DEF s, n
<1>3. \A i \in 1 .. (n + 1) : i \in 1 .. n \/ i = n + 1
  BY <1>1
<1>4. n + 1 \in 1 .. (n + 1) /\ \A i \in 1 .. n : i \in 1 .. (n + 1)
  BY <1>1
<1>5. \A i, j \in 1 .. (n + 1) : s[i].task = s[j].task => i = j
  BY <1>1, <1>2, <1>3
<1>6. Requests(s) = Requests(q) \union {x.task}
  BY <1>1, <1>2, <1>3, <1>4
<1> QED BY <1>1, <1>5, <1>e, <1>6 DEF s

-----------------------------------------------------------------------------
(* Which tasks can be where. *)

(* The kinds of tasks. *)
LEMMA Kinds ==
    /\ Watched \subseteq Tasks /\ Sleepers \subseteq Tasks /\ Blockers \subseteq Tasks
    /\ Caller \in Tasks /\ Wakers \intersect Tasks = {} /\ "free" \notin Tasks
    /\ Sleepers \intersect Watched = {} /\ Sleepers \intersect Blockers = {}
    /\ Caller \notin Blockers /\ Caller \notin Io /\ Caller \notin Timers /\ Caller \notin Sleepers
BY RecocoAssumption DEF Watched, Tasks

(* The places hold tasks of their kinds. *)
LEMMA Base ==
    ASSUME Types
    PROVE  /\ ToSet(ready) \subseteq Tasks \union Wakers /\ Requests(incoming) \subseteq Watched
           /\ Hubs \subseteq Watched /\ blocked \subseteq Blockers
<1>1. ToSet(ready) \subseteq Tasks \union Wakers
  BY Elements DEF Types
<1>2. Requests(incoming) \subseteq Watched
  <2>1. incoming \in Seq(Request)
    BY DEF Types
  <2>2. \A i \in 1 .. Len(incoming) : incoming[i] \in Request
    BY <2>1
  <2>3. \A x \in Request : x.task \in Watched
    BY DEF Request
  <2> QED BY <2>2, <2>3 DEF Requests
<1>3. Hubs \subseteq Watched /\ blocked \subseteq Blockers
  BY DEF Types, Hubs
<1> QED BY <1>1, <1>2, <1>3

(* cycle() takes the first task, which is then nowhere. *)
LEMMA Taken ==
    ASSUME Queues, NEW t, Takes(t)
    PROVE  /\ t \in ToSet(ready) /\ t \in Tasks \union Wakers /\ sched = "loop"
           /\ Tail(ready) \in Seq(Tasks \union Wakers) /\ Once(Tail(ready))
           /\ ToSet(Tail(ready)) = ToSet(ready) \ {t}
           /\ t \notin Requests(incoming) /\ t \notin Hubs /\ t \notin blocked
<1>1. ready \in Seq(Tasks \union Wakers) /\ ready # <<>> /\ Once(ready) /\ t = Head(ready)
  BY DEF Queues, Types, Scheduled, Takes
<1>2. /\ Once(Tail(ready)) /\ ToSet(Tail(ready)) = ToSet(ready) \ {t} /\ t \in ToSet(ready)
      /\ Tail(ready) \in Seq(Tasks \union Wakers) /\ t \in Tasks \union Wakers
  BY <1>1, OnceTail, TailOf
<1>3. t \notin Requests(incoming) /\ t \notin Hubs /\ t \notin blocked
  BY <1>2 DEF Queues, Scheduled, Apart
<1> QED BY <1>2, <1>3 DEF Takes

(* Steps that leave all tasks where they are. *)
LEMMA LeavesTasks ==
    ASSUME Queues, UNCHANGED <<ready, incoming, tasks, blocked, wake>>,
           sched' = sched \/ sched' \in {"loop", "ping", "done"},
           lock' = lock \/ lock' \in {"append", "ping"},
           hub' \in {"loop", "return", "done"},
           rets' \subseteq Hubs, hub' # "return" => rets' = {},
           readable' \subseteq Io
    PROVE  Queues'
<1>1. Hubs' = Hubs
  BY DEF Hubs
<1>2. Types'
  BY <1>1 DEF Queues, Types
<1>3. Scheduled' /\ WakersReady'
  BY <1>1 DEF Queues, Scheduled, Apart, WakersReady
<1>4. Started'
  BY <1>1 DEF Queues, Started, CallerAway
<1> QED BY <1>2, <1>3, <1>4 DEF Queues

(* A task that is taken and not put anywhere. *)
LEMMA Drops ==
    ASSUME Queues, NEW t \in Tasks, Takes(t), ready' = Tail(ready),
           UNCHANGED <<incoming, hub, tasks, rets, readable, blocked, wake, lock>>,
           sched' \in {"loop", "ping"} \/ (sched' = "calls" /\ t = Caller)
    PROVE  Queues'
<1>1. /\ Tail(ready) \in Seq(Tasks \union Wakers) /\ Once(ready')
      /\ ToSet(ready') = ToSet(ready) \ {t} /\ t \in ToSet(ready) /\ Hubs' = Hubs
      /\ t \notin Requests(incoming) /\ t \notin Hubs
  BY Taken DEF Hubs
<1>2. Types'
  BY <1>1 DEF Queues, Types
<1>3. Scheduled'
  BY <1>1 DEF Queues, Scheduled, Apart
<1>4. WakersReady'
  BY <1>1, Kinds DEF Queues, WakersReady
<1>5. Started'
  BY <1>1 DEF Queues, Started, CallerAway
<1> QED BY <1>2, <1>3, <1>4, <1>5 DEF Queues

(* A task whose request goes to the hub. *)
LEMMA Registers ==
    ASSUME Queues, NEW t \in Watched, NEW b \in BOOLEAN, Takes(t), ready' = Tail(ready),
           incoming' = Append(incoming, [task |-> t, timed |-> b]),
           UNCHANGED <<hub, tasks, rets, blocked, wake, lock>>,
           readable' \subseteq Io, sched' \in {"loop", "ping"}
    PROVE  Queues'
<1>0. t \in Tasks /\ t \notin Wakers
  BY Kinds DEF Watched, Tasks
<1>1. /\ Tail(ready) \in Seq(Tasks \union Wakers) /\ Once(ready')
      /\ ToSet(ready') = ToSet(ready) \ {t} /\ t \in ToSet(ready) /\ Hubs' = Hubs
      /\ t \notin Requests(incoming) /\ t \notin Hubs /\ t \notin blocked
  BY Taken DEF Hubs
<1>2. /\ incoming' \in Seq(Request) /\ RequestedOnce(incoming')
      /\ Requests(incoming') = Requests(incoming) \union {t}
  <2> DEFINE x == [task |-> t, timed |-> b]
  <2>1. incoming \in Seq(Request) /\ RequestedOnce(incoming)
    BY DEF Queues, Types, Scheduled
  <2>2. x \in Request /\ x.task = t /\ incoming' = Append(incoming, x)
    BY <1>0 DEF Request
  <2> HIDE DEF x
  <2> QED BY <1>1, <2>1, <2>2, RequestsAppend
<1>3. Types'
  BY <1>1, <1>2 DEF Queues, Types
<1>4. Scheduled'
  BY <1>1, <1>2 DEF Queues, Scheduled, Apart
<1>5. WakersReady'
  BY <1>0, <1>1, Kinds DEF Queues, WakersReady
<1>6. Started'
  BY <1>0, <1>1, <1>2 DEF Queues, Started, CallerAway
<1> QED BY <1>3, <1>4, <1>5, <1>6 DEF Queues

(* fast_schedule() of a task that is ready nowhere, by whoever has it. *)
LEMMA Readies ==
    ASSUME Queues, NEW t \in Tasks, t \notin ToSet(ready), ready' = Append(ready, t),
           t # Caller \/ t \in Hubs,
           incoming' = incoming, t \notin Requests(incoming),
           Hubs' = Hubs \ {t}, blocked' = blocked \ {t},
           tasks' = Forget({t}) \/ tasks' = tasks,
           rets' = rets \ {t}, hub' = hub,
           UNCHANGED <<readable, wake, lock, sched>>
    PROVE  Queues'
<1>1. /\ ready' \in Seq(Tasks \union Wakers) /\ Once(ready')
      /\ ToSet(ready') = ToSet(ready) \union {t}
  <2>1. ready \in Seq(Tasks \union Wakers) /\ Once(ready)
    BY DEF Queues, Types, Scheduled
  <2>2. t \in Tasks \union Wakers
    OBVIOUS
  <2> QED BY <2>1, <2>2, OnceAppend
<1>2. Types'
  <2>1. /\ tasks' \in [timed : SUBSET Watched, untimed : SUBSET Watched]
        /\ tasks'.timed \intersect tasks'.untimed = {}
    BY DEF Queues, Types, Forget
  <2>2. rets' \subseteq Hubs' /\ (hub' # "return" => rets' = {})
    BY DEF Queues, Types
  <2> QED BY <1>1, <2>1, <2>2 DEF Queues, Types
<1>3. Scheduled'
  BY <1>1 DEF Queues, Scheduled, Apart
<1>4. WakersReady'
  BY <1>1, Kinds DEF Queues, WakersReady
<1>5. Started'
  BY <1>1 DEF Queues, Started, CallerAway
<1> QED BY <1>2, <1>3, <1>4, <1>5 DEF Queues

(* A task that runs again, perhaps after a sleeper that it woke. *)
LEMMA Again ==
    ASSUME Queues, NEW t \in Io \union Timers, Takes(t), sched' = "loop",
           NEW q \in Seq(Tasks \union Wakers), Once(q), ready' = Append(q, t),
           \/ ToSet(q) = ToSet(ready) \ {t}
           \/ \E s \in Sleepers : ToSet(q) = (ToSet(ready) \ {t}) \union {s},
           UNCHANGED <<incoming, hub, tasks, rets, readable, blocked, wake, lock>>
    PROVE  Queues'
<1>0. t \in Tasks /\ t # Caller /\ t \notin Sleepers /\ Hubs' = Hubs
  BY Kinds, RecocoAssumption DEF Watched, Hubs
<1>1. t \in ToSet(ready) /\ t \notin Requests(incoming) /\ t \notin Hubs /\ t \notin blocked
  BY Taken
<1>2. /\ ready' \in Seq(Tasks \union Wakers) /\ Once(ready') /\ ToSet(ready') = ToSet(q) \union {t}
  <2>1. t \notin ToSet(q) /\ t \in Tasks \union Wakers
    BY <1>0
  <2> QED BY <2>1, OnceAppend
<1>3. PICK X \in SUBSET Sleepers : ToSet(ready') = ToSet(ready) \union X
  <2>1. CASE ToSet(q) = ToSet(ready) \ {t}
    <3>1. ToSet(ready') = ToSet(ready) \union {}
      BY <1>1, <1>2, <2>1
    <3> QED BY <3>1
  <2>2. CASE \E s \in Sleepers : ToSet(q) = (ToSet(ready) \ {t}) \union {s}
    <3>1. PICK s \in Sleepers : ToSet(q) = (ToSet(ready) \ {t}) \union {s}
      BY <2>2
    <3>2. ToSet(ready') = ToSet(ready) \union {s} /\ {s} \in SUBSET Sleepers
      BY <1>1, <1>2, <3>1
    <3> QED BY <3>2
  <2> QED BY <2>1, <2>2
<1>4. /\ X \intersect Requests(incoming) = {} /\ X \intersect Hubs = {} /\ X \intersect blocked = {}
      /\ X \intersect Wakers = {} /\ Caller \notin X
  BY Base, Kinds DEF Queues
<1>5. Types'
  BY <1>0, <1>2 DEF Queues, Types
<1>6. Scheduled'
  BY <1>0, <1>2, <1>3, <1>4 DEF Queues, Scheduled, Apart
<1>7. WakersReady'
  BY <1>3, <1>4 DEF Queues, WakersReady
<1>8. Started'
  BY <1>0, <1>3, <1>4 DEF Queues, Started, CallerAway, Takes
<1> QED BY <1>5, <1>6, <1>7, <1>8 DEF Queues

(* A task that makes a blocking call. *)
LEMMA Blocks ==
    ASSUME Queues, NEW t \in Blockers, RunBlocking(t)
    PROVE  Queues'
<1>1. /\ Tail(ready) \in Seq(Tasks \union Wakers) /\ Once(Tail(ready))
      /\ ToSet(Tail(ready)) = ToSet(ready) \ {t} /\ t \in ToSet(ready)
      /\ t \notin Requests(incoming) /\ t \notin Hubs
  BY Taken DEF RunBlocking
<1>2. /\ ready' = Tail(ready) /\ blocked' = blocked \union {t} /\ sched' = "loop" /\ Hubs' = Hubs
      /\ UNCHANGED <<incoming, hub, tasks, rets, readable, wake, lock>>
  BY DEF RunBlocking, hubVars, callVars, Hubs
<1>3. Types'
  BY <1>1, <1>2 DEF Queues, Types
<1>4. Scheduled'
  BY <1>1, <1>2 DEF Queues, Scheduled, Apart
<1>5. WakersReady'
  BY <1>1, <1>2, Kinds DEF Queues, WakersReady
<1>6. Started'
  BY <1>1, <1>2 DEF Queues, Started, CallerAway
<1> QED BY <1>3, <1>4, <1>5, <1>6 DEF Queues

(* ScheduleTask.run() puts its task first, unless that is ready already. *)
LEMMA WakerRuns ==
    ASSUME Queues, NEW w \in Wakers, RunScheduleTask(w)
    PROVE  Queues'
<1> DEFINE t == wake[w]
<1>1. /\ Tail(ready) \in Seq(Tasks \union Wakers) /\ Once(Tail(ready))
      /\ ToSet(Tail(ready)) = ToSet(ready) \ {w} /\ w \in ToSet(ready) /\ sched = "loop"
  BY Taken DEF RunScheduleTask
<1>2. t \in Sleepers \union {Caller} /\ t \in Tasks
  <2>1. t # "free" /\ t \in Sleepers \union {Caller, "free"}
    BY <1>1 DEF Queues, WakersReady, Types
  <2> QED BY <2>1, Kinds
<1>3. t \notin Requests(incoming) /\ t \notin Hubs /\ t \notin blocked
  <2>1. CASE t \in Sleepers
    BY <2>1, Base, Kinds DEF Queues
  <2>2. CASE t = Caller
    BY <2>2, Base, Kinds DEF Queues, Started, CallerAway
  <2> QED BY <1>2, <2>1, <2>2
<1>4. /\ wake' = [wake EXCEPT ![w] = "free"] /\ sched' = "loop" /\ Hubs' = Hubs
      /\ UNCHANGED <<incoming, hub, tasks, rets, readable, blocked, lock>>
  BY DEF RunScheduleTask, hubVars, callVars, Hubs
<1>5. /\ ready' \in Seq(Tasks \union Wakers) /\ Once(ready')
      /\ ToSet(ready') = (ToSet(ready) \ {w}) \union {t}
  <2>1. CASE t \in ToSet(Tail(ready))
    <3>1. ready' = Tail(ready)
      BY <2>1 DEF RunScheduleTask
    <3> QED BY <1>1, <2>1, <3>1
  <2>2. CASE t \notin ToSet(Tail(ready))
    <3>1. ready' = <<t>> \o Tail(ready)
      BY <2>2 DEF RunScheduleTask, fast_schedule
    <3>2. t \in Tasks \union Wakers
      BY <1>2
    <3> DEFINE q == Tail(ready)
    <3>3. q \in Seq(Tasks \union Wakers) /\ Once(q) /\ t \notin ToSet(q) /\ ready' = <<t>> \o q
      BY <1>1, <2>2, <3>1
    <3>4. ToSet(q) = ToSet(ready) \ {w}
      BY <1>1
    <3> HIDE DEF t, q
    <3> QED BY <3>2, <3>3, <3>4, OnceFirst
  <2> QED BY <2>1, <2>2
<1>6. wake \in [Wakers -> Sleepers \union {Caller, "free"}]
  BY DEF Queues, Types
<1>7. wake'[w] = "free" /\ \A v \in Wakers : v # w => wake'[v] = wake[v]
  BY <1>4, <1>6
<1>8. wake' \in [Wakers -> Sleepers \union {Caller, "free"}]
  BY <1>4, <1>6
<1>9. Types'
  BY <1>4, <1>5, <1>8 DEF Queues, Types
<1>10. Scheduled'
  BY <1>3, <1>4, <1>5 DEF Queues, Scheduled, Apart
<1>11. WakersReady'
  <2>1. t \notin Wakers
    BY <1>2, Kinds
  <2> HIDE DEF t
  <2> QED BY <1>5, <1>7, <2>1 DEF Queues, WakersReady
<1>12. Started'
  <2>1. Started /\ Caller # "free"
    BY Kinds DEF Queues
  <2>2. CASE t = Caller
    <3>1. lock # "new" /\ \A v \in Wakers : wake'[v] # Caller
      BY <1>7, <2>1, <2>2 DEF Started
    <3> QED BY <1>4, <3>1 DEF Started
  <2>3. CASE t # Caller
    <3>1. CallerAway => CallerAway'
      BY <1>4, <1>5, <2>3 DEF CallerAway
    <3>2. \A v \in Wakers : wake'[v] = Caller => wake[v] = Caller
      BY <1>7, <2>1
    <3> QED BY <1>4, <2>1, <3>1, <3>2 DEF Started
  <2> QED BY <2>2, <2>3
<1> QED BY <1>9, <1>10, <1>11, <1>12 DEF Queues

(* A new ScheduleTask is started, for a sleeper or for the first call. *)
LEMMA WakerStarts ==
    ASSUME Queues, NEW t, NewScheduleTask(t),
           (t \in Sleepers /\ lock' = lock) \/ (t = Caller /\ lock = "new" /\ lock' = "append"),
           UNCHANGED <<incoming, hub, tasks, rets, readable, blocked, sched>>
    PROVE  Queues'
<1> DEFINE w == CHOOSE u \in Unused : TRUE
<1>1. w \in Wakers /\ wake[w] = "free"
  BY DEF NewScheduleTask, Unused
<1>2. wake' = [wake EXCEPT ![w] = t] /\ ready' = Append(ready, w)
  BY DEF NewScheduleTask, start, fast_schedule
<1> HIDE DEF w
<1>3. w \notin ToSet(ready) /\ t \in Sleepers \union {Caller} /\ t # "free" /\ Hubs' = Hubs
  BY <1>1, Kinds DEF Queues, WakersReady, Hubs
<1>4. /\ ready' \in Seq(Tasks \union Wakers) /\ Once(ready')
      /\ ToSet(ready') = ToSet(ready) \union {w}
  <2>1. ready \in Seq(Tasks \union Wakers) /\ Once(ready) /\ w \in Tasks \union Wakers
    BY <1>1 DEF Queues, Types, Scheduled
  <2> QED BY <1>2, <1>3, <2>1, OnceAppend
<1>5. wake \in [Wakers -> Sleepers \union {Caller, "free"}]
  BY DEF Queues, Types
<1>6. wake'[w] = t /\ \A v \in Wakers : v # w => wake'[v] = wake[v]
  BY <1>1, <1>2, <1>5
<1>7. wake' \in [Wakers -> Sleepers \union {Caller, "free"}]
  BY <1>1, <1>2, <1>3, <1>5
<1>8. Types'
  BY <1>3, <1>4, <1>7 DEF Queues, Types
<1>9. w \notin Requests(incoming) /\ w \notin Hubs /\ w \notin blocked /\ w # Caller
  BY <1>1, Base, Kinds DEF Queues
<1>10. Scheduled'
  BY <1>3, <1>4, <1>9 DEF Queues, Scheduled, Apart
<1>11. WakersReady'
  BY <1>3, <1>4, <1>6 DEF Queues, WakersReady
<1>12. Started'
  <2>1. CallerAway => CallerAway'
    BY <1>3, <1>4, <1>9 DEF CallerAway
  <2>2. Started
    BY DEF Queues
  <2>3. CASE t \in Sleepers /\ lock' = lock
    <3>1. \A v \in Wakers : wake'[v] = Caller => wake[v] = Caller
      BY <1>6, <2>3, Kinds
    <3> QED BY <2>1, <2>2, <2>3, <3>1 DEF Started
  <2>4. CASE t = Caller /\ lock = "new" /\ lock' = "append"
    <3>1. \A v \in Wakers : wake'[v] = Caller => v = w
      BY <1>6, <2>2, <2>4 DEF Started
    <3> QED BY <2>1, <2>2, <2>4, <3>1 DEF Started
  <2> QED BY <2>3, <2>4
<1> QED BY <1>8, <1>10, <1>11, <1>12 DEF Queues

(* CallLaterTask selects again. *)
LEMMA CallerRegisters ==
    ASSUME Queues, CallsDone
    PROVE  Queues'
<1> DEFINE x == [task |-> Caller, timed |-> FALSE]
<1>1. x \in Request /\ x.task = Caller /\ incoming' = Append(incoming, x)
  BY DEF Request, Watched, CallsDone, registerSelect
<1> HIDE DEF x
<1>2. /\ UNCHANGED <<ready, hub, tasks, rets, readable, blocked, wake, lock>>
      /\ sched = "calls" /\ sched' = "ping" /\ Hubs' = Hubs
  BY DEF CallsDone, registerSelect, callVars, Hubs
<1>3. CallerAway /\ Caller \notin blocked
  BY <1>2, Base, Kinds DEF Queues, Started
<1>4. /\ incoming' \in Seq(Request) /\ RequestedOnce(incoming')
      /\ Requests(incoming') = Requests(incoming) \union {Caller}
  <2>1. incoming \in Seq(Request) /\ RequestedOnce(incoming)
    BY DEF Queues, Types, Scheduled
  <2> QED BY <1>1, <1>3, <2>1, RequestsAppend DEF CallerAway
<1>5. Types'
  BY <1>2, <1>4 DEF Queues, Types
<1>6. Scheduled'
  BY <1>2, <1>3, <1>4 DEF Queues, Scheduled, Apart, CallerAway
<1>7. WakersReady'
  BY <1>2 DEF Queues, WakersReady
<1>8. Started'
  BY <1>2 DEF Queues, Started
<1> QED BY <1>5, <1>6, <1>7, <1>8 DEF Queues

(* The hub takes in what was requested; its assertion does not fail. *)
LEMMA HubTakes ==
    ASSUME Queues, HubFiles
    PROVE  Queues'
<1>1. /\ UNCHANGED <<ready, sched, readable, blocked, wake, lock>> /\ rets' \subseteq Hubs
  BY DEF HubFiles, callVars
<1>2. CASE ~ ping
  <2>1. UNCHANGED <<incoming, tasks>> /\ hub' = "return"
    BY <1>2 DEF HubFiles
  <2> QED BY <1>1, <2>1, LeavesTasks DEF Queues, Types
<1>3. CASE ping
  <2> DEFINE T == IncomingTasks(TRUE)
             U == IncomingTasks(FALSE)
  <2>1. /\ incoming \in Seq(Request) /\ RequestedOnce(incoming)
        /\ DOMAIN incoming = 1 .. Len(incoming)
        /\ \A i \in 1 .. Len(incoming) : incoming[i] \in Request
    BY DEF Queues, Types, Scheduled
  <2>2. /\ incoming' = <<>>
        /\ tasks' = [timed |-> tasks.timed \union T, untimed |-> tasks.untimed \union U]
        /\ hub' = IF \E i \in DOMAIN incoming : incoming[i].task \in Hubs THEN "dead" ELSE "return"
    BY <1>3 DEF HubFiles
  <2>3. hub' = "return"
    BY <2>1, <2>2 DEF Queues, Scheduled, Apart, Requests
  <2>4. \A x \in Request : x.timed \in BOOLEAN
    BY DEF Request
  <2>5. T \union U = Requests(incoming)
    BY <2>1, <2>4 DEF IncomingTasks, Requests
  <2>6. T \intersect U = {}
    BY <2>1 DEF IncomingTasks, RequestedOnce
  <2> HIDE DEF T, U
  <2>7. tasks'.timed = tasks.timed \union T /\ tasks'.untimed = tasks.untimed \union U
    BY <2>2
  <2>8. Hubs' = Hubs \union Requests(incoming)
    BY <2>5, <2>7 DEF Hubs
  <2>9. Requests(incoming) \intersect Hubs = {} /\ Requests(incoming) \subseteq Watched
    BY Base DEF Queues, Scheduled, Apart
  <2>10. /\ tasks' \in [timed : SUBSET Watched, untimed : SUBSET Watched]
         /\ tasks'.timed \intersect tasks'.untimed = {}
    <3>1. /\ tasks.timed \subseteq Watched /\ tasks.untimed \subseteq Watched
          /\ tasks.timed \intersect tasks.untimed = {}
      BY DEF Queues, Types
    <3>2. tasks'.timed \intersect tasks'.untimed = {}
      BY <2>5, <2>6, <2>7, <2>9, <3>1 DEF Hubs
    <3>3. tasks' \in [timed : SUBSET Watched, untimed : SUBSET Watched]
      BY <2>2, <2>5, <2>9, <3>1
    <3> QED BY <3>2, <3>3
  <2>11. incoming' \in Seq(Request) /\ Requests(incoming') = {} /\ RequestedOnce(incoming')
    BY <2>2 DEF Requests, RequestedOnce
  <2>12. Types'
    BY <1>1, <2>3, <2>8, <2>10, <2>11 DEF Queues, Types
  <2>13. Scheduled'
    BY <1>1, <2>8, <2>11 DEF Queues, Scheduled, Apart
  <2>14. WakersReady'
    BY <1>1 DEF Queues, WakersReady
  <2>15. Started'
    BY <1>1, <2>8, <2>11 DEF Queues, Started, CallerAway
  <2> QED BY <2>12, <2>13, <2>14, <2>15 DEF Queues
<1> QED BY <1>2, <1>3

(* Every step keeps the tasks of the scheduler apart. *)
LEMMA QueuesStep ==
    ASSUME Queues, Next
    PROVE  Queues'
<1> USE DEF hubVars, callVars
<1>0. /\ hub \in {"loop", "return", "done"} /\ rets \subseteq Hubs /\ (hub # "return" => rets = {})
      /\ readable \subseteq Io
  BY DEF Queues, Types
<1>1. CASE Finally \/ Ping \/ CallNext \/ HubQuit \/ HubAgain \/ CallLaterAppend \/ CallLaterPing
  BY <1>0, <1>1, LeavesTasks
     DEF Finally, Ping, CallNext, HubQuit, HubAgain, CallLaterAppend, CallLaterPing
<1>2. ASSUME NEW t \in Timers, Cancel(t) PROVE Queues'
  BY <1>0, <1>2, LeavesTasks DEF Cancel
<1>3. ASSUME NEW t \in Io, Readable(t) PROVE Queues'
  BY <1>0, <1>3, LeavesTasks DEF Readable
<1>4. ASSUME NEW t \in Io, NEW timed \in BOOLEAN, RunSelect(t, timed) PROVE Queues'
  BY <1>0, <1>4, Registers DEF RunSelect, registerSelect, Watched
<1>5. ASSUME NEW t \in Io, RunExit(t) PROVE Queues'
  BY <1>5, Drops DEF RunExit, Tasks
<1>6. ASSUME NEW t \in Io, NEW s \in Sleepers, RunWakes(t, s) PROVE Queues'
  <2> DEFINE r == Tail(ready)
             q == schedule(r, s)
  <2>1. Takes(t) /\ ready' = Append(q, t) /\ sched' = "loop"
    BY <1>6 DEF RunWakes
  <2>2. UNCHANGED <<incoming, hub, tasks, rets, readable, blocked, wake, lock>>
    BY <1>6 DEF RunWakes
  <2>3. r \in Seq(Tasks \union Wakers) /\ Once(r) /\ ToSet(r) = ToSet(ready) \ {t}
    BY <2>1, Taken
  <2>4. s \in Tasks \union Wakers
    BY DEF Tasks
  <2> HIDE DEF r
  <2>5. /\ q \in Seq(Tasks \union Wakers) /\ Once(q)
        /\ ToSet(q) = (ToSet(ready) \ {t}) \union {s}
    BY <2>3, <2>4, OnceSchedule
  <2> HIDE DEF q
  <2> QED BY <2>1, <2>2, <2>5, Again
<1>7. ASSUME NEW t \in Sleepers, RunSleep(t) PROVE Queues'
  BY <1>7, Drops DEF RunSleep, Tasks
<1>8. ASSUME NEW t \in Blockers, RunBlocking(t) PROVE Queues'
  BY <1>8, Blocks
<1>9. ASSUME NEW t \in Timers, RunTimer(t) PROVE Queues'
  <2> DEFINE q == Tail(ready)
  <2>1. Takes(t) /\ UNCHANGED <<hub, tasks, rets, readable, blocked, wake, lock>> /\ t \in Tasks
    BY <1>9 DEF RunTimer, Tasks
  <2>2. q \in Seq(Tasks \union Wakers) /\ Once(q) /\ ToSet(q) = ToSet(ready) \ {t}
    BY <2>1, Taken
  <2>3. CASE ready' = Tail(ready) /\ sched' = "loop" /\ UNCHANGED incoming
    BY <2>1, <2>3, Drops
  <2>4. CASE ready' = Tail(ready) /\ registerTimer(t)
    BY <1>0, <2>1, <2>4, Registers DEF registerTimer, registerSelect, Watched
  <2>5. CASE ready' = Append(q, t) /\ sched' = "loop" /\ UNCHANGED incoming
    <3> HIDE DEF q
    <3> QED BY <2>1, <2>2, <2>5, Again
  <2> QED BY <1>9, <2>3, <2>4, <2>5 DEF RunTimer, fast_schedule
<1>10. ASSUME NEW w \in Wakers, RunScheduleTask(w) PROVE Queues'
  BY <1>10, WakerRuns
<1>11. CASE RunCaller
  BY <1>11, Drops DEF RunCaller, Tasks
<1>12. CASE CallsDone
  BY <1>12, CallerRegisters
<1>13. CASE HubFiles
  BY <1>13, HubTakes
<1>14. ASSUME NEW t \in Tasks, HubReturn(t) PROVE Queues'
  <2>1. t \in Hubs
    BY <1>0, <1>14 DEF HubReturn
  <2>2. t \notin ToSet(ready) /\ t \notin Requests(incoming) /\ t \notin blocked
    BY <2>1 DEF Queues, Scheduled, Apart
  <2>3. Hubs' = Hubs \ {t}
    BY <1>14 DEF HubReturn, Hubs, Forget
  <2> QED BY <1>14, <2>1, <2>2, <2>3, Readies DEF HubReturn, fast_schedule
<1>15. ASSUME NEW t \in Tasks, HubExpire(t) PROVE Queues'
  <2>1. t \in Hubs /\ rets = {}
    BY <1>0, <1>15 DEF HubExpire, Hubs
  <2>2. t \notin ToSet(ready) /\ t \notin Requests(incoming) /\ t \notin blocked
    BY <2>1 DEF Queues, Scheduled, Apart
  <2>3. Hubs' = Hubs \ {t}
    BY <1>15 DEF HubExpire, Hubs, Forget
  <2> QED BY <1>15, <2>1, <2>2, <2>3, Readies DEF HubExpire, fast_schedule
<1>16. ASSUME NEW t \in Blockers, BlockingDone(t) PROVE Queues'
  <2>1. t \notin ToSet(ready) /\ t \notin Requests(incoming) /\ t \notin Hubs
    BY <1>16 DEF BlockingDone, Queues, Scheduled, Apart
  <2>2. t \in Tasks /\ t # Caller
    BY Kinds
  <2>3. Hubs' = Hubs \ {t} /\ rets' = rets \ {t}
    BY <1>0, <1>16, <2>1 DEF BlockingDone, Hubs
  <2> QED BY <1>16, <2>1, <2>2, <2>3, Readies DEF BlockingDone, fast_schedule
<1>17. ASSUME NEW s \in Sleepers, Schedule(s) PROVE Queues'
  <2>1. NewScheduleTask(s) /\ lock' = lock
    BY <1>17 DEF Schedule
  <2>2. UNCHANGED <<incoming, hub, tasks, rets, readable, blocked, sched>>
    BY <1>17 DEF Schedule
  <2> QED BY <2>1, <2>2, WakerStarts
<1>18. CASE CallLaterStart
  BY <1>18, WakerStarts DEF CallLaterStart
<1>19. CASE CallerStarts
  BY <1>0, <1>19, Registers DEF CallerStarts, registerSelect, Watched
<1> QED
  BY <1>1, <1>2, <1>3, <1>4, <1>5, <1>6, <1>7, <1>8, <1>9, <1>10, <1>11, <1>12, <1>13, <1>14,
     <1>15, <1>16, <1>17, <1>18, <1>19
     DEF Next, SchedulerThread, RunTask, HubThread, Expires, OtherThreads, callLater

-----------------------------------------------------------------------------
(* The functions of callLater(). *)

(* Calls are numbered in the order in which they are asked for and made. *)
LEMMA NumberedStep ==
    ASSUME Numbered, Next
    PROVE  Numbered'
<1>1. CASE CallNext
  <2>1. /\ calls # <<>> /\ called' = Append(called, Head(calls)) /\ calls' = Tail(calls)
        /\ asked' = asked
    BY <1>1 DEF CallNext
  <2> DEFINE n == Len(called)
             m == Len(calls)
             c == calls'
             d == called'
  <2>2. n \in Nat /\ m \in Nat /\ asked = n + m /\ asked \in Nat
    BY DEF Numbered
  <2>3. c \in Seq(Nat) /\ Len(c) = m - 1 /\ Head(calls) = calls[1] /\ m # 0 /\ Head(calls) \in Nat
    BY <2>1, TailOf DEF Numbered
  <2>4. \A i \in 1 .. (m - 1) : c[i] = calls[i + 1] /\ i + 1 \in 1 .. m
    BY <2>1, TailOf DEF Numbered
  <2>5. /\ d \in Seq(Nat) /\ Len(d) = n + 1 /\ d[n + 1] = Head(calls)
        /\ \A i \in 1 .. n : d[i] = called[i]
    BY <2>1, <2>3 DEF Numbered
  <2>6. /\ \A i \in 1 .. n : called[i] = i
        /\ \A i \in 1 .. m : calls[i] = n + i
    BY DEF Numbered
  <2> HIDE DEF n, m, c, d
  <2>7. calls[1] = n + 1
    BY <2>2, <2>3, <2>6
  <2>8. \A i \in 1 .. (n + 1) : d[i] = i
    <3>1. \A i \in 1 .. (n + 1) : i \in 1 .. n \/ i = n + 1
      BY <2>2
    <3> QED BY <2>3, <2>5, <2>6, <2>7, <3>1
  <2>9. \A i \in 1 .. (m - 1) : c[i] = (n + 1) + i
    BY <2>2, <2>3, <2>4, <2>6
  <2>10. asked = (n + 1) + (m - 1)
    BY <2>2
  <2> QED BY <2>1, <2>2, <2>3, <2>5, <2>8, <2>9, <2>10 DEF c, d, Numbered
<1>2. CASE CallLaterAppend
  <2>1. asked' = asked + 1 /\ calls' = Append(calls, asked + 1) /\ called' = called
    BY <1>2 DEF CallLaterAppend
  <2> DEFINE n == Len(called)
             m == Len(calls)
             c == calls'
  <2>2. n \in Nat /\ m \in Nat /\ asked = n + m /\ asked \in Nat
    BY DEF Numbered
  <2>3. /\ c \in Seq(Nat) /\ Len(c) = m + 1 /\ c[m + 1] = asked + 1
        /\ \A i \in 1 .. m : c[i] = calls[i]
    BY <2>1 DEF Numbered
  <2>4. \A i \in 1 .. m : calls[i] = n + i
    BY DEF Numbered
  <2>5. called \in Seq(Nat) /\ \A i \in 1 .. Len(called) : called[i] = i
    BY DEF Numbered
  <2>x. Len(called)' = n /\ called' = called
    BY <2>1
  <2> HIDE DEF n, m, c
  <2>6. \A i \in 1 .. (m + 1) : c[i] = n + i
    BY <2>2, <2>3, <2>4
  <2>7. asked + 1 = n + (m + 1) /\ asked + 1 \in Nat
    BY <2>2
  <2> QED BY <2>1, <2>3, <2>5, <2>6, <2>7, <2>x DEF c, Numbered
<1>3. CASE UNCHANGED <<asked, calls, called>>
  BY <1>3 DEF Numbered
<1> QED
  BY <1>1, <1>2, <1>3
     DEF Next, SchedulerThread, RunTask, HubThread, Expires, OtherThreads, callLater, callVars,
         Finally, Ping, CallsDone, RunSelect, RunExit, RunWakes, RunSleep, RunBlocking, RunTimer,
         RunScheduleTask, CallerStarts, RunCaller, HubQuit, HubFiles, HubAgain, HubReturn, HubExpire, Schedule,
         BlockingDone, Cancel, Readable, CallLaterStart, CallLaterPing

-----------------------------------------------------------------------------
(* The queue of a scheduler that was just made holds every task once. *)
LEMMA SeqOfSet ==
    ASSUME NEW S, IsFiniteSet(S)
    PROVE  SetToSeq(S) \in Seq(S) /\ Once(SetToSeq(S))
<1> DEFINE n == Cardinality(S)
           q == SetToSeq(S)
<1>1. n \in Nat /\ ExistsBijection(1 .. n, S)
  BY FS_CardinalityType
<1>2. \E f \in [1 .. n -> S] : IsInjective(f)
  BY <1>1 DEF ExistsBijection, Bijection, Injection
<1>3. q \in [1 .. n -> S] /\ IsInjective(q)
  BY <1>2 DEF SetToSeq
<1> HIDE DEF n, q
<1>4. q \in Seq(S) /\ Len(q) = n
  BY <1>1, <1>3
<1>5. Once(q)
  BY <1>3, <1>4 DEF IsInjective, Once
<1> QED BY <1>4, <1>5 DEF q

(* The scheduler and the hub start with the tasks ready and nothing asked for. *)
LEMMA RecocoInit ==
    ASSUME Init
    PROVE  RecocoInv
<1> DEFINE S == Io \union Sleepers \union Blockers \union Timers
<1>1. S \subseteq Tasks /\ Caller \notin S /\ S \intersect Wakers = {}
  BY RecocoAssumption DEF Tasks
<1>2. IsFiniteSet(S)
  BY <1>1, RecocoAssumption, FS_Subset
<1>3. ready = SetToSeq(S)
  BY DEF Init
<1> HIDE DEF S
<1>4. ready \in Seq(S) /\ Once(ready) /\ ToSet(ready) \subseteq S
  BY <1>2, <1>3, SeqOfSet, Elements
<1>5. ready \in Seq(Tasks \union Wakers)
  <2>1. \A i \in 1 .. Len(ready) : ready[i] \in Tasks \union Wakers
    BY <1>1, <1>4
  <2>2. ready = [i \in 1 .. Len(ready) |-> ready[i]] /\ Len(ready) \in Nat
    BY <1>4
  <2> QED BY <2>1, <2>2
<1>6. /\ hub = "loop" /\ tasks = [timed |-> {}, untimed |-> {}] /\ incoming = <<>> /\ rets = {}
      /\ sched = "loop" /\ readable = {} /\ blocked = {} /\ lock = "new"
      /\ wake = [w \in Wakers |-> "free"]
  BY DEF Init, HubInit
<1>7. Hubs = {} /\ incoming \in Seq(Request) /\ Requests(incoming) = {} /\ RequestedOnce(incoming)
  BY <1>6 DEF Hubs, Requests, RequestedOnce
<1>8. Types
  BY <1>5, <1>6, <1>7 DEF Types
<1>9. Scheduled
  BY <1>4, <1>6, <1>7 DEF Scheduled, Apart
<1>10. WakersReady
  BY <1>1, <1>4, <1>6 DEF WakersReady
<1>11. Started
  BY <1>1, <1>4, <1>6, <1>7, Kinds DEF Started, CallerAway
<1>12. Numbered
  BY DEF Init, Numbered
<1> QED BY <1>8, <1>9, <1>10, <1>11, <1>12 DEF RecocoInv, Queues

(* The invariant is inductive. *)
LEMMA RecocoStep ==
    ASSUME RecocoInv, [Next]_vars
    PROVE  RecocoInv'
<1>1. CASE Next
  BY <1>1, QueuesStep, NumberedStep DEF RecocoInv
<1>2. CASE UNCHANGED vars
  <2>1. UNCHANGED <<ready, sched, hub, tasks, rets, incoming, readable, blocked, wake, lock>>
    BY <1>2 DEF vars, hubVars, callVars
  <2>2. Queues'
    BY <2>1, LeavesTasks DEF RecocoInv, Queues, Types
  <2>3. Numbered'
    BY <1>2 DEF RecocoInv, Numbered, vars, callVars
  <2> QED BY <2>2, <2>3 DEF RecocoInv
<1> QED BY <1>1, <1>2

(* How many elements a set has in which all are equal. *)
LEMMA AtMostOne ==
    ASSUME NEW S, \A x, y \in S : x = y
    PROVE  Cardinality(S) = IF S = {} THEN 0 ELSE 1
<1>1. CASE S = {}
  BY <1>1, FS_EmptySet
<1>2. CASE S # {}
  <2>1. PICK x : S = {x}
    BY <1>2
  <2> QED BY <1>2, <2>1, FS_Singleton
<1> QED BY <1>1, <1>2

(* A task is at most in one place, and there once. *)
LEMMA PlacesBound ==
    ASSUME Queues, NEW t
    PROVE  Places(t) <= 1
<1> DEFINE A == {i \in DOMAIN ready : ready[i] = t}
           B == {i \in DOMAIN incoming : incoming[i].task = t}
           a == Cardinality(A)
           b == Cardinality(B)
           c == IF t \in Hubs THEN 1 ELSE 0
           d == IF t \in blocked THEN 1 ELSE 0
<1>1. Places(t) = a + b + c + d
  BY DEF Places
<1>2. DOMAIN ready = 1 .. Len(ready) /\ DOMAIN incoming = 1 .. Len(incoming)
  BY DEF Queues, Types
<1>3. a = IF t \in ToSet(ready) THEN 1 ELSE 0
  <2>1. \A i, j \in A : i = j
    BY <1>2 DEF Queues, Scheduled, Once
  <2>2. A = {} <=> t \notin ToSet(ready)
    BY DEF ToSet
  <2> QED BY <2>1, <2>2, AtMostOne
<1>4. b = IF t \in Requests(incoming) THEN 1 ELSE 0
  <2>1. \A i, j \in B : i = j
    BY <1>2 DEF Queues, Scheduled, RequestedOnce
  <2>2. B = {} <=> t \notin Requests(incoming)
    BY <1>2 DEF Requests
  <2> QED BY <2>1, <2>2, AtMostOne
<1> HIDE DEF A, B, a, b
<1> QED BY <1>1, <1>3, <1>4 DEF Queues, Scheduled, Apart

(* What the invariant says of the tasks. *)
LEMMA RecocoKept ==
    ASSUME RecocoInv
    PROVE  TasksKept
<1>1. TypeOK
  BY Base, Kinds DEF RecocoInv, Queues, Types, TypeOK
<1>2. ScheduledOnce
  BY PlacesBound DEF RecocoInv, Queues, Types, ScheduledOnce
<1>3. CalledInOrder
  <2>1. called \in Seq(Nat) /\ \A i \in 1 .. Len(called) : called[i] = i
    BY DEF RecocoInv, Numbered
  <2>2. called = [i \in 1 .. Len(called) |-> called[i]]
    BY <2>1
  <2> QED BY <2>1, <2>2 DEF CalledInOrder
<1> QED BY <1>1, <1>2, <1>3 DEF TasksKept

(* TasksKept, for any tasks and any number of wakers and calls: however the   *)
(* threads that call schedule(), callLater() and fast_schedule() interleave   *)
(* with cycle() and with the hub, no task is ready twice or ready while the   *)
(* hub or a blocking call is still to return it, the assertions of            *)
(* fast_schedule() and of the hub hold, and the functions given to            *)
(* callLater() are called in order.                                           *)
THEOREM TasksSafety == Spec => []TasksKept
<1>1. Init => RecocoInv
  BY RecocoInit
<1>2. RecocoInv /\ [Next]_vars => RecocoInv'
  BY RecocoStep
<1>3. RecocoInv => TasksKept
  BY RecocoKept
<1> QED BY <1>1, <1>2, <1>3, PTL DEF Spec

=============================================================================
