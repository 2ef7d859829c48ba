------------------------------- MODULE Recoco -------------------------------
(***************************************************************************)
(* The cooperative scheduler (recoco.py): the scheduler thread takes tasks *)
(* from the front of the deque _ready and runs each to its next yield; the *)
(* thread of SelectHub waits for files and timeouts and puts tasks back;   *)
(* other threads wake tasks (Scheduler.schedule, through a ScheduleTask),  *)
(* finish blocking calls (CallBlocking) and hand functions to the          *)
(* cooperative thread (callLater).                                         *)
(*                                                                         *)
(* The priority of tasks plays no part: cycle() compares the task itself   *)
(* with 1, and in Python 2 an object is never smaller than a number, so    *)
(* the first task is always taken.                                         *)
(***************************************************************************)
EXTENDS Integers, FiniteSets, SequencesExt

CONSTANTS Io,        \* tasks that yield Select, with or without a timeout
          Sleepers,  \* tasks that yield FALSE and are woken by schedule()
          Blockers,  \* tasks that yield CallBlocking
          Timers,    \* recurring Timer tasks
          Caller,    \* the CallLaterTask
          Wakers,    \* ScheduleTask objects
          MaxCalls   \* bound on calls of callLater()

Tasks == Io \union Sleepers \union Blockers \union Timers \union {Caller}

(* schedule() is for tasks that wait for nothing else: a task that selects *)
(* or blocks, woken by it, would be ready and waiting at once.  The task of*)
(* callLater() is of a class of its own.                                   *)
ASSUME RecocoAssumption ==
    /\ MaxCalls \in Nat
    /\ IsFiniteSet(Tasks) /\ Wakers \intersect Tasks = {} /\ "free" \notin Tasks
    /\ Sleepers \intersect (Io \union Blockers \union Timers) = {}
    /\ Caller \notin Io \union Sleepers \union Blockers \union Timers

VARIABLES ready,      \* Scheduler._ready
          hasQuit,    \* Scheduler._hasQuit
          sched,      \* where Scheduler.run() is
          hub,        \* where SelectHub._threadProc() is
          tasks,      \* the hub's tasks: those with a timeout, and the others
          incoming,   \* SelectHub._incoming
          ping,       \* the hub's pinger is readable
          rets,       \* tasks the hub has still to return
          readable,   \* io tasks whose file is readable
          blocked,    \* tasks whose blocking call has not ended
          wake,       \* wake[w]: the task that ScheduleTask w is to schedule
          cancelled,  \* timers that were cancelled
          lock,       \* callLater() in another thread: what it does next
          calls,      \* CallLaterTask._calls
          asked,      \* number of calls of callLater()
          called,     \* functions that were called (history)
          callPing,   \* the pinger of CallLaterTask is readable
          begun       \* CallLaterTask.run() has come to its first yield

callVars == <<lock, calls, asked, called, callPing, begun>>
hubVars == <<hub, tasks, ping, rets>>
vars == <<ready, hasQuit, sched, hubVars, incoming, readable, blocked, wake, cancelled, callVars>>

(* SelectHub.__init__() starts the thread of the hub. *)
HubInit ==
    /\ hub = "loop"
    /\ tasks = [timed |-> {}, untimed |-> {}]
    /\ incoming = <<>> /\ ping = FALSE /\ rets = {}

Init ==
    /\ HubInit
    /\ ready = SetToSeq(Io \union Sleepers \union Blockers \union Timers)
    /\ hasQuit = FALSE
    /\ sched = "loop" /\ readable = {}
    /\ blocked = {}
    /\ wake = [w \in Wakers |-> "free"]
    /\ cancelled = {}
    /\ lock = "new" /\ calls = <<>> /\ asked = 0 /\ called = <<>> /\ callPing = FALSE
    /\ begun = FALSE

-----------------------------------------------------------------------------
(* Scheduler.run() *)

(* The end of run(): the hub is woken so that it ends too. *)
Finally ==
    /\ sched = "loop" /\ hasQuit
    /\ ping' = TRUE /\ sched' = "done"
    /\ UNCHANGED <<ready, hasQuit, hub, tasks, rets, incoming, readable, blocked, wake,
                   cancelled, callVars>>

(* cycle() takes a task and runs it.  While none is ready, run() waits for *)
(* _event, for at most CYCLE_MAXIMUM, and looks again: whether the event   *)
(* is set makes no difference but in time.                                 *)
Takes(t) ==
    /\ sched = "loop" /\ ~ hasQuit
    /\ ready # <<>> /\ t = Head(ready)

(* fast_schedule() *)
fast_schedule(q, t, first) == IF first THEN <<t>> \o q ELSE Append(q, t)

(* schedule() in the scheduler's own thread *)
schedule(q, t) == IF t \in ToSet(q) THEN q ELSE fast_schedule(q, t, FALSE)

(* BaseTask.start() in the scheduler's own thread, or fast in any other *)
start(q, t, fast) == IF fast THEN fast_schedule(q, t, FALSE) ELSE schedule(q, t)

PutsWithoutPing(item) ==
    /\ incoming' = Append(incoming, item)
    /\ sched' = "loop"
    /\ UNCHANGED ping
(* registerSelect(): the request is queued, then the hub is pinged. *)
registerSelect(item) ==
    /\ incoming' = Append(incoming, item)
    /\ sched' = "ping"
    /\ UNCHANGED ping

registerTimer(t) == registerSelect([task |-> t, timed |-> TRUE])

Ping ==
    /\ sched = "ping"
    /\ ping' = TRUE /\ sched' = "loop"
    /\ UNCHANGED <<ready, hasQuit, hub, tasks, rets, incoming, readable, blocked, wake,
                   cancelled, callVars>>

(* An io task reads its file and yields Select(..., timeout). *)
RunSelect(t, timed) ==
    /\ Takes(t) /\ t \in Io
    /\ ready' = Tail(ready)
    /\ readable' = readable \ {t}
    /\ registerSelect([task |-> t, timed |-> timed])
    /\ UNCHANGED <<hasQuit, hub, tasks, rets, blocked, wake, cancelled, callVars>>

(* ... or wakes a sleeper with schedule() and yields 0, to run again. *)
RunWakes(t, s) ==
    /\ Takes(t) /\ t \in Io /\ s \in Sleepers
    /\ ready' = Append(schedule(Tail(ready), s), t)
    /\ sched' = "loop"
    /\ UNCHANGED <<hasQuit, hubVars, incoming, readable, blocked, wake, cancelled, callVars>>

(* ... or yields Exit(). *)
RunExit(t) ==
    /\ Takes(t) /\ t \in Io
    /\ ready' = Tail(ready)
    /\ hasQuit' = TRUE
    /\ sched' = "loop"
    /\ UNCHANGED <<hubVars, incoming, readable, blocked, wake, cancelled, callVars>>

(* A sleeper yields FALSE. *)
RunSleep(t) ==
    /\ Takes(t) /\ t \in Sleepers
    /\ ready' = Tail(ready)
    /\ sched' = "loop"
    /\ UNCHANGED <<hasQuit, hubVars, incoming, readable, blocked, wake, cancelled, callVars>>

(* A blocker yields CallBlocking, which starts a thread. *)
RunBlocking(t) ==
    /\ Takes(t) /\ t \in Blockers
    /\ ready' = Tail(ready)
    /\ blocked' = blocked \union {t}
    /\ sched' = "loop"
    /\ UNCHANGED <<hasQuit, hubVars, incoming, readable, wake, cancelled, callVars>>

(* Timer.run(): a cancelled timer quits, another one calls its function    *)
(* and sleeps until its next time, which may already be over.              *)
RunTimer(t) ==
    /\ Takes(t) /\ t \in Timers
    /\ IF t \in cancelled
       THEN ready' = Tail(ready) /\ sched' = "loop" /\ UNCHANGED <<incoming, ping>>
       ELSE \/ /\ ready' = Tail(ready)
               /\ registerTimer(t)
            \/ /\ ready' = fast_schedule(Tail(ready), t, FALSE)
               /\ sched' = "loop"
               /\ UNCHANGED <<incoming, ping>>
    /\ UNCHANGED <<hasQuit, hub, tasks, rets, readable, blocked, wake, cancelled, callVars>>

SchedulesAlways(w) ==
    /\ Takes(w) /\ w \in Wakers
    /\ ready' = fast_schedule(Tail(ready), wake[w], TRUE)
    /\ wake' = [wake EXCEPT ![w] = "free"]
    /\ sched' = "loop"
    /\ UNCHANGED <<hasQuit, hubVars, incoming, readable, blocked, cancelled, callVars>>
(* ScheduleTask.run(): schedules its task unless that is ready already. *)
RunScheduleTask(w) ==
    /\ Takes(w) /\ w \in Wakers
    /\ ready' = IF wake[w] \in ToSet(Tail(ready)) THEN Tail(ready)
                ELSE fast_schedule(Tail(ready), wake[w], TRUE)
    /\ wake' = [wake EXCEPT ![w] = "free"]
    /\ sched' = "loop"
    /\ UNCHANGED <<hasQuit, hubVars, incoming, readable, blocked, cancelled, callVars>>

(* CallLaterTask.run(): at first it yields Select at once ... *)
CallerStarts ==
    /\ Takes(Caller) /\ ~ begun
    /\ begun' = TRUE
    /\ ready' = Tail(ready)
    /\ registerSelect([task |-> Caller, timed |-> FALSE])
    /\ UNCHANGED <<hasQuit, hub, tasks, rets, readable, blocked, wake, cancelled,
                   lock, calls, asked, called, callPing>>

(* ... afterwards it empties the pinger and then the queue of calls. *)
RunCaller ==
    /\ Takes(Caller) /\ begun
    /\ ready' = Tail(ready)
    /\ callPing' = FALSE
    /\ sched' = "calls"
    /\ UNCHANGED <<hasQuit, hubVars, incoming, readable, blocked, wake, cancelled,
                   lock, calls, asked, called, begun>>

CallNext ==
    /\ sched = "calls" /\ calls # <<>>
    /\ called' = Append(called, Head(calls)) /\ calls' = Tail(calls)
    /\ UNCHANGED <<ready, hasQuit, sched, hubVars, incoming, readable, blocked, wake,
                   cancelled, lock, asked, callPing, begun>>

CallsDone ==
    /\ sched = "calls" /\ calls = <<>>
    /\ registerSelect([task |-> Caller, timed |-> FALSE])
    /\ UNCHANGED <<ready, hasQuit, hub, tasks, rets, readable, blocked, wake, cancelled,
                   callVars>>

-----------------------------------------------------------------------------
(* SelectHub._threadProc() *)

Hubs == tasks.timed \union tasks.untimed
HubReadable(t) == IF t = Caller THEN callPing ELSE t \in readable
Forget(S) == [timed |-> tasks.timed \ S, untimed |-> tasks.untimed \ S]

(* A task whose time is over, before select() is called or because it     *)
(* returned nothing in that time.                                          *)
HubExpire(t) ==
    /\ hub = "loop" /\ ~ hasQuit /\ t \in tasks.timed
    /\ tasks' = Forget({t})
    /\ ready' = fast_schedule(ready, t, FALSE)
    /\ UNCHANGED <<hasQuit, sched, hub, ping, rets, incoming, readable, blocked, wake, cancelled,
                   callVars>>

HubQuit ==
    /\ hub = "loop" /\ hasQuit
    /\ hub' = "done"
    /\ UNCHANGED <<ready, hasQuit, sched, tasks, ping, rets, incoming, readable, blocked,
                   wake, cancelled, callVars>>

IncomingTasks(timed) ==
    {incoming[i].task : i \in {j \in DOMAIN incoming : incoming[j].timed = timed}}

(* select() returned files: when the pinger is one of them, the requests   *)
(* that came in are added (the assertion that they are new ends the thread *)
(* when it fails); the tasks that select() reported are then returned.     *)
HubFiles ==
    /\ hub = "loop" /\ ~ hasQuit /\ (ping \/ \E t \in Hubs : HubReadable(t))
    /\ rets' = {t \in Hubs : HubReadable(t)}
    /\ IF ping
       THEN /\ ping' = FALSE /\ incoming' = <<>>
            /\ tasks' = [timed |-> tasks.timed \union IncomingTasks(TRUE),
                         untimed |-> tasks.untimed \union IncomingTasks(FALSE)]
            /\ hub' = IF \E i \in DOMAIN incoming : incoming[i].task \in Hubs THEN "dead"
                      ELSE "return"
       ELSE hub' = "return" /\ UNCHANGED <<ping, incoming, tasks>>
    /\ UNCHANGED <<ready, hasQuit, sched, readable, blocked, wake, cancelled,
                   callVars>>

(* del tasks[t]; _return(t, v) *)
HubReturn(t) ==
    /\ hub = "return" /\ t \in rets
    /\ rets' = rets \ {t}
    /\ tasks' = Forget({t})
    /\ ready' = fast_schedule(ready, t, FALSE)
    /\ UNCHANGED <<hasQuit, sched, hub, ping, incoming, readable, blocked, wake, cancelled,
                   callVars>>

HubAgain ==
    /\ hub = "return" /\ rets = {}
    /\ hub' = "loop"
    /\ UNCHANGED <<ready, hasQuit, sched, tasks, ping, rets, incoming, readable, blocked,
                   wake, cancelled, callVars>>

-----------------------------------------------------------------------------
(* Other threads, and files. *)

(* A new ScheduleTask object: any one that is not in use. *)
Unused == {w \in Wakers : wake[w] = "free"}
NewScheduleTask(t) ==
    /\ Unused # {}
    /\ LET w == CHOOSE u \in Unused : TRUE
       IN  /\ wake' = [wake EXCEPT ![w] = t]
           /\ ready' = start(ready, w, TRUE)

(* schedule() from another thread: a ScheduleTask, started with            *)
(* fast_schedule().                                                        *)
Schedule(s) ==
    /\ NewScheduleTask(s)
    /\ UNCHANGED <<hasQuit, sched, hubVars, incoming, readable, blocked, cancelled,
                   callVars>>

(* CallBlocking._proc() ends with fast_schedule(). *)
BlockingDone(t) ==
    /\ t \in blocked
    /\ blocked' = blocked \ {t}
    /\ ready' = fast_schedule(ready, t, FALSE)
    /\ UNCHANGED <<hasQuit, sched, hubVars, incoming, readable, wake, cancelled, callVars>>

Cancel(t) ==
    /\ t \in Timers \ cancelled
    /\ cancelled' = cancelled \union {t}
    /\ UNCHANGED <<ready, hasQuit, sched, hubVars, incoming, readable, blocked, wake,
                   callVars>>

Readable(t) ==
    /\ t \in Io \ readable
    /\ readable' = readable \union {t}
    /\ UNCHANGED <<ready, hasQuit, sched, hubVars, incoming, blocked, wake, cancelled,
                   callVars>>

(* Scheduler.callLater(): the first call starts the task. *)
CallLaterStart ==
    /\ lock = "new" /\ NewScheduleTask(Caller)
    /\ lock' = "append"
    /\ UNCHANGED <<hasQuit, sched, hubVars, incoming, readable, blocked, cancelled,
                   calls, asked, called, callPing, begun>>

(* CallLaterTask.callLater(): the call is queued, then the task is pinged. *)
CallLaterAppend ==
    /\ lock = "append" /\ asked < MaxCalls
    /\ asked' = asked + 1
    /\ calls' = Append(calls, asked + 1)
    /\ lock' = "ping"
    /\ UNCHANGED <<ready, hasQuit, sched, hubVars, incoming, readable, blocked, wake,
                   cancelled, called, callPing, begun>>
CallLaterPing ==
    /\ lock = "ping"
    /\ callPing' = TRUE
    /\ lock' = "append"
    /\ UNCHANGED <<ready, hasQuit, sched, hubVars, incoming, readable, blocked, wake,
                   cancelled, calls, asked, called, begun>>

(* core.callLater() and raiseLater(), in any thread *)
callLater == CallLaterStart \/ CallLaterAppend \/ CallLaterPing

-----------------------------------------------------------------------------
RunTask ==
    \/ \E t \in Io : (\E timed \in BOOLEAN : RunSelect(t, timed)) \/ RunExit(t)
    \/ \E t \in Io, s \in Sleepers : RunWakes(t, s)
    \/ \E t \in Sleepers : RunSleep(t)
    \/ \E t \in Blockers : RunBlocking(t)
    \/ \E t \in Timers : RunTimer(t)
    \/ \E w \in Wakers : RunScheduleTask(w)
    \/ CallerStarts
    \/ RunCaller
SchedulerThread ==
    Finally \/ Ping \/ CallNext \/ CallsDone \/ RunTask
HubThread == HubQuit \/ HubFiles \/ HubAgain \/ \E t \in Tasks : HubReturn(t)
Expires == \E t \in Tasks : HubExpire(t)
OtherThreads ==
    \/ \E s \in Sleepers : Schedule(s)
    \/ \E t \in Blockers : BlockingDone(t)
    \/ \E t \in Timers : Cancel(t)
    \/ \E t \in Io : Readable(t)
    \/ callLater

Next == SchedulerThread \/ HubThread \/ Expires \/ OtherThreads

Spec == Init /\ [][Next]_vars

(* Both threads run (wait() and select() have timeouts), time passes, and  *)
(* a thread in the middle of callLater() finishes it.                      *)
Fairness ==
    /\ WF_vars(SchedulerThread) /\ WF_vars(HubThread)
    /\ \A t \in Io \union Timers : SF_vars(HubExpire(t))
    /\ WF_vars(CallLaterPing)

FairSpec == Spec /\ Fairness

-----------------------------------------------------------------------------
TypeOK ==
    /\ ToSet(ready) \subseteq Tasks \union Wakers
    /\ sched \in {"loop", "ping", "calls", "done"}
    /\ hub \in {"loop", "return", "done", "dead"}
    /\ tasks.timed \intersect tasks.untimed = {} /\ Hubs \subseteq Tasks
    /\ rets \subseteq Hubs /\ readable \subseteq Io /\ blocked \subseteq Blockers
    /\ wake \in [Wakers -> Sleepers \union {Caller, "free"}]

(* The places where task t can be found, and how often. *)
Places(t) ==
    Cardinality({i \in DOMAIN ready : ready[i] = t})
    + Cardinality({i \in DOMAIN incoming : incoming[i].task = t})
    + (IF t \in Hubs THEN 1 ELSE 0) + (IF t \in blocked THEN 1 ELSE 0)

(* No task is ready twice, or ready while the hub or a thread is still to  *)
(* return it, however many threads wake it: the assertions of              *)
(* fast_schedule() and of the hub never fail.                              *)
ScheduledOnce == (\A t \in Tasks \union Wakers : Places(t) <= 1) /\ hub # "dead"

(* Functions are called in the order of callLater(), each once. *)
CalledInOrder == called = [i \in 1 .. Len(called) |-> i]

(* A task is in one place at a time, and the queues of the scheduler, of   *)
(* the hub and of callLater() hold what they are meant to, however the     *)
(* threads interleave.                                                     *)
TasksKept == TypeOK /\ ScheduledOnce /\ CalledInOrder

(* A sleeper that another thread schedules runs. *)
WakeRuns ==
    \A s \in Sleepers : (\E w \in Wakers : wake[w] = s) ~> (s \in ToSet(ready) \/ hasQuit)

(* A task that waits with a timeout runs again. *)
TimeoutRuns ==
    \A t \in Io \union Timers :
        (\E i \in DOMAIN incoming : incoming[i] = [task |-> t, timed |-> TRUE])
            ~> (t \in ToSet(ready) \/ hasQuit)

(* Every function given to callLater() is called, however the append and   *)
(* the ping interleave with the task that empties pinger and queue.        *)
CallsHappen == []<>(asked = Len(called) \/ hasQuit)

(* What the scheduler is asked for is done, unless it quits: a task that a *)
(* thread schedules runs, one whose time is over runs, and a function      *)
(* given to callLater() is called.                                         *)
EventuallyRuns == WakeRuns /\ TimeoutRuns /\ CallsHappen
=============================================================================
