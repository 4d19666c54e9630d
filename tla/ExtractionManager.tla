------------------------- MODULE ExtractionManager -------------------------
(***************************************************************************)
(* The job queue of extractorapp: ExtractionManager, the shared            *)
(* ExecutionMetadata of each job, the FutureTasks of the                   *)
(* PriorityThreadPoolExecutor and the pool threads that run them.          *)
(*                                                                         *)
(* All public methods of ExtractionManager are synchronized, so at most    *)
(* one call is in progress: "call" is that call and its next step.  The    *)
(* pool threads take no part in this lock: they write the state of the     *)
(* metadata (setRunning, setCompleted) between any two steps of a call,    *)
(* which is why the calls that read a state and then act on it are modelled *)
(* as several steps.                                                       *)
(*                                                                         *)
(* A task <<j, n>> is the n-th ExtractionTask object of job j: the first   *)
(* is built by the controller, each later one by the cloning constructor.  *)
(* All share the metadata of the job.  A task is submitted at most once,   *)
(* hence it also names its future.                                         *)
(***************************************************************************)
EXTENDS Integers, FiniteSets

CONSTANTS
    Jobs,        \* extraction requests (their UUIDs)
    MaxClones,   \* bound: task objects per job
    MinThreads   \* core size of the pool; its work queue is unbounded, so no
                 \* thread beyond the core size is ever started

ASSUME ManagerAssumption ==
    /\ MaxClones \in Nat \ {0}
    /\ MinThreads \in Nat \ {0}

VARIABLES
    state,           \* metadata: state of the job ("NONE" before the request)
    priority,        \* metadata: priority of the job
    future,          \* metadata: the task whose future is held, 0 for none
    old,             \* metadata: stateChangeTime is more than "expiry" ago
    created,         \* number of task objects of the job
    ready,           \* readyTaskQueue
    pausedTasks,     \* pausedTasks: job -> number of its task, 0 for none
    cancelledQueue,  \* cancelledTaskQueue
    place,           \* where the executor has the task
    outcome,         \* state of the task's FutureTask
    call             \* the call that holds the manager's lock

metadata == <<state, priority, future, old>>
registry == <<ready, pausedTasks, cancelledQueue>>
vars == <<metadata, created, registry, place, outcome, call>>

Tasks == Jobs \X (1..MaxClones)
Of(j) == {t \in Tasks : t[1] = j}

LOW == 0
MEDIUM == 1
HIGH == 2
ExecutionPriority == LOW..HIGH
ExecutionState == {"WAITING", "RUNNING", "PAUSED", "COMPLETED", "CANCELLED"}

\* "new": not submitted; "queued": in the work queue; "taken": a thread has
\* taken it and has not entered FutureTask.run; "started": FutureTask.run has
\* seen it not cancelled, ExtractionTask.run has not reached setRunning;
\* "running": past setRunning; "delivered": archived and mailed; "crashed": an
\* exception ended it before its try block; "skipped": removed, or run as a
\* no-op, because its future was cancelled.
Places == {"new", "queued", "taken", "started", "running",
           "delivered", "crashed", "skipped"}
OnThread == {"taken", "started", "running"}

Idle == [step |-> "idle"]
Steps == {"reprioritise", "setPaused", "holdPaused",
          "testCancel", "markCancelled", "cancelFuture"}
Doing(s, t, p) == [step |-> s, task |-> t, prio |-> p]

TypeOK ==
    /\ state \in [Jobs -> ExecutionState \cup {"NONE"}]
    /\ priority \in [Jobs -> ExecutionPriority]
    /\ future \in [Jobs -> 0..MaxClones]
    /\ old \in [Jobs -> BOOLEAN]
    /\ created \in [Jobs -> 0..MaxClones]
    /\ ready \in SUBSET Tasks
    /\ pausedTasks \in [Jobs -> 0..MaxClones]
    /\ cancelledQueue \in SUBSET Tasks
    /\ place \in [Tasks -> Places]
    /\ outcome \in [Tasks -> {"new", "done", "cancelled"}]
    /\ call \in {Idle} \cup [step : Steps, task : Tasks, prio : ExecutionPriority]

Init ==
    /\ state = [j \in Jobs |-> "NONE"]
    /\ priority = [j \in Jobs |-> MEDIUM]
    /\ future = [j \in Jobs |-> 0]
    /\ old = [j \in Jobs |-> FALSE]
    /\ created = [j \in Jobs |-> 0]
    /\ ready = {}
    /\ pausedTasks = [j \in Jobs |-> 0]
    /\ cancelledQueue = {}
    /\ place = [t \in Tasks |-> "new"]
    /\ outcome = [t \in Tasks |-> "new"]
    /\ call = Idle

-----------------------------------------------------------------------------
(* ExecutionMetadata *)

SetState(j, s) == /\ state' = [state EXCEPT ![j] = s]
                  /\ old' = [old EXCEPT ![j] = FALSE]

\* Future.cancel(true) on the future the metadata holds: it has an effect only
\* while the future is neither done nor cancelled.
CancelledOutcome(j) ==
    [t \in Tasks |-> IF t = <<j, future[j]>> /\ outcome[t] = "new"
                     THEN "cancelled" ELSE outcome[t]]

\* executor.purge(): the cancelled futures leave the work queue.  (The
\* executor.remove(task) calls remove nothing: the work queue holds the
\* futures, never the tasks.)
PurgedPlace(out) ==
    [t \in Tasks |-> IF place[t] = "queued" /\ out[t] = "cancelled"
                     THEN "skipped" ELSE place[t]]

-----------------------------------------------------------------------------
(* Calls of the manager.  A call of a few memory operations that no thread *)
(* can tell apart is one step.                                             *)

\* doExtraction builds the task and submits it.
Submit(j) ==
    LET t == <<j, 1>> IN
    /\ call = Idle
    /\ created[j] = 0
    /\ created' = [created EXCEPT ![j] = 1]
    /\ SetState(j, "WAITING")
    /\ ready' = ready \cup {t}
    /\ place' = [place EXCEPT ![t] = "queued"]
    /\ future' = [future EXCEPT ![j] = 1]
    /\ UNCHANGED <<priority, pausedTasks, cancelledQueue, outcome, call>>

\* The waiting task of job j, as updatePriority and pauseTask look for it.
FoundWaiting(j) ==
    {t \in ready : /\ t[1] = j
                   /\ state[j] = "WAITING"
                   /\ outcome[<<j, future[j]>>] = "new"}

\* updatePriority: a waiting task will be replaced by a clone.
UpdatePriority(j, p) ==
    /\ call = Idle
    /\ created[j] < MaxClones
    /\ \E t \in FoundWaiting(j) : call' = Doing("reprioritise", t, p)
    /\ UNCHANGED <<metadata, created, registry, place, outcome>>

\* updatePriority: a paused task keeps its place.
UpdatePausedPriority(j, p) ==
    /\ call = Idle
    /\ FoundWaiting(j) = {}
    /\ pausedTasks[j] # 0
    /\ priority' = [priority EXCEPT ![j] = p]
    /\ UNCHANGED <<state, future, old, created, registry, place, outcome, call>>

\* Mutant of Reprioritise: the old future is not cancelled.
ReprioritiseKeepsFuture ==
    LET t == call.task
        j == t[1]
        clone == <<j, created[j] + 1>> IN
    /\ call.step = "reprioritise"
    /\ priority' = [priority EXCEPT ![j] = call.prio]
    /\ created' = [created EXCEPT ![j] = @ + 1]
    /\ place' = [place EXCEPT ![clone] = "queued"]
    /\ ready' = (ready \ {t}) \cup {clone}
    /\ future' = [future EXCEPT ![j] = created[j] + 1]
    /\ call' = Idle
    /\ UNCHANGED <<state, old, pausedTasks, cancelledQueue, outcome>>

\* The rest of updatePriority: the old future is cancelled and purged and the
\* clone submitted.  A heap is not re-ordered by setPriority, so the old entry
\* keeps its rank up to its removal and the new priority counts from here.
Reprioritise ==
    LET t == call.task
        j == t[1]
        clone == <<j, created[j] + 1>> IN
    /\ call.step = "reprioritise"
    /\ priority' = [priority EXCEPT ![j] = call.prio]
    /\ created' = [created EXCEPT ![j] = @ + 1]
    /\ outcome' = CancelledOutcome(j)
    /\ place' = [PurgedPlace(outcome') EXCEPT ![clone] = "queued"]
    /\ ready' = (ready \ {t}) \cup {clone}
    /\ future' = [future EXCEPT ![j] = created[j] + 1]
    /\ call' = Idle
    /\ UNCHANGED <<state, old, pausedTasks, cancelledQueue>>

\* updateStatus(id, PAUSED)
PauseTask(j) ==
    /\ call = Idle
    /\ created[j] < MaxClones
    /\ \E t \in FoundWaiting(j) : call' = Doing("setPaused", t, LOW)
    /\ UNCHANGED <<metadata, created, registry, place, outcome>>

SetPaused ==
    /\ call.step = "setPaused"
    /\ SetState(call.task[1], "PAUSED")
    /\ call' = [call EXCEPT !.step = "holdPaused"]
    /\ UNCHANGED <<priority, future, created, registry, place, outcome>>

\* Mutant of HoldPaused: the old task stays in the ready queue.
HoldPausedKeepsReady ==
    LET j == call.task[1] IN
    /\ call.step = "holdPaused"
    /\ created' = [created EXCEPT ![j] = @ + 1]
    /\ outcome' = CancelledOutcome(j)
    /\ place' = PurgedPlace(outcome')
    /\ pausedTasks' = [pausedTasks EXCEPT ![j] = created[j] + 1]
    /\ call' = Idle
    /\ UNCHANGED <<metadata, ready, cancelledQueue>>

\* The clone waits in pausedTasks, without a future of its own.
HoldPaused ==
    LET t == call.task
        j == t[1] IN
    /\ call.step = "holdPaused"
    /\ created' = [created EXCEPT ![j] = @ + 1]
    /\ outcome' = CancelledOutcome(j)
    /\ place' = PurgedPlace(outcome')
    /\ ready' = ready \ {t}
    /\ pausedTasks' = [pausedTasks EXCEPT ![j] = created[j] + 1]
    /\ call' = Idle
    /\ UNCHANGED <<metadata, cancelledQueue>>

\* updateStatus(id, WAITING)
ResumeTask(j) ==
    LET t == <<j, pausedTasks[j]>> IN
    /\ call = Idle
    /\ pausedTasks[j] # 0
    /\ pausedTasks' = [pausedTasks EXCEPT ![j] = 0]
    /\ SetState(j, "WAITING")
    /\ ready' = ready \cup {t}
    /\ place' = [place EXCEPT ![t] = "queued"]
    /\ future' = [future EXCEPT ![j] = pausedTasks[j]]
    /\ UNCHANGED <<priority, created, cancelledQueue, outcome, call>>

\* findTask: the waiting tasks of the ready queue, then the paused task; the
\* future is not looked at.
FoundRunnable(j) ==
    IF state[j] = "WAITING" /\ ready \cap Of(j) # {}
    THEN ready \cap Of(j)
    ELSE {t \in Of(j) : t[2] = pausedTasks[j]}

\* updateStatus(id, CANCELLED)
CancelTask(j) ==
    /\ call = Idle
    /\ \E t \in FoundRunnable(j) : call' = Doing("testCancel", t, LOW)
    /\ UNCHANGED <<metadata, created, registry, place, outcome>>

\* cancelTask reads the state again: a task that has begun meanwhile is left.
TestCancel ==
    LET t == call.task
        j == t[1] IN
    /\ call.step = "testCancel"
    /\ \/ /\ state[j] = "WAITING"
          /\ ready' = ready \ {t}
          /\ cancelledQueue' = cancelledQueue \cup {t}
          /\ call' = [call EXCEPT !.step = "markCancelled"]
          /\ UNCHANGED pausedTasks
       \/ /\ state[j] = "PAUSED"
          /\ pausedTasks' = [pausedTasks EXCEPT ![j] = 0]
          /\ cancelledQueue' = cancelledQueue \cup {t}
          /\ call' = [call EXCEPT !.step = "markCancelled"]
          /\ UNCHANGED ready
       \/ /\ state[j] \notin {"WAITING", "PAUSED"}
          /\ call' = Idle
          /\ UNCHANGED registry
    /\ UNCHANGED <<metadata, created, place, outcome>>

\* metadata.cancel() leaves stateChangeTime as it was.
MarkCancelled ==
    /\ call.step = "markCancelled"
    /\ state' = [state EXCEPT ![call.task[1]] = "CANCELLED"]
    /\ call' = [call EXCEPT !.step = "cancelFuture"]
    /\ UNCHANGED <<priority, future, old, created, registry, place, outcome>>

\* Mutant of CancelFuture: the future is left alone.
CancelFutureLeft ==
    /\ call.step = "cancelFuture"
    /\ call' = Idle
    /\ UNCHANGED <<metadata, created, registry, place, outcome>>

\* cancelProcess does not purge: the future stays queued until a thread skips it.
CancelFuture ==
    /\ call.step = "cancelFuture"
    /\ outcome' = CancelledOutcome(call.task[1])
    /\ call' = Idle
    /\ UNCHANGED <<metadata, created, registry, place>>

\* The sweep of ExpiredArchiveDaemon: both comparisons keep what is older than
\* the expiry and remove what is not.
CleanExpiredTasks ==
    /\ call = Idle
    /\ ready' = {t \in ready : state[t[1]] # "COMPLETED" \/ old[t[1]]}
    /\ cancelledQueue' = {t \in cancelledQueue : old[t[1]]}
    /\ UNCHANGED <<metadata, created, pausedTasks, place, outcome, call>>

\* Time passes: the last change of state of job j is now "expiry" ago.  The age
\* is read in these two states only, and a job cancelled when its age was past
\* the expiry already is one that reaches it right after.
Age(j) ==
    /\ state[j] \in {"COMPLETED", "CANCELLED"}
    /\ ~old[j]
    /\ old' = [old EXCEPT ![j] = TRUE]
    /\ UNCHANGED <<state, priority, future, created, registry, place, outcome, call>>

-----------------------------------------------------------------------------
(* The pool threads *)

\* Mutant of FreeThread: a task that crashes takes its thread with it.
ThreadsLeak ==
    Cardinality({t \in Tasks : place[t] \in OnThread \cup {"crashed"}}) < MinThreads

FreeThread == Cardinality({t \in Tasks : place[t] \in OnThread}) < MinThreads

\* A free thread takes a future of the highest priority.
Take(t) ==
    /\ place[t] = "queued"
    /\ FreeThread
    /\ \A u \in Tasks : place[u] = "queued" => priority[u[1]] <= priority[t[1]]
    /\ place' = [place EXCEPT ![t] = "taken"]
    /\ UNCHANGED <<metadata, created, registry, outcome, call>>

\* FutureTask.run
Start(t) ==
    /\ place[t] = "taken"
    /\ place' = [place EXCEPT ![t] = IF outcome[t] = "new" THEN "started"
                                                          ELSE "skipped"]
    /\ UNCHANGED <<metadata, created, registry, outcome, call>>

\* The first statement of ExtractionTask.run: it looks at nothing.
SetRunning(t) ==
    /\ place[t] = "started"
    /\ place' = [place EXCEPT ![t] = "running"]
    /\ SetState(t[1], "RUNNING")
    /\ UNCHANGED <<priority, future, created, registry, outcome, call>>

DoneOutcome(t) == [outcome EXCEPT ![t] = IF @ = "new" THEN "done" ELSE @]

\* The body of ExtractionTask.run to the end of its finally block.
SetCompleted(t) ==
    /\ place[t] = "running"
    /\ place' = [place EXCEPT ![t] = "delivered"]
    /\ SetState(t[1], "COMPLETED")
    /\ outcome' = DoneOutcome(t)
    /\ UNCHANGED <<priority, future, created, registry, call>>

\* statSetRunning or a temporary directory fails before the try block: the
\* state is never set again.
Crash(t) ==
    /\ place[t] = "running"
    /\ place' = [place EXCEPT ![t] = "crashed"]
    /\ outcome' = DoneOutcome(t)
    /\ UNCHANGED <<metadata, created, registry, call>>

-----------------------------------------------------------------------------
CallStep == Reprioritise \/ SetPaused \/ HoldPaused
            \/ TestCancel \/ MarkCancelled \/ CancelFuture

Request(j) ==
    \/ Submit(j) \/ PauseTask(j) \/ ResumeTask(j) \/ CancelTask(j)
    \/ \E p \in ExecutionPriority : UpdatePriority(j, p) \/ UpdatePausedPriority(j, p)

Execute(t) == Start(t) \/ SetRunning(t) \/ SetCompleted(t) \/ Crash(t)

Next ==
    \/ CallStep
    \/ CleanExpiredTasks
    \/ \E j \in Jobs : Request(j) \/ Age(j)
    \/ \E t \in Tasks : Take(t) \/ Execute(t)

Spec == Init /\ [][Next]_vars

\* A call that holds the lock goes on, an idle thread takes work as long as
\* there is some, a task on a thread goes on.  Nothing makes an administrator
\* or the sweep act.
Fairness ==
    /\ WF_vars(CallStep)
    /\ WF_vars(\E t \in Tasks : Take(t))
    /\ \A t \in Tasks : WF_vars(Execute(t))

FairSpec == Spec /\ Fairness

-----------------------------------------------------------------------------
(* Properties *)

\* A task that can still begin: submitted, its future not cancelled, no thread
\* past the check of FutureTask.run.
Startable(t) == place[t] \in {"queued", "taken"} /\ outcome[t] = "new"

\* The call in progress has moved the job to cancelledQueue and has still to
\* cancel its future.
Cancelling(j) == /\ call.step \in {"markCancelled", "cancelFuture"}
                 /\ call.task[1] = j

\* A job is in at most one of the three registries, under one task: pause,
\* resume, cancellation, change of priority and sweep, in any order, never
\* leave two entries for administrators (getTaskQueue would list the job twice).
OneRegistryEntry ==
    \A j \in Jobs :
        /\ \A t, u \in (ready \cup cancelledQueue) \cap Of(j) : t = u
        /\ pausedTasks[j] # 0 => (ready \cup cancelledQueue) \cap Of(j) = {}
        /\ ready \cap cancelledQueue \cap Of(j) = {}

\* At most one task of a job can still begin: pausing, resuming and clones
\* never leave two live futures of one job in the executor.
OneStartable ==
    \A t, u \in Tasks : t[1] = u[1] /\ Startable(t) /\ Startable(u) => t = u

\* Once a pause or a cancellation is over, nothing of the job can begin before
\* a resume: every future of the job that a thread may still take is cancelled.
WithdrawnCannotBegin ==
    \A t \in Tasks :
        \/ pausedTasks[t[1]] # 0
        \/ cancelledQueue \cap Of(t[1]) # {} /\ ~Cancelling(t[1])
        => ~Startable(t)

\* A job listed as waiting is not lost: the task listed for it is the one whose
\* future the metadata holds, and the executor has it and has not begun it.
WaitingIsQueued ==
    \A t \in ready :
        state[t[1]] = "WAITING" => /\ future[t[1]] = t[2]
                                  /\ outcome[t] = "new"
                                  /\ place[t] \in {"queued", "taken", "started"}

\* Every task given to the executor leaves it: it is delivered, crashes or is
\* skipped because it was withdrawn.
EveryTaskLeaves ==
    \A t \in Tasks : place[t] = "queued" ~> place[t] \in {"delivered", "crashed", "skipped"}

\* A job that is never paused or cancelled begins: waiting leads to another state.
WaitingEnds == \A j \in Jobs : state[j] = "WAITING" ~> state[j] # "WAITING"

\* The promise of the manager, on its own state: the ticket of a job.
Registered(j) == pausedTasks[j] # 0 \/ ready \cap Of(j) # {}
TicketOf(j) ==
    CASE created[j] = 0 -> "none"
      [] created[j] # 0 /\ pausedTasks[j] # 0 -> "withheld"
      [] created[j] # 0 /\ pausedTasks[j] = 0 /\ (\E t \in Of(j) : Startable(t)) -> "live"
      [] OTHER -> IF Registered(j) THEN "spent" ELSE "gone"

Tickets == INSTANCE JobTickets WITH
    ticket <- [j \in Jobs |-> TicketOf(j)],
    issued <- [j \in Jobs |-> Cardinality({t \in Of(j) : place[t] # "new"})],
    begun <- [j \in Jobs |->
        Cardinality({t \in Of(j) :
                     place[t] \in {"started", "running", "delivered", "crashed"}})]

\* The manager implements JobTickets: the begins of a job never outnumber its
\* submissions, a withheld ticket is never spent, a withdrawn job stays so.
TicketsSpec == Tickets!Spec

\* ExtractionManager.cancelTask says a waiting or paused task can be cancelled:
\* no task of a job accepted for cancellation is delivered afterwards.
CancelledIsNotDelivered ==
    [][\A t \in Tasks :
        cancelledQueue \cap Of(t[1]) # {} /\ ~Cancelling(t[1])
        => ~(place[t] # "delivered" /\ place'[t] = "delivered")]_vars

-----------------------------------------------------------------------------
(* The inductive invariant behind the safety invariants above *)

\* Nothing is known anywhere of a task that has not been created.
Uncreated ==
    /\ \A t \in Tasks : t[2] > created[t[1]] =>
           /\ place[t] = "new" /\ outcome[t] = "new"
           /\ t \notin ready /\ t \notin cancelledQueue
    /\ \A j \in Jobs : pausedTasks[j] <= created[j] /\ future[j] <= created[j]

\* The metadata of a job holds the future of its ready task, and no other
\* future of the job can begin.
FutureHeld ==
    /\ \A t \in ready : future[t[1]] = t[2]
    /\ \A t \in Tasks : Startable(t) => future[t[1]] = t[2]

\* A paused task has no future yet, and its job is not marked waiting.
PausedIsFresh ==
    \A t \in Tasks : pausedTasks[t[1]] = t[2] =>
        place[t] = "new" /\ outcome[t] = "new" /\ state[t[1]] # "WAITING"

\* What the call in progress knows of its task.
CallKnows ==
    /\ call.step \in {"reprioritise", "setPaused", "holdPaused"} =>
           call.task \in ready /\ created[call.task[1]] < MaxClones
    /\ call.step = "holdPaused" => state[call.task[1]] # "WAITING"
    /\ call.step = "testCancel" =>
           call.task \in ready \/ pausedTasks[call.task[1]] = call.task[2]
    /\ call.step \in {"markCancelled", "cancelFuture"} => call.task \in cancelledQueue
    /\ \A t \in ready : state[t[1]] = "PAUSED" =>
           call.step = "holdPaused" /\ call.task[1] = t[1]

\* The inductive invariant: type correctness, the facts above and the safety
\* invariants that ExtractionManager_proofs derives from it.
IInv ==
    /\ TypeOK
    /\ Uncreated
    /\ OneRegistryEntry
    /\ FutureHeld
    /\ PausedIsFresh
    /\ CallKnows
    /\ WithdrawnCannotBegin
    /\ WaitingIsQueued
=============================================================================
