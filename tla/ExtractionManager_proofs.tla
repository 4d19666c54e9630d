---------------------- MODULE ExtractionManager_proofs ----------------------
(***************************************************************************)
(* Proofs about ExtractionManager, for any set of jobs, any bound on the   *)
(* task objects and any size of the pool: type correctness, and the safety *)
(* invariants on the registries and the executor.                          *)
(*                                                                         *)
(* The safety invariants are not inductive one by one: that a paused job   *)
(* cannot begin rests on what the metadata knows of its future, and what a *)
(* call in progress does to a registry rests on what it found there.  IInv *)
(* is their conjunction with these facts; each lemma below shows that one  *)
(* action preserves it, conjunct by conjunct.                              *)
(*                                                                         *)
(* The second part proves that the manager implements JobTickets.          *)
(***************************************************************************)
EXTENDS ExtractionManager, FiniteSetTheorems, TLAPS

\* What is needed of pairs: a task is its job and its number.
LEMMA TaskPairs ==
    /\ \A t \in Tasks : t[1] \in Jobs /\ t[2] \in 1..MaxClones /\ t = <<t[1], t[2]>>
    /\ \A j \in Jobs, n \in 1..MaxClones :
           <<j, n>> \in Tasks /\ <<j, n>>[1] = j /\ <<j, n>>[2] = n
    /\ \A t, u \in Tasks : t[1] = u[1] /\ t[2] = u[2] => t = u
BY DEF Tasks

\* Before any request the registries are empty and nothing is known of any task.
LEMMA InitInv == Init => IInv
BY ManagerAssumption, TaskPairs
DEF Init, IInv, TypeOK, Uncreated, OneRegistryEntry, FutureHeld, PausedIsFresh,
    CallKnows, WithdrawnCannotBegin, WaitingIsQueued, Startable, Of, Idle,
    ExecutionPriority, ExecutionState, LOW, MEDIUM, HIGH, Places

\* A call in progress is about a task, and stays a call when it goes on.
LEMMA CallInProgress ==
    ASSUME TypeOK, call # Idle
    PROVE  /\ call.task \in Tasks
           /\ call.task[1] \in Jobs
           /\ call.prio \in ExecutionPriority
           /\ \A s \in Steps : [call EXCEPT !.step = s] \in
                 [step : Steps, task : Tasks, prio : ExecutionPriority]
<1>1. call \in [step : Steps, task : Tasks, prio : ExecutionPriority]
  BY DEF TypeOK
<1>2. call.task \in Tasks /\ call.prio \in ExecutionPriority
  BY <1>1
<1>3. ASSUME NEW s \in Steps
      PROVE  [call EXCEPT !.step = s] \in
                 [step : Steps, task : Tasks, prio : ExecutionPriority]
  BY <1>1, <1>3
<1> QED
  BY <1>2, <1>3, TaskPairs

-----------------------------------------------------------------------------
\* submit: a first task, of which nothing is known before.
LEMMA SubmitStep ==
    ASSUME IInv, NEW j \in Jobs, Submit(j)
    PROVE  IInv'
<1> USE ManagerAssumption, TaskPairs DEF IInv
<1>1. TypeOK'
  BY DEF Submit, TypeOK, SetState, ExecutionState, Places
<1>2. Uncreated'
  BY DEF Submit, Uncreated, TypeOK
<1>3. OneRegistryEntry'
  BY DEF Submit, OneRegistryEntry, TypeOK, Of, Uncreated
<1>4. FutureHeld'
  BY DEF Submit, FutureHeld, TypeOK, Startable, Uncreated
<1>5. PausedIsFresh'
  BY DEF Submit, PausedIsFresh, SetState, Uncreated
<1>6. CallKnows'
  BY DEF Submit, CallKnows, TypeOK, Idle, SetState
<1>7. WithdrawnCannotBegin'
  BY DEF Submit, WithdrawnCannotBegin, TypeOK, Startable, Cancelling, Of, Uncreated
<1>8. WaitingIsQueued'
  BY DEF Submit, WaitingIsQueued, TypeOK, SetState, Uncreated
<1> QED
  BY <1>1, <1>2, <1>3, <1>4, <1>5, <1>6, <1>7, <1>8

\* updatePriority finds a waiting task: the call knows it is ready.
LEMMA UpdatePriorityStep ==
    ASSUME IInv, NEW j \in Jobs, NEW p \in ExecutionPriority, UpdatePriority(j, p)
    PROVE  IInv'
<1> USE ManagerAssumption, TaskPairs DEF IInv
<1>1. TypeOK'
  BY DEF UpdatePriority, TypeOK, FoundWaiting, Doing, Steps, metadata, registry
<1>2. CallKnows'
  BY DEF UpdatePriority, CallKnows, Idle, FoundWaiting, Doing, metadata, registry
<1>3. WithdrawnCannotBegin'
  BY DEF UpdatePriority, WithdrawnCannotBegin, Startable, Cancelling, Idle, registry
<1>4. /\ Uncreated'
      /\ OneRegistryEntry'
      /\ FutureHeld'
      /\ PausedIsFresh'
      /\ WaitingIsQueued'
  BY DEF UpdatePriority, Uncreated, OneRegistryEntry, FutureHeld, PausedIsFresh,
         WaitingIsQueued, Startable, metadata, registry
<1> QED
  BY <1>1, <1>2, <1>3, <1>4

\* updatePriority of a paused task writes its priority only.
LEMMA UpdatePausedPriorityStep ==
    ASSUME IInv, NEW j \in Jobs, NEW p \in ExecutionPriority, UpdatePausedPriority(j, p)
    PROVE  IInv'
<1> USE ManagerAssumption, TaskPairs DEF IInv
<1>1. TypeOK'
  BY DEF UpdatePausedPriority, TypeOK, registry
<1>2. /\ Uncreated'
      /\ OneRegistryEntry'
      /\ FutureHeld'
      /\ PausedIsFresh'
      /\ CallKnows'
      /\ WithdrawnCannotBegin'
      /\ WaitingIsQueued'
  BY DEF UpdatePausedPriority, Uncreated, OneRegistryEntry, FutureHeld, PausedIsFresh,
         CallKnows, WithdrawnCannotBegin, WaitingIsQueued, Startable, Cancelling,
         registry
<1> QED
  BY <1>1, <1>2

\* The clone of updatePriority is the one task of its job that can begin.
LEMMA ReprioritiseStep ==
    ASSUME IInv, Reprioritise
    PROVE  IInv'
<1> USE ManagerAssumption, TaskPairs DEF IInv
<1>1. TypeOK'
  BY DEF Reprioritise, TypeOK, Idle, CancelledOutcome, PurgedPlace, Places, CallKnows
<1>2. Uncreated'
  BY DEF Reprioritise, Uncreated, TypeOK, CancelledOutcome, PurgedPlace
<1>3. OneRegistryEntry'
  BY DEF Reprioritise, OneRegistryEntry, TypeOK, Of, CallKnows
<1>4. FutureHeld'
  BY DEF Reprioritise, FutureHeld, TypeOK, Startable, CancelledOutcome, PurgedPlace,
         CallKnows
<1>5. PausedIsFresh'
  <2> SUFFICES ASSUME NEW t \in Tasks, pausedTasks'[t[1]] = t[2]
               PROVE  place'[t] = "new" /\ outcome'[t] = "new" /\ state'[t[1]] # "WAITING"
    BY DEF PausedIsFresh
  <2>1. call.task \in Tasks /\ call.task \in ready
    BY DEF Reprioritise, CallKnows, TypeOK
  <2>2. pausedTasks[t[1]] = t[2] /\ t[2] # 0
    BY DEF Reprioritise
  <2>3. t[1] # call.task[1]
    BY <2>1, <2>2 DEF OneRegistryEntry, Of
  <2>4. place[t] = "new" /\ outcome[t] = "new" /\ state[t[1]] # "WAITING"
    BY <2>2 DEF PausedIsFresh
  <2>5. outcome'[t] = "new"
    BY <2>3, <2>4, <2>1 DEF Reprioritise, CancelledOutcome, TypeOK
  <2>6. place'[t] = "new"
    BY <2>3, <2>4 DEF Reprioritise, PurgedPlace, TypeOK
  <2> QED
    BY <2>4, <2>5, <2>6 DEF Reprioritise
<1>6. CallKnows'
  BY DEF Reprioritise, CallKnows, Idle
<1>7. WithdrawnCannotBegin'
  BY DEF Reprioritise, WithdrawnCannotBegin, TypeOK, Startable, Cancelling,
         CancelledOutcome, PurgedPlace, Of, OneRegistryEntry, CallKnows
<1>8. WaitingIsQueued'
  BY DEF Reprioritise, WaitingIsQueued, TypeOK, CancelledOutcome, PurgedPlace,
         Uncreated, CallKnows
<1> QED
  BY <1>1, <1>2, <1>3, <1>4, <1>5, <1>6, <1>7, <1>8

\* updateStatus(PAUSED) finds a waiting task.
LEMMA PauseTaskStep ==
    ASSUME IInv, NEW j \in Jobs, PauseTask(j)
    PROVE  IInv'
<1> USE ManagerAssumption, TaskPairs DEF IInv
<1>1. TypeOK'
  BY DEF PauseTask, TypeOK, FoundWaiting, Doing, ExecutionPriority, Steps, LOW, HIGH,
         metadata, registry
<1>2. CallKnows'
  BY DEF PauseTask, CallKnows, Idle, FoundWaiting, Doing, metadata, registry
<1>3. WithdrawnCannotBegin'
  BY DEF PauseTask, WithdrawnCannotBegin, Startable, Cancelling, Idle, registry
<1>4. /\ Uncreated'
      /\ OneRegistryEntry'
      /\ FutureHeld'
      /\ PausedIsFresh'
      /\ WaitingIsQueued'
  BY DEF PauseTask, Uncreated, OneRegistryEntry, FutureHeld, PausedIsFresh,
         WaitingIsQueued, Startable, metadata, registry
<1> QED
  BY <1>1, <1>2, <1>3, <1>4

\* setPaused: the task is still ready, its state no longer says so.
LEMMA SetPausedStep ==
    ASSUME IInv, SetPaused
    PROVE  IInv'
<1> USE ManagerAssumption, TaskPairs DEF IInv
<1>1. TypeOK'
  <2>1. call # Idle
    BY DEF SetPaused, Idle
  <2>2. /\ state' \in [Jobs -> ExecutionState \cup {"NONE"}]
        /\ old' \in [Jobs -> BOOLEAN]
    BY <2>1, CallInProgress DEF SetPaused, SetState, TypeOK, ExecutionState
  <2>3. call' \in {Idle} \cup [step : Steps, task : Tasks, prio : ExecutionPriority]
    BY <2>1, CallInProgress DEF SetPaused, Steps
  <2> QED
    BY <2>2, <2>3 DEF SetPaused, TypeOK, registry
<1>2. PausedIsFresh'
  BY DEF SetPaused, PausedIsFresh, SetState, registry
<1>3. CallKnows'
  BY DEF SetPaused, CallKnows, TypeOK, SetState, registry
<1>4. WithdrawnCannotBegin'
  BY DEF SetPaused, WithdrawnCannotBegin, Startable, Cancelling, registry
<1>5. WaitingIsQueued'
  BY DEF SetPaused, WaitingIsQueued, SetState, registry
<1>6. /\ Uncreated'
      /\ OneRegistryEntry'
      /\ FutureHeld'
  BY DEF SetPaused, Uncreated, OneRegistryEntry, FutureHeld, Startable, registry
<1> QED
  BY <1>1, <1>2, <1>3, <1>4, <1>5, <1>6

\* The clone of pauseTask has no future; the old one cannot begin.
LEMMA HoldPausedStep ==
    ASSUME IInv, HoldPaused
    PROVE  IInv'
<1> USE ManagerAssumption, TaskPairs DEF IInv
<1>1. TypeOK'
  BY DEF HoldPaused, TypeOK, CancelledOutcome, PurgedPlace, Places, metadata,
         CallKnows
<1>2. Uncreated'
  BY DEF HoldPaused, Uncreated, TypeOK, CancelledOutcome, PurgedPlace, metadata
<1>3. OneRegistryEntry'
  BY DEF HoldPaused, OneRegistryEntry, TypeOK, Of, CallKnows
<1>4. FutureHeld'
  BY DEF HoldPaused, FutureHeld, Startable, CancelledOutcome, PurgedPlace, metadata
<1>5. PausedIsFresh'
  BY DEF HoldPaused, PausedIsFresh, TypeOK, CancelledOutcome, PurgedPlace, metadata,
         Uncreated, CallKnows
<1>6. CallKnows'
  BY DEF HoldPaused, CallKnows, TypeOK, Idle, metadata, FutureHeld
<1>7. WithdrawnCannotBegin'
  BY DEF HoldPaused, WithdrawnCannotBegin, Startable, Cancelling, CancelledOutcome,
         PurgedPlace, FutureHeld
<1>8. WaitingIsQueued'
  BY DEF HoldPaused, WaitingIsQueued, TypeOK, CancelledOutcome, PurgedPlace, metadata,
         CallKnows
<1> QED
  BY <1>1, <1>2, <1>3, <1>4, <1>5, <1>6, <1>7, <1>8

\* resumeTask: the paused clone is submitted for the first time.
LEMMA ResumeTaskStep ==
    ASSUME IInv, NEW j \in Jobs, ResumeTask(j)
    PROVE  IInv'
<1> USE ManagerAssumption, TaskPairs DEF IInv
<1>1. TypeOK'
  BY DEF ResumeTask, TypeOK, SetState, ExecutionState, Places
<1>2. Uncreated'
  BY DEF ResumeTask, Uncreated, TypeOK
<1>3. OneRegistryEntry'
  BY DEF ResumeTask, OneRegistryEntry, TypeOK, Of
<1>4. FutureHeld'
  BY DEF ResumeTask, TypeOK, FutureHeld, OneRegistryEntry, WithdrawnCannotBegin,
         Startable, Of
<1>5. PausedIsFresh'
  BY DEF ResumeTask, PausedIsFresh, TypeOK, SetState
<1>6. CallKnows'
  BY DEF ResumeTask, CallKnows, TypeOK, Idle, SetState
<1>7. WithdrawnCannotBegin'
  BY DEF ResumeTask, WithdrawnCannotBegin, TypeOK, Startable, Cancelling,
         OneRegistryEntry
<1>8. WaitingIsQueued'
  BY DEF ResumeTask, TypeOK, WaitingIsQueued, OneRegistryEntry, PausedIsFresh,
         SetState, Of
<1> QED
  BY <1>1, <1>2, <1>3, <1>4, <1>5, <1>6, <1>7, <1>8

\* updateStatus(CANCELLED) finds a waiting or a paused task.
LEMMA CancelTaskStep ==
    ASSUME IInv, NEW j \in Jobs, CancelTask(j)
    PROVE  IInv'
<1> USE ManagerAssumption, TaskPairs DEF IInv
<1>1. TypeOK'
  BY DEF CancelTask, TypeOK, Of, FoundRunnable, Doing, ExecutionPriority, Steps, LOW,
         HIGH, metadata, registry
<1>2. CallKnows'
  BY DEF CancelTask, CallKnows, Idle, Of, FoundRunnable, Doing, metadata, registry
<1>3. WithdrawnCannotBegin'
  BY DEF CancelTask, WithdrawnCannotBegin, Startable, Cancelling, Idle, registry
<1>4. /\ Uncreated'
      /\ OneRegistryEntry'
      /\ FutureHeld'
      /\ PausedIsFresh'
      /\ WaitingIsQueued'
  BY DEF CancelTask, Uncreated, OneRegistryEntry, FutureHeld, PausedIsFresh,
         WaitingIsQueued, Startable, metadata, registry
<1> QED
  BY <1>1, <1>2, <1>3, <1>4

\* cancelTask moves the task between registries according to its state.
LEMMA TestCancelStep ==
    ASSUME IInv, TestCancel
    PROVE  IInv'
<1> USE ManagerAssumption, TaskPairs DEF IInv
<1>1. TypeOK'
  <2>1. call # Idle
    BY DEF TestCancel, Idle
  <2>2. call.task \in Tasks /\ call.task[1] \in Jobs
    BY <2>1, CallInProgress
  <2>3. /\ ready' \in SUBSET Tasks
        /\ pausedTasks' \in [Jobs -> 0..MaxClones]
        /\ cancelledQueue' \in SUBSET Tasks
    BY <2>2 DEF TestCancel, TypeOK, registry
  <2>4. call' \in {Idle} \cup [step : Steps, task : Tasks, prio : ExecutionPriority]
    BY <2>1, CallInProgress DEF TestCancel, Steps
  <2> QED
    BY <2>3, <2>4 DEF TestCancel, TypeOK, metadata
<1>2. Uncreated'
  BY DEF TestCancel, Uncreated, TypeOK, metadata, registry, CallKnows
<1>3. OneRegistryEntry'
  BY DEF TestCancel, OneRegistryEntry, TypeOK, Of, registry, PausedIsFresh, CallKnows
<1>4. FutureHeld'
  BY DEF TestCancel, FutureHeld, Startable, metadata, registry
<1>5. PausedIsFresh'
  BY DEF TestCancel, PausedIsFresh, TypeOK, metadata, registry
<1>6. CallKnows'
  BY DEF TestCancel, CallKnows, TypeOK, Idle, metadata, registry
<1>7. WithdrawnCannotBegin'
  BY DEF TestCancel, WithdrawnCannotBegin, TypeOK, Startable, Cancelling, Idle, Of,
         registry
<1>8. WaitingIsQueued'
  BY DEF TestCancel, WaitingIsQueued, metadata, registry
<1> QED
  BY <1>1, <1>2, <1>3, <1>4, <1>5, <1>6, <1>7, <1>8

\* metadata.cancel.
LEMMA MarkCancelledStep ==
    ASSUME IInv, MarkCancelled
    PROVE  IInv'
<1> USE ManagerAssumption, TaskPairs DEF IInv
<1>1. TypeOK'
  BY DEF MarkCancelled, TypeOK, Idle, ExecutionState, Steps, registry
<1>2. PausedIsFresh'
  BY DEF MarkCancelled, PausedIsFresh, registry
<1>3. CallKnows'
  BY DEF MarkCancelled, CallKnows, registry
<1>4. WithdrawnCannotBegin'
  BY DEF MarkCancelled, WithdrawnCannotBegin, Startable, Cancelling, registry
<1>5. WaitingIsQueued'
  BY DEF MarkCancelled, WaitingIsQueued, registry
<1>6. /\ Uncreated'
      /\ OneRegistryEntry'
      /\ FutureHeld'
  BY DEF MarkCancelled, Uncreated, OneRegistryEntry, FutureHeld, Startable, registry
<1> QED
  BY <1>1, <1>2, <1>3, <1>4, <1>5, <1>6

\* cancelProcess: from here nothing of the job can begin.
LEMMA CancelFutureStep ==
    ASSUME IInv, CancelFuture
    PROVE  IInv'
<1> USE ManagerAssumption, TaskPairs DEF IInv
<1>1. TypeOK'
  BY DEF CancelFuture, TypeOK, CancelledOutcome, metadata, registry
<1>2. Uncreated'
  BY DEF CancelFuture, Uncreated, TypeOK, CancelledOutcome, metadata, registry
<1>3. FutureHeld'
  BY DEF CancelFuture, FutureHeld, Startable, CancelledOutcome, metadata, registry
<1>4. PausedIsFresh'
  BY DEF CancelFuture, TypeOK, PausedIsFresh, OneRegistryEntry, CallKnows,
         CancelledOutcome, Of, metadata, registry
<1>5. CallKnows'
  BY DEF CancelFuture, CallKnows, Idle, metadata, registry
<1>6. WithdrawnCannotBegin'
  BY DEF CancelFuture, WithdrawnCannotBegin, Startable, Cancelling, CancelledOutcome,
         metadata, registry, FutureHeld
<1>7. WaitingIsQueued'
  BY DEF CancelFuture, TypeOK, WaitingIsQueued, OneRegistryEntry, CallKnows,
         CancelledOutcome, Of, metadata, registry
<1>8. OneRegistryEntry'
  BY DEF CancelFuture, OneRegistryEntry, registry
<1> QED
  BY <1>1, <1>2, <1>3, <1>4, <1>5, <1>6, <1>7, <1>8

\* The sweep only removes entries.
LEMMA CleanExpiredTasksStep ==
    ASSUME IInv, CleanExpiredTasks
    PROVE  IInv'
<1> USE ManagerAssumption, TaskPairs DEF IInv
<1>1. TypeOK'
  BY DEF CleanExpiredTasks, TypeOK, metadata
<1>2. Uncreated'
  BY DEF CleanExpiredTasks, Uncreated, metadata
<1>3. OneRegistryEntry'
  BY DEF CleanExpiredTasks, OneRegistryEntry
<1>4. FutureHeld'
  BY DEF CleanExpiredTasks, FutureHeld, Startable, metadata
<1>5. CallKnows'
  BY DEF CleanExpiredTasks, CallKnows, Idle, metadata
<1>6. WithdrawnCannotBegin'
  BY DEF CleanExpiredTasks, WithdrawnCannotBegin, Startable, Cancelling
<1>7. WaitingIsQueued'
  BY DEF CleanExpiredTasks, WaitingIsQueued, metadata
<1>8. PausedIsFresh'
  BY DEF CleanExpiredTasks, PausedIsFresh, metadata
<1> QED
  BY <1>1, <1>2, <1>3, <1>4, <1>5, <1>6, <1>7, <1>8

\* Time passes: no registry is concerned.
LEMMA AgeStep ==
    ASSUME IInv, NEW j \in Jobs, Age(j)
    PROVE  IInv'
<1> USE ManagerAssumption, TaskPairs DEF IInv
<1>1. TypeOK'
  BY DEF Age, TypeOK, registry
<1>2. /\ Uncreated'
      /\ OneRegistryEntry'
      /\ FutureHeld'
      /\ PausedIsFresh'
      /\ CallKnows'
      /\ WithdrawnCannotBegin'
      /\ WaitingIsQueued'
  BY DEF Age, Uncreated, OneRegistryEntry, FutureHeld, PausedIsFresh, CallKnows,
         WithdrawnCannotBegin, WaitingIsQueued, Startable, Cancelling, registry
<1> QED
  BY <1>1, <1>2

\* A thread takes a queued future, which can still begin.
LEMMA TakeStep ==
    ASSUME IInv, NEW t \in Tasks, Take(t)
    PROVE  IInv'
<1> USE ManagerAssumption, TaskPairs DEF IInv
<1>1. TypeOK'
  BY DEF Take, TypeOK, Places, metadata, registry
<1>2. Uncreated'
  BY DEF Take, Uncreated, metadata, registry
<1>3. FutureHeld'
  BY DEF Take, FutureHeld, Startable, metadata, registry
<1>4. PausedIsFresh'
  BY DEF Take, PausedIsFresh, metadata, registry
<1>5. WithdrawnCannotBegin'
  BY DEF Take, WithdrawnCannotBegin, Startable, Cancelling, registry
<1>6. WaitingIsQueued'
  BY DEF Take, WaitingIsQueued, metadata, registry
<1>7. /\ OneRegistryEntry'
      /\ CallKnows'
  BY DEF Take, OneRegistryEntry, CallKnows, metadata, registry
<1> QED
  BY <1>1, <1>2, <1>3, <1>4, <1>5, <1>6, <1>7

\* FutureTask.run: a cancelled future is skipped, another one cannot begin again.
LEMMA StartStep ==
    ASSUME IInv, NEW t \in Tasks, Start(t)
    PROVE  IInv'
<1> USE ManagerAssumption, TaskPairs DEF IInv
<1>1. TypeOK'
  BY DEF Start, TypeOK, Places, metadata, registry
<1>2. Uncreated'
  BY DEF Start, Uncreated, metadata, registry
<1>3. FutureHeld'
  BY DEF Start, FutureHeld, Startable, metadata, registry
<1>4. PausedIsFresh'
  BY DEF Start, PausedIsFresh, metadata, registry
<1>5. WithdrawnCannotBegin'
  BY DEF Start, WithdrawnCannotBegin, Startable, Cancelling, registry
<1>6. WaitingIsQueued'
  BY DEF Start, WaitingIsQueued, metadata, registry
<1>7. /\ OneRegistryEntry'
      /\ CallKnows'
  BY DEF Start, OneRegistryEntry, CallKnows, metadata, registry
<1> QED
  BY <1>1, <1>2, <1>3, <1>4, <1>5, <1>6, <1>7

\* setRunning: the job is no longer listed as waiting.
LEMMA SetRunningStep ==
    ASSUME IInv, NEW t \in Tasks, SetRunning(t)
    PROVE  IInv'
<1> USE ManagerAssumption, TaskPairs DEF IInv
<1>1. TypeOK'
  BY DEF SetRunning, TypeOK, SetState, ExecutionState, Places, registry
<1>2. Uncreated'
  BY DEF SetRunning, Uncreated, registry
<1>3. FutureHeld'
  BY DEF SetRunning, FutureHeld, Startable, registry
<1>4. PausedIsFresh'
  BY DEF SetRunning, PausedIsFresh, SetState, registry
<1>5. CallKnows'
  BY DEF SetRunning, CallKnows, SetState, registry
<1>6. WithdrawnCannotBegin'
  BY DEF SetRunning, WithdrawnCannotBegin, Startable, Cancelling, registry
<1>7. WaitingIsQueued'
  BY DEF SetRunning, WaitingIsQueued, TypeOK, SetState, registry
<1>8. OneRegistryEntry'
  BY DEF SetRunning, OneRegistryEntry, registry
<1> QED
  BY <1>1, <1>2, <1>3, <1>4, <1>5, <1>6, <1>7, <1>8

\* setCompleted, and the future is done.
LEMMA SetCompletedStep ==
    ASSUME IInv, NEW t \in Tasks, SetCompleted(t)
    PROVE  IInv'
<1> USE ManagerAssumption, TaskPairs DEF IInv
<1>1. TypeOK'
  BY DEF SetCompleted, TypeOK, DoneOutcome, SetState, ExecutionState, Places, registry
<1>2. Uncreated'
  BY DEF SetCompleted, Uncreated, DoneOutcome, registry
<1>3. FutureHeld'
  BY DEF SetCompleted, FutureHeld, Startable, DoneOutcome, registry
<1>4. PausedIsFresh'
  BY DEF SetCompleted, PausedIsFresh, DoneOutcome, SetState, registry
<1>5. CallKnows'
  BY DEF SetCompleted, CallKnows, SetState, registry
<1>6. WithdrawnCannotBegin'
  BY DEF SetCompleted, WithdrawnCannotBegin, Startable, Cancelling, DoneOutcome,
         registry
<1>7. WaitingIsQueued'
  BY DEF SetCompleted, WaitingIsQueued, DoneOutcome, SetState, registry
<1>8. OneRegistryEntry'
  BY DEF SetCompleted, OneRegistryEntry, registry
<1> QED
  BY <1>1, <1>2, <1>3, <1>4, <1>5, <1>6, <1>7, <1>8

\* A task that crashes has begun already.
LEMMA CrashStep ==
    ASSUME IInv, NEW t \in Tasks, Crash(t)
    PROVE  IInv'
<1> USE ManagerAssumption, TaskPairs DEF IInv
<1>1. TypeOK'
  BY DEF Crash, TypeOK, DoneOutcome, Places, metadata, registry
<1>2. Uncreated'
  BY DEF Crash, Uncreated, DoneOutcome, metadata, registry
<1>3. FutureHeld'
  BY DEF Crash, FutureHeld, Startable, DoneOutcome, metadata, registry
<1>4. PausedIsFresh'
  BY DEF Crash, PausedIsFresh, DoneOutcome, metadata, registry
<1>5. WithdrawnCannotBegin'
  BY DEF Crash, WithdrawnCannotBegin, Startable, Cancelling, DoneOutcome, registry
<1>6. WaitingIsQueued'
  BY DEF Crash, WaitingIsQueued, DoneOutcome, metadata, registry
<1>7. /\ OneRegistryEntry'
      /\ CallKnows'
  BY DEF Crash, OneRegistryEntry, CallKnows, metadata, registry
<1> QED
  BY <1>1, <1>2, <1>3, <1>4, <1>5, <1>6, <1>7

-----------------------------------------------------------------------------
\* A step that changes no variable changes none of the facts.
LEMMA StutterStep == ASSUME IInv, UNCHANGED vars PROVE IInv'
BY DEF IInv, TypeOK, Uncreated, OneRegistryEntry, FutureHeld, PausedIsFresh, CallKnows,
       WithdrawnCannotBegin, WaitingIsQueued, Startable, Cancelling, vars, metadata, registry

\* IInv is inductive: every call of the manager, every statement of a pool
\* thread and the sweep preserve it.
LEMMA NextInv == IInv /\ [Next]_vars => IInv'
<1> SUFFICES ASSUME IInv, [Next]_vars PROVE IInv'
  OBVIOUS
<1>1. CASE CallStep
  BY <1>1, ReprioritiseStep, SetPausedStep, HoldPausedStep, TestCancelStep,
     MarkCancelledStep, CancelFutureStep DEF CallStep
<1>2. CASE CleanExpiredTasks
  BY <1>2, CleanExpiredTasksStep
<1>3. ASSUME NEW j \in Jobs, Request(j) PROVE IInv'
  BY <1>3, SubmitStep, PauseTaskStep, ResumeTaskStep, CancelTaskStep,
     UpdatePriorityStep, UpdatePausedPriorityStep DEF Request
<1>4. ASSUME NEW j \in Jobs, Age(j) PROVE IInv'
  BY <1>4, AgeStep
<1>5. ASSUME NEW t \in Tasks, Take(t) PROVE IInv'
  BY <1>5, TakeStep
<1>6. ASSUME NEW t \in Tasks, Execute(t) PROVE IInv'
  BY <1>6, StartStep, SetRunningStep, SetCompletedStep, CrashStep DEF Execute
<1>7. CASE UNCHANGED vars
  BY <1>7, StutterStep
<1> QED
  BY <1>1, <1>2, <1>3, <1>4, <1>5, <1>6, <1>7 DEF Next

\* Every reachable state of the manager satisfies IInv.
THEOREM Invariance == Spec => []IInv
BY InitInv, NextInv, PTL DEF Spec

\* Every reachable state is well typed: the metadata keeps to ExecutionState
\* and ExecutionPriority, registries and executor to the tasks of the jobs.
THEOREM TypeCorrect == Spec => []TypeOK
<1>1. IInv => TypeOK
  BY DEF IInv
<1> QED
  BY <1>1, Invariance, PTL

\* No sequence of pause, resume, cancel, change of priority and sweep leaves
\* two entries of one job in the registries.
THEOREM RegistryIsUnique == Spec => []OneRegistryEntry
<1>1. IInv => OneRegistryEntry
  BY DEF IInv
<1> QED
  BY <1>1, Invariance, PTL

\* Clones never leave two live futures of a job in the executor: the metadata
\* holds the only one that can still begin.
THEOREM StartableIsUnique == Spec => []OneStartable
<1>1. IInv => OneStartable
  BY TaskPairs DEF IInv, FutureHeld, OneStartable
<1> QED
  BY <1>1, Invariance, PTL

\* After pauseTask or cancelTask has returned, no thread can begin the job
\* before it is resumed.
THEOREM WithdrawnIsInert == Spec => []WithdrawnCannotBegin
<1>1. IInv => WithdrawnCannotBegin
  BY DEF IInv
<1> QED
  BY <1>1, Invariance, PTL

\* A job listed as waiting is the one the executor has and has not begun.
THEOREM WaitingIsNotLost == Spec => []WaitingIsQueued
<1>1. IInv => WaitingIsQueued
  BY DEF IInv
<1> QED
  BY <1>1, Invariance, PTL
-----------------------------------------------------------------------------
(* JobTickets.  Every step of the manager or of a thread is a step on the  *)
(* ticket of one job, a sweep that forgets several jobs, or none.          *)

IsLive(j) == \E t \in Of(j) : Startable(t)
IssuedTo(j) == {t \in Of(j) : place[t] # "new"}
BegunBy(j) == {t \in Of(j) : place[t] \in {"started", "running", "delivered", "crashed"}}

\* The ticket of a job, case by case.
LEMMA TicketIs ==
    ASSUME NEW j \in Jobs
    PROVE  TicketOf(j) = IF created[j] = 0 THEN "none"
                         ELSE IF pausedTasks[j] # 0 THEN "withheld"
                         ELSE IF IsLive(j) THEN "live"
                         ELSE IF Registered(j) THEN "spent" ELSE "gone"
BY DEF TicketOf, IsLive

LEMMA TicketNext ==
    ASSUME NEW j \in Jobs
    PROVE  TicketOf(j)' = IF created'[j] = 0 THEN "none"
                          ELSE IF pausedTasks'[j] # 0 THEN "withheld"
                          ELSE IF IsLive(j)' THEN "live"
                          ELSE IF Registered(j)' THEN "spent" ELSE "gone"
BY DEF TicketOf, IsLive

\* A job has finitely many tasks.
LEMMA TasksAreFinite == ASSUME NEW j \in Jobs PROVE IsFiniteSet(Of(j))
<1>1. Of(j) = {j} \X (1..MaxClones)
  BY DEF Of, Tasks
<1>2. IsFiniteSet({j}) /\ IsFiniteSet(1..MaxClones)
  <2>1. IsFiniteSet({j})
    BY FS_Singleton
  <2>2. 1 \in Int /\ MaxClones \in Int
    BY ManagerAssumption
  <2> QED
    BY <2>1, <2>2, FS_Interval
<1>3. IsFiniteSet({j} \X (1..MaxClones))
  BY <1>2, FS_Product, Zenon
<1> QED
  BY <1>1, <1>3

LEMMA CountNext ==
    ASSUME NEW j \in Jobs, NEW S, NEW t, S \in SUBSET Of(j), t \notin S
    PROVE  Cardinality(S \cup {t}) = Cardinality(S) + 1
<1>1. IsFiniteSet(S)
  BY TasksAreFinite, FS_Subset
<1> QED
  BY <1>1, FS_AddElement, Zenon

-----------------------------------------------------------------------------
(* Steps of JobTickets.                                                    *)

Others(j) == \A i \in Jobs : i # j => TicketOf(i)' = TicketOf(i)

LEMMA IssueStep ==
    ASSUME NEW j \in Jobs, Others(j), TicketOf(j) \in {"none", "live", "spent", "withheld"},
           TicketOf(j)' = "live",
           \A i \in Jobs : BegunBy(i)' = BegunBy(i),
           \A i \in Jobs : i # j => IssuedTo(i)' = IssuedTo(i),
           \E t : t \notin IssuedTo(j) /\ IssuedTo(j)' = IssuedTo(j) \cup {t}
    PROVE  Tickets!Issue(j)
<1>1. Cardinality(IssuedTo(j)') = Cardinality(IssuedTo(j)) + 1
  BY CountNext DEF IssuedTo
<1> QED
  BY <1>1 DEF Tickets!Issue, Tickets!Become, Others, IssuedTo, BegunBy

LEMMA BeginStep ==
    ASSUME NEW j \in Jobs, Others(j), TicketOf(j) = "live", TicketOf(j)' \in {"spent", "gone"},
           \A i \in Jobs : IssuedTo(i)' = IssuedTo(i),
           \A i \in Jobs : i # j => BegunBy(i)' = BegunBy(i),
           \E t : t \notin BegunBy(j) /\ BegunBy(j)' = BegunBy(j) \cup {t}
    PROVE  Tickets!Begin(j)
<1>1. Cardinality(BegunBy(j)') = Cardinality(BegunBy(j)) + 1
  BY CountNext DEF BegunBy
<1> QED
  BY <1>1 DEF Tickets!Begin, Tickets!Become, Others, IssuedTo, BegunBy

\* Neither a submission nor a begin.
SameCounts == \A i \in Jobs : IssuedTo(i)' = IssuedTo(i) /\ BegunBy(i)' = BegunBy(i)

LEMMA WithholdStep ==
    ASSUME NEW j \in Jobs, Others(j), SameCounts, TicketOf(j) \in {"live", "spent"},
           TicketOf(j)' = "withheld"
    PROVE  Tickets!Withhold(j)
BY DEF Tickets!Withhold, Tickets!Become, Others, SameCounts, IssuedTo, BegunBy

LEMMA WithdrawStep ==
    ASSUME NEW j \in Jobs, Others(j), SameCounts, TicketOf(j) \in {"live", "withheld", "spent"},
           TicketOf(j)' = "gone"
    PROVE  Tickets!Withdraw(j)
BY DEF Tickets!Withdraw, Tickets!Become, Others, SameCounts, IssuedTo, BegunBy

LEMMA StutterTickets ==
    ASSUME SameCounts, \A i \in Jobs : TicketOf(i)' = TicketOf(i)
    PROVE  UNCHANGED Tickets!tickets
BY DEF Tickets!tickets, SameCounts, IssuedTo, BegunBy

LEMMA ForgetStep ==
    ASSUME SameCounts,
           \A i \in Jobs : \/ TicketOf(i)' = TicketOf(i)
                           \/ TicketOf(i) = "spent" /\ TicketOf(i)' = "gone"
    PROVE  Tickets!Next
<1> DEFINE S == {i \in Jobs : TicketOf(i) = "spent" /\ TicketOf(i)' = "gone"}
<1>1. Tickets!Forget(S)
  BY DEF Tickets!Forget, SameCounts, IssuedTo, BegunBy
<1> QED
  BY <1>1 DEF Tickets!Next

-----------------------------------------------------------------------------
(* What steps leave alone.                                                 *)

LEMMA SameTicket ==
    ASSUME NEW i \in Jobs, created'[i] = created[i], pausedTasks'[i] = pausedTasks[i],
           Registered(i)' <=> Registered(i), IsLive(i)' <=> IsLive(i)
    PROVE  TicketOf(i)' = TicketOf(i)
BY TicketIs, TicketNext

\* A step that changes no registry and no future changes no ticket.
LEMMA SameTickets ==
    ASSUME UNCHANGED <<created, ready, pausedTasks>>, \A t \in Tasks : Startable(t)' <=> Startable(t)
    PROVE  \A i \in Jobs : TicketOf(i)' = TicketOf(i)
<1> SUFFICES ASSUME NEW i \in Jobs PROVE TicketOf(i)' = TicketOf(i)
  OBVIOUS
<1>1. Of(i)' = Of(i) /\ Of(i) \subseteq Tasks
  BY DEF Of, Tasks
<1> QED
  BY <1>1, SameTicket DEF Registered, IsLive

\* Where the tasks are, as far as submissions and begins are counted.
LEMMA CountsFollow ==
    ASSUME \A t \in Tasks :
               /\ place'[t] = "new" <=> place[t] = "new"
               /\ place'[t] \in {"started", "running", "delivered", "crashed"}
                    <=> place[t] \in {"started", "running", "delivered", "crashed"}
    PROVE  SameCounts
BY DEF SameCounts, IssuedTo, BegunBy, Of

\* The steps that change the metadata or the call only.
LEMMA QuietStep ==
    ASSUME UNCHANGED <<created, ready, pausedTasks, place, outcome>>
    PROVE  UNCHANGED Tickets!tickets
BY SameTickets, CountsFollow, StutterTickets DEF Startable

\* A cancelled future cannot begin any more, and is not counted.
LEMMA CancelledIs ==
    ASSUME IInv, NEW j \in Jobs, NEW out, NEW pl, out = CancelledOutcome(j),
           pl \in {place, PurgedPlace(out)}, NEW t \in Tasks
    PROVE  /\ pl[t] = "new" <=> place[t] = "new"
           /\ pl[t] \in {"started", "running", "delivered", "crashed"}
                <=> place[t] \in {"started", "running", "delivered", "crashed"}
           /\ t[1] # j => (pl[t] \in {"queued", "taken"} /\ out[t] = "new" <=> Startable(t))
           /\ t[1] = j => ~(pl[t] \in {"queued", "taken"} /\ out[t] = "new")
           /\ place[t] = "new" /\ outcome[t] = "new" /\ t # <<j, future[j]>> => out[t] = "new"
<1>1. /\ \/ pl[t] = place[t]
         \/ place[t] = "queued" /\ pl[t] = "skipped" /\ out[t] = "cancelled"
      /\ t # <<j, future[j]>> => out[t] = outcome[t]
      /\ t = <<j, future[j]>> => out[t] # "new"
  BY DEF CancelledOutcome, PurgedPlace, IInv, TypeOK
<1>2. t[1] # j => (pl[t] \in {"queued", "taken"} /\ out[t] = "new" <=> Startable(t))
  BY <1>1, TaskPairs DEF Startable
<1>3. t[1] = j => ~(pl[t] \in {"queued", "taken"} /\ out[t] = "new")
  BY <1>1, TaskPairs DEF Startable, IInv, FutureHeld
<1> QED
  BY <1>1, <1>2, <1>3

-----------------------------------------------------------------------------
(* The steps that move a ticket.                                           *)

\* What IInv says of a job, in the words of its ticket.
LEMMA JobIs ==
    ASSUME IInv, NEW j \in Jobs
    PROVE  /\ pausedTasks[j] # 0 => ~IsLive(j) /\ ready \cap Of(j) = {}
           /\ IsLive(j) => created[j] # 0
           /\ ready \cap Of(j) # {} => created[j] # 0
           /\ pausedTasks[j] # 0 => created[j] # 0 /\ <<j, pausedTasks[j]>> \in Tasks
<1> USE TaskPairs DEF IInv, Of
<1>1. pausedTasks[j] # 0 => ~IsLive(j)
  BY DEF WithdrawnCannotBegin, IsLive
<1>2. pausedTasks[j] # 0 => ready \cap Of(j) = {}
  BY DEF OneRegistryEntry
<1>3. IsLive(j) => created[j] # 0
  BY DEF IsLive, Startable, Uncreated, TypeOK
<1>4. ready \cap Of(j) # {} => created[j] # 0
  BY DEF Uncreated, TypeOK
<1>5. pausedTasks[j] # 0 => created[j] # 0 /\ <<j, pausedTasks[j]>> \in Tasks
  BY ManagerAssumption DEF Uncreated, TypeOK
<1> QED
  BY <1>1, <1>2, <1>3, <1>4, <1>5

\* A task that was new is queued: its job gets a ticket.
LEMMA QueuedIssues ==
    ASSUME IInv, NEW j \in Jobs, NEW n \in 1..MaxClones, place[<<j, n>>] = "new",
           place'[<<j, n>>] = "queued", outcome'[<<j, n>>] = "new",
           \A t \in Tasks : t # <<j, n>> =>
               /\ place'[t] = "new" <=> place[t] = "new"
               /\ place'[t] \in {"started", "running", "delivered", "crashed"}
                    <=> place[t] \in {"started", "running", "delivered", "crashed"},
           \A t \in Tasks : t[1] # j => (Startable(t)' <=> Startable(t)),
           \A i \in Jobs : i # j => /\ created'[i] = created[i] /\ pausedTasks'[i] = pausedTasks[i]
                                    /\ ready' \cap Of(i) = ready \cap Of(i),
           created'[j] # 0, pausedTasks'[j] = 0,
           TicketOf(j) # "gone"
    PROVE  Tickets!Issue(j)
<1> USE TaskPairs
<1>1. Others(j)
  BY SameTicket DEF Others, Registered, IsLive, Of
<1>2. TicketOf(j)' = "live"
  <2>1. IsLive(j)'
    BY DEF IsLive, Of, Startable
  <2> QED
    BY <2>1, TicketNext
<1>3. TicketOf(j) \in {"none", "live", "spent", "withheld"}
  BY TicketIs
<1>4. \A i \in Jobs : BegunBy(i)' = BegunBy(i)
  BY DEF BegunBy, Of
<1>5. \A i \in Jobs : i # j => IssuedTo(i)' = IssuedTo(i)
  BY DEF IssuedTo, Of
<1>6. \E t : t \notin IssuedTo(j) /\ IssuedTo(j)' = IssuedTo(j) \cup {t}
  <2>1. <<j, n>> \notin IssuedTo(j) /\ IssuedTo(j)' = IssuedTo(j) \cup {<<j, n>>}
    BY DEF IssuedTo, Of
  <2> QED
    BY <2>1
<1> QED
  BY <1>1, <1>2, <1>3, <1>4, <1>5, <1>6, IssueStep

LEMMA SubmitIssues == ASSUME IInv, NEW j \in Jobs, Submit(j) PROVE Tickets!Issue(j)
<1> USE TaskPairs DEF Submit
<1>1. 1 \in 1..MaxClones /\ <<j, 1>> \in Tasks
  BY ManagerAssumption
<1>2. place[<<j, 1>>] = "new" /\ outcome[<<j, 1>>] = "new" /\ pausedTasks[j] = 0
  BY <1>1 DEF IInv, TypeOK, Uncreated
<1>3. place' = [place EXCEPT ![<<j, 1>>] = "queued"] /\ place \in [Tasks -> Places]
  BY DEF IInv, TypeOK
<1>4. /\ \A i \in Jobs : i # j => /\ created'[i] = created[i]
                                  /\ ready' \cap Of(i) = ready \cap Of(i)
      /\ created'[j] # 0
  BY DEF IInv, TypeOK, Of
<1>5. TicketOf(j) # "gone"
  BY TicketIs
<1>6. \A t \in Tasks : t # <<j, 1>> => place'[t] = place[t] /\ outcome'[t] = outcome[t]
  BY <1>3
<1> QED
  BY <1>1, <1>2, <1>3, <1>4, <1>5, <1>6, QueuedIssues DEF Startable

LEMMA ResumeIssues == ASSUME IInv, NEW j \in Jobs, ResumeTask(j) PROVE Tickets!Issue(j)
<1> USE TaskPairs DEF ResumeTask
<1> DEFINE n == pausedTasks[j]
<1>1. n \in 1..MaxClones /\ <<j, n>> \in Tasks /\ created[j] # 0
  BY JobIs
<1>2. place[<<j, n>>] = "new" /\ outcome[<<j, n>>] = "new"
  BY <1>1 DEF IInv, PausedIsFresh
<1>3. place' = [place EXCEPT ![<<j, n>>] = "queued"] /\ place \in [Tasks -> Places]
  BY DEF IInv, TypeOK
<1>4. /\ \A i \in Jobs : i # j => /\ pausedTasks'[i] = pausedTasks[i]
                                  /\ ready' \cap Of(i) = ready \cap Of(i)
      /\ pausedTasks'[j] = 0
  BY DEF IInv, TypeOK, Of
<1>5. TicketOf(j) # "gone"
  BY <1>1, TicketIs
<1>6. \A t \in Tasks : t # <<j, n>> => place'[t] = place[t] /\ outcome'[t] = outcome[t]
  BY <1>3
<1>7. place'[<<j, n>>] = "queued" /\ outcome'[<<j, n>>] = "new" /\ created' = created
  BY <1>1, <1>2, <1>3
<1> HIDE DEF n
<1> QED
  BY <1>1, <1>2, <1>4, <1>5, <1>6, <1>7, QueuedIssues DEF Startable

\* A call that has found its task in the ready queue knows the ticket of its job.
LEMMA CallIs ==
    ASSUME IInv, call.step \in Steps
    PROVE  /\ call.task \in Tasks /\ call.task[1] \in Jobs
           /\ call.task \in ready =>
                 /\ pausedTasks[call.task[1]] = 0
                 /\ TicketOf(call.task[1]) \in {"live", "spent"}
<1>1. call.task \in Tasks /\ call.task[1] \in Jobs
  BY TaskPairs DEF IInv, TypeOK, Steps, Idle
<1>2. ASSUME call.task \in ready
      PROVE  /\ pausedTasks[call.task[1]] = 0
             /\ TicketOf(call.task[1]) \in {"live", "spent"}
  <2>1. call.task \in ready \cap Of(call.task[1])
    BY <1>1, <1>2 DEF Of
  <2> QED
    BY <1>1, <2>1, JobIs, TicketIs DEF Registered
<1> QED
  BY <1>1, <1>2

LEMMA ReprioritiseIssues ==
    ASSUME IInv, Reprioritise, NEW j, j = call.task[1] PROVE Tickets!Issue(j)
<1> USE TaskPairs DEF Reprioritise
<1> DEFINE n == created[j] + 1
           out == CancelledOutcome(j)
           pl == PurgedPlace(out)
<1>1. j \in Jobs /\ call.task \in ready /\ pausedTasks[j] = 0 /\ TicketOf(j) # "gone"
  BY CallIs DEF IInv, CallKnows, Steps
<1>2. n \in 1..MaxClones /\ <<j, n>> \in Tasks /\ n > created[j]
  BY <1>1, ManagerAssumption DEF IInv, CallKnows, TypeOK
<1>3. place[<<j, n>>] = "new" /\ outcome[<<j, n>>] = "new" /\ future[j] # n
  BY <1>1, <1>2 DEF IInv, Uncreated, TypeOK
<1>4. outcome' = out /\ place' = [pl EXCEPT ![<<j, n>>] = "queued"]
  OBVIOUS
<1>5. DOMAIN pl = Tasks
  BY DEF PurgedPlace
<1>6. created' = [created EXCEPT ![j] = n] /\ ready' = (ready \ {call.task}) \cup {<<j, n>>}
  OBVIOUS
<1> HIDE DEF out, pl
<1>7. outcome'[<<j, n>>] = "new" /\ place'[<<j, n>>] = "queued"
  BY <1>1, <1>2, <1>3, <1>4, <1>5, CancelledIs DEF out, pl
<1>8. \A t \in Tasks : t # <<j, n>> => place'[t] = pl[t] /\ outcome'[t] = out[t]
  BY <1>4, <1>5
<1>9. \A t \in Tasks : t # <<j, n>> =>
          /\ place'[t] = "new" <=> place[t] = "new"
          /\ place'[t] \in {"started", "running", "delivered", "crashed"}
               <=> place[t] \in {"started", "running", "delivered", "crashed"}
  BY <1>1, <1>8, CancelledIs DEF out, pl
<1>10. \A t \in Tasks : t[1] # j => (Startable(t)' <=> Startable(t))
  BY <1>1, <1>2, <1>8, CancelledIs DEF out, pl, Startable
<1>11. /\ \A i \in Jobs : i # j => /\ created'[i] = created[i]
                                   /\ ready' \cap Of(i) = ready \cap Of(i)
       /\ created'[j] # 0
  BY <1>1, <1>2, <1>6 DEF IInv, TypeOK, Of
<1>12. pausedTasks' = pausedTasks
  OBVIOUS
<1> HIDE DEF n
<1> QED
  BY <1>1, <1>2, <1>3, <1>7, <1>9, <1>10, <1>11, <1>12, QueuedIssues

LEMMA HoldPausedWithholds ==
    ASSUME IInv, HoldPaused, NEW j, j = call.task[1] PROVE Tickets!Withhold(j)
<1> USE TaskPairs DEF HoldPaused
<1>1. j \in Jobs /\ call.task \in ready /\ TicketOf(j) \in {"live", "spent"}
  BY CallIs DEF IInv, CallKnows, Steps
<1>2. outcome' = CancelledOutcome(j) /\ place' = PurgedPlace(outcome')
  OBVIOUS
<1>3. SameCounts
  BY <1>1, <1>2, CancelledIs, CountsFollow
<1>4. \A t \in Tasks : t[1] # j => (Startable(t)' <=> Startable(t))
  BY <1>1, <1>2, CancelledIs DEF Startable
<1>5. \A i \in Jobs : i # j => /\ created'[i] = created[i] /\ pausedTasks'[i] = pausedTasks[i]
                               /\ ready' \cap Of(i) = ready \cap Of(i)
  BY <1>1 DEF IInv, TypeOK, Of
<1>6. created'[j] # 0 /\ pausedTasks'[j] # 0
  BY <1>1, ManagerAssumption DEF IInv, TypeOK
<1>7. Others(j)
  BY <1>4, <1>5, SameTicket DEF Others, Registered, IsLive, Of
<1>8. TicketOf(j)' = "withheld"
  BY <1>1, <1>6, TicketNext
<1> QED
  BY <1>1, <1>3, <1>7, <1>8, WithholdStep

LEMMA CancelFutureWithdraws ==
    ASSUME IInv, CancelFuture, NEW j, j = call.task[1]
    PROVE  Tickets!Withdraw(j) \/ UNCHANGED Tickets!tickets
<1> USE TaskPairs DEF CancelFuture
<1>1. j \in Jobs /\ call.task \in Tasks /\ call.task \in cancelledQueue
  BY CallIs DEF IInv, CallKnows, Steps
<1>2. outcome' = CancelledOutcome(j) /\ place' = place
  BY DEF registry
<1>3. SameCounts
  BY <1>1, <1>2, CancelledIs, CountsFollow
<1>4. UNCHANGED <<created, ready, pausedTasks>>
  BY DEF registry
<1>5. \A t \in Tasks : t[1] # j => (Startable(t)' <=> Startable(t))
  BY <1>1, <1>2, CancelledIs DEF Startable
<1>6. Others(j)
  BY <1>4, <1>5, SameTicket DEF Others, Registered, IsLive, Of
<1>7. ~IsLive(j)'
  BY <1>1, <1>2, CancelledIs DEF IsLive, Startable, Of
<1>8. pausedTasks[j] = 0 /\ ready \cap Of(j) = {} /\ created[j] # 0
  BY <1>1 DEF IInv, OneRegistryEntry, Of, Uncreated, TypeOK
<1>9. TicketOf(j)' = "gone" /\ TicketOf(j) \in {"live", "gone"}
  BY <1>1, <1>4, <1>7, <1>8, TicketIs, TicketNext DEF Registered, Of
<1>10. CASE TicketOf(j) = "live"
  BY <1>1, <1>3, <1>6, <1>9, <1>10, WithdrawStep
<1>11. CASE TicketOf(j) = "gone"
  BY <1>3, <1>6, <1>9, <1>11, StutterTickets DEF Others
<1> QED
  BY <1>9, <1>10, <1>11

\* A cancellation that takes the job out of its registry withdraws the ticket,
\* unless the task may still begin until its future is cancelled.
LEMMA TestCancelWithdraws ==
    ASSUME IInv, TestCancel, NEW j, j = call.task[1]
    PROVE  Tickets!Withdraw(j) \/ UNCHANGED Tickets!tickets
<1> USE TaskPairs
<1>1. j \in Jobs /\ call.task \in Tasks /\ (call.task \in ready \/ pausedTasks[j] = call.task[2])
  BY CallIs DEF TestCancel, IInv, CallKnows, Steps
<1>2. UNCHANGED <<created, place, outcome>>
  BY DEF TestCancel
<1>3. SameCounts /\ \A t \in Tasks : Startable(t)' <=> Startable(t)
  BY <1>2, CountsFollow DEF Startable
<1>4. \A i \in Jobs : IsLive(i)' <=> IsLive(i)
  BY <1>3 DEF IsLive, Of
<1>5. CASE state[j] = "WAITING" /\ ready' = ready \ {call.task} /\ pausedTasks' = pausedTasks
  <2>1. call.task \in ready /\ pausedTasks[j] = 0 /\ TicketOf(j) \in {"live", "spent"}
    BY <1>1, <1>5, CallIs DEF IInv, PausedIsFresh, TestCancel, Steps
  <2>2. Others(j)
    <3>1. \A i \in Jobs : i # j => ready' \cap Of(i) = ready \cap Of(i)
      BY <1>1, <1>5 DEF Of
    <3> QED
      BY <1>2, <1>4, <1>5, <3>1, SameTicket DEF Others, Registered, Of
  <2>3. ready' \cap Of(j) = {}
    BY <1>5, <1>1, <2>1 DEF IInv, OneRegistryEntry, Of
  <2>4. created[j] # 0
    BY <1>1, <2>1, JobIs DEF Of
  <2>5. TicketOf(j)' = IF IsLive(j) THEN "live" ELSE "gone"
    BY <1>1, <1>2, <1>4, <1>5, <2>1, <2>3, <2>4, TicketNext DEF Registered, Of
  <2>6. TicketOf(j) = IF IsLive(j) THEN "live" ELSE "spent"
    BY <1>1, <2>1, <2>4, TicketIs
  <2>7. CASE IsLive(j)
    BY <1>3, <2>2, <2>5, <2>6, <2>7, StutterTickets DEF Others
  <2>8. CASE ~IsLive(j)
    BY <1>1, <1>3, <2>2, <2>5, <2>6, <2>8, WithdrawStep
  <2> QED
    BY <2>7, <2>8
<1>6. CASE state[j] = "PAUSED" /\ pausedTasks' = [pausedTasks EXCEPT ![j] = 0] /\ ready' = ready
  <2>1. call.task \notin ready /\ pausedTasks[j] # 0
    BY <1>1, <1>6 DEF IInv, CallKnows, TestCancel
  <2>2. Others(j)
    BY <1>2, <1>4, <1>6, SameTicket DEF Others, Registered, Of, IInv, TypeOK
  <2>3. ~IsLive(j) /\ ready \cap Of(j) = {} /\ created[j] # 0
    BY <1>1, <2>1, JobIs
  <2>4. pausedTasks'[j] = 0
    BY <1>1, <1>6 DEF IInv, TypeOK
  <2>5. TicketOf(j) = "withheld" /\ TicketOf(j)' = "gone"
    BY <1>1, <1>2, <1>4, <1>6, <2>1, <2>3, <2>4, TicketIs, TicketNext DEF Registered, Of
  <2> QED
    BY <1>1, <1>3, <2>2, <2>5, WithdrawStep
<1>7. CASE UNCHANGED <<ready, pausedTasks>>
  BY <1>2, <1>7, QuietStep
<1> QED
  BY <1>5, <1>6, <1>7 DEF TestCancel, registry

\* The sweep forgets jobs whose extraction has begun.
LEMMA CleanForgets == ASSUME IInv, CleanExpiredTasks PROVE Tickets!Next
<1> USE TaskPairs
<1>1. UNCHANGED <<created, place, outcome, pausedTasks>> /\ ready' \subseteq ready
  BY DEF CleanExpiredTasks
<1>2. SameCounts
  BY <1>1, CountsFollow
<1>3. \A i \in Jobs : IsLive(i)' <=> IsLive(i)
  BY <1>1 DEF IsLive, Startable, Of
<1>4. ASSUME NEW i \in Jobs
      PROVE  TicketOf(i)' = TicketOf(i) \/ (TicketOf(i) = "spent" /\ TicketOf(i)' = "gone")
  BY <1>1, <1>3, TicketIs, TicketNext DEF Registered, Of
<1> QED
  BY <1>2, <1>4, ForgetStep

\* A thread that begins a task spends the ticket of its job.
LEMMA StartBegins ==
    ASSUME IInv, NEW t \in Tasks, Start(t), outcome[t] = "new", NEW j, j = t[1]
    PROVE  Tickets!Begin(j)
<1> USE TaskPairs
<1>1. j \in Jobs /\ place[t] = "taken" /\ place' = [place EXCEPT ![t] = "started"]
  BY DEF Start
<1>2. UNCHANGED <<created, ready, pausedTasks, outcome>>
  BY DEF Start, registry
<1>3. place'[t] = "started" /\ \A u \in Tasks : u # t => place'[u] = place[u]
  BY <1>1 DEF IInv, TypeOK
<1>4. Startable(t)
  BY <1>1 DEF Startable
<1>5. Others(j)
  BY <1>1, <1>2, <1>3, SameTicket DEF Others, Registered, IsLive, Startable, Of
<1>6. IsLive(j) /\ pausedTasks[j] = 0 /\ created[j] # 0
  <2>1. IsLive(j)
    BY <1>4 DEF IsLive, Of
  <2> QED
    BY <1>1, <2>1, JobIs
<1>7. ~IsLive(j)'
  BY <1>2, <1>3, <1>4 DEF IsLive, Of, Startable, IInv, FutureHeld
<1>8. TicketOf(j) = "live" /\ TicketOf(j)' \in {"spent", "gone"}
  BY <1>1, <1>2, <1>6, <1>7, TicketIs, TicketNext
<1>9. /\ \A i \in Jobs : IssuedTo(i)' = IssuedTo(i)
      /\ \A i \in Jobs : i # j => BegunBy(i)' = BegunBy(i)
      /\ t \notin BegunBy(j) /\ BegunBy(j)' = BegunBy(j) \cup {t}
  BY <1>1, <1>3 DEF IssuedTo, BegunBy, Of
<1> QED
  BY <1>1, <1>5, <1>8, <1>9, BeginStep

\* The other steps of the threads.
LEMMA ThreadStep ==
    ASSUME IInv, NEW t \in Tasks,
           \/ Take(t) \/ SetRunning(t) \/ SetCompleted(t) \/ Crash(t)
           \/ Start(t) /\ outcome[t] # "new"
    PROVE  UNCHANGED Tickets!tickets
<1> USE DEF Take, SetRunning, SetCompleted, Crash, Start, DoneOutcome
<1>1. UNCHANGED <<created, ready, pausedTasks>>
  BY DEF registry
<1>2. /\ \A u \in Tasks : u # t => place'[u] = place[u] /\ outcome'[u] = outcome[u]
      /\ Startable(t)' <=> Startable(t)
      /\ place'[t] = "new" <=> place[t] = "new"
      /\ place'[t] \in {"started", "running", "delivered", "crashed"}
           <=> place[t] \in {"started", "running", "delivered", "crashed"}
  BY DEF IInv, TypeOK, Startable
<1>3. SameCounts
  BY <1>2, CountsFollow
<1>4. \A u \in Tasks : Startable(u)' <=> Startable(u)
  BY <1>2 DEF Startable
<1> QED
  BY <1>1, <1>3, <1>4, SameTickets, StutterTickets

-----------------------------------------------------------------------------
(* The refinement.                                                         *)

LEMMA InitTickets == Init => Tickets!Init
<1> SUFFICES ASSUME Init PROVE Tickets!Init
  OBVIOUS
<1>1. ASSUME NEW j \in Jobs
      PROVE  TicketOf(j) = "none" /\ IssuedTo(j) = {} /\ BegunBy(j) = {}
  BY TicketIs DEF Init, IssuedTo, BegunBy, Of
<1>2. Cardinality({}) = 0
  BY FS_EmptySet
<1> QED
  BY <1>1, <1>2 DEF Tickets!Init, IssuedTo, BegunBy

LEMMA NextTickets == IInv /\ [Next]_vars => [Tickets!Next]_(Tickets!tickets)
<1> SUFFICES ASSUME IInv, [Next]_vars PROVE Tickets!Next \/ UNCHANGED Tickets!tickets
  OBVIOUS
<1>1. CASE CallStep
  <2>1. PICK j : j = call.task[1]
    OBVIOUS
  <2>2. ASSUME call.step \in Steps PROVE j \in Jobs
    BY <2>1, <2>2, CallIs
  <2>3. CASE Reprioritise
    BY <2>1, <2>2, <2>3, ReprioritiseIssues DEF Reprioritise, Steps, Tickets!Next
  <2>4. CASE SetPaused
    BY <2>4, QuietStep DEF SetPaused, registry
  <2>5. CASE HoldPaused
    BY <2>1, <2>2, <2>5, HoldPausedWithholds DEF HoldPaused, Steps, Tickets!Next
  <2>6. CASE TestCancel
    BY <2>1, <2>2, <2>6, TestCancelWithdraws DEF TestCancel, Steps, Tickets!Next
  <2>7. CASE MarkCancelled
    BY <2>7, QuietStep DEF MarkCancelled, registry
  <2>8. CASE CancelFuture
    BY <2>1, <2>2, <2>8, CancelFutureWithdraws DEF CancelFuture, Steps, Tickets!Next
  <2> QED
    BY <1>1, <2>3, <2>4, <2>5, <2>6, <2>7, <2>8 DEF CallStep
<1>2. CASE CleanExpiredTasks
  BY <1>2, CleanForgets
<1>3. ASSUME NEW j \in Jobs, Request(j) PROVE Tickets!Next \/ UNCHANGED Tickets!tickets
  <2>1. CASE Submit(j) \/ ResumeTask(j)
    BY <2>1, SubmitIssues, ResumeIssues DEF Tickets!Next
  <2>2. CASE PauseTask(j) \/ CancelTask(j)
             \/ \E p \in ExecutionPriority : UpdatePriority(j, p) \/ UpdatePausedPriority(j, p)
    BY <2>2, QuietStep
    DEF PauseTask, CancelTask, UpdatePriority, UpdatePausedPriority, registry
  <2> QED
    BY <1>3, <2>1, <2>2 DEF Request
<1>4. ASSUME NEW j \in Jobs, Age(j) PROVE UNCHANGED Tickets!tickets
  BY <1>4, QuietStep DEF Age, registry
<1>5. ASSUME NEW t \in Tasks, Take(t) \/ Execute(t)
      PROVE  Tickets!Next \/ UNCHANGED Tickets!tickets
  <2>1. CASE Start(t) /\ outcome[t] = "new"
    BY <2>1, TaskPairs, StartBegins DEF Tickets!Next
  <2>2. CASE ~(Start(t) /\ outcome[t] = "new")
    BY <1>5, <2>2, ThreadStep DEF Execute
  <2> QED
    BY <2>1, <2>2
<1>6. CASE UNCHANGED vars
  BY <1>6, QuietStep DEF vars, registry
<1> QED
  BY <1>1, <1>2, <1>3, <1>4, <1>5, <1>6 DEF Next

\* ExtractionManager keeps the promise of JobTickets whatever the threads, the
\* administrators and the sweep do: a job begins at most once per submission,
\* never while it is paused, never again once it is withdrawn.
THEOREM ManagerImplementsTickets == Spec => TicketsSpec
BY InitTickets, NextTickets, Invariance, PTL DEF Spec, TicketsSpec, Tickets!Spec
=============================================================================
