------------------------------ MODULE WorkerPool ------------------------------
(***************************************************************************)
(* src/src/Threads.c: the worker threads.  A worker that takes the last    *)
(* free thread's job, and a job that declares itself blocking, make sure   *)
(* that another worker stands ready; a worker too many is parked on the    *)
(* list of obsolete threads and ends after its grace period unless it is   *)
(* reused first.  The counters are shared under csWorkerThreadCount, the   *)
(* thread is created after the section has been left.                      *)
(*                                                                         *)
(* The queue of JobQueue.tla is part of this module; its workers are       *)
(* "away" from the queue while they are at one of the steps below.         *)
(***************************************************************************)
EXTENDS JobQueue

CONSTANTS
  NoThread,               \* NULL
  NoJob,
  InitialSizes,           \* the sizes the pool may be started with
  Awaits,                 \* what a job waits for: jobs of SUBSET Jobs
  Blocking,               \* the jobs that call SetBlockingThreadFlag
  MAX_NESTING,            \* how deep they nest those calls
  CreateFails             \* how CreateWorkerThread may fail: see below

ASSUME PoolAssumption ==
  /\ NoThread \notin Threads /\ NoJob \notin Jobs
  /\ InitialSizes \subseteq 1 .. Cardinality(Threads)
  /\ Awaits \in [Jobs -> SUBSET Jobs] /\ Blocking \subseteq Jobs
  /\ \A j \in Jobs : Awaits[j] # {} => j \in Blocking
  /\ MAX_NESTING \in Nat \ {0}
  /\ CreateFails \subseteq {"resources", "thread"}

VARIABLES
  job,                      \* the job a worker has popped and not finished
  lBlockingCount,           \* THREADDATA: nested SetBlockingThreadFlag calls
  bReuse, hEvent,           \* THREADDATA: reuse granted; the thread's event
  lpNext, lpPrev,           \* THREADDATA: links of the obsolete list ...
  lpObsoleteThreadPool,     \* ... and its head
  lWorkerThreads, lFreeWorkerThreads, lBlockingWorkerThreads,
  lWorkerThreadCount,       \* threads alive, for Thread_DeInit
  phantoms,                 \* threads counted that CreateThread did not make
  failed,                   \* history: a creation has failed
  lInitialWorkerThreads     \* the size of the pool, set by Thread_Init

queueSide == <<queueVars, hJobAlert, announcing, shutdown>>
threadData == <<job, lBlockingCount, bReuse, hEvent>>
obsoleteList == <<lpNext, lpPrev, lpObsoleteThreadPool>>
counters == <<lWorkerThreads, lFreeWorkerThreads, lBlockingWorkerThreads>>
creation == <<lWorkerThreadCount, phantoms, failed, lInitialWorkerThreads>>
poolVars == <<threadData, obsoleteList, counters, creation>>
allVars == <<vars, poolVars>>

\* A worker is "none" before it is created and after it has ended.
PoolSteps == { "none", "wait", "check", "pop",    \* see JobQueue
               "count", "create", "run",          \* lines 606, 625, 638
               "createBlocked", "blocked",        \* line 433; inside a blocking call
               "unblocking", "return",                          \* line 646
               "parked", "unpark", "end" }        \* lines 659, 660, 672

PoolInit ==
  /\ QueueInit
  /\ lInitialWorkerThreads \in InitialSizes
  /\ \E first \in SUBSET Threads :
       /\ Cardinality(first) = lInitialWorkerThreads
       /\ pc = [t \in Threads |-> IF t \in first THEN "wait" ELSE "none"]
  /\ job = [t \in Threads |-> NoJob]
  /\ lBlockingCount = [t \in Threads |-> 0]
  /\ bReuse = [t \in Threads |-> FALSE]
  /\ hEvent = [t \in Threads |-> FALSE]
  /\ lpNext = [t \in Threads |-> NoThread]
  /\ lpPrev = [t \in Threads |-> NoThread]
  /\ lpObsoleteThreadPool = NoThread
  /\ lWorkerThreads = lInitialWorkerThreads
  /\ lFreeWorkerThreads = lInitialWorkerThreads
  /\ lBlockingWorkerThreads = 0
  /\ lWorkerThreadCount = lInitialWorkerThreads
  /\ phantoms = 0
  /\ failed = FALSE

-------------------------------------------------------------------------------
(* CreateWorkerThread: a thread, a failure that is reported ("resources"), or
   CreateThread's NULL ("thread"), which line 343 does not take for one. *)

CreateWorkerThread(t, from, to) ==
  \/ \E n \in Threads :
       /\ pc[t] = from /\ pc[n] = "none"
       /\ pc' = [pc EXCEPT ![t] = to, ![n] = "wait"]
       /\ lWorkerThreadCount' = lWorkerThreadCount + 1
       /\ UNCHANGED <<counters, phantoms, failed, lInitialWorkerThreads>>
  \/ /\ "resources" \in CreateFails
     /\ Goto(t, from, to)
     /\ lWorkerThreads' = lWorkerThreads - 1
     /\ lFreeWorkerThreads' = lFreeWorkerThreads - 1
     /\ failed' = TRUE
     /\ UNCHANGED <<lBlockingWorkerThreads, lWorkerThreadCount, phantoms, lInitialWorkerThreads>>
  \/ /\ "thread" \in CreateFails
     /\ Goto(t, from, to)
     /\ lWorkerThreadCount' = lWorkerThreadCount + 1
     /\ phantoms' = phantoms + 1
     /\ failed' = TRUE
     /\ UNCHANGED <<counters, lInitialWorkerThreads>>

\* SetEvent, bReuse, and the head leaves the list.
WakeObsolete ==
  LET h == lpObsoleteThreadPool
      n == lpNext[h] IN
  /\ hEvent' = [hEvent EXCEPT ![h] = TRUE]
  /\ bReuse' = [bReuse EXCEPT ![h] = TRUE]
  /\ lpObsoleteThreadPool' = n
  /\ lpPrev' = IF n = NoThread THEN lpPrev ELSE [lpPrev EXCEPT ![n] = NoThread]
  /\ UNCHANGED lpNext

\* Mutant: blocking workers count as workers that will be free again.
ProvideIgnoresBlocking(t, from, created, reused, free, blocking) ==
  IF free = 0 /\ lWorkerThreads < lInitialWorkerThreads
  THEN /\ lWorkerThreads' = lWorkerThreads + 1
       /\ lFreeWorkerThreads' = 1
       /\ IF lpObsoleteThreadPool # NoThread
          THEN Goto(t, from, reused) /\ WakeObsolete
          ELSE Goto(t, from, created) /\ UNCHANGED <<hEvent, bReuse, obsoleteList>>
  ELSE /\ lFreeWorkerThreads' = free
       /\ Goto(t, from, reused)
       /\ UNCHANGED <<lWorkerThreads, hEvent, bReuse, obsoleteList>>

\* Lines 608-621 and 416-429, with the free and blocking counters as the caller
\* has just set them: a worker that finds none free provides one, by reuse or
\* by creating it later ("create").
Provide(t, from, created, reused, free, blocking) ==
  IF free = 0 /\ lWorkerThreads - blocking < lInitialWorkerThreads
  THEN /\ lWorkerThreads' = lWorkerThreads + 1
       /\ lFreeWorkerThreads' = 1
       /\ IF lpObsoleteThreadPool # NoThread
          THEN Goto(t, from, reused) /\ WakeObsolete
          ELSE Goto(t, from, created) /\ UNCHANGED <<hEvent, bReuse, obsoleteList>>
  ELSE /\ lFreeWorkerThreads' = free
       /\ Goto(t, from, reused)
       /\ UNCHANGED <<lWorkerThreads, hEvent, bReuse, obsoleteList>>

-------------------------------------------------------------------------------
(* WorkerThread, from the popped job to the next wait. *)

TakeJob(t) ==
  /\ Goto(t, "pop", "count")
  /\ job' = [job EXCEPT ![t] = NextJob]
  /\ TakeNextJob
  /\ UNCHANGED <<hJobAlert, announcing, shutdown, lBlockingCount, bReuse, hEvent,
                 obsoleteList, counters, creation>>

CountThread(t) ==
  /\ Provide(t, "count", "create", "run", lFreeWorkerThreads - 1, lBlockingWorkerThreads)
  /\ UNCHANGED <<queueSide, job, lBlockingCount,
                 lBlockingWorkerThreads, creation>>

CreateThread(t) ==
  /\ CreateWorkerThread(t, "create", "run")
  /\ UNCHANGED <<queueSide, threadData, obsoleteList>>

\* Mutant: the flag only counts the thread and never provides another.
SetBlockingThreadFlagCounts(t) ==
  /\ pc[t] \in {"run", "blocked"} /\ job[t] \in Blocking
  /\ lBlockingCount[t] < MAX_NESTING
  /\ lBlockingCount' = [lBlockingCount EXCEPT ![t] = @ + 1]
  /\ lBlockingWorkerThreads' = lBlockingWorkerThreads + (IF lBlockingCount[t] = 0 THEN 1 ELSE 0)
  /\ pc' = [pc EXCEPT ![t] = "blocked"]
  /\ UNCHANGED <<queueSide, job, bReuse, hEvent,
                 obsoleteList, lWorkerThreads, lFreeWorkerThreads, creation>>

\* SetBlockingThreadFlag, called by the job: only the outermost call counts.
\* (No caller passes bDecrement, and none looks at the result.)
SetBlockingThreadFlag(t) ==
  /\ job[t] \in Blocking /\ lBlockingCount[t] < MAX_NESTING
  /\ lBlockingCount' = [lBlockingCount EXCEPT ![t] = @ + 1]
  /\ \/ /\ pc[t] = "run"
        /\ lBlockingWorkerThreads' = lBlockingWorkerThreads + 1
        /\ Provide(t, "run", "createBlocked", "blocked",
                   lFreeWorkerThreads, lBlockingWorkerThreads + 1)
     \/ /\ pc[t] = "blocked"
        /\ UNCHANGED <<pc, counters, hEvent, bReuse, obsoleteList>>
  /\ UNCHANGED <<queueSide, job, creation>>

CreateThreadBlocked(t) ==
  /\ CreateWorkerThread(t, "createBlocked", "blocked")
  /\ UNCHANGED <<queueSide, threadData, obsoleteList>>

\* The jobs that are not over: queued, or in the hands of a worker.
Outstanding == Queued \cup {job[t] : t \in Threads}

\* Mutant: every level of nested calls uncounts the thread.
SetNonBlockingEveryLevel(t) ==
  /\ pc[t] \in {"blocked", "unblocking"}
  /\ Awaits[job[t]] \cap Outstanding = {}
  /\ lBlockingCount' = [lBlockingCount EXCEPT ![t] = @ - 1]
  /\ lBlockingWorkerThreads' = lBlockingWorkerThreads - 1
  /\ pc' = [pc EXCEPT ![t] = IF lBlockingCount[t] = 1 THEN "return" ELSE "unblocking"]
  /\ UNCHANGED <<queueSide, job, bReuse, hEvent,
                 obsoleteList, lWorkerThreads, lFreeWorkerThreads, creation>>

\* SetNonBlockingThreadFlag, when what the job waits for has happened; again,
\* only the outermost of nested calls counts.
SetNonBlockingThreadFlag(t) ==
  /\ pc[t] \in {"blocked", "unblocking"}
  /\ Awaits[job[t]] \cap Outstanding = {}
  /\ lBlockingCount' = [lBlockingCount EXCEPT ![t] = @ - 1]
  /\ IF lBlockingCount[t] = 1
     THEN /\ lBlockingWorkerThreads' = lBlockingWorkerThreads - 1
          /\ pc' = [pc EXCEPT ![t] = "return"]
     ELSE /\ pc' = [pc EXCEPT ![t] = "unblocking"]
          /\ UNCHANGED lBlockingWorkerThreads
  /\ UNCHANGED <<queueSide, job, bReuse, hEvent,
                 obsoleteList, lWorkerThreads, lFreeWorkerThreads, creation>>

JobReturns(t) ==
  \/ pc[t] = "return"
  \/ pc[t] = "run" /\ job[t] \notin Blocking

\* Line 648, one worker free again and no more than there should be ...
FreeThread(t) ==
  /\ JobReturns(t)
  /\ lFreeWorkerThreads + 1 <= lInitialWorkerThreads
  /\ lFreeWorkerThreads' = lFreeWorkerThreads + 1
  /\ job' = [job EXCEPT ![t] = NoJob]
  /\ pc' = [pc EXCEPT ![t] = "wait"]
  /\ UNCHANGED <<queueSide, lBlockingCount, bReuse,
                 hEvent, obsoleteList, lWorkerThreads, lBlockingWorkerThreads, creation>>

\* ... or one too many: it goes to the head of the obsolete list.
ParkThread(t) ==
  /\ JobReturns(t)
  /\ lFreeWorkerThreads + 1 > lInitialWorkerThreads
  /\ lWorkerThreads' = lWorkerThreads - 1
  /\ job' = [job EXCEPT ![t] = NoJob]
  /\ lpNext' = [lpNext EXCEPT ![t] = lpObsoleteThreadPool]
  /\ lpPrev' = IF lpObsoleteThreadPool = NoThread THEN lpPrev
               ELSE [lpPrev EXCEPT ![lpObsoleteThreadPool] = t]
  /\ lpObsoleteThreadPool' = t
  /\ hEvent' = [hEvent EXCEPT ![t] = FALSE]
  /\ pc' = [pc EXCEPT ![t] = "parked"]
  /\ UNCHANGED <<queueSide, lBlockingCount, bReuse,
                 lFreeWorkerThreads, lBlockingWorkerThreads, creation>>

\* WaitForSingleObject(hEvent, 120000): the event (taken: it resets itself) ...
WakeUp(t) ==
  /\ Goto(t, "parked", "unpark")
  /\ hEvent[t]
  /\ hEvent' = [hEvent EXCEPT ![t] = FALSE]
  /\ UNCHANGED <<queueSide, job, lBlockingCount, bReuse, obsoleteList, counters, creation>>

\* Mutant: the parked thread waits without a grace period.
GraceNeverExpires(t) ==
  /\ Goto(t, "parked", "unpark")
  /\ hEvent[t] /\ bReuse[t]
  /\ UNCHANGED <<queueSide, poolVars>>

\* ... or the end of the grace period, even when the event is being set.
GraceExpires(t) ==
  /\ Goto(t, "parked", "unpark")
  /\ UNCHANGED <<queueSide, poolVars>>

\* The section after the wait: without a grant the thread unlinks itself.
Unpark(t) ==
  /\ IF bReuse[t] THEN Goto(t, "unpark", "wait") ELSE Goto(t, "unpark", "end")
  /\ IF bReuse[t]
     THEN /\ bReuse' = [bReuse EXCEPT ![t] = FALSE]
          /\ lpPrev' = [lpPrev EXCEPT ![t] = NoThread]
          /\ UNCHANGED <<lpNext, lpObsoleteThreadPool>>
     ELSE /\ IF lpPrev[t] # NoThread
             THEN /\ lpNext' = [lpNext EXCEPT ![lpPrev[t]] = lpNext[t]]
                  /\ UNCHANGED lpObsoleteThreadPool
             ELSE /\ lpObsoleteThreadPool' = lpNext[t]
                  /\ UNCHANGED lpNext
          /\ lpPrev' = IF lpNext[t] = NoThread THEN lpPrev
                       ELSE [lpPrev EXCEPT ![lpNext[t]] = lpPrev[t]]
          /\ UNCHANGED bReuse
  /\ UNCHANGED <<queueSide, job, lBlockingCount, hEvent, counters, creation>>

\* EndWorkerThread frees the THREADDATA; a later thread starts from zeroed data.
EndWorkerThread(t) ==
  /\ Goto(t, "end", "none")
  /\ lWorkerThreadCount' = lWorkerThreadCount - 1
  /\ job' = [job EXCEPT ![t] = NoJob]
  /\ hEvent' = [hEvent EXCEPT ![t] = FALSE]
  /\ lpNext' = [lpNext EXCEPT ![t] = NoThread]
  /\ lpPrev' = [lpPrev EXCEPT ![t] = NoThread]
  /\ UNCHANGED <<queueSide, lBlockingCount, bReuse, lpObsoleteThreadPool, counters,
                 phantoms, failed, lInitialWorkerThreads>>

-------------------------------------------------------------------------------
(* The queue's side, and Thread_DeInit to its end. *)

\* Mutant: a worker does not look at the exit flag.
CheckExitFlagForgotten(t) ==
  /\ Goto(t, "check", "pop")
  /\ UNCHANGED <<queueSide, poolVars>>

CheckExitFlag(t) ==
  /\ IF bThreadExitFlag THEN Goto(t, "check", "end") ELSE Goto(t, "check", "pop")
  /\ UNCHANGED <<queueSide, poolVars>>

\* The handles are closed when the last thread is gone; if that takes longer
\* than ten seconds Thread_DeInit gives up and closes nothing.
CloseHandles ==
  /\ shutdown = "alerted" /\ lWorkerThreadCount = 0
  /\ shutdown' = "closed"
  /\ UNCHANGED <<queueVars, hJobAlert, announcing, pc, poolVars>>

ThreadDeInit ==
  \/ (SetExitFlag \/ ReleaseExitAlerts(lWorkerThreadCount)) /\ UNCHANGED poolVars
  \/ CloseHandles

\* Nothing calls QueueJob once the handles are closed.
Queueing(c) ==
  /\ shutdown # "closed"
  /\ \/ ReleaseAlert(c)
     \/ \E j \in Jobs \ Outstanding : AppendJob(c, j)
  /\ UNCHANGED poolVars

Run(t) ==
  \/ (WaitJobAlert(t) /\ UNCHANGED poolVars) \/ CheckExitFlag(t) \/ TakeJob(t)
  \/ CountThread(t) \/ CreateThread(t)
  \/ SetNonBlockingThreadFlag(t) \/ FreeThread(t) \/ ParkThread(t)
  \/ CreateThreadBlocked(t) \/ (pc[t] = "run" /\ SetBlockingThreadFlag(t))
  \/ WakeUp(t) \/ GraceExpires(t) \/ Unpark(t) \/ EndWorkerThread(t)

PoolNext ==
  \/ \E c \in Callers : Queueing(c)
  \/ \E t \in Threads : Run(t) \/ SetBlockingThreadFlag(t)
  \/ ThreadDeInit

PoolSpec == PoolInit /\ [][PoolNext]_allVars

\* Threads that can go on do; a parked thread's grace period ends; a job that
\* waits for nothing ends by itself.
PoolFairSpec ==
  /\ PoolSpec
  /\ \A t \in Threads : WF_allVars(Run(t))
  /\ \A c \in Callers : WF_allVars(ReleaseAlert(c) /\ UNCHANGED poolVars)

-------------------------------------------------------------------------------
At(steps) == {t \in Threads : pc[t] \in steps}

PoolTypeOK ==
  /\ pc \in [Threads -> PoolSteps]
  /\ job \in [Threads -> Jobs \cup {NoJob}]
  /\ lBlockingCount \in [Threads -> 0 .. MAX_NESTING]
  /\ bReuse \in [Threads -> BOOLEAN] /\ hEvent \in [Threads -> BOOLEAN]
  /\ lpNext \in [Threads -> Threads \cup {NoThread}]
  /\ lpPrev \in [Threads -> Threads \cup {NoThread}]
  /\ lpObsoleteThreadPool \in Threads \cup {NoThread}
  /\ lWorkerThreads \in Nat /\ lFreeWorkerThreads \in Nat
  /\ lBlockingWorkerThreads \in Nat
  /\ lWorkerThreadCount \in Nat /\ phantoms \in Nat /\ failed \in BOOLEAN
  /\ lInitialWorkerThreads \in InitialSizes

\* Parked threads nobody has granted reuse: those on the obsolete list.
Obsolete == {t \in At({"parked", "unpark"}) : ~bReuse[t]}

\* Threads that stand ready for a job, or are about to be.
Free == At({"wait", "check", "pop", "count"})
          \cup {t \in At({"parked", "unpark"}) : bReuse[t]}
Creating == At({"create", "createBlocked"})

\* The three shared counters say what the threads are doing, although every
\* thread changes them on its own behalf and on that of threads that do not
\* exist yet; they stop to matter when workers leave for the exit flag.
CountersAgree ==
  /\ lWorkerThreadCount = Cardinality(Threads \ At({"none"})) + phantoms
  /\ lBlockingWorkerThreads
       = Cardinality(At({"createBlocked", "blocked", "unblocking"}))
  /\ ~bThreadExitFlag =>
       /\ lFreeWorkerThreads = Cardinality(Free) + Cardinality(Creating) + phantoms
       /\ lWorkerThreads = Cardinality(Threads \ (At({"none", "end"}) \cup Obsolete))
                             + Cardinality(Creating) + phantoms

\* At any time a thread stands ready (or is being made) for the next job, or at
\* least lInitialWorkerThreads jobs are running that will end by themselves:
\* blocking jobs, however many, do not use the pool up.
SpareWorker ==
  ~failed =>
    \/ lFreeWorkerThreads > 0
    \/ lWorkerThreads - lBlockingWorkerThreads >= lInitialWorkerThreads

\* The obsolete list is a well-formed doubly linked list of exactly the parked
\* threads, and it survives threads leaving at its head (reuse) and in its
\* middle (end of the grace period).
ObsoleteListOK ==
  /\ lpObsoleteThreadPool = NoThread <=> Obsolete = {}
  /\ lpObsoleteThreadPool \in Obsolete \cup {NoThread}
  /\ \A t \in Obsolete :
       /\ lpNext[t] \in Obsolete \cup {NoThread}
       /\ lpNext[t] # NoThread => lpPrev[lpNext[t]] = t
       /\ lpPrev[t] \in Obsolete \cup {NoThread}
       /\ lpPrev[t] = NoThread <=> lpObsoleteThreadPool = t
       /\ lpPrev[t] # NoThread => lpNext[lpPrev[t]] = t

\* A parked thread is woken for reuse only: the event that a grant left behind
\* when the grace period ended at the same time does not end a later parking.
WokenForReuse == \A t \in At({"parked"}) : hEvent[t] => bReuse[t]

\* The pool's bookkeeping - its counters, the list of parked threads and their
\* events - agrees with what its threads are doing, at every step of theirs, and
\* the spare worker it is kept for is there.
PoolInv == PoolTypeOK /\ CountersAgree /\ ObsoleteListOK /\ WokenForReuse /\ SpareWorker

\* The pool serves JobQueue's queue as JobQueue says workers do.
QueueOfPool == INSTANCE JobQueue WITH
  pc <- [t \in Threads |-> IF pc[t] \in {"wait", "check", "pop"} THEN pc[t] ELSE "away"],
  shutdown <- IF shutdown = "closed" THEN "alerted" ELSE shutdown
ServesJobQueue == QueueOfPool!Spec

\* A queued job is run although the jobs before it may be waiting for it.
QueuedJobRuns ==
  \A j \in Jobs : (j \in Queued) ~>
    (\/ \E t \in Threads : job[t] = j /\ pc[t] = "run"
     \/ bThreadExitFlag \/ failed)

\* Every thread answers the exit flag, the parked ones and those created late
\* too; what may be left are jobs that wait for a job nobody will run any more.
AllWorkersEnd ==
  shutdown = "alerted" ~>
    \/ failed
    \/ \A t \in Threads \ At({"none"}) :
         pc[t] \in {"blocked", "unblocking"} /\ Awaits[job[t]] \cap Outstanding # {}

\* The pool serves its queue for as long as it runs, and ends when told to.
PoolServes == QueuedJobRuns /\ AllWorkersEnd
===============================================================================
