------------------------------- MODULE JobQueue -------------------------------
(***************************************************************************)
(* src/src/Threads.c: the queue that hands work to the worker threads.     *)
(* QueueJob appends a job to the list of its priority under csJobQueue and *)
(* releases the semaphore hJobAlert only after it has left the section; a  *)
(* worker takes one permit, looks at the exit flag, and pops under the     *)
(* section.  Nothing but the semaphore's count tells it that a job is      *)
(* there: line 602 would dereference NULL if the count were one too high.  *)
(*                                                                         *)
(* A job is its entry in the queue: the JOB structures and their free list *)
(* are left out, and so is QueueJob's failure when that list cannot grow,  *)
(* which changes nothing and returns TRUE.                                 *)
(***************************************************************************)
EXTENDS Integers, Sequences, FiniteSets, Functions

CONSTANTS
  Jobs,          \* the entries that can be queued
  Priority,      \* the priority each is queued with
  Threads,       \* the worker threads
  Callers,       \* the threads that call QueueJob
  SPARE_ALERTS,  \* the alerts Thread_DeInit releases beyond one per worker (10)
  MAX_COUNTED    \* bounds lWorkerThreadCount, the workers Thread_DeInit counts

JOB_PRIORITY_HIGH   == 0
JOB_PRIORITY_NORMAL == 1
JOB_PRIORITY_LOW    == 2
Priorities == {JOB_PRIORITY_HIGH, JOB_PRIORITY_NORMAL, JOB_PRIORITY_LOW}

ASSUME QueueAssumption ==
  /\ Priority \in [Jobs -> Priorities]
  /\ IsFiniteSet(Threads) /\ IsFiniteSet(Callers)
  /\ SPARE_ALERTS \in Nat /\ MAX_COUNTED \in Nat

VARIABLES
  lpJobQueue,        \* a FIFO list for each priority
  dwPriorityCount,   \* how often the priority was passed over since it was served
  hJobAlert,         \* the count of the semaphore
  announcing,        \* callers that have appended and not yet released hJobAlert
  pc,                \* where each worker is
  shutdown,          \* how far Thread_DeInit is; bThreadExitFlag is set off "no"
  bypassed           \* history: jobs taken in a row while this priority waited

queueVars == <<lpJobQueue, dwPriorityCount, bypassed>>
vars == <<queueVars, hJobAlert, announcing, pc, shutdown>>

bThreadExitFlag == shutdown # "no"

Goto(t, from, to) == pc[t] = from /\ pc' = [pc EXCEPT ![t] = to]

QueueInit ==
  /\ lpJobQueue = [p \in Priorities |-> <<>>]
  /\ dwPriorityCount = [p \in Priorities |-> 0]
  /\ bypassed = [p \in Priorities |-> 0]
  /\ hJobAlert = 0
  /\ announcing = {}
  /\ shutdown = "no"

\* A worker that does not exist yet is away.
Init == QueueInit /\ pc \in [Threads -> {"wait", "away"}]

-------------------------------------------------------------------------------
(* QueueJob *)

Queued == UNION {Range(lpJobQueue[p]) : p \in Priorities}

\* Mutant: the job is pushed in front of the ones that wait.
AppendInFront(c, j) ==
  /\ c \notin announcing /\ j \notin Queued
  /\ lpJobQueue' = [lpJobQueue EXCEPT ![Priority[j]] = <<j>> \o @]
  /\ announcing' = announcing \cup {c}
  /\ UNCHANGED <<dwPriorityCount, bypassed, hJobAlert, pc, shutdown>>

AppendJob(c, j) ==
  /\ c \notin announcing /\ j \notin Queued
  /\ lpJobQueue' = [lpJobQueue EXCEPT ![Priority[j]] = Append(@, j)]
  /\ announcing' = announcing \cup {c}
  /\ UNCHANGED <<dwPriorityCount, bypassed, hJobAlert, pc, shutdown>>

ReleaseAlert(c) ==
  /\ c \in announcing
  /\ announcing' = announcing \ {c}
  /\ hJobAlert' = hJobAlert + 1
  /\ UNCHANGED <<queueVars, pc, shutdown>>

-------------------------------------------------------------------------------
(* WorkerThread, from its wait on hJobAlert to the job it has popped. *)

WaitJobAlert(t) ==
  /\ Goto(t, "wait", "check")
  /\ hJobAlert > 0
  /\ hJobAlert' = hJobAlert - 1
  /\ UNCHANGED <<queueVars, announcing, shutdown>>

\* Mutant: the worker does not look at the exit flag.
CheckExitForgotten(t) ==
  /\ Goto(t, "check", "pop")
  /\ UNCHANGED <<queueVars, hJobAlert, announcing, shutdown>>

\* if (bThreadExitFlag) EndWorkerThread(): the worker leaves without a job.
CheckExit(t) ==
  /\ IF bThreadExitFlag THEN Goto(t, "check", "away") ELSE Goto(t, "check", "pop")
  /\ UNCHANGED <<queueVars, hJobAlert, announcing, shutdown>>

Ready(p) == lpJobQueue[p] # <<>>

\* The turns: a priority that waits is counted when a better one is about to
\* be served, the second time for NORMAL and the fourth time for LOW is its own.
CountsNormal == Ready(JOB_PRIORITY_HIGH) /\ Ready(JOB_PRIORITY_NORMAL)
NormalsTurn == CountsNormal /\ dwPriorityCount[JOB_PRIORITY_NORMAL] + 1 >= 2

CountsLow ==
  /\ Ready(JOB_PRIORITY_LOW)
  /\ IF Ready(JOB_PRIORITY_HIGH) THEN ~NormalsTurn ELSE Ready(JOB_PRIORITY_NORMAL)
LowsTurn == CountsLow /\ dwPriorityCount[JOB_PRIORITY_LOW] + 1 >= 4

\* Mutant: LOW is served only when nothing else is there.
StrictPriority ==
  CASE Ready(JOB_PRIORITY_HIGH) /\ ~NormalsTurn -> JOB_PRIORITY_HIGH
    [] (~Ready(JOB_PRIORITY_HIGH) \/ NormalsTurn) /\ Ready(JOB_PRIORITY_NORMAL)
         -> JOB_PRIORITY_NORMAL
    [] OTHER -> JOB_PRIORITY_LOW

NextPriority ==
  CASE LowsTurn -> JOB_PRIORITY_LOW
    [] ~LowsTurn /\ Ready(JOB_PRIORITY_HIGH) /\ ~NormalsTurn -> JOB_PRIORITY_HIGH
    [] ~LowsTurn /\ (~Ready(JOB_PRIORITY_HIGH) \/ NormalsTurn)
         /\ Ready(JOB_PRIORITY_NORMAL) -> JOB_PRIORITY_NORMAL
    [] OTHER -> JOB_PRIORITY_LOW

NextJob == Head(lpJobQueue[NextPriority])

\* The critical section: the counters of the turns are left as the test made
\* them, the priority that is served starts over.
TakeNextJob ==
  /\ Ready(NextPriority)
  /\ lpJobQueue' = [lpJobQueue EXCEPT ![NextPriority] = Tail(@)]
  /\ dwPriorityCount' = [p \in Priorities |->
       CASE p = NextPriority -> 0
         [] p = JOB_PRIORITY_NORMAL /\ p # NextPriority /\ CountsNormal
              -> dwPriorityCount[p] + 1
         [] p = JOB_PRIORITY_LOW /\ p # NextPriority /\ CountsLow
              -> dwPriorityCount[p] + 1
         [] OTHER -> dwPriorityCount[p]]
  /\ bypassed' = [p \in Priorities |->
       IF p = NextPriority \/ ~Ready(p) THEN 0 ELSE bypassed[p] + 1]

PopJob(t) ==
  /\ Goto(t, "pop", "away")
  /\ TakeNextJob
  /\ UNCHANGED <<hJobAlert, announcing, shutdown>>

\* The job has been run (WorkerPool says how) and the worker waits again, or a
\* new worker starts.
Return(t) ==
  /\ Goto(t, "away", "wait")
  /\ UNCHANGED <<queueVars, hJobAlert, announcing, shutdown>>

-------------------------------------------------------------------------------
(* Thread_DeInit: the flag first, then an alert for every worker and a few. *)

SetExitFlag ==
  /\ shutdown = "no"
  /\ shutdown' = "flagged"
  /\ UNCHANGED <<queueVars, hJobAlert, announcing, pc>>

ReleaseExitAlerts(n) ==
  /\ shutdown = "flagged"
  /\ shutdown' = "alerted"
  /\ hJobAlert' = hJobAlert + n + SPARE_ALERTS
  /\ UNCHANGED <<queueVars, announcing, pc>>

DeInit == SetExitFlag \/ \E n \in 0 .. MAX_COUNTED : ReleaseExitAlerts(n)

-------------------------------------------------------------------------------
Worker(t) ==
  \/ WaitJobAlert(t) \/ CheckExit(t) \/ PopJob(t) \/ Return(t)

Next ==
  \/ \E c \in Callers : ReleaseAlert(c) \/ \E j \in Jobs : AppendJob(c, j)
  \/ \E t \in Threads : Worker(t)
  \/ DeInit

Spec == Init /\ [][Next]_vars

\* A worker and a caller that can go on do so; nobody has to queue or to exit.
FairSpec ==
  /\ Spec
  /\ \A t \in Threads : WF_vars(Worker(t))
  /\ \A c \in Callers : WF_vars(ReleaseAlert(c))

-------------------------------------------------------------------------------
TypeOK ==
  /\ lpJobQueue \in [Priorities -> Seq(Jobs)]
  /\ dwPriorityCount \in [Priorities -> Nat]
  /\ bypassed \in [Priorities -> Nat]
  /\ hJobAlert \in Nat
  /\ announcing \subseteq Callers
  /\ pc \in [Threads -> {"wait", "check", "pop", "away"}]
  /\ shutdown \in {"no", "flagged", "alerted"}

Checking == {t \in Threads : pc[t] = "check"}
Popping  == {t \in Threads : pc[t] = "pop"}
Waiting(p) == Len(lpJobQueue[p])
QueueLength ==
  Waiting(JOB_PRIORITY_HIGH) + Waiting(JOB_PRIORITY_NORMAL) + Waiting(JOB_PRIORITY_LOW)

\* Line 602 never dereferences an empty list: every worker that has passed the
\* exit test finds a job of its own, although appending and alerting are two
\* steps, other workers pop the job it was alerted for, and Thread_DeInit
\* releases alerts no job stands behind.
PopFindsJob == Cardinality(Popping) <= QueueLength

\* Why it does: until the exit flag is set, every queued job is matched by one
\* permit, one alerted worker or one caller that is about to alert.
AlertsMatchJobs ==
  ~bThreadExitFlag =>
    QueueLength = hJobAlert + Cardinality(Checking) + Cardinality(Popping)
                    + Cardinality(announcing)

AlertInv == TypeOK /\ PopFindsJob /\ AlertsMatchJobs

\* No priority starves another: a HIGH job list is passed over at most three times in
\* a row, a NORMAL list twice, a LOW list seven times, whatever is queued.
BoundedBypass ==
  /\ bypassed[JOB_PRIORITY_HIGH] <= 3
  /\ bypassed[JOB_PRIORITY_NORMAL] <= 2
  /\ bypassed[JOB_PRIORITY_LOW] <= 7

\* Every job that is queued is popped, unless the server is going down.
QueuedJobPopped ==
  \A j \in Jobs : (j \in Queued) ~> (j \notin Queued \/ bThreadExitFlag)
===============================================================================
