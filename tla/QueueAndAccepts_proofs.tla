----------------------- MODULE QueueAndAccepts_proofs -----------------------
(***************************************************************************)
(* JobQueue for any jobs, priorities, workers and callers: a worker that   *)
(* has passed the exit test finds a job.  The argument counts: until the   *)
(* exit flag is set a queued job is matched by a permit, by an alerted     *)
(* worker or by a caller that is about to alert, so a worker that passes   *)
(* the test stands for a job of its own; afterwards nobody passes any      *)
(* more, and those that have leave with a job each.                        *)
(*                                                                         *)
(* Accepts for any number of indexes, structures and administrators: the   *)
(* accepts that are under way are counted, and while the service listens   *)
(* undisturbed no index goes without.  The second rests on what an         *)
(* administrator has done before he is at rest again: from the closing of  *)
(* the listening socket on nobody else may have opened another one, but    *)
(* for an overlap.                                                         *)
(***************************************************************************)
EXTENDS JobQueue, Accepts, FiniteSetTheorems, TLAPS

-------------------------------------------------------------------------------
(* JobQueue: counting.                                                     *)

\* The workers and callers that are counted are finitely many.
LEMMA CountsFinite ==
  ASSUME TypeOK
  PROVE  /\ IsFiniteSet(Checking) /\ Cardinality(Checking) \in Nat
         /\ IsFiniteSet(Popping) /\ Cardinality(Popping) \in Nat
         /\ IsFiniteSet(announcing) /\ Cardinality(announcing) \in Nat
<1>1. Checking \subseteq Threads /\ Popping \subseteq Threads
  BY DEF Checking, Popping
<1>2. announcing \subseteq Callers
  BY DEF TypeOK
<1> QED
  BY <1>1, <1>2, QueueAssumption, FS_Subset, FS_CardinalityType

\* The length of the queue is a number, the sum over its three lists.
LEMMA LengthIsNat ==
  ASSUME TypeOK
  PROVE  /\ \A p \in Priorities : Waiting(p) \in Nat
         /\ QueueLength \in Nat
<1>1. \A p \in Priorities : Waiting(p) \in Nat
  BY DEF TypeOK, Waiting
<1>2. \A a, b, c \in Nat : a + b + c \in Nat
  OBVIOUS
<1> QED
  BY <1>1, <1>2 DEF QueueLength, Priorities

\* When one list changes the queue grows or shrinks by the difference.
LEMMA OneListChanges ==
  ASSUME TypeOK, NEW p \in Priorities, NEW s \in Seq(Jobs),
         lpJobQueue' = [lpJobQueue EXCEPT ![p] = s]
  PROVE  /\ QueueLength' = (QueueLength - Waiting(p)) + Len(s)
         /\ lpJobQueue' \in [Priorities -> Seq(Jobs)]
<1>1. \A q \in Priorities : Waiting(q) \in Nat
  BY LengthIsNat
<1>2. Waiting(p)' = Len(s) /\ Len(s) \in Nat
  BY DEF TypeOK, Waiting
<1>3. \A q \in Priorities : q # p => Waiting(q)' = Waiting(q)
  BY DEF TypeOK, Waiting
<1>4. /\ JOB_PRIORITY_HIGH # JOB_PRIORITY_NORMAL
      /\ JOB_PRIORITY_HIGH # JOB_PRIORITY_LOW
      /\ JOB_PRIORITY_NORMAL # JOB_PRIORITY_LOW
  BY DEF JOB_PRIORITY_HIGH, JOB_PRIORITY_NORMAL, JOB_PRIORITY_LOW
<1>5. \A a, b, c, d \in Nat : /\ d + b + c = ((a + b + c) - a) + d
                              /\ a + d + c = ((a + b + c) - b) + d
                              /\ a + b + d = ((a + b + c) - c) + d
  OBVIOUS
<1>6. QueueLength' = (QueueLength - Waiting(p)) + Len(s)
  <2>1. CASE p = JOB_PRIORITY_HIGH
    <3>1. /\ Waiting(JOB_PRIORITY_NORMAL)' = Waiting(JOB_PRIORITY_NORMAL)
          /\ Waiting(JOB_PRIORITY_LOW)' = Waiting(JOB_PRIORITY_LOW)
      BY <1>3, <1>4, <2>1 DEF Priorities
    <3> QED
      BY <1>1, <1>2, <1>5, <2>1, <3>1 DEF QueueLength, Priorities
  <2>2. CASE p = JOB_PRIORITY_NORMAL
    <3>1. /\ Waiting(JOB_PRIORITY_HIGH)' = Waiting(JOB_PRIORITY_HIGH)
          /\ Waiting(JOB_PRIORITY_LOW)' = Waiting(JOB_PRIORITY_LOW)
      BY <1>3, <1>4, <2>2 DEF Priorities
    <3> QED
      BY <1>1, <1>2, <1>5, <2>2, <3>1 DEF QueueLength, Priorities
  <2>3. CASE p = JOB_PRIORITY_LOW
    <3>1. /\ Waiting(JOB_PRIORITY_HIGH)' = Waiting(JOB_PRIORITY_HIGH)
          /\ Waiting(JOB_PRIORITY_NORMAL)' = Waiting(JOB_PRIORITY_NORMAL)
      BY <1>3, <1>4, <2>3 DEF Priorities
    <3> QED
      BY <1>1, <1>2, <1>5, <2>3, <3>1 DEF QueueLength, Priorities
  <2> QED
    BY <2>1, <2>2, <2>3 DEF Priorities
<1>7. lpJobQueue' \in [Priorities -> Seq(Jobs)]
  BY DEF TypeOK
<1> QED
  BY <1>6, <1>7

\* A worker that goes to another step of the queue is still at one.
LEMMA WorkerMoves ==
  ASSUME TypeOK, NEW t \in Threads, NEW to \in {"wait", "check", "pop", "away"},
         pc' = [pc EXCEPT ![t] = to]
  PROVE  pc' \in [Threads -> {"wait", "check", "pop", "away"}]
BY DEF TypeOK

\* A worker that joins counts for one, and one that leaves.
LEMMA WorkersCounted ==
  ASSUME TypeOK, NEW t \in Threads, NEW to \in {"wait", "check", "pop", "away"},
         pc' = [pc EXCEPT ![t] = to], pc[t] # to
  PROVE  /\ to = "check" => Cardinality(Checking') = Cardinality(Checking) + 1
         /\ to = "pop" => Cardinality(Popping') = Cardinality(Popping) + 1
         /\ pc[t] = "check" => Cardinality(Checking') = Cardinality(Checking) - 1
         /\ pc[t] = "pop" => Cardinality(Popping') = Cardinality(Popping) - 1
         /\ to # "check" /\ pc[t] # "check" => Cardinality(Checking') = Cardinality(Checking)
         /\ to # "pop" /\ pc[t] # "pop" => Cardinality(Popping') = Cardinality(Popping)
<1>1. /\ t \in Checking <=> pc[t] = "check"
      /\ t \in Popping <=> pc[t] = "pop"
  BY DEF Checking, Popping
<1>2. /\ Cardinality(Checking \cup {t}) =
           IF t \in Checking THEN Cardinality(Checking) ELSE Cardinality(Checking) + 1
      /\ Cardinality(Popping \cup {t}) =
           IF t \in Popping THEN Cardinality(Popping) ELSE Cardinality(Popping) + 1
  BY CountsFinite, FS_AddElement
<1>3. /\ Cardinality(Checking \ {t}) =
           IF t \in Checking THEN Cardinality(Checking) - 1 ELSE Cardinality(Checking)
      /\ Cardinality(Popping \ {t}) =
           IF t \in Popping THEN Cardinality(Popping) - 1 ELSE Cardinality(Popping)
  BY CountsFinite, FS_RemoveElement
<1>4. /\ to = "check" => Checking' = Checking \cup {t}
      /\ to = "pop" => Popping' = Popping \cup {t}
      /\ to # "check" => Checking' = Checking \ {t}
      /\ to # "pop" => Popping' = Popping \ {t}
  BY DEF TypeOK, Checking, Popping
<1>5. CASE to = "check"
  BY <1>1, <1>2, <1>3, <1>4, <1>5
<1>6. CASE to = "pop"
  BY <1>1, <1>2, <1>3, <1>4, <1>6
<1>7. CASE to # "check" /\ to # "pop"
  BY <1>1, <1>3, <1>4, <1>7
<1> QED
  BY <1>5, <1>6, <1>7

-------------------------------------------------------------------------------
(* The invariant.                                                          *)

\* Nothing is queued and nobody has been alerted.
LEMMA InitAlertInv == Init => AlertInv
<1> SUFFICES ASSUME Init PROVE AlertInv
  OBVIOUS
<1>1. TypeOK
  BY DEF Init, QueueInit, TypeOK
<1>2. Checking = {} /\ Popping = {} /\ announcing = {}
  BY DEF Init, QueueInit, Checking, Popping
<1>3. QueueLength = 0
  BY DEF Init, QueueInit, QueueLength, Waiting, Priorities
<1> QED
  BY <1>1, <1>2, <1>3, FS_EmptySet
  DEF AlertInv, PopFindsJob, AlertsMatchJobs, Init, QueueInit

\* A caller appends: one job more, and one caller that is to announce it.
LEMMA AppendKeeps ==
  ASSUME AlertInv, NEW c \in Callers, NEW j \in Jobs, AppendJob(c, j)
  PROVE  AlertInv'
<1> USE DEF AlertInv
<1> DEFINE p == Priority[j]
           s == Append(lpJobQueue[p], j)
<1>1. p \in Priorities /\ lpJobQueue' = [lpJobQueue EXCEPT ![p] = s]
  BY QueueAssumption DEF AppendJob
<1>2. s \in Seq(Jobs) /\ Len(s) = Waiting(p) + 1
  BY <1>1 DEF TypeOK, Waiting
<1> HIDE DEF p, s
<1>3. QueueLength' = QueueLength + 1 /\ lpJobQueue' \in [Priorities -> Seq(Jobs)]
  <2>1. /\ QueueLength' = (QueueLength - Waiting(p)) + Len(s)
        /\ lpJobQueue' \in [Priorities -> Seq(Jobs)]
    BY <1>1, <1>2, OneListChanges
  <2> QED
    BY <1>1, <1>2, <2>1, LengthIsNat
<1>4. Cardinality(announcing') = Cardinality(announcing) + 1
  BY CountsFinite, FS_AddElement DEF AppendJob
<1>5. TypeOK'
  BY <1>3 DEF TypeOK, AppendJob
<1>6. Checking' = Checking /\ Popping' = Popping
  BY DEF AppendJob, Checking, Popping
<1>7. /\ hJobAlert' = hJobAlert /\ hJobAlert \in Nat
      /\ bThreadExitFlag' <=> bThreadExitFlag
  BY DEF AppendJob, bThreadExitFlag, TypeOK
<1> QED
  BY <1>3, <1>4, <1>5, <1>6, <1>7, CountsFinite, LengthIsNat
  DEF PopFindsJob, AlertsMatchJobs

\* The alert: the caller's place is taken by a permit.
LEMMA ReleaseKeeps ==
  ASSUME AlertInv, NEW c \in Callers, ReleaseAlert(c)
  PROVE  AlertInv'
<1> USE DEF AlertInv
<1>1. Cardinality(announcing') = Cardinality(announcing) - 1
  BY CountsFinite, FS_RemoveElement DEF ReleaseAlert
<1>2. TypeOK'
  BY DEF TypeOK, ReleaseAlert, queueVars
<1>3. Checking' = Checking /\ Popping' = Popping /\ QueueLength' = QueueLength
  BY DEF ReleaseAlert, Checking, Popping, QueueLength, Waiting, queueVars
<1>4. /\ hJobAlert' = hJobAlert + 1 /\ hJobAlert \in Nat
      /\ bThreadExitFlag' <=> bThreadExitFlag
  BY DEF ReleaseAlert, bThreadExitFlag, TypeOK
<1> QED
  BY <1>1, <1>2, <1>3, <1>4, CountsFinite, LengthIsNat
  DEF PopFindsJob, AlertsMatchJobs

\* The wait: the permit's place is taken by the worker.
LEMMA WaitKeeps ==
  ASSUME AlertInv, NEW t \in Threads, WaitJobAlert(t)
  PROVE  AlertInv'
<1> USE DEF AlertInv
<1>1. pc[t] = "wait" /\ pc' = [pc EXCEPT ![t] = "check"]
  BY DEF WaitJobAlert, Goto
<1>2. /\ Cardinality(Checking') = Cardinality(Checking) + 1
      /\ Cardinality(Popping') = Cardinality(Popping)
  BY <1>1, WorkersCounted, CountsFinite
<1>3. TypeOK'
  BY <1>1, WorkerMoves DEF TypeOK, WaitJobAlert, queueVars
<1>4. QueueLength' = QueueLength /\ announcing' = announcing
  BY DEF WaitJobAlert, QueueLength, Waiting, queueVars
<1> QED
  BY <1>2, <1>3, <1>4, CountsFinite, LengthIsNat
  DEF PopFindsJob, AlertsMatchJobs, WaitJobAlert, bThreadExitFlag, TypeOK

\* The test: a worker that passes stands for a job, because until then every
\* alerted worker does; behind the exit flag nobody passes.
LEMMA CheckKeeps ==
  ASSUME AlertInv, NEW t \in Threads, CheckExit(t)
  PROVE  AlertInv'
<1> USE DEF AlertInv
<1> DEFINE to == IF bThreadExitFlag THEN "away" ELSE "pop"
<1>1. pc[t] = "check" /\ pc' = [pc EXCEPT ![t] = to]
  BY DEF CheckExit, Goto
<1>2. /\ Cardinality(Checking') = Cardinality(Checking) - 1
      /\ Cardinality(Popping') = IF bThreadExitFlag THEN Cardinality(Popping)
                                                    ELSE Cardinality(Popping) + 1
  BY <1>1, WorkersCounted, CountsFinite
<1>3. TypeOK'
  BY <1>1, WorkerMoves DEF TypeOK, CheckExit, queueVars
<1>4. QueueLength' = QueueLength /\ announcing' = announcing
  BY DEF CheckExit, QueueLength, Waiting, queueVars
<1>5. Cardinality(Checking) > 0
  BY <1>1, CountsFinite, FS_EmptySet DEF Checking
<1>6. /\ hJobAlert' = hJobAlert /\ hJobAlert \in Nat
      /\ bThreadExitFlag' <=> bThreadExitFlag
  BY DEF CheckExit, bThreadExitFlag, TypeOK
<1> QED
  BY <1>2, <1>3, <1>4, <1>5, <1>6, CountsFinite, LengthIsNat
  DEF PopFindsJob, AlertsMatchJobs

\* The turns choose one of the three priorities.
LEMMA NextPriorityType == NextPriority \in Priorities
BY DEF NextPriority, Priorities

\* The pop: one job and one worker less.
LEMMA PopKeeps ==
  ASSUME AlertInv, NEW t \in Threads, PopJob(t)
  PROVE  AlertInv'
<1> USE DEF AlertInv
<1> DEFINE p == NextPriority
           s == Tail(lpJobQueue[p])
<1>1. pc[t] = "pop" /\ pc' = [pc EXCEPT ![t] = "away"]
  BY DEF PopJob, Goto
<1>2. /\ Cardinality(Checking') = Cardinality(Checking)
      /\ Cardinality(Popping') = Cardinality(Popping) - 1
  BY <1>1, WorkersCounted, CountsFinite
<1>3. p \in Priorities /\ lpJobQueue' = [lpJobQueue EXCEPT ![p] = s]
  BY NextPriorityType DEF PopJob, TakeNextJob
<1>4. s \in Seq(Jobs) /\ Len(s) = Waiting(p) - 1
  BY <1>3 DEF TypeOK, Waiting, PopJob, TakeNextJob, Ready
<1>5. dwPriorityCount' \in [Priorities -> Nat] /\ bypassed' \in [Priorities -> Nat]
  BY DEF PopJob, TakeNextJob, TypeOK
<1> HIDE DEF p, s
<1>6. /\ QueueLength' = (QueueLength - Waiting(p)) + Len(s)
      /\ lpJobQueue' \in [Priorities -> Seq(Jobs)]
  BY <1>3, <1>4, OneListChanges
<1>7. QueueLength' = QueueLength - 1
  BY <1>3, <1>4, <1>6, LengthIsNat
<1>8. TypeOK'
  BY <1>1, <1>5, <1>6, WorkerMoves DEF TypeOK, PopJob
<1>9. /\ hJobAlert' = hJobAlert /\ hJobAlert \in Nat /\ announcing' = announcing
      /\ bThreadExitFlag' <=> bThreadExitFlag
  BY DEF PopJob, bThreadExitFlag, TypeOK
<1> QED
  BY <1>2, <1>7, <1>8, <1>9, CountsFinite, LengthIsNat
  DEF PopFindsJob, AlertsMatchJobs

\* A worker that waits again is no longer counted, and was not before.
LEMMA ReturnKeeps ==
  ASSUME AlertInv, NEW t \in Threads, Return(t)
  PROVE  AlertInv'
<1> USE DEF AlertInv
<1>1. pc[t] = "away" /\ pc' = [pc EXCEPT ![t] = "wait"]
  BY DEF Return, Goto
<1>2. /\ Cardinality(Checking') = Cardinality(Checking)
      /\ Cardinality(Popping') = Cardinality(Popping)
  BY <1>1, WorkersCounted, CountsFinite
<1>3. TypeOK'
  BY <1>1, WorkerMoves DEF TypeOK, Return, queueVars
<1>4. QueueLength' = QueueLength
  BY DEF Return, QueueLength, Waiting, queueVars
<1> QED
  BY <1>2, <1>3, <1>4 DEF PopFindsJob, AlertsMatchJobs, Return, bThreadExitFlag

\* Thread_DeInit: its alerts stand for no job, but the flag is set before them.
LEMMA DeInitKeeps ==
  ASSUME AlertInv, DeInit
  PROVE  AlertInv'
<1> USE DEF AlertInv
<1>1. TypeOK'
  BY QueueAssumption DEF DeInit, SetExitFlag, ReleaseExitAlerts, TypeOK, queueVars
<1>2. Checking' = Checking /\ Popping' = Popping /\ QueueLength' = QueueLength
  BY DEF DeInit, SetExitFlag, ReleaseExitAlerts, Checking, Popping, QueueLength, Waiting, queueVars
<1>3. bThreadExitFlag'
  BY DEF DeInit, SetExitFlag, ReleaseExitAlerts, bThreadExitFlag
<1> QED
  BY <1>1, <1>2, <1>3 DEF PopFindsJob, AlertsMatchJobs

\* The inductive step.
LEMMA NextAlertInv == AlertInv /\ [Next]_vars => AlertInv'
<1> SUFFICES ASSUME AlertInv, [Next]_vars PROVE AlertInv'
  OBVIOUS
<1>1. CASE UNCHANGED vars
  BY <1>1 DEF vars, queueVars, AlertInv, TypeOK, PopFindsJob, AlertsMatchJobs,
              bThreadExitFlag, Checking, Popping, QueueLength, Waiting
<1>2. ASSUME NEW c \in Callers, ReleaseAlert(c) \/ \E j \in Jobs : AppendJob(c, j)
      PROVE  AlertInv'
  BY <1>2, ReleaseKeeps, AppendKeeps
<1>3. ASSUME NEW t \in Threads, Worker(t)
      PROVE  AlertInv'
  BY <1>3, WaitKeeps, CheckKeeps, PopKeeps, ReturnKeeps DEF Worker
<1>4. CASE DeInit
  BY <1>4, DeInitKeeps
<1> QED
  BY <1>1, <1>2, <1>3, <1>4 DEF Next

\* Line 602 of Threads.c finds a job whenever a worker reaches it, for any jobs,
\* workers and callers, also while Thread_DeInit releases alerts without jobs.
THEOREM PopsFindJobs == Spec => []AlertInv
<1> QED
  BY InitAlertInv, NextAlertInv, PTL DEF Spec
-------------------------------------------------------------------------------
(* The turns.  How often a priority may be passed over depends on where    *)
(* the counters of the other two stand: after NORMAL's turn its counter    *)
(* starts over, after LOW's turn LOW's does.                               *)

HIGH   == JOB_PRIORITY_HIGH
NORMAL == JOB_PRIORITY_NORMAL
LOW    == JOB_PRIORITY_LOW

TurnsInv ==
  /\ \A p \in Priorities : ~ Ready(p) => dwPriorityCount[p] = 0 /\ bypassed[p] = 0
  /\ dwPriorityCount[NORMAL] <= 1 /\ dwPriorityCount[LOW] <= 3
  /\ bypassed[LOW] <= (2 * dwPriorityCount[LOW] + 1) - dwPriorityCount[NORMAL]
  /\ bypassed[NORMAL] <= dwPriorityCount[NORMAL] + 1
  /\ bypassed[NORMAL] = dwPriorityCount[NORMAL] + 1 => dwPriorityCount[LOW] <= dwPriorityCount[NORMAL]
  /\ bypassed[HIGH] <= 3
  /\ bypassed[HIGH] >= 1 => dwPriorityCount[NORMAL] = 0 \/ dwPriorityCount[LOW] = 0
  /\ bypassed[HIGH] >= 2 => dwPriorityCount[LOW] = 0
  /\ bypassed[HIGH] >= 3 => dwPriorityCount[NORMAL] = 0

\* The three priorities are different.
LEMMA ThreePriorities ==
  /\ Priorities = {HIGH, NORMAL, LOW}
  /\ HIGH # NORMAL /\ HIGH # LOW /\ NORMAL # LOW
BY DEF Priorities, HIGH, NORMAL, LOW, JOB_PRIORITY_HIGH, JOB_PRIORITY_NORMAL, JOB_PRIORITY_LOW

\* Appending makes a priority ready and changes no counter.
LEMMA AppendTurns ==
  ASSUME TypeOK, TurnsInv, NEW c \in Callers, NEW j \in Jobs, AppendJob(c, j)
  PROVE  TurnsInv'
<1>1. /\ Priority[j] \in Priorities
      /\ lpJobQueue' = [lpJobQueue EXCEPT ![Priority[j]] = Append(@, j)]
      /\ dwPriorityCount' = dwPriorityCount /\ bypassed' = bypassed
  BY QueueAssumption DEF AppendJob
<1>2. \A p \in Priorities : Ready(p) => Ready(p)'
  <2>1. \A q \in Seq(Jobs) : Append(q, j) # <<>>
    <3> TAKE q \in Seq(Jobs)
    <3>1. Len(Append(q, j)) = Len(q) + 1 /\ Len(q) \in Nat /\ Len(<<>>) = 0
      OBVIOUS
    <3> QED
      BY <3>1
  <2> TAKE p \in Priorities
  <2>2. lpJobQueue[p] \in Seq(Jobs)
    BY DEF TypeOK
  <2>3. lpJobQueue'[p] \in {lpJobQueue[p], Append(lpJobQueue[p], j)}
    BY <1>1 DEF TypeOK
  <2> QED
    BY <2>1, <2>2, <2>3 DEF Ready
<1> QED
  BY <1>1, <1>2 DEF TurnsInv

\* A pop empties at most the list it takes the job from.
LEMMA PopReady ==
  ASSUME TypeOK, TakeNextJob
  PROVE  \A p \in Priorities : p # NextPriority => (Ready(p)' <=> Ready(p))
BY NextPriorityType DEF TakeNextJob, TypeOK, Ready

\* Whichever turn it is, the pop keeps the counters in step with the passes.
LEMMA PopTurns ==
  ASSUME TypeOK, TurnsInv, TakeNextJob
  PROVE  TurnsInv'
<1> USE ThreePriorities
<1> DEFINE cn == dwPriorityCount[NORMAL]
           cl == dwPriorityCount[LOW]
<1>1. /\ cn \in Nat /\ cl \in Nat
      /\ bypassed[HIGH] \in Nat /\ bypassed[NORMAL] \in Nat /\ bypassed[LOW] \in Nat
  BY DEF TypeOK
<1>2. \A p \in Priorities :
         bypassed'[p] = IF p = NextPriority \/ ~ Ready(p) THEN 0 ELSE bypassed[p] + 1
  BY DEF TakeNextJob
<1>3. /\ NextPriority = HIGH => dwPriorityCount'[HIGH] = 0
      /\ NextPriority # HIGH => dwPriorityCount'[HIGH] = dwPriorityCount[HIGH]
      /\ cn' = IF NextPriority = NORMAL THEN 0 ELSE IF CountsNormal THEN cn + 1 ELSE cn
      /\ cl' = IF NextPriority = LOW THEN 0 ELSE IF CountsLow THEN cl + 1 ELSE cl
  BY DEF TakeNextJob, HIGH, NORMAL, LOW
<1>4. \A p \in Priorities : ~ Ready(p)' => dwPriorityCount'[p] = 0 /\ bypassed'[p] = 0
  <2> TAKE p \in Priorities
  <2> HAVE ~ Ready(p)'
  <2>1. CASE p = NextPriority
    BY <1>2, <1>3, <2>1
  <2>2. CASE p # NextPriority
    <3>1. ~ Ready(p)
      BY <2>2, PopReady
    <3>2. ~ (p = NORMAL /\ CountsNormal) /\ ~ (p = LOW /\ CountsLow)
      BY <3>1 DEF CountsNormal, CountsLow, NORMAL, LOW
    <3> QED
      BY <1>2, <1>3, <2>2, <3>1, <3>2 DEF TurnsInv
  <2> QED
    BY <2>1, <2>2
<1>5. Ready(NextPriority)
  BY DEF TakeNextJob
<1>6. CASE NextPriority = HIGH
  <2>1. /\ Ready(HIGH)
        /\ CountsNormal <=> Ready(NORMAL)
        /\ Ready(NORMAL) => cn + 1 < 2
        /\ CountsLow <=> Ready(LOW)
        /\ Ready(LOW) => cl + 1 < 4
    BY <1>1, <1>5, <1>6 DEF NextPriority, NormalsTurn, LowsTurn, CountsNormal, CountsLow, HIGH, NORMAL, LOW
  <2> QED
    BY <1>1, <1>2, <1>3, <1>4, <1>6, <2>1 DEF TurnsInv
<1>7. CASE NextPriority = NORMAL
  <2>1. /\ Ready(NORMAL)
        /\ Ready(HIGH) => cn + 1 >= 2 /\ ~ CountsLow
        /\ ~ Ready(HIGH) => (CountsLow <=> Ready(LOW)) /\ (Ready(LOW) => cl + 1 < 4)
    BY <1>1, <1>5, <1>7 DEF NextPriority, NormalsTurn, LowsTurn, CountsNormal, CountsLow, HIGH, NORMAL, LOW
  <2>2. /\ cn' = 0 /\ bypassed'[NORMAL] = 0
        /\ cl' = IF CountsLow THEN cl + 1 ELSE cl
        /\ bypassed'[HIGH] = IF Ready(HIGH) THEN bypassed[HIGH] + 1 ELSE 0
        /\ bypassed'[LOW] = IF Ready(LOW) THEN bypassed[LOW] + 1 ELSE 0
    BY <1>2, <1>3, <1>7
  <2>3. CASE Ready(HIGH)
    <3>1. cn = 1 /\ cl' = cl /\ cl <= 3 /\ bypassed[LOW] <= 2 * cl
      BY <1>1, <2>1, <2>2, <2>3 DEF TurnsInv
    <3>2. /\ bypassed[HIGH] <= 2
          /\ bypassed[HIGH] >= 1 => cl = 0
      BY <1>1, <3>1 DEF TurnsInv
    <3>3. bypassed'[LOW] <= 2 * cl + 1
      BY <1>1, <2>2, <3>1
    <3> QED
      BY <1>1, <1>4, <2>2, <2>3, <3>1, <3>2, <3>3 DEF TurnsInv
  <2>4. CASE ~ Ready(HIGH)
    BY <1>1, <1>4, <2>1, <2>2, <2>4 DEF TurnsInv
  <2> QED
    BY <2>3, <2>4
<1>8. CASE NextPriority = LOW
  <2>1. /\ Ready(LOW)
        /\ CountsNormal <=> Ready(HIGH) /\ Ready(NORMAL)
        /\ Ready(HIGH) => cl + 1 >= 4 /\ (Ready(NORMAL) => cn + 1 < 2)
        /\ Ready(NORMAL) => cl + 1 >= 4
    BY <1>1, <1>5, <1>8 DEF NextPriority, NormalsTurn, LowsTurn, CountsNormal, CountsLow, HIGH, NORMAL, LOW
  <2> QED
    BY <1>1, <1>2, <1>3, <1>4, <1>8, <2>1 DEF TurnsInv
<1> QED
  BY <1>6, <1>7, <1>8, NextPriorityType

\* Only appending and popping change the turns.
LEMMA NextTurns == AlertInv /\ TurnsInv /\ [Next]_vars => TurnsInv'
<1> SUFFICES ASSUME AlertInv, TurnsInv, [Next]_vars PROVE TurnsInv'
  OBVIOUS
<1>1. TypeOK
  BY DEF AlertInv
<1>2. CASE UNCHANGED queueVars
  BY <1>2 DEF queueVars, TurnsInv, Ready
<1>3. ASSUME NEW c \in Callers, NEW j \in Jobs, AppendJob(c, j) PROVE TurnsInv'
  BY <1>1, <1>3, AppendTurns
<1>4. ASSUME NEW t \in Threads, PopJob(t) PROVE TurnsInv'
  BY <1>1, <1>4, PopTurns DEF PopJob
<1> QED
  BY <1>2, <1>3, <1>4
  DEF Next, Worker, ReleaseAlert, WaitJobAlert, CheckExit, Return, DeInit, SetExitFlag,
      ReleaseExitAlerts, vars

\* The counters are numbers and bound the passes.
LEMMA TurnsBound == AlertInv /\ TurnsInv => BoundedBypass
<1> SUFFICES ASSUME AlertInv, TurnsInv PROVE BoundedBypass
  OBVIOUS
<1>1. /\ dwPriorityCount[NORMAL] \in Nat /\ dwPriorityCount[LOW] \in Nat
      /\ bypassed[HIGH] \in Nat /\ bypassed[NORMAL] \in Nat /\ bypassed[LOW] \in Nat
  BY ThreePriorities DEF AlertInv, TypeOK
<1> QED
  BY <1>1 DEF TurnsInv, BoundedBypass, HIGH, NORMAL, LOW

\* However long jobs of other priorities keep coming, a HIGH job is passed over at
\* most three times in a row, a NORMAL one twice, a LOW one seven times.
THEOREM NobodyStarves == Spec => []BoundedBypass
<1>1. Init => TurnsInv
  BY ThreePriorities DEF Init, QueueInit, TurnsInv
<1> QED
  BY <1>1, NextTurns, TurnsBound, PopsFindJobs, PTL DEF Spec

-------------------------------------------------------------------------------
(* Accepts: the inductive invariant.                                       *)

AdminSteps == {"idle", "inactive", "close", "take", "closeOne", "wait", "open", "bind"}
NewSteps   == {"unused", "new", "waiting", "done", "uncount", "test"}

WindowRecord == [at : {"idle", "accept", "store", "count"}, index : Indexes \cup {NoIndex},
                 nc : News \cup {None}]
NewRecord    == [at : NewSteps, index : Indexes \cup {NoIndex}, on : Nat, open : BOOLEAN, err : BOOLEAN]
AdminRecord  == [at : AdminSteps, todo : SUBSET Indexes, nc : News \cup {None}, then : {"idle", "open"}]

NewsOK ==
  /\ nc \in [News -> NewRecord]
  /\ \A n \in News : nc[n].at # "unused" => nc[n].index \in Indexes

AcceptsTypeOK ==
  /\ dwDaemonStatus \in {"active", "grace", "shutdown"}
  /\ bActive \in BOOLEAN /\ listen \in Nat /\ listening \in BOOLEAN
  /\ lAcceptClients \in Int
  /\ lpAcceptClients \in [Indexes -> News \cup {None, Failed}]
  /\ messages \in Seq(Indexes)
  /\ window \in WindowRecord
  /\ NewsOK
  /\ admin \in [Controls -> AdminRecord]
  /\ starts \in Nat /\ overlapped \in BOOLEAN

\* The structure the window has for its accept is nobody else's until AcceptEx.
WindowOK ==
  /\ window.at # "idle" => window.index \in Indexes /\ window.nc \in News
  /\ window.at = "accept" =>
       nc[window.nc].at = "new" /\ nc[window.nc].index = window.index

Counted == IsFiniteSet(Outstanding) /\ AcceptsCounted

\* A service that listens is active, or about to be closed.
ActiveWhileListening == listening => bActive \/ \E a \in Controls : admin[a].at = "close"

Overlaps == Overlap => overlapped

\* Nobody listens behind the back of a shutdown, unless it overlaps with a start.
ClosedByShutdown ==
  ~ overlapped =>
    \A a \in Controls : admin[a].at \in {"take", "closeOne", "wait"} => ~ listening

\* An accept that is not closed, or what will be one.
Waits(i) ==
  \/ window.at = "accept" /\ window.index = i /\ nc[window.nc].open
  \/ \E k \in DOMAIN messages : messages[k] = i
  \/ \E n \in News : /\ nc[n].index = i /\ nc[n].on = listen /\ nc[n].open
                     /\ nc[n].at \in {"waiting", "done", "uncount", "test"}

EachWaits == Undisturbed => \A i \in Indexes \ lost : Waits(i)

Listens == ActiveWhileListening /\ Overlaps /\ ClosedByShutdown

AcceptsIInv == AcceptsTypeOK /\ WindowOK /\ Counted /\ Listens /\ EachWaits

\* What the runs check follows: an index that waits is served.
LEMMA AcceptsIInvImplies == AcceptsIInv => AcceptsInv
<1> SUFFICES ASSUME AcceptsIInv PROVE KeepsListening
  BY DEF AcceptsIInv, Counted, AcceptsInv
<1> SUFFICES ASSUME Undisturbed, NEW i \in Indexes \ lost PROVE Served(i)
  BY DEF KeepsListening
<1>1. Waits(i)
  BY DEF AcceptsIInv, EachWaits
<1> QED
  BY <1>1 DEF Waits, Served

-------------------------------------------------------------------------------
(* Lemmas about what a step leaves alone.                                  *)

One(b) == IF b THEN 1 ELSE 0

\* A set that differs in one member differs by one in number, if at all.
LEMMA OneMore ==
  ASSUME NEW S, NEW T, NEW n, IsFiniteSet(S), S \ {n} = T \ {n}
  PROVE  /\ IsFiniteSet(T) /\ Cardinality(S) \in Nat /\ Cardinality(T) \in Nat
         /\ Cardinality(T) = Cardinality(S) + One(n \in T) - One(n \in S)
<1> DEFINE R == S \ {n}
<1>1. IsFiniteSet(R) /\ Cardinality(R) \in Nat
  BY FS_Subset, FS_CardinalityType
<1>2. S = (IF n \in S THEN R \cup {n} ELSE R) /\ T = (IF n \in T THEN R \cup {n} ELSE R)
  OBVIOUS
<1>3. n \notin R
  OBVIOUS
<1> HIDE DEF R
<1>4. IsFiniteSet(R \cup {n}) /\ Cardinality(R \cup {n}) = Cardinality(R) + 1
  BY <1>1, <1>3, FS_AddElement
<1>5. Cardinality(S) = Cardinality(R) + One(n \in S)
  <2>1. CASE n \in S
    BY <1>2, <1>4, <2>1 DEF One
  <2>2. CASE n \notin S
    BY <1>1, <1>2, <2>2 DEF One
  <2> QED
    BY <2>1, <2>2
<1>6. IsFiniteSet(T) /\ Cardinality(T) = Cardinality(R) + One(n \in T)
  <2>1. CASE n \in T
    BY <1>2, <1>4, <2>1 DEF One
  <2>2. CASE n \notin T
    BY <1>1, <1>2, <2>2 DEF One
  <2> QED
    BY <2>1, <2>2
<1> QED
  BY <1>1, <1>5, <1>6 DEF One

\* The steps of the window and of the completion port leave the admins alone.
LEMMA Aside ==
  ASSUME Listens, UNCHANGED <<bActive, listening, admin, overlapped>>
  PROVE  Listens'
BY DEF Listens, ActiveWhileListening, Overlaps, Overlap, Shutting, Starting, ClosedByShutdown

\* One structure takes a step: the count follows if it did before.
LEMMA CountFollows ==
  ASSUME AcceptsTypeOK, Counted, NEW n \in News,
         \A m \in News \ {n} : nc'[m] = nc[m],
         lAcceptClients' \in Int,
         dwDaemonStatus' # "shutdown" =>
           /\ dwDaemonStatus # "shutdown"
           /\ lAcceptClients' + One((window.at \in {"store", "count"})') - One((n \in Outstanding)')
              = lAcceptClients + One(window.at \in {"store", "count"}) - One(n \in Outstanding)
  PROVE  Counted'
<1>1. Outstanding \ {n} = Outstanding' \ {n}
  BY DEF Outstanding
<1>2. IsFiniteSet(Outstanding)
  BY DEF Counted
<1>3. /\ IsFiniteSet(Outstanding') /\ Cardinality(Outstanding) \in Nat /\ Cardinality(Outstanding') \in Nat
      /\ Cardinality(Outstanding') = Cardinality(Outstanding) + One(n \in Outstanding') - One(n \in Outstanding)
  BY <1>1, <1>2, OneMore
<1>4. AcceptsCounted'
  <2> DEFINE Counting == window.at \in {"store", "count"}
  <2> SUFFICES ASSUME (dwDaemonStatus # "shutdown")'
               PROVE  (lAcceptClients = Cardinality(Outstanding) - One(Counting))'
    BY DEF AcceptsCounted, One
  <2>1. lAcceptClients = Cardinality(Outstanding) - One(Counting)
    BY DEF Counted, AcceptsCounted, One
  <2>2. \A b : One(b) \in Int
    BY DEF One
  <2>3. lAcceptClients' + One(Counting') - One(n \in Outstanding')
        = lAcceptClients + One(Counting) - One(n \in Outstanding)
    OBVIOUS
  <2>5. lAcceptClients \in Int
    BY DEF AcceptsTypeOK, NewsOK
  <2>6. Cardinality(Outstanding) \in Int /\ Cardinality(Outstanding') \in Int /\ lAcceptClients' \in Int
    BY <1>3
  <2> HIDE DEF Counting
  <2>7. One(Counting) \in Int /\ One(Counting') \in Int
        /\ One(n \in Outstanding) \in Int /\ One(n \in Outstanding') \in Int
    BY <2>2
  <2> PICK w1 \in Int, w2 \in Int, o1 \in Int, o2 \in Int :
             /\ w1 = One(Counting) /\ w2 = One(Counting')
             /\ o1 = One(n \in Outstanding) /\ o2 = One(n \in Outstanding')
    BY <2>7, Zenon
  <2>8. /\ lAcceptClients = Cardinality(Outstanding) - w1
        /\ lAcceptClients' + w2 - o2 = lAcceptClients + w1 - o1
        /\ Cardinality(Outstanding') = Cardinality(Outstanding) + o2 - o1
    BY ONLY <1>3, <2>1, <2>3,
            w1 = One(Counting), w2 = One(Counting'),
            o1 = One(n \in Outstanding), o2 = One(n \in Outstanding'), Zenon
  <2>9. lAcceptClients' = Cardinality(Outstanding') - w2
    BY ONLY <2>5, <2>6, <2>8, w1 \in Int, w2 \in Int, o1 \in Int, o2 \in Int
  <2> QED
    BY <2>9, w2 = One(Counting'), Zenon
<1> QED
  BY <1>3, <1>4 DEF Counted

\* One structure changes: its record is looked at alone.
LEMMA NewsFollow ==
  ASSUME NewsOK, NEW n \in News, nc' = [m \in News |-> IF m = n THEN nc'[n] ELSE nc[m]],
         nc'[n] \in NewRecord, nc'[n].at # "unused" => nc'[n].index \in Indexes
  PROVE  NewsOK'
BY DEF NewsOK

\* No structure takes a step that the count is about, nor the window.
LEMMA CountStays ==
  ASSUME Counted, UNCHANGED <<lAcceptClients, window>>,
         \A n \in News : nc'[n].at = nc[n].at,
         dwDaemonStatus' # "shutdown" => dwDaemonStatus # "shutdown"
  PROVE  Counted'
<1>1. Outstanding' = Outstanding
  BY DEF Outstanding
<1> QED
  BY <1>1 DEF Counted, AcceptsCounted
-------------------------------------------------------------------------------
(* The thread of the main window.                                          *)

\* A message that is taken leaves the others.
LEMMA TakeMessage ==
  ASSUME messages \in Seq(Indexes), messages # <<>>
  PROVE  /\ Head(messages) \in Indexes /\ Tail(messages) \in Seq(Indexes)
         /\ \A k \in DOMAIN messages :
              messages[k] = Head(messages) \/ \E l \in DOMAIN Tail(messages) : Tail(messages)[l] = messages[k]
<1>1. \A k \in DOMAIN messages : k # 1 => k - 1 \in DOMAIN Tail(messages) /\ Tail(messages)[k - 1] = messages[k]
  OBVIOUS
<1>2. Head(messages) = messages[1] /\ Head(messages) \in Indexes /\ Tail(messages) \in Seq(Indexes)
  OBVIOUS
<1> QED
  BY <1>1, <1>2

\* The message it takes becomes an accept, or the index is lost.
LEMMA WindowTakesKeeps == ASSUME AcceptsIInv, WindowTakes, UNCHANGED overlapped PROVE AcceptsIInv'
<1> USE DEF WindowTakes, AcceptsIInv
<1> DEFINE i == Head(messages)
<1>1. i \in Indexes /\ messages' \in Seq(Indexes)
  BY TakeMessage DEF AcceptsTypeOK, NewsOK
<1>2. \A j \in Indexes : j # i => (Waits(j) => Waits(j)')
  <2> SUFFICES ASSUME NEW j \in Indexes, j # i, Waits(j) PROVE Waits(j)'
    OBVIOUS
  <2>1. CASE \E k \in DOMAIN messages : messages[k] = j
    BY <2>1, TakeMessage DEF Waits, AcceptsTypeOK, NewsOK
  <2>2. CASE \E n \in News : /\ nc[n].index = j /\ nc[n].on = listen /\ nc[n].open
                            /\ nc[n].at \in {"waiting", "done", "uncount", "test"}
    <3>1. PICK n \in News : /\ nc[n].index = j /\ nc[n].on = listen /\ nc[n].open
                            /\ nc[n].at \in {"waiting", "done", "uncount", "test"}
      BY <2>2
    <3>2. nc'[n] = nc[n] /\ listen' = listen
      BY <3>1 DEF AcceptsTypeOK, NewsOK, service
    <3> QED
      BY <3>1, <3>2 DEF Waits
  <2> QED
    BY <2>1, <2>2 DEF Waits
<1>3. Listens'
  BY Aside DEF service
<1>4. CASE /\ nc' = nc
           /\ \/ window' = NoWindow
              \/ dwDaemonStatus # "active" /\ UNCHANGED <<lpAcceptClients, window>>
  <2> USE <1>4
  <2>1. AcceptsTypeOK' /\ WindowOK'
    <3>1. window' \in WindowRecord
      BY DEF WindowRecord, NoWindow, AcceptsTypeOK, NewsOK
    <3>2. lpAcceptClients' \in [Indexes -> News \cup {None, Failed}]
      BY <1>1 DEF Fails, AcceptsTypeOK, NewsOK
    <3>3. window'.at = "idle"
      BY DEF NoWindow
    <3> QED
      BY <1>1, <3>1, <3>2, <3>3 DEF AcceptsTypeOK, NewsOK, WindowOK, service
  <2>2. Counted'
    <3>1. Outstanding' = Outstanding /\ window.at = "idle" /\ window'.at = "idle"
      BY DEF Outstanding, NoWindow
    <3> QED
      BY <3>1 DEF Counted, AcceptsCounted
  <2>3. EachWaits'
    <3> SUFFICES ASSUME Undisturbed', NEW j \in Indexes \ lost' PROVE Waits(j)'
      BY DEF EachWaits
    <3>1. Undisturbed
      BY DEF Undisturbed, service
    <3>2. bActive
      BY <3>1 DEF Undisturbed, Listens, ActiveWhileListening, AtRest
    <3>3. i \in lost' /\ lost \subseteq lost'
      BY <3>1, <3>2 DEF Undisturbed, ghosts, NoWindow
    <3> QED
      BY <1>2, <3>1, <3>3 DEF EachWaits
  <2> QED
    BY <1>3, <2>1, <2>2, <2>3
<1>5. CASE \E n \in News :
             /\ nc[n].at = "unused"
             /\ nc' = [nc EXCEPT ![n] = [NoNew EXCEPT !.at = "new", !.index = i, !.open = TRUE]]
             /\ window' = [at |-> "accept", index |-> i, nc |-> n]
             /\ UNCHANGED <<lpAcceptClients, ghosts>>
  <2>1. PICK n \in News :
             /\ nc[n].at = "unused"
             /\ nc' = [nc EXCEPT ![n] = [NoNew EXCEPT !.at = "new", !.index = i, !.open = TRUE]]
             /\ window' = [at |-> "accept", index |-> i, nc |-> n]
             /\ UNCHANGED <<lpAcceptClients, ghosts>>
    BY <1>5
  <2>2. /\ nc'[n] = [at |-> "new", index |-> i, on |-> INVALID_SOCKET, open |-> TRUE, err |-> FALSE]
        /\ \A m \in News \ {n} : nc'[m] = nc[m]
    BY <2>1 DEF NoNew, AcceptsTypeOK, NewsOK
  <2>3. AcceptsTypeOK'
    <3>1. NewsOK'
      <4>1. nc' = [m \in News |-> IF m = n THEN nc'[n] ELSE nc[m]]
        BY <2>1 DEF AcceptsTypeOK, NewsOK
      <4>2. nc'[n] \in NewRecord /\ nc'[n].index \in Indexes
        BY <1>1, <2>2 DEF NewRecord, NewSteps, INVALID_SOCKET
      <4> QED
        BY <4>1, <4>2, NewsFollow DEF AcceptsTypeOK
    <3>2. window' \in WindowRecord
      BY <1>1, <2>1 DEF WindowRecord
    <3> QED
      BY <1>1, <2>1, <3>1, <3>2 DEF AcceptsTypeOK, service
  <2>4. WindowOK'
    BY <1>1, <2>1, <2>2 DEF WindowOK
  <2>5. Counted'
    <3>1. ~ (n \in Outstanding) /\ ~ (n \in Outstanding)' /\ window.at = "idle" /\ window'.at = "accept"
      BY <2>1, <2>2 DEF Outstanding
    <3> QED
      BY <2>2, <3>1, CountFollows DEF One, AcceptsTypeOK, NewsOK
  <2>6. EachWaits'
    <3> SUFFICES ASSUME Undisturbed', NEW j \in Indexes \ lost' PROVE Waits(j)'
      BY DEF EachWaits
    <3>1. Undisturbed /\ lost' = lost
      BY <2>1 DEF Undisturbed, service, ghosts
    <3>2. CASE j = i
      BY <2>1, <2>2, <3>2 DEF Waits
    <3> QED
      BY <1>2, <3>1, <3>2 DEF EachWaits
  <2> QED
    BY <1>3, <2>3, <2>4, <2>5, <2>6
<1> QED
  BY <1>4, <1>5 DEF Fails

\* AcceptEx: the accept waits on the socket that listens now, or its index is lost.
LEMMA CallAcceptKeeps == ASSUME AcceptsIInv, CallAccept, UNCHANGED overlapped PROVE AcceptsIInv'
<1> USE DEF CallAccept, AcceptsIInv
<1> PICK n \in News : n = window.nc
  BY DEF WindowOK
<1>1. n \in News /\ window.index \in Indexes /\ nc[n].at = "new" /\ nc[n].index = window.index
  BY DEF WindowOK
<1>2. Listens'
  BY Aside DEF service
<1>3. \A m \in News \ {n} : nc'[m] = nc[m]
  BY <1>1 DEF AcceptsTypeOK, NewsOK
<1>4. CASE listening
  <2>1. /\ nc' = [nc EXCEPT ![n].at = "waiting", ![n].on = listen]
        /\ window' = [window EXCEPT !.at = "store"]
        /\ UNCHANGED <<lpAcceptClients, lost>>
    BY <1>4
  <2>2. AcceptsTypeOK'
    <3>1. nc' = [m \in News |-> IF m = n THEN nc'[n] ELSE nc[m]]
      BY <1>1, <2>1 DEF AcceptsTypeOK, NewsOK
    <3>2. nc'[n] = [nc[n] EXCEPT !.at = "waiting", !.on = listen]
      BY <1>1, <2>1 DEF AcceptsTypeOK, NewsOK
    <3>3. nc'[n] \in NewRecord /\ nc'[n].index = window.index
      BY <1>1, <3>2 DEF AcceptsTypeOK, NewsOK, NewRecord, NewSteps
    <3>4. NewsOK'
      BY <1>1, <3>1, <3>3, NewsFollow DEF AcceptsTypeOK
    <3>5. window' \in WindowRecord
      BY <2>1 DEF AcceptsTypeOK, WindowRecord
    <3> QED
      BY <2>1, <3>4, <3>5 DEF AcceptsTypeOK, service
  <2>3. /\ window'.at = "store" /\ window'.index = window.index /\ window'.nc = n
        /\ nc'[n].at = "waiting" /\ nc'[n].on = listen /\ nc'[n].index = window.index
        /\ nc'[n].open = nc[n].open
    BY <1>1, <2>1 DEF AcceptsTypeOK, NewsOK
  <2>4. WindowOK'
    BY <1>1, <2>3 DEF WindowOK
  <2>5. Counted'
    <3>1. ~ (n \in Outstanding) /\ (n \in Outstanding)'
      BY <1>1, <2>3 DEF Outstanding
    <3> QED
      BY <1>1, <1>3, <2>3, <3>1, CountFollows DEF One, AcceptsTypeOK, NewsOK
  <2>6. EachWaits'
    <3> SUFFICES ASSUME Undisturbed', NEW j \in Indexes \ lost' PROVE Waits(j)'
      BY DEF EachWaits
    <3>1. Undisturbed /\ lost' = lost /\ listen' = listen /\ messages' = messages
      BY <2>1 DEF Undisturbed, service
    <3>2. Waits(j)
      BY <3>1 DEF EachWaits
    <3>3. CASE window.at = "accept" /\ window.index = j /\ nc[window.nc].open
      BY <1>1, <2>3, <3>1, <3>3 DEF Waits
    <3>4. CASE \E m \in News : /\ nc[m].index = j /\ nc[m].on = listen /\ nc[m].open
                              /\ nc[m].at \in {"waiting", "done", "uncount", "test"}
      BY <1>1, <1>3, <3>1, <3>4 DEF Waits
    <3> QED
      BY <3>1, <3>2, <3>3, <3>4 DEF Waits
  <2> QED
    BY <1>2, <2>2, <2>4, <2>5, <2>6
<1>5. CASE ~ listening
  <2>1. /\ nc' = [nc EXCEPT ![n] = NoNew]
        /\ Fails(window.index) /\ lost' = lost \cup {window.index}
    BY <1>5
  <2>2. nc'[n] = NoNew
    BY <1>1, <2>1 DEF AcceptsTypeOK, NewsOK
  <2>3. AcceptsTypeOK' /\ WindowOK'
    <3>1. nc' = [m \in News |-> IF m = n THEN nc'[n] ELSE nc[m]]
      BY <1>1, <2>1 DEF AcceptsTypeOK, NewsOK
    <3>2. nc'[n] \in NewRecord /\ nc'[n].at = "unused"
      BY <2>2 DEF NoNew, NewRecord, NewSteps, INVALID_SOCKET
    <3>3. NewsOK'
      BY <1>1, <3>1, <3>2, NewsFollow DEF AcceptsTypeOK
    <3>4. NoWindow \in WindowRecord /\ NoWindow.at = "idle"
      BY DEF WindowRecord, NoWindow
    <3>5. lpAcceptClients' \in [Indexes -> News \cup {None, Failed}]
      BY <2>1 DEF AcceptsTypeOK, Fails
    <3> QED
      BY <2>1, <3>3, <3>4, <3>5 DEF AcceptsTypeOK, WindowOK, Fails, service
  <2>4. Counted'
    <3>1. ~ (n \in Outstanding)
      BY <1>1 DEF Outstanding
    <3>2. ~ (n \in Outstanding)'
      BY <2>2 DEF Outstanding, NoNew
    <3>3. window'.at = "idle"
      BY <2>1 DEF Fails, NoWindow
    <3> QED
      BY <1>1, <1>3, <3>1, <3>2, <3>3, CountFollows DEF One, AcceptsTypeOK
  <2>5. EachWaits'
    BY <1>5 DEF EachWaits, Undisturbed, service
  <2> QED
    BY <1>2, <2>3, <2>4, <2>5
<1> QED
  BY <1>4, <1>5

\* The pointer is stored and the accept counted; its index has been served since AcceptEx.
LEMMA StoreAndCountKeep ==
  ASSUME AcceptsIInv, StoreAccept \/ CountAccept, UNCHANGED overlapped PROVE AcceptsIInv'
<1> USE DEF StoreAccept, CountAccept, AcceptsIInv
<1>1. Listens'
  BY Aside DEF service
<1>2. AcceptsTypeOK'
  <2>1. window' \in WindowRecord
    BY DEF AcceptsTypeOK, WindowRecord, NoWindow
  <2>2. lpAcceptClients' \in [Indexes -> News \cup {None, Failed}]
    BY DEF AcceptsTypeOK, WindowOK
  <2>3. lAcceptClients' \in Int
    BY DEF AcceptsTypeOK
  <2>4. NewsOK'
    BY DEF AcceptsTypeOK, NewsOK
  <2> QED
    BY <2>1, <2>2, <2>3, <2>4 DEF AcceptsTypeOK, service
<1>3. WindowOK' /\ window.at # "accept" /\ window'.at # "accept" /\ nc' = nc
  BY DEF AcceptsTypeOK, WindowRecord, WindowOK, NoWindow
<1>4. Counted'
  <2>1. Outstanding' = Outstanding
    BY <1>3 DEF Outstanding
  <2>2. Cardinality(Outstanding) \in Nat
    BY FS_CardinalityType DEF Counted
  <2>3. CASE StoreAccept
    <3>1. window'.at = "count" /\ window.at = "store" /\ UNCHANGED <<lAcceptClients, dwDaemonStatus>>
      BY <2>3 DEF AcceptsTypeOK, WindowRecord
    <3> QED
      BY <2>1, <3>1 DEF Counted, AcceptsCounted
  <2>4. CASE CountAccept
    <3>1. window'.at = "idle" /\ window.at = "count"
      BY <2>4 DEF NoWindow
    <3>2. lAcceptClients' = lAcceptClients + 1 /\ dwDaemonStatus' = dwDaemonStatus
      BY <2>4
    <3> QED
      BY <2>1, <2>2, <3>1, <3>2 DEF Counted, AcceptsCounted, AcceptsTypeOK
  <2> QED
    BY <2>3, <2>4
<1>5. EachWaits'
  <2> SUFFICES ASSUME Undisturbed', NEW j \in Indexes \ lost' PROVE Waits(j)'
    BY DEF EachWaits
  <2>1. Undisturbed /\ lost' = lost /\ listen' = listen /\ messages' = messages
    BY DEF Undisturbed, service, ghosts
  <2>2. Waits(j)
    BY <2>1 DEF EachWaits
  <2> QED
    BY <1>3, <2>1, <2>2 DEF Waits
<1> QED
  BY <1>1, <1>2, <1>3, <1>4, <1>5

-------------------------------------------------------------------------------
(* The threads of the completion port.                                     *)

\* One structure takes a step and nothing else happens that the window,
\* the admins or the indexes know of.
LEMMA StructureKeeps ==
  ASSUME AcceptsIInv, NEW n \in News, nc[n].at \in {"waiting", "done", "uncount", "test"},
         AcceptsTypeOK', Counted',
         \A m \in News \ {n} : nc'[m] = nc[m],
         UNCHANGED <<dwDaemonStatus, service, window, admin, ghosts>>,
         Undisturbed => /\ \A k \in DOMAIN messages : \E l \in DOMAIN messages' : messages'[l] = messages[k]
                        /\ \A i \in Indexes : nc[n].on = listen /\ nc[n].open /\ nc[n].index = i => Waits(i)'
  PROVE  AcceptsIInv'
<1> USE DEF AcceptsIInv
<1>1. Listens'
  BY Aside DEF service
<1>2. WindowOK'
  BY DEF WindowOK
<1>3. EachWaits'
  <2> SUFFICES ASSUME Undisturbed', NEW j \in Indexes \ lost' PROVE Waits(j)'
    BY DEF EachWaits
  <2>1. Undisturbed /\ lost' = lost /\ listen' = listen /\ window' = window
    BY DEF Undisturbed, service, ghosts
  <2>2. Waits(j)
    BY <2>1 DEF EachWaits
  <2>3. CASE window.at = "accept" /\ window.index = j /\ nc[window.nc].open
    BY <2>1, <2>3 DEF Waits, WindowOK
  <2>4. CASE \E k \in DOMAIN messages : messages[k] = j
    BY <2>1, <2>4 DEF Waits
  <2>5. CASE \E m \in News : /\ nc[m].index = j /\ nc[m].on = listen /\ nc[m].open
                            /\ nc[m].at \in {"waiting", "done", "uncount", "test"}
    <3>1. PICK m \in News : /\ nc[m].index = j /\ nc[m].on = listen /\ nc[m].open
                            /\ nc[m].at \in {"waiting", "done", "uncount", "test"}
      BY <2>5
    <3>2. CASE m = n
      <4>1. nc[n].on = listen /\ nc[n].open /\ nc[n].index = j
        BY <3>1, <3>2
      <4> QED
        BY <2>1, <4>1
    <3>3. CASE m # n
      BY <2>1, <3>1, <3>3 DEF Waits
    <3> QED
      BY <3>2, <3>3
  <2> QED
    BY <2>2, <2>3, <2>4, <2>5 DEF Waits
<1> QED
  BY <1>1, <1>2, <1>3

\* The system completes an accept.
LEMMA CompletesKeeps ==
  ASSUME AcceptsIInv, NEW n \in News, Completes(n), UNCHANGED overlapped PROVE AcceptsIInv'
<1> USE DEF Completes
<1>1. PICK e \in BOOLEAN : nc' = [nc EXCEPT ![n].at = "done", ![n].err = e]
  OBVIOUS
<1>2. /\ nc'[n] = [nc[n] EXCEPT !.at = "done", !.err = e]
      /\ \A m \in News \ {n} : nc'[m] = nc[m]
  BY <1>1 DEF AcceptsIInv, AcceptsTypeOK, NewsOK
<1>3. AcceptsTypeOK'
  <2>1. nc' = [m \in News |-> IF m = n THEN nc'[n] ELSE nc[m]]
    BY <1>1 DEF AcceptsIInv, AcceptsTypeOK, NewsOK
  <2>2. nc'[n] \in NewRecord /\ nc'[n].index \in Indexes
    BY <1>2 DEF AcceptsIInv, AcceptsTypeOK, NewsOK, NewRecord, NewSteps
  <2> QED
    BY <2>1, <2>2, NewsFollow DEF AcceptsIInv, AcceptsTypeOK, service
<1>4. Counted'
  <2>1. n \in Outstanding /\ (n \in Outstanding)'
    BY <1>2 DEF Outstanding, AcceptsIInv, AcceptsTypeOK, NewsOK, NewRecord
  <2> QED
    BY <1>2, <2>1, CountFollows DEF One, AcceptsIInv, AcceptsTypeOK, NewsOK
<1>5. \A i \in Indexes : nc[n].on = listen /\ nc[n].open /\ nc[n].index = i => Waits(i)'
  <2>1. nc'[n].on = nc[n].on /\ nc'[n].open = nc[n].open /\ nc'[n].index = nc[n].index /\ nc'[n].at = "done"
    BY <1>2 DEF AcceptsIInv, AcceptsTypeOK, NewsOK, NewRecord
  <2> QED
    BY <2>1 DEF Waits, service
<1> QED
  BY <1>2, <1>3, <1>4, <1>5, StructureKeeps DEF service

\* Service_AcceptClient, up to the message.
LEMMA ForgetKeeps ==
  ASSUME AcceptsIInv, NEW n \in News, ForgetAccept(n) \/ UncountAccept(n), UNCHANGED overlapped
  PROVE AcceptsIInv'
<1> USE DEF ForgetAccept, UncountAccept
<1>1. PICK at \in {"uncount", "test"} :
         /\ nc' = [nc EXCEPT ![n].at = at]
         /\ at = "uncount" => (nc[n].at = "done" /\ lAcceptClients' = lAcceptClients)
         /\ \/ at = "uncount"
            \/ nc[n].at = "uncount" /\ lAcceptClients' = lAcceptClients - 1
            \/ nc[n].at = "done" /\ dwDaemonStatus = "shutdown" /\ lAcceptClients' = lAcceptClients
  OBVIOUS
<1>2. /\ nc'[n] = [nc[n] EXCEPT !.at = at]
      /\ \A m \in News \ {n} : nc'[m] = nc[m]
  BY <1>1 DEF AcceptsIInv, AcceptsTypeOK, NewsOK
<1>3. AcceptsTypeOK'
  <2>1. lpAcceptClients' \in [Indexes -> News \cup {None, Failed}]
    BY DEF AcceptsIInv, AcceptsTypeOK, NewsOK
  <2>2. lAcceptClients' \in Int
    BY <1>1 DEF AcceptsIInv, AcceptsTypeOK, NewsOK
  <2>3. nc' = [m \in News |-> IF m = n THEN nc'[n] ELSE nc[m]]
    BY <1>1 DEF AcceptsIInv, AcceptsTypeOK, NewsOK
  <2>4. nc'[n] \in NewRecord /\ nc'[n].index \in Indexes
    BY <1>1, <1>2 DEF AcceptsIInv, AcceptsTypeOK, NewsOK, NewRecord, NewSteps
  <2>5. NewsOK'
    BY <2>3, <2>4, NewsFollow DEF AcceptsIInv, AcceptsTypeOK
  <2> QED
    BY <2>1, <2>2, <2>5 DEF AcceptsIInv, AcceptsTypeOK, service
<1>4. Counted'
  <2>1. CASE at = "uncount"
    <3>1. n \in Outstanding /\ (n \in Outstanding)'
      BY <1>1, <1>2, <2>1 DEF Outstanding, AcceptsIInv, AcceptsTypeOK, NewsOK
    <3> QED
      BY <1>1, <1>2, <2>1, <3>1, CountFollows DEF One, AcceptsIInv, AcceptsTypeOK, NewsOK
  <2>2. CASE at = "test"
    <3>1. n \in Outstanding /\ ~ (n \in Outstanding)'
      BY <1>1, <1>2, <2>2 DEF Outstanding, AcceptsIInv, AcceptsTypeOK, NewsOK
    <3>2. dwDaemonStatus' # "shutdown" => dwDaemonStatus # "shutdown" /\ lAcceptClients' = lAcceptClients - 1
      BY <1>1, <2>2
    <3> QED
      BY <1>2, <1>3, <3>1, <3>2, CountFollows DEF One, AcceptsIInv, AcceptsTypeOK
  <2> QED
    BY <2>1, <2>2
<1>5. \A i \in Indexes : nc[n].on = listen /\ nc[n].open /\ nc[n].index = i => Waits(i)'
  <2>1. nc'[n].on = nc[n].on /\ nc'[n].open = nc[n].open /\ nc'[n].index = nc[n].index /\ nc'[n].at = at
    BY <1>2 DEF AcceptsIInv, AcceptsTypeOK, NewsOK, NewRecord
  <2> QED
    BY <2>1 DEF Waits, service
<1>6. nc[n].at \in {"waiting", "done", "uncount", "test"}
  BY <1>1
<1> QED
  BY <1>2, <1>3, <1>4, <1>5, <1>6, StructureKeeps DEF service

\* The message for the next accept takes the place of this one.
LEMMA ReplaceKeeps ==
  ASSUME AcceptsIInv, NEW n \in News, Replace(n), UNCHANGED overlapped PROVE AcceptsIInv'
<1> USE DEF Replace
<1> PICK i \in Indexes : i = nc[n].index
  BY DEF AcceptsIInv, AcceptsTypeOK, NewsOK
<1>1. nc'[n] = NoNew /\ \A m \in News \ {n} : nc'[m] = nc[m]
  BY DEF AcceptsIInv, AcceptsTypeOK, NewsOK
<1>2. AcceptsTypeOK' /\ messages' \in {messages, Append(messages, i)}
  <2>1. i \in Indexes /\ messages \in Seq(Indexes)
    BY DEF AcceptsIInv, AcceptsTypeOK, NewsOK
  <2>2. messages' \in {messages, Append(messages, i)} /\ messages' \in Seq(Indexes)
    BY <2>1
  <2>3. nc' = [m \in News |-> IF m = n THEN nc'[n] ELSE nc[m]]
    BY DEF AcceptsIInv, AcceptsTypeOK, NewsOK
  <2>4. nc'[n] \in NewRecord /\ nc'[n].at = "unused"
    BY <1>1 DEF NoNew, NewRecord, NewSteps, INVALID_SOCKET
  <2>5. NewsOK'
    BY <2>3, <2>4, NewsFollow DEF AcceptsIInv, AcceptsTypeOK
  <2> QED
    BY <2>2, <2>5 DEF AcceptsIInv, AcceptsTypeOK, service
<1>3. Counted'
  <2>1. ~ (n \in Outstanding) /\ ~ (n \in Outstanding)'
    BY <1>1 DEF Outstanding, NoNew
  <2> QED
    BY <1>1, <2>1, CountFollows DEF One, AcceptsIInv, AcceptsTypeOK, NewsOK
<1>4. \A k \in DOMAIN messages : \E l \in DOMAIN messages' : messages'[l] = messages[k]
  <2>1. messages \in Seq(Indexes) /\ i \in Indexes
    BY DEF AcceptsIInv, AcceptsTypeOK, NewsOK
  <2>2. \A k \in DOMAIN messages : k \in DOMAIN Append(messages, i) /\ Append(messages, i)[k] = messages[k]
    BY <2>1
  <2> QED
    BY <1>2, <2>2
<1>5. Undisturbed => (nc[n].on = listen /\ nc[n].open => Waits(i)')
  <2> SUFFICES ASSUME Undisturbed, nc[n].open PROVE Waits(i)'
    OBVIOUS
  <2>1. dwDaemonStatus = "active" /\ bActive
    BY DEF Undisturbed, AcceptsIInv, Listens, ActiveWhileListening, AtRest
  <2>2. messages' = Append(messages, i)
    BY <2>1 DEF Replaced
  <2>3. messages \in Seq(Indexes) /\ i \in Indexes
    BY DEF AcceptsIInv, AcceptsTypeOK, NewsOK
  <2>4. Len(messages) + 1 \in DOMAIN messages' /\ messages'[Len(messages) + 1] = i
    BY <2>2, <2>3
  <2> QED
    BY <2>4 DEF Waits
<1> QED
  BY <1>1, <1>2, <1>3, <1>4, <1>5, StructureKeeps DEF service

-------------------------------------------------------------------------------
(* Administrators and the main thread.                                     *)

Untouched == UNCHANGED <<lAcceptClients, window>> /\ \A n \in News : nc'[n].at = nc[n].at /\ nc'[n].index = nc[n].index

\* Whatever they do, the window and the count are left as they were.
LEMMA ControlCounts ==
  ASSUME AcceptsIInv, Control PROVE WindowOK' /\ Counted'
<1>1. Untouched /\ (dwDaemonStatus' # "shutdown" => dwDaemonStatus # "shutdown")
  <2> USE DEF Untouched
  <2>1. CASE \E a \in Controls : CloseAccept(a)
    <3>1. PICK m : nc' = [nc EXCEPT ![m].open = FALSE]
      BY <2>1 DEF CloseAccept
    <3>2. \A n \in News : nc'[n].at = nc[n].at /\ nc'[n].index = nc[n].index
      BY <3>1 DEF AcceptsIInv, AcceptsTypeOK, NewsOK, NewRecord
    <3> QED
      BY <2>1, <3>2 DEF CloseAccept
  <2>2. CASE \E a \in Controls : SetInactive(a) \/ CloseListen(a) \/ TakeAccept(a) \/ EndWait(a)
    BY <2>2 DEF SetInactive, CloseListen, TakeAccept, EndWait
  <2>3. CASE \/ \E a \in Admins : Admin_Disable(a) \/ Start(a) \/ OpenListen(a) \/ Activate(a)
             \/ Grace \/ Services_DeInit
    BY <2>3 DEF Admin_Disable, Start, OpenListen, Activate, Grace, Services_DeInit
  <2> QED
    BY <2>1, <2>2, <2>3 DEF Control, Service_Shutdown
<1>2. WindowOK'
  BY <1>1 DEF Untouched, WindowOK, AcceptsIInv
<1> QED
  BY <1>1, <1>2, CountStays DEF Untouched, AcceptsIInv

\* The step of one of them.
LEMMA AdminType ==
  ASSUME AcceptsTypeOK, NEW a \in Controls, NEW r \in AdminRecord, admin' = [admin EXCEPT ![a] = r]
  PROVE  admin' \in [Controls -> AdminRecord] /\ admin'[a] = r /\ \A b \in Controls \ {a} : admin'[b] = admin[b]
BY DEF AcceptsTypeOK

\* Each step of an administrator ends at one place.
Goes(a, at) ==
  /\ admin'[a].at = at /\ \A b \in Controls \ {a} : admin'[b] = admin[b]
  /\ admin' \in [Controls -> AdminRecord]

\* A shutdown begins with the flag.
LEMMA ShutdownGoes ==
  ASSUME AcceptsTypeOK, NEW a \in Controls, NEW then \in {"idle", "open"}, Shutdown(a, then)
  PROVE  Goes(a, "inactive")
<1>1. [AtRest EXCEPT !.at = "inactive", !.then = then] \in AdminRecord
  BY DEF AtRest, AdminRecord, AdminSteps
<1>2. [AtRest EXCEPT !.at = "inactive", !.then = then].at = "inactive"
  BY DEF AtRest
<1> QED
  BY <1>1, <1>2, AdminType DEF Shutdown, Goes

\* Where the steps of a shutdown and of a start lead.
LEMMA StepGoes ==
  ASSUME AcceptsTypeOK, NEW a \in Controls
  PROVE  /\ SetInactive(a) => Goes(a, "close")
         /\ CloseListen(a) => Goes(a, "take")
         /\ TakeAccept(a)  => Goes(a, "closeOne") \/ Goes(a, "take") \/ Goes(a, "wait")
         /\ CloseAccept(a) => Goes(a, "take") \/ Goes(a, "wait")
         /\ EndWait(a)     => Goes(a, admin[a].then)
         /\ OpenListen(a)  => Goes(a, "bind")
<1> DEFINE r == admin[a]
<1>0. r \in AdminRecord
  BY DEF AcceptsTypeOK
<1>1. ASSUME SetInactive(a) PROVE Goes(a, "close")
  <2>1. [r EXCEPT !.at = "close"] \in AdminRecord /\ [r EXCEPT !.at = "close"].at = "close"
    BY <1>0 DEF AdminRecord, AdminSteps
  <2> QED
    BY <1>1, <2>1, AdminType DEF SetInactive, Goes
<1>2. ASSUME CloseListen(a) PROVE Goes(a, "take")
  <2> DEFINE q == [r EXCEPT !.at = "take", !.todo = Indexes]
  <2>1. q \in AdminRecord /\ q.at = "take" /\ admin' = [admin EXCEPT ![a] = q]
    BY <1>0, <1>2 DEF AdminRecord, AdminSteps, CloseListen, AcceptsTypeOK
  <2> QED
    BY <2>1, AdminType DEF Goes
<1>3. ASSUME TakeAccept(a) PROVE Goes(a, "closeOne") \/ Goes(a, "take") \/ Goes(a, "wait")
  <2> DEFINE i == CHOOSE j \in r.todo : \A k \in r.todo : j <= k
             n == lpAcceptClients[i]
             q == [at   |-> IF n \in News THEN "closeOne" ELSE After(r.todo \ {i}),
                   todo |-> r.todo \ {i}, nc |-> IF n \in News THEN n ELSE None, then |-> r.then]
  <2>1. admin' = [admin EXCEPT ![a] = q]
    BY <1>3, Zenon DEF TakeAccept
  <2> HIDE DEF i
  <2>2. q \in AdminRecord /\ q.at \in {"closeOne", "take", "wait"}
    BY <1>0 DEF AdminRecord, AdminSteps, After
  <2> QED
    BY <2>1, <2>2, AdminType DEF Goes
<1>4. ASSUME CloseAccept(a) PROVE Goes(a, "take") \/ Goes(a, "wait")
  <2> DEFINE q == [r EXCEPT !.at = After(r.todo), !.nc = None]
  <2>1. q \in AdminRecord /\ q.at \in {"take", "wait"}
    BY <1>0 DEF AdminRecord, AdminSteps, After
  <2>2. admin' = [admin EXCEPT ![a] = q]
    BY <1>4 DEF CloseAccept
  <2> QED
    BY <2>1, <2>2, AdminType DEF Goes
<1>5. ASSUME EndWait(a) PROVE Goes(a, r.then)
  <2>1. [AtRest EXCEPT !.at = r.then] \in AdminRecord /\ [AtRest EXCEPT !.at = r.then].at = r.then
    BY <1>0 DEF AdminRecord, AdminSteps, AtRest
  <2> QED
    BY <1>5, <2>1, AdminType DEF EndWait, Goes
<1>6. ASSUME OpenListen(a) PROVE Goes(a, "bind")
  <2>1. [r EXCEPT !.at = "bind"] \in AdminRecord /\ [r EXCEPT !.at = "bind"].at = "bind"
    BY <1>0 DEF AdminRecord, AdminSteps
  <2> QED
    BY <1>6, <2>1, AdminType DEF OpenListen, Goes
<1> QED
  BY <1>1, <1>2, <1>3, <1>4, <1>5, <1>6

\* The step of an administrator, by what it does to the sockets.
LEMMA ControlSteps ==
  ASSUME AcceptsTypeOK, Control
  PROVE  \/ /\ dwDaemonStatus = "active" /\ dwDaemonStatus' = "grace"
            /\ UNCHANGED <<bActive, listening, admin>>
         \/ \E a \in Controls :
              \/ admin[a].at \in {"idle", "bind"} /\ Goes(a, "inactive") /\ UNCHANGED <<bActive, listening>>
              \/ admin[a].at = "inactive" /\ Goes(a, "close") /\ UNCHANGED listening
              \/ admin[a].at = "close" /\ Goes(a, "take") /\ ~ listening'
              \/ /\ admin[a].at \in {"take", "closeOne"}
                 /\ Goes(a, "closeOne") \/ Goes(a, "take") \/ Goes(a, "wait")
                 /\ UNCHANGED <<bActive, listening>>
              \/ /\ admin[a].at = "wait" /\ UNCHANGED <<bActive, listening>>
                 /\ Goes(a, "idle") \/ Goes(a, "open")
              \/ admin[a].at = "open" /\ Goes(a, "bind") /\ UNCHANGED <<bActive, listening>>
              \/ /\ admin[a].at = "bind" /\ Goes(a, "idle") /\ bActive'
                 /\ messages' = messages \o InOrder /\ lost' = {}
<1>1. ASSUME NEW a \in Controls, SetInactive(a)
      PROVE  admin[a].at = "inactive" /\ Goes(a, "close") /\ UNCHANGED listening
  BY <1>1, StepGoes DEF SetInactive
<1>2. ASSUME NEW a \in Controls, CloseListen(a)
      PROVE  admin[a].at = "close" /\ Goes(a, "take") /\ ~ listening'
  BY <1>2, StepGoes DEF CloseListen
<1>3. ASSUME NEW a \in Controls, TakeAccept(a) \/ CloseAccept(a)
      PROVE  /\ admin[a].at \in {"take", "closeOne"}
             /\ Goes(a, "closeOne") \/ Goes(a, "take") \/ Goes(a, "wait")
             /\ UNCHANGED <<bActive, listening>>
  BY <1>3, StepGoes DEF TakeAccept, CloseAccept
<1>4. ASSUME NEW a \in Controls, EndWait(a)
      PROVE  /\ admin[a].at = "wait" /\ UNCHANGED <<bActive, listening>>
             /\ Goes(a, "idle") \/ Goes(a, "open")
  <2>1. admin[a].then \in {"idle", "open"}
    BY DEF AcceptsTypeOK, AdminRecord
  <2>2. Goes(a, admin[a].then)
    BY <1>4, StepGoes
  <2> QED
    BY <1>4, <2>1, <2>2 DEF EndWait
<1>5. ASSUME NEW a \in Admins, Admin_Disable(a) \/ Start(a)
      PROVE  admin[a].at = "idle" /\ Goes(a, "inactive") /\ UNCHANGED <<bActive, listening>>
  <2>1. a \in Controls
    BY DEF Controls
  <2> QED
    BY <1>5, <2>1, ShutdownGoes DEF Admin_Disable, Start
<1>6. ASSUME NEW a \in Admins, OpenListen(a)
      PROVE  admin[a].at = "open" /\ Goes(a, "bind") /\ UNCHANGED <<bActive, listening>>
  BY <1>6, StepGoes DEF OpenListen, Controls
<1>7. ASSUME NEW a \in Admins, Activate(a)
      PROVE  \/ admin[a].at = "bind" /\ Goes(a, "inactive") /\ UNCHANGED <<bActive, listening>>
             \/ /\ admin[a].at = "bind" /\ Goes(a, "idle") /\ bActive'
                /\ messages' = messages \o InOrder /\ lost' = {}
  <2>1. a \in Controls
    BY DEF Controls
  <2>2. CASE Shutdown(a, "idle") /\ UNCHANGED <<listening, bActive>>
    BY <1>7, <2>1, <2>2, ShutdownGoes DEF Activate
  <2>3. CASE /\ bActive' = TRUE /\ messages' = messages \o InOrder /\ lost' = {}
             /\ admin' = [admin EXCEPT ![a] = AtRest]
    <3>1. AtRest \in AdminRecord /\ AtRest.at = "idle"
      BY DEF AtRest, AdminRecord, AdminSteps
    <3>2. Goes(a, "idle")
      BY <2>1, <2>3, <3>1, AdminType DEF Goes
    <3> QED
      BY <1>7, <2>3, <3>2 DEF Activate
  <2> QED
    BY <1>7, <2>2, <2>3 DEF Activate
<1>8. ASSUME Services_DeInit
      PROVE  admin[Nobody].at = "idle" /\ Goes(Nobody, "inactive") /\ UNCHANGED <<bActive, listening>>
  BY <1>8, ShutdownGoes DEF Services_DeInit, Controls
<1>9. Nobody \in Controls /\ Admins \subseteq Controls
  BY DEF Controls
<1>10. CASE \E a \in Controls : Service_Shutdown(a)
  BY <1>1, <1>2, <1>3, <1>4, <1>10 DEF Service_Shutdown
<1>11. CASE \E a \in Admins : Admin_Disable(a) \/ Start(a) \/ OpenListen(a) \/ Activate(a)
  BY <1>5, <1>6, <1>7, <1>9, <1>11
<1>12. CASE Grace
  BY <1>12 DEF Grace
<1> QED
  BY <1>8, <1>9, <1>10, <1>11, <1>12 DEF Control

\* A start posts a message for each index.
LEMMA StartServesAll ==
  ASSUME AcceptsTypeOK, messages' = messages \o InOrder, NEW i \in Indexes PROVE Waits(i)'
<1>1. messages \in Seq(Indexes) /\ InOrder \in Seq(Indexes) /\ Len(InOrder) = ACCEPTS
  BY AcceptsAssumption DEF AcceptsTypeOK, InOrder, Indexes
<1>2. i + 1 \in 1 .. ACCEPTS /\ InOrder[i + 1] = i
  BY AcceptsAssumption DEF InOrder, Indexes
<1>3. /\ Len(messages) + i + 1 \in DOMAIN messages'
      /\ messages'[Len(messages) + i + 1] = i
  BY <1>1, <1>2, AcceptsAssumption DEF Indexes
<1> QED
  BY <1>3 DEF Waits

\* What an administrator does keeps the sockets and the indexes in order.
LEMMA ControlListens ==
  ASSUME AcceptsIInv, Control, overlapped' = (overlapped \/ Overlap')
  PROVE  Listens' /\ EachWaits'
<1> USE DEF AcceptsIInv
<1>1. Overlaps'
  BY DEF Overlaps
<1>2. AcceptsTypeOK
  OBVIOUS
<1>3. CASE dwDaemonStatus' = "grace" /\ UNCHANGED <<bActive, listening, admin>>
  <2>1. ActiveWhileListening' /\ ClosedByShutdown'
    BY <1>3 DEF Listens, ActiveWhileListening, ClosedByShutdown
  <2>2. EachWaits'
    BY <1>3 DEF EachWaits, Undisturbed
  <2> QED
    BY <1>1, <2>1, <2>2 DEF Listens
<1>4. ASSUME NEW a \in Controls,
             admin[a].at \in {"idle", "bind"} /\ Goes(a, "inactive") /\ UNCHANGED <<bActive, listening>>
      PROVE  Listens' /\ EachWaits'
  <2>1. ActiveWhileListening'
    BY <1>4 DEF Listens, ActiveWhileListening, Goes
  <2>2. ClosedByShutdown'
    BY <1>4 DEF Listens, ClosedByShutdown, Goes
  <2>3. EachWaits'
    BY <1>4 DEF EachWaits, Undisturbed, Goes, AtRest
  <2> QED
    BY <1>1, <2>1, <2>2, <2>3 DEF Listens
<1>5. ASSUME NEW a \in Controls, admin[a].at = "inactive" /\ Goes(a, "close") /\ UNCHANGED listening
      PROVE  Listens' /\ EachWaits'
  <2>1. ActiveWhileListening'
    BY <1>5 DEF Listens, ActiveWhileListening, Goes
  <2>2. ClosedByShutdown'
    BY <1>5 DEF Listens, ClosedByShutdown, Goes
  <2>3. EachWaits'
    BY <1>5 DEF EachWaits, Undisturbed, Goes, AtRest
  <2> QED
    BY <1>1, <2>1, <2>2, <2>3 DEF Listens
<1>6. ASSUME NEW a \in Controls, Goes(a, "take") /\ ~ listening'
      PROVE  Listens' /\ EachWaits'
  BY <1>1, <1>6 DEF Listens, ActiveWhileListening, ClosedByShutdown, EachWaits, Undisturbed, Goes, AtRest
<1>7. ASSUME NEW a \in Controls,
             admin[a].at \in {"take", "closeOne"},
             Goes(a, "closeOne") \/ Goes(a, "take") \/ Goes(a, "wait"),
             UNCHANGED <<bActive, listening>>
      PROVE  Listens' /\ EachWaits'
  BY <1>1, <1>7 DEF Listens, ActiveWhileListening, ClosedByShutdown, EachWaits, Undisturbed, Goes, AtRest
<1>8. ASSUME NEW a \in Controls, admin[a].at = "wait", UNCHANGED <<bActive, listening>>,
             Goes(a, "idle") \/ Goes(a, "open")
      PROVE  Listens' /\ EachWaits'
  BY <1>1, <1>8 DEF Listens, ActiveWhileListening, ClosedByShutdown, EachWaits, Undisturbed, Goes, AtRest
<1>9. ASSUME NEW a \in Controls, admin[a].at = "open" /\ Goes(a, "bind") /\ UNCHANGED <<bActive, listening>>
      PROVE  Listens' /\ EachWaits'
  <2>1. ActiveWhileListening'
    BY <1>9 DEF Listens, ActiveWhileListening, Goes
  <2>2. ClosedByShutdown'
    BY <1>9 DEF Listens, ClosedByShutdown, Goes
  <2>3. EachWaits'
    BY <1>9 DEF EachWaits, Undisturbed, Goes, AtRest
  <2> QED
    BY <1>1, <2>1, <2>2, <2>3 DEF Listens
<1>10. ASSUME NEW a \in Controls, admin[a].at = "bind", Goes(a, "idle"), bActive',
              messages' = messages \o InOrder
       PROVE  Listens' /\ EachWaits'
  <2>1. EachWaits'
    BY <1>2, <1>10, StartServesAll DEF EachWaits
  <2>2. ClosedByShutdown'
    <3> SUFFICES ASSUME ~ overlapped', NEW b \in Controls, admin'[b].at \in {"take", "closeOne", "wait"}
                 PROVE  FALSE
      BY DEF ClosedByShutdown
    <3>1. b # a /\ admin[b] = admin'[b]
      BY <1>10 DEF Goes
    <3>2. Overlap
      BY <1>10, <3>1 DEF Overlap, Shutting, Starting
    <3> QED
      BY <3>2 DEF Listens, Overlaps
  <2> QED
    BY <1>1, <1>10, <2>1, <2>2 DEF Listens, ActiveWhileListening
<1> QED
  BY <1>2, <1>3, <1>4, <1>5, <1>6, <1>7, <1>8, <1>9, <1>10, ControlSteps

\* And the types.
LEMMA ControlTypes ==
  ASSUME AcceptsTypeOK, Control, overlapped' = (overlapped \/ Overlap') PROVE AcceptsTypeOK'
<1> USE DEF AcceptsTypeOK
<1>1. overlapped' \in BOOLEAN
  BY DEF Overlap, Shutting, Starting
<1>2. admin' \in [Controls -> AdminRecord]
  BY ControlSteps DEF Goes
<1>3. UNCHANGED <<lAcceptClients, window>>
  BY DEF Control, Service_Shutdown, SetInactive, CloseListen, TakeAccept, CloseAccept, EndWait,
         Admin_Disable, Start, OpenListen, Activate, Grace, Services_DeInit
<1>4. ASSUME NEW a \in Controls, Service_Shutdown(a)
      PROVE  /\ dwDaemonStatus' \in {"active", "grace", "shutdown"} /\ bActive' \in BOOLEAN
             /\ listen' \in Nat /\ listening' \in BOOLEAN /\ starts' \in Nat
             /\ lpAcceptClients' \in [Indexes -> News \cup {None, Failed}]
             /\ messages' \in Seq(Indexes) /\ NewsOK'
  <2>1. CASE SetInactive(a)
    BY <2>1 DEF SetInactive, NewsOK
  <2>2. CASE CloseListen(a)
    BY <2>2 DEF CloseListen, NewsOK, INVALID_SOCKET
  <2>3. CASE TakeAccept(a)
    <3>1. PICK i : lpAcceptClients' = [lpAcceptClients EXCEPT ![i] = None]
      BY <2>3 DEF TakeAccept
    <3>2. lpAcceptClients' \in [Indexes -> News \cup {None, Failed}]
      BY <3>1
    <3> QED
      BY <2>3, <3>2 DEF TakeAccept, NewsOK
  <2>4. CASE CloseAccept(a)
    <3>1. PICK m : nc' = [nc EXCEPT ![m].open = FALSE]
      BY <2>4 DEF CloseAccept
    <3>2. NewsOK'
      <4>1. nc' \in [News -> NewRecord]
        <5> SUFFICES ASSUME NEW n \in News PROVE nc'[n] \in NewRecord
          BY <3>1 DEF NewsOK
        <5>1. nc[n] \in NewRecord /\ nc'[n] \in {nc[n], [nc[n] EXCEPT !.open = FALSE]}
          BY <3>1 DEF NewsOK
        <5> QED
          BY <5>1 DEF NewRecord
      <4>2. \A n \in News : nc'[n].at = nc[n].at /\ nc'[n].index = nc[n].index
        BY <3>1 DEF NewsOK, NewRecord
      <4> QED
        BY <4>1, <4>2 DEF NewsOK
    <3> QED
      BY <2>4, <3>2 DEF CloseAccept
  <2>5. CASE EndWait(a)
    BY <2>5 DEF EndWait, NewsOK
  <2> QED
    BY <1>4, <2>1, <2>2, <2>3, <2>4, <2>5 DEF Service_Shutdown
<1>5. ASSUME NEW a \in Admins, Admin_Disable(a) \/ Start(a) \/ OpenListen(a) \/ Activate(a)
      PROVE  /\ dwDaemonStatus' \in {"active", "grace", "shutdown"} /\ bActive' \in BOOLEAN
             /\ listen' \in Nat /\ listening' \in BOOLEAN /\ starts' \in Nat
             /\ lpAcceptClients' \in [Indexes -> News \cup {None, Failed}]
             /\ messages' \in Seq(Indexes) /\ NewsOK'
  <2>1. CASE Admin_Disable(a) \/ Start(a) \/ OpenListen(a)
    BY <2>1 DEF Admin_Disable, Start, OpenListen, NewsOK
  <2>2. CASE Activate(a)
    <3>1. InOrder \in Seq(Indexes)
      BY AcceptsAssumption DEF InOrder, Indexes
    <3>2. messages' \in Seq(Indexes)
      <4>1. messages' \in {messages, messages \o InOrder}
        BY <2>2 DEF Activate
      <4>2. messages \o InOrder \in Seq(Indexes)
        BY <3>1
      <4> QED
        BY <4>1, <4>2
    <3>3. NewsOK'
      BY <2>2 DEF Activate, NewsOK
    <3> QED
      BY <2>2, <3>2, <3>3 DEF Activate
  <2> QED
    BY <1>5, <2>1, <2>2
<1>6. CASE Grace \/ Services_DeInit
  BY <1>1, <1>2, <1>3, <1>6 DEF Grace, Services_DeInit, NewsOK
<1>7. CASE \E a \in Controls : Service_Shutdown(a)
  BY <1>1, <1>2, <1>3, <1>4, <1>7
<1>8. CASE \E a \in Admins : Admin_Disable(a) \/ Start(a) \/ OpenListen(a) \/ Activate(a)
  BY <1>1, <1>2, <1>3, <1>5, <1>8
<1> QED
  BY <1>6, <1>7, <1>8 DEF Control

-------------------------------------------------------------------------------
(* The theorem.                                                            *)

\* Nothing has been started.
LEMMA InitAccepts == AcceptsInit => AcceptsIInv
<1> SUFFICES ASSUME AcceptsInit PROVE AcceptsIInv
  OBVIOUS
<1> USE DEF AcceptsInit
<1>1. AcceptsTypeOK
  <2>1. NoWindow \in WindowRecord
    BY DEF NoWindow, WindowRecord
  <2>2. NewsOK
    BY DEF NewsOK, NewRecord, NoNew, NewSteps, INVALID_SOCKET
  <2>3. AtRest \in AdminRecord
    BY DEF AtRest, AdminRecord, AdminSteps
  <2>4. messages \in Seq(Indexes) /\ lpAcceptClients \in [Indexes -> News \cup {None, Failed}]
    OBVIOUS
  <2>5. admin \in [Controls -> AdminRecord]
    BY <2>3
  <2>6. listen \in Nat /\ starts \in Nat /\ lAcceptClients \in Int
    BY DEF INVALID_SOCKET
  <2>7. dwDaemonStatus = "active" /\ bActive = FALSE /\ listening = FALSE /\ overlapped = FALSE /\ window = NoWindow
    OBVIOUS
  <2> QED
    BY ONLY <2>1, <2>2, <2>4, <2>5, <2>6, <2>7 DEF AcceptsTypeOK
<1>2. WindowOK
  BY DEF WindowOK, NoWindow
<1>3. Counted
  <2>1. Outstanding = {}
    BY DEF Outstanding, NoNew
  <2> QED
    BY <2>1, FS_EmptySet DEF Counted, AcceptsCounted, NoWindow
<1>4. Listens
  BY DEF Listens, ActiveWhileListening, Overlaps, Overlap, Shutting, ClosedByShutdown, AtRest
<1>5. EachWaits
  BY DEF EachWaits, Undisturbed
<1> QED
  BY <1>1, <1>2, <1>3, <1>4, <1>5 DEF AcceptsIInv

\* Every step of the window, the completion port, the clients and the admins.
LEMMA NextAccepts == AcceptsIInv /\ [AcceptsNext]_acceptvars => AcceptsIInv'
<1> SUFFICES ASSUME AcceptsIInv, [AcceptsNext]_acceptvars PROVE AcceptsIInv'
  OBVIOUS
<1>1. CASE Window
  <2>1. UNCHANGED overlapped
    BY <1>1 DEF Window, WindowTakes, CallAccept, StoreAccept, CountAccept, service
  <2> QED
    BY <1>1, <2>1, WindowTakesKeeps, CallAcceptKeeps, StoreAndCountKeep DEF Window
<1>2. CASE \E n \in News : Completes(n) \/ Service_AcceptClient(n)
  <2>1. PICK n \in News : Completes(n) \/ Service_AcceptClient(n)
    BY <1>2
  <2>2. UNCHANGED overlapped
    BY <2>1 DEF Completes, Service_AcceptClient, ForgetAccept, UncountAccept, Replace, service
  <2> QED
    BY <2>1, <2>2, CompletesKeeps, ForgetKeeps, ReplaceKeeps DEF Service_AcceptClient
<1>3. CASE UNCHANGED <<dwDaemonStatus, bActive, listen, listening, lAcceptClients, lpAcceptClients,
                       messages, window, nc, admin, starts, lost, overlapped>>
  <2> USE <1>3 DEF AcceptsIInv
  <2>1. AcceptsTypeOK' /\ WindowOK'
    BY DEF AcceptsTypeOK, NewsOK, WindowOK
  <2>2. Counted'
    BY CountStays
  <2>3. Listens'
    BY Aside
  <2>4. EachWaits'
    BY DEF EachWaits, Undisturbed, Waits
  <2> QED
    BY <2>1, <2>2, <2>3, <2>4
<1>4. CASE Connects /\ UNCHANGED overlapped
  BY <1>3, <1>4 DEF Connects, ghosts
<1>5. CASE Control /\ overlapped' = (overlapped \/ Overlap')
  BY <1>5, ControlTypes, ControlCounts, ControlListens DEF AcceptsIInv
<1>6. CASE UNCHANGED acceptvars
  BY <1>3, <1>6 DEF acceptvars
<1> QED
  BY <1>1, <1>2, <1>4, <1>5, <1>6 DEF AcceptsNext

\* However accepts complete, fail and are replaced while administrators start
\* and disable the service: lAcceptClients is the number of accepts under way,
\* and a service that listens undisturbed accepts with every index it has not
\* lost to a failure.
THEOREM AcceptsKept == AcceptsSpec => []AcceptsInv
<1>1. AcceptsIInv => AcceptsInv
  BY AcceptsIInvImplies
<1> QED
  BY <1>1, InitAccepts, NextAccepts, PTL DEF AcceptsSpec
===============================================================================
