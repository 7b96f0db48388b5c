-------------------------------- MODULE IoTimer --------------------------------
(***************************************************************************)
(* src/src/Timer.c: timers that a thread starts and stops, that the timer  *)
(* thread hands to a worker when they are due, and whose procedure may     *)
(* restart or free them.  The list is guarded by csIoTimer, the status     *)
(* word by nothing but InterlockedExchange: who finds which old value      *)
(* decides who removes the timer from the list and who frees it.           *)
(*                                                                         *)
(* A timer is its life from StartIoTimer(NULL, ...) to Free.  lpTimerList, *)
(* an array of chains sorted by due time, is the set of listed timers and  *)
(* their due times.  The failing allocations of a first start, which       *)
(* returns NULL, and a failing QueueJob are left out.                      *)
(***************************************************************************)
EXTENDS Integers, FiniteSets

CONSTANTS
  Timers,
  Claimed,       \* timers whose owner and procedure agree who disposes of them
  Delays,        \* the time-outs that timers are started and restarted with
  GRAIN,         \* due times are rounded up to this multiple (100 ms)
  MAX_TIME       \* bounds the clock

ASSUME TimerAssumption ==
  /\ Claimed \subseteq Timers
  /\ Delays \subseteq Nat
  /\ GRAIN \in Nat \ {0} /\ MAX_TIME \in Nat

INFINITE == MAX_TIME + 1

VARIABLES
  now,            \* TimerGetTickCount
  lStatus,        \* the status word of each timer
  ui64DueTime,
  lpTimerList,    \* the listed timers
  freed,          \* the timers that have been freed
  execQueue,         \* the timers for which ExecTimer is in the job queue
  proc,           \* where ExecTimer is for each timer
  owner,          \* where the thread that starts and stops the timer is
  claim,          \* who disposes of a timer of Claimed
  thread,         \* where TimerThread is: it holds csIoTimer while it scans
  dwSleep,        \* when its wait ends
  hTimerUpdate    \* the event that ends it early

status == <<lStatus, freed>>
list == <<lpTimerList, ui64DueTime>>
timerThread == <<thread, dwSleep>>
timervars == <<now, status, list, execQueue, proc, owner, claim, timerThread, hTimerUpdate>>

Statuses == {"ACTIVE", "INACTIVE", "CANCEL", "QUEUED", "WAIT"}

TimerInit ==
  /\ now = 0
  /\ lStatus = [t \in Timers |-> "WAIT"]
  /\ ui64DueTime = [t \in Timers |-> 0]
  /\ lpTimerList = {} /\ freed = {} /\ execQueue = {}
  /\ proc = [t \in Timers |-> "idle"]
  /\ owner = [t \in Timers |-> "idle"]
  /\ claim = [t \in Timers |-> "none"]
  /\ thread = "sleeping"
  /\ dwSleep = INFINITE
  /\ hTimerUpdate = FALSE

RoundUp(d) == ((d + GRAIN - 1) \div GRAIN) * GRAIN

\* csIoTimer is held across steps by the scanning timer thread only.
CsFree == thread # "scanning"

-------------------------------------------------------------------------------
(* StartIoTimer *)

\* The timer thread is woken when the timer starts a chain ahead of all others.
Insert(t, d) ==
  LET due == RoundUp(now + d) IN
  /\ CsFree /\ due <= MAX_TIME
  /\ ui64DueTime' = [ui64DueTime EXCEPT ![t] = due]
  /\ lpTimerList' = lpTimerList \cup {t}
  /\ hTimerUpdate' = (hTimerUpdate \/ \A u \in lpTimerList : ui64DueTime[u] > due)

Start(t, d) ==
  /\ owner[t] = "idle"
  /\ owner' = [owner EXCEPT ![t] = "started"]
  /\ lStatus' = [lStatus EXCEPT ![t] = "WAIT"]
  /\ Insert(t, d)
  /\ UNCHANGED <<now, freed, execQueue, proc, claim, timerThread>>

-------------------------------------------------------------------------------
(* TimerThread *)

Due == {t \in lpTimerList : ui64DueTime[t] <= now}
Earliest == {t \in lpTimerList : \A u \in lpTimerList : ui64DueTime[t] <= ui64DueTime[u]}

Wake ==
  /\ thread = "sleeping"
  /\ hTimerUpdate \/ dwSleep <= now
  /\ thread' = "scanning"
  /\ hTimerUpdate' = FALSE
  /\ UNCHANGED <<now, status, list, execQueue, proc, owner, claim, dwSleep>>

\* A due timer leaves the list; it is queued unless StopIoTimer was faster.
QueueTimer(t) ==
  /\ thread = "scanning" /\ t \in Due \cap Earliest
  /\ lpTimerList' = lpTimerList \ {t}
  /\ lStatus' = [lStatus EXCEPT ![t] = "QUEUED"]
  /\ execQueue' = IF lStatus[t] = "WAIT" THEN execQueue \cup {t} ELSE execQueue
  /\ UNCHANGED <<now, ui64DueTime, freed, proc, owner, claim, timerThread, hTimerUpdate>>

\* Mutant: the wait has no time-out.
SleepForever ==
  /\ thread = "scanning" /\ Due = {}
  /\ thread' = "sleeping"
  /\ dwSleep' = INFINITE
  /\ UNCHANGED <<now, status, list, execQueue, proc, owner, claim, hTimerUpdate>>

\* WaitForSingleObject(hTimerUpdate, dwSleep), until the first timer is due.
Sleep ==
  /\ thread = "scanning" /\ Due = {}
  /\ thread' = "sleeping"
  /\ dwSleep' = IF lpTimerList = {} THEN INFINITE
                ELSE ui64DueTime[CHOOSE t \in Earliest : TRUE]
  /\ UNCHANGED <<now, status, list, execQueue, proc, owner, claim, hTimerUpdate>>

-------------------------------------------------------------------------------
(* ExecTimer, on a worker thread *)

\* A timer that was stopped while it was queued is freed here, not run.
BeginExec(t) ==
  /\ t \in execQueue
  /\ execQueue' = execQueue \ {t}
  /\ lStatus' = [lStatus EXCEPT ![t] = "ACTIVE"]
  /\ IF lStatus[t] = "QUEUED"
     THEN proc' = [proc EXCEPT ![t] = "running"] /\ UNCHANGED freed
     ELSE freed' = freed \cup {t} /\ UNCHANGED proc
  /\ UNCHANGED <<now, list, owner, claim, timerThread, hTimerUpdate>>

\* The procedure of a Claimed timer (WSAAsyncSelectTimerProc, Socket.c:65-111)
\* looks, under the lock of what it is about, whether it is the one to end it.
ProcClaims(t) ==
  /\ proc[t] = "running" /\ t \in Claimed
  /\ IF claim[t] = "none"
     THEN /\ claim' = [claim EXCEPT ![t] = "proc"]
          /\ proc' = [proc EXCEPT ![t] = "finished"]
     ELSE /\ proc' = [proc EXCEPT ![t] = "failed"]
          /\ UNCHANGED claim
  /\ UNCHANGED <<now, status, list, execQueue, owner, timerThread, hTimerUpdate>>

\* INFINITE: the timer is gone.
ProcFinishes(t) ==
  /\ proc[t] = "finished"
  /\ proc' = [proc EXCEPT ![t] = "idle"]
  /\ freed' = freed \cup {t}
  /\ UNCHANGED <<now, lStatus, list, execQueue, owner, claim, timerThread, hTimerUpdate>>

\* Mutant: the status stays what it was while the procedure ran.
ProcStaysActive(t) ==
  /\ \/ proc[t] = "failed"
     \/ proc[t] = "running" /\ t \notin Claimed
  /\ proc' = [proc EXCEPT ![t] = "idle"]
  /\ UNCHANGED <<now, status, list, execQueue, owner, claim, timerThread, hTimerUpdate>>

\* 0, or a restart for which the array could not grow.
ProcDeactivates(t) ==
  /\ \/ proc[t] = "failed"
     \/ proc[t] = "running" /\ t \notin Claimed
  /\ proc' = [proc EXCEPT ![t] = "idle"]
  /\ lStatus' = [lStatus EXCEPT ![t] = "INACTIVE"]
  /\ UNCHANGED <<now, freed, list, execQueue, owner, claim, timerThread, hTimerUpdate>>

\* Any other result is the time-out of StartIoTimer(lpTimer, NULL, NULL, d).
ProcRestarts(t, d) ==
  /\ proc[t] = "running" /\ t \notin Claimed
  /\ proc' = [proc EXCEPT ![t] = "idle"]
  /\ Insert(t, d)
  /\ lStatus' = [lStatus EXCEPT ![t] = "WAIT"]
  /\ UNCHANGED <<now, freed, execQueue, owner, claim, timerThread>>

-------------------------------------------------------------------------------
(* StopIoTimer(lpTimer, FALSE): no caller of the repository skips active timers. *)

\* The owner of a Claimed timer stops it only if the procedure has not claimed it.
CallStop(t) ==
  /\ owner[t] = "started"
  /\ IF t \in Claimed /\ claim[t] = "proc"
     THEN owner' = [owner EXCEPT ![t] = "stopped"] /\ UNCHANGED claim
     ELSE /\ owner' = [owner EXCEPT ![t] = "stopping"]
          /\ claim' = [claim EXCEPT ![t] = "owner"]
  /\ UNCHANGED <<now, status, list, execQueue, proc, timerThread, hTimerUpdate>>

\* Mutant: an active timer counts as stopped (bSkipActive).
SkipActive(t) ==
  /\ owner[t] = "stopping"
  /\ lStatus' = [lStatus EXCEPT ![t] = "CANCEL"]
  /\ \/ /\ lStatus[t] \in {"CANCEL", "ACTIVE", "QUEUED"}
        /\ owner' = [owner EXCEPT ![t] = "stopped"]
        /\ UNCHANGED freed
     \/ /\ lStatus[t] = "WAIT"
        /\ owner' = [owner EXCEPT ![t] = "deleting"]
        /\ UNCHANGED freed
     \/ /\ lStatus[t] = "INACTIVE"
        /\ owner' = [owner EXCEPT ![t] = "stopped"]
        /\ freed' = freed \cup {t}
  /\ UNCHANGED <<now, list, execQueue, proc, claim, timerThread, hTimerUpdate>>

\* switch (InterlockedExchange(&lStatus, TIMER_CANCEL))
Cancel(t) ==
  /\ owner[t] = "stopping"
  /\ lStatus' = [lStatus EXCEPT ![t] = "CANCEL"]
  /\ \/ /\ lStatus[t] \in {"CANCEL", "ACTIVE"}   \* SwitchToThread, try again
        /\ UNCHANGED <<owner, freed>>
     \/ /\ lStatus[t] = "WAIT"                   \* it is to be taken off the list
        /\ owner' = [owner EXCEPT ![t] = "deleting"]
        /\ UNCHANGED freed
     \/ /\ lStatus[t] = "INACTIVE"
        /\ owner' = [owner EXCEPT ![t] = "stopped"]
        /\ freed' = freed \cup {t}
     \/ /\ lStatus[t] = "QUEUED"                 \* ExecTimer will free it
        /\ owner' = [owner EXCEPT ![t] = "stopped"]
        /\ UNCHANGED freed
  /\ UNCHANGED <<now, list, execQueue, proc, claim, timerThread, hTimerUpdate>>

\* Mutant: the timer is freed without waiting for the list's section.
FreeUnlisted(t) ==
  /\ owner[t] = "deleting"
  /\ owner' = [owner EXCEPT ![t] = "stopped"]
  /\ freed' = freed \cup {t}
  /\ UNCHANGED <<now, lStatus, list, execQueue, proc, claim, timerThread, hTimerUpdate>>

\* In the section: the timer thread may have taken it off meanwhile.
Delete(t) ==
  /\ owner[t] = "deleting" /\ CsFree
  /\ owner' = [owner EXCEPT ![t] = "stopped"]
  /\ lpTimerList' = IF lStatus[t] = "QUEUED" THEN lpTimerList ELSE lpTimerList \ {t}
  /\ freed' = freed \cup {t}
  /\ UNCHANGED <<now, lStatus, ui64DueTime, execQueue, proc, claim, timerThread, hTimerUpdate>>

-------------------------------------------------------------------------------
Tick ==
  /\ now < MAX_TIME
  /\ now' = now + 1
  /\ UNCHANGED <<status, list, execQueue, proc, owner, claim, timerThread, hTimerUpdate>>

TimerThread == Wake \/ Sleep \/ \E t \in Timers : QueueTimer(t)

Exec(t) ==
  \/ BeginExec(t) \/ ProcClaims(t) \/ ProcFinishes(t) \/ ProcDeactivates(t)
  \/ \E d \in Delays : ProcRestarts(t, d)

Stop(t) == Cancel(t) \/ Delete(t)

TimerNext ==
  \/ Tick \/ TimerThread
  \/ \E t \in Timers : Exec(t) \/ Stop(t) \/ CallStop(t) \/ \E d \in Delays : Start(t, d)

TimerSpec == TimerInit /\ [][TimerNext]_timervars

-------------------------------------------------------------------------------
TimerTypeOK ==
  /\ now \in 0 .. MAX_TIME
  /\ lStatus \in [Timers -> Statuses]
  /\ ui64DueTime \in [Timers -> 0 .. MAX_TIME]
  /\ lpTimerList \subseteq Timers /\ freed \subseteq Timers /\ execQueue \subseteq Timers
  /\ proc \in [Timers -> {"idle", "running", "finished", "failed"}]
  /\ owner \in [Timers -> {"idle", "started", "stopping", "deleting", "stopped"}]
  /\ claim \in [Timers -> {"none", "owner", "proc"}]
  /\ thread \in {"sleeping", "scanning"}
  /\ dwSleep \in 0 .. INFINITE
  /\ hTimerUpdate \in BOOLEAN

\* Who will still dereference a timer: the list, the job queue, the worker that
\* runs it, the thread that stops it (or may yet stop it).
Refers(t) ==
  \/ t \in lpTimerList \cup execQueue
  \/ proc[t] # "idle"
  \/ owner[t] \in {"stopping", "deleting"}
  \/ owner[t] = "started" /\ claim[t] # "proc"

\* A timer is freed by the last that knows it, and by nobody else: as soon as it
\* is freed nothing that could still touch it is left, and as long as it is not
\* there is somebody who will free it, whichever way StopIoTimer, TimerThread
\* and ExecTimer interleave.
FreedOnce ==
  \A t \in Timers : owner[t] # "idle" => (t \in freed <=> ~Refers(t))

\* StopIoTimer's promise to the callers that free the timer's context next: once
\* it has returned the procedure is not running and will not be run.
StoppedIsQuiet ==
  \A t \in Timers : owner[t] = "stopped" /\ claim[t] = "owner" =>
    /\ proc[t] = "idle" /\ t \notin lpTimerList
    /\ t \in execQueue => lStatus[t] = "CANCEL"

\* The status word is in step with the timer's place as far as nobody has
\* cancelled it, which is what lets each thread act on the old value it finds.
StatusInStep ==
  \A t \in Timers :
    /\ lStatus[t] = "WAIT" => owner[t] = "idle" \/ t \in lpTimerList
    /\ lStatus[t] = "INACTIVE" => proc[t] = "idle" /\ t \notin lpTimerList \cup execQueue
    /\ lStatus[t] = "ACTIVE" => proc[t] # "idle" \/ t \in freed
    /\ t \in lpTimerList => t \notin execQueue /\ proc[t] = "idle"
    /\ t \in execQueue => proc[t] = "idle"

\* All of it: the status word, the list, the job queue and the owners agree.
TimerInv == TimerTypeOK /\ StatusInStep /\ StoppedIsQuiet /\ FreedOnce

\* A timer that has been started fires, unless it is stopped.
TimerFires ==
  \A t \in Timers : (owner[t] = "started" /\ t \in lpTimerList) ~>
    (proc[t] # "idle" \/ owner[t] # "started")

\* StopIoTimer returns.
StopReturns == \A t \in Timers : (owner[t] = "stopping") ~> (owner[t] = "stopped")

\* Whoever starts or stops a timer gets what he asked for.
TimersServe == TimerFires /\ StopReturns
===============================================================================
