------------------------------- MODULE MCJobs -------------------------------
(* A lock of three threads and two permits, so that the semaphore itself   *)
(* runs out; the jobs of one client; a periodic timer and a one-shot timer *)
(* with its claim protocol.  They share no state: a behaviour looks at one *)
(* of them.                                                                *)
EXTENDS LockObject, ClientJobs, IoTimer

VARIABLE focus

Job(id, classes, exclusive, instant, hasProc) ==
    [id |-> id, classes |-> classes, exclusive |-> exclusive,
     instant |-> instant, proc |-> hasProc]

MCFirst == Job("10005", {"TERTIARY"}, FALSE, FALSE, TRUE)
MCKinds == {MCFirst,
            Job("2", {"SECONDARY"}, FALSE, TRUE, TRUE),
            Job("1", {"PRIMARY"}, FALSE, TRUE, FALSE),
            Job("5", {"PRIMARY", "SECONDARY"}, FALSE, FALSE, TRUE),
            Job("203", {"SECONDARY", "TERTIARY"}, TRUE, FALSE, TRUE)}

MCInit == focus \in {"lock", "jobs", "timers"} /\ LockInit /\ Init /\ TimerInit

MCNext ==
    /\ UNCHANGED focus
    /\ \/ focus = "lock" /\ LockNext /\ UNCHANGED <<cjvars, timervars>>
       \/ focus = "jobs" /\ Next /\ UNCHANGED <<lockvars, timervars>>
       \/ focus = "timers" /\ TimerNext /\ UNCHANGED <<lockvars, cjvars>>

(* A thread in Locking.c that is not blocked runs, and gives the lock back. *)
(* Workers run (the pool is WorkerPool's), every operation of a client     *)
(* ends (by itself, by its timeout or because the socket was closed), and  *)
(* its thread then ends the job.  Time passes and the timer thread runs;   *)
(* nobody has to start or to stop a timer.                                 *)
MCSpec ==
    /\ MCInit /\ [][MCNext]_<<lockvars, cjvars, timervars, focus>>
    /\ \A t \in Users : WF_lockvars(focus = "lock" /\ Progress(t))
    /\ \A t \in Threads :
         /\ WF_cjvars(focus = "jobs" /\ (AddClientJob(t, <<>>) \/ AddExclusiveClientJob(t)))
         /\ WF_cjvars(focus = "jobs" /\ QueueProc(t))
         /\ SF_cjvars(focus = "jobs" /\ End(t))
         /\ WF_cjvars(focus = "jobs" /\ (TakeProc(t) \/ Callback(t)))
    /\ WF_timervars(focus = "timers" /\ Tick)
    /\ WF_timervars(focus = "timers" /\ TimerThread)
    /\ \A t \in Timers : /\ WF_timervars(focus = "timers" /\ Exec(t))
                         /\ WF_timervars(focus = "timers" /\ Stop(t))
=============================================================================
