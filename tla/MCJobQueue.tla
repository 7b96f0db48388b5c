------------------------------ MODULE MCJobQueue ------------------------------
(* What wakes a thread: the semaphore of the queue, with a HIGH job, two of   *)
(* NORMAL priority and a LOW one, two workers and one caller; and the accepts *)
(* of a service.  They share no state: a behaviour looks at one of them.      *)
EXTENDS JobQueue, Accepts

VARIABLE focus

MCJobs == {"h1", "n1", "n2", "l1"}
MCPriority == [j \in MCJobs |->
  CASE j = "h1" -> JOB_PRIORITY_HIGH
    [] j \in {"n1", "n2"} -> JOB_PRIORITY_NORMAL
    [] OTHER -> JOB_PRIORITY_LOW]

MCInit ==
  /\ focus \in {"queue", "accepts"}
  /\ Init /\ AcceptsInit
  /\ focus = "accepts" => pc = [t \in Threads |-> "wait"]

MCNext ==
  /\ UNCHANGED focus
  /\ \/ focus = "queue" /\ Next /\ UNCHANGED acceptvars
     \/ focus = "accepts" /\ AcceptsNext /\ UNCHANGED vars

(* Workers and callers run as in FairSpec; the window's thread and those of *)
(* the completion port run.                                                 *)
MCSpec ==
  /\ MCInit /\ [][MCNext]_<<vars, acceptvars, focus>>
  /\ \A t \in Threads : WF_vars(focus = "queue" /\ Worker(t))
  /\ \A c \in Callers : WF_vars(focus = "queue" /\ ReleaseAlert(c))
  /\ WF_acceptvars(focus = "accepts" /\ Window)
  /\ \A n \in News : /\ WF_acceptvars(focus = "accepts" /\ Service_AcceptClient(n))
                     /\ WF_acceptvars(focus = "accepts" /\ Completes(n))
===============================================================================
