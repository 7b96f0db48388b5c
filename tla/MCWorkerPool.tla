----------------------------- MODULE MCWorkerPool -----------------------------
(* The instance of the worker pool: pools of one and of two of three threads,
   two jobs of one priority, of which the first declares itself blocking and
   waits until the second has run. *)
EXTENDS WorkerPool

CONSTANTS a, c

MCPriority == [j \in Jobs |-> JOB_PRIORITY_NORMAL]
MCAwaits == [j \in Jobs |-> IF j = a THEN {c} ELSE {}]
MCBlocking == {a}
===============================================================================
