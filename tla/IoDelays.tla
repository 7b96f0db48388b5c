------------------------------ MODULE IoDelays ------------------------------
(***************************************************************************)
(* Operations that wait for their turn.                                    *)
(*                                                                         *)
(* Socket.c: where a device or a user has a bandwidth limit, a transfer's  *)
(* next operation on its socket moves one unit (1 KB), and is begun only   *)
(* while the device and the user have units left.  Otherwise it waits in   *)
(* one of three queues of the device: 0 for the next tick of the socket    *)
(* scheduler, 1 for the next second, 2 for what a tick could not release.  *)
(* One direction of one device is modelled; the other is the same code     *)
(* with other names.                                                       *)
(*                                                                         *)
(* File.c: the requests on a disk beyond the configured number wait in a   *)
(* queue, and the completion of one begins the next.                       *)
(*                                                                         *)
(* Files and sockets share no state: the two parts have a next-state       *)
(* relation each.                                                          *)
(***************************************************************************)
EXTENDS Integers, Sequences, FiniteSets

CONSTANTS Ops,         \* the operations: one per transfer
          NULL,
          Limited,     \* those whose user has a limit
          USER_LIMIT,  \* units a second of such a user
          DEVICE_LIMIT,\* dwGlobalBandwidthLimit, units a second
          SPEED,       \* dwSchedulerUpdateSpeed, ticks a second
          REQUESTS     \* dwMaxRequestsPerDevice

ASSUME DelaysAssumption ==
    /\ NULL \notin Ops /\ Limited \subseteq Ops
    /\ USER_LIMIT \in Nat \ {0} /\ DEVICE_LIMIT \in Nat \ {0} /\ SPEED \in Nat \ {0}
    /\ REQUESTS \in Nat \ {0}

VARIABLES
    lpNext,      \* of each operation
    lpIOQueue,   \* 0..2 -> [HEAD, TAIL, n]
    unitsLeft,   \* dwGlobalBandwidthLeft
    allowed,     \* dwBandwidthLimit of each operation's socket
    op,          \* "idle", "delayed", "posted" (released, about to begin), "started"
    tick,        \* of the scheduler: [at, loops, HEAD, TAIL, n, release]
    stale        \* the scheduler has taken a TAIL that is not of its list

delayvars == <<lpNext, lpIOQueue, unitsLeft, allowed, op, tick, stale>>

Empty == [HEAD |-> NULL, TAIL |-> NULL, n |-> 0]

DelayInit ==
    /\ lpNext = [o \in Ops |-> NULL]
    /\ lpIOQueue = [q \in 0..2 |-> Empty]
    /\ unitsLeft \in {0, DEVICE_LIMIT \div SPEED}
    /\ allowed = [o \in Ops |-> USER_LIMIT]
    /\ op = [o \in Ops |-> "idle"]
    /\ tick = [at |-> "asleep", loops |-> 1, HEAD |-> NULL, TAIL |-> NULL, n |-> 0, release |-> 0]
    /\ stale = FALSE

\* Mutant: the last item is not linked.
PushUnlinked(q, o) ==
    /\ lpIOQueue' = [lpIOQueue EXCEPT
           ![q] = [HEAD |-> IF @.HEAD = NULL THEN o ELSE @.HEAD, TAIL |-> o, n |-> @.n + 1]]
    /\ lpNext' = lpNext
Push(q, o) ==
    /\ lpIOQueue' = [lpIOQueue EXCEPT
           ![q] = [HEAD |-> IF @.HEAD = NULL THEN o ELSE @.HEAD, TAIL |-> o, n |-> @.n + 1]]
    /\ lpNext' = IF lpIOQueue[q].HEAD = NULL THEN lpNext
                 ELSE [lpNext EXCEPT ![lpIOQueue[q].TAIL] = o]

(* SendOverlapped and ReceiveOverlapped, under the lock of the queues.     *)
Overlapped(o) ==
    /\ op[o] = "idle"
    /\ IF unitsLeft = 0
       THEN /\ Push(0, o) /\ op' = [op EXCEPT ![o] = "delayed"]
            /\ UNCHANGED <<unitsLeft, allowed>>
       ELSE IF o \in Limited /\ allowed[o] = 0
       THEN /\ Push(1, o) /\ op' = [op EXCEPT ![o] = "delayed"]
            /\ allowed' = [allowed EXCEPT ![o] = USER_LIMIT - 1]
            /\ UNCHANGED unitsLeft
       ELSE /\ op' = [op EXCEPT ![o] = "started"]
            /\ unitsLeft' = unitsLeft - 1
            /\ allowed' = IF o \in Limited THEN [allowed EXCEPT ![o] = @ - 1] ELSE allowed
            /\ UNCHANGED <<lpNext, lpIOQueue>>
    /\ UNCHANGED <<tick, stale>>

(* A new transfer sets the limits of its socket (FTP_Data_Start): what is  *)
(* left of this second, at least 2.                                        *)
SetSocketOption(o) ==
    /\ op[o] = "idle" /\ o \in Limited
    /\ \E n \in 2..USER_LIMIT : allowed' = [allowed EXCEPT ![o] = n]
    /\ UNCHANGED <<lpNext, lpIOQueue, unitsLeft, op, tick, stale>>

\* SendQueuedIO and ReceiveQueuedIO, by a thread of the completion port.
QueuedIO(o) ==
    /\ op[o] = "posted" /\ op' = [op EXCEPT ![o] = "started"]
    /\ UNCHANGED <<lpNext, lpIOQueue, unitsLeft, allowed, tick, stale>>

Finished(o) ==
    /\ op[o] = "started" /\ op' = [op EXCEPT ![o] = "idle"]
    /\ UNCHANGED <<lpNext, lpIOQueue, unitsLeft, allowed, tick, stale>>

(* SocketSchedulerThread takes over the delayed operations: the ones left  *)
(* from its last tick, then queue 0, and once a second queue 1.  An append *)
(* writes the lpNext of the tail so far.                                   *)
AppendTo(list, next, q) ==
    [next EXCEPT ![list.TAIL] = IF list.HEAD = NULL THEN @ ELSE q.HEAD]

\* What is added to the rate of a tick from the units the last one left.
Carried(rate) == (IF unitsLeft > rate \div 2 THEN rate ELSE unitsLeft) \div 2

\* dwLoops++ % dwSchedulerUpdateSpeed == 0: once a second.
\* Mutant: never.
NotInTime(loops) == loops = SPEED
InTime(loops) == loops = 0
Taken(all) ==
    [lpIOQueue EXCEPT ![0] = [@ EXCEPT !.HEAD = NULL, !.n = 0],
                      ![1] = IF all THEN [@ EXCEPT !.HEAD = NULL, !.n = 0] ELSE @]

SocketSchedulerThread ==
    /\ tick.at = "asleep" /\ ~stale
    /\ LET all   == InTime(tick.loops)
           kept  == lpIOQueue[2]
           first == lpIOQueue[0]
           later == lpIOQueue[1]
           one   == [HEAD |-> IF kept.HEAD = NULL THEN first.HEAD ELSE kept.HEAD,
                     TAIL |-> first.TAIL, n |-> kept.n + first.n]
           next1 == IF kept.HEAD = NULL THEN lpNext ELSE AppendTo(kept, lpNext, first)
           more  == all /\ later.HEAD # NULL
           \* Without a valid TAIL the next append would go astray.
           astray == kept.HEAD # NULL /\ first.HEAD = NULL /\ first.TAIL # kept.TAIL
           two   == IF more THEN [HEAD |-> IF one.HEAD = NULL THEN later.HEAD ELSE one.HEAD,
                                  TAIL |-> later.TAIL, n |-> one.n + later.n] ELSE one
           rate  == DEVICE_LIMIT \div SPEED
           up    == rate + Carried(rate) + (IF all THEN DEVICE_LIMIT % SPEED ELSE 0)
           freed == IF two.n < up THEN two.n ELSE up
       IN /\ stale' = astray
          /\ lpIOQueue' = Taken(all)
          /\ unitsLeft' = up - freed
          /\ tick' = [at |-> "release", loops |-> (tick.loops + 1) % SPEED, HEAD |-> two.HEAD,
                      TAIL |-> two.TAIL, n |-> two.n - freed, release |-> freed]
          \* when all are released, the last one's lpNext is cleared
          /\ lpNext' = LET next2 == IF more /\ one.HEAD # NULL /\ ~astray
                                    THEN AppendTo(one, next1, later) ELSE next1
                       IN IF two.n = freed /\ freed > 0 /\ ~astray
                          THEN [next2 EXCEPT ![two.TAIL] = NULL] ELSE next2
    /\ UNCHANGED <<allowed, op>>

\* Outside of the lock, the operations are posted one by one.
Release ==
    /\ tick.at = "release" /\ tick.release > 0 /\ ~stale
    /\ op' = [op EXCEPT ![tick.HEAD] = "posted"]
    /\ tick' = [tick EXCEPT !.HEAD = lpNext[tick.HEAD], !.release = @ - 1]
    /\ UNCHANGED <<lpNext, lpIOQueue, unitsLeft, allowed, stale>>

KeepRest ==
    /\ tick.at = "release" /\ tick.release = 0 /\ ~stale
    /\ lpIOQueue' = [lpIOQueue EXCEPT ![2] = [HEAD |-> tick.HEAD, TAIL |-> tick.TAIL, n |-> tick.n]]
    /\ tick' = [tick EXCEPT !.at = "asleep", !.HEAD = NULL, !.TAIL = NULL, !.n = 0]
    /\ UNCHANGED <<lpNext, unitsLeft, allowed, op, stale>>

Scheduler == SocketSchedulerThread \/ Release \/ KeepRest
DelayNext == \/ \E o \in Ops : Overlapped(o) \/ SetSocketOption(o) \/ QueuedIO(o) \/ Finished(o)
             \/ Scheduler

-----------------------------------------------------------------------------
(* The requests on a disk. *)
VARIABLES
    request,     \* of each transfer's file: "none", "queued", "running"
    dwRequests,
    requests     \* from lpQueueHead to lpQueueTail

requestvars == <<request, dwRequests, requests>>

RequestInit == request = [o \in Ops |-> "none"] /\ dwRequests = 0 /\ requests = <<>>

(* IoReadFile and IoWriteFile. *)
IoFile(o) ==
    /\ request[o] = "none"
    /\ dwRequests' = dwRequests + 1
    /\ IF REQUESTS < dwRequests
       THEN requests' = Append(requests, o) /\ request' = [request EXCEPT ![o] = "queued"]
       ELSE request' = [request EXCEPT ![o] = "running"] /\ UNCHANGED requests

(* A request has ended, well or not: PopIOQueue begins the next.           *)
PopIOQueue(o) ==
    /\ request[o] = "running"
    /\ dwRequests' = dwRequests - 1
    /\ IF dwRequests' > REQUESTS
       THEN /\ requests' = Tail(requests)
            /\ request' = [request EXCEPT ![o] = "none", ![Head(requests)] = "running"]
       ELSE request' = [request EXCEPT ![o] = "none"] /\ UNCHANGED requests

RequestNext == \E o \in Ops : IoFile(o) \/ PopIOQueue(o)

-----------------------------------------------------------------------------
\* The first n items of a list.
Items(head, n) ==
    LET item[i \in 1..Cardinality(Ops)] ==
            IF i = 1 THEN head ELSE IF item[i - 1] = NULL THEN NULL ELSE lpNext[item[i - 1]]
    IN {item[i] : i \in 1..IF n < Cardinality(Ops) THEN n ELSE Cardinality(Ops)}

OfQueue(q)  == Items(lpIOQueue[q].HEAD, lpIOQueue[q].n)
OfScheduler == Items(tick.HEAD, tick.n + tick.release)
Delayed     == {o \in Ops : op[o] = "delayed"}
KeptBy      == IF tick.at = "asleep" THEN OfQueue(2) ELSE OfScheduler
Counted     == lpIOQueue[0].n + lpIOQueue[1].n
               + (IF tick.at = "asleep" THEN lpIOQueue[2].n ELSE tick.n + tick.release)

(* An operation that waits is in exactly one queue, once, and a queue has  *)
(* no other: none is lost, begun twice, or left behind by its count.            *)
DelayedAreQueued ==
    stale \/ /\ OfQueue(0) \cup OfQueue(1) \cup KeptBy = Delayed
             /\ Counted = Cardinality(Delayed)

(* A request waits only while there is one whose end will begin it.        *)
RequestsServed ==
    /\ {o \in Ops : request[o] = "queued"} = {requests[i] : i \in DOMAIN requests}
    /\ requests # <<>> =>
         Cardinality({o \in Ops : request[o] = "running"}) = REQUESTS + 1

(* Every operation that waits is begun.                                    *)
DelayedGoOn == \A o \in Ops : op[o] = "delayed" ~> op[o] # "delayed" \/ stale
=============================================================================
