----------------------------- MODULE ClientJobs -----------------------------
(***************************************************************************)
(* The job table of one client (MessageHandler.c).  Whatever happens on a  *)
(* connection - reading a command, running it, sending the reply, moving   *)
(* a file - is a job of the client.  A job has an id and belongs to        *)
(* classes; a job that shares a class with an active one has to wait, an   *)
(* INSTANT job never waits.  A filter makes the table refuse every further *)
(* job that is not EXCLUSIVE, and the end of the last job closes the       *)
(* client.                                                                 *)
(*                                                                         *)
(* Each function is split where the code is: an unlocked look at the       *)
(* filter, one section under lJobLock (an action), and what is done after  *)
(* the lock is released (todo), in between which other threads run.        *)
(* Timers of jobs are left to FtpSession, which extends this module.       *)
(***************************************************************************)
EXTENDS Naturals, FiniteSets, SequencesExt

CONSTANTS Threads,      \* the threads that work for the client
          JobKinds,     \* the jobs: [id, classes, exclusive, instant, proc]
          FirstJob,     \* the job ProcessClient adds
          MAX_JOBS      \* bound on the entries of the table

None   == [id |-> "none"]
Close  == [id |-> "close"]      \* lpCloseProc, among the procs to queue
ALL    == {"PRIMARY", "SECONDARY", "TERTIARY"}
Kind   == [id : STRING, classes : SUBSET ALL, exclusive : BOOLEAN,
           instant : BOOLEAN, proc : BOOLEAN]

(* A job that may have to wait has a proc: EndClientJob queues it without  *)
(* a test.  And the jobs that may extend each other are of one kind: all   *)
(* callers of AddExclusiveClientJob add job 2, but only SendQuick gives it *)
(* a proc, and the classes keep the replies of the others away from it (a  *)
(* reply is never extended: ReplyNeverWaits of FtpSession).                *)
ASSUME KindsAssumption ==
    /\ JobKinds \subseteq Kind
    /\ FirstJob \in JobKinds
    /\ FirstJob.proc
    /\ \A k \in JobKinds : k.instant \/ k.proc
    /\ \A k, l \in JobKinds : (k.id = l.id /\ k.instant /\ k.proc) => k = l

VARIABLES
    active,       \* lpActiveJob, the newest first; an entry carries lpExtended
    pending,      \* lpJobQueue
    activeFlags,  \* dwActiveFlags
    filter,       \* dwJobFilter
    queued,       \* procs handed to QueueJob that no worker has taken yet
    closes,       \* how often lpCloseProc was handed to QueueJob
    todo,         \* what each thread still does after it left lJobLock
    call,         \* the AddClientJob a thread is in, between test and lock
    job           \* the job each thread is working for

table  == <<active, pending, activeFlags, filter>>
cjvars == <<active, pending, activeFlags, filter, queued, closes, todo, call, job>>

Init ==
    /\ active = <<[kind |-> FirstJob, extended |-> <<>>]>>
    /\ pending = <<>>
    /\ activeFlags = FirstJob.classes
    /\ filter = {}
    /\ queued = {FirstJob}
    /\ closes = 0
    /\ todo = [t \in Threads |-> <<>>]
    /\ call = [t \in Threads |-> None]
    /\ job  = [t \in Threads |-> None]

Ids(s)     == {s[i].kind.id : i \in DOMAIN s}
Classes(s) == UNION {s[i].kind.classes : i \in DOMAIN s}
Free(t)    == call[t] = None /\ todo[t] = <<>>

\* The elements of s at the places in I, in their order.
Sub(s, I) ==
    [n \in 1..Cardinality(I) |-> s[CHOOSE i \in I : Cardinality({j \in I : j <= i}) = n]]

\* Mutant: an INSTANT job passes the filter.
RefusedUnlessInstant(k) ==
    ~ k.exclusive /\ ~ k.instant /\ k.classes \cap filter # {}

Refused(k) == ~ k.exclusive /\ k.classes \cap filter # {}

-----------------------------------------------------------------------------
(* AddClientJob: the first test of the filter, without the lock. *)
TestFilter(t, k, op) ==
    /\ Free(t)
    /\ ~ Refused(k)
    /\ call' = [call EXCEPT ![t] = [id |-> op, kind |-> k]]
    /\ UNCHANGED <<table, queued, closes, todo, job>>

Calls(t, op) == call[t].id = op /\ todo[t] = <<>>
Returned(t)  == [call EXCEPT ![t] = None]

MayStart(k) == k.instant \/ k.classes \cap activeFlags = {}

Activate(t) ==
    LET k == call[t].kind IN
    /\ MayStart(k)
    /\ active' = <<[kind |-> k, extended |-> <<>>]>> \o active
    /\ activeFlags' = activeFlags \cup k.classes
    /\ todo' = [todo EXCEPT ![t] = IF k.proc THEN <<k>> ELSE <<>>]
    /\ UNCHANGED <<pending, filter>>

Postpone(t) ==
    LET k == call[t].kind IN
    /\ ~ MayStart(k)
    /\ pending' = Append(pending, [kind |-> k, extended |-> <<>>])
    /\ UNCHANGED <<active, activeFlags, filter, todo>>

(* The second test of the filter, under the lock; a job refused now leaves *)
(* `undo` to do.                                                           *)
Enter(t, undo) ==
    IF Refused(call[t].kind)
      THEN todo' = [todo EXCEPT ![t] = undo] /\ UNCHANGED table
      ELSE Activate(t) \/ Postpone(t)

AddClientJob(t, undo) ==
    /\ Calls(t, "add")
    /\ Enter(t, undo)
    /\ call' = Returned(t)
    /\ UNCHANGED <<queued, closes, job>>

(* AddExclusiveClientJob.  A job of the same id in the table, active or    *)
(* pending, is extended by this one, and the thread blocks until           *)
(* EndClientJob hands it the entry.                                        *)
First(s, i, id) == s[i].kind.id = id /\ \A j \in 1..i - 1 : s[j].kind.id # id

Extended(s, id, t, k) ==
    LET i == CHOOSE i \in DOMAIN s : First(s, i, id)
    IN  [s EXCEPT ![i].extended = Append(@, [kind |-> k, by |-> t])]

Extend(t) ==
    LET k == call[t].kind IN
    /\ IF k.id \in Ids(active)
         THEN active' = Extended(active, k.id, t, k) /\ UNCHANGED pending
         ELSE pending' = Extended(pending, k.id, t, k) /\ UNCHANGED active
    /\ call' = [call EXCEPT ![t].id = "blocked"]
    /\ UNCHANGED <<activeFlags, filter, todo>>

AddExclusiveClientJob(t) ==
    /\ Calls(t, "addExclusive")
    /\ \/ call[t].kind.id \in Ids(active) \cup Ids(pending) /\ Extend(t)
       \/ /\ call[t].kind.id \notin Ids(active) \cup Ids(pending)
          /\ Enter(t, <<>>)
          /\ call' = Returned(t)
    /\ UNCHANGED <<queued, closes, job>>

-----------------------------------------------------------------------------
(* EndClientJob.  S are the places of the jobs that can start once `flags` *)
(* are what is active: each is compared with them and with the jobs that   *)
(* start before it.                                                        *)
\* Mutant: each job is compared with what is active, not with those that start with it.
StartableTogether(S, flags) ==
    \A i \in DOMAIN pending : i \in S <=> pending[i].kind.classes \cap flags = {}

Startable(S, flags) ==
    \A i \in DOMAIN pending :
        i \in S <=> pending[i].kind.classes \cap
                      (flags \cup UNION {pending[j].kind.classes : j \in {j \in S : j < i}}) = {}

(* The queue is filled from the last job found to the first. *)
Kinds(s) == [i \in DOMAIN s |-> s[i].kind]

\* Mutant: the proc of the extension is not queued.
TakeOverNotQueued(t, i, before) ==
    LET e == active[i]
        next == Head(e.extended) IN
    /\ e.extended # <<>>
    /\ active' = [active EXCEPT ![i] = [kind |-> next.kind, extended |-> Tail(e.extended)]]
    /\ call' = [call EXCEPT ![next.by] = None]
    /\ todo' = [todo EXCEPT ![t] = before]
    /\ UNCHANGED <<pending, activeFlags, filter>>

(* An extended job takes over the entry and its thread is released.  Its   *)
(* proc is queued, even where it has none.                                 *)
TakeOver(t, i, before) ==
    LET e == active[i]
        next == Head(e.extended) IN
    /\ e.extended # <<>>
    /\ active' = [active EXCEPT ![i] = [kind |-> next.kind, extended |-> Tail(e.extended)]]
    /\ call' = [call EXCEPT ![next.by] = None]
    /\ todo' = [todo EXCEPT ![t] = before \o <<next.kind>>]
    /\ UNCHANGED <<pending, activeFlags, filter>>

\* Mutant: the last active job closes the client, whatever waits.
RemoveEntryIgnoresPending(t, i, before) ==
    LET rest == RemoveAt(active, i)
        last == rest = <<>> IN
    \E S \in SUBSET DOMAIN pending :
    /\ active[i].extended = <<>>
    /\ Startable(S, Classes(rest))
    /\ LET go == Sub(pending, S) IN
         /\ active' = Reverse(go) \o rest
         /\ activeFlags' = Classes(rest) \cup Classes(go)
         /\ todo' = [todo EXCEPT ![t] = before \o (IF last THEN <<Close>> ELSE <<>>)
                                               \o Reverse(Kinds(go))]
    /\ pending' = Sub(pending, DOMAIN pending \ S)
    /\ UNCHANGED <<filter, call>>

RemoveEntry(t, i, before) ==
    LET rest == RemoveAt(active, i)
        last == rest = <<>> /\ pending = <<>> IN
    \E S \in SUBSET DOMAIN pending :
    /\ active[i].extended = <<>>
    /\ Startable(S, Classes(rest))
    /\ LET go == Sub(pending, S) IN
         /\ active' = Reverse(go) \o rest
         /\ activeFlags' = Classes(rest) \cup Classes(go)
         /\ todo' = [todo EXCEPT ![t] = before \o (IF last THEN <<Close>> ELSE <<>>)
                                               \o Reverse(Kinds(go))]
    /\ pending' = Sub(pending, DOMAIN pending \ S)
    /\ UNCHANGED <<filter, call>>

EndClientJob(t, id, before) ==
    /\ Free(t)
    /\ \/ id \notin Ids(active) /\ UNCHANGED <<table, todo, call>>
       \/ \E i \in DOMAIN active :
            /\ First(active, i, id)
            /\ TakeOver(t, i, before) \/ RemoveEntry(t, i, before)
    /\ UNCHANGED <<queued, closes>>

(* After the lock: lpCloseProc or the proc of a started job is queued. *)
QueueProc(t) ==
    /\ todo[t] # <<>>
    /\ IF Head(todo[t]) = Close
         THEN closes' = closes + 1 /\ UNCHANGED queued
         ELSE queued' = queued \cup {Head(todo[t])} /\ UNCHANGED closes
    /\ todo' = [todo EXCEPT ![t] = Tail(@)]
    /\ UNCHANGED <<table, call, job>>

(* SetJobFilter.  Active jobs are told to cancel, which only makes them    *)
(* end sooner; pending ones are dropped, extensions and all, unless they   *)
(* are exclusive.                                                          *)
SetJobFilter ==
    /\ filter # ALL
    /\ LET Kept(e) == e.kind.exclusive \/ e.kind.classes \cap ALL = {}
       IN  pending' = Sub(pending, {i \in DOMAIN pending : Kept(pending[i])})
    /\ filter' = ALL
    /\ UNCHANGED <<active, activeFlags>>
-----------------------------------------------------------------------------
(* The threads of a client.  A worker that takes the proc of a job, or the *)
(* callback of an INSTANT job's I/O, works for that job: it may add other  *)
(* jobs and it ends its own.                                               *)
TakeProc(t) ==
    /\ Free(t) /\ job[t] = None
    /\ \E k \in queued :
         /\ job' = [job EXCEPT ![t] = k]
         /\ queued' = queued \ {k}
    /\ UNCHANGED <<table, closes, todo, call>>

Callback(t) ==
    /\ Free(t) /\ job[t] = None
    /\ \E e \in ToSet(active) :
         /\ ~ e.kind.proc
         /\ \A u \in Threads : job[u] # e.kind
         /\ job' = [job EXCEPT ![t] = e.kind]
    /\ UNCHANGED <<table, queued, closes, todo, call>>

Size == Len(active) + Len(pending) + Cardinality({t \in Threads : call[t] # None})

(* A thread that works for a job adds another.  Ids are the callers' to    *)
(* keep apart, except where the job is added with AddExclusiveClientJob.   *)
Unused(id) ==
    /\ id \notin Ids(active) \cup Ids(pending)
    /\ \A t \in Threads : call[t] # None => call[t].kind.id # id

Add(t) ==
    /\ job[t] # None /\ Size < MAX_JOBS
    /\ \E k \in JobKinds :
         /\ k.id # job[t].id
         /\ IF k.instant /\ k.proc
              THEN TestFilter(t, k, "addExclusive")
              ELSE Unused(k.id) /\ TestFilter(t, k, "add")

(* Whoever works for a job ends it.  (SendQuickProc wakes the thread that  *)
(* added the job and leaves the end to it: the table sees no difference.)  *)
End(t) ==
    /\ job[t] # None
    /\ EndClientJob(t, job[t].id, <<>>)
    /\ job' = [job EXCEPT ![t] = None]

(* KillUser, or a thread of the client that lost the connection. *)
Kill ==
    /\ active # <<>>
    /\ SetJobFilter
    /\ UNCHANGED <<queued, closes, todo, call, job>>

Step(t) == AddClientJob(t, <<>>) \/ AddExclusiveClientJob(t) \/ QueueProc(t)
               \/ TakeProc(t) \/ Callback(t) \/ End(t)

Next == (\E t \in Threads : Step(t) \/ Add(t)) \/ Kill

Spec == Init /\ [][Next]_cjvars

-----------------------------------------------------------------------------
Entry == [kind : JobKinds, extended : Seq([kind : JobKinds, by : Threads])]

Starting == {k \in JobKinds : k.proc /\ \E e \in ToSet(active) : e.kind = k}

Places(k) ==
    Cardinality({t \in Threads : k \in ToSet(todo[t])})
        + Cardinality({t \in Threads : job[t] = k}) + (IF k \in queued THEN 1 ELSE 0)

(* Two active jobs that share a class: one of them is INSTANT.  That is    *)
(* what lets a proc use the client's buffers without a lock.               *)
ClassesExclude ==
    \A i, j \in DOMAIN active :
        (i # j /\ active[i].kind.classes \cap active[j].kind.classes # {})
            => (active[i].kind.instant \/ active[j].kind.instant)

(* Once the filter is set no job waits any more that it should have        *)
(* refused: the second test of AddClientJob closes the window of the       *)
(* first.                                                                  *)
FilterDrains ==
    filter = ALL => \A i \in DOMAIN pending : pending[i].kind.exclusive

(* The table is well formed: dwActiveFlags is exactly the classes of the   *)
(* active jobs, and whatever waits has an active job to wait for - so no   *)
(* pending job is left behind when the last job that blocked it ends       *)
(* (EndClientJob's scan, MessageHandler.c 1696-1719).                      *)
TableInv ==
    /\ active \in Seq(Entry) /\ pending \in Seq(Entry)
    /\ filter \in {{}, ALL}
    /\ activeFlags = Classes(active)
    /\ \A i \in DOMAIN pending : pending[i].kind.classes \cap activeFlags # {}
    /\ ClassesExclude
    /\ FilterDrains

(* The proc of an active job is on its way to a worker or with one, once;  *)
(* nothing else is.  A start can be lost or doubled in the window between  *)
(* the unlock and QueueJob, or when an extension takes over an entry.      *)
StartedOnce ==
    \A k \in JobKinds : k.proc => Places(k) = (IF k \in Starting THEN 1 ELSE 0)

(* lpCloseProc is queued once, by the thread that ended the last job, and  *)
(* from then on the table stays empty.                                     *)
ClosedOnce ==
    LET closing == {t \in Threads : Close \in ToSet(todo[t])} IN
    /\ closes + Cardinality(closing) <= 1
    /\ (closes > 0 \/ closing # {}) <=> (active = <<>> /\ pending = <<>>)

(* The table, the procs under way and the close of the client fit each     *)
(* other, whatever thread has just left lJobLock and has not done the rest *)
(* of its call (MessageHandler.c 1726-1770).                               *)
JobsInv == TableInv /\ StartedOnce /\ ClosedOnce

(* A client whose filter is set is closed: KillUser works. *)
KilledCloses == filter = ALL ~> closes = 1
=============================================================================
