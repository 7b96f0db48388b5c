------------------------------ MODULE LockObject ------------------------------
(***************************************************************************)
(* src/src/Locking.c: the shared/exclusive lock of the server.  A          *)
(* LOCKOBJECT is a manual-reset event (hEvent[0], set while readers may    *)
(* enter), a semaphore of LOCK_MAX_COUNT permits (hEvent[1], one taken by  *)
(* every reader) and the word lExclusive, which a writer claims first.     *)
(* Every step below is one system call of the code; threads interleave     *)
(* between any two of them.                                                *)
(***************************************************************************)
EXTENDS Integers, FiniteSets

CONSTANTS
  Users,          \* the threads that share the lock
  LOCK_MAX_COUNT    \* the permits of the semaphore (10000 in LockObject.h)

ASSUME LockAssumption ==
  /\ IsFiniteSet(Users)
  /\ LOCK_MAX_COUNT \in Nat \ {0}

VARIABLES
  event,        \* hEvent[0]: is the manual-reset event signalled?
  permits,      \* hEvent[1]: the current count of the semaphore
  lExclusive,   \* has a writer claimed the lock?
  at            \* where each thread is in Locking.c

lockvars == <<event, permits, lExclusive, at>>

\* The control points, by the call the thread is about to make or is blocked in.
Steps == { "idle",
           "waitBoth", "shared",                       \* AcquireSharedLock
           "exchange", "waitEvent", "reset",           \* AcquireExclusiveLock
           "drain", "probe", "exclusive",
           "unclaim" }                                 \* ReleaseExclusiveLock

MoveTo(t, from, to) == at[t] = from /\ at' = [at EXCEPT ![t] = to]

\* InitializeLockObject: event set, every permit in place, nobody's claim.
LockInit ==
  /\ event = TRUE
  /\ permits = LOCK_MAX_COUNT
  /\ lExclusive = FALSE
  /\ at = [t \in Users |-> "idle"]

-------------------------------------------------------------------------------
(* Readers. *)

CallShared(t) == MoveTo(t, "idle", "waitBoth") /\ UNCHANGED <<event, permits, lExclusive>>

\* WaitForMultipleObjects(2, hEvent, TRUE, INFINITE): returns when both objects
\* are signalled at once, and only then takes the permit.
AcquireSharedLock(t) ==
  /\ MoveTo(t, "waitBoth", "shared")
  /\ event /\ permits > 0
  /\ permits' = permits - 1
  /\ UNCHANGED <<event, lExclusive>>

ReleaseSharedLock(t) ==
  /\ MoveTo(t, "shared", "idle")
  /\ permits' = permits + 1
  /\ UNCHANGED <<event, lExclusive>>

-------------------------------------------------------------------------------
(* Writers: claim lExclusive, close the event, wait for the last reader. *)

CallExclusive(t) == MoveTo(t, "idle", "exchange") /\ UNCHANGED <<event, permits, lExclusive>>

\* while (InterlockedExchange(&lExclusive, TRUE)) ...
Claim(t) ==
  /\ IF lExclusive THEN MoveTo(t, "exchange", "waitEvent") ELSE MoveTo(t, "exchange", "reset")
  /\ lExclusive' = TRUE
  /\ UNCHANGED <<event, permits>>

\* ... WaitForSingleObject(hEvent[0], INFINITE);  a manual-reset event stays set.
AwaitEvent(t) ==
  /\ event
  /\ MoveTo(t, "waitEvent", "exchange")
  /\ UNCHANGED <<event, permits, lExclusive>>

\* Mutant: ResetEvent is forgotten, readers keep entering.
CloseEventForgotten(t) ==
  /\ MoveTo(t, "reset", "drain")
  /\ UNCHANGED <<event, permits, lExclusive>>

CloseEvent(t) ==
  /\ MoveTo(t, "reset", "drain")
  /\ event' = FALSE
  /\ UNCHANGED <<permits, lExclusive>>

\* WaitForSingleObject(hEvent[1], INFINITE)
TakeProbe(t) ==
  /\ MoveTo(t, "drain", "probe")
  /\ permits > 0
  /\ permits' = permits - 1
  /\ UNCHANGED <<event, lExclusive>>

\* Mutant: a probe that finds readers inside keeps its permit.
ReturnProbeLeaks(t) ==
  LET lLeft == (LOCK_MAX_COUNT - 1) - permits IN
  /\ IF lLeft = 0
     THEN MoveTo(t, "probe", "exclusive") /\ permits' = permits + 1
     ELSE MoveTo(t, "probe", "drain") /\ UNCHANGED permits
  /\ UNCHANGED <<event, lExclusive>>

\* ReleaseSemaphore(hEvent[1], 1, &lCount): lCount is the count before the
\* release, so lLeft permits are out with readers; at 0 the lock is ours.
ReturnProbe(t) ==
  LET lLeft == (LOCK_MAX_COUNT - 1) - permits IN
  /\ IF lLeft = 0 THEN MoveTo(t, "probe", "exclusive") ELSE MoveTo(t, "probe", "drain")
  /\ permits' = permits + 1
  /\ UNCHANGED <<event, lExclusive>>

\* ReleaseExclusiveLock lets the readers in first and drops its claim second.
OpenEvent(t) ==
  /\ MoveTo(t, "exclusive", "unclaim")
  /\ event' = TRUE
  /\ UNCHANGED <<permits, lExclusive>>

Unclaim(t) ==
  /\ MoveTo(t, "unclaim", "idle")
  /\ lExclusive' = FALSE
  /\ UNCHANGED <<event, permits>>

-------------------------------------------------------------------------------
\* The steps of a call once it is made, which the thread takes without help.
Progress(t) ==
  \/ AcquireSharedLock(t) \/ ReleaseSharedLock(t)
  \/ Claim(t) \/ AwaitEvent(t) \/ CloseEvent(t)
  \/ TakeProbe(t) \/ ReturnProbe(t)
  \/ OpenEvent(t) \/ Unclaim(t)

LockNext == \E t \in Users : CallShared(t) \/ CallExclusive(t) \/ Progress(t)

LockSpec == LockInit /\ [][LockNext]_lockvars

\* A thread that is not blocked keeps running and gives back what it holds.
LockFairSpec == LockSpec /\ \A t \in Users : WF_lockvars(Progress(t))

-------------------------------------------------------------------------------
LockTypeOK ==
  /\ event \in BOOLEAN
  /\ permits \in 0 .. LOCK_MAX_COUNT
  /\ lExclusive \in BOOLEAN
  /\ at \in [Users -> Steps]

\* The writer that won lExclusive, from its claim to the end of its release.
Claimants == {t \in Users :
  at[t] \in {"reset", "drain", "probe", "exclusive", "unclaim"}}

\* The threads that have a permit out: readers, and a writer that probes.
PermitHolders == {t \in Users : at[t] \in {"shared", "probe"}}

Readers == {t \in Users : at[t] = "shared"}
Writers == {t \in Users : at[t] = "exclusive"}

\* The lock excludes: no reader and no second writer is inside while a thread
\* is between AcquireExclusiveLock and ReleaseExclusiveLock, although readers
\* may still slip in between the writer's claim and its ResetEvent.
MutualExclusion ==
  \A w \in Writers : Writers = {w} /\ Readers = {}

\* The strengthening under which MutualExclusion is inductive.
PermitsConserved == permits + Cardinality(PermitHolders) = LOCK_MAX_COUNT
OneClaimant ==
  /\ \A t, u \in Claimants : t = u
  /\ lExclusive <=> Claimants # {}
EventClosed ==
  event <=> \A t \in Claimants : at[t] \in {"reset", "unclaim"}
WriterAlone ==
  \A t \in Users : at[t] = "exclusive" => PermitHolders = {}

IInv == LockTypeOK /\ PermitsConserved /\ OneClaimant /\ EventClosed /\ WriterAlone

\* Locking.c implements the abstract lock: the exclusive lock is given back at
\* SetEvent, one step before lExclusive is cleared, and no earlier.
RWLock == INSTANCE AbstractRWLock WITH Threads <- Users, readers <- Readers, writers <- Writers
ImplementsRWLock == RWLock!Spec

\* A writer that wins lExclusive gets the lock: closing the event keeps new
\* readers out, so the drain loop ends once the readers inside have left.
ClaimantAcquires ==
  \A t \in Users : (at[t] = "reset") ~> (at[t] = "exclusive")
===============================================================================
