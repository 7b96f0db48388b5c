------------------------- MODULE LocksAndTimers_proofs -------------------------
(***************************************************************************)
(* The two primitives on which everything else is built.                   *)
(*                                                                         *)
(* LockObject for any finite set of threads and any number of permits: the *)
(* lock excludes, and every behaviour of Locking.c is one of the abstract  *)
(* lock.  The argument: the permits that are out are exactly those of the  *)
(* readers and of one probing writer, so a probe that finds the others in  *)
(* place has seen that no reader is left; and no reader can enter after it *)
(* because only the claimant, at its SetEvent, opens the event again.      *)
(*                                                                         *)
(* IoTimer for any timers, delays and clock: the status word, the list,    *)
(* the job queue and the owners agree, and a timer is freed by the last    *)
(* that knows it.  TimerInv does not say enough to be inductive: that who  *)
(* finds an old value in the status word may conclude where the timer is   *)
(* rests on what each of the others has done so far.  The invariant is     *)
(* the list of the lives a timer can have.                                 *)
(***************************************************************************)
EXTENDS LockObject, IoTimer, FiniteSetTheorems, WellFoundedInduction, TLAPS

-------------------------------------------------------------------------------
(* The lock.                                                               *)

\* The initial state satisfies the inductive invariant: all permits in place.
LEMMA InitIInv == LockInit => IInv
<1> SUFFICES ASSUME LockInit PROVE IInv
  OBVIOUS
<1> USE DEF LockInit
<1>1. LockTypeOK
  <2>1. event \in BOOLEAN /\ lExclusive \in BOOLEAN
    OBVIOUS
  <2>2. permits \in 0 .. LOCK_MAX_COUNT
    BY LockAssumption
  <2>3. at \in [Users -> Steps]
    BY DEF Steps
  <2> QED
    BY <2>1, <2>2, <2>3 DEF LockTypeOK
<1>2. PermitHolders = {} /\ Claimants = {}
  BY DEF PermitHolders, Claimants
<1>3. PermitsConserved
  BY <1>2, FS_EmptySet, LockAssumption DEF PermitsConserved
<1>4. OneClaimant /\ EventClosed /\ WriterAlone
  BY <1>2 DEF OneClaimant, EventClosed, WriterAlone
<1> QED
  BY <1>1, <1>3, <1>4 DEF IInv

\* The permit holders are finitely many, and those that hold one are counted.
LEMMA HoldersFinite ==
  /\ IsFiniteSet(PermitHolders)
  /\ Cardinality(PermitHolders) \in Nat
<1>1. PermitHolders \subseteq Users
  BY DEF PermitHolders
<1> QED
  BY <1>1, LockAssumption, FS_Subset, FS_CardinalityType

\* A step of t that takes a permit adds t to the holders and keeps the sum.
LEMMA TakePermit ==
  ASSUME LockTypeOK, PermitsConserved, NEW t \in Users,
         t \notin PermitHolders, PermitHolders' = PermitHolders \cup {t},
         permits > 0, permits' = permits - 1
  PROVE  PermitsConserved' /\ permits' \in 0 .. LOCK_MAX_COUNT
<1>1. Cardinality(PermitHolders') = Cardinality(PermitHolders) + 1
  BY HoldersFinite, FS_AddElement
<1>2. permits' \in 0 .. LOCK_MAX_COUNT
  BY LockAssumption DEF LockTypeOK
<1> QED
  BY <1>1, <1>2, HoldersFinite, LockAssumption DEF PermitsConserved, LockTypeOK

\* A step of t that gives its permit back keeps the sum, and the semaphore
\* never rises above LOCK_MAX_COUNT.
LEMMA GivePermit ==
  ASSUME LockTypeOK, PermitsConserved, NEW t \in Users,
         t \in PermitHolders, PermitHolders' = PermitHolders \ {t},
         permits' = permits + 1
  PROVE  PermitsConserved' /\ permits' \in 0 .. LOCK_MAX_COUNT
<1>1. Cardinality(PermitHolders') = Cardinality(PermitHolders) - 1
  BY HoldersFinite, FS_RemoveElement
<1>2. Cardinality(PermitHolders) > 0
  BY HoldersFinite, FS_EmptySet
<1> QED
  BY <1>1, <1>2, HoldersFinite, LockAssumption DEF PermitsConserved, LockTypeOK

\* What a probe's count means: all other permits in place, no other holder.
LEMMA LastProbe ==
  ASSUME LockTypeOK, PermitsConserved, NEW t \in PermitHolders,
         (LOCK_MAX_COUNT - 1) - permits = 0
  PROVE  PermitHolders = {t}
<1>1. Cardinality(PermitHolders) = 1
  BY LockAssumption, HoldersFinite DEF PermitsConserved, LockTypeOK
<1>2. Cardinality(PermitHolders \ {t}) = 0
  BY <1>1, HoldersFinite, FS_RemoveElement
<1>3. IsFiniteSet(PermitHolders \ {t})
  BY HoldersFinite, FS_RemoveElement
<1>4. PermitHolders \ {t} = {}
  BY <1>2, <1>3, FS_EmptySet
<1> QED
  BY <1>4

\* A step that moves no permit keeps the sum and the set of holders' size.
LEMMA SamePermits ==
  ASSUME LockTypeOK, PermitsConserved,
         PermitHolders' = PermitHolders, permits' = permits
  PROVE  PermitsConserved' /\ permits' \in 0 .. LOCK_MAX_COUNT
BY DEF PermitsConserved, LockTypeOK

-------------------------------------------------------------------------------
(* Every action preserves the inductive invariant.                         *)

\* A reader enters only while the event is set, hence beside no writer.
LEMMA AcquireSharedInv ==
  ASSUME IInv, NEW t \in Users, AcquireSharedLock(t)
  PROVE  IInv'
<1> USE DEF IInv
<1>1. at[t] = "waitBoth" /\ at' = [at EXCEPT ![t] = "shared"]
  BY DEF AcquireSharedLock, MoveTo
<1>2. t \notin PermitHolders /\ PermitHolders' = PermitHolders \cup {t}
  BY <1>1 DEF PermitHolders, LockTypeOK
<1>3. Claimants' = Claimants
  BY <1>1 DEF Claimants, LockTypeOK
<1>4. PermitsConserved' /\ permits' \in 0 .. LOCK_MAX_COUNT
  BY <1>2, TakePermit DEF AcquireSharedLock
<1>5. LockTypeOK'
  BY <1>1, <1>4 DEF LockTypeOK, Steps, AcquireSharedLock
<1>6. OneClaimant' /\ EventClosed'
  BY <1>1, <1>3 DEF OneClaimant, EventClosed, AcquireSharedLock, Claimants, LockTypeOK
<1>7. WriterAlone'
  BY <1>1 DEF WriterAlone, EventClosed, AcquireSharedLock, Claimants, LockTypeOK
<1> QED
  BY <1>4, <1>5, <1>6, <1>7

\* A reader that leaves gives back the permit it took.
LEMMA ReleaseSharedInv ==
  ASSUME IInv, NEW t \in Users, ReleaseSharedLock(t)
  PROVE  IInv'
<1> USE DEF IInv
<1>1. at[t] = "shared" /\ at' = [at EXCEPT ![t] = "idle"]
  BY DEF ReleaseSharedLock, MoveTo
<1>2. t \in PermitHolders /\ PermitHolders' = PermitHolders \ {t}
  BY <1>1 DEF PermitHolders, LockTypeOK
<1>3. Claimants' = Claimants
  BY <1>1 DEF Claimants, LockTypeOK
<1>4. PermitsConserved' /\ permits' \in 0 .. LOCK_MAX_COUNT
  BY <1>2, GivePermit DEF ReleaseSharedLock
<1>5. LockTypeOK'
  BY <1>1, <1>4 DEF LockTypeOK, Steps, ReleaseSharedLock
<1>6. OneClaimant' /\ EventClosed'
  BY <1>1, <1>3 DEF OneClaimant, EventClosed, ReleaseSharedLock, Claimants, LockTypeOK
<1>7. WriterAlone'
  BY <1>1, <1>2 DEF WriterAlone, LockTypeOK
<1> QED
  BY <1>4, <1>5, <1>6, <1>7

\* The claimant's probe is the only permit a writer ever holds.
LEMMA TakeProbeInv ==
  ASSUME IInv, NEW t \in Users, TakeProbe(t)
  PROVE  IInv'
<1> USE DEF IInv
<1>1. at[t] = "drain" /\ at' = [at EXCEPT ![t] = "probe"]
  BY DEF TakeProbe, MoveTo
<1>2. t \notin PermitHolders /\ PermitHolders' = PermitHolders \cup {t}
  BY <1>1 DEF PermitHolders, LockTypeOK
<1>3. t \in Claimants /\ Claimants' = Claimants
  BY <1>1 DEF Claimants, LockTypeOK
<1>4. PermitsConserved' /\ permits' \in 0 .. LOCK_MAX_COUNT
  BY <1>2, TakePermit DEF TakeProbe
<1>5. LockTypeOK'
  BY <1>1, <1>4 DEF LockTypeOK, Steps, TakeProbe
<1>6. OneClaimant' /\ EventClosed'
  BY <1>1, <1>3 DEF OneClaimant, EventClosed, TakeProbe, Claimants, LockTypeOK
<1>7. WriterAlone'
  BY <1>1, <1>3 DEF WriterAlone, OneClaimant, Claimants, LockTypeOK
<1> QED
  BY <1>4, <1>5, <1>6, <1>7

\* A probe that finds all other permits in place makes the claimant a writer.
LEMMA ReturnProbeInv ==
  ASSUME IInv, NEW t \in Users, ReturnProbe(t)
  PROVE  IInv'
<1> USE DEF IInv
<1> DEFINE last == (LOCK_MAX_COUNT - 1) - permits = 0
<1>1. /\ at[t] = "probe"
      /\ at' = [at EXCEPT ![t] = IF last THEN "exclusive" ELSE "drain"]
  BY DEF ReturnProbe, MoveTo
<1>2. t \in PermitHolders /\ PermitHolders' = PermitHolders \ {t}
  BY <1>1 DEF PermitHolders, LockTypeOK
<1>3. t \in Claimants /\ Claimants' = Claimants
  BY <1>1 DEF Claimants, LockTypeOK
<1>4. PermitsConserved' /\ permits' \in 0 .. LOCK_MAX_COUNT
  BY <1>2, GivePermit DEF ReturnProbe
<1>5. LockTypeOK'
  BY <1>1, <1>4 DEF LockTypeOK, Steps, ReturnProbe
<1>6. OneClaimant' /\ EventClosed'
  BY <1>1, <1>3 DEF OneClaimant, EventClosed, ReturnProbe, Claimants, LockTypeOK
<1>7. WriterAlone'
  <2>1. CASE last
    <3>1. PermitHolders = {t}
      BY <1>2, <2>1, LastProbe
    <3> QED
      BY <1>2, <3>1 DEF WriterAlone
  <2>2. CASE ~last
    BY <1>1, <1>3, <2>2 DEF WriterAlone, OneClaimant, Claimants, LockTypeOK
  <2> QED
    BY <2>1, <2>2
<1> QED
  BY <1>4, <1>5, <1>6, <1>7

\* The steps that move no permit: calls, the claim, and the event's two ends.
LEMMA QuietStepInv ==
  ASSUME IInv, NEW t \in Users,
         \/ CallShared(t) \/ CallExclusive(t) \/ Claim(t) \/ AwaitEvent(t)
         \/ CloseEvent(t) \/ OpenEvent(t) \/ Unclaim(t)
  PROVE  IInv'
<1> USE DEF IInv, MoveTo
<1>1. CASE CallShared(t)
  <2>1. PermitHolders' = PermitHolders /\ Claimants' = Claimants
    BY <1>1 DEF CallShared, PermitHolders, Claimants, LockTypeOK
  <2>2. PermitsConserved' /\ permits' \in 0 .. LOCK_MAX_COUNT
    BY <1>1, <2>1, SamePermits DEF CallShared
  <2>3. LockTypeOK'
    BY <1>1, <2>2 DEF CallShared, LockTypeOK, Steps
  <2>4. OneClaimant' /\ EventClosed' /\ WriterAlone'
    BY <1>1, <2>1 DEF CallShared, OneClaimant, EventClosed, WriterAlone, Claimants, LockTypeOK
  <2> QED
    BY <2>2, <2>3, <2>4
<1>2. CASE CallExclusive(t)
  <2>1. PermitHolders' = PermitHolders /\ Claimants' = Claimants
    BY <1>2 DEF CallExclusive, PermitHolders, Claimants, LockTypeOK
  <2>2. PermitsConserved' /\ permits' \in 0 .. LOCK_MAX_COUNT
    BY <1>2, <2>1, SamePermits DEF CallExclusive
  <2>3. LockTypeOK'
    BY <1>2, <2>2 DEF CallExclusive, LockTypeOK, Steps
  <2>4. OneClaimant' /\ EventClosed' /\ WriterAlone'
    BY <1>2, <2>1 DEF CallExclusive, OneClaimant, EventClosed, WriterAlone, Claimants, LockTypeOK
  <2> QED
    BY <2>2, <2>3, <2>4
<1>3. CASE Claim(t)
  <2>1. PermitHolders' = PermitHolders
    BY <1>3 DEF Claim, PermitHolders, LockTypeOK
  <2>2. PermitsConserved' /\ permits' \in 0 .. LOCK_MAX_COUNT
    BY <1>3, <2>1, SamePermits DEF Claim
  <2>3. LockTypeOK'
    BY <1>3, <2>2 DEF Claim, LockTypeOK, Steps
  <2>4. CASE lExclusive
    <3>1. Claimants' = Claimants
      BY <1>3, <2>4 DEF Claim, Claimants, LockTypeOK
    <3>2. OneClaimant' /\ EventClosed' /\ WriterAlone'
      BY <1>3, <2>1, <2>4, <3>1
      DEF Claim, OneClaimant, EventClosed, WriterAlone, Claimants, LockTypeOK
    <3> QED
      BY <2>2, <2>3, <3>2
  <2>5. CASE ~lExclusive
    <3>1. Claimants = {} /\ Claimants' = {t}
      BY <1>3, <2>5 DEF Claim, Claimants, OneClaimant, LockTypeOK
    <3>2. OneClaimant' /\ EventClosed' /\ WriterAlone'
      BY <1>3, <2>1, <2>5, <3>1
      DEF Claim, OneClaimant, EventClosed, WriterAlone, LockTypeOK
    <3> QED
      BY <2>2, <2>3, <3>2
  <2> QED
    BY <2>4, <2>5
<1>4. CASE AwaitEvent(t)
  <2>1. PermitHolders' = PermitHolders /\ Claimants' = Claimants
    BY <1>4 DEF AwaitEvent, PermitHolders, Claimants, LockTypeOK
  <2>2. PermitsConserved' /\ permits' \in 0 .. LOCK_MAX_COUNT
    BY <1>4, <2>1, SamePermits DEF AwaitEvent
  <2>3. LockTypeOK'
    BY <1>4, <2>2 DEF AwaitEvent, LockTypeOK, Steps
  <2>4. OneClaimant' /\ EventClosed' /\ WriterAlone'
    BY <1>4, <2>1 DEF AwaitEvent, OneClaimant, EventClosed, WriterAlone, Claimants, LockTypeOK
  <2> QED
    BY <2>2, <2>3, <2>4
<1>5. CASE CloseEvent(t)
  <2>1. PermitHolders' = PermitHolders /\ Claimants' = Claimants /\ t \in Claimants
    BY <1>5 DEF CloseEvent, PermitHolders, Claimants, LockTypeOK
  <2>2. PermitsConserved' /\ permits' \in 0 .. LOCK_MAX_COUNT
    BY <1>5, <2>1, SamePermits DEF CloseEvent
  <2>3. LockTypeOK'
    BY <1>5, <2>2 DEF CloseEvent, LockTypeOK, Steps
  <2>4. OneClaimant' /\ EventClosed' /\ WriterAlone'
    BY <1>5, <2>1 DEF CloseEvent, OneClaimant, EventClosed, WriterAlone, Claimants, LockTypeOK
  <2> QED
    BY <2>2, <2>3, <2>4
<1>6. CASE OpenEvent(t)
  <2>1. PermitHolders' = PermitHolders /\ Claimants' = Claimants /\ t \in Claimants
    BY <1>6 DEF OpenEvent, PermitHolders, Claimants, LockTypeOK
  <2>2. PermitsConserved' /\ permits' \in 0 .. LOCK_MAX_COUNT
    BY <1>6, <2>1, SamePermits DEF OpenEvent
  <2>3. LockTypeOK'
    BY <1>6, <2>2 DEF OpenEvent, LockTypeOK, Steps
  <2>4. OneClaimant' /\ EventClosed' /\ WriterAlone'
    BY <1>6, <2>1 DEF OpenEvent, OneClaimant, EventClosed, WriterAlone, Claimants, LockTypeOK
  <2> QED
    BY <2>2, <2>3, <2>4
<1>7. CASE Unclaim(t)
  <2>1. /\ PermitHolders' = PermitHolders
        /\ Claimants = {t} /\ Claimants' = {}
    BY <1>7 DEF Unclaim, PermitHolders, Claimants, OneClaimant, LockTypeOK
  <2>2. PermitsConserved' /\ permits' \in 0 .. LOCK_MAX_COUNT
    BY <1>7, <2>1, SamePermits DEF Unclaim
  <2>3. LockTypeOK'
    BY <1>7, <2>2 DEF Unclaim, LockTypeOK, Steps
  <2>4. OneClaimant' /\ EventClosed' /\ WriterAlone'
    BY <1>7, <2>1 DEF Unclaim, OneClaimant, EventClosed, WriterAlone, LockTypeOK
  <2> QED
    BY <2>2, <2>3, <2>4
<1> QED
  BY <1>1, <1>2, <1>3, <1>4, <1>5, <1>6, <1>7

\* The inductive step.
LEMMA NextIInv == IInv /\ [LockNext]_lockvars => IInv'
<1> SUFFICES ASSUME IInv, [LockNext]_lockvars PROVE IInv'
  OBVIOUS
<1>1. CASE UNCHANGED lockvars
  BY <1>1 DEF IInv, lockvars, LockTypeOK, PermitsConserved, OneClaimant, EventClosed,
              WriterAlone, PermitHolders, Claimants
<1>2. ASSUME NEW t \in Users, CallShared(t) \/ CallExclusive(t) \/ Progress(t)
      PROVE  IInv'
  BY <1>2, AcquireSharedInv, ReleaseSharedInv, TakeProbeInv, ReturnProbeInv,
     QuietStepInv DEF Progress
<1> QED
  BY <1>1, <1>2 DEF LockNext

\* IInv is an invariant of Locking.c: types, permits, one claimant, event, writer.
THEOREM InductiveInvariant == LockSpec => []IInv
<1> QED
  BY InitIInv, NextIInv, PTL DEF LockSpec

\* No reader and no second writer is inside beside a writer, for any number of
\* threads and permits: AcquireExclusiveLock and AcquireSharedLock exclude.
THEOREM LockExcludes == LockSpec => []MutualExclusion
<1>1. IInv => MutualExclusion
  BY DEF IInv, MutualExclusion, WriterAlone, OneClaimant, Writers, Readers,
         PermitHolders, Claimants
<1> QED
  BY <1>1, InductiveInvariant, PTL

-------------------------------------------------------------------------------
(* Locking.c implements the abstract lock.                                 *)

\* The steps that neither grant nor return the lock leave its holders alone.
LEMMA SilentStep ==
  ASSUME LockTypeOK, NEW t \in Users,
         \/ CallShared(t) \/ CallExclusive(t) \/ Claim(t) \/ AwaitEvent(t)
         \/ CloseEvent(t) \/ TakeProbe(t) \/ Unclaim(t)
  PROVE  Readers' = Readers /\ Writers' = Writers
<1>1. PICK from \in {"idle", "exchange", "waitEvent", "reset", "drain", "unclaim"},
           to \in {"idle", "waitBoth", "exchange", "waitEvent", "reset", "drain", "probe"} :
        at[t] = from /\ at' = [at EXCEPT ![t] = to]
  BY DEF CallShared, CallExclusive, Claim, AwaitEvent, CloseEvent, TakeProbe, Unclaim, MoveTo
<1> QED
  BY <1>1 DEF Readers, Writers, LockTypeOK

\* A reader enters while the event is set: no writer holds the lock then.
LEMMA SharedGranted ==
  ASSUME IInv, NEW t \in Users, AcquireSharedLock(t)
  PROVE  RWLock!GrantShared(t)
<1>1. at[t] = "waitBoth" /\ at' = [at EXCEPT ![t] = "shared"] /\ event
  BY DEF AcquireSharedLock, MoveTo
<1>2. Writers = {}
  BY <1>1 DEF IInv, EventClosed, Claimants, Writers
<1>3. t \notin Readers /\ Readers' = Readers \cup {t} /\ Writers' = Writers
  BY <1>1 DEF IInv, LockTypeOK, Readers, Writers
<1> QED
  BY <1>2, <1>3 DEF RWLock!GrantShared

\* A reader that releases its permit leaves the readers.
LEMMA SharedReturned ==
  ASSUME IInv, NEW t \in Users, ReleaseSharedLock(t)
  PROVE  RWLock!ReturnShared(t)
<1>1. at[t] = "shared" /\ at' = [at EXCEPT ![t] = "idle"]
  BY DEF ReleaseSharedLock, MoveTo
<1> QED
  BY <1>1 DEF IInv, LockTypeOK, Readers, Writers, RWLock!ReturnShared

\* The last probe grants the lock to a claimant that finds nobody inside; any
\* other probe grants nothing.
LEMMA ProbeGrants ==
  ASSUME IInv, NEW t \in Users, ReturnProbe(t)
  PROVE  RWLock!GrantExclusive(t) \/ (Readers' = Readers /\ Writers' = Writers)
<1> DEFINE last == (LOCK_MAX_COUNT - 1) - permits = 0
<1>1. /\ at[t] = "probe"
      /\ at' = [at EXCEPT ![t] = IF last THEN "exclusive" ELSE "drain"]
  BY DEF ReturnProbe, MoveTo
<1>2. CASE last
  <2>1. t \in PermitHolders
    BY <1>1 DEF PermitHolders
  <2>2. PermitHolders = {t}
    BY <1>2, <2>1, LastProbe DEF IInv
  <2>3. Readers = {} /\ Readers' = Readers
    BY <1>1, <1>2, <2>2 DEF IInv, LockTypeOK, PermitHolders, Readers
  <2>4. Writers = {} /\ Writers' = {t}
    BY <1>1, <1>2 DEF IInv, LockTypeOK, OneClaimant, Claimants, Writers
  <2> QED
    BY <2>3, <2>4 DEF RWLock!GrantExclusive
<1>3. CASE ~last
  BY <1>1, <1>3 DEF IInv, LockTypeOK, Readers, Writers
<1> QED
  BY <1>2, <1>3

\* SetEvent is where the writer gives the lock back, alone as it was.
LEMMA ExclusiveReturned ==
  ASSUME IInv, NEW t \in Users, OpenEvent(t)
  PROVE  RWLock!ReturnExclusive(t)
<1>1. at[t] = "exclusive" /\ at' = [at EXCEPT ![t] = "unclaim"]
  BY DEF OpenEvent, MoveTo
<1>2. Writers = {t} /\ Writers' = {} /\ Readers' = Readers
  BY <1>1 DEF IInv, LockTypeOK, OneClaimant, Claimants, Writers, Readers
<1> QED
  BY <1>2 DEF RWLock!ReturnExclusive

\* A step of the lock is a step of the abstract lock, or changes no holder.
LEMMA StepImplements ==
  IInv /\ [LockNext]_lockvars => [RWLock!Next]_<<Readers, Writers>>
<1> SUFFICES ASSUME IInv, [LockNext]_lockvars
             PROVE  RWLock!Next \/ (Readers' = Readers /\ Writers' = Writers)
  OBVIOUS
<1>1. CASE UNCHANGED lockvars
  BY <1>1 DEF lockvars, Readers, Writers
<1>2. ASSUME NEW t \in Users, CallShared(t) \/ CallExclusive(t) \/ Progress(t)
      PROVE  RWLock!Next \/ (Readers' = Readers /\ Writers' = Writers)
  BY <1>2, SilentStep, SharedGranted, SharedReturned, ProbeGrants,
     ExclusiveReturned DEF Progress, IInv, RWLock!Next
<1> QED
  BY <1>1, <1>2 DEF LockNext

\* Every behaviour of Locking.c is one of the lock its callers rely on: it is
\* granted and returned one thread at a time, and never beside a writer.
THEOREM LockImplementsRWLock == LockSpec => ImplementsRWLock
<1>1. LockInit => RWLock!Init
  BY DEF LockInit, RWLock!Init, Readers, Writers
<1> QED
  BY <1>1, StepImplements, InductiveInvariant, PTL
  DEF LockSpec, ImplementsRWLock, RWLock!Spec

-------------------------------------------------------------------------------
(* The lives of a timer.                                                   *)

Nowhere(t) == t \notin lpTimerList /\ t \notin execQueue /\ proc[t] = "idle" /\ t \notin freed

\* The owner may stop it, or is about to find out where it is.
Live(t) == \/ owner[t] = "started" /\ claim[t] = "none"
           \/ owner[t] = "stopping" /\ claim[t] = "owner"

Unused(t) ==
  owner[t] = "idle" /\ claim[t] = "none" /\ lStatus[t] = "WAIT" /\ Nowhere(t)

\* In the list, or cancelled there by an owner who will take it off.
Listed(t) ==
  /\ t \in lpTimerList /\ t \notin execQueue /\ proc[t] = "idle" /\ t \notin freed
  /\ \/ lStatus[t] = "WAIT" /\ Live(t)
     \/ lStatus[t] = "CANCEL" /\ owner[t] = "deleting" /\ claim[t] = "owner"

\* Cancelled in the list, and taken off by the timer thread before its owner came.
TakenOff(t) ==
  owner[t] = "deleting" /\ claim[t] = "owner" /\ lStatus[t] = "QUEUED" /\ Nowhere(t)

\* In the job queue, where ExecTimer runs it, or frees it if it was cancelled.
InQueue(t) ==
  /\ t \in execQueue /\ t \notin lpTimerList /\ proc[t] = "idle" /\ t \notin freed
  /\ \/ lStatus[t] = "QUEUED" /\ Live(t)
     \/ lStatus[t] = "CANCEL" /\ owner[t] = "stopped" /\ claim[t] = "owner"

\* The procedure runs, while the owner may be trying to stop it.
Running(t) ==
  /\ proc[t] \in {"running", "failed"}
  /\ t \notin lpTimerList /\ t \notin execQueue /\ t \notin freed
  /\ \/ lStatus[t] = "ACTIVE" /\ Live(t)
     \/ lStatus[t] = "CANCEL" /\ owner[t] = "stopping" /\ claim[t] = "owner"
  /\ proc[t] = "failed" => owner[t] = "stopping"

\* The procedure has claimed it: the owner stays away.
Finishing(t) ==
  /\ t \in Claimed /\ proc[t] = "finished" /\ lStatus[t] = "ACTIVE"
  /\ claim[t] = "proc" /\ owner[t] \in {"started", "stopped"}
  /\ t \notin lpTimerList /\ t \notin execQueue /\ t \notin freed

\* Its procedure has run, nothing refers to it but its owner.
Resting(t) == lStatus[t] = "INACTIVE" /\ Live(t) /\ Nowhere(t)

Freed(t) ==
  /\ t \in freed /\ t \notin lpTimerList /\ t \notin execQueue /\ proc[t] = "idle"
  /\ lStatus[t] \in {"ACTIVE", "CANCEL", "QUEUED"}
  /\ \/ owner[t] = "stopped" /\ claim[t] = "owner"
     \/ owner[t] \in {"started", "stopped"} /\ claim[t] = "proc" /\ t \in Claimed

Life(t) == \/ Unused(t) \/ Listed(t) \/ TakenOff(t) \/ InQueue(t) \/ Running(t)
           \/ Finishing(t) \/ Resting(t) \/ Freed(t)

Lives == TimerTypeOK /\ \A t \in Timers : Life(t)

-------------------------------------------------------------------------------
(* What TimerInv says follows from the lives.                              *)

\* The lives of the timers say what a caller of StartIoTimer and StopIoTimer
\* relies on.
LEMMA LivesImplyTimerInv == Lives => TimerInv
<1> SUFFICES ASSUME Lives PROVE TimerInv
  OBVIOUS
<1> USE DEF Lives, Life, Nowhere, Live, Unused, Listed, TakenOff, InQueue, Running,
            Finishing, Resting, Freed
<1>1. TimerTypeOK
  OBVIOUS
<1>2. ASSUME NEW t \in Timers
      PROVE  /\ lStatus[t] = "WAIT" => owner[t] = "idle" \/ t \in lpTimerList
             /\ lStatus[t] = "INACTIVE" => proc[t] = "idle" /\ t \notin lpTimerList \cup execQueue
             /\ lStatus[t] = "ACTIVE" => proc[t] # "idle" \/ t \in freed
             /\ t \in lpTimerList => t \notin execQueue /\ proc[t] = "idle"
             /\ t \in execQueue => proc[t] = "idle"
  OBVIOUS
<1>3. ASSUME NEW t \in Timers, owner[t] = "stopped", claim[t] = "owner"
      PROVE  /\ proc[t] = "idle" /\ t \notin lpTimerList
             /\ t \in execQueue => lStatus[t] = "CANCEL"
  BY <1>3
<1>4. ASSUME NEW t \in Timers, owner[t] # "idle"
      PROVE  t \in freed <=> ~ Refers(t)
  BY <1>4 DEF Refers
<1> QED
  BY <1>1, <1>2, <1>3, <1>4 DEF TimerInv, StatusInStep, StoppedIsQuiet, FreedOnce

-------------------------------------------------------------------------------
(* A step changes the life of one timer.                                   *)

\* What a life is made of.
SameLife(u) ==
  /\ lStatus'[u] = lStatus[u] /\ proc'[u] = proc[u]
  /\ owner'[u] = owner[u] /\ claim'[u] = claim[u]
  /\ u \in lpTimerList' <=> u \in lpTimerList
  /\ u \in execQueue' <=> u \in execQueue
  /\ u \in freed' <=> u \in freed

\* A step that touches nothing of a timer leaves its life as it was.
LEMMA LifeGoesOn == ASSUME NEW u \in Timers, Life(u), SameLife(u) PROVE Life(u)'
BY DEF SameLife, Life, Nowhere, Live, Unused, Listed, TakenOff, InQueue, Running,
       Finishing, Resting, Freed

\* A set of listed timers that is not empty has an earliest one.
LEMMA SomeEarliest == ASSUME TimerTypeOK, lpTimerList # {} PROVE Earliest # {}
<1> DEFINE D == {ui64DueTime[t] : t \in lpTimerList}
<1>1. D \subseteq Nat /\ D # {}
  BY TimerAssumption DEF TimerTypeOK
<1>2. \E d \in D : \A e \in D : ~ (e < d)
  <2> HIDE DEF D
  <2>1. PICK d \in D : \A e \in D : ~ (<<e, d>> \in OpToRel(<, Nat))
    BY <1>1, NatLessThanWellFounded, WFMin
  <2>2. ASSUME NEW e \in D, e < d PROVE FALSE
    <3>1. <<e, d>> \in Nat \X Nat /\ <<e, d>>[1] = e /\ <<e, d>>[2] = d
      BY <1>1
    <3>2. <<e, d>> \in OpToRel(<, Nat)
      BY <2>2, <3>1, Zenon DEF OpToRel
    <3> QED
      BY <2>1, <3>2
  <2> QED
    BY <2>1, <2>2
<1>3. PICK d \in D : \A e \in D : d <= e
  <2> HIDE DEF D
  <2> QED
    BY <1>1, <1>2
<1>4. PICK t \in lpTimerList : ui64DueTime[t] = d
  BY <1>3
<1> QED
  BY <1>3, <1>4 DEF Earliest

\* A due time the clock reaches is one.
LEMMA DueIsTime ==
  ASSUME TimerTypeOK, NEW d \in Delays PROVE RoundUp(now + d) \in Nat
BY TimerAssumption DEF TimerTypeOK, RoundUp

\* Inserting keeps the types of the list, of its due times and of the event.
LEMMA InsertType ==
  ASSUME TimerTypeOK, NEW t \in Timers, NEW d \in Delays, Insert(t, d)
  PROVE  /\ ui64DueTime' \in [Timers -> 0 .. MAX_TIME]
         /\ lpTimerList' = lpTimerList \cup {t}
         /\ hTimerUpdate' \in BOOLEAN
<1>1. RoundUp(now + d) \in 0 .. MAX_TIME
  BY DueIsTime, TimerAssumption DEF Insert
<1> QED
  BY <1>1 DEF Insert, TimerTypeOK

\* A step that touches one timer need only look after that timer's life.
LEMMA OneLife ==
  ASSUME Lives, NEW t \in Timers, TimerTypeOK', Life(t)',
         \A u \in Timers \ {t} : SameLife(u)
  PROVE  Lives'
BY LifeGoesOn DEF Lives

\* A step that touches no timer need not look after any.
LEMMA NoLife ==
  ASSUME Lives, TimerTypeOK', \A u \in Timers : SameLife(u)
  PROVE  Lives'
BY LifeGoesOn DEF Lives

-------------------------------------------------------------------------------
(* One lemma for each part of the code.                                    *)

(* StartIoTimer: a timer that is unused becomes listed. *)
LEMMA StartKeeps ==
  ASSUME Lives, NEW t \in Timers, NEW d \in Delays, Start(t, d)
  PROVE  Lives'
<1> USE DEF Start
<1>1. /\ ui64DueTime' \in [Timers -> 0 .. MAX_TIME]
      /\ lpTimerList' = lpTimerList \cup {t} /\ hTimerUpdate' \in BOOLEAN
  BY InsertType DEF Lives
<1>2. TimerTypeOK'
  BY <1>1 DEF Lives, TimerTypeOK, timerThread, Statuses
<1>3. Unused(t)
  BY DEF Lives, Life, Listed, TakenOff, InQueue, Running, Finishing, Resting, Freed, Live
<1>4. Listed(t)'
  BY <1>1, <1>3 DEF Lives, TimerTypeOK, Unused, Listed, Live, Nowhere
<1>5. \A u \in Timers \ {t} : SameLife(u)
  BY <1>1 DEF Lives, TimerTypeOK, SameLife
<1> QED
  BY <1>2, <1>4, <1>5, OneLife DEF Life

(* TimerThread. *)
LEMMA ThreadKeeps == ASSUME Lives, TimerThread PROVE Lives'
<1>1. CASE Wake
  <2>1. TimerTypeOK'
    BY <1>1 DEF Wake, Lives, TimerTypeOK, status, list
  <2>2. \A u \in Timers : SameLife(u)
    BY <1>1 DEF Wake, SameLife, status, list
  <2> QED
    BY <2>1, <2>2, NoLife
<1>2. CASE Sleep
  <2>1. dwSleep' \in 0 .. INFINITE
    <3>1. CASE lpTimerList = {}
      BY <1>2, <3>1, TimerAssumption DEF Sleep, INFINITE
    <3>2. CASE lpTimerList # {}
      <4>1. (CHOOSE t \in Earliest : TRUE) \in Timers
        BY <3>2, SomeEarliest DEF Lives, Earliest, TimerTypeOK
      <4> QED
        BY <1>2, <3>2, <4>1, TimerAssumption DEF Sleep, INFINITE, Lives, TimerTypeOK
    <3> QED
      BY <3>1, <3>2
  <2>2. TimerTypeOK'
    BY <1>2, <2>1 DEF Sleep, Lives, TimerTypeOK, status, list, INFINITE
  <2>3. \A u \in Timers : SameLife(u)
    BY <1>2 DEF Sleep, SameLife, status, list
  <2> QED
    BY <2>2, <2>3, NoLife
<1>3. ASSUME NEW t \in Timers, QueueTimer(t) PROVE Lives'
  <2> USE <1>3 DEF QueueTimer
  <2>1. TimerTypeOK'
    BY DEF Lives, TimerTypeOK, timerThread, Statuses
  <2>2. Listed(t)
    BY DEF Due, Lives, Life, Unused, Nowhere, TakenOff, InQueue, Running, Finishing, Resting, Freed
  <2>3. CASE lStatus[t] = "WAIT"
    <3>1. InQueue(t)'
      BY <2>2, <2>3 DEF Lives, TimerTypeOK, Listed, InQueue, Live
    <3>2. \A u \in Timers \ {t} : SameLife(u)
      BY <2>3 DEF Lives, TimerTypeOK, SameLife
    <3> QED
      BY <2>1, <3>1, <3>2, OneLife DEF Life
  <2>4. CASE lStatus[t] = "CANCEL"
    <3>1. TakenOff(t)'
      BY <2>2, <2>4 DEF Lives, TimerTypeOK, Listed, TakenOff, Nowhere
    <3>2. \A u \in Timers \ {t} : SameLife(u)
      BY <2>4 DEF Lives, TimerTypeOK, SameLife
    <3> QED
      BY <2>1, <3>1, <3>2, OneLife DEF Life
  <2> QED
    BY <2>2, <2>3, <2>4 DEF Listed
<1> QED
  BY <1>1, <1>2, <1>3 DEF TimerThread

(* ExecTimer: the procedure is run or the timer freed, as its status says. *)
LEMMA BeginKeeps == ASSUME Lives, NEW t \in Timers, BeginExec(t) PROVE Lives'
<1> USE DEF BeginExec
<1>1. TimerTypeOK'
  BY DEF Lives, TimerTypeOK, timerThread, list, Statuses
<1>2. InQueue(t)
  BY DEF Lives, Life, Unused, Listed, Nowhere, TakenOff, Running, Finishing, Resting, Freed
<1>3. \A u \in Timers \ {t} : SameLife(u)
  BY DEF Lives, TimerTypeOK, SameLife, list
<1>4. lStatus[t] = "QUEUED" => Running(t)'
  BY <1>2 DEF Lives, TimerTypeOK, InQueue, Running, Live, list
<1>5. lStatus[t] # "QUEUED" => Freed(t)'
  BY <1>2 DEF Lives, TimerTypeOK, InQueue, Freed, Live, list
<1> QED
  BY <1>1, <1>3, <1>4, <1>5, OneLife DEF Life

\* While the procedure runs the timer is in nobody's hands but its owner's.
LEMMA IsRunning ==
  ASSUME Lives, NEW t \in Timers, proc[t] \in {"running", "failed"} PROVE Running(t)
BY DEF Lives, Life, Unused, Listed, Nowhere, TakenOff, InQueue, Finishing, Resting, Freed

(* The timer's procedure ends: it is restarted, freed, or its stop answered. *)
LEMMA ProcKeeps ==
  ASSUME Lives, NEW t \in Timers,
         ProcClaims(t) \/ ProcFinishes(t) \/ ProcDeactivates(t) \/ \E d \in Delays : ProcRestarts(t, d)
  PROVE  Lives'
<1>1. CASE ProcClaims(t)
  <2> USE <1>1 DEF ProcClaims
  <2>1. TimerTypeOK'
    BY DEF Lives, TimerTypeOK, status, list, timerThread
  <2>2. Running(t)
    BY IsRunning
  <2>3. claim[t] = "none" => Finishing(t)'
    BY <2>2 DEF Lives, TimerTypeOK, Running, Finishing, Live, status, list
  <2>4. claim[t] # "none" => Running(t)'
    BY <2>2 DEF Lives, TimerTypeOK, Running, Live, status, list
  <2>5. \A u \in Timers \ {t} : SameLife(u)
    BY DEF Lives, TimerTypeOK, SameLife, status, list
  <2> QED
    BY <2>1, <2>3, <2>4, <2>5, OneLife DEF Life
<1>2. CASE ProcFinishes(t)
  <2> USE <1>2 DEF ProcFinishes
  <2>1. TimerTypeOK'
    BY DEF Lives, TimerTypeOK, list, timerThread
  <2>2. Finishing(t)
    BY DEF Lives, Life, Unused, Listed, Nowhere, TakenOff, InQueue, Running, Resting, Freed
  <2>3. Freed(t)'
    BY <2>2 DEF Lives, TimerTypeOK, Finishing, Freed, list
  <2>4. \A u \in Timers \ {t} : SameLife(u)
    BY DEF Lives, TimerTypeOK, SameLife, list
  <2> QED
    BY <2>1, <2>3, <2>4, OneLife DEF Life
<1>3. CASE ProcDeactivates(t)
  <2> USE <1>3 DEF ProcDeactivates
  <2>1. TimerTypeOK'
    BY DEF Lives, TimerTypeOK, list, timerThread, Statuses
  <2>2. Running(t)
    BY IsRunning
  <2>3. Resting(t)'
    BY <2>2 DEF Lives, TimerTypeOK, Running, Resting, Live, Nowhere, list
  <2>4. \A u \in Timers \ {t} : SameLife(u)
    BY DEF Lives, TimerTypeOK, SameLife, list
  <2> QED
    BY <2>1, <2>3, <2>4, OneLife DEF Life
<1>4. ASSUME NEW d \in Delays, ProcRestarts(t, d) PROVE Lives'
  <2> USE <1>4 DEF ProcRestarts
  <2>1. /\ ui64DueTime' \in [Timers -> 0 .. MAX_TIME]
        /\ lpTimerList' = lpTimerList \cup {t} /\ hTimerUpdate' \in BOOLEAN
    BY InsertType DEF Lives
  <2>2. TimerTypeOK'
    BY <2>1 DEF Lives, TimerTypeOK, timerThread, Statuses
  <2>3. Running(t)
    BY IsRunning
  <2>4. Listed(t)'
    BY <2>1, <2>3 DEF Lives, TimerTypeOK, Running, Listed, Live
  <2>5. \A u \in Timers \ {t} : SameLife(u)
    BY <2>1 DEF Lives, TimerTypeOK, SameLife
  <2> QED
    BY <2>2, <2>4, <2>5, OneLife DEF Life
<1> QED
  BY <1>1, <1>2, <1>3, <1>4

(* StopIoTimer. *)
LEMMA CallStopKeeps == ASSUME Lives, NEW t \in Timers, CallStop(t) PROVE Lives'
<1> USE DEF CallStop
<1>1. TimerTypeOK'
  BY DEF Lives, TimerTypeOK, status, list, timerThread
<1>2. Life(t)
  BY DEF Lives
<1>3. \A u \in Timers \ {t} : SameLife(u)
  BY DEF Lives, TimerTypeOK, SameLife, status, list
<1>4. CASE t \in Claimed /\ claim[t] = "proc"
  BY <1>1, <1>2, <1>3, <1>4, OneLife
  DEF Lives, TimerTypeOK, Life, Unused, Listed, Nowhere, TakenOff, InQueue, Running, Finishing,
      Resting, Freed, Live, status, list
<1>5. CASE ~ (t \in Claimed /\ claim[t] = "proc")
  BY <1>1, <1>2, <1>3, <1>5, OneLife
  DEF Lives, TimerTypeOK, Life, Unused, Listed, Nowhere, TakenOff, InQueue, Running, Finishing,
      Resting, Freed, Live, status, list
<1> QED
  BY <1>4, <1>5

(* StopIoTimer under the lock, in each of the states it can find. *)
LEMMA StopKeeps == ASSUME Lives, NEW t \in Timers, Stop(t) PROVE Lives'
<1>1. CASE Cancel(t)
  <2> USE <1>1 DEF Cancel
  <2>1. TimerTypeOK'
    BY DEF Lives, TimerTypeOK, list, timerThread, Statuses
  <2>2. Life(t)
    BY DEF Lives
  <2>3. Life(t)'
    <3>1. CASE lStatus[t] \in {"CANCEL", "ACTIVE"}
      BY <2>2, <3>1 DEF Lives, TimerTypeOK, Life, Unused, Listed, TakenOff, InQueue, Running,
                        Finishing, Resting, Freed, Live, list
    <3>2. CASE lStatus[t] = "WAIT"
      BY <2>2, <3>2 DEF Lives, TimerTypeOK, Life, Unused, Listed, TakenOff, InQueue, Running,
                        Finishing, Resting, Freed, Live, list
    <3>3. CASE lStatus[t] = "INACTIVE"
      BY <2>2, <3>3 DEF Lives, TimerTypeOK, Life, Unused, Listed, TakenOff, InQueue, Running,
                        Finishing, Resting, Freed, Live, Nowhere, list
    <3>4. CASE lStatus[t] = "QUEUED"
      BY <2>2, <3>4 DEF Lives, TimerTypeOK, Life, Unused, Listed, TakenOff, InQueue, Running,
                        Finishing, Resting, Freed, Live, list
    <3> QED
      BY <3>1, <3>2, <3>3, <3>4 DEF Lives, TimerTypeOK, Statuses
  <2>4. \A u \in Timers \ {t} : SameLife(u)
    BY DEF Lives, TimerTypeOK, SameLife, list
  <2> QED
    BY <2>1, <2>3, <2>4, OneLife
<1>2. CASE Delete(t)
  <2> USE <1>2 DEF Delete
  <2>1. TimerTypeOK'
    BY DEF Lives, TimerTypeOK, timerThread
  <2>2. Listed(t) \/ TakenOff(t)
    BY DEF Lives, Life, Unused, InQueue, Running, Finishing, Resting, Freed, Live
  <2>3. Freed(t)'
    BY <2>2 DEF Lives, TimerTypeOK, Listed, TakenOff, Nowhere, Freed, Live
  <2>4. \A u \in Timers \ {t} : SameLife(u)
    BY DEF Lives, TimerTypeOK, SameLife
  <2> QED
    BY <2>1, <2>3, <2>4, OneLife DEF Life
<1> QED
  BY <1>1, <1>2 DEF Stop

\* Time passes.
LEMMA TickKeeps == ASSUME Lives, Tick PROVE Lives'
<1>1. TimerTypeOK'
  BY TimerAssumption DEF Tick, Lives, TimerTypeOK, status, list, timerThread
<1>2. \A u \in Timers : SameLife(u)
  BY DEF Tick, SameLife, status, list
<1> QED
  BY <1>1, <1>2, NoLife

-------------------------------------------------------------------------------
(* The invariant.                                                          *)

\* Initially every timer is unused.
LEMMA InitLives == TimerInit => Lives
<1> SUFFICES ASSUME TimerInit PROVE Lives
  OBVIOUS
<1>1. TimerTypeOK
  <2>1. 0 \in 0 .. MAX_TIME /\ INFINITE \in 0 .. INFINITE
    BY TimerAssumption DEF INFINITE
  <2>2. "WAIT" \in Statuses
    BY DEF Statuses
  <2> QED
    BY <2>1, <2>2 DEF TimerInit, TimerTypeOK
<1>2. \A t \in Timers : Unused(t)
  BY DEF TimerInit, Unused, Nowhere
<1> QED
  BY <1>1, <1>2 DEF Lives, Life

\* Every step of the timers, of their threads and of their owners.
LEMMA NextLives == Lives /\ [TimerNext]_timervars => Lives'
<1> SUFFICES ASSUME Lives, [TimerNext]_timervars PROVE Lives'
  OBVIOUS
<1>1. CASE UNCHANGED timervars
  <2>1. TimerTypeOK'
    BY <1>1 DEF timervars, status, list, timerThread, Lives, TimerTypeOK
  <2>2. \A u \in Timers : SameLife(u)
    BY <1>1 DEF timervars, status, list, timerThread, SameLife
  <2> QED
    BY <2>1, <2>2, NoLife
<1>2. CASE Tick
  BY <1>2, TickKeeps
<1>3. CASE TimerThread
  BY <1>3, ThreadKeeps
<1>4. ASSUME NEW t \in Timers, Exec(t) PROVE Lives'
  BY <1>4, BeginKeeps, ProcKeeps DEF Exec
<1>5. ASSUME NEW t \in Timers, Stop(t) \/ CallStop(t) \/ \E d \in Delays : Start(t, d)
      PROVE  Lives'
  BY <1>5, StopKeeps, CallStopKeeps, StartKeeps
<1> QED
  BY <1>1, <1>2, <1>3, <1>4, <1>5 DEF TimerNext

\* At every step of Timer.c each timer leads one of the lives above, for any
\* timers, however they are started, run, restarted and stopped.
THEOREM TimersLive == TimerSpec => []Lives
<1> QED
  BY InitLives, NextLives, PTL DEF TimerSpec

\* Timer.c frees every timer once, when nobody refers to it any more, and a timer
\* that StopIoTimer has stopped neither runs nor will.
THEOREM TimersAgree == TimerSpec => []TimerInv
<1> QED
  BY TimersLive, LivesImplyTimerInv, PTL

===============================================================================
