--------------------------- MODULE WorkerPool_proofs ---------------------------
(***************************************************************************)
(* WorkerPool for any jobs, threads, sizes and failures of CreateThread:   *)
(* the bookkeeping of the pool agrees with what its threads do.  PoolInv   *)
(* is strengthened in three places.  After the exit flag has been set the  *)
(* counters may only be too large; whether a thread is counted as blocking *)
(* follows from its own lBlockingCount; and the links of the obsolete list *)
(* ascend, so that the list ends: without that a ring of parked threads    *)
(* nobody can reach would satisfy every condition on neighbours.           *)
(***************************************************************************)
EXTENDS WorkerPool, FiniteSetTheorems, WellFoundedInduction, TLAPS

-------------------------------------------------------------------------------
(* The inductive invariant.                                                *)

Alive   == Threads \ At({"none"})
Blocked == At({"createBlocked", "blocked", "unblocking"})
Working == Threads \ (At({"none", "end"}) \cup Obsolete)

Types == PoolTypeOK /\ lpJobQueue \in [Priorities -> Seq(Jobs)]

Counters ==
  /\ lWorkerThreadCount = Cardinality(Alive) + phantoms
  /\ lBlockingWorkerThreads = Cardinality(Blocked)
  /\ lFreeWorkerThreads >= Cardinality(Free) + Cardinality(Creating) + phantoms
  /\ lWorkerThreads >= Cardinality(Working) + Cardinality(Creating) + phantoms
  /\ ~ bThreadExitFlag =>
       /\ lFreeWorkerThreads = Cardinality(Free) + Cardinality(Creating) + phantoms
       /\ lWorkerThreads = Cardinality(Working) + Cardinality(Creating) + phantoms

\* What a thread's own data say of where it is.
ThreadOK(t) ==
  /\ lBlockingCount[t] > 0 <=> t \in Blocked
  /\ bReuse[t] => pc[t] \in {"parked", "unpark"}
  /\ pc[t] = "parked" /\ hEvent[t] => bReuse[t]

\* Neighbours on the list point to each other, the head has nobody before it,
\* and who is not on the list has no predecessor left over.
Links ==
  /\ lpObsoleteThreadPool \in Obsolete \cup {NoThread}
  /\ \A t \in Obsolete :
       /\ lpNext[t] \in Obsolete \cup {NoThread}
       /\ lpNext[t] # NoThread => lpPrev[lpNext[t]] = t
       /\ lpPrev[t] \in Obsolete \cup {NoThread}
       /\ lpPrev[t] = NoThread <=> lpObsoleteThreadPool = t
       /\ lpPrev[t] # NoThread => lpNext[lpPrev[t]] = t
  /\ \A t \in Threads \ Obsolete : pc[t] # "end" => lpPrev[t] = NoThread

Ascends(rank) == \A t \in Obsolete : lpNext[t] # NoThread => rank[t] < rank[lpNext[t]]
Ranked == \E rank \in [Threads -> Nat] : Ascends(rank)

PoolBooks ==
  /\ Types
  /\ Counters
  /\ \A t \in Threads : ThreadOK(t)
  /\ Links /\ Ranked
  /\ SpareWorker
-------------------------------------------------------------------------------
(* Counting: a step moves one thread, or two.                              *)

One(b) == IF b THEN 1 ELSE 0

\* A set of threads that differs in one member differs by one, if at all.
LEMMA OneMember ==
  ASSUME NEW S, NEW T, S \subseteq Threads, T \subseteq Threads,
         NEW t \in Threads, S \ {t} = T \ {t}
  PROVE  /\ Cardinality(S) \in Nat /\ Cardinality(T) \in Nat
         /\ Cardinality(T) = Cardinality(S) + One(t \in T) - One(t \in S)
<1>1. IsFiniteSet(S) /\ IsFiniteSet(T) /\ IsFiniteSet(S \ {t})
  BY QueueAssumption, FS_Subset
<1>2. /\ Cardinality(S) \in Nat /\ Cardinality(T) \in Nat /\ Cardinality(S \ {t}) \in Nat
  BY <1>1, FS_CardinalityType
<1>3. Cardinality(S) = Cardinality(S \ {t}) + One(t \in S)
  <2>1. CASE t \in S
    <3>1. S = (S \ {t}) \cup {t}
      BY <2>1
    <3> QED
      BY <1>1, <2>1, <3>1, FS_AddElement DEF One
  <2>2. CASE t \notin S
    <3>1. Cardinality(S) = Cardinality(S \ {t})
      <4>1. S = S \ {t}
        BY <2>2
      <4> QED
        BY <4>1, Zenon
    <3> QED
      BY <1>2, <2>2, <3>1 DEF One
  <2> QED
    BY <2>1, <2>2
<1>4. Cardinality(T) = Cardinality(S \ {t}) + One(t \in T)
  <2>1. CASE t \in T
    <3>1. T = (S \ {t}) \cup {t}
      BY <2>1
    <3> QED
      BY <1>1, <2>1, <3>1, FS_AddElement DEF One
  <2>2. CASE t \notin T
    <3>1. Cardinality(T) = Cardinality(S \ {t})
      <4>1. T = S \ {t}
        BY <2>2
      <4> QED
        BY <4>1, Zenon
    <3> QED
      BY <1>2, <2>2, <3>1 DEF One
  <2> QED
    BY <2>1, <2>2
<1> QED
  BY <1>2, <1>3, <1>4 DEF One

\* The same for two members, one after the other.
LEMMA TwoMembers ==
  ASSUME NEW S, NEW T, S \subseteq Threads, T \subseteq Threads,
         NEW t \in Threads, NEW u \in Threads, t # u, S \ {t, u} = T \ {t, u}
  PROVE  /\ Cardinality(S) \in Nat /\ Cardinality(T) \in Nat
         /\ Cardinality(T) = Cardinality(S) + One(t \in T) - One(t \in S)
                               + One(u \in T) - One(u \in S)
<1> DEFINE M == (S \ {u}) \cup (T \cap {u})
<1>1. /\ M \subseteq Threads /\ S \ {u} = M \ {u} /\ M \ {t} = T \ {t}
      /\ t \in M <=> t \in S
      /\ u \in M <=> u \in T
  OBVIOUS
<1> HIDE DEF M
<1>2. /\ Cardinality(S) \in Nat /\ Cardinality(M) \in Nat
      /\ Cardinality(M) = Cardinality(S) + One(u \in T) - One(u \in S)
  BY <1>1, OneMember
<1>3. /\ Cardinality(T) \in Nat
      /\ Cardinality(T) = Cardinality(M) + One(t \in T) - One(t \in S)
  BY <1>1, OneMember
<1> QED
  BY <1>2, <1>3 DEF One

\* Whether a thread is in one of the sets that are counted.
SameThread(u) == pc'[u] = pc[u] /\ bReuse'[u] = bReuse[u]

\* A thread that keeps its step and its grant stays in the sets it is in.
LEMMA StaysCounted ==
  ASSUME NEW u \in Threads, SameThread(u)
  PROVE  /\ u \in Alive' <=> u \in Alive
         /\ u \in Blocked' <=> u \in Blocked
         /\ u \in Free' <=> u \in Free
         /\ u \in Creating' <=> u \in Creating
         /\ u \in Working' <=> u \in Working
         /\ u \in Obsolete' <=> u \in Obsolete
BY DEF SameThread, Alive, Blocked, Free, Creating, Working, Obsolete, At

\* The sets are sets of threads.
LEMMA SetsOfThreads ==
  /\ Alive \subseteq Threads /\ Blocked \subseteq Threads /\ Free \subseteq Threads
  /\ Creating \subseteq Threads /\ Working \subseteq Threads
  /\ Alive' \subseteq Threads /\ Blocked' \subseteq Threads /\ Free' \subseteq Threads
  /\ Creating' \subseteq Threads /\ Working' \subseteq Threads
BY DEF Alive, Blocked, Free, Creating, Working, At

\* The sizes of the sets are numbers.
LEMMA SizesAreNat ==
  /\ Cardinality(Alive) \in Nat /\ Cardinality(Blocked) \in Nat /\ Cardinality(Free) \in Nat
  /\ Cardinality(Creating) \in Nat /\ Cardinality(Working) \in Nat
BY SetsOfThreads, QueueAssumption, FS_Subset, FS_CardinalityType

\* How the sizes of the five sets change.
Grow(a, b, f, c, w) ==
  /\ Cardinality(Alive)' = Cardinality(Alive) + a
  /\ Cardinality(Blocked)' = Cardinality(Blocked) + b
  /\ Cardinality(Free)' = Cardinality(Free) + f
  /\ Cardinality(Creating)' = Cardinality(Creating) + c
  /\ Cardinality(Working)' = Cardinality(Working) + w

\* When one thread moves, it alone decides how the sizes change.
LEMMA OneThreadMoves ==
  ASSUME NEW t \in Threads, \A u \in Threads \ {t} : SameThread(u)
  PROVE  Grow(One(t \in Alive') - One(t \in Alive),
              One(t \in Blocked') - One(t \in Blocked),
              One(t \in Free') - One(t \in Free),
              One(t \in Creating') - One(t \in Creating),
              One(t \in Working') - One(t \in Working))
<1>1. /\ Alive \ {t} = Alive' \ {t} /\ Blocked \ {t} = Blocked' \ {t}
      /\ Free \ {t} = Free' \ {t} /\ Creating \ {t} = Creating' \ {t}
      /\ Working \ {t} = Working' \ {t}
  BY StaysCounted, SetsOfThreads
<1>2. /\ Cardinality(Alive)' = Cardinality(Alive) + One(t \in Alive') - One(t \in Alive)
      /\ Cardinality(Blocked)' = Cardinality(Blocked) + One(t \in Blocked') - One(t \in Blocked)
      /\ Cardinality(Free)' = Cardinality(Free) + One(t \in Free') - One(t \in Free)
      /\ Cardinality(Creating)' = Cardinality(Creating) + One(t \in Creating') - One(t \in Creating)
      /\ Cardinality(Working)' = Cardinality(Working) + One(t \in Working') - One(t \in Working)
  BY <1>1, SetsOfThreads, OneMember
<1> QED
  BY <1>2, SizesAreNat DEF Grow, One

\* When two threads move, the two decide.
LEMMA TwoThreadsMove ==
  ASSUME NEW t \in Threads, NEW h \in Threads, t # h,
         \A u \in Threads \ {t, h} : SameThread(u)
  PROVE  Grow((One(t \in Alive') - One(t \in Alive)) + (One(h \in Alive') - One(h \in Alive)),
              (One(t \in Blocked') - One(t \in Blocked)) + (One(h \in Blocked') - One(h \in Blocked)),
              (One(t \in Free') - One(t \in Free)) + (One(h \in Free') - One(h \in Free)),
              (One(t \in Creating') - One(t \in Creating)) + (One(h \in Creating') - One(h \in Creating)),
              (One(t \in Working') - One(t \in Working)) + (One(h \in Working') - One(h \in Working)))
<1>1. /\ Alive \ {t, h} = Alive' \ {t, h} /\ Blocked \ {t, h} = Blocked' \ {t, h}
      /\ Free \ {t, h} = Free' \ {t, h} /\ Creating \ {t, h} = Creating' \ {t, h}
      /\ Working \ {t, h} = Working' \ {t, h}
  BY StaysCounted, SetsOfThreads
<1>2. /\ Cardinality(Alive)' = Cardinality(Alive) + One(t \in Alive') - One(t \in Alive)
                                 + One(h \in Alive') - One(h \in Alive)
      /\ Cardinality(Blocked)' = Cardinality(Blocked) + One(t \in Blocked') - One(t \in Blocked)
                                   + One(h \in Blocked') - One(h \in Blocked)
      /\ Cardinality(Free)' = Cardinality(Free) + One(t \in Free') - One(t \in Free)
                                + One(h \in Free') - One(h \in Free)
      /\ Cardinality(Creating)' = Cardinality(Creating) + One(t \in Creating') - One(t \in Creating)
                                    + One(h \in Creating') - One(h \in Creating)
      /\ Cardinality(Working)' = Cardinality(Working) + One(t \in Working') - One(t \in Working)
                                   + One(h \in Working') - One(h \in Working)
  BY <1>1, SetsOfThreads, TwoMembers
<1> QED
  BY <1>2, SizesAreNat DEF Grow, One

-------------------------------------------------------------------------------
(* The list of obsolete threads.                                           *)

\* The list has a head unless nobody is on it: its links ascend, so a first
\* thread on it has no predecessor, and that makes it the head.
LEMMA HeadOfList ==
  ASSUME Types, Links, Ranked, Obsolete # {}
  PROVE  lpObsoleteThreadPool # NoThread
<1>1. PICK rank \in [Threads -> Nat] : Ascends(rank)
  BY DEF Ranked
<1> DEFINE R == {rank[t] : t \in Obsolete}
<1>2. R \subseteq Nat /\ R # {}
  BY DEF Obsolete, At
<1>3. \E r \in R : \A q \in R : ~ (q < r)
  <2> HIDE DEF R
  <2>1. PICK r \in R : \A q \in R : ~ (<<q, r>> \in OpToRel(<, Nat))
    BY <1>2, NatLessThanWellFounded, WFMin
  <2>2. ASSUME NEW q \in R, q < r PROVE FALSE
    <3>1. <<q, r>> \in Nat \X Nat /\ <<q, r>>[1] = q /\ <<q, r>>[2] = r
      BY <1>2
    <3>2. <<q, r>> \in OpToRel(<, Nat)
      BY <1>2, <2>2, <3>1, Zenon DEF OpToRel
    <3> QED
      BY <2>1, <3>2
  <2> QED
    BY <2>2
<1>4. PICK t \in Obsolete : \A u \in Obsolete : ~ (rank[u] < rank[t])
  BY <1>3
<1>5. lpPrev[t] = NoThread
  <2> SUFFICES ASSUME lpPrev[t] # NoThread PROVE FALSE
    OBVIOUS
  <2>1. lpPrev[t] \in Obsolete /\ lpNext[lpPrev[t]] = t /\ t # NoThread
    BY PoolAssumption DEF Links, Obsolete, At
  <2> QED
    BY <1>1, <1>4, <2>1 DEF Ascends
<1> QED
  BY <1>5, PoolAssumption DEF Links, Obsolete, At

\* What the books say of the list is what ObsoleteListOK says of it.
LEMMA ListIsOK == ASSUME Types, Links, Ranked PROVE ObsoleteListOK
BY HeadOfList DEF ObsoleteListOK, Links

\* A step that leaves the list alone and parks nobody keeps it.
LEMMA ListStays ==
  ASSUME Links, Ranked, UNCHANGED obsoleteList, Obsolete' = Obsolete,
         \A u \in Threads \ Obsolete : pc'[u] # "end" => pc[u] # "end"
  PROVE  Links' /\ Ranked'
<1>1. Links'
  BY DEF Links, obsoleteList
<1>2. Ranked'
  BY DEF Ranked, Ascends, obsoleteList
<1> QED
  BY <1>1, <1>2

\* The head is granted reuse and leaves the list.
LEMMA ListPops ==
  ASSUME Types, Links, Ranked, lpObsoleteThreadPool # NoThread, WakeObsolete,
         Obsolete' = Obsolete \ {lpObsoleteThreadPool},
         \A u \in Threads \ Obsolete : pc'[u] # "end" => pc[u] # "end"
  PROVE  Links' /\ Ranked'
<1> DEFINE h == lpObsoleteThreadPool
           n == lpNext[h]
<1>1. /\ h \in Obsolete /\ lpPrev[h] = NoThread /\ n \in Obsolete \cup {NoThread}
      /\ Obsolete \subseteq Threads /\ NoThread \notin Threads
      /\ lpPrev \in [Threads -> Threads \cup {NoThread}]
  BY PoolAssumption DEF Links, Obsolete, At, Types, PoolTypeOK
<1>2. n # h
  BY <1>1 DEF Links
<1>3. /\ lpNext' = lpNext /\ lpObsoleteThreadPool' = n
      /\ \A u \in Threads : lpPrev'[u] = IF u = n THEN NoThread ELSE lpPrev[u]
  BY <1>1 DEF WakeObsolete
<1> HIDE DEF h, n
<1>4. \A t \in Obsolete \ {h} : lpNext[t] # h /\ (lpPrev[t] = h <=> t = n) /\ lpPrev[t] # NoThread
  BY <1>1 DEF Links, h, n
<1>5. Links'
  <2>1. n \in Obsolete' \cup {NoThread}
    BY <1>1, <1>2 DEF h
  <2>2. ASSUME NEW t \in Obsolete'
        PROVE  /\ lpNext'[t] \in Obsolete' \cup {NoThread}
               /\ lpNext'[t] # NoThread => lpPrev'[lpNext'[t]] = t
               /\ lpPrev'[t] \in Obsolete' \cup {NoThread}
               /\ lpPrev'[t] = NoThread <=> lpObsoleteThreadPool' = t
               /\ lpPrev'[t] # NoThread => lpNext'[lpPrev'[t]] = t
    <3>1. t \in Obsolete /\ t # h /\ t \in Threads
      BY <1>1 DEF h
    <3>2. lpNext[t] # NoThread => lpNext[t] # n
      <4>1. n = NoThread \/ lpPrev[n] = h
        BY <1>1 DEF Links, n
      <4> QED
        BY <1>1, <3>1, <4>1 DEF Links
    <3> QED
      BY <1>1, <1>3, <1>4, <3>1, <3>2 DEF Links, h
  <2>3. ASSUME NEW u \in Threads \ Obsolete', pc'[u] # "end"
        PROVE  lpPrev'[u] = NoThread
    BY <1>1, <1>3, <2>3 DEF Links, h
  <2> QED
    BY <1>3, <2>1, <2>2, <2>3 DEF Links
<1>6. Ranked'
  BY <1>3 DEF Ranked, Ascends
<1> QED
  BY <1>5, <1>6

\* A thread becomes the head of the list.
LEMMA ListPushes ==
  ASSUME Types, Links, Ranked, NEW t \in Threads, t \notin Obsolete, pc[t] # "end",
         Obsolete' = Obsolete \cup {t},
         lpNext' = [lpNext EXCEPT ![t] = lpObsoleteThreadPool],
         lpPrev' = IF lpObsoleteThreadPool = NoThread THEN lpPrev
                   ELSE [lpPrev EXCEPT ![lpObsoleteThreadPool] = t],
         lpObsoleteThreadPool' = t,
         \A u \in Threads \ {t} : pc'[u] = pc[u]
  PROVE  Links' /\ Ranked'
<1> DEFINE h == lpObsoleteThreadPool
<1>1. /\ Obsolete \subseteq Threads /\ NoThread \notin Threads
      /\ lpPrev \in [Threads -> Threads \cup {NoThread}]
      /\ lpNext \in [Threads -> Threads \cup {NoThread}]
      /\ h \in Obsolete \cup {NoThread} /\ lpPrev[t] = NoThread
  BY PoolAssumption DEF Links, Obsolete, At, Types, PoolTypeOK
<1>2. /\ \A u \in Threads : lpNext'[u] = IF u = t THEN h ELSE lpNext[u]
      /\ \A u \in Threads : lpPrev'[u] = IF u = h THEN t ELSE lpPrev[u]
  BY <1>1
<1>3. Links'
  <2>1. ASSUME NEW u \in Obsolete'
        PROVE  /\ lpNext'[u] \in Obsolete' \cup {NoThread}
               /\ lpNext'[u] # NoThread => lpPrev'[lpNext'[u]] = u
               /\ lpPrev'[u] \in Obsolete' \cup {NoThread}
               /\ lpPrev'[u] = NoThread <=> lpObsoleteThreadPool' = u
               /\ lpPrev'[u] # NoThread => lpNext'[lpPrev'[u]] = u
    <3>1. CASE u = t
      BY <1>1, <1>2, <3>1
    <3>2. CASE u # t
      <4>1. u \in Obsolete
        BY <3>2
      <4>2. lpNext[u] # NoThread => lpNext[u] # h
        BY <1>1, <4>1 DEF Links
      <4>3. lpPrev[u] # t /\ (lpPrev[u] = NoThread <=> u = h)
        BY <1>1, <4>1 DEF Links
      <4> QED
        BY <1>1, <1>2, <3>2, <4>1, <4>2, <4>3 DEF Links
    <3> QED
      BY <3>1, <3>2
  <2>2. ASSUME NEW u \in Threads \ Obsolete', pc'[u] # "end"
        PROVE  lpPrev'[u] = NoThread
    BY <1>1, <1>2, <2>2 DEF Links
  <2> QED
    BY <2>1, <2>2 DEF Links
<1>4. Ranked'
  <2>1. PICK rank \in [Threads -> Nat] : Ascends(rank)
    BY DEF Ranked
  <2> DEFINE higher == [u \in Threads |-> IF u = t THEN 0 ELSE rank[u] + 1]
  <2>2. higher \in [Threads -> Nat]
    OBVIOUS
  <2>3. ASSUME NEW u \in Obsolete', lpNext'[u] # NoThread
        PROVE  higher[u] < higher[lpNext'[u]]
    <3>1. CASE u = t
      BY <1>1, <1>2, <2>3, <3>1
    <3>2. CASE u # t
      <4>1. /\ u \in Obsolete /\ lpNext'[u] = lpNext[u]
            /\ lpNext[u] \in Obsolete /\ lpNext[u] # t /\ rank[u] < rank[lpNext[u]]
        BY <1>1, <1>2, <2>1, <2>3, <3>2 DEF Links, Ascends
      <4> QED
        BY <1>1, <3>2, <4>1
    <3> QED
      BY <3>1, <3>2
  <2> HIDE DEF higher
  <2> QED
    BY <2>2, <2>3 DEF Ranked, Ascends
<1> QED
  BY <1>3, <1>4

\* A thread whose grace period has ended unlinks itself, wherever it stands.
LEMMA ListUnlinks ==
  ASSUME Types, Links, Ranked, NEW t \in Obsolete,
         Obsolete' = Obsolete \ {t}, pc' = [pc EXCEPT ![t] = "end"],
         IF lpPrev[t] # NoThread
         THEN /\ lpNext' = [lpNext EXCEPT ![lpPrev[t]] = lpNext[t]]
              /\ UNCHANGED lpObsoleteThreadPool
         ELSE /\ lpObsoleteThreadPool' = lpNext[t]
              /\ UNCHANGED lpNext,
         lpPrev' = IF lpNext[t] = NoThread THEN lpPrev
                   ELSE [lpPrev EXCEPT ![lpNext[t]] = lpPrev[t]]
  PROVE  Links' /\ Ranked'
<1> DEFINE p == lpPrev[t]
           n == lpNext[t]
<1>1. /\ Obsolete \subseteq Threads /\ NoThread \notin Threads /\ t \in Threads
      /\ lpPrev \in [Threads -> Threads \cup {NoThread}]
      /\ lpNext \in [Threads -> Threads \cup {NoThread}]
      /\ p \in Obsolete \cup {NoThread} /\ n \in Obsolete \cup {NoThread}
      /\ pc \in [Threads -> PoolSteps]
  BY PoolAssumption DEF Links, Obsolete, At, Types, PoolTypeOK
<1>2. PICK rank \in [Threads -> Nat] : Ascends(rank)
  BY DEF Ranked
<1>3. /\ n # NoThread => rank[t] < rank[n] /\ rank[n] \in Nat
      /\ p # NoThread => rank[p] < rank[t] /\ rank[p] \in Nat
  BY <1>1, <1>2 DEF Links, Ascends
<1>4. p # t /\ n # t /\ (p # NoThread => p # n)
  BY <1>1, <1>3
<1>5. /\ \A u \in Threads : lpNext'[u] = IF u = p THEN n ELSE lpNext[u]
      /\ \A u \in Threads : lpPrev'[u] = IF u = n THEN p ELSE lpPrev[u]
      /\ lpObsoleteThreadPool' = IF p = NoThread THEN n ELSE lpObsoleteThreadPool
      /\ p = NoThread <=> lpObsoleteThreadPool = t
  BY <1>1 DEF Links
<1>6. Links'
  <2>1. lpObsoleteThreadPool' \in Obsolete' \cup {NoThread}
    BY <1>1, <1>4, <1>5 DEF Links
  <2>2. ASSUME NEW u \in Obsolete'
        PROVE  /\ lpNext'[u] \in Obsolete' \cup {NoThread}
               /\ lpNext'[u] # NoThread => lpPrev'[lpNext'[u]] = u
               /\ lpPrev'[u] \in Obsolete' \cup {NoThread}
               /\ lpPrev'[u] = NoThread <=> lpObsoleteThreadPool' = u
               /\ lpPrev'[u] # NoThread => lpNext'[lpPrev'[u]] = u
    <3>1. u \in Obsolete /\ u # t /\ u \in Threads
      BY <1>1
    <3>2. /\ lpNext[u] = t <=> u = p
          /\ lpPrev[u] = t <=> u = n
          /\ lpNext[u] # NoThread => (lpNext[u] = n <=> u = t)
          /\ lpPrev[u] # NoThread => (lpPrev[u] = p <=> u = t)
      BY <1>1, <3>1 DEF Links
    <3>3. /\ lpNext'[u] \in Obsolete' \cup {NoThread}
          /\ lpNext'[u] # NoThread => lpPrev'[lpNext'[u]] = u
      BY <1>1, <1>4, <1>5, <3>1, <3>2 DEF Links
    <3>4. /\ lpPrev'[u] \in Obsolete' \cup {NoThread}
          /\ lpPrev'[u] # NoThread => lpNext'[lpPrev'[u]] = u
      BY <1>1, <1>4, <1>5, <3>1, <3>2 DEF Links
    <3>5. lpPrev'[u] = NoThread <=> lpObsoleteThreadPool' = u
      BY <1>1, <1>4, <1>5, <3>1, <3>2 DEF Links
    <3> QED
      BY <3>3, <3>4, <3>5
  <2>3. ASSUME NEW u \in Threads \ Obsolete', pc'[u] # "end"
        PROVE  lpPrev'[u] = NoThread
    BY <1>1, <1>4, <1>5, <2>3 DEF Links
  <2> QED
    BY <2>1, <2>2, <2>3 DEF Links
<1>7. Ranked'
  <2>1. ASSUME NEW u \in Obsolete', lpNext'[u] # NoThread
        PROVE  rank[u] < rank[lpNext'[u]]
    BY <1>1, <1>2, <1>3, <1>5, <2>1 DEF Ascends
  <2> QED
    BY <1>2, <2>1 DEF Ranked, Ascends
<1> QED
  BY <1>6, <1>7

\* A thread that has ended leaves no links behind.
LEMMA ListForgets ==
  ASSUME Types, Links, Ranked, NEW t \in Threads, t \notin Obsolete,
         Obsolete' = Obsolete, \A u \in Threads \ {t} : pc'[u] = pc[u],
         lpNext' = [lpNext EXCEPT ![t] = NoThread],
         lpPrev' = [lpPrev EXCEPT ![t] = NoThread], UNCHANGED lpObsoleteThreadPool
  PROVE  Links' /\ Ranked'
<1>1. /\ Obsolete \subseteq Threads
      /\ lpPrev \in [Threads -> Threads \cup {NoThread}]
      /\ lpNext \in [Threads -> Threads \cup {NoThread}]
  BY DEF Obsolete, At, Types, PoolTypeOK
<1>2. /\ \A u \in Obsolete : lpNext'[u] = lpNext[u] /\ lpPrev'[u] = lpPrev[u]
      /\ \A u \in Threads : lpPrev'[u] = IF u = t THEN NoThread ELSE lpPrev[u]
  BY <1>1
<1>3. Links'
  BY <1>1, <1>2 DEF Links
<1>4. Ranked'
  BY <1>2 DEF Ranked, Ascends
<1> QED
  BY <1>3, <1>4

-------------------------------------------------------------------------------
(* The steps.  Each is followed through the types, the sizes of the sets,  *)
(* the threads' own data, the list and the spare worker.                   *)

\* The counters stay in step when they move with the sets, or when the exit flag is
\* set and workers leave.
LEMMA CountersFollow ==
  ASSUME Types, Counters, NEW a \in -1 .. 1, NEW b \in -1 .. 1, NEW f \in -1 .. 1,
         NEW c \in -1 .. 1, NEW w \in -1 .. 1, NEW p \in 0 .. 1, Grow(a, b, f, c, w),
         lWorkerThreadCount' = lWorkerThreadCount + a + p,
         phantoms' = phantoms + p,
         lBlockingWorkerThreads' = lBlockingWorkerThreads + b,
         \/ /\ lFreeWorkerThreads' = lFreeWorkerThreads + f + c + p
            /\ lWorkerThreads' = lWorkerThreads + w + c + p
         \/ /\ bThreadExitFlag /\ f <= 0 /\ w <= 0 /\ c = 0 /\ p = 0
            /\ lFreeWorkerThreads' = lFreeWorkerThreads
            /\ lWorkerThreads' = lWorkerThreads,
         bThreadExitFlag => bThreadExitFlag'
  PROVE  /\ Counters'
         /\ lWorkerThreadCount' \in Nat /\ phantoms' \in Nat /\ lBlockingWorkerThreads' \in Nat
         /\ lFreeWorkerThreads' \in Nat /\ lWorkerThreads' \in Nat
<1>1. /\ Cardinality(Alive) \in Nat /\ Cardinality(Blocked) \in Nat /\ Cardinality(Free) \in Nat
      /\ Cardinality(Creating) \in Nat /\ Cardinality(Working) \in Nat
  BY SizesAreNat
<1>2. /\ Cardinality(Alive)' \in Nat /\ Cardinality(Blocked)' \in Nat /\ Cardinality(Free)' \in Nat
      /\ Cardinality(Creating)' \in Nat /\ Cardinality(Working)' \in Nat
  BY SetsOfThreads, QueueAssumption, FS_Subset, FS_CardinalityType
<1>3. /\ lWorkerThreads \in Nat /\ lFreeWorkerThreads \in Nat /\ phantoms \in Nat
      /\ lBlockingWorkerThreads \in Nat /\ lWorkerThreadCount \in Nat
  BY DEF Types, PoolTypeOK
<1>4. /\ lWorkerThreadCount' = Cardinality(Alive)' + phantoms'
      /\ lBlockingWorkerThreads' = Cardinality(Blocked)'
      /\ phantoms' \in Nat
  BY <1>1, <1>2, <1>3 DEF Counters, Grow
<1>5. /\ lFreeWorkerThreads' >= Cardinality(Free)' + Cardinality(Creating)' + phantoms'
      /\ lWorkerThreads' >= Cardinality(Working)' + Cardinality(Creating)' + phantoms'
      /\ ~ bThreadExitFlag' =>
           /\ lFreeWorkerThreads' = Cardinality(Free)' + Cardinality(Creating)' + phantoms'
           /\ lWorkerThreads' = Cardinality(Working)' + Cardinality(Creating)' + phantoms'
      /\ lFreeWorkerThreads' \in Int /\ lWorkerThreads' \in Int
  BY <1>1, <1>2, <1>3 DEF Counters, Grow
<1> QED
  BY <1>2, <1>4, <1>5 DEF Counters

\* The next job is a job, and the queue keeps its type.
LEMMA NextJobIsJob ==
  ASSUME lpJobQueue \in [Priorities -> Seq(Jobs)], TakeNextJob
  PROVE  NextJob \in Jobs /\ lpJobQueue' \in [Priorities -> Seq(Jobs)]
<1>1. NextPriority \in Priorities
  BY DEF NextPriority, Priorities
<1>2. lpJobQueue[NextPriority] \in Seq(Jobs) /\ lpJobQueue[NextPriority] # <<>>
  BY <1>1 DEF TakeNextJob, Ready
<1> QED
  BY <1>1, <1>2 DEF TakeNextJob, NextJob

\* A worker waits, tests the flag or pops: it stays free, or leaves for good.
LEMMA QueueStepKeeps ==
  ASSUME PoolBooks, NEW t \in Threads, NEW to \in {"check", "pop", "count", "end"},
         pc[t] \in {"wait", "check", "pop"}, pc' = [pc EXCEPT ![t] = to],
         to = "end" => bThreadExitFlag,
         job' \in [Threads -> Jobs \cup {NoJob}],
         lpJobQueue' \in [Priorities -> Seq(Jobs)],
         UNCHANGED <<lBlockingCount, bReuse, hEvent, obsoleteList, counters, creation, shutdown>>
  PROVE  PoolBooks'
<1> USE DEF PoolBooks, obsoleteList, counters, creation
<1>1. /\ pc \in [Threads -> PoolSteps] /\ bReuse \in [Threads -> BOOLEAN]
      /\ ~ bReuse[t]
      /\ \A u \in Threads \ {t} : SameThread(u)
  BY DEF Types, PoolTypeOK, ThreadOK, SameThread
<1>2. /\ t \in Alive /\ t \in Alive' /\ t \notin Blocked /\ t \notin Blocked'
      /\ t \in Free /\ (t \in Free' <=> to # "end") /\ t \notin Creating /\ t \notin Creating'
      /\ t \in Working /\ (t \in Working' <=> to # "end") /\ t \notin Obsolete /\ t \notin Obsolete'
  BY <1>1 DEF Alive, Blocked, Free, Creating, Working, Obsolete, At
<1>3. Grow(0, 0, IF to = "end" THEN -1 ELSE 0, 0, IF to = "end" THEN -1 ELSE 0)
  BY <1>1, <1>2, OneThreadMoves DEF One
<1>4. Counters'
  <2> DEFINE d == IF to = "end" THEN -1 ELSE 0
  <2>1. d \in -1 .. 1 /\ d <= 0 /\ (d = 0 \/ bThreadExitFlag)
    OBVIOUS
  <2>2. Grow(0, 0, d, 0, d)
    BY <1>3
  <2>3. bThreadExitFlag => bThreadExitFlag'
    BY DEF bThreadExitFlag
  <2> HIDE DEF d
  <2>4. /\ lWorkerThreads \in Nat /\ lFreeWorkerThreads \in Nat /\ phantoms \in Nat
        /\ lBlockingWorkerThreads \in Nat /\ lWorkerThreadCount \in Nat
    BY DEF Types, PoolTypeOK
  <2> QED
    BY <2>1, <2>2, <2>3, <2>4, CountersFollow
<1>5. Types'
  BY <1>1 DEF Types, PoolTypeOK, PoolSteps
<1>6. \A u \in Threads : ThreadOK(u)'
  BY <1>1, <1>2 DEF ThreadOK, Blocked, At
<1>7. Obsolete' = Obsolete
  BY <1>1, <1>2, StaysCounted DEF Obsolete, At
<1>8. Links' /\ Ranked'
  BY <1>1, <1>7, ListStays
<1>9. SpareWorker'
  BY DEF SpareWorker
<1> QED
  BY <1>4, <1>5, <1>6, <1>8, <1>9

\* Whoever uses up the last free worker provides another: one from the list, one
\* that is about to be created, or none because enough will become free.
LEMMA ProvideKeeps ==
  ASSUME PoolBooks, NEW t \in Threads, NEW from, NEW created, NEW reused, NEW f, NEW b,
         \/ from = "count" /\ created = "create" /\ reused = "run" /\ f = -1 /\ b = 0
         \/ from = "run" /\ created = "createBlocked" /\ reused = "blocked" /\ f = 0 /\ b = 1,
         Provide(t, from, created, reused, lFreeWorkerThreads + f, lBlockingWorkerThreads + b),
         lBlockingWorkerThreads' = lBlockingWorkerThreads + b,
         b = 0 => UNCHANGED lBlockingCount,
         b = 1 => /\ lBlockingCount[t] < MAX_NESTING
                  /\ lBlockingCount' = [lBlockingCount EXCEPT ![t] = @ + 1],
         UNCHANGED <<lpJobQueue, shutdown, job, creation>>
  PROVE  PoolBooks'
<1> USE DEF PoolBooks, creation
<1> DEFINE h == lpObsoleteThreadPool
<1>1. /\ pc \in [Threads -> PoolSteps] /\ bReuse \in [Threads -> BOOLEAN]
      /\ hEvent \in [Threads -> BOOLEAN]
      /\ lBlockingCount \in [Threads -> 0 .. MAX_NESTING]
      /\ pc[t] = from /\ ~ bReuse[t]
      /\ lWorkerThreads \in Nat /\ lFreeWorkerThreads \in Nat /\ phantoms \in Nat
      /\ lBlockingWorkerThreads \in Nat /\ lWorkerThreadCount \in Nat
      /\ NoThread \notin Threads
      /\ f \in -1 .. 0 /\ b \in 0 .. 1
      /\ MAX_NESTING \in Nat
  <2>1. pc[t] = from
    BY DEF Provide, Goto
  <2>2. from \in {"count", "run"} /\ f \in -1 .. 0 /\ b \in 0 .. 1
    OBVIOUS
  <2>3. ~ bReuse[t]
    BY <2>1, <2>2 DEF ThreadOK
  <2> QED
    BY <2>1, <2>2, <2>3, PoolAssumption DEF Types, PoolTypeOK
<1>2. /\ pc' = [pc EXCEPT ![t] = created] \/ pc' = [pc EXCEPT ![t] = reused]
      /\ t \in Alive /\ t \notin Blocked /\ t \notin Creating /\ t \in Working /\ t \notin Obsolete
      /\ t \in Free <=> f = -1
      /\ lBlockingCount[t] = 0
  BY <1>1 DEF Provide, Goto, Alive, Blocked, Free, Creating, Working, Obsolete, At, ThreadOK
<1>3. lFreeWorkerThreads + f >= 0
  <2>1. f = -1 => Cardinality(Free) >= 1
    <3> SUFFICES ASSUME f = -1 PROVE Cardinality(Free) # 0
      BY SizesAreNat
    <3>1. Free # {} /\ IsFiniteSet(Free)
      BY <1>2, SetsOfThreads, QueueAssumption, FS_Subset
    <3> QED
      BY <3>1, FS_EmptySet
  <2> QED
    BY <1>1, <2>1, SizesAreNat DEF Counters
<1>4. bThreadExitFlag => bThreadExitFlag'
  BY DEF bThreadExitFlag
<1>5. lBlockingCount' \in [Threads -> 0 .. MAX_NESTING]
  BY <1>1
<1>6. CASE lFreeWorkerThreads + f = 0 /\ lWorkerThreads - (lBlockingWorkerThreads + b) < lInitialWorkerThreads
           /\ h # NoThread
  <2>1. /\ lWorkerThreads' = lWorkerThreads + 1 /\ lFreeWorkerThreads' = (lFreeWorkerThreads + f) + 1
        /\ pc' = [pc EXCEPT ![t] = reused] /\ WakeObsolete
    BY <1>6 DEF Provide, Goto
  <2>2. h \in Obsolete /\ h \in Threads /\ h # t
    BY <1>2, <1>6 DEF Links, Obsolete, At
  <2>3. /\ hEvent' = [hEvent EXCEPT ![h] = TRUE] /\ bReuse' = [bReuse EXCEPT ![h] = TRUE]
        /\ lpPrev' \in [Threads -> Threads \cup {NoThread}]
        /\ lpNext' \in [Threads -> Threads \cup {NoThread}]
        /\ lpObsoleteThreadPool' \in Threads \cup {NoThread}
    BY <1>1, <2>1, <2>2 DEF WakeObsolete, Types, PoolTypeOK
  <2> HIDE DEF h
  <2>4. \A u \in Threads \ {t, h} : SameThread(u)
    BY <1>1, <2>1, <2>2, <2>3 DEF SameThread
  <2>5. /\ t \in Alive' /\ (t \in Blocked' <=> b = 1) /\ t \notin Free' /\ t \notin Creating'
        /\ t \in Working' /\ t \notin Obsolete'
        /\ h \in Alive /\ h \in Alive' /\ h \notin Blocked /\ h \notin Blocked' /\ h \notin Free
        /\ h \in Free' /\ h \notin Creating /\ h \notin Creating' /\ h \notin Working
        /\ h \in Working' /\ h \notin Obsolete'
    BY <1>1, <2>1, <2>2, <2>3 DEF Alive, Blocked, Free, Creating, Working, Obsolete, At
  <2>6. Grow(0, b, f + 1, 0, 1)
    BY <1>1, <1>2, <2>2, <2>4, <2>5, TwoThreadsMove DEF One
  <2>7. /\ Counters' /\ lWorkerThreadCount' \in Nat /\ phantoms' \in Nat
        /\ lBlockingWorkerThreads' \in Nat /\ lFreeWorkerThreads' \in Nat /\ lWorkerThreads' \in Nat
    BY <1>1, <1>4, <2>1, <2>6, CountersFollow
  <2>8. Types'
    BY <1>1, <1>5, <2>1, <2>3, <2>7 DEF Types, PoolTypeOK, PoolSteps
  <2>9. \A u \in Threads : ThreadOK(u)'
    BY <1>1, <1>2, <2>1, <2>2, <2>3, <2>5 DEF ThreadOK, Blocked, Obsolete, At
  <2>10. Obsolete' = Obsolete \ {h}
    BY <2>2, <2>4, <2>5, <1>2, StaysCounted DEF Obsolete, At
  <2>11. Links' /\ Ranked'
    BY <1>1, <1>6, <2>1, <2>10, ListPops DEF h
  <2>12. SpareWorker'
    BY <1>1, <1>6, <2>1 DEF SpareWorker
  <2> QED
    BY <2>7, <2>8, <2>9, <2>11, <2>12
<1>7. CASE lFreeWorkerThreads + f = 0 /\ lWorkerThreads - (lBlockingWorkerThreads + b) < lInitialWorkerThreads
           /\ h = NoThread
  <2>1. /\ lWorkerThreads' = lWorkerThreads + 1 /\ lFreeWorkerThreads' = (lFreeWorkerThreads + f) + 1
        /\ pc' = [pc EXCEPT ![t] = created] /\ UNCHANGED <<hEvent, bReuse, obsoleteList>>
    BY <1>7 DEF Provide, Goto
  <2>2. \A u \in Threads \ {t} : SameThread(u)
    BY <1>1, <2>1 DEF SameThread
  <2>3. /\ t \in Alive' /\ (t \in Blocked' <=> b = 1) /\ t \notin Free' /\ t \in Creating'
        /\ t \in Working' /\ t \notin Obsolete'
    BY <1>1, <2>1 DEF Alive, Blocked, Free, Creating, Working, Obsolete, At
  <2>4. Grow(0, b, f, 1, 0)
    BY <1>1, <1>2, <2>2, <2>3, OneThreadMoves DEF One
  <2>5. /\ Counters' /\ lWorkerThreadCount' \in Nat /\ phantoms' \in Nat
        /\ lBlockingWorkerThreads' \in Nat /\ lFreeWorkerThreads' \in Nat /\ lWorkerThreads' \in Nat
    BY <1>1, <1>4, <2>1, <2>4, CountersFollow
  <2>6. Types'
    BY <1>1, <1>5, <2>1, <2>5 DEF Types, PoolTypeOK, PoolSteps, obsoleteList
  <2>7. \A u \in Threads : ThreadOK(u)'
    BY <1>1, <1>2, <2>1, <2>3 DEF ThreadOK, Blocked, Obsolete, At
  <2>8. Obsolete' = Obsolete
    BY <2>2, <2>3, <1>2, StaysCounted DEF Obsolete, At
  <2>9. Links' /\ Ranked'
    BY <1>1, <2>1, <2>8, ListStays
  <2>10. SpareWorker'
    BY <1>1, <1>7, <2>1 DEF SpareWorker
  <2> QED
    BY <2>5, <2>6, <2>7, <2>9, <2>10
<1>8. CASE ~ (lFreeWorkerThreads + f = 0 /\ lWorkerThreads - (lBlockingWorkerThreads + b) < lInitialWorkerThreads)
  <2>1. /\ lWorkerThreads' = lWorkerThreads /\ lFreeWorkerThreads' = lFreeWorkerThreads + f
        /\ pc' = [pc EXCEPT ![t] = reused] /\ UNCHANGED <<hEvent, bReuse, obsoleteList>>
    BY <1>8 DEF Provide, Goto
  <2>2. \A u \in Threads \ {t} : SameThread(u)
    BY <1>1, <2>1 DEF SameThread
  <2>3. /\ t \in Alive' /\ (t \in Blocked' <=> b = 1) /\ t \notin Free' /\ t \notin Creating'
        /\ t \in Working' /\ t \notin Obsolete'
    BY <1>1, <2>1 DEF Alive, Blocked, Free, Creating, Working, Obsolete, At
  <2>4. Grow(0, b, f, 0, 0)
    BY <1>1, <1>2, <2>2, <2>3, OneThreadMoves DEF One
  <2>5. /\ Counters' /\ lWorkerThreadCount' \in Nat /\ phantoms' \in Nat
        /\ lBlockingWorkerThreads' \in Nat /\ lFreeWorkerThreads' \in Nat /\ lWorkerThreads' \in Nat
    BY <1>1, <1>4, <2>1, <2>4, CountersFollow
  <2>6. Types'
    BY <1>1, <1>5, <2>1, <2>5 DEF Types, PoolTypeOK, PoolSteps, obsoleteList
  <2>7. \A u \in Threads : ThreadOK(u)'
    BY <1>1, <1>2, <2>1, <2>3 DEF ThreadOK, Blocked, Obsolete, At
  <2>8. Obsolete' = Obsolete
    BY <2>2, <2>3, <1>2, StaysCounted DEF Obsolete, At
  <2>9. Links' /\ Ranked'
    BY <1>1, <2>1, <2>8, ListStays
  <2>10. SpareWorker'
    <3>1. lInitialWorkerThreads \in Nat
      BY QueueAssumption, PoolAssumption, FS_CardinalityType DEF Types, PoolTypeOK
    <3> QED
      BY <1>1, <1>3, <1>8, <2>1, <3>1 DEF SpareWorker
  <2> QED
    BY <2>5, <2>6, <2>7, <2>9, <2>10
<1> QED
  BY <1>6, <1>7, <1>8

\* CreateWorkerThread: the thread that was promised exists now, or never will.
LEMMA CreateKeeps ==
  ASSUME PoolBooks, NEW t \in Threads, NEW from, NEW to,
         \/ from = "create" /\ to = "run"
         \/ from = "createBlocked" /\ to = "blocked",
         CreateWorkerThread(t, from, to),
         UNCHANGED <<queueSide, threadData, obsoleteList>>
  PROVE  PoolBooks'
<1> USE DEF PoolBooks, queueSide, queueVars, threadData, obsoleteList, counters
<1>1. /\ pc \in [Threads -> PoolSteps] /\ bReuse \in [Threads -> BOOLEAN]
      /\ pc[t] = from /\ ~ bReuse[t]
      /\ lWorkerThreads \in Nat /\ lFreeWorkerThreads \in Nat /\ phantoms \in Nat
      /\ lBlockingWorkerThreads \in Nat /\ lWorkerThreadCount \in Nat
      /\ lInitialWorkerThreads' = lInitialWorkerThreads
  <2>1. pc[t] = from
    BY DEF CreateWorkerThread, Goto
  <2>2. ~ bReuse[t]
    BY <2>1 DEF ThreadOK
  <2> QED
    BY <2>1, <2>2 DEF Types, PoolTypeOK, CreateWorkerThread
<1>2. /\ t \in Alive /\ t \notin Free /\ t \in Creating /\ t \in Working /\ t \notin Obsolete
      /\ t \in Blocked <=> from = "createBlocked"
  BY <1>1 DEF Alive, Blocked, Free, Creating, Working, Obsolete, At
<1>3. bThreadExitFlag => bThreadExitFlag'
  BY DEF bThreadExitFlag
<1>4. ASSUME NEW n \in Threads, pc[n] = "none", pc' = [pc EXCEPT ![t] = to, ![n] = "wait"],
             lWorkerThreadCount' = lWorkerThreadCount + 1,
             UNCHANGED <<counters, phantoms, failed>>
      PROVE  PoolBooks'
  <2>1. n # t /\ ~ bReuse[n]
    BY <1>1, <1>4 DEF ThreadOK
  <2>2. \A u \in Threads \ {t, n} : SameThread(u)
    BY <1>1, <1>4 DEF SameThread
  <2>3. /\ t \in Alive' /\ (t \in Blocked' <=> from = "createBlocked") /\ t \notin Free'
        /\ t \notin Creating' /\ t \in Working' /\ t \notin Obsolete'
        /\ n \notin Alive /\ n \in Alive' /\ n \notin Blocked /\ n \notin Blocked' /\ n \notin Free
        /\ n \in Free' /\ n \notin Creating /\ n \notin Creating' /\ n \notin Working
        /\ n \in Working' /\ n \notin Obsolete /\ n \notin Obsolete'
    BY <1>1, <1>4, <2>1 DEF Alive, Blocked, Free, Creating, Working, Obsolete, At
  <2>4. Grow(1, 0, 1, -1, 1)
    BY <1>2, <2>1, <2>2, <2>3, TwoThreadsMove DEF One
  <2>5. /\ Counters' /\ lWorkerThreadCount' \in Nat /\ phantoms' \in Nat
        /\ lBlockingWorkerThreads' \in Nat /\ lFreeWorkerThreads' \in Nat /\ lWorkerThreads' \in Nat
    BY <1>1, <1>3, <1>4, <2>4, CountersFollow
  <2>6. Types'
    BY <1>1, <1>4, <2>5 DEF Types, PoolTypeOK, PoolSteps
  <2>7. \A u \in Threads : ThreadOK(u)'
    BY <1>1, <1>2, <1>4, <2>1, <2>3 DEF ThreadOK, Blocked, Obsolete, At
  <2>8. Obsolete' = Obsolete
    BY <1>2, <2>2, <2>3, StaysCounted DEF Obsolete, At
  <2>9. Links' /\ Ranked'
    BY <1>1, <1>4, <2>8, ListStays
  <2>10. SpareWorker'
    BY <1>1, <1>4 DEF SpareWorker
  <2> QED
    BY <2>5, <2>6, <2>7, <2>9, <2>10
<1>5. ASSUME NEW p \in 0 .. 1, pc' = [pc EXCEPT ![t] = to], failed',
             lWorkerThreadCount' = lWorkerThreadCount + p, phantoms' = phantoms + p,
             lWorkerThreads' = (lWorkerThreads - 1) + p,
             lFreeWorkerThreads' = (lFreeWorkerThreads - 1) + p,
             UNCHANGED lBlockingWorkerThreads
      PROVE  PoolBooks'
  <2>1. \A u \in Threads \ {t} : SameThread(u)
    BY <1>1, <1>5 DEF SameThread
  <2>2. /\ t \in Alive' /\ (t \in Blocked' <=> from = "createBlocked") /\ t \notin Free'
        /\ t \notin Creating' /\ t \in Working' /\ t \notin Obsolete'
    BY <1>1, <1>5 DEF Alive, Blocked, Free, Creating, Working, Obsolete, At
  <2>3. Grow(0, 0, 0, -1, 0)
    BY <1>2, <2>1, <2>2, OneThreadMoves DEF One
  <2>4. /\ Counters' /\ lWorkerThreadCount' \in Nat /\ phantoms' \in Nat
        /\ lBlockingWorkerThreads' \in Nat /\ lFreeWorkerThreads' \in Nat /\ lWorkerThreads' \in Nat
    <3>1. /\ lWorkerThreads' = ((lWorkerThreads + 0) + (-1)) + p
          /\ lFreeWorkerThreads' = ((lFreeWorkerThreads + 0) + (-1)) + p
          /\ lWorkerThreadCount' = (lWorkerThreadCount + 0) + p
          /\ lBlockingWorkerThreads' = lBlockingWorkerThreads + 0
      BY <1>1, <1>5
    <3> QED
      BY <1>3, <1>5, <2>3, <3>1, CountersFollow
  <2>5. Types'
    BY <1>1, <1>5, <2>4 DEF Types, PoolTypeOK, PoolSteps, CreateWorkerThread
  <2>6. \A u \in Threads : ThreadOK(u)'
    BY <1>1, <1>2, <1>5, <2>2 DEF ThreadOK, Blocked, Obsolete, At
  <2>7. Obsolete' = Obsolete
    BY <1>2, <2>1, <2>2, StaysCounted DEF Obsolete, At
  <2>8. Links' /\ Ranked'
    BY <1>1, <1>5, <2>7, ListStays
  <2>9. SpareWorker'
    BY <1>5 DEF SpareWorker
  <2> QED
    BY <2>4, <2>5, <2>6, <2>8, <2>9
<1>6. CASE /\ Goto(t, from, to) /\ lWorkerThreads' = lWorkerThreads - 1
           /\ lFreeWorkerThreads' = lFreeWorkerThreads - 1 /\ failed' = TRUE
           /\ UNCHANGED <<lBlockingWorkerThreads, lWorkerThreadCount, phantoms, lInitialWorkerThreads>>
  <2>1. /\ lWorkerThreadCount' = lWorkerThreadCount + 0 /\ phantoms' = phantoms + 0
        /\ lWorkerThreads' = (lWorkerThreads - 1) + 0
        /\ lFreeWorkerThreads' = (lFreeWorkerThreads - 1) + 0
    BY <1>1, <1>6
  <2>2. 0 \in 0 .. 1
    OBVIOUS
  <2> QED
    BY <1>5, <1>6, <2>1, <2>2 DEF Goto
<1>7. CASE /\ Goto(t, from, to) /\ lWorkerThreadCount' = lWorkerThreadCount + 1
           /\ phantoms' = phantoms + 1 /\ failed' = TRUE
           /\ UNCHANGED <<counters, lInitialWorkerThreads>>
  <2>1. /\ lWorkerThreads' = (lWorkerThreads - 1) + 1
        /\ lFreeWorkerThreads' = (lFreeWorkerThreads - 1) + 1
    BY <1>1, <1>7
  <2>2. 1 \in 0 .. 1
    OBVIOUS
  <2> QED
    BY <1>5, <1>7, <2>1, <2>2 DEF Goto
<1> QED
  BY <1>4, <1>6, <1>7 DEF CreateWorkerThread

\* A nested call of SetBlockingThreadFlag counts nothing but itself.
LEMMA NestKeeps ==
  ASSUME PoolBooks, NEW t \in Threads, pc[t] = "blocked", lBlockingCount[t] < MAX_NESTING,
         lBlockingCount' = [lBlockingCount EXCEPT ![t] = @ + 1],
         UNCHANGED <<pc, counters, hEvent, bReuse, obsoleteList, queueSide, job, creation>>
  PROVE  PoolBooks'
<1> USE DEF PoolBooks, queueSide, queueVars, obsoleteList, counters, creation
<1>1. lBlockingCount \in [Threads -> 0 .. MAX_NESTING] /\ MAX_NESTING \in Nat
  BY PoolAssumption DEF Types, PoolTypeOK
<1>2. /\ Alive' = Alive /\ Blocked' = Blocked /\ Free' = Free /\ Creating' = Creating
      /\ Working' = Working /\ Obsolete' = Obsolete
  BY DEF Alive, Blocked, Free, Creating, Working, Obsolete, At
<1>3. Types'
  BY <1>1 DEF Types, PoolTypeOK
<1>4. Counters'
  BY <1>2 DEF Counters, bThreadExitFlag
<1>5. \A u \in Threads : ThreadOK(u)'
  BY <1>1, <1>2 DEF ThreadOK, Blocked, At
<1>6. Links' /\ Ranked'
  BY <1>2, ListStays
<1>7. SpareWorker'
  BY DEF SpareWorker
<1> QED
  BY <1>3, <1>4, <1>5, <1>6, <1>7

\* SetNonBlockingThreadFlag uncounts the thread when the outermost call ends.
LEMMA UnblockKeeps ==
  ASSUME PoolBooks, NEW t \in Threads, SetNonBlockingThreadFlag(t)
  PROVE  PoolBooks'
<1> USE DEF PoolBooks, queueSide, queueVars, obsoleteList, counters, creation
<1>1. /\ pc \in [Threads -> PoolSteps] /\ bReuse \in [Threads -> BOOLEAN]
      /\ lBlockingCount \in [Threads -> 0 .. MAX_NESTING] /\ MAX_NESTING \in Nat
      /\ pc[t] \in {"blocked", "unblocking"}
      /\ lWorkerThreads \in Nat /\ lFreeWorkerThreads \in Nat /\ phantoms \in Nat
      /\ lBlockingWorkerThreads \in Nat /\ lWorkerThreadCount \in Nat
      /\ lInitialWorkerThreads' = lInitialWorkerThreads
  BY PoolAssumption DEF Types, PoolTypeOK, SetNonBlockingThreadFlag
<1>2. /\ t \in Alive /\ t \in Blocked /\ t \notin Free /\ t \notin Creating /\ t \in Working
      /\ t \notin Obsolete /\ ~ bReuse[t] /\ lBlockingCount[t] >= 1
      /\ lBlockingCount[t] \in 0 .. MAX_NESTING
  BY <1>1 DEF Alive, Blocked, Free, Creating, Working, Obsolete, At, ThreadOK
<1> DEFINE d == IF lBlockingCount[t] = 1 THEN -1 ELSE 0
<1>3. /\ lBlockingCount' = [lBlockingCount EXCEPT ![t] = @ - 1]
      /\ pc' = [pc EXCEPT ![t] = IF lBlockingCount[t] = 1 THEN "return" ELSE "unblocking"]
      /\ lBlockingWorkerThreads' = lBlockingWorkerThreads + d
      /\ UNCHANGED <<queueSide, job, bReuse, hEvent, obsoleteList, lWorkerThreads,
                     lFreeWorkerThreads, creation>>
  BY <1>1 DEF SetNonBlockingThreadFlag
<1>4. \A u \in Threads \ {t} : SameThread(u)
  BY <1>1, <1>3 DEF SameThread
<1>5. /\ t \in Alive' /\ (t \in Blocked' <=> d = 0) /\ t \notin Free' /\ t \notin Creating'
      /\ t \in Working' /\ t \notin Obsolete'
  BY <1>1, <1>2, <1>3 DEF Alive, Blocked, Free, Creating, Working, Obsolete, At
<1>6. d \in -1 .. 0
  OBVIOUS
<1> HIDE DEF d
<1>7. Grow(0, d, 0, 0, 0)
  BY <1>2, <1>4, <1>5, <1>6, OneThreadMoves DEF One
<1>8. /\ Counters' /\ lWorkerThreadCount' \in Nat /\ phantoms' \in Nat
      /\ lBlockingWorkerThreads' \in Nat /\ lFreeWorkerThreads' \in Nat /\ lWorkerThreads' \in Nat
  <2>1. bThreadExitFlag => bThreadExitFlag'
    BY <1>3 DEF bThreadExitFlag
  <2>2. /\ lWorkerThreads' = ((lWorkerThreads + 0) + 0) + 0
        /\ lFreeWorkerThreads' = ((lFreeWorkerThreads + 0) + 0) + 0
        /\ lWorkerThreadCount' = (lWorkerThreadCount + 0) + 0
        /\ phantoms' = phantoms + 0
    BY <1>1, <1>3
  <2>3. d \in -1 .. 1 /\ 0 \in -1 .. 1 /\ 0 \in 0 .. 1
    BY <1>6
  <2>4. lBlockingWorkerThreads' = lBlockingWorkerThreads + d
    BY <1>3
  <2>5. Types /\ Counters
    OBVIOUS
  <2> QED
    BY ONLY <1>7, <2>1, <2>2, <2>3, <2>4, <2>5, CountersFollow
<1>9. Types'
  BY <1>1, <1>2, <1>3, <1>8 DEF Types, PoolTypeOK, PoolSteps
<1>10. \A u \in Threads : ThreadOK(u)'
  BY <1>1, <1>2, <1>3, <1>5 DEF ThreadOK, Blocked, At, d
<1>11. Obsolete' = Obsolete
  BY <1>2, <1>4, <1>5, StaysCounted DEF Obsolete, At
<1>12. Links' /\ Ranked'
  BY <1>1, <1>3, <1>11, ListStays
<1>13. SpareWorker'
  <2>1. lInitialWorkerThreads \in Nat
    BY QueueAssumption, PoolAssumption, FS_CardinalityType DEF Types, PoolTypeOK
  <2>2. lBlockingWorkerThreads' <= lBlockingWorkerThreads /\ lBlockingWorkerThreads' \in Int
    BY <1>1, <1>3, <1>6
  <2>3. UNCHANGED <<failed, lWorkerThreads, lFreeWorkerThreads, lInitialWorkerThreads>>
    BY <1>1, <1>3
  <2>4. lWorkerThreads \in Int /\ lBlockingWorkerThreads \in Int /\ lInitialWorkerThreads \in Int
    BY <1>1, <2>1
  <2>5. lWorkerThreads - lBlockingWorkerThreads >= lInitialWorkerThreads
          => lWorkerThreads - lBlockingWorkerThreads' >= lInitialWorkerThreads
    <3>1. \A l \in Int : l <= lBlockingWorkerThreads =>
            (lWorkerThreads - lBlockingWorkerThreads >= lInitialWorkerThreads
               => lWorkerThreads - l >= lInitialWorkerThreads)
      BY ONLY <2>4
    <3> QED
      BY ONLY <2>2, <3>1, Zenon
  <2>6. SpareWorker
    OBVIOUS
  <2> QED
    BY ONLY <2>3, <2>5, <2>6 DEF SpareWorker
<1> QED
  BY <1>8, <1>9, <1>10, <1>12, <1>13

\* A thread whose job has returned is free again.
LEMMA FreeKeeps ==
  ASSUME PoolBooks, NEW t \in Threads, FreeThread(t)
  PROVE  PoolBooks'
<1> USE DEF PoolBooks, queueSide, queueVars, obsoleteList, counters, creation
<1>1. /\ pc \in [Threads -> PoolSteps] /\ bReuse \in [Threads -> BOOLEAN]
      /\ pc[t] \in {"return", "run"} /\ ~ bReuse[t]
      /\ lWorkerThreads \in Nat /\ lFreeWorkerThreads \in Nat /\ phantoms \in Nat
      /\ lBlockingWorkerThreads \in Nat /\ lWorkerThreadCount \in Nat
      /\ lFreeWorkerThreads' = lFreeWorkerThreads + 1
      /\ pc' = [pc EXCEPT ![t] = "wait"]
      /\ UNCHANGED <<queueSide, lBlockingCount, bReuse, hEvent, obsoleteList, lWorkerThreads,
                     lBlockingWorkerThreads, creation>>
  <2>1. pc[t] \in {"return", "run"}
    BY DEF FreeThread, JobReturns
  <2>2. ~ bReuse[t]
    BY <2>1 DEF ThreadOK
  <2> QED
    BY <2>1, <2>2 DEF Types, PoolTypeOK, FreeThread
<1>2. /\ t \in Alive /\ t \notin Blocked /\ t \notin Free /\ t \notin Creating /\ t \in Working
      /\ t \notin Obsolete
      /\ t \in Alive' /\ t \notin Blocked' /\ t \in Free' /\ t \notin Creating' /\ t \in Working'
      /\ t \notin Obsolete'
  BY <1>1 DEF Alive, Blocked, Free, Creating, Working, Obsolete, At
<1>3. \A u \in Threads \ {t} : SameThread(u)
  BY <1>1 DEF SameThread
<1>4. Grow(0, 0, 1, 0, 0)
  BY <1>2, <1>3, OneThreadMoves DEF One
<1>5. /\ Counters' /\ lWorkerThreadCount' \in Nat /\ phantoms' \in Nat
      /\ lBlockingWorkerThreads' \in Nat /\ lFreeWorkerThreads' \in Nat /\ lWorkerThreads' \in Nat
  <2>1. bThreadExitFlag => bThreadExitFlag'
    BY <1>1 DEF bThreadExitFlag
  <2> QED
    BY <1>1, <1>4, <2>1, CountersFollow
<1>6. Types'
  BY <1>1, <1>5 DEF Types, PoolTypeOK, PoolSteps, FreeThread
<1>7. \A u \in Threads : ThreadOK(u)'
  BY <1>1, <1>2 DEF ThreadOK, Blocked, At
<1>8. Obsolete' = Obsolete
  BY <1>2, <1>3, StaysCounted DEF Obsolete, At
<1>9. Links' /\ Ranked'
  BY <1>1, <1>8, ListStays
<1>10. SpareWorker'
  BY <1>1 DEF SpareWorker
<1> QED
  BY <1>5, <1>6, <1>7, <1>9, <1>10

\* A thread too many goes to the head of the obsolete list; that it is one too
\* many says that another is free.
LEMMA ParkKeeps ==
  ASSUME PoolBooks, NEW t \in Threads, ParkThread(t)
  PROVE  PoolBooks'
<1> USE DEF PoolBooks, queueSide, queueVars, creation
<1>1. /\ pc \in [Threads -> PoolSteps] /\ bReuse \in [Threads -> BOOLEAN]
      /\ hEvent \in [Threads -> BOOLEAN]
      /\ pc[t] \in {"return", "run"} /\ ~ bReuse[t]
      /\ lWorkerThreads \in Nat /\ lFreeWorkerThreads \in Nat /\ phantoms \in Nat
      /\ lBlockingWorkerThreads \in Nat /\ lWorkerThreadCount \in Nat
      /\ lWorkerThreads' = lWorkerThreads - 1
      /\ pc' = [pc EXCEPT ![t] = "parked"]
      /\ hEvent' = [hEvent EXCEPT ![t] = FALSE]
      /\ UNCHANGED <<queueSide, lBlockingCount, bReuse, lFreeWorkerThreads,
                     lBlockingWorkerThreads, creation>>
  <2>1. pc[t] \in {"return", "run"}
    BY DEF ParkThread, JobReturns
  <2>2. ~ bReuse[t]
    BY <2>1 DEF ThreadOK
  <2> QED
    BY <2>1, <2>2 DEF Types, PoolTypeOK, ParkThread
<1>2. /\ t \in Alive /\ t \notin Blocked /\ t \notin Free /\ t \notin Creating /\ t \in Working
      /\ t \notin Obsolete
      /\ t \in Alive' /\ t \notin Blocked' /\ t \notin Free' /\ t \notin Creating' /\ t \notin Working'
      /\ t \in Obsolete'
  BY <1>1 DEF Alive, Blocked, Free, Creating, Working, Obsolete, At
<1>3. \A u \in Threads \ {t} : SameThread(u)
  BY <1>1 DEF SameThread
<1>4. Grow(0, 0, 0, 0, -1)
  BY <1>2, <1>3, OneThreadMoves DEF One
<1>5. /\ Counters' /\ lWorkerThreadCount' \in Nat /\ phantoms' \in Nat
      /\ lBlockingWorkerThreads' \in Nat /\ lFreeWorkerThreads' \in Nat /\ lWorkerThreads' \in Nat
  <2>1. bThreadExitFlag => bThreadExitFlag'
    BY <1>1 DEF bThreadExitFlag
  <2> QED
    BY <1>1, <1>4, <2>1, CountersFollow
<1>6. Types'
  BY <1>1, <1>5 DEF Types, PoolTypeOK, PoolSteps, ParkThread
<1>7. \A u \in Threads : ThreadOK(u)'
  BY <1>1, <1>2 DEF ThreadOK, Blocked, At
<1>8. Obsolete' = Obsolete \cup {t}
  BY <1>2, <1>3, StaysCounted DEF Obsolete, At
<1>9. Links' /\ Ranked'
  <2>1. /\ lpNext' = [lpNext EXCEPT ![t] = lpObsoleteThreadPool]
        /\ lpPrev' = IF lpObsoleteThreadPool = NoThread THEN lpPrev
                     ELSE [lpPrev EXCEPT ![lpObsoleteThreadPool] = t]
        /\ lpObsoleteThreadPool' = t
    BY DEF ParkThread
  <2> QED
    BY <1>1, <1>2, <1>8, <2>1, ListPushes
<1>10. SpareWorker'
  <2>1. lInitialWorkerThreads \in Nat \ {0}
    BY QueueAssumption, PoolAssumption, FS_CardinalityType DEF Types, PoolTypeOK
  <2>2. lFreeWorkerThreads + 1 > lInitialWorkerThreads
    BY DEF ParkThread
  <2>3. lFreeWorkerThreads' > 0
    BY <1>1, <2>1, <2>2
  <2> QED
    BY <2>3 DEF SpareWorker
<1> QED
  BY <1>5, <1>6, <1>7, <1>9, <1>10

\* A parked thread wakes up, for its event or for the end of its grace period.
LEMMA WakeKeeps ==
  ASSUME PoolBooks, NEW t \in Threads, WakeUp(t) \/ GraceExpires(t)
  PROVE  PoolBooks'
<1> USE DEF PoolBooks, queueSide, queueVars, obsoleteList, counters, creation, poolVars, threadData
<1>1. /\ pc \in [Threads -> PoolSteps] /\ hEvent \in [Threads -> BOOLEAN]
      /\ pc[t] = "parked" /\ pc' = [pc EXCEPT ![t] = "unpark"]
      /\ hEvent' \in {hEvent, [hEvent EXCEPT ![t] = FALSE]}
      /\ UNCHANGED <<queueSide, job, lBlockingCount, bReuse, obsoleteList, counters, creation>>
  BY DEF Types, PoolTypeOK, WakeUp, GraceExpires, Goto
<1>2. /\ Alive' = Alive /\ Blocked' = Blocked /\ Free' = Free /\ Creating' = Creating
      /\ Working' = Working /\ Obsolete' = Obsolete
  <2>1. \A u \in Threads \ {t} : SameThread(u)
    BY <1>1 DEF SameThread
  <2>2. /\ t \in Alive' <=> t \in Alive
        /\ t \in Blocked' <=> t \in Blocked
        /\ t \in Free' <=> t \in Free
        /\ t \in Creating' <=> t \in Creating
        /\ t \in Working' <=> t \in Working
        /\ t \in Obsolete' <=> t \in Obsolete
    BY <1>1 DEF Alive, Blocked, Free, Creating, Working, Obsolete, At
  <2>3. Obsolete \subseteq Threads /\ Obsolete' \subseteq Threads
    BY DEF Obsolete, At
  <2> QED
    BY <2>1, <2>2, <2>3, StaysCounted, SetsOfThreads
<1>3. Types'
  BY <1>1 DEF Types, PoolTypeOK, PoolSteps
<1>4. Counters'
  BY <1>1, <1>2 DEF Counters, bThreadExitFlag
<1>5. \A u \in Threads : ThreadOK(u)'
  BY <1>1, <1>2 DEF ThreadOK, Blocked, At
<1>6. Links' /\ Ranked'
  BY <1>1, <1>2, ListStays
<1>7. SpareWorker'
  BY <1>1 DEF SpareWorker
<1> QED
  BY <1>3, <1>4, <1>5, <1>6, <1>7

\* With a grant the thread is free already; without, it unlinks itself.
LEMMA UnparkKeeps ==
  ASSUME PoolBooks, NEW t \in Threads, Unpark(t)
  PROVE  PoolBooks'
<1> USE DEF PoolBooks, queueSide, queueVars, counters, creation
<1>1. /\ pc \in [Threads -> PoolSteps] /\ bReuse \in [Threads -> BOOLEAN]
      /\ pc[t] = "unpark"
      /\ lpPrev \in [Threads -> Threads \cup {NoThread}]
      /\ lpNext \in [Threads -> Threads \cup {NoThread}]
      /\ UNCHANGED <<queueSide, job, lBlockingCount, hEvent, counters, creation>>
  BY DEF Types, PoolTypeOK, Unpark, Goto
<1>2. CASE bReuse[t]
  <2>1. /\ pc' = [pc EXCEPT ![t] = "wait"] /\ bReuse' = [bReuse EXCEPT ![t] = FALSE]
        /\ t \notin Obsolete
        /\ lpPrev' = [lpPrev EXCEPT ![t] = NoThread]
        /\ UNCHANGED <<lpNext, lpObsoleteThreadPool>>
    BY <1>1, <1>2 DEF Unpark, Goto, Obsolete
  <2>2. lpPrev' = lpPrev
    BY <1>1, <2>1 DEF Links
  <2>3. /\ t \in Alive /\ t \in Alive' /\ t \notin Blocked /\ t \notin Blocked' /\ t \in Free /\ t \in Free'
        /\ t \notin Creating /\ t \notin Creating' /\ t \in Working /\ t \in Working'
        /\ t \notin Obsolete'
    BY <1>1, <1>2, <2>1 DEF Alive, Blocked, Free, Creating, Working, Obsolete, At
  <2>4. \A u \in Threads \ {t} : SameThread(u)
    BY <1>1, <2>1 DEF SameThread
  <2>5. /\ Alive' = Alive /\ Blocked' = Blocked /\ Free' = Free /\ Creating' = Creating
        /\ Working' = Working /\ Obsolete' = Obsolete
    <3>1. Obsolete \subseteq Threads /\ Obsolete' \subseteq Threads
      BY DEF Obsolete, At
    <3> QED
      BY <2>1, <2>3, <2>4, <3>1, StaysCounted, SetsOfThreads
  <2>6. Types'
    BY <1>1, <2>1, <2>2 DEF Types, PoolTypeOK, PoolSteps
  <2>7. Counters'
    BY <1>1, <2>5 DEF Counters, bThreadExitFlag
  <2>8. \A u \in Threads : ThreadOK(u)'
    BY <1>1, <2>1, <2>5 DEF ThreadOK, Blocked, At
  <2>9. Links' /\ Ranked'
    BY <1>1, <2>1, <2>2, <2>5, ListStays DEF obsoleteList
  <2>10. SpareWorker'
    BY <1>1 DEF SpareWorker
  <2> QED
    BY <2>6, <2>7, <2>8, <2>9, <2>10
<1>3. CASE ~ bReuse[t]
  <2>1. /\ pc' = [pc EXCEPT ![t] = "end"] /\ bReuse' = bReuse
        /\ t \in Obsolete
        /\ IF lpPrev[t] # NoThread
           THEN /\ lpNext' = [lpNext EXCEPT ![lpPrev[t]] = lpNext[t]]
                /\ UNCHANGED lpObsoleteThreadPool
           ELSE /\ lpObsoleteThreadPool' = lpNext[t]
                /\ UNCHANGED lpNext
        /\ lpPrev' = IF lpNext[t] = NoThread THEN lpPrev
                     ELSE [lpPrev EXCEPT ![lpNext[t]] = lpPrev[t]]
    BY <1>1, <1>3 DEF Unpark, Goto, Obsolete, At
  <2>2. /\ lpPrev' \in [Threads -> Threads \cup {NoThread}]
        /\ lpNext' \in [Threads -> Threads \cup {NoThread}]
        /\ lpObsoleteThreadPool' \in Threads \cup {NoThread}
    <3>1. lpPrev' \in [Threads -> Threads \cup {NoThread}]
      BY <1>1, <2>1
    <3>2. CASE lpPrev[t] # NoThread
      BY <1>1, <2>1, <3>1, <3>2 DEF Types, PoolTypeOK
    <3>3. CASE lpPrev[t] = NoThread
      BY <1>1, <2>1, <3>1, <3>3 DEF Types, PoolTypeOK
    <3> QED
      BY <3>2, <3>3
  <2>3. /\ t \in Alive /\ t \in Alive' /\ t \notin Blocked /\ t \notin Blocked' /\ t \notin Free
        /\ t \notin Free' /\ t \notin Creating /\ t \notin Creating' /\ t \notin Working
        /\ t \notin Working' /\ t \notin Obsolete'
    BY <1>1, <1>3, <2>1 DEF Alive, Blocked, Free, Creating, Working, Obsolete, At
  <2>4. \A u \in Threads \ {t} : SameThread(u)
    BY <1>1, <2>1 DEF SameThread
  <2>5. /\ Alive' = Alive /\ Blocked' = Blocked /\ Free' = Free /\ Creating' = Creating
        /\ Working' = Working /\ Obsolete' = Obsolete \ {t}
    <3>1. Obsolete \subseteq Threads /\ Obsolete' \subseteq Threads
      BY DEF Obsolete, At
    <3> QED
      BY <2>1, <2>3, <2>4, <3>1, StaysCounted, SetsOfThreads
  <2>6. Types'
    BY <1>1, <2>1, <2>2 DEF Types, PoolTypeOK, PoolSteps
  <2>7. Counters'
    BY <1>1, <2>5 DEF Counters, bThreadExitFlag
  <2>8. \A u \in Threads : ThreadOK(u)'
    BY <1>1, <1>3, <2>1, <2>5 DEF ThreadOK, Blocked, At
  <2>9. Links' /\ Ranked'
    BY <2>1, <2>5, ListUnlinks
  <2>10. SpareWorker'
    BY <1>1 DEF SpareWorker
  <2> QED
    BY <2>6, <2>7, <2>8, <2>9, <2>10
<1> QED
  BY <1>2, <1>3

\* The thread is gone, and its data are zero for the next.
LEMMA EndKeeps ==
  ASSUME PoolBooks, NEW t \in Threads, EndWorkerThread(t)
  PROVE  PoolBooks'
<1> USE DEF PoolBooks, queueSide, queueVars, counters
<1>1. /\ pc \in [Threads -> PoolSteps] /\ bReuse \in [Threads -> BOOLEAN]
      /\ hEvent \in [Threads -> BOOLEAN]
      /\ lpPrev \in [Threads -> Threads \cup {NoThread}]
      /\ lpNext \in [Threads -> Threads \cup {NoThread}]
      /\ pc[t] = "end" /\ ~ bReuse[t] /\ pc' = [pc EXCEPT ![t] = "none"]
      /\ lWorkerThreads \in Nat /\ lFreeWorkerThreads \in Nat /\ phantoms \in Nat
      /\ lBlockingWorkerThreads \in Nat /\ lWorkerThreadCount \in Nat
      /\ lWorkerThreadCount' = lWorkerThreadCount - 1
      /\ hEvent' = [hEvent EXCEPT ![t] = FALSE]
      /\ lpNext' = [lpNext EXCEPT ![t] = NoThread]
      /\ lpPrev' = [lpPrev EXCEPT ![t] = NoThread]
      /\ UNCHANGED <<queueSide, lBlockingCount, bReuse, lpObsoleteThreadPool, counters,
                     phantoms, failed, lInitialWorkerThreads>>
  <2>1. pc[t] = "end"
    BY DEF EndWorkerThread, Goto
  <2>2. ~ bReuse[t]
    BY <2>1 DEF ThreadOK
  <2> QED
    BY <2>1, <2>2 DEF Types, PoolTypeOK, EndWorkerThread, Goto
<1>2. /\ t \in Alive /\ t \notin Blocked /\ t \notin Free /\ t \notin Creating /\ t \notin Working
      /\ t \notin Obsolete
      /\ t \notin Alive' /\ t \notin Blocked' /\ t \notin Free' /\ t \notin Creating'
      /\ t \notin Working' /\ t \notin Obsolete'
  BY <1>1 DEF Alive, Blocked, Free, Creating, Working, Obsolete, At
<1>3. \A u \in Threads \ {t} : SameThread(u)
  BY <1>1 DEF SameThread
<1>4. Grow(-1, 0, 0, 0, 0)
  BY <1>2, <1>3, OneThreadMoves DEF One
<1>5. /\ Counters' /\ lWorkerThreadCount' \in Nat /\ phantoms' \in Nat
      /\ lBlockingWorkerThreads' \in Nat /\ lFreeWorkerThreads' \in Nat /\ lWorkerThreads' \in Nat
  <2>1. bThreadExitFlag => bThreadExitFlag'
    BY <1>1 DEF bThreadExitFlag
  <2> QED
    BY <1>1, <1>4, <2>1, CountersFollow
<1>6. Types'
  BY <1>1, <1>5 DEF Types, PoolTypeOK, PoolSteps, EndWorkerThread
<1>7. \A u \in Threads : ThreadOK(u)'
  BY <1>1, <1>2 DEF ThreadOK, Blocked, At
<1>8. Obsolete' = Obsolete
  BY <1>2, <1>3, StaysCounted DEF Obsolete, At
<1>9. Links' /\ Ranked'
  BY <1>1, <1>2, <1>8, ListForgets
<1>10. SpareWorker'
  BY <1>1 DEF SpareWorker
<1> QED
  BY <1>5, <1>6, <1>7, <1>9, <1>10

\* What happens to the queue and to the exit flag does not concern the books.
LEMMA IdleKeeps ==
  ASSUME PoolBooks, UNCHANGED <<pc, poolVars>>, lpJobQueue' \in [Priorities -> Seq(Jobs)],
         bThreadExitFlag => bThreadExitFlag'
  PROVE  PoolBooks'
<1> USE DEF PoolBooks, poolVars, threadData, obsoleteList, counters, creation
<1>1. /\ Alive' = Alive /\ Blocked' = Blocked /\ Free' = Free /\ Creating' = Creating
      /\ Working' = Working /\ Obsolete' = Obsolete
  BY DEF Alive, Blocked, Free, Creating, Working, Obsolete, At
<1>2. Types'
  BY DEF Types, PoolTypeOK
<1>3. Counters'
  BY <1>1 DEF Counters
<1>4. \A u \in Threads : ThreadOK(u)'
  BY <1>1 DEF ThreadOK
<1>5. Links' /\ Ranked'
  BY <1>1, ListStays
<1>6. SpareWorker'
  BY DEF SpareWorker
<1> QED
  BY <1>2, <1>3, <1>4, <1>5, <1>6

-------------------------------------------------------------------------------
(* The theorem.                                                            *)

\* A pool of free workers is in order.
LEMMA InitBooks == PoolInit => PoolBooks
<1> SUFFICES ASSUME PoolInit PROVE PoolBooks
  OBVIOUS
<1>1. PICK first \in SUBSET Threads :
        /\ Cardinality(first) = lInitialWorkerThreads
        /\ pc = [t \in Threads |-> IF t \in first THEN "wait" ELSE "none"]
  BY DEF PoolInit
<1>2. /\ Alive = first /\ Blocked = {} /\ Free = first /\ Creating = {} /\ Working = first
      /\ Obsolete = {}
  BY <1>1 DEF PoolInit, Alive, Blocked, Free, Creating, Working, Obsolete, At
<1>3. lInitialWorkerThreads \in Nat \ {0} /\ Cardinality({}) = 0
  BY QueueAssumption, PoolAssumption, FS_CardinalityType, FS_EmptySet DEF PoolInit
<1>4. Types
  <2>1. lpJobQueue \in [Priorities -> Seq(Jobs)]
    BY DEF PoolInit, QueueInit
  <2>2. pc \in [Threads -> PoolSteps]
    BY <1>1 DEF PoolSteps
  <2>3. lInitialWorkerThreads \in InitialSizes /\ 0 \in 0 .. MAX_NESTING
    BY PoolAssumption DEF PoolInit
  <2> QED
    BY <1>3, <2>1, <2>2, <2>3 DEF PoolInit, Types, PoolTypeOK
<1>5. Counters
  BY <1>1, <1>2, <1>3 DEF PoolInit, Counters
<1>6. \A t \in Threads : ThreadOK(t)
  BY <1>1, <1>2 DEF PoolInit, ThreadOK
<1>7. Links
  BY <1>2 DEF PoolInit, Links
<1>8. Ranked
  <2>1. [t \in Threads |-> 0] \in [Threads -> Nat] /\ Ascends([t \in Threads |-> 0])
    BY <1>2 DEF Ascends
  <2> QED
    BY <2>1 DEF Ranked
<1>9. SpareWorker
  BY <1>3 DEF PoolInit, SpareWorker
<1> QED
  BY <1>4, <1>5, <1>6, <1>7, <1>8, <1>9 DEF PoolBooks

\* Every step of every thread keeps the books.
LEMMA RunKeeps == ASSUME PoolBooks, NEW t \in Threads, Run(t) PROVE PoolBooks'
<1>1. pc \in [Threads -> PoolSteps] /\ lpJobQueue \in [Priorities -> Seq(Jobs)]
      /\ job \in [Threads -> Jobs \cup {NoJob}]
      /\ lWorkerThreads \in Nat /\ lFreeWorkerThreads \in Nat /\ lBlockingWorkerThreads \in Nat
  BY DEF PoolBooks, Types, PoolTypeOK
<1>2. CASE WaitJobAlert(t) /\ UNCHANGED poolVars
  BY <1>1, <1>2, QueueStepKeeps
  DEF WaitJobAlert, Goto, queueVars, poolVars, threadData
<1>3. CASE CheckExitFlag(t)
  <2>1. PICK to \in {"pop", "end"} :
          /\ pc[t] = "check" /\ pc' = [pc EXCEPT ![t] = to]
          /\ to = "end" => bThreadExitFlag
          /\ UNCHANGED <<queueSide, poolVars>>
    BY <1>3 DEF CheckExitFlag, Goto
  <2> QED
    BY <1>1, <2>1, QueueStepKeeps DEF queueSide, queueVars, poolVars, threadData
<1>4. CASE TakeJob(t)
  <2>1. NextJob \in Jobs /\ lpJobQueue' \in [Priorities -> Seq(Jobs)]
    BY <1>1, <1>4, NextJobIsJob DEF TakeJob
  <2>2. job' \in [Threads -> Jobs \cup {NoJob}]
    BY <1>1, <1>4, <2>1 DEF TakeJob
  <2> QED
    BY <1>1, <1>4, <2>1, <2>2, QueueStepKeeps DEF TakeJob, Goto
<1>5. CASE CountThread(t)
  <2>1. PICK f \in Int : f = -1
    OBVIOUS
  <2>2. /\ lFreeWorkerThreads - 1 = lFreeWorkerThreads + f
        /\ lBlockingWorkerThreads = lBlockingWorkerThreads + 0
    BY <1>1, <2>1
  <2>3. /\ Provide(t, "count", "create", "run", lFreeWorkerThreads + f, lBlockingWorkerThreads + 0)
        /\ lBlockingWorkerThreads' = lBlockingWorkerThreads + 0
        /\ UNCHANGED lBlockingCount
        /\ UNCHANGED <<lpJobQueue, shutdown, job, creation>>
    BY <1>5, <2>2 DEF CountThread, queueSide, queueVars
  <2>4. 0 # 1
    OBVIOUS
  <2> QED
    BY ONLY PoolBooks, <2>1, <2>3, <2>4, ProvideKeeps, Zenon
<1>6. CASE CreateThread(t)
  <2>1. /\ CreateWorkerThread(t, "create", "run")
        /\ UNCHANGED <<queueSide, threadData, obsoleteList>>
    BY <1>6 DEF CreateThread
  <2> QED
    BY ONLY PoolBooks, <2>1, CreateKeeps, Zenon
<1>7. CASE CreateThreadBlocked(t)
  <2>1. /\ CreateWorkerThread(t, "createBlocked", "blocked")
        /\ UNCHANGED <<queueSide, threadData, obsoleteList>>
    BY <1>7 DEF CreateThreadBlocked
  <2> QED
    BY ONLY PoolBooks, <2>1, CreateKeeps, Zenon
<1>8. CASE pc[t] = "run" /\ SetBlockingThreadFlag(t)
  <2>1. /\ Provide(t, "run", "createBlocked", "blocked", lFreeWorkerThreads + 0, lBlockingWorkerThreads + 1)
        /\ lBlockingWorkerThreads' = lBlockingWorkerThreads + 1
        /\ lBlockingCount[t] < MAX_NESTING
        /\ lBlockingCount' = [lBlockingCount EXCEPT ![t] = @ + 1]
        /\ UNCHANGED <<lpJobQueue, shutdown, job, creation>>
    <3>1. lFreeWorkerThreads = lFreeWorkerThreads + 0
      BY <1>1
    <3> QED
      BY <1>8, <3>1 DEF SetBlockingThreadFlag, queueSide, queueVars
  <2>2. 1 # 0
    OBVIOUS
  <2> QED
    BY ONLY PoolBooks, <2>1, <2>2, ProvideKeeps, Zenon
<1>9. CASE SetNonBlockingThreadFlag(t)
  BY <1>9, UnblockKeeps
<1>10. CASE FreeThread(t)
  BY <1>10, FreeKeeps
<1>11. CASE ParkThread(t)
  BY <1>11, ParkKeeps
<1>12. CASE WakeUp(t) \/ GraceExpires(t)
  BY <1>12, WakeKeeps
<1>13. CASE Unpark(t)
  BY <1>13, UnparkKeeps
<1>14. CASE EndWorkerThread(t)
  BY <1>14, EndKeeps
<1> QED
  BY <1>2, <1>3, <1>4, <1>5, <1>6, <1>7, <1>8, <1>9, <1>10, <1>11, <1>12, <1>13, <1>14 DEF Run

\* The inductive step.
LEMMA NextBooks == PoolBooks /\ [PoolNext]_allVars => PoolBooks'
<1> SUFFICES ASSUME PoolBooks, [PoolNext]_allVars PROVE PoolBooks'
  OBVIOUS
<1>1. lpJobQueue \in [Priorities -> Seq(Jobs)]
  BY DEF PoolBooks, Types
<1>2. CASE UNCHANGED allVars
  BY <1>1, <1>2, IdleKeeps DEF allVars, vars, queueVars, bThreadExitFlag
<1>3. ASSUME NEW c \in Callers, Queueing(c) PROVE PoolBooks'
  <2>1. lpJobQueue' \in [Priorities -> Seq(Jobs)]
    <3>1. ASSUME NEW j \in Jobs, AppendJob(c, j) PROVE lpJobQueue' \in [Priorities -> Seq(Jobs)]
      BY <1>1, <3>1, QueueAssumption DEF AppendJob
    <3> QED
      BY <1>1, <1>3, <3>1 DEF Queueing, ReleaseAlert, queueVars
  <2> QED
    BY <1>3, <2>1, IdleKeeps DEF Queueing, ReleaseAlert, AppendJob, bThreadExitFlag
<1>4. ASSUME NEW t \in Threads, SetBlockingThreadFlag(t) PROVE PoolBooks'
  <2>1. CASE pc[t] = "run"
    BY <1>4, <2>1, RunKeeps DEF Run
  <2>2. CASE pc[t] = "blocked"
    BY <1>4, <2>2, NestKeeps DEF SetBlockingThreadFlag, Provide, Goto
  <2> QED
    BY <1>4, <2>1, <2>2 DEF SetBlockingThreadFlag
<1>5. CASE ThreadDeInit
  BY <1>1, <1>5, IdleKeeps
  DEF ThreadDeInit, SetExitFlag, ReleaseExitAlerts, CloseHandles, queueVars, bThreadExitFlag
<1> QED
  BY <1>2, <1>3, <1>4, <1>5, RunKeeps DEF PoolNext

\* The books say what PoolInv says.
LEMMA BooksAgree == PoolBooks => PoolInv
<1> SUFFICES ASSUME PoolBooks PROVE PoolInv
  OBVIOUS
<1>1. CountersAgree
  BY DEF PoolBooks, Counters, CountersAgree, Alive, Blocked, Working
<1>2. ObsoleteListOK
  BY ListIsOK DEF PoolBooks
<1>3. WokenForReuse
  BY DEF PoolBooks, ThreadOK, WokenForReuse, At
<1> QED
  BY <1>1, <1>2, <1>3 DEF PoolInv, PoolBooks, Types

\* The counters of the pool, the list of parked threads and their events agree with
\* what the threads do, and a worker is spare unless enough jobs run that end by
\* themselves: for pools of any size, any jobs and any failures of CreateThread.
THEOREM PoolKeepsBooks == PoolSpec => []PoolInv
<1>1. PoolSpec => []PoolBooks
  BY InitBooks, NextBooks, PTL DEF PoolSpec
<1> QED
  BY <1>1, BooksAgree, PTL

-------------------------------------------------------------------------------
(* The pool serves the queue of JobQueue.  MAX_COUNTED bounds what         *)
(* JobQueue lets Thread_DeInit count; where a pool stays within it, each   *)
(* of its steps is one of the queue's, or none.                            *)

\* How JobQueue sees a worker's steps, and Thread_DeInit's.
QueueStep(t) == IF pc[t] \in {"wait", "check", "pop"} THEN pc[t] ELSE "away"
QueuePc == [t \in Threads |-> QueueStep(t)]
QueueShutdown == IF shutdown = "closed" THEN "alerted" ELSE shutdown

\* What one thread does moves that thread of the queue.
LEMMA QueueGoto ==
  ASSUME pc \in [Threads -> PoolSteps], NEW t \in Threads, NEW to,
         pc' = [pc EXCEPT ![t] = to]
  PROVE  QueuePc' = [QueuePc EXCEPT ![t] = IF to \in {"wait", "check", "pop"} THEN to ELSE "away"]
BY DEF QueuePc, QueueStep

\* Away from the queue a thread may do what it likes.
LEMMA QueueAway ==
  ASSUME pc \in [Threads -> PoolSteps], NEW t \in Threads, NEW to,
         pc' = [pc EXCEPT ![t] = to],
         pc[t] \notin {"wait", "check", "pop"}, to \notin {"wait", "check", "pop"}
  PROVE  QueuePc' = QueuePc
BY DEF QueuePc, QueueStep

\* The queue sees nothing of a step that leaves its side alone.
LEMMA QueueSleeps ==
  ASSUME UNCHANGED queueSide, QueuePc' = QueuePc
  PROVE  UNCHANGED QueueOfPool!vars
BY DEF QueueOfPool!vars, QueueOfPool!queueVars, queueSide, queueVars, QueuePc, QueueStep

\* A thread that comes to wait at the queue returns to it.
LEMMA QueueReturns ==
  ASSUME pc \in [Threads -> PoolSteps], NEW t \in Threads, UNCHANGED queueSide,
         pc[t] \notin {"wait", "check", "pop"},
         QueuePc' = [QueuePc EXCEPT ![t] = "wait"]
  PROVE  QueueOfPool!Next
<1>1. QueuePc[t] = "away"
  BY DEF QueuePc, QueueStep
<1>2. QueueOfPool!Return(t)
  BY <1>1 DEF QueueOfPool!Return, QueueOfPool!Goto, QueueOfPool!queueVars, queueSide, queueVars,
              QueuePc, QueueStep
<1> QED
  BY <1>2 DEF QueueOfPool!Next, QueueOfPool!Worker

\* A worker's step is a step of the queue's worker, or none.
LEMMA RunServes ==
  ASSUME PoolBooks, NEW t \in Threads, Run(t)
  PROVE  [QueueOfPool!Next]_(QueueOfPool!vars)
<1>1. pc \in [Threads -> PoolSteps]
  BY DEF PoolBooks, Types, PoolTypeOK
<1> USE DEF Goto
<1>2. CASE WaitJobAlert(t)
  <2>1. QueueOfPool!WaitJobAlert(t)
    BY <1>1, <1>2 DEF WaitJobAlert, QueueOfPool!WaitJobAlert, QueueOfPool!Goto,
                      QueueOfPool!queueVars, queueVars
  <2> QED
    BY <2>1 DEF QueueOfPool!Next, QueueOfPool!Worker
<1>3. CASE CheckExitFlag(t)
  <2>1. QueueOfPool!CheckExit(t)
    BY <1>1, <1>3 DEF CheckExitFlag, QueueOfPool!CheckExit, QueueOfPool!Goto, bThreadExitFlag,
                      QueueOfPool!bThreadExitFlag, QueueOfPool!queueVars, queueSide, queueVars
  <2> QED
    BY <2>1 DEF QueueOfPool!Next, QueueOfPool!Worker
<1>4. CASE TakeJob(t)
  <2>1. QueueOfPool!PopJob(t)
    BY <1>1, <1>4 DEF TakeJob, QueueOfPool!PopJob, QueueOfPool!Goto, TakeNextJob,
         QueueOfPool!TakeNextJob, Ready, QueueOfPool!Ready, NextPriority, QueueOfPool!NextPriority,
         CountsNormal, QueueOfPool!CountsNormal, CountsLow, QueueOfPool!CountsLow,
         NormalsTurn, QueueOfPool!NormalsTurn, LowsTurn, QueueOfPool!LowsTurn,
         Priorities, QueueOfPool!Priorities, JOB_PRIORITY_HIGH, QueueOfPool!JOB_PRIORITY_HIGH,
         JOB_PRIORITY_NORMAL, QueueOfPool!JOB_PRIORITY_NORMAL,
         JOB_PRIORITY_LOW, QueueOfPool!JOB_PRIORITY_LOW
  <2> QED
    BY <2>1 DEF QueueOfPool!Next, QueueOfPool!Worker
<1>5. CASE CountThread(t) \/ (pc[t] = "run" /\ SetBlockingThreadFlag(t))
  <2>1. UNCHANGED queueSide /\ QueuePc' = QueuePc
    BY <1>1, <1>5, QueueAway DEF CountThread, SetBlockingThreadFlag, Provide
  <2> QED
    BY <2>1, QueueSleeps
<1>6. CASE CreateThread(t) \/ CreateThreadBlocked(t)
  <2>1. UNCHANGED queueSide
    BY <1>6 DEF CreateThread, CreateThreadBlocked
  <2>2. CASE \E n \in Threads : \E to \in {"run", "blocked"} :
               /\ pc[t] \in {"create", "createBlocked"} /\ pc[n] = "none"
               /\ pc' = [pc EXCEPT ![t] = to, ![n] = "wait"]
    <3>1. PICK n \in Threads, to \in {"run", "blocked"} :
               /\ pc[t] \in {"create", "createBlocked"} /\ pc[n] = "none"
               /\ pc' = [pc EXCEPT ![t] = to, ![n] = "wait"]
      BY <2>2
    <3>2. QueuePc' = [QueuePc EXCEPT ![n] = "wait"]
      BY <1>1, <3>1 DEF QueuePc, QueueStep
    <3> QED
      BY <1>1, <2>1, <3>1, <3>2, QueueReturns
  <2>3. CASE \E to \in {"run", "blocked"} :
               pc[t] \in {"create", "createBlocked"} /\ pc' = [pc EXCEPT ![t] = to]
    <3>1. QueuePc' = QueuePc
      BY <1>1, <2>3, QueueAway
    <3> QED
      BY <2>1, <3>1, QueueSleeps
  <2> QED
    BY <1>6, <2>2, <2>3 DEF CreateThread, CreateThreadBlocked, CreateWorkerThread
<1>7. CASE FreeThread(t) \/ (Unpark(t) /\ bReuse[t])
  <2>1. /\ UNCHANGED queueSide /\ pc' = [pc EXCEPT ![t] = "wait"]
        /\ pc[t] \notin {"wait", "check", "pop"}
    BY <1>7 DEF FreeThread, JobReturns, Unpark
  <2> QED
    BY <1>1, <2>1, QueueGoto, QueueReturns
<1>8. CASE \/ SetNonBlockingThreadFlag(t) \/ ParkThread(t) \/ WakeUp(t) \/ GraceExpires(t)
           \/ (Unpark(t) /\ ~ bReuse[t]) \/ EndWorkerThread(t)
  <2>1. UNCHANGED queueSide
    BY <1>8 DEF SetNonBlockingThreadFlag, ParkThread, WakeUp, GraceExpires, Unpark, EndWorkerThread
  <2>2. PICK to \in {"return", "unblocking", "parked", "unpark", "end", "none"} :
          pc' = [pc EXCEPT ![t] = to] /\ pc[t] \notin {"wait", "check", "pop"}
    BY <1>8 DEF SetNonBlockingThreadFlag, ParkThread, JobReturns, WakeUp, GraceExpires, Unpark,
                EndWorkerThread
  <2> QED
    BY <1>1, <2>1, <2>2, QueueAway, QueueSleeps
<1> QED
  BY <1>2, <1>3, <1>4, <1>5, <1>6, <1>7, <1>8 DEF Run

\* Every step of the pool is a step of the queue, or none.
LEMMA NextServes ==
  ASSUME PoolBooks, [PoolNext]_allVars, lWorkerThreadCount <= MAX_COUNTED
  PROVE  [QueueOfPool!Next]_(QueueOfPool!vars)
<1>1. pc \in [Threads -> PoolSteps] /\ lWorkerThreadCount \in Nat
  BY DEF PoolBooks, Types, PoolTypeOK
<1>2. CASE UNCHANGED allVars
  BY <1>2, QueueSleeps DEF allVars, vars, queueSide, QueuePc, QueueStep
<1>3. ASSUME NEW c \in Callers, Queueing(c) PROVE QueueOfPool!Next
  <2>1. QueueOfPool!Queued = Queued
    BY DEF Queued, QueueOfPool!Queued, Range, QueueOfPool!Range, Priorities,
           QueueOfPool!Priorities, JOB_PRIORITY_HIGH, QueueOfPool!JOB_PRIORITY_HIGH,
           JOB_PRIORITY_NORMAL, QueueOfPool!JOB_PRIORITY_NORMAL,
           JOB_PRIORITY_LOW, QueueOfPool!JOB_PRIORITY_LOW
  <2>2. CASE ReleaseAlert(c)
    BY <2>2 DEF ReleaseAlert, QueueOfPool!ReleaseAlert, queueVars, QueueOfPool!queueVars,
                QueueOfPool!Next
  <2>3. ASSUME NEW j \in Jobs, AppendJob(c, j) PROVE QueueOfPool!AppendJob(c, j)
    BY <2>1, <2>3 DEF AppendJob, QueueOfPool!AppendJob
  <2> QED
    BY <1>3, <2>2, <2>3 DEF Queueing, QueueOfPool!Next
<1>4. ASSUME NEW t \in Threads, SetBlockingThreadFlag(t)
      PROVE  [QueueOfPool!Next]_(QueueOfPool!vars)
  <2>1. UNCHANGED queueSide /\ QueuePc' = QueuePc
    BY <1>1, <1>4, QueueAway DEF SetBlockingThreadFlag, Provide, Goto, QueuePc, QueueStep
  <2> QED
    BY <2>1, QueueSleeps
<1>5. CASE ThreadDeInit
  <2>1. CASE SetExitFlag
    BY <2>1 DEF SetExitFlag, QueueOfPool!Next, QueueOfPool!DeInit, QueueOfPool!SetExitFlag,
                queueVars, QueueOfPool!queueVars
  <2>2. CASE ReleaseExitAlerts(lWorkerThreadCount)
    <3>1. lWorkerThreadCount \in 0 .. MAX_COUNTED
      BY <1>1, QueueAssumption
    <3>2. QueueOfPool!ReleaseExitAlerts(lWorkerThreadCount)
      BY <2>2 DEF ReleaseExitAlerts, QueueOfPool!ReleaseExitAlerts, queueVars, QueueOfPool!queueVars
    <3> QED
      BY <3>1, <3>2 DEF QueueOfPool!Next, QueueOfPool!DeInit
  <2>3. CASE CloseHandles
    BY <2>3 DEF CloseHandles, QueueOfPool!vars, QueueOfPool!queueVars, queueVars
  <2> QED
    BY <1>5, <2>1, <2>2, <2>3 DEF ThreadDeInit
<1> QED
  BY <1>2, <1>3, <1>4, <1>5, RunServes DEF PoolNext

\* The workers of the pool are workers of the queue, whatever else they do for each
\* other: a pool that counts no more workers than JobQueue allows implements it.
THEOREM PoolServesQueue ==
  PoolSpec /\ [](lWorkerThreadCount <= MAX_COUNTED) => ServesJobQueue
<1>1. PoolInit => QueueOfPool!Init
  BY DEF PoolInit, QueueInit, QueueOfPool!Init, QueueOfPool!QueueInit, Priorities,
         QueueOfPool!Priorities, JOB_PRIORITY_HIGH, QueueOfPool!JOB_PRIORITY_HIGH,
         JOB_PRIORITY_NORMAL, QueueOfPool!JOB_PRIORITY_NORMAL,
         JOB_PRIORITY_LOW, QueueOfPool!JOB_PRIORITY_LOW
<1>2. PoolBooks /\ [PoolNext]_allVars /\ lWorkerThreadCount <= MAX_COUNTED
        => [QueueOfPool!Next]_(QueueOfPool!vars)
  BY NextServes
<1>3. PoolSpec => []PoolBooks
  BY InitBooks, NextBooks, PTL DEF PoolSpec
<1> QED
  BY <1>1, <1>2, <1>3, PTL DEF PoolSpec, ServesJobQueue, QueueOfPool!Spec
===============================================================================
