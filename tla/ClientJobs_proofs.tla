------------------------- MODULE ClientJobs_proofs -------------------------
(***************************************************************************)
(* ClientJobs for any threads and jobs: the table of a client, the procs   *)
(* under way and the close of the client agree (JobsInv).  Of the two      *)
(* sequences only the kinds of jobs in them matter, because an id is in    *)
(* the table at most once; the argument is carried on with these sets.     *)
(* The right to run a job's proc is handed on like a token: from the       *)
(* thread that started the job to the queue, to the worker that takes it,  *)
(* and, if the job was extended, to the next of its kind.                  *)
(***************************************************************************)
EXTENDS ClientJobs, FiniteSetTheorems, SequenceTheorems, TLAPS

-------------------------------------------------------------------------------
(* The inductive invariant.                                                *)

KindsOf(s) == {s[i].kind : i \in DOMAIN s}

\* The jobs AddExclusiveClientJob adds; they alone extend each other.
Extends(k) == k.instant /\ k.proc

OneKindOnly(e) ==
  \A n \in DOMAIN e.extended : e.extended[n].kind = e.kind /\ Extends(e.kind)

\* No two entries of s have one id; those that extend an entry are of its kind.
Distinct(s) ==
  /\ \A i, j \in DOMAIN s : s[i].kind.id = s[j].kind.id => i = j
  /\ \A i \in DOMAIN s : OneKindOnly(s[i])

Entries ==
  /\ active \in Seq(Entry) /\ pending \in Seq(Entry)
  /\ Distinct(active) /\ Distinct(pending)
  /\ \A k \in KindsOf(active), l \in KindsOf(pending) : k.id # l.id

\* Whoever adds a job that is not extended keeps its id to himself.
CallsOK ==
  /\ call \in [Threads -> {None} \cup [id : {"add", "addExclusive", "blocked"}, kind : JobKinds]]
  /\ job \in [Threads -> {None} \cup JobKinds]
  /\ \A t \in Threads : call[t] # None =>
       /\ job[t] # None
       /\ call[t].id = "add" <=> ~ Extends(call[t].kind)
       /\ call[t].id = "add" =>
            /\ \A k \in KindsOf(active) \cup KindsOf(pending) : k.id # call[t].kind.id
            /\ \A u \in Threads \ {t} : call[u].id = "add" => call[u].kind.id # call[t].kind.id

TableOK ==
  /\ filter \in {{}, ALL}
  /\ activeFlags = UNION {k.classes : k \in KindsOf(active)}
  /\ \A k, l \in KindsOf(active) :
       (k # l /\ k.classes \cap l.classes # {}) => (k.instant \/ l.instant)
  /\ \A k \in KindsOf(pending) :
       ~ k.instant /\ k.classes \cap activeFlags # {} /\ (filter = ALL => k.exclusive)

\* Where the right to run the proc of k can be.
InTodo(k, t) == k \in ToSet(todo[t])
InJob(k, t)  == job[t] = k

Nowhere(k) == k \notin queued /\ \A t \in Threads : ~ InTodo(k, t) /\ ~ InJob(k, t)

Somewhere(k) ==
  \/ k \in queued /\ \A t \in Threads : ~ InTodo(k, t) /\ ~ InJob(k, t)
  \/ \E t \in Threads : /\ k \notin queued /\ InTodo(k, t) /\ ~ InJob(k, t)
                        /\ \A u \in Threads \ {t} : ~ InTodo(k, u) /\ ~ InJob(k, u)
  \/ \E t \in Threads : /\ k \notin queued /\ ~ InTodo(k, t) /\ InJob(k, t)
                        /\ \A u \in Threads \ {t} : ~ InTodo(k, u) /\ ~ InJob(k, u)

Procs ==
  /\ todo \in [Threads -> Seq({k \in JobKinds : k.proc} \cup {Close})]
  /\ \A t \in Threads : \A i, j \in DOMAIN todo[t] : todo[t][i] = todo[t][j] => i = j
  /\ queued \subseteq {k \in JobKinds : k.proc}
  /\ \A k \in JobKinds : k.proc => IF k \in KindsOf(active) THEN Somewhere(k) ELSE Nowhere(k)
  /\ \A t \in Threads : job[t] # None =>
       /\ job[t] \in KindsOf(active)
       /\ \A u \in Threads \ {t} : job[u] # job[t]

ToClose(t) == Close \in ToSet(todo[t])

Closes ==
  /\ closes \in {0, 1}
  /\ \A t \in Threads : ToClose(t) => closes = 0 /\ \A u \in Threads \ {t} : ~ ToClose(u)
  /\ (closes = 1 \/ \E t \in Threads : ToClose(t)) <=> KindsOf(active) = {}

IInv == Entries /\ CallsOK /\ TableOK /\ Procs /\ Closes

-------------------------------------------------------------------------------
(* Sequences of jobs.                                                      *)

(* Sub(s, I) has the elements of s at the places in I, each once: the rank *)
(* of a place among those in I numbers them from 1.                        *)
LEMMA SubIsSelection ==
  ASSUME NEW S, NEW s \in Seq(S), NEW I \in SUBSET DOMAIN s
  PROVE  \E f \in [1..Len(Sub(s, I)) -> I] :
           /\ Sub(s, I) \in Seq(S) /\ Len(Sub(s, I)) = Cardinality(I)
           /\ \A n \in 1..Len(Sub(s, I)) : Sub(s, I)[n] = s[f[n]]
           /\ \A m, n \in 1..Len(Sub(s, I)) : f[m] = f[n] => m = n
           /\ \A i \in I : \E n \in 1..Len(Sub(s, I)) : f[n] = i
  <1> DEFINE upTo(i) == {j \in I : j <= i}
             rank == [i \in I |-> Cardinality(upTo(i))]
             N == Cardinality(I)
             g == [n \in 1..N |-> CHOOSE i \in I : Cardinality({j \in I : j <= i}) = n]
  <1>1. I \subseteq Nat /\ IsFiniteSet(I) /\ N \in Nat
    <2>1. DOMAIN s = 1..Len(s) /\ Len(s) \in Nat
      OBVIOUS
    <2>2. IsFiniteSet(1..Len(s))
      BY <2>1, FS_Interval
    <2>3. IsFiniteSet(I)
      BY <2>1, <2>2, FS_Subset
    <2> QED
      BY <2>1, <2>3, FS_CardinalityType
  <1>2. \A i \in I : /\ IsFiniteSet(upTo(i)) /\ i \in upTo(i)
                     /\ rank[i] \in 1..N
    <2> TAKE i \in I
    <2>1. upTo(i) \in SUBSET I /\ i \in upTo(i)
      BY <1>1
    <2>2. IsFiniteSet(upTo(i)) /\ Cardinality(upTo(i)) <= N
      BY <1>1, <2>1, FS_Subset
    <2>3. Cardinality(upTo(i)) \in Nat /\ Cardinality(upTo(i)) # 0
      BY <2>1, <2>2, FS_CardinalityType, FS_EmptySet
    <2> QED
      BY <1>1, <2>1, <2>2, <2>3
  <1>3. \A i, j \in I : i < j => rank[i] < rank[j]
    <2> SUFFICES ASSUME NEW i \in I, NEW j \in I, i < j
                 PROVE  rank[i] < rank[j]
      OBVIOUS
    <2>1. upTo(i) \in SUBSET upTo(j) /\ j \notin upTo(i) /\ j \in upTo(j)
      BY <1>1
    <2>2. /\ Cardinality(upTo(i)) <= Cardinality(upTo(j))
          /\ Cardinality(upTo(i)) # Cardinality(upTo(j))
      BY <1>2, <2>1, FS_Subset
    <2>3. Cardinality(upTo(i)) \in Nat /\ Cardinality(upTo(j)) \in Nat
      BY <1>2, FS_CardinalityType
    <2> HIDE DEF upTo
    <2> QED
      BY <2>2, <2>3
  <1>4. rank \in Injection(I, 1..N)
    <2>2. rank \in [I -> 1..N]
      BY <1>2
    <2> HIDE DEF rank, N, upTo
    <2>1. \A i \in I : rank[i] \in Nat
      BY <1>1, <1>2
    <2>3. \A i, j \in I : rank[i] = rank[j] => i = j
      <3> SUFFICES ASSUME NEW i \in I, NEW j \in I, rank[i] = rank[j], i # j
                   PROVE  FALSE
        OBVIOUS
      <3>1. (i < j \/ j < i) /\ i \in Nat /\ j \in Nat
        BY <1>1
      <3> QED
        BY <1>3, <2>1, <3>1
    <2> QED
      BY <2>2, <2>3 DEF Injection, IsInjective
  <1>5. rank \in Surjection(I, 1..N)
    <2>1. IsFiniteSet(1..N) /\ Cardinality(1..N) = N
      BY <1>1, FS_Interval
    <2> HIDE DEF rank
    <2> QED
      BY <1>4, <2>1, FS_Injection
  <1>6. \A n \in 1..N : g[n] \in I /\ rank[g[n]] = n
    <2> TAKE n \in 1..N
    <2>1. \E i \in I : rank[i] = n
      BY <1>5 DEF Surjection
    <2>2. \E i \in I : Cardinality({j \in I : j <= i}) = n
      BY <2>1
    <2> QED
      BY <2>2
  <1>7. \A i \in I : \E n \in 1..N : g[n] = i
    <2> TAKE i \in I
    <2>1. rank[i] \in 1..N
      BY <1>2
    <2>2. g[rank[i]] \in I /\ rank[g[rank[i]]] = rank[i]
      BY <1>6, <2>1
    <2>3. g[rank[i]] = i
      BY <1>4, <2>2 DEF Injection, IsInjective
    <2> QED
      BY <2>1, <2>3
  <1>8. Sub(s, I) = [n \in 1..N |-> s[g[n]]]
    BY DEF Sub
  <1>9. /\ Sub(s, I) \in Seq(S) /\ Len(Sub(s, I)) = N
        /\ \A n \in 1..N : Sub(s, I)[n] = s[g[n]]
    <2> HIDE DEF g
    <2>1. \A n \in 1..N : s[g[n]] \in S
      <3>1. \A i \in DOMAIN s : s[i] \in S
        OBVIOUS
      <3> QED
        BY <1>6, <3>1
    <2> HIDE DEF N
    <2> QED
      BY <1>1, <1>8, <2>1
  <1>10. g \in [1..N -> I]
    BY <1>6
  <1>11. \A m, n \in 1..N : g[m] = g[n] => m = n
    BY <1>6
  <1> HIDE DEF g, N, rank
  <1>12. /\ g \in [1..Len(Sub(s, I)) -> I]
         /\ Sub(s, I) \in Seq(S) /\ Len(Sub(s, I)) = N
         /\ \A n \in 1..Len(Sub(s, I)) : Sub(s, I)[n] = s[g[n]]
         /\ \A m, n \in 1..Len(Sub(s, I)) : g[m] = g[n] => m = n
         /\ \A i \in I : \E n \in 1..Len(Sub(s, I)) : g[n] = i
    BY <1>7, <1>9, <1>10, <1>11
  <1> QED
    BY <1>12 DEF N

(* The jobs selected from s, in their order.                               *)
LEMMA SubKinds ==
  ASSUME NEW s \in Seq(Entry), Distinct(s), NEW I \in SUBSET DOMAIN s
  PROVE  /\ Sub(s, I) \in Seq(Entry) /\ Distinct(Sub(s, I))
         /\ KindsOf(Sub(s, I)) = {s[i].kind : i \in I}
  <1> DEFINE r == Sub(s, I)
  <1>1. PICK f \in [1..Len(r) -> I] :
          /\ r \in Seq(Entry) /\ \A n \in 1..Len(r) : r[n] = s[f[n]]
          /\ \A m, n \in 1..Len(r) : f[m] = f[n] => m = n
          /\ \A i \in I : \E n \in 1..Len(r) : f[n] = i
    BY SubIsSelection
  <1> HIDE DEF r
  <1>2. DOMAIN r = 1..Len(r) /\ \A n \in DOMAIN r : r[n] = s[f[n]] /\ f[n] \in DOMAIN s /\ f[n] \in I
    BY <1>1
  <1>3. Distinct(r)
    BY <1>1, <1>2 DEF Distinct
  <1>4. KindsOf(r) = {s[i].kind : i \in I}
    <2>1. \A n \in DOMAIN r : r[n].kind \in {s[i].kind : i \in I}
      BY <1>2
    <2>2. \A i \in I : \E n \in DOMAIN r : r[n].kind = s[i].kind
      BY <1>1, <1>2
    <2> QED
      BY <2>1, <2>2 DEF KindsOf
  <1> QED
    BY <1>1, <1>3, <1>4 DEF r

(* The jobs of s, the last first.                                          *)
LEMMA ReverseKinds ==
  ASSUME NEW s \in Seq(Entry), Distinct(s)
  PROVE  /\ Reverse(s) \in Seq(Entry) /\ Distinct(Reverse(s))
         /\ KindsOf(Reverse(s)) = KindsOf(s)
  <1> DEFINE r == Reverse(s)
             m(n) == Len(s) - n + 1
  <1>1. /\ Len(s) \in Nat /\ DOMAIN s = 1..Len(s) /\ DOMAIN r = 1..Len(s)
        /\ \A n \in 1..Len(s) : r[n] = s[m(n)] /\ m(n) \in 1..Len(s) /\ m(m(n)) = n
    BY DEF Reverse
  <1>2. \A n \in 1..Len(s) : r[n] \in Entry
    BY <1>1
  <1>3. r \in Seq(Entry)
    BY <1>1, <1>2 DEF Reverse
  <1>4. KindsOf(r) = KindsOf(s)
    <2>1. \A n \in 1..Len(s) : r[n].kind = s[m(n)].kind /\ s[n].kind = r[m(n)].kind
      BY <1>1
    <2> HIDE DEF r, m
    <2> QED
      BY <1>1, <2>1 DEF KindsOf
  <1>5. Distinct(r)
    <2>1. \A i, j \in 1..Len(s) : m(i) = m(j) => i = j
      BY <1>1
    <2> HIDE DEF r, m
    <2> QED
      BY <1>1, <2>1 DEF Distinct
  <1> QED
    BY <1>3, <1>4, <1>5

(* The jobs of a before those of b, which have other ids.                  *)
LEMMA ConcatKinds ==
  ASSUME NEW a \in Seq(Entry), NEW b \in Seq(Entry), Distinct(a), Distinct(b),
         \A k \in KindsOf(a), l \in KindsOf(b) : k.id # l.id
  PROVE  /\ a \o b \in Seq(Entry) /\ Distinct(a \o b)
         /\ KindsOf(a \o b) = KindsOf(a) \cup KindsOf(b)
  <1> DEFINE r == a \o b
  <1>1. /\ r \in Seq(Entry) /\ Len(r) = Len(a) + Len(b) /\ Len(a) \in Nat /\ Len(b) \in Nat
        /\ DOMAIN r = 1..Len(r) /\ DOMAIN a = 1..Len(a) /\ DOMAIN b = 1..Len(b)
    OBVIOUS
  <1>2. /\ \A i \in DOMAIN a : i \in DOMAIN r /\ r[i] = a[i]
        /\ \A i \in DOMAIN b : Len(a) + i \in DOMAIN r /\ r[Len(a) + i] = b[i]
        /\ \A i \in DOMAIN r : \/ i \in DOMAIN a
                               \/ i - Len(a) \in DOMAIN b /\ i = Len(a) + (i - Len(a))
    BY <1>1
  <1> HIDE DEF r
  <1>3. KindsOf(r) = KindsOf(a) \cup KindsOf(b)
    <2>1. \A i \in DOMAIN r : r[i].kind \in KindsOf(a) \cup KindsOf(b)
      BY <1>2 DEF KindsOf
    <2>2. \A i \in DOMAIN a : a[i].kind \in KindsOf(r)
      BY <1>2 DEF KindsOf
    <2>3. \A i \in DOMAIN b : b[i].kind \in KindsOf(r)
      BY <1>2 DEF KindsOf
    <2> QED
      BY <2>1, <2>2, <2>3 DEF KindsOf
  <1>4. \A i \in DOMAIN a, j \in DOMAIN b : a[i].kind.id # b[j].kind.id
    BY DEF KindsOf
  <1>5. \A i, j \in DOMAIN r : r[i].kind.id = r[j].kind.id => i = j
    <2> SUFFICES ASSUME NEW i \in DOMAIN r, NEW j \in DOMAIN r, r[i].kind.id = r[j].kind.id
                 PROVE  i = j
      OBVIOUS
    <2>1. CASE i \in DOMAIN a /\ j \in DOMAIN a
      BY <1>2, <2>1 DEF Distinct
    <2>2. CASE i \in DOMAIN a /\ j - Len(a) \in DOMAIN b /\ j = Len(a) + (j - Len(a))
      BY <1>2, <1>4, <2>2
    <2>3. CASE j \in DOMAIN a /\ i - Len(a) \in DOMAIN b /\ i = Len(a) + (i - Len(a))
      BY <1>2, <1>4, <2>3
    <2>4. CASE /\ i - Len(a) \in DOMAIN b /\ i = Len(a) + (i - Len(a))
               /\ j - Len(a) \in DOMAIN b /\ j = Len(a) + (j - Len(a))
      <3>1. r[i] = b[i - Len(a)] /\ r[j] = b[j - Len(a)]
        BY <1>2, <2>4
      <3>2. i - Len(a) = j - Len(a)
        BY <2>4, <3>1 DEF Distinct
      <3> QED
        BY <2>4, <3>2
    <2> QED
      BY <1>2, <2>1, <2>2, <2>3, <2>4
  <1>6. \A i \in DOMAIN r : OneKindOnly(r[i])
    <2> TAKE i \in DOMAIN r
    <2>1. CASE i \in DOMAIN a
      BY <1>2, <2>1 DEF Distinct
    <2>2. CASE i - Len(a) \in DOMAIN b /\ i = Len(a) + (i - Len(a))
      <3>1. r[i] = b[i - Len(a)]
        BY <1>2, <2>2
      <3> QED
        BY <2>2, <3>1 DEF Distinct
    <2> QED
      BY <1>2, <2>1, <2>2
  <1> QED
    BY <1>1, <1>3, <1>5, <1>6 DEF Distinct, r

(* A list of one job that nobody extends.                                  *)
LEMMA OneKind ==
  ASSUME NEW k \in JobKinds
  PROVE  /\ <<[kind |-> k, extended |-> <<>>]>> \in Seq(Entry)
         /\ Distinct(<<[kind |-> k, extended |-> <<>>]>>)
         /\ KindsOf(<<[kind |-> k, extended |-> <<>>]>>) = {k}
  <1> DEFINE e == [kind |-> k, extended |-> <<>>]
  <1>1. e \in Entry /\ e.kind = k /\ OneKindOnly(e)
    BY DEF Entry, OneKindOnly
  <1> HIDE DEF e
  <1>2. <<e>> \in Seq(Entry) /\ DOMAIN <<e>> = {1} /\ <<e>>[1] = e
    BY <1>1
  <1>3. Distinct(<<e>>)
    BY <1>1, <1>2 DEF Distinct
  <1>4. KindsOf(<<e>>) = {k}
    BY <1>1, <1>2 DEF KindsOf
  <1> QED
    BY <1>2, <1>3, <1>4 DEF e

(* What is left when the job at i has gone.                                *)
LEMMA RemoveAtKinds ==
  ASSUME NEW s \in Seq(Entry), Distinct(s), NEW i \in DOMAIN s
  PROVE  /\ RemoveAt(s, i) \in Seq(Entry) /\ Distinct(RemoveAt(s, i))
         /\ KindsOf(RemoveAt(s, i)) = KindsOf(s) \ {s[i].kind}
  <1> DEFINE r == RemoveAt(s, i)
  <1>1. /\ Len(s) \in Nat /\ DOMAIN s = 1..Len(s) /\ i \in 1..Len(s)
        /\ r \in Seq(Entry) /\ Len(r) = Len(s) - 1 /\ DOMAIN r = 1..Len(s) - 1
        /\ \A n \in 1..Len(s) - 1 : r[n] = IF n < i THEN s[n] ELSE s[n + 1]
    <2> DEFINE a == SubSeq(s, 1, i - 1)
               b == SubSeq(s, i + 1, Len(s))
    <2>1. Len(s) \in Nat /\ DOMAIN s = 1..Len(s) /\ i \in 1..Len(s)
      OBVIOUS
    <2>2. a \in Seq(Entry) /\ Len(a) = i - 1 /\ \A n \in 1..i - 1 : a[n] = s[n]
      BY <2>1, SubSeqProperties
    <2>3. b \in Seq(Entry) /\ Len(b) = Len(s) - i /\ \A n \in 1..Len(s) - i : b[n] = s[i + n]
      <3>1. /\ i + 1 \in Int /\ Len(s) \in Int
            /\ \A n \in (i + 1)..Len(s) : s[n] \in Entry
        BY <2>1
      <3>2. /\ b \in Seq(Entry)
            /\ Len(b) = IF i + 1 <= Len(s) THEN Len(s) - (i + 1) + 1 ELSE 0
            /\ \A n \in 1..Len(s) - (i + 1) + 1 : b[n] = s[i + 1 + n - 1]
        BY <3>1, SubSeqProperties
      <3> HIDE DEF b
      <3>3. Len(b) = Len(s) - i
        BY <2>1, <3>2
      <3>4. ASSUME NEW n \in 1..Len(s) - i  PROVE b[n] = s[i + n]
        <4>1. n \in 1..Len(s) - (i + 1) + 1 /\ i + 1 + n - 1 = i + n
          BY <2>1
        <4> QED
          BY <3>2, <4>1
      <3> QED
        BY <3>2, <3>3, <3>4
    <2>4. r = a \o b
      BY DEF RemoveAt
    <2> HIDE DEF a, b, r
    <2>5. r \in Seq(Entry) /\ Len(r) = Len(s) - 1 /\ DOMAIN r = 1..Len(s) - 1
      <3>1. r \in Seq(Entry) /\ Len(r) = Len(a) + Len(b)
        BY <2>2, <2>3, <2>4, ConcatProperties
      <3>2. Len(r) = Len(s) - 1
        BY <2>1, <2>2, <2>3, <3>1
      <3> QED
        BY <3>1, <3>2
    <2>6. \A n \in 1..Len(s) - 1 : r[n] = IF n < i THEN a[n] ELSE b[n - (i - 1)]
      BY <2>1, <2>2, <2>3, <2>4
    <2>7. \A n \in 1..Len(s) - 1 : r[n] = IF n < i THEN s[n] ELSE s[n + 1]
      <3> TAKE n \in 1..Len(s) - 1
      <3>1. CASE n < i
        BY <2>1, <2>2, <2>6, <3>1
      <3>2. CASE ~ n < i
        <4>1. n - (i - 1) \in 1..Len(s) - i /\ i + (n - (i - 1)) = n + 1
          BY <2>1, <3>2
        <4> QED
          BY <2>3, <2>6, <3>2, <4>1
      <3> QED
        BY <3>1, <3>2
    <2> QED
      BY <2>1, <2>5, <2>7
  <1> HIDE DEF r
  <1>2. /\ \A n \in DOMAIN r : n < i => n \in DOMAIN s /\ r[n] = s[n] /\ n # i
        /\ \A n \in DOMAIN r : ~ n < i => n + 1 \in DOMAIN s /\ r[n] = s[n + 1] /\ n + 1 # i
        /\ \A n \in DOMAIN s : n < i => n \in DOMAIN r
        /\ \A n \in DOMAIN s : i < n => n - 1 \in DOMAIN r /\ r[n - 1] = s[n]
    BY <1>1
  <1>3. \A n \in DOMAIN r : \E m \in DOMAIN s \ {i} : r[n] = s[m]
    BY <1>2
  <1>4. \A m \in DOMAIN s \ {i} : \E n \in DOMAIN r : r[n] = s[m]
    <2> TAKE m \in DOMAIN s \ {i}
    <2>1. m < i \/ i < m
      BY <1>1
    <2> QED
      BY <1>2, <2>1
  <1>5. KindsOf(r) = KindsOf(s) \ {s[i].kind}
    <2>1. \A m \in DOMAIN s \ {i} : s[m].kind # s[i].kind
      BY DEF Distinct
    <2> QED
      BY <1>3, <1>4, <2>1 DEF KindsOf
  <1>6. Distinct(r)
    <2>1. \A m, n \in DOMAIN r : r[m].kind.id = r[n].kind.id => m = n
      <3> SUFFICES ASSUME NEW m \in DOMAIN r, NEW n \in DOMAIN r, r[m].kind.id = r[n].kind.id
                   PROVE  m = n
        OBVIOUS
      <3>1. m \in Nat /\ n \in Nat /\ i \in Nat
        BY <1>1
      <3>2. CASE m < i /\ n < i
        BY <1>2, <3>2 DEF Distinct
      <3>3. CASE ~ m < i /\ ~ n < i
        <4>1. m + 1 = n + 1
          BY <1>2, <3>3 DEF Distinct
        <4> QED
          BY <3>1, <4>1
      <3>4. CASE m < i /\ ~ n < i
        <4>1. m = n + 1
          BY <1>2, <3>4 DEF Distinct
        <4> QED
          BY <3>1, <3>4, <4>1
      <3>5. CASE ~ m < i /\ n < i
        <4>1. m + 1 = n
          BY <1>2, <3>5 DEF Distinct
        <4> QED
          BY <3>1, <3>5, <4>1
      <3> QED
        BY <3>2, <3>3, <3>4, <3>5
    <2>2. \A n \in DOMAIN r : OneKindOnly(r[n])
      BY <1>3 DEF Distinct
    <2> QED
      BY <2>1, <2>2 DEF Distinct
  <1> QED
    BY <1>1, <1>5, <1>6 DEF r

(* Another entry of the same kind in the place i.                          *)
LEMMA ReplaceKinds ==
  ASSUME NEW s \in Seq(Entry), Distinct(s), NEW i \in DOMAIN s, NEW e \in Entry,
         e.kind = s[i].kind, OneKindOnly(e)
  PROVE  /\ [s EXCEPT ![i] = e] \in Seq(Entry) /\ Distinct([s EXCEPT ![i] = e])
         /\ KindsOf([s EXCEPT ![i] = e]) = KindsOf(s)
  <1> DEFINE r == [s EXCEPT ![i] = e]
  <1>1. /\ r \in Seq(Entry) /\ DOMAIN r = DOMAIN s
        /\ r[i] = e /\ \A n \in DOMAIN s \ {i} : r[n] = s[n]
    BY ExceptSeq
  <1> HIDE DEF r
  <1>2. \A n \in DOMAIN s : r[n].kind = s[n].kind
    BY <1>1
  <1>3. \A n \in DOMAIN s : OneKindOnly(r[n])
    BY <1>1 DEF Distinct
  <1> QED
    BY <1>1, <1>2, <1>3 DEF Distinct, KindsOf, r

(* What the table says of ids and classes it says of the kinds in it.      *)
LEMMA TableKinds ==
  \A s : /\ Ids(s) = {k.id : k \in KindsOf(s)}
         /\ Classes(s) = UNION {k.classes : k \in KindsOf(s)}
         /\ {e.kind : e \in ToSet(s)} = KindsOf(s)
  BY DEF Ids, Classes, KindsOf, ToSet

(* A class of the table is a class of a job in it.                         *)
LEMMA ClassesOf ==
  \A s, c : c \in Classes(s) <=> \E k \in KindsOf(s) : c \in k.classes
  BY DEF Classes, KindsOf

(* A list without kinds is empty.                                          *)
LEMMA NoKinds ==
  ASSUME NEW s \in Seq(Entry)
  PROVE  KindsOf(s) \subseteq JobKinds /\ (s = <<>> <=> KindsOf(s) = {})
  <1>0. \A i \in DOMAIN s : s[i] \in Entry
    OBVIOUS
  <1>1. \A i \in DOMAIN s : s[i].kind \in JobKinds
    BY <1>0 DEF Entry
  <1>2. s # <<>> => 1 \in DOMAIN s
    OBVIOUS
  <1> QED
    BY <1>1, <1>2 DEF KindsOf

(* The marks that stand for no job are not jobs.                           *)
LEMMA MarksAreNoKinds ==
  /\ None \notin JobKinds /\ Close \notin JobKinds /\ None # Close
  /\ \A k \in JobKinds : k \in Kind
  /\ \A c \in [id : {"add", "addExclusive", "blocked"}, kind : JobKinds] : c # None
  <1>1. \A k \in Kind : k # None /\ k # Close
    <2> TAKE k \in Kind
    <2>1. "classes" \in DOMAIN k /\ DOMAIN None = {"id"} /\ DOMAIN Close = {"id"}
      BY DEF Kind, None, Close
    <2> QED
      BY <2>1
  <1>2. \A c \in [id : {"add", "addExclusive", "blocked"}, kind : JobKinds] : c # None
    BY DEF None
  <1> QED
    BY <1>1, <1>2, KindsAssumption DEF None, Close

(* A job of the table is in it once, so whoever ends its id ends it.       *)
LEMMA FoundById ==
  ASSUME Entries, NEW k \in KindsOf(active)
  PROVE  /\ k.id \in Ids(active)
         /\ \A i \in DOMAIN active : First(active, i, k.id) => active[i].kind = k
  BY DEF Entries, Distinct, KindsOf, Ids, First

(* What holds the right to run the proc of l keeps it.                     *)
LEMMA Stays ==
  ASSUME NEW l,
         \A u \in Threads : (InTodo(l, u)' <=> InTodo(l, u)) /\ (InJob(l, u)' <=> InJob(l, u)),
         l \in queued' <=> l \in queued
  PROVE  (Somewhere(l)' <=> Somewhere(l)) /\ (Nowhere(l)' <=> Nowhere(l))
  BY DEF Somewhere, Nowhere

-------------------------------------------------------------------------------
(* Adding jobs.                                                            *)

(* The first test of the filter puts a thread between test and lock.       *)
LEMMA TestFilterKeeps ==
  ASSUME IInv, NEW t \in Threads, NEW k \in JobKinds, job[t] # None,
         NEW op, \/ op = "addExclusive" /\ Extends(k)
                 \/ op = "add" /\ ~ Extends(k) /\ Unused(k.id),
         TestFilter(t, k, op)
  PROVE  IInv'
  <1>1. /\ call' = [call EXCEPT ![t] = [id |-> op, kind |-> k]] /\ call[t] = None
        /\ UNCHANGED <<active, pending, activeFlags, filter, queued, closes, todo, job>>
    BY DEF TestFilter, Free, table
  <1>2. Entries' /\ TableOK' /\ Procs' /\ Closes'
    BY <1>1 DEF IInv, Entries, TableOK, Procs, Closes, ToClose, Somewhere, Nowhere, InTodo, InJob
  <1>3. CallsOK'
    <2>1. op = "add" => \A u \in Threads : call[u] # None => call[u].kind.id # k.id
      BY DEF Unused
    <2>2. op = "add" => \A l \in KindsOf(active) \cup KindsOf(pending) : l.id # k.id
      BY TableKinds DEF Unused
    <2>3. /\ call' \in [Threads -> {None} \cup [id : {"add", "addExclusive", "blocked"}, kind : JobKinds]]
          /\ \A u \in Threads \ {t} : call'[u] = call[u]
          /\ call'[t].id = op /\ call'[t].kind = k
      BY <1>1 DEF IInv, CallsOK
    <2>4. \A u \in Threads : call[u].id = "add" => call[u] # None
      BY DEF None
    <2> QED
      BY <1>1, <2>1, <2>2, <2>3, <2>4 DEF IInv, CallsOK
  <1> QED
    BY <1>2, <1>3 DEF IInv

(* A job that can run starts, and the thread has its proc to queue.        *)
LEMMA ActivateKeeps ==
  ASSUME IInv, NEW t \in Threads, call[t].id \in {"add", "addExclusive"}, todo[t] = <<>>,
         \A l \in KindsOf(active) \cup KindsOf(pending) : l.id # call[t].kind.id,
         ~ Refused(call[t].kind), Activate(t), call' = Returned(t), UNCHANGED <<queued, closes, job>>
  PROVE  IInv'
  <1>0. PICK k : k = call[t].kind
    OBVIOUS
  <1>1. k \in JobKinds /\ k \in Kind /\ job[t] # None /\ call[t] # None
    BY <1>0, MarksAreNoKinds DEF IInv, CallsOK, None
  <1>2. /\ MayStart(k) /\ active' = <<[kind |-> k, extended |-> <<>>]>> \o active
        /\ activeFlags' = activeFlags \cup k.classes
        /\ todo' = [todo EXCEPT ![t] = IF k.proc THEN <<k>> ELSE <<>>]
        /\ pending' = pending /\ filter' = filter
        /\ call' = [call EXCEPT ![t] = None] /\ UNCHANGED <<queued, closes, job>>
    BY <1>0 DEF Activate, Returned
  <1>3. \A l \in KindsOf(active) \cup KindsOf(pending) : l.id # k.id
    BY <1>0
  <1>4. /\ active' \in Seq(Entry) /\ Distinct(active')
        /\ KindsOf(active') = KindsOf(active) \cup {k}
    <2> DEFINE a == <<[kind |-> k, extended |-> <<>>]>>
    <2>1. a \in Seq(Entry) /\ Distinct(a) /\ KindsOf(a) = {k}
      BY <1>1, OneKind
    <2>2. active' = a \o active
      BY <1>2
    <2> HIDE DEF a
    <2> QED
      BY <1>3, <2>1, <2>2, ConcatKinds DEF IInv, Entries
  <1>5. Entries'
    BY <1>2, <1>3, <1>4 DEF IInv, Entries
  <1>6. TableOK'
    <2>1. activeFlags' = UNION {l.classes : l \in KindsOf(active)'}
      BY <1>2, <1>4 DEF IInv, TableOK
    <2>2. ~ k.instant => \A l \in KindsOf(active) : k.classes \cap l.classes = {}
      BY <1>2 DEF IInv, TableOK, MayStart
    <2>3. \A l \in KindsOf(pending) : l.classes \cap activeFlags' # {}
      BY <1>2 DEF IInv, TableOK
    <2> QED
      BY <1>2, <1>4, <2>1, <2>2, <2>3 DEF IInv, TableOK
  <1>7. CallsOK'
    <2>1. /\ call' \in [Threads -> {None} \cup [id : {"add", "addExclusive", "blocked"}, kind : JobKinds]]
          /\ \A u \in Threads \ {t} : call'[u] = call[u]
          /\ call'[t] = None
      BY <1>2 DEF IInv, CallsOK
    <2>2. \A u \in Threads \ {t} : call[u].id = "add" => call[u].kind.id # k.id
      <3> SUFFICES ASSUME NEW u \in Threads \ {t}, call[u].id = "add"
                   PROVE  call[u].kind.id # k.id
        OBVIOUS
      <3>1. call[u] # None /\ ~ Extends(call[u].kind) /\ call[u].kind \in JobKinds
        BY DEF IInv, CallsOK, None
      <3>2. CASE call[t].id = "add"
        BY <1>0, <1>1, <3>1, <3>2 DEF IInv, CallsOK
      <3>3. CASE call[t].id = "addExclusive"
        <4>1. Extends(k)
          BY <1>0, <1>1, <3>3 DEF IInv, CallsOK
        <4> QED
          BY <1>1, <3>1, <4>1, KindsAssumption DEF Extends
      <3> QED
        BY <3>2, <3>3
    <2>3. \A u \in Threads : call'[u].id = "add" => u # t /\ call[u].id = "add" /\ call[u] # None
      BY <2>1 DEF None
    <2> QED
      BY <1>2, <1>4, <2>1, <2>2, <2>3 DEF IInv, CallsOK
  <1>8. /\ \A u \in Threads \ {t} : todo'[u] = todo[u]
        /\ todo'[t] = IF k.proc THEN <<k>> ELSE <<>>
        /\ todo' \in [Threads -> Seq({l \in JobKinds : l.proc} \cup {Close})]
        /\ ToSet(todo'[t]) = (IF k.proc THEN {k} ELSE {}) /\ ToSet(todo[t]) = {}
    <2>1. /\ \A u \in Threads \ {t} : todo'[u] = todo[u]
          /\ todo'[t] = IF k.proc THEN <<k>> ELSE <<>>
      BY <1>2 DEF IInv, Procs
    <2>2. (IF k.proc THEN <<k>> ELSE <<>>) \in Seq({l \in JobKinds : l.proc} \cup {Close})
      <3>1. CASE k.proc
        BY <1>1, <3>1
      <3>2. CASE ~ k.proc
        BY <3>2
      <3> QED
        BY <3>1, <3>2
    <2>3. todo' \in [Threads -> Seq({l \in JobKinds : l.proc} \cup {Close})]
      BY <1>2, <2>2 DEF IInv, Procs
    <2>4. ToSet(<<k>>) = {k} /\ ToSet(<<>>) = {}
      BY DEF ToSet
    <2> QED
      BY <2>1, <2>3, <2>4
  <1>9. Procs'
    <2>1. \A u \in Threads : \A i, j \in DOMAIN todo'[u] : todo'[u][i] = todo'[u][j] => i = j
      BY <1>8 DEF IInv, Procs
    <2>2. k \notin KindsOf(active)
      BY <1>3
    <2>3. \A l \in JobKinds \ {k} : l.proc =>
            IF l \in KindsOf(active)' THEN Somewhere(l)' ELSE Nowhere(l)'
      <3> SUFFICES ASSUME NEW l \in JobKinds \ {k}, l.proc
                   PROVE  IF l \in KindsOf(active)' THEN Somewhere(l)' ELSE Nowhere(l)'
        OBVIOUS
      <3>1. \A u \in Threads : /\ InTodo(l, u)' <=> InTodo(l, u)
                               /\ InJob(l, u)' <=> InJob(l, u)
        BY <1>2, <1>8 DEF InTodo, InJob
      <3>2. l \in queued' <=> l \in queued
        BY <1>2
      <3>3. IF l \in KindsOf(active) THEN Somewhere(l) ELSE Nowhere(l)
        BY DEF IInv, Procs
      <3> QED
        BY <1>4, <3>1, <3>2, <3>3, Stays
    <2>4. k.proc => Somewhere(k)'
      <3> SUFFICES ASSUME k.proc PROVE Somewhere(k)'
        OBVIOUS
      <3>1. k \notin queued /\ \A u \in Threads : k \notin ToSet(todo[u]) /\ job[u] # k
        BY <1>1, <2>2 DEF IInv, Procs, Nowhere, InTodo, InJob
      <3>2. k \notin queued' /\ \A u \in Threads : job'[u] # k
        BY <1>2, <3>1
      <3>3. k \in ToSet(todo'[t]) /\ \A u \in Threads \ {t} : k \notin ToSet(todo'[u])
        BY <1>8, <3>1
      <3> QED
        BY <3>2, <3>3 DEF Somewhere, InTodo, InJob
    <2>5. \A u \in Threads : job'[u] # None =>
            /\ job'[u] \in KindsOf(active)' /\ \A v \in Threads \ {u} : job'[v] # job'[u]
      BY <1>2, <1>4 DEF IInv, Procs
    <2>6. queued' \subseteq {l \in JobKinds : l.proc}
      BY <1>2 DEF IInv, Procs
    <2>7. \A l \in JobKinds : l.proc =>
            IF l \in KindsOf(active)' THEN Somewhere(l)' ELSE Nowhere(l)'
      <3>1. k \in KindsOf(active)'
        BY <1>4
      <3> TAKE l \in JobKinds
      <3>2. CASE l = k
        BY <2>4, <3>1, <3>2
      <3>3. CASE l # k
        BY <2>3, <3>3
      <3> QED
        BY <3>2, <3>3
    <2> QED
      BY <1>8, <2>1, <2>5, <2>6, <2>7 DEF Procs
  <1>10. Closes'
    <2>1. KindsOf(active) # {} /\ KindsOf(active)' # {}
      BY <1>1, <1>4 DEF IInv, Procs
    <2>2. \A u \in Threads : ~ ToClose(u)'
      BY <1>1, <1>8, <2>1, MarksAreNoKinds DEF IInv, Closes, ToClose
    <2> QED
      BY <1>2, <2>1, <2>2 DEF IInv, Closes
  <1> QED
    BY <1>5, <1>6, <1>7, <1>9, <1>10 DEF IInv

(* A job that shares a class with an active one waits.                     *)
LEMMA PostponeKeeps ==
  ASSUME IInv, NEW t \in Threads, call[t].id \in {"add", "addExclusive"}, todo[t] = <<>>,
         \A l \in KindsOf(active) \cup KindsOf(pending) : l.id # call[t].kind.id,
         ~ Refused(call[t].kind), Postpone(t), call' = Returned(t), UNCHANGED <<queued, closes, job>>
  PROVE  IInv'
  <1> DEFINE k == call[t].kind
             e == [kind |-> k, extended |-> <<>>]
  <1>1. k \in JobKinds /\ k \in Kind /\ job[t] # None /\ call[t] # None
    BY MarksAreNoKinds DEF IInv, CallsOK, None
  <1>2. /\ ~ MayStart(k) /\ pending' = Append(pending, e)
        /\ UNCHANGED <<active, activeFlags, filter, todo, queued, closes, job>>
        /\ call' = [call EXCEPT ![t] = None]
    BY DEF Postpone, Returned
  <1> HIDE DEF k
  <1>3. \A l \in KindsOf(active) \cup KindsOf(pending) : l.id # k.id
    BY DEF k
  <1>4. /\ pending' \in Seq(Entry) /\ Distinct(pending')
        /\ KindsOf(pending') = KindsOf(pending) \cup {k}
    <2>1. <<e>> \in Seq(Entry) /\ Distinct(<<e>>) /\ KindsOf(<<e>>) = {k} /\ e \in Entry
      BY <1>1, OneKind DEF Entry
    <2>2. pending' = pending \o <<e>>
      BY <1>2, <2>1, AppendIsConcat DEF IInv, Entries
    <2> HIDE DEF e
    <2> QED
      BY <1>3, <2>1, <2>2, ConcatKinds DEF IInv, Entries
  <1>5. Entries'
    BY <1>2, <1>3, <1>4 DEF IInv, Entries
  <1>6. TableOK'
    <2>1. ~ k.instant /\ k.classes \cap activeFlags # {}
      BY <1>2 DEF MayStart
    <2>2. filter = ALL => k.exclusive
      BY <1>1, <2>1 DEF Refused, k, Kind, IInv, TableOK
    <2> QED
      BY <1>2, <1>4, <2>1, <2>2 DEF IInv, TableOK
  <1>7. CallsOK'
    <2>1. /\ call' \in [Threads -> {None} \cup [id : {"add", "addExclusive", "blocked"}, kind : JobKinds]]
          /\ \A u \in Threads \ {t} : call'[u] = call[u]
          /\ call'[t] = None
      BY <1>2 DEF IInv, CallsOK
    <2>2. \A u \in Threads \ {t} : call[u].id = "add" => call[u].kind.id # k.id
      <3> SUFFICES ASSUME NEW u \in Threads \ {t}, call[u].id = "add"
                   PROVE  call[u].kind.id # k.id
        OBVIOUS
      <3>1. call[u] # None /\ ~ Extends(call[u].kind) /\ call[u].kind \in JobKinds
        BY DEF IInv, CallsOK, None
      <3>2. CASE call[t].id = "add"
        BY <1>1, <3>1, <3>2 DEF IInv, CallsOK, k
      <3>3. CASE call[t].id = "addExclusive"
        <4>1. Extends(k)
          BY <1>1, <3>3 DEF IInv, CallsOK, k
        <4> QED
          BY <1>1, <3>1, <4>1, KindsAssumption DEF Extends
      <3> QED
        BY <3>2, <3>3
    <2>3. \A u \in Threads : call'[u].id = "add" => u # t /\ call[u].id = "add" /\ call[u] # None
      BY <2>1 DEF None
    <2> QED
      BY <1>2, <1>4, <2>1, <2>2, <2>3 DEF IInv, CallsOK
  <1>8. Procs' /\ Closes'
    BY <1>2 DEF IInv, Procs, Closes, ToClose, Somewhere, Nowhere, InTodo, InJob
  <1> QED
    BY <1>5, <1>6, <1>7, <1>8 DEF IInv

(* A call that returns without a change to the table.                      *)
LEMMA ReturnKeeps ==
  ASSUME IInv, NEW t \in Threads, call' = Returned(t),
         UNCHANGED <<active, pending, activeFlags, filter, queued, closes, todo, job>>
  PROVE  IInv'
  <1>1. /\ call' \in [Threads -> {None} \cup [id : {"add", "addExclusive", "blocked"}, kind : JobKinds]]
        /\ \A u \in Threads \ {t} : call'[u] = call[u]
        /\ call'[t] = None
    BY DEF IInv, CallsOK, Returned
  <1>2. \A u \in Threads : call'[u].id = "add" => u # t
    BY <1>1 DEF None
  <1>3. CallsOK'
    BY <1>1, <1>2 DEF IInv, CallsOK
  <1>4. Entries' /\ TableOK' /\ Procs' /\ Closes'
    BY DEF IInv, Entries, TableOK, Procs, Closes, ToClose, Somewhere, Nowhere, InTodo, InJob
  <1> QED
    BY <1>3, <1>4 DEF IInv

(* The section of a call whose job's id is not in the table.               *)
LEMMA EnterKeeps ==
  ASSUME IInv, NEW t \in Threads, call[t].id \in {"add", "addExclusive"}, todo[t] = <<>>,
         \A l \in KindsOf(active) \cup KindsOf(pending) : l.id # call[t].kind.id,
         Enter(t, <<>>), call' = Returned(t), UNCHANGED <<queued, closes, job>>
  PROVE  IInv'
  <1>1. CASE Refused(call[t].kind)
    <2>1. todo' = [todo EXCEPT ![t] = <<>>] /\ UNCHANGED <<active, pending, activeFlags, filter>>
      BY <1>1 DEF Enter, table
    <2>2. todo' = todo
      BY <2>1 DEF IInv, Procs
    <2> QED
      BY <2>1, <2>2, ReturnKeeps
  <1>2. CASE ~ Refused(call[t].kind)
    BY <1>2, ActivateKeeps, PostponeKeeps DEF Enter
  <1> QED
    BY <1>1, <1>2

(* The entry of the id is extended and stays of its kind.                  *)
LEMMA ExtendedKinds ==
  ASSUME NEW s \in Seq(Entry), Distinct(s), NEW k \in JobKinds, Extends(k), NEW t \in Threads,
         k.id \in Ids(s)
  PROVE  /\ Extended(s, k.id, t, k) \in Seq(Entry) /\ Distinct(Extended(s, k.id, t, k))
         /\ KindsOf(Extended(s, k.id, t, k)) = KindsOf(s)
  <1>1. \E i \in DOMAIN s : First(s, i, k.id)
    <2>1. PICK i \in DOMAIN s : s[i].kind.id = k.id
      BY DEF Ids
    <2>2. \A j \in 1..i - 1 : j \in DOMAIN s /\ j # i
      OBVIOUS
    <2> QED
      BY <2>1, <2>2 DEF First, Distinct
  <1>2. PICK i : i = CHOOSE j \in DOMAIN s : First(s, j, k.id)
    OBVIOUS
  <1>3. i \in DOMAIN s /\ s[i] \in Entry /\ s[i].kind.id = k.id
    BY <1>1, <1>2 DEF First
  <1>4. s[i].kind = k
    BY <1>3, KindsAssumption DEF Extends, Entry
  <1> DEFINE e == [kind |-> k, extended |-> Append(s[i].extended, [kind |-> k, by |-> t])]
  <1>5. e \in Entry /\ e.kind = s[i].kind /\ s[i].extended \in Seq([kind : JobKinds, by : Threads])
    BY <1>3, <1>4 DEF Entry
  <1>6. OneKindOnly(e)
    <2>1. OneKindOnly(s[i])
      BY <1>3 DEF Distinct
    <2> DEFINE x == s[i].extended
    <2>2. \A n \in DOMAIN x : x[n].kind = k
      BY <1>4, <2>1 DEF OneKindOnly
    <2>3. \A n \in DOMAIN Append(x, [kind |-> k, by |-> t]) :
            Append(x, [kind |-> k, by |-> t])[n].kind = k
      BY <1>5, <2>2
    <2> QED
      BY <2>3 DEF OneKindOnly
  <1>7. [s[i] EXCEPT !.extended = Append(s[i].extended, [kind |-> k, by |-> t])] = e
    <2>1. PICK x, y : x = s[i] /\ y = Append(s[i].extended, [kind |-> k, by |-> t])
      OBVIOUS
    <2>2. x \in Entry
      BY <1>3, <2>1
    <2>3. x = [kind |-> x.kind, extended |-> x.extended]
      BY <2>2 DEF Entry
    <2>4. [x EXCEPT !.extended = y] = [kind |-> x.kind, extended |-> y]
      BY <2>3
    <2> QED
      BY <1>4, <2>1, <2>4
  <1>8. Extended(s, k.id, t, k) = [s EXCEPT ![i] = e]
    BY <1>2, <1>7 DEF Extended
  <1> HIDE DEF e
  <1> QED
    BY <1>3, <1>5, <1>6, <1>8, ReplaceKinds

(* A job whose id is in the table extends it there.                        *)
LEMMA ExtendKeeps ==
  ASSUME IInv, NEW t \in Threads, call[t].id = "addExclusive",
         call[t].kind.id \in Ids(active) \cup Ids(pending), Extend(t),
         UNCHANGED <<queued, closes, job>>
  PROVE  IInv'
  <1>0. PICK k : k = call[t].kind
    OBVIOUS
  <1>1. k \in JobKinds /\ Extends(k) /\ job[t] # None /\ call[t] # None
    BY <1>0 DEF IInv, CallsOK, None
  <1>2. /\ call' = [call EXCEPT ![t].id = "blocked"]
        /\ UNCHANGED <<activeFlags, filter, todo>>
    BY DEF Extend
  <1>3. /\ active' \in Seq(Entry) /\ Distinct(active') /\ KindsOf(active') = KindsOf(active)
        /\ pending' \in Seq(Entry) /\ Distinct(pending') /\ KindsOf(pending') = KindsOf(pending)
    <2>1. CASE k.id \in Ids(active)
      <3>1. active' = Extended(active, k.id, t, k) /\ pending' = pending
        BY <1>0, <2>1 DEF Extend
      <3> QED
        BY <1>1, <2>1, <3>1, ExtendedKinds DEF IInv, Entries
    <2>2. CASE k.id \notin Ids(active)
      <3>1. pending' = Extended(pending, k.id, t, k) /\ active' = active /\ k.id \in Ids(pending)
        BY <1>0, <2>2 DEF Extend
      <3> QED
        BY <1>1, <3>1, ExtendedKinds DEF IInv, Entries
    <2> QED
      BY <2>1, <2>2
  <1>4. Entries'
    BY <1>3 DEF IInv, Entries
  <1>5. TableOK'
    BY <1>2, <1>3 DEF IInv, TableOK
  <1>6. Procs' /\ Closes'
    BY <1>2, <1>3 DEF IInv, Procs, Closes, ToClose, Somewhere, Nowhere, InTodo, InJob
  <1>7. CallsOK'
    <2>1. /\ call' \in [Threads -> {None} \cup [id : {"add", "addExclusive", "blocked"}, kind : JobKinds]]
          /\ \A u \in Threads \ {t} : call'[u] = call[u]
          /\ call'[t].id = "blocked" /\ call'[t].kind = k
      BY <1>0, <1>1, <1>2 DEF IInv, CallsOK
    <2>2. job' = job /\ job \in [Threads -> {None} \cup JobKinds]
      BY DEF IInv, CallsOK
    <2>3. ASSUME NEW u \in Threads, call'[u] # None
          PROVE  /\ job'[u] # None
                 /\ call'[u].id = "add" <=> ~ Extends(call'[u].kind)
                 /\ call'[u].id = "add" =>
                      /\ \A l \in KindsOf(active) \cup KindsOf(pending) : l.id # call'[u].kind.id
                      /\ \A v \in Threads \ {u} : call'[v].id = "add" => call'[v].kind.id # call'[u].kind.id
      <3>1. CASE u = t
        BY <1>1, <2>1, <2>2, <3>1
      <3>2. CASE u # t
        <4>1. call'[u] = call[u]
          BY <2>1, <3>2
        <4>2. \A v \in Threads : call'[v].id = "add" => call'[v] = call[v]
          BY <2>1
        <4> QED
          BY <2>2, <2>3, <4>1, <4>2 DEF IInv, CallsOK
      <3> QED
        BY <3>1, <3>2
    <2>4. KindsOf(active)' = KindsOf(active) /\ KindsOf(pending)' = KindsOf(pending)
      BY <1>3 DEF KindsOf
    <2> QED
      BY <2>1, <2>2, <2>3, <2>4 DEF CallsOK
  <1> QED
    BY <1>4, <1>5, <1>6, <1>7 DEF IInv

(* Both ways to add a job.                                                 *)
LEMMA AddKeeps ==
  ASSUME IInv, NEW t \in Threads, AddClientJob(t, <<>>) \/ AddExclusiveClientJob(t)
  PROVE  IInv'
  <1>1. CASE AddClientJob(t, <<>>)
    <2>1. /\ call[t].id = "add" /\ todo[t] = <<>> /\ Enter(t, <<>>)
          /\ call' = Returned(t) /\ UNCHANGED <<queued, closes, job>>
      BY <1>1 DEF AddClientJob, Calls
    <2>2. \A l \in KindsOf(active) \cup KindsOf(pending) : l.id # call[t].kind.id
      BY <2>1 DEF IInv, CallsOK, None
    <2> QED
      BY <2>1, <2>2, EnterKeeps
  <1>2. CASE AddExclusiveClientJob(t)
    <2>1. call[t].id = "addExclusive" /\ todo[t] = <<>> /\ UNCHANGED <<queued, closes, job>>
      BY <1>2 DEF AddExclusiveClientJob, Calls
    <2>2. CASE call[t].kind.id \in Ids(active) \cup Ids(pending)
      BY <1>2, <2>1, <2>2, ExtendKeeps DEF AddExclusiveClientJob
    <2>3. CASE call[t].kind.id \notin Ids(active) \cup Ids(pending)
      <3>1. Enter(t, <<>>) /\ call' = Returned(t)
        BY <1>2, <2>3 DEF AddExclusiveClientJob
      <3>2. \A l \in KindsOf(active) \cup KindsOf(pending) : l.id # call[t].kind.id
        BY <2>3, TableKinds
      <3> QED
        BY <2>1, <3>1, <3>2, EnterKeeps
    <2> QED
      BY <2>2, <2>3
  <1> QED
    BY <1>1, <1>2

-------------------------------------------------------------------------------
(* Ending jobs.                                                            *)

(* The procs of the jobs that start, in the order they are queued.         *)
LEMMA StartOrder ==
  ASSUME NEW s \in Seq(Entry), Distinct(s), \A k \in KindsOf(s) : k.proc
  PROVE  /\ Reverse(Kinds(s)) \in Seq({k \in JobKinds : k.proc} \cup {Close})
         /\ ToSet(Reverse(Kinds(s))) = KindsOf(s)
         /\ \A i, j \in DOMAIN Reverse(Kinds(s)) :
              Reverse(Kinds(s))[i] = Reverse(Kinds(s))[j] => i = j
  <1> DEFINE r == Reverse(Kinds(s))
             m(n) == Len(s) - n + 1
  <1>1. /\ Len(s) \in Nat /\ DOMAIN s = 1..Len(s)
        /\ \A n \in 1..Len(s) : m(n) \in 1..Len(s) /\ m(m(n)) = n
    OBVIOUS
  <1>2. /\ Kinds(s) \in Seq(JobKinds) /\ Len(Kinds(s)) = Len(s)
        /\ \A n \in 1..Len(s) : Kinds(s)[n] = s[n].kind
    <2>1. \A n \in 1..Len(s) : s[n].kind \in JobKinds
      <3>1. \A n \in 1..Len(s) : s[n] \in Entry
        BY <1>1
      <3> QED
        BY <3>1 DEF Entry
    <2> QED
      BY <1>1, <2>1 DEF Kinds
  <1>3. DOMAIN r = 1..Len(s) /\ \A n \in 1..Len(s) : r[n] = s[m(n)].kind
    BY <1>1, <1>2 DEF Reverse
  <1>4. \A n \in 1..Len(s) : s[n].kind \in KindsOf(s) /\ s[n].kind \in JobKinds
    <2>1. KindsOf(s) \subseteq JobKinds
      BY NoKinds
    <2> QED
      BY <1>1, <2>1 DEF KindsOf
  <1>5. r \in Seq({k \in JobKinds : k.proc} \cup {Close})
    <2>1. \A n \in 1..Len(s) : r[n] \in {k \in JobKinds : k.proc} \cup {Close}
      BY <1>1, <1>3, <1>4
    <2>2. r = [n \in 1..Len(s) |-> r[n]]
      BY <1>1, <1>2, <1>3 DEF Reverse
    <2> HIDE DEF r
    <2> QED
      BY <1>1, <2>1, <2>2
  <1> HIDE DEF r
  <1>6. ToSet(r) = KindsOf(s)
    <2>1. \A n \in 1..Len(s) : r[m(n)] = s[n].kind
      BY <1>1, <1>3
    <2>2. ToSet(r) = {r[n] : n \in 1..Len(s)}
      BY <1>3 DEF ToSet
    <2> HIDE DEF m
    <2> QED
      BY <1>1, <1>3, <2>1, <2>2 DEF KindsOf
  <1>7. \A i, j \in DOMAIN r : r[i] = r[j] => i = j
    <2>1. \A i, j \in 1..Len(s) : r[i] = r[j] => m(i) = m(j)
      <3> HIDE DEF m
      <3> SUFFICES ASSUME NEW i \in 1..Len(s), NEW j \in 1..Len(s), r[i] = r[j]
                   PROVE  m(i) = m(j)
        OBVIOUS
      <3>1. m(i) \in DOMAIN s /\ m(j) \in DOMAIN s /\ s[m(i)].kind.id = s[m(j)].kind.id
        BY <1>1, <1>3
      <3> QED
        BY <3>1 DEF Distinct
    <2> QED
      BY <1>1, <1>3, <2>1
  <1> QED
    BY <1>5, <1>6, <1>7 DEF r

(* What the end of a job finds: the job is active, the thread holds the    *)
(* right to run its proc and no thread is about to close the client.       *)
LEMMA EndsOwn ==
  ASSUME IInv, NEW t \in Threads, job[t] # None, Free(t), NEW k, k = job[t]
  PROVE  /\ k \in KindsOf(active) /\ k \in JobKinds /\ todo[t] = <<>> /\ call[t] = None
         /\ k \notin queued /\ \A u \in Threads : k \notin ToSet(todo[u])
         /\ \A u \in Threads \ {t} : job[u] # k
         /\ closes = 0 /\ \A u \in Threads : ~ ToClose(u)
  <1>1. k \in KindsOf(active) /\ k \in JobKinds /\ todo[t] = <<>> /\ call[t] = None
    BY DEF IInv, Procs, CallsOK, Free
  <1>2. \A u \in Threads \ {t} : job[u] # k
    BY DEF IInv, Procs
  <1>3. closes = 0 /\ \A u \in Threads : ~ ToClose(u)
    BY <1>1 DEF IInv, Closes
  <1>4. k \notin queued /\ \A u \in Threads : k \notin ToSet(todo[u])
    <2>1. CASE k.proc
      <3>1. Somewhere(k) /\ InJob(k, t)
        BY <1>1, <2>1 DEF IInv, Procs, InJob
      <3> QED
        BY <3>1 DEF Somewhere, InTodo, InJob
    <2>2. CASE ~ k.proc
      <3>1. k \notin queued
        BY <2>2 DEF IInv, Procs
      <3>2. \A u \in Threads : \A n \in DOMAIN todo[u] : todo[u][n] # k
        <4> TAKE u \in Threads
        <4>1. todo[u] \in Seq({l \in JobKinds : l.proc} \cup {Close})
          BY DEF IInv, Procs
        <4>2. \A n \in DOMAIN todo[u] : todo[u][n] \in {l \in JobKinds : l.proc} \cup {Close}
          BY <4>1
        <4> QED
          BY <1>1, <2>2, <4>2, MarksAreNoKinds
      <3> QED
        BY <3>1, <3>2 DEF ToSet
    <2> QED
      BY <2>1, <2>2
  <1> QED
    BY <1>1, <1>2, <1>3, <1>4

(* The end of a job and the next of its kind: the entry stays, and the     *)
(* thread has the proc to queue that it was just done with.                *)
LEMMA TakeOverKeeps ==
  ASSUME IInv, NEW t \in Threads, job[t] # None, Free(t), NEW i \in DOMAIN active,
         active[i].kind = job[t], TakeOver(t, i, <<>>), UNCHANGED <<queued, closes>>,
         job' = [job EXCEPT ![t] = None]
  PROVE  IInv'
  <1>0. PICK k : k = job[t]
    OBVIOUS
  <1>1. /\ k \in KindsOf(active) /\ k \in JobKinds /\ todo[t] = <<>> /\ call[t] = None
        /\ k \notin queued /\ \A u \in Threads : k \notin ToSet(todo[u])
        /\ \A u \in Threads \ {t} : job[u] # k
        /\ closes = 0 /\ \A u \in Threads : ~ ToClose(u)
    BY <1>0, EndsOwn
  <1>2. PICK x, e : x = Head(active[i].extended) /\ e = [kind |-> x.kind, extended |-> Tail(active[i].extended)]
    OBVIOUS
  <1>3. /\ active[i].extended # <<>> /\ active' = [active EXCEPT ![i] = e]
        /\ call' = [call EXCEPT ![x.by] = None] /\ todo' = [todo EXCEPT ![t] = <<>> \o <<x.kind>>]
        /\ UNCHANGED <<pending, activeFlags, filter>>
    BY <1>2 DEF TakeOver
  <1>4. e \in Entry /\ e.kind = k /\ x.kind = k /\ OneKindOnly(e) /\ k.proc /\ x.by \in Threads
    <2>1. PICK y : y = active[i].extended
      OBVIOUS
    <2>2. y \in Seq([kind : JobKinds, by : Threads]) /\ y # <<>>
      <3>1. active[i] \in Entry
        BY DEF IInv, Entries
      <3> QED
        BY <1>3, <2>1, <3>1 DEF Entry
    <2>3. OneKindOnly(active[i])
      BY DEF IInv, Entries, Distinct
    <2>4. /\ x = y[1] /\ 1 \in DOMAIN y /\ x \in [kind : JobKinds, by : Threads]
          /\ Tail(y) \in Seq([kind : JobKinds, by : Threads])
          /\ \A n \in DOMAIN Tail(y) : n + 1 \in DOMAIN y /\ Tail(y)[n] = y[n + 1]
      <3> DEFINE T == [kind : JobKinds, by : Threads]
      <3>0. y \in Seq(T) /\ y # <<>> /\ x = Head(y)
        BY <1>2, <2>1, <2>2
      <3> HIDE DEF T
      <3>1. x = y[1] /\ 1 \in DOMAIN y /\ x \in T
        BY <3>0
      <3>2. Tail(y) \in Seq(T) /\ Len(Tail(y)) = Len(y) - 1
        BY <3>0
      <3>3. \A n \in 1..Len(y) - 1 : n + 1 \in DOMAIN y /\ Tail(y)[n] = y[n + 1]
        BY <3>0
      <3> QED
        BY <3>1, <3>2, <3>3 DEF T
    <2>5. \A n \in DOMAIN y : y[n].kind = k /\ Extends(k)
      BY <1>0, <2>1, <2>3 DEF OneKindOnly
    <2>6. x.kind = k /\ Extends(k)
      BY <2>4, <2>5
    <2>7. \A n \in DOMAIN Tail(y) : Tail(y)[n].kind = k
      BY <2>4, <2>5
    <2>8. e = [kind |-> k, extended |-> Tail(y)]
      BY <1>2, <2>1, <2>6
    <2> QED
      BY <1>1, <2>4, <2>6, <2>7, <2>8 DEF OneKindOnly, Extends, Entry
  <1>5. /\ active' \in Seq(Entry) /\ Distinct(active') /\ KindsOf(active') = KindsOf(active)
    <2>1. active \in Seq(Entry) /\ Distinct(active) /\ e.kind = active[i].kind
      BY <1>0, <1>4 DEF IInv, Entries
    <2> QED
      BY <1>3, <1>4, <2>1, ReplaceKinds
  <1>6. /\ \A u \in Threads \ {t} : todo'[u] = todo[u] /\ job'[u] = job[u]
        /\ todo'[t] = <<k>> /\ job'[t] = None
        /\ todo' \in [Threads -> Seq({l \in JobKinds : l.proc} \cup {Close})]
        /\ job' \in [Threads -> {None} \cup JobKinds]
        /\ ToSet(todo'[t]) = {k} /\ ToSet(todo[t]) = {}
    <2>1. <<>> \o <<x.kind>> = <<k>> /\ <<k>> \in Seq({l \in JobKinds : l.proc} \cup {Close})
      BY <1>1, <1>4
    <2>2. ToSet(<<k>>) = {k} /\ ToSet(<<>>) = {}
      BY DEF ToSet
    <2> QED
      BY <1>1, <1>3, <2>1, <2>2 DEF IInv, Procs, CallsOK
  <1>7. Entries' /\ TableOK'
    BY <1>3, <1>5 DEF IInv, Entries, TableOK
  <1>8. CallsOK'
    <2>1. /\ call' \in [Threads -> {None} \cup [id : {"add", "addExclusive", "blocked"}, kind : JobKinds]]
          /\ \A u \in Threads : call'[u] = call[u] \/ call'[u] = None
          /\ call'[t] = None
      BY <1>1, <1>3 DEF IInv, CallsOK
    <2>2. \A u \in Threads : call'[u] # None => call'[u] = call[u] /\ u # t
      BY <2>1
    <2>3. \A u \in Threads : call'[u].id = "add" => call'[u] # None
      BY DEF None
    <2> QED
      BY <1>3, <1>5, <1>6, <2>1, <2>2, <2>3 DEF IInv, CallsOK
  <1>9. Procs'
    <2>1. \A u \in Threads : \A m, n \in DOMAIN todo'[u] : todo'[u][m] = todo'[u][n] => m = n
      BY <1>6 DEF IInv, Procs
    <2>2. \A l \in JobKinds : l.proc =>
            IF l \in KindsOf(active)' THEN Somewhere(l)' ELSE Nowhere(l)'
      <3> SUFFICES ASSUME NEW l \in JobKinds, l.proc
                   PROVE  IF l \in KindsOf(active)' THEN Somewhere(l)' ELSE Nowhere(l)'
        OBVIOUS
      <3>1. CASE l = k
        <4>1. /\ l \notin queued' /\ l \in ToSet(todo'[t]) /\ job'[t] # l
              /\ \A u \in Threads \ {t} : l \notin ToSet(todo'[u]) /\ job'[u] # l
          BY <1>1, <1>6, <3>1, MarksAreNoKinds
        <4>2. Somewhere(l)'
          BY <4>1 DEF Somewhere, InTodo, InJob
        <4>3. l \in KindsOf(active')
          BY <1>1, <1>5, <3>1
        <4> QED
          BY <4>2, <4>3
      <3>2. CASE l # k
        <4>1. \A u \in Threads : /\ InTodo(l, u)' <=> InTodo(l, u)
                                 /\ InJob(l, u)' <=> InJob(l, u)
          BY <1>0, <1>6, <3>2, MarksAreNoKinds DEF InTodo, InJob
        <4>2. l \in queued' <=> l \in queued
          OBVIOUS
        <4>3. IF l \in KindsOf(active) THEN Somewhere(l) ELSE Nowhere(l)
          BY DEF IInv, Procs
        <4> QED
          BY <1>5, <4>1, <4>2, <4>3, Stays
      <3> QED
        BY <3>1, <3>2
    <2>3. \A u \in Threads : job'[u] # None =>
            /\ job'[u] \in KindsOf(active)' /\ \A v \in Threads \ {u} : job'[v] # job'[u]
      BY <1>5, <1>6 DEF IInv, Procs
    <2>4. queued' \subseteq {l \in JobKinds : l.proc}
      BY DEF IInv, Procs
    <2> QED
      BY <1>6, <2>1, <2>2, <2>3, <2>4 DEF Procs
  <1>10. Closes'
    <2>1. KindsOf(active)' # {}
      BY <1>1, <1>5
    <2>2. \A u \in Threads : ~ ToClose(u)'
      BY <1>1, <1>6, MarksAreNoKinds DEF ToClose
    <2> QED
      BY <1>1, <2>1, <2>2 DEF Closes
  <1> QED
    BY <1>7, <1>8, <1>9, <1>10 DEF IInv

\* An entry of kind k goes and the pending jobs of the kinds G start.
Removes(t, k, G) ==
  /\ active' \in Seq(Entry) /\ Distinct(active')
  /\ KindsOf(active') = G \cup (KindsOf(active) \ {k})
  /\ pending' \in Seq(Entry) /\ Distinct(pending')
  /\ KindsOf(pending') = KindsOf(pending) \ G
  /\ activeFlags' = UNION {l.classes : l \in KindsOf(active')}
  /\ \A l \in KindsOf(pending') : l.classes \cap activeFlags' # {}
  /\ \A l \in G : \A m \in KindsOf(active') \ {l} : l.classes \cap m.classes = {}
  /\ KindsOf(active') = {} => KindsOf(pending) = {}
  /\ todo' \in [Threads -> Seq({l \in JobKinds : l.proc} \cup {Close})]
  /\ \A u \in Threads \ {t} : todo'[u] = todo[u]
  /\ \A m, n \in DOMAIN todo'[t] : todo'[t][m] = todo'[t][n] => m = n
  /\ ToSet(todo'[t]) = IF KindsOf(active') = {} THEN {Close} ELSE G
  /\ UNCHANGED <<filter, call>>

(* Which kinds of jobs are active and pending after an entry has gone, and *)
(* what the thread has to do then.                                         *)
LEMMA RemoveEntryEffect ==
  ASSUME IInv, NEW t \in Threads, todo[t] = <<>>, NEW i \in DOMAIN active, NEW k, k = active[i].kind,
         RemoveEntry(t, i, <<>>)
  PROVE  \E G \in SUBSET KindsOf(pending) : Removes(t, k, G)
  <1>0. /\ active \in Seq(Entry) /\ Distinct(active) /\ pending \in Seq(Entry) /\ Distinct(pending)
        /\ \A l \in KindsOf(active), m \in KindsOf(pending) : l.id # m.id
    BY DEF IInv, Entries
  <1>1. PICK rest, S : /\ rest = RemoveAt(active, i) /\ S \in SUBSET DOMAIN pending
                       /\ Startable(S, Classes(rest))
                       /\ active' = Reverse(Sub(pending, S)) \o rest
                       /\ activeFlags' = Classes(rest) \cup Classes(Sub(pending, S))
                       /\ todo' = [todo EXCEPT ![t] =
                            <<>> \o (IF rest = <<>> /\ pending = <<>> THEN <<Close>> ELSE <<>>)
                                 \o Reverse(Kinds(Sub(pending, S)))]
                       /\ pending' = Sub(pending, DOMAIN pending \ S)
                       /\ UNCHANGED <<filter, call>>
    BY DEF RemoveEntry
  <1>2. PICK G, go, stay : /\ G = {pending[j].kind : j \in S}
                           /\ go = Sub(pending, S) /\ stay = Sub(pending, DOMAIN pending \ S)
    OBVIOUS
  <1>3. rest \in Seq(Entry) /\ Distinct(rest) /\ KindsOf(rest) = KindsOf(active) \ {k}
    BY <1>0, <1>1, RemoveAtKinds
  <1>4. go \in Seq(Entry) /\ Distinct(go) /\ KindsOf(go) = G
    BY <1>0, <1>1, <1>2, SubKinds
  <1>5. /\ stay \in Seq(Entry) /\ Distinct(stay)
        /\ KindsOf(stay) = {pending[j].kind : j \in DOMAIN pending \ S}
    BY <1>0, <1>1, <1>2, SubKinds
  <1>6. G \subseteq KindsOf(pending) /\ KindsOf(stay) = KindsOf(pending) \ G
    <2>1. \A m \in S, n \in DOMAIN pending \ S : pending[m].kind # pending[n].kind
      BY <1>0, <1>1 DEF Distinct
    <2>2. G \subseteq KindsOf(pending)
      BY <1>1, <1>2 DEF KindsOf
    <2>3. \A l \in KindsOf(stay) : l \in KindsOf(pending) /\ l \notin G
      <3> SUFFICES ASSUME NEW l \in KindsOf(stay)
                   PROVE  l \in KindsOf(pending) /\ l \notin G
        OBVIOUS
      <3>1. PICK n \in DOMAIN pending \ S : l = pending[n].kind
        BY <1>5
      <3>2. l \in KindsOf(pending)
        BY <3>1 DEF KindsOf
      <3> QED
        BY <1>2, <2>1, <3>1, <3>2
    <2>4. \A l \in KindsOf(pending) : l \notin G => l \in KindsOf(stay)
      BY <1>2, <1>5 DEF KindsOf
    <2> QED
      BY <2>2, <2>3, <2>4
  <1>7. Reverse(go) \in Seq(Entry) /\ Distinct(Reverse(go)) /\ KindsOf(Reverse(go)) = G
    BY <1>4, ReverseKinds
  <1>8. /\ active' \in Seq(Entry) /\ Distinct(active')
        /\ KindsOf(active') = G \cup (KindsOf(active) \ {k})
    <2>1. \A l \in KindsOf(Reverse(go)), m \in KindsOf(rest) : l.id # m.id
      BY <1>0, <1>3, <1>6, <1>7
    <2>2. active' = Reverse(go) \o rest
      BY <1>1, <1>2
    <2> QED
      BY <1>3, <1>7, <2>1, <2>2, ConcatKinds
  <1>9. activeFlags' = UNION {l.classes : l \in KindsOf(active')}
    <2>1. activeFlags' = Classes(rest) \cup Classes(go)
      BY <1>1, <1>2
    <2>2. \A c : c \in activeFlags' <=> \E l \in KindsOf(active') : c \in l.classes
      <3> TAKE c
      <3>1. c \in activeFlags' <=> c \in Classes(rest) \/ c \in Classes(go)
        BY <2>1
      <3>2. /\ c \in Classes(rest) <=> \E l \in KindsOf(rest) : c \in l.classes
            /\ c \in Classes(go) <=> \E l \in KindsOf(go) : c \in l.classes
        BY ClassesOf
      <3>3. KindsOf(active') = KindsOf(go) \cup KindsOf(rest)
        BY <1>3, <1>4, <1>8
      <3> QED
        BY <3>1, <3>2, <3>3
    <2>3. \A c : c \in UNION {l.classes : l \in KindsOf(active')}
                   <=> \E l \in KindsOf(active') : c \in l.classes
      OBVIOUS
    <2> QED
      BY <2>2, <2>3
  <1>10. \A j \in DOMAIN pending :
           j \in S <=> pending[j].kind.classes \cap
                         (Classes(rest) \cup UNION {pending[n].kind.classes : n \in {n \in S : n < j}}) = {}
    BY <1>1 DEF Startable
  <1>11. \A l \in KindsOf(stay) : l.classes \cap activeFlags' # {}
    <2> SUFFICES ASSUME NEW l \in KindsOf(stay) PROVE l.classes \cap activeFlags' # {}
      OBVIOUS
    <2>1. PICK j \in DOMAIN pending \ S : l = pending[j].kind
      BY <1>5
    <2>2. PICK c \in l.classes :
            c \in Classes(rest) \/ \E n \in S : c \in pending[n].kind.classes
      BY <1>10, <2>1
    <2>3. \A n \in S : pending[n].kind \in G
      BY <1>2
    <2>4. c \in activeFlags'
      BY <1>3, <1>8, <1>9, <2>2, <2>3, TableKinds
    <2> QED
      BY <2>4
  <1>12. \A l \in G : \A m \in KindsOf(active') \ {l} : l.classes \cap m.classes = {}
    <2> SUFFICES ASSUME NEW l \in G, NEW m \in KindsOf(active') \ {l}
                 PROVE  l.classes \cap m.classes = {}
      OBVIOUS
    <2>1. PICK j \in S : l = pending[j].kind
      BY <1>2
    <2>2. l.classes \cap Classes(rest) = {}
      BY <1>1, <1>10, <2>1
    <2>3. CASE m \in KindsOf(rest)
      BY <2>2, <2>3, TableKinds
    <2>4. CASE m \in G
      <3>1. PICK n \in S : m = pending[n].kind
        BY <1>2, <2>4
      <3>2. n \in Nat /\ j \in Nat /\ n # j /\ n \in DOMAIN pending /\ j \in DOMAIN pending
        BY <1>0, <1>1, <2>1, <3>1
      <3>3. CASE n < j
        BY <1>10, <2>1, <3>1, <3>2, <3>3
      <3>4. CASE j < n
        BY <1>10, <2>1, <3>1, <3>2, <3>4
      <3> QED
        BY <3>2, <3>3, <3>4
    <2> QED
      BY <1>3, <1>8, <2>3, <2>4
  <1>13. KindsOf(active') = {} => KindsOf(pending) = {}
    <2> SUFFICES ASSUME KindsOf(active') = {}, pending # <<>> PROVE FALSE
      BY <1>0, NoKinds
    <2>1. Classes(rest) = {} /\ S = {}
      <3>1. KindsOf(rest) = {} /\ G = {}
        BY <1>3, <1>8
      <3>2. Classes(rest) = UNION {l.classes : l \in KindsOf(rest)}
        BY TableKinds
      <3>3. Classes(rest) = {}
        BY <3>1, <3>2
      <3>4. S = {}
        BY <1>2, <3>1
      <3> QED
        BY <3>3, <3>4
    <2>2. 1 \in DOMAIN pending
      BY <1>0
    <2>3. 1 \in S
      BY <1>10, <2>1, <2>2
    <2> QED
      BY <2>1, <2>3
  <1>14. (rest = <<>> /\ pending = <<>>) <=> KindsOf(active') = {}
    BY <1>0, <1>3, <1>6, <1>8, <1>13, NoKinds
  <1> DEFINE r == Reverse(Kinds(go))
             P == Seq({l \in JobKinds : l.proc} \cup {Close})
  <1>15. /\ r \in P /\ ToSet(r) = G /\ \A m, n \in DOMAIN r : r[m] = r[n] => m = n
    <2>1. \A l \in KindsOf(go) : l.proc
      <3>1. KindsOf(pending) \subseteq JobKinds /\ \A l \in KindsOf(pending) : ~ l.instant
        BY <1>0, NoKinds DEF IInv, TableOK
      <3> QED
        BY <1>4, <1>6, <3>1, KindsAssumption
    <2> QED
      BY <1>4, <2>1, StartOrder
  <1> HIDE DEF r
  <1>16. PICK q : q = <<>> \o (IF rest = <<>> /\ pending = <<>> THEN <<Close>> ELSE <<>>) \o r
    OBVIOUS
  <1>17. /\ q \in P /\ \A m, n \in DOMAIN q : q[m] = q[n] => m = n
         /\ ToSet(q) = IF KindsOf(active') = {} THEN {Close} ELSE G
    <2>1. CASE KindsOf(active') = {}
      <3>1. r = <<>>
        <4>1. G = {}
          BY <1>8, <2>1
        <4>2. DOMAIN r = {}
          BY <1>15, <4>1 DEF ToSet
        <4> QED
          BY <1>15, <4>2
      <3>2. q = <<Close>>
        BY <1>14, <1>16, <2>1, <3>1
      <3>3. ToSet(<<Close>>) = {Close} /\ <<Close>> \in P
        BY DEF ToSet
      <3> QED
        BY <2>1, <3>2, <3>3
    <2>2. CASE KindsOf(active') # {}
      <3>1. q = r
        BY <1>14, <1>15, <1>16, <2>2
      <3> QED
        BY <1>15, <2>2, <3>1
    <2> QED
      BY <2>1, <2>2
  <1>18. todo' = [todo EXCEPT ![t] = q] /\ todo \in [Threads -> P]
    BY <1>1, <1>2, <1>16 DEF r, IInv, Procs
  <1> HIDE DEF P
  <1>19. todo' \in [Threads -> P] /\ todo'[t] = q /\ \A u \in Threads \ {t} : todo'[u] = todo[u]
    BY <1>17, <1>18
  <1>20. pending' = stay /\ UNCHANGED <<filter, call>>
    BY <1>1, <1>2
  <1> HIDE DEF P
  <1>21. /\ active' \in Seq(Entry) /\ Distinct(active')
         /\ KindsOf(active') = G \cup (KindsOf(active) \ {k})
         /\ pending' \in Seq(Entry) /\ Distinct(pending')
         /\ KindsOf(pending') = KindsOf(pending) \ G
         /\ activeFlags' = UNION {l.classes : l \in KindsOf(active')}
         /\ \A l \in KindsOf(pending') : l.classes \cap activeFlags' # {}
    BY <1>5, <1>6, <1>8, <1>9, <1>11, <1>20
  <1>22. /\ todo' \in [Threads -> P]
         /\ \A u \in Threads \ {t} : todo'[u] = todo[u]
         /\ \A m, n \in DOMAIN todo'[t] : todo'[t][m] = todo'[t][n] => m = n
         /\ ToSet(todo'[t]) = IF KindsOf(active') = {} THEN {Close} ELSE G
    BY <1>17, <1>19
  <1> QED
    BY <1>6, <1>12, <1>13, <1>20, <1>21, <1>22 DEF P, Removes

(* The end of a job that nobody extends: those that can start now are      *)
(* active, and the thread has their procs to queue, or the close.          *)
LEMMA RemoveEntryKeeps ==
  ASSUME IInv, NEW t \in Threads, job[t] # None, Free(t), NEW i \in DOMAIN active,
         active[i].kind = job[t], RemoveEntry(t, i, <<>>), UNCHANGED <<queued, closes>>,
         job' = [job EXCEPT ![t] = None]
  PROVE  IInv'
  <1>0. PICK k : k = job[t]
    OBVIOUS
  <1>1. /\ k \in KindsOf(active) /\ k \in JobKinds /\ todo[t] = <<>> /\ call[t] = None
        /\ k \notin queued /\ \A u \in Threads : k \notin ToSet(todo[u])
        /\ \A u \in Threads \ {t} : job[u] # k
        /\ closes = 0 /\ \A u \in Threads : ~ ToClose(u)
    BY <1>0, EndsOwn
  <1>2. PICK G \in SUBSET KindsOf(pending) :
           /\ active' \in Seq(Entry) /\ Distinct(active')
           /\ KindsOf(active') = G \cup (KindsOf(active) \ {k})
           /\ pending' \in Seq(Entry) /\ Distinct(pending')
           /\ KindsOf(pending') = KindsOf(pending) \ G
           /\ activeFlags' = UNION {l.classes : l \in KindsOf(active')}
           /\ \A l \in KindsOf(pending') : l.classes \cap activeFlags' # {}
           /\ \A l \in G : \A m \in KindsOf(active') \ {l} : l.classes \cap m.classes = {}
           /\ KindsOf(active') = {} => KindsOf(pending) = {}
           /\ todo' \in [Threads -> Seq({l \in JobKinds : l.proc} \cup {Close})]
           /\ \A u \in Threads \ {t} : todo'[u] = todo[u]
           /\ \A m, n \in DOMAIN todo'[t] : todo'[t][m] = todo'[t][n] => m = n
           /\ ToSet(todo'[t]) = IF KindsOf(active') = {} THEN {Close} ELSE G
           /\ UNCHANGED <<filter, call>>
    <2>1. \E G \in SUBSET KindsOf(pending) : Removes(t, k, G)
      BY <1>0, <1>1, RemoveEntryEffect
    <2> QED
      BY <2>1 DEF Removes
  <1>3. /\ \A u \in Threads \ {t} : job'[u] = job[u]
        /\ job'[t] = None /\ job' \in [Threads -> {None} \cup JobKinds]
    BY DEF IInv, CallsOK
  <1>4. /\ \A l \in KindsOf(active), m \in KindsOf(pending) : l.id # m.id
        /\ KindsOf(pending) \subseteq JobKinds /\ KindsOf(active) \subseteq JobKinds
    BY NoKinds DEF IInv, Entries
  <1>5. Entries'
    <2>1. \A l \in KindsOf(active'), m \in KindsOf(pending') : l.id # m.id
      <3> SUFFICES ASSUME NEW l \in KindsOf(active'), NEW m \in KindsOf(pending'), l.id = m.id
                   PROVE  FALSE
        OBVIOUS
      <3>1. l \in G /\ m \in KindsOf(pending) /\ m \notin G
        BY <1>2, <1>4
      <3>2. l = m
        BY <3>1 DEF IInv, Entries, Distinct, KindsOf
      <3> QED
        BY <3>1, <3>2
    <2> QED
      BY <1>2, <2>1 DEF Entries
  <1>6. TableOK'
    <2>1. \A l, m \in KindsOf(active') :
            (l # m /\ l.classes \cap m.classes # {}) => (l.instant \/ m.instant)
      <3> SUFFICES ASSUME NEW l \in KindsOf(active'), NEW m \in KindsOf(active'),
                          l # m, l.classes \cap m.classes # {}
                   PROVE  l.instant \/ m.instant
        OBVIOUS
      <3>1. l \notin G /\ m \notin G
        BY <1>2
      <3> QED
        BY <1>2, <3>1 DEF IInv, TableOK
    <2> QED
      BY <1>2, <2>1 DEF IInv, TableOK
  <1>7. CallsOK'
    BY <1>1, <1>2, <1>3 DEF IInv, CallsOK
  <1>8. Procs'
    <2>1. \A u \in Threads : \A m, n \in DOMAIN todo'[u] : todo'[u][m] = todo'[u][n] => m = n
      BY <1>2 DEF IInv, Procs
    <2>2. k \notin KindsOf(active') /\ k \notin G
      BY <1>1, <1>2, <1>4
    <2>3. ToSet(todo[t]) = {}
      BY <1>1 DEF ToSet
    <2>4. \A l \in JobKinds : l \in ToSet(todo'[t]) <=> l \in G
      BY <1>2, MarksAreNoKinds
    <2>5. \A l \in JobKinds : l.proc =>
            IF l \in KindsOf(active)' THEN Somewhere(l)' ELSE Nowhere(l)'
      <3> SUFFICES ASSUME NEW l \in JobKinds, l.proc
                   PROVE  IF l \in KindsOf(active)' THEN Somewhere(l)' ELSE Nowhere(l)'
        OBVIOUS
      <3>1. CASE l = k
        <4>1. /\ l \notin queued' /\ l \notin ToSet(todo'[t]) /\ job'[t] # l
              /\ \A u \in Threads \ {t} : l \notin ToSet(todo'[u]) /\ job'[u] # l
          BY <1>1, <1>2, <1>3, <2>2, <2>4, <3>1, MarksAreNoKinds
        <4>2. Nowhere(l)'
          BY <4>1 DEF Nowhere, InTodo, InJob
        <4> QED
          BY <2>2, <3>1, <4>2
      <3>2. CASE l \in G
        <4>1. l \notin KindsOf(active) /\ l \in KindsOf(active')
          BY <1>2, <1>4, <3>2
        <4>2. l \notin queued /\ \A u \in Threads : l \notin ToSet(todo[u]) /\ job[u] # l
          BY <4>1 DEF IInv, Procs, Nowhere, InTodo, InJob
        <4>3. /\ l \notin queued' /\ l \in ToSet(todo'[t]) /\ job'[t] # l
              /\ \A u \in Threads \ {t} : l \notin ToSet(todo'[u]) /\ job'[u] # l
          BY <1>2, <1>3, <2>4, <3>2, <4>2, MarksAreNoKinds
        <4>4. Somewhere(l)'
          BY <4>3 DEF Somewhere, InTodo, InJob
        <4> QED
          BY <4>1, <4>4
      <3>3. CASE l # k /\ l \notin G
        <4>1. \A u \in Threads : /\ InTodo(l, u)' <=> InTodo(l, u)
                                 /\ InJob(l, u)' <=> InJob(l, u)
          BY <1>0, <1>2, <1>3, <2>3, <2>4, <3>3, MarksAreNoKinds DEF InTodo, InJob
        <4>2. l \in queued' <=> l \in queued
          OBVIOUS
        <4>3. IF l \in KindsOf(active) THEN Somewhere(l) ELSE Nowhere(l)
          BY DEF IInv, Procs
        <4>4. l \in KindsOf(active') <=> l \in KindsOf(active)
          BY <1>2, <3>3
        <4> QED
          BY <4>1, <4>2, <4>3, <4>4, Stays
      <3> QED
        BY <3>1, <3>2, <3>3
    <2>6. \A u \in Threads : job'[u] # None =>
            /\ job'[u] \in KindsOf(active)' /\ \A v \in Threads \ {u} : job'[v] # job'[u]
      BY <1>1, <1>2, <1>3 DEF IInv, Procs
    <2>7. queued' \subseteq {l \in JobKinds : l.proc}
      BY DEF IInv, Procs
    <2> QED
      BY <1>2, <2>1, <2>5, <2>6, <2>7 DEF Procs
  <1>9. Closes'
    <2>1. \A u \in Threads \ {t} : ~ ToClose(u)'
      BY <1>1, <1>2 DEF ToClose
    <2>2. ToClose(t)' <=> KindsOf(active') = {}
      BY <1>2, <1>4, MarksAreNoKinds DEF ToClose
    <2> QED
      BY <1>1, <2>1, <2>2 DEF Closes
  <1> QED
    BY <1>5, <1>6, <1>7, <1>8, <1>9 DEF IInv

(* Whoever works for a job ends it.                                        *)
LEMMA EndKeeps ==
  ASSUME IInv, NEW t \in Threads, End(t)
  PROVE  IInv'
  <1>1. /\ job[t] # None /\ Free(t) /\ UNCHANGED <<queued, closes>>
        /\ job' = [job EXCEPT ![t] = None]
    BY DEF End, EndClientJob
  <1>2. job[t] \in KindsOf(active)
    BY <1>1 DEF IInv, Procs
  <1>3. /\ job[t].id \in Ids(active)
        /\ \A i \in DOMAIN active : First(active, i, job[t].id) => active[i].kind = job[t]
    BY <1>2, FoundById DEF IInv
  <1>4. PICK i \in DOMAIN active : /\ First(active, i, job[t].id)
                                   /\ TakeOver(t, i, <<>>) \/ RemoveEntry(t, i, <<>>)
    BY <1>3 DEF End, EndClientJob
  <1> QED
    BY <1>1, <1>3, <1>4, TakeOverKeeps, RemoveEntryKeeps

-------------------------------------------------------------------------------
(* The threads.                                                            *)

(* What is left to do without its head.                                    *)
LEMMA TailSet ==
  ASSUME NEW T, NEW s \in Seq(T), s # <<>>, \A i, j \in DOMAIN s : s[i] = s[j] => i = j
  PROVE  /\ Tail(s) \in Seq(T) /\ \A i, j \in DOMAIN Tail(s) : Tail(s)[i] = Tail(s)[j] => i = j
         /\ Head(s) \in T /\ Head(s) \in ToSet(s) /\ ToSet(Tail(s)) = ToSet(s) \ {Head(s)}
  <1>1. /\ Tail(s) \in Seq(T) /\ Head(s) \in T /\ Head(s) = s[1] /\ 1 \in DOMAIN s
        /\ Len(s) \in Nat /\ DOMAIN s = 1..Len(s) /\ DOMAIN Tail(s) = 1..Len(s) - 1
    OBVIOUS
  <1>2. \A n \in DOMAIN Tail(s) : n + 1 \in DOMAIN s /\ n + 1 # 1 /\ Tail(s)[n] = s[n + 1]
    BY <1>1
  <1>3. \A n \in DOMAIN s : n # 1 => n - 1 \in DOMAIN Tail(s) /\ Tail(s)[n - 1] = s[n]
    BY <1>1
  <1>4. \A i, j \in DOMAIN Tail(s) : i + 1 = j + 1 => i = j
    BY <1>1
  <1>5. \A i, j \in DOMAIN Tail(s) : Tail(s)[i] = Tail(s)[j] => i = j
    BY <1>2, <1>4
  <1> DEFINE r == Tail(s)
  <1> HIDE DEF r
  <1>6. ToSet(r) = ToSet(s) \ {Head(s)}
    <2>1. \A x : x \in ToSet(s) <=> \E n \in DOMAIN s : s[n] = x
      BY DEF ToSet
    <2>2. \A x : x \in ToSet(r) <=> \E n \in DOMAIN r : r[n] = x
      BY DEF ToSet
    <2>3. \A x \in ToSet(r) : x \in ToSet(s) /\ x # Head(s)
      BY <1>1, <1>2, <2>1, <2>2 DEF r
    <2>4. \A x \in ToSet(s) : x # Head(s) => x \in ToSet(r)
      BY <1>1, <1>3, <2>1, <2>2 DEF r
    <2> QED
      BY <2>3, <2>4
  <1> QED
    BY <1>1, <1>5, <1>6 DEF r, ToSet

(* A thread hands on the first of what it has to queue.                    *)
LEMMA QueueProcKeeps ==
  ASSUME IInv, NEW t \in Threads, QueueProc(t)
  PROVE  IInv'
  <1> DEFINE P == {l \in JobKinds : l.proc} \cup {Close}
  <1>1. PICK h, r : /\ h = Head(todo[t]) /\ r = Tail(todo[t])
    OBVIOUS
  <1>2. /\ todo[t] # <<>> /\ todo' = [todo EXCEPT ![t] = r]
        /\ UNCHANGED <<active, pending, activeFlags, filter, call, job>>
        /\ h = Close => closes' = closes + 1 /\ UNCHANGED queued
        /\ h # Close => queued' = queued \cup {h} /\ UNCHANGED closes
    BY <1>1 DEF QueueProc, table
  <1>3. /\ todo[t] \in Seq(P) /\ \A i, j \in DOMAIN todo[t] : todo[t][i] = todo[t][j] => i = j
    BY DEF IInv, Procs
  <1>4. /\ r \in Seq(P) /\ \A i, j \in DOMAIN r : r[i] = r[j] => i = j
        /\ h \in P /\ h \in ToSet(todo[t]) /\ ToSet(r) = ToSet(todo[t]) \ {h}
    <2> HIDE DEF P
    <2> QED
      BY <1>1, <1>2, <1>3, TailSet
  <1>5. /\ \A u \in Threads \ {t} : todo'[u] = todo[u]
        /\ todo'[t] = r /\ todo' \in [Threads -> Seq(P)]
    BY <1>2, <1>4 DEF IInv, Procs
  <1>6. Entries' /\ CallsOK' /\ TableOK'
    BY <1>2 DEF IInv, Entries, CallsOK, TableOK
  <1>7. Procs'
    <2>1. \A u \in Threads : \A i, j \in DOMAIN todo'[u] : todo'[u][i] = todo'[u][j] => i = j
      BY <1>4, <1>5 DEF IInv, Procs
    <2>2. queued' \subseteq {l \in JobKinds : l.proc}
      BY <1>2, <1>4 DEF IInv, Procs
    <2>3. \A l \in JobKinds : l.proc =>
            IF l \in KindsOf(active)' THEN Somewhere(l)' ELSE Nowhere(l)'
      <3> SUFFICES ASSUME NEW l \in JobKinds, l.proc
                   PROVE  IF l \in KindsOf(active)' THEN Somewhere(l)' ELSE Nowhere(l)'
        OBVIOUS
      <3>0. IF l \in KindsOf(active) THEN Somewhere(l) ELSE Nowhere(l)
        BY DEF IInv, Procs
      <3>1. CASE l = h
        <4>1. InTodo(l, t) /\ l # Close
          BY <1>4, <3>1, MarksAreNoKinds DEF InTodo
        <4>2. l \in KindsOf(active) /\ Somewhere(l)
          BY <3>0, <4>1 DEF Nowhere
        <4>3. \A u \in Threads : job[u] # l
          BY <4>1, <4>2 DEF Somewhere, InTodo, InJob
        <4>4. \A u \in Threads \ {t} : l \notin ToSet(todo[u])
          BY <4>1, <4>2 DEF Somewhere, InTodo, InJob
        <4>5. l \in queued' /\ \A u \in Threads : l \notin ToSet(todo'[u]) /\ job'[u] # l
          BY <1>2, <1>4, <1>5, <3>1, <4>1, <4>3, <4>4
        <4>6. Somewhere(l)'
          BY <4>5 DEF Somewhere, InTodo, InJob
        <4> QED
          BY <1>2, <4>2, <4>6
      <3>2. CASE l # h
        <4>1. \A u \in Threads : /\ InTodo(l, u)' <=> InTodo(l, u)
                                 /\ InJob(l, u)' <=> InJob(l, u)
          BY <1>2, <1>4, <1>5, <3>2 DEF InTodo, InJob
        <4>2. l \in queued' <=> l \in queued
          BY <1>2, <3>2
        <4> QED
          BY <1>2, <3>0, <4>1, <4>2, Stays
      <3> QED
        BY <3>1, <3>2
    <2>4. \A u \in Threads : job'[u] # None =>
            /\ job'[u] \in KindsOf(active)' /\ \A v \in Threads \ {u} : job'[v] # job'[u]
      BY <1>2 DEF IInv, Procs
    <2> QED
      BY <1>5, <2>1, <2>2, <2>3, <2>4 DEF Procs
  <1>8. Closes'
    <2>1. \A u \in Threads \ {t} : ToClose(u)' <=> ToClose(u)
      BY <1>5 DEF ToClose
    <2>2. CASE h = Close
      <3>1. ToClose(t) /\ ~ ToClose(t)'
        BY <1>4, <1>5, <2>2 DEF ToClose
      <3>2. closes = 0 /\ \A u \in Threads \ {t} : ~ ToClose(u)
        BY <3>1 DEF IInv, Closes
      <3>3. KindsOf(active) = {}
        BY <3>1 DEF IInv, Closes
      <3> QED
        BY <1>2, <2>1, <2>2, <3>1, <3>2, <3>3 DEF Closes
    <2>3. CASE h # Close
      <3>1. \A u \in Threads : ToClose(u)' <=> ToClose(u)
        BY <1>4, <1>5, <2>1, <2>3 DEF ToClose
      <3>2. closes' = closes /\ active' = active
        BY <1>2, <2>3
      <3> QED
        BY <3>1, <3>2 DEF IInv, Closes
    <2> QED
      BY <2>2, <2>3
  <1> QED
    BY <1>6, <1>7, <1>8 DEF IInv

(* A worker takes the proc of a job.                                       *)
LEMMA TakeProcKeeps ==
  ASSUME IInv, NEW t \in Threads, TakeProc(t)
  PROVE  IInv'
  <1>1. PICK k \in queued : job' = [job EXCEPT ![t] = k] /\ queued' = queued \ {k}
    BY DEF TakeProc
  <1>2. /\ call[t] = None /\ job[t] = None
        /\ UNCHANGED <<active, pending, activeFlags, filter, closes, todo, call>>
    BY DEF TakeProc, Free, table
  <1>3. k \in JobKinds /\ k.proc
    BY DEF IInv, Procs
  <1>4. k \in KindsOf(active) /\ Somewhere(k)
    BY <1>3 DEF IInv, Procs, Nowhere
  <1>5. \A u \in Threads : k \notin ToSet(todo[u]) /\ job[u] # k
    BY <1>4 DEF Somewhere, InTodo, InJob
  <1>6. /\ \A u \in Threads \ {t} : job'[u] = job[u]
        /\ job'[t] = k /\ job' \in [Threads -> {None} \cup JobKinds]
    BY <1>1, <1>3 DEF IInv, CallsOK
  <1>7. Entries' /\ TableOK' /\ Closes'
    BY <1>2 DEF IInv, Entries, TableOK, Closes, ToClose
  <1>8. CallsOK'
    BY <1>2, <1>6 DEF IInv, CallsOK
  <1>9. Procs'
    <2>1. \A l \in JobKinds : l.proc =>
            IF l \in KindsOf(active)' THEN Somewhere(l)' ELSE Nowhere(l)'
      <3> SUFFICES ASSUME NEW l \in JobKinds, l.proc
                   PROVE  IF l \in KindsOf(active)' THEN Somewhere(l)' ELSE Nowhere(l)'
        OBVIOUS
      <3>1. CASE l = k
        <4>1. /\ l \notin queued' /\ l \notin ToSet(todo'[t]) /\ job'[t] = l
              /\ \A u \in Threads \ {t} : l \notin ToSet(todo'[u]) /\ job'[u] # l
          BY <1>1, <1>2, <1>5, <1>6, <3>1
        <4>2. Somewhere(l)'
          BY <4>1 DEF Somewhere, InTodo, InJob
        <4> QED
          BY <1>2, <1>4, <3>1, <4>2
      <3>2. CASE l # k
        <4>1. \A u \in Threads : /\ InTodo(l, u)' <=> InTodo(l, u)
                                 /\ InJob(l, u)' <=> InJob(l, u)
          BY <1>2, <1>6, <3>2, MarksAreNoKinds DEF InTodo, InJob
        <4>2. l \in queued' <=> l \in queued
          BY <1>1, <3>2
        <4>3. IF l \in KindsOf(active) THEN Somewhere(l) ELSE Nowhere(l)
          BY DEF IInv, Procs
        <4> QED
          BY <1>2, <4>1, <4>2, <4>3, Stays
      <3> QED
        BY <3>1, <3>2
    <2>2. \A u \in Threads : job'[u] # None =>
            /\ job'[u] \in KindsOf(active)' /\ \A v \in Threads \ {u} : job'[v] # job'[u]
      BY <1>2, <1>4, <1>5, <1>6 DEF IInv, Procs
    <2> QED
      BY <1>1, <1>2, <2>1, <2>2 DEF IInv, Procs
  <1> QED
    BY <1>7, <1>8, <1>9 DEF IInv

(* A completion of an INSTANT job's I/O.                                   *)
LEMMA CallbackKeeps ==
  ASSUME IInv, NEW t \in Threads, Callback(t)
  PROVE  IInv'
  <1>1. PICK e \in ToSet(active) : /\ ~ e.kind.proc /\ \A u \in Threads : job[u] # e.kind
                                   /\ job' = [job EXCEPT ![t] = e.kind]
    BY DEF Callback
  <1>2. /\ call[t] = None /\ job[t] = None
        /\ UNCHANGED <<active, pending, activeFlags, filter, queued, closes, todo, call>>
    BY DEF Callback, Free, table
  <1>3. PICK k : k = e.kind
    OBVIOUS
  <1>4. k \in KindsOf(active) /\ k \in JobKinds
    <2>1. k \in KindsOf(active)
      BY <1>3 DEF KindsOf, ToSet
    <2> QED
      BY <2>1, NoKinds DEF IInv, Entries
  <1>6. /\ \A u \in Threads \ {t} : job'[u] = job[u]
        /\ job'[t] = k /\ job' \in [Threads -> {None} \cup JobKinds]
    BY <1>1, <1>3, <1>4 DEF IInv, CallsOK
  <1>7. Entries' /\ TableOK' /\ Closes'
    BY <1>2 DEF IInv, Entries, TableOK, Closes, ToClose
  <1>8. CallsOK'
    BY <1>2, <1>6 DEF IInv, CallsOK
  <1>9. Procs'
    <2>1. \A l \in JobKinds : l.proc =>
            IF l \in KindsOf(active)' THEN Somewhere(l)' ELSE Nowhere(l)'
      <3> SUFFICES ASSUME NEW l \in JobKinds, l.proc
                   PROVE  IF l \in KindsOf(active)' THEN Somewhere(l)' ELSE Nowhere(l)'
        OBVIOUS
      <3>1. l # k
        BY <1>1, <1>3
      <3>2. \A u \in Threads : /\ InTodo(l, u)' <=> InTodo(l, u)
                               /\ InJob(l, u)' <=> InJob(l, u)
        BY <1>2, <1>6, <3>1, MarksAreNoKinds DEF InTodo, InJob
      <3>3. l \in queued' <=> l \in queued
        BY <1>2
      <3>4. IF l \in KindsOf(active) THEN Somewhere(l) ELSE Nowhere(l)
        BY DEF IInv, Procs
      <3> QED
        BY <1>2, <3>2, <3>3, <3>4, Stays
    <2>2. \A u \in Threads : job'[u] # None =>
            /\ job'[u] \in KindsOf(active)' /\ \A v \in Threads \ {u} : job'[v] # job'[u]
      BY <1>1, <1>2, <1>3, <1>4, <1>6 DEF IInv, Procs
    <2> QED
      BY <1>2, <2>1, <2>2 DEF IInv, Procs
  <1> QED
    BY <1>7, <1>8, <1>9 DEF IInv

(* The filter drops what waits and is not exclusive.                       *)
LEMMA KillKeeps ==
  ASSUME IInv, Kill
  PROVE  IInv'
  <1> DEFINE I == {i \in DOMAIN pending :
                     pending[i].kind.exclusive \/ pending[i].kind.classes \cap ALL = {}}
  <1>1. /\ filter' = ALL /\ pending' = Sub(pending, I)
        /\ UNCHANGED <<active, activeFlags, queued, closes, todo, call, job>>
    BY DEF Kill, SetJobFilter
  <1>2. /\ pending' \in Seq(Entry) /\ Distinct(pending')
        /\ KindsOf(pending') = {pending[i].kind : i \in I}
    <2>1. I \in SUBSET DOMAIN pending /\ pending \in Seq(Entry) /\ Distinct(pending)
      BY DEF IInv, Entries
    <2> HIDE DEF I
    <2> QED
      BY <1>1, <2>1, SubKinds
  <1>3. \A k \in KindsOf(pending') : k \in KindsOf(pending) /\ (k.exclusive \/ k.classes \cap ALL = {})
    BY <1>2 DEF KindsOf
  <1> HIDE DEF I
  <1>4. Entries'
    BY <1>1, <1>2, <1>3 DEF IInv, Entries
  <1>5. TableOK'
    <2>1. \A k \in KindsOf(pending') : k.exclusive
      <3> TAKE k \in KindsOf(pending')
      <3>1. k \in Kind /\ k.classes \cap activeFlags # {}
        BY <1>3, NoKinds, MarksAreNoKinds DEF IInv, Entries, TableOK
      <3>2. k.classes \cap ALL # {}
        BY <3>1 DEF Kind
      <3> QED
        BY <1>3, <3>2
    <2> QED
      BY <1>1, <1>3, <2>1 DEF IInv, TableOK
  <1>6. CallsOK' /\ Procs' /\ Closes'
    BY <1>1, <1>3 DEF IInv, CallsOK, Procs, Closes, ToClose, Somewhere, Nowhere, InTodo, InJob
  <1> QED
    BY <1>4, <1>5, <1>6 DEF IInv

-------------------------------------------------------------------------------
(* The invariant holds.                                                    *)

(* The first job is active and its proc is queued.                         *)
LEMMA InitIInv == Init => IInv
  <1> SUFFICES ASSUME Init PROVE IInv
    OBVIOUS
  <1>1. /\ active \in Seq(Entry) /\ Distinct(active) /\ KindsOf(active) = {FirstJob}
        /\ FirstJob \in JobKinds /\ FirstJob.proc /\ FirstJob # None
    BY KindsAssumption, OneKind, MarksAreNoKinds DEF Init
  <1>2. pending \in Seq(Entry) /\ Distinct(pending) /\ KindsOf(pending) = {}
    BY DEF Init, Distinct, KindsOf
  <1>3. /\ \A t \in Threads : todo[t] = <<>> /\ ToSet(todo[t]) = {} /\ call[t] = None /\ job[t] = None
        /\ queued = {FirstJob} /\ closes = 0 /\ filter = {} /\ activeFlags = FirstJob.classes
    BY DEF Init, ToSet
  <1>4. Entries
    BY <1>1, <1>2 DEF Entries
  <1>5. CallsOK
    <2>1. /\ call \in [Threads -> {None} \cup [id : {"add", "addExclusive", "blocked"}, kind : JobKinds]]
          /\ job \in [Threads -> {None} \cup JobKinds]
      BY DEF Init
    <2> QED
      BY <1>3, <2>1 DEF CallsOK
  <1>6. TableOK
    BY <1>1, <1>2, <1>3 DEF TableOK
  <1>7. Procs
    <2>1. \A k \in JobKinds : k.proc => IF k \in KindsOf(active) THEN Somewhere(k) ELSE Nowhere(k)
      BY <1>1, <1>3, MarksAreNoKinds DEF Somewhere, Nowhere, InTodo, InJob
    <2>2. todo \in [Threads -> Seq({k \in JobKinds : k.proc} \cup {Close})]
      BY DEF Init
    <2>3. \A t \in Threads : \A i, j \in DOMAIN todo[t] : todo[t][i] = todo[t][j] => i = j
      BY <1>3
    <2> QED
      BY <1>1, <1>3, <2>1, <2>2, <2>3 DEF Procs
  <1>8. Closes
    <2>1. \A t \in Threads : ~ ToClose(t)
      BY <1>3 DEF ToClose
    <2>2. KindsOf(active) # {} /\ closes = 0
      BY <1>1, <1>3
    <2> QED
      BY <2>1, <2>2 DEF Closes
  <1> QED
    BY <1>4, <1>5, <1>6, <1>7, <1>8 DEF IInv

(* Every step of a thread, and of whoever kills the client, keeps it.      *)
LEMMA NextIInv == IInv /\ [Next]_cjvars => IInv'
  <1> SUFFICES ASSUME IInv, [Next]_cjvars PROVE IInv'
    OBVIOUS
  <1>1. ASSUME NEW t \in Threads, Step(t) PROVE IInv'
    BY <1>1, AddKeeps, EndKeeps, QueueProcKeeps, TakeProcKeeps, CallbackKeeps DEF Step
  <1>2. ASSUME NEW t \in Threads, Add(t) PROVE IInv'
    <2>1. PICK k \in JobKinds : IF k.instant /\ k.proc
                                  THEN TestFilter(t, k, "addExclusive")
                                  ELSE Unused(k.id) /\ TestFilter(t, k, "add")
      BY <1>2 DEF Add
    <2>2. job[t] # None
      BY <1>2 DEF Add
    <2>3. CASE Extends(k)
      <3>1. TestFilter(t, k, "addExclusive")
        BY <2>1, <2>3 DEF Extends
      <3> QED
        BY <2>2, <2>3, <3>1, TestFilterKeeps
    <2>4. CASE ~ Extends(k)
      <3>1. Unused(k.id) /\ TestFilter(t, k, "add")
        BY <2>1, <2>4 DEF Extends
      <3> QED
        BY <2>2, <2>4, <3>1, TestFilterKeeps
    <2> QED
      BY <2>3, <2>4
  <1>3. CASE Kill
    BY <1>3, KillKeeps
  <1>4. CASE UNCHANGED cjvars
    BY <1>4 DEF cjvars, IInv, Entries, CallsOK, TableOK, Procs, Closes, ToClose,
                Somewhere, Nowhere, InTodo, InJob
  <1> QED
    BY <1>1, <1>2, <1>3, <1>4 DEF Next

(* The invariant holds throughout.                                         *)
LEMMA IInvKept == Spec => []IInv
  BY InitIInv, NextIInv, PTL DEF Spec

(* Where the right to run a proc is one place.                             *)
LEMMA OnePlace ==
  ASSUME IInv, NEW k \in JobKinds, k.proc
  PROVE  Places(k) = IF k \in KindsOf(active) THEN 1 ELSE 0
  <1> DEFINE A == {t \in Threads : k \in ToSet(todo[t])}
             B == {t \in Threads : job[t] = k}
  <1>1. Places(k) = Cardinality(A) + Cardinality(B) + (IF k \in queued THEN 1 ELSE 0)
    BY DEF Places
  <1>2. CASE k \in KindsOf(active)
    <2>1. Somewhere(k)
      BY <1>2 DEF IInv, Procs
    <2>2. CASE k \in queued /\ \A t \in Threads : ~ InTodo(k, t) /\ ~ InJob(k, t)
      <3>1. A = {} /\ B = {}
        BY <2>2 DEF InTodo, InJob
      <3>2. Cardinality(A) = 0 /\ Cardinality(B) = 0
        BY <3>1, FS_EmptySet
      <3> HIDE DEF A, B
      <3> QED
        BY <1>1, <1>2, <2>2, <3>2
    <2>3. ASSUME NEW t \in Threads, k \notin queued, InTodo(k, t), ~ InJob(k, t),
                 \A u \in Threads \ {t} : ~ InTodo(k, u) /\ ~ InJob(k, u)
          PROVE  Places(k) = 1
      <3>1. A = {t} /\ B = {}
        BY <2>3 DEF InTodo, InJob
      <3>2. Cardinality(A) = 1 /\ Cardinality(B) = 0
        BY <3>1, FS_EmptySet, FS_Singleton
      <3> HIDE DEF A, B
      <3> QED
        BY <1>1, <2>3, <3>2
    <2>4. ASSUME NEW t \in Threads, k \notin queued, ~ InTodo(k, t), InJob(k, t),
                 \A u \in Threads \ {t} : ~ InTodo(k, u) /\ ~ InJob(k, u)
          PROVE  Places(k) = 1
      <3>1. A = {} /\ B = {t}
        BY <2>4 DEF InTodo, InJob
      <3>2. Cardinality(A) = 0 /\ Cardinality(B) = 1
        BY <3>1, FS_EmptySet, FS_Singleton
      <3> HIDE DEF A, B
      <3> QED
        BY <1>1, <2>4, <3>2
    <2> QED
      BY <1>2, <2>1, <2>2, <2>3, <2>4 DEF Somewhere
  <1>3. CASE k \notin KindsOf(active)
    <2>1. Nowhere(k)
      BY <1>3 DEF IInv, Procs
    <2>2. A = {} /\ B = {} /\ k \notin queued
      BY <2>1 DEF Nowhere, InTodo, InJob
    <2>3. Cardinality(A) = 0 /\ Cardinality(B) = 0
      BY <2>2, FS_EmptySet
    <2> HIDE DEF A, B
    <2> QED
      BY <1>1, <1>3, <2>2, <2>3
  <1> QED
    BY <1>2, <1>3

(* What the invariant says of kinds and tokens is what JobsInv says of the *)
(* sequences and of how many places a proc is in.                          *)
LEMMA IInvAgrees == IInv => JobsInv
  <1> SUFFICES ASSUME IInv PROVE JobsInv
    OBVIOUS
  <1>1. TableInv
    <2>1. /\ active \in Seq(Entry) /\ pending \in Seq(Entry) /\ filter \in {{}, ALL}
      BY DEF IInv, Entries, TableOK
    <2>2. activeFlags = Classes(active)
      <3>1. Classes(active) = UNION {k.classes : k \in KindsOf(active)}
        BY TableKinds
      <3> QED
        BY <3>1 DEF IInv, TableOK
    <2>3. \A i \in DOMAIN pending : pending[i].kind \in KindsOf(pending)
      BY DEF KindsOf
    <2>4. \A i \in DOMAIN active : active[i].kind \in KindsOf(active)
      BY DEF KindsOf
    <2>5. \A i, j \in DOMAIN active : i # j => active[i].kind # active[j].kind
      BY DEF IInv, Entries, Distinct
    <2>6. ClassesExclude
      BY <2>4, <2>5 DEF ClassesExclude, IInv, TableOK
    <2>7. FilterDrains /\ \A i \in DOMAIN pending : pending[i].kind.classes \cap activeFlags # {}
      BY <2>3 DEF FilterDrains, IInv, TableOK
    <2> QED
      BY <2>1, <2>2, <2>6, <2>7 DEF TableInv
  <1>2. StartedOnce
    <2> SUFFICES ASSUME NEW k \in JobKinds, k.proc
                 PROVE  Places(k) = IF k \in Starting THEN 1 ELSE 0
      BY DEF StartedOnce
    <2>1. k \in Starting <=> k \in KindsOf(active)
      <3>1. {e.kind : e \in ToSet(active)} = KindsOf(active)
        BY TableKinds
      <3>2. k \in Starting <=> k \in {e.kind : e \in ToSet(active)}
        BY DEF Starting
      <3> QED
        BY <3>1, <3>2
    <2> QED
      BY <2>1, OnePlace
  <1>3. ClosedOnce
    <2> DEFINE C == {t \in Threads : Close \in ToSet(todo[t])}
    <2>1. (active = <<>> /\ pending = <<>>) <=> KindsOf(active) = {}
      <3>1. (active = <<>> <=> KindsOf(active) = {}) /\ (pending = <<>> <=> KindsOf(pending) = {})
        BY NoKinds DEF IInv, Entries
      <3>2. KindsOf(active) = {} => KindsOf(pending) = {}
        BY DEF IInv, TableOK
      <3> QED
        BY <3>1, <3>2
    <2>2. C = {} <=> \A t \in Threads : ~ ToClose(t)
      BY DEF ToClose
    <2>3. (closes > 0 \/ C # {}) <=> KindsOf(active) = {}
      <3>1. closes > 0 <=> closes = 1
        BY DEF IInv, Closes
      <3> HIDE DEF C
      <3> QED
        BY <2>2, <3>1 DEF IInv, Closes
    <2>4. closes + Cardinality(C) <= 1
      <3>1. CASE C = {}
        <4>1. Cardinality(C) = 0
          BY <3>1, FS_EmptySet
        <4> HIDE DEF C
        <4> QED
          BY <4>1 DEF IInv, Closes
      <3>2. CASE C # {}
        <4>1. PICK t \in Threads : ToClose(t)
          BY <2>2, <3>2
        <4>2. closes = 0 /\ \A u \in Threads \ {t} : ~ ToClose(u)
          BY <4>1 DEF IInv, Closes
        <4>3. C = {t}
          BY <4>1, <4>2 DEF ToClose
        <4>4. Cardinality(C) = 1
          BY <4>3, FS_Singleton
        <4> HIDE DEF C
        <4> QED
          BY <4>2, <4>4
      <3> QED
        BY <3>1, <3>2
    <2>5. closes + Cardinality(C) <= 1 /\ ((closes > 0 \/ C # {}) <=> (active = <<>> /\ pending = <<>>))
      <3> HIDE DEF C
      <3> QED
        BY <2>1, <2>3, <2>4
    <2> QED
      BY <2>5 DEF ClosedOnce
  <1> QED
    BY <1>1, <1>2, <1>3 DEF JobsInv

(* However the threads of a client interleave between lJobLock and         *)
(* QueueJob, the table is consistent, the proc of every active job is in   *)
(* exactly one place and lpCloseProc is queued once, after the last job    *)
(* (MessageHandler.c 1640-1770).                                           *)
THEOREM JobsAgree == Spec => []JobsInv
  BY IInvKept, IInvAgrees, PTL
=============================================================================
