------------------------ MODULE ClientRegistry_proofs ------------------------
(***************************************************************************)
(* The client registry for any numbers of connections, slots, hosts,       *)
(* resolvers and killers: the records of hosts are counted by who uses     *)
(* them, a slot has one client, the counters of log-ins are those who are  *)
(* logged in, and no limit is exceeded.                                    *)
(***************************************************************************)
EXTENDS ClientRegistry, FiniteSetTheorems, SequenceTheorems, TLAPS

-------------------------------------------------------------------------------
(* The hosts.                                                              *)

Record == [live : BOOLEAN, address : Addresses \cup {NoInfo}, dwShareCount : Int,
           dwAttemptCount : Int, cached : BOOLEAN, lpClass : Classes \cup {NoClass},
           lConnectionsPerHost : Int, dwClassListId : Nat, lClients : Int,
           lpNext : SUBSET Clients]
Resolving == [at : {"off", "pop", "resolve", "release", "released"},
              host : Infos \cup {NoInfo}, list : SUBSET Clients, dwCount : Nat]

HostTypes ==
  /\ info \in [Infos -> Record]
  /\ lpFreeHostList \in Seq(Infos) /\ lpResolveList \in Seq(Infos)
  /\ dwClassListId \in DOMAIN Rules
  /\ dwResolveThreads \in Int
  /\ resolver \in [Resolvers -> Resolving]
  /\ conn \in [Clients -> {"new", "identify", "waiting", "process", "online", "gone"}]
  /\ hostOf \in [Clients -> Infos \cup {NoInfo}]

Records ==
  /\ lpHostArray = {i \in Infos : info[i].live}
  /\ \A i \in Infos : info[i].live => info[i].address \in Addresses
  /\ \A i \in Infos : ~ info[i].live => info[i] = NoHost
  /\ \A i, j \in lpHostArray : info[i].address = info[j].address => i = j
  /\ \A c \in Clients : hostOf[c] \in Infos => info[hostOf[c]].live

Shares ==
  /\ \A i \in Infos : info[i].dwShareCount = Holders(i)
  /\ ToSet(lpFreeHostList) = {i \in lpHostArray : info[i].dwShareCount = 0}
  /\ IsInjective(lpFreeHostList)

\* What a resolver thread has, by where it is.
ResolverOK(r) ==
  /\ resolver[r].at \in {"off", "pop"} => resolver[r].host = NoInfo
  /\ resolver[r].at \in {"resolve", "release", "released"} => resolver[r].host \in Infos
  /\ resolver[r].at # "release" => resolver[r].list = {}
  /\ resolver[r].at # "released" => resolver[r].dwCount = 0
  /\ resolver[r].dwCount <= Cardinality(Clients)

LooksUp(r, i) == resolver[r].at = "resolve" /\ resolver[r].host = i

\* Who waits is in one queue; a queue that is not empty has one resolver to come.
Queues ==
  /\ \A r \in Resolvers : ResolverOK(r)
  /\ IsInjective(lpResolveList)
  /\ \A i \in Infos : info[i].lpNext # {} <=>
       i \in ToSet(lpResolveList) \/ \E r \in Resolvers : LooksUp(r, i)
  /\ \A r \in Resolvers, i \in Infos : LooksUp(r, i) =>
       /\ i \notin ToSet(lpResolveList)
       /\ \A q \in Resolvers \ {r} : ~ LooksUp(q, i)
  /\ \A i \in Infos : \A c \in info[i].lpNext :
       /\ conn[c] = "waiting" /\ hostOf[c] = i
       /\ \A r \in Resolvers : c \notin resolver[r].list
  /\ \A r \in Resolvers : \A c \in resolver[r].list :
       /\ conn[c] = "waiting" /\ hostOf[c] = resolver[r].host
       /\ \A q \in Resolvers \ {r} : c \notin resolver[q].list
  /\ \A c \in Clients : conn[c] = "waiting" =>
       c \in info[hostOf[c]].lpNext \/ \E r \in Resolvers : c \in resolver[r].list
  /\ dwResolveThreads = Cardinality({r \in Resolvers : resolver[r].at # "off"})
  /\ lpResolveList # <<>> => dwResolveThreads > 0

-------------------------------------------------------------------------------
(* The clients.                                                            *)

Op == [at : {"idle", "look", "exchange", "again", "use", "publish", "registered", "locked", "next",
             "compare", "decide", "accepted", "undo", "leaving", "closing"},
       slot : Slots \cup {0}, then : {"idle", "use", "locked", "compare", "undo"},
       got : Clients \cup {NoOne}, n : Nat, iCount : Nat, code : Int]

LockCalls == {"look", "exchange", "again"}

ClientTypes ==
  /\ op \in [Actors -> Op]
  /\ lpClientArray \in [Slots -> Clients \cup {NoOne}]
  /\ lpClientSlotList \in Seq(Slots)
  /\ csClientArray \in Clients \cup {NoOne}
  /\ slotOf \in [Clients -> Slots \cup {0}]
  /\ uid \in [Clients -> Users \cup {NoOne}]
  /\ lClients \in [service : Int, class : [Classes -> Int], user : [Users -> Int]]

\* Whether c is in `place`, or in LockClient on its way there.
Going(c, place) == At(c, place) \/ (op[c].at \in LockCalls /\ op[c].then = place)

InArray(c) == op[c].at \in {"publish", "next", "decide", "leaving"} \/ Going(c, "compare")

Places ==
  /\ \A x \in Actors : op[x].at \in LockCalls => op[x].slot \in Slots /\ op[x].then # "idle"
  /\ \A k \in Killers : op[k].at \in LockCalls \cup {"idle", "use"} /\ (op[k].at \in LockCalls => op[k].then = "use")
  /\ \A c \in Clients :
       /\ op[c].at # "use" /\ (op[c].at \in LockCalls => op[c].then # "use")
       /\ op[c].at \in {"publish", "registered"} => conn[c] = "process"
       /\ op[c].at \notin {"idle", "publish", "registered"} => conn[c] = "online"
       /\ hostOf[c] # NoInfo <=> \/ conn[c] \in {"identify", "waiting", "process"}
                                 \/ (conn[c] = "online" /\ ~ At(c, "closing"))
       /\ csClientArray = c <=> InArray(c)

SlotsOK ==
  /\ \A c \in Clients : Present(c) \/ At(c, "publish") => slotOf[c] \in Slots
  /\ \A c \in Clients, n \in Slots : lpClientArray[n] = c <=> Present(c) /\ slotOf[c] = n
  /\ \A c \in Clients : At(c, "publish") => lpClientArray[slotOf[c]] = NoOne
  /\ ToSet(lpClientSlotList) =
       {n \in Slots : lpClientArray[n] = NoOne /\ \A c \in Clients : At(c, "publish") => slotOf[c] # n}
  /\ IsInjective(lpClientSlotList)

LogsIn(c) == Going(c, "locked") \/ Going(c, "compare") \/ op[c].at \in {"next", "decide", "accepted"}

LoginsOK ==
  /\ \A c \in Clients :
       /\ uid[c] \in {NoOne, UserOf[c]}
       /\ uid[c] # NoOne => conn[c] = "online"
       /\ LogsIn(c) => uid[c] = NoOne /\ UserOf[c] \in Users
       /\ Going(c, "undo") => uid[c] # NoOne
  /\ lClients.service = Cardinality({c \in Clients : Online(c)})
  /\ \A i \in Infos : info[i].lClients = Cardinality({c \in Clients : Online(c) /\ hostOf[c] = i})
  /\ \A u \in Users : lClients.user[u] = Cardinality({c \in Clients : OfUser(c, u)})

\* Whom the limits have let in so far: nobody else comes in before.
Passed(c) ==
  /\ Going(c, "compare") \/ At(c, "next") \/ (At(c, "decide") /\ op[c].code = 0)
  /\ UserOf[c] \notin MayFill

LimitsOK ==
  /\ LimitsKept
  /\ \A c \in Clients : Passed(c) =>
       ~ Full(lMaxClients, lClients.service) /\ ~ Full(Limits[UserOf[c]], lClients.user[UserOf[c]])

IInv ==
  /\ HostTypes /\ Records /\ Shares /\ Queues
  /\ ClientTypes /\ Places /\ SlotsOK /\ LoginsOK /\ LimitsOK

-------------------------------------------------------------------------------
(* Lists without repetition.                                               *)

(* What is put behind a list is one more element of it.                    *)
LEMMA OneMore ==
  ASSUME NEW S, NEW s \in Seq(S), NEW e \in S, IsInjective(s), e \notin ToSet(s)
  PROVE  /\ Append(s, e) \in Seq(S) /\ IsInjective(Append(s, e))
         /\ ToSet(Append(s, e)) = ToSet(s) \cup {e}
  <1>1. DOMAIN s = 1..Len(s) /\ Len(s) \in Nat /\ \A i \in 1..Len(s) : s[i] \in S /\ s[i] # e
    BY DEF ToSet
  <1>2. /\ Append(s, e) \in Seq(S) /\ DOMAIN Append(s, e) = 1..Len(s) + 1
        /\ \A i \in 1..Len(s) + 1 : Append(s, e)[i] = IF i = Len(s) + 1 THEN e ELSE s[i]
    BY <1>1
  <1>3. IsInjective(Append(s, e))
    BY <1>1, <1>2 DEF IsInjective
  <1>4. ToSet(Append(s, e)) = ToSet(s) \cup {e}
    BY <1>1, <1>2 DEF ToSet
  <1> QED
    BY <1>2, <1>3, <1>4

(* So is what is put in front of it.                                       *)
LEMMA OneInFront ==
  ASSUME NEW S, NEW s \in Seq(S), NEW e \in S, IsInjective(s), e \notin ToSet(s)
  PROVE  /\ <<e>> \o s \in Seq(S) /\ IsInjective(<<e>> \o s)
         /\ ToSet(<<e>> \o s) = ToSet(s) \cup {e}
  <1>1. DOMAIN s = 1..Len(s) /\ Len(s) \in Nat /\ \A i \in 1..Len(s) : s[i] \in S /\ s[i] # e
    BY DEF ToSet
  <1>2. /\ <<e>> \o s \in Seq(S) /\ DOMAIN (<<e>> \o s) = 1..Len(s) + 1
        /\ \A i \in 1..Len(s) + 1 : (<<e>> \o s)[i] = IF i = 1 THEN e ELSE s[i - 1]
    BY <1>1
  <1>3. IsInjective(<<e>> \o s)
    <2> SUFFICES ASSUME NEW i \in 1..Len(s) + 1, NEW j \in 1..Len(s) + 1,
                        (<<e>> \o s)[i] = (<<e>> \o s)[j]
                 PROVE  i = j
      BY <1>2 DEF IsInjective
    <2>1. CASE i = 1 \/ j = 1
      BY <1>1, <1>2, <2>1
    <2>2. CASE i # 1 /\ j # 1
      <3>1. i - 1 \in 1..Len(s) /\ j - 1 \in 1..Len(s) /\ s[i - 1] = s[j - 1]
        BY <1>1, <1>2, <2>2
      <3> QED
        BY <1>1, <3>1 DEF IsInjective
    <2> QED
      BY <2>1, <2>2
  <1>4. ToSet(<<e>> \o s) = ToSet(s) \cup {e}
    <2>1. ASSUME NEW i \in 1..Len(s) + 1 PROVE (<<e>> \o s)[i] \in ToSet(s) \cup {e}
      BY <1>1, <1>2 DEF ToSet
    <2>2. ASSUME NEW i \in 1..Len(s) PROVE s[i] \in ToSet(<<e>> \o s)
      <3>1. i + 1 \in 1..Len(s) + 1 /\ (<<e>> \o s)[i + 1] = s[i]
        BY <1>1, <1>2
      <3> QED
        BY <1>2, <3>1 DEF ToSet
    <2>3. e \in ToSet(<<e>> \o s)
      BY <1>1, <1>2 DEF ToSet
    <2>4. ToSet(<<e>> \o s) = {(<<e>> \o s)[i] : i \in 1..Len(s) + 1} /\ ToSet(s) = {s[i] : i \in 1..Len(s)}
      BY <1>1, <1>2 DEF ToSet
    <2> QED
      BY <2>1, <2>2, <2>3, <2>4
  <1> QED
    BY <1>2, <1>3, <1>4

(* The part of a list behind its first n elements has the others.          *)
LEMMA Behind ==
  ASSUME NEW S, NEW s \in Seq(S), IsInjective(s), NEW n \in 0..Len(s)
  PROVE  /\ SubSeq(s, n + 1, Len(s)) \in Seq(S)
         /\ ToSet(SubSeq(s, 1, n)) \subseteq ToSet(s)
         /\ ToSet(SubSeq(s, n + 1, Len(s))) = ToSet(s) \ ToSet(SubSeq(s, 1, n))
         /\ IsInjective(SubSeq(s, n + 1, Len(s)))
  <1> DEFINE a == SubSeq(s, 1, n)
             b == SubSeq(s, n + 1, Len(s))
  <1>1. DOMAIN s = 1..Len(s) /\ Len(s) \in Nat /\ \A i \in 1..Len(s) : s[i] \in S
    OBVIOUS
  <1>2. a \in Seq(S) /\ DOMAIN a = 1..n /\ \A i \in 1..n : a[i] = s[i]
    BY <1>1
  <1>3. /\ b \in Seq(S) /\ DOMAIN b = 1..Len(s) - n
        /\ \A i \in 1..Len(s) - n : n + i \in 1..Len(s) /\ b[i] = s[n + i]
    BY <1>1
  <1>4. IsInjective(b)
    <2> SUFFICES ASSUME NEW i \in 1..Len(s) - n, NEW j \in 1..Len(s) - n, b[i] = b[j] PROVE i = j
      BY <1>3 DEF IsInjective
    <2>1. n + i \in 1..Len(s) /\ n + j \in 1..Len(s) /\ s[n + i] = s[n + j]
      BY <1>3
    <2>2. n + i = n + j
      BY <1>1, <2>1 DEF IsInjective
    <2> QED
      BY <2>2
  <1>5. ToSet(a) \subseteq ToSet(s)
    BY <1>1, <1>2 DEF ToSet
  <1>6. ASSUME NEW i \in 1..Len(s) - n PROVE b[i] \in ToSet(s) /\ b[i] \notin ToSet(a)
    <2>1. n + i \in 1..Len(s) /\ b[i] = s[n + i]
      BY <1>3
    <2>2. \A j \in 1..n : s[j] # s[n + i]
      BY <1>1, <2>1 DEF IsInjective
    <2> QED
      BY <1>1, <1>2, <2>1, <2>2 DEF ToSet
  <1>7. ASSUME NEW j \in 1..Len(s), s[j] \notin ToSet(a) PROVE s[j] \in ToSet(b)
    <2>1. j > n
      BY <1>2, <1>7 DEF ToSet
    <2>2. j - n \in 1..Len(s) - n /\ n + (j - n) = j
      BY <1>1, <2>1
    <2>3. b[j - n] = s[j]
      BY <1>3, <2>2
    <2> QED
      BY <1>3, <2>2, <2>3 DEF ToSet
  <1>8. ToSet(b) = ToSet(s) \ ToSet(a)
    BY <1>1, <1>3, <1>6, <1>7 DEF ToSet
  <1> QED
    BY <1>3, <1>4, <1>5, <1>8

(* The tail of a list has all but its head.                                *)
LEMMA OffTheHead ==
  ASSUME NEW S, NEW s \in Seq(S), IsInjective(s), s # <<>>
  PROVE  /\ Tail(s) \in Seq(S) /\ Head(s) \in ToSet(s) /\ Head(s) \in S
         /\ ToSet(Tail(s)) = ToSet(s) \ {Head(s)} /\ IsInjective(Tail(s))
  <1>1. /\ DOMAIN s = 1..Len(s) /\ Len(s) \in Nat /\ Len(s) >= 1
        /\ Head(s) = s[1] /\ Tail(s) = SubSeq(s, 2, Len(s))
    OBVIOUS
  <1>2. DOMAIN SubSeq(s, 1, 1) = 1..1 /\ SubSeq(s, 1, 1)[1] = s[1]
    BY <1>1
  <1>3. ToSet(SubSeq(s, 1, 1)) = {s[1]}
    BY <1>2 DEF ToSet
  <1>4. 1 \in 0..Len(s) /\ s[1] \in S /\ s[1] \in ToSet(s)
    BY <1>1 DEF ToSet
  <1>5. /\ SubSeq(s, 1 + 1, Len(s)) \in Seq(S)
        /\ ToSet(SubSeq(s, 1 + 1, Len(s))) = ToSet(s) \ ToSet(SubSeq(s, 1, 1))
        /\ IsInjective(SubSeq(s, 1 + 1, Len(s)))
    BY <1>4, Behind
  <1>6. Tail(s) = SubSeq(s, 1 + 1, Len(s)) /\ Head(s) = s[1]
    BY <1>1
  <1> QED
    BY <1>3, <1>4, <1>5, <1>6

(* A list without its nth element.                                         *)
LEMMA WithoutNth ==
  ASSUME NEW S, NEW s \in Seq(S), IsInjective(s), NEW n \in 1..Len(s)
  PROVE  /\ RemoveAt(s, n) \in Seq(S) /\ ToSet(RemoveAt(s, n)) = ToSet(s) \ {s[n]}
         /\ IsInjective(RemoveAt(s, n))
  <1> DEFINE a == SubSeq(s, 1, n - 1)
             b == SubSeq(s, n + 1, Len(s))
             w == a \o b
  <1>1. DOMAIN s = 1..Len(s) /\ Len(s) \in Nat /\ \A i \in 1..Len(s) : s[i] \in S
    OBVIOUS
  <1>2. a \in Seq(S) /\ Len(a) = n - 1 /\ \A i \in 1..n - 1 : a[i] = s[i]
    BY <1>1
  <1>3. b \in Seq(S) /\ Len(b) = Len(s) - n /\ \A i \in 1..Len(s) - n : b[i] = s[n + i]
    <2>1. n + 1 \in 1..Len(s) + 1 /\ Len(s) - n \in Nat
      BY <1>1
    <2>2. b \in Seq(S) /\ Len(b) = Len(s) - n
      <3>1. \A i \in n + 1..Len(s) : s[i] \in S
        BY <1>1
      <3>2. b \in Seq(S) /\ Len(b) = IF n + 1 <= Len(s) THEN Len(s) - (n + 1) + 1 ELSE 0
        BY <1>1, <3>1, SubSeqProperties
      <3>3. \A l, m \in Int : m <= l => (IF m + 1 <= l THEN l - (m + 1) + 1 ELSE 0) = l - m
        OBVIOUS
      <3>4. Len(s) \in Int /\ n \in Int /\ n <= Len(s)
        BY <1>1
      <3>5. (IF n + 1 <= Len(s) THEN Len(s) - (n + 1) + 1 ELSE 0) = Len(s) - n
        BY <3>3, <3>4
      <3> QED
        BY <3>2, <3>5
    <2>3. \A i \in 1..Len(s) - n : b[i] = s[n + i]
      BY <1>1, <2>1
    <2> QED
      BY <2>2, <2>3
  <1> HIDE DEF a, b
  <1>4. w \in Seq(S) /\ Len(w) = Len(s) - 1 /\ DOMAIN w = 1..Len(s) - 1
    <2>1. w \in Seq(S) /\ Len(w) = Len(a) + Len(b)
      BY <1>2, <1>3, ConcatProperties
    <2>2. Len(a) + Len(b) = Len(s) - 1
      BY <1>1, <1>2, <1>3
    <2> QED
      BY <2>1, <2>2
  <1>5. ASSUME NEW i \in 1..Len(s) - 1
        PROVE  w[i] = IF i < n THEN s[i] ELSE s[i + 1]
    <2>1. w[i] = IF i <= Len(a) THEN a[i] ELSE b[i - Len(a)]
      BY <1>1, <1>2, <1>3
    <2>2. CASE i < n
      BY <1>2, <2>1, <2>2
    <2>3. CASE ~ i < n
      <3>1. i - (n - 1) \in 1..Len(s) - n /\ n + (i - (n - 1)) = i + 1
        BY <1>1, <2>3
      <3> QED
        BY <1>2, <1>3, <2>1, <2>3, <3>1
    <2> QED
      BY <2>2, <2>3
  <1> HIDE DEF w
  <1>6. IsInjective(w)
    <2> SUFFICES ASSUME NEW i \in 1..Len(s) - 1, NEW j \in 1..Len(s) - 1, w[i] = w[j]
                 PROVE  i = j
      BY <1>4 DEF IsInjective
    <2>1. (IF i < n THEN i ELSE i + 1) = (IF j < n THEN j ELSE j + 1)
      BY <1>1, <1>5 DEF IsInjective
    <2> QED
      BY <2>1
  <1>7. ASSUME NEW i \in 1..Len(s) - 1 PROVE w[i] \in ToSet(s) /\ w[i] # s[n]
    <2>1. PICK j \in 1..Len(s) : j # n /\ w[i] = s[j]
      BY <1>1, <1>5
    <2> QED
      BY <1>1, <2>1 DEF ToSet, IsInjective
  <1>8. ASSUME NEW j \in 1..Len(s), s[j] # s[n] PROVE s[j] \in ToSet(w)
    <2>1. CASE j < n
      <3>1. j \in 1..Len(s) - 1
        BY <1>1, <2>1
      <3> QED
        BY <1>4, <1>5, <2>1, <3>1 DEF ToSet
    <2>2. CASE j > n
      <3>1. j - 1 \in 1..Len(s) - 1 /\ ~ j - 1 < n /\ (j - 1) + 1 = j
        BY <1>1, <2>2
      <3>2. w[j - 1] = s[j]
        BY <1>5, <3>1
      <3> QED
        BY <1>4, <3>1, <3>2 DEF ToSet
    <2> QED
      BY <1>8, <2>1, <2>2
  <1>9. ToSet(w) = ToSet(s) \ {s[n]}
    BY <1>1, <1>4, <1>7, <1>8 DEF ToSet
  <1>10. RemoveAt(s, n) = w
    BY DEF RemoveAt, w, a, b
  <1> QED
    BY <1>4, <1>6, <1>9, <1>10

(* A record that is taken off a list leaves the others on it.              *)
LEMMA OffTheList ==
  ASSUME NEW S, NEW s \in Seq(S), IsInjective(s), NEW e \in ToSet(s)
  PROVE  /\ TakeOff(s, e) \in Seq(S) /\ ToSet(TakeOff(s, e)) = ToSet(s) \ {e}
         /\ IsInjective(TakeOff(s, e))
  <1>1. \E i \in DOMAIN s : s[i] = e
    BY DEF ToSet
  <1>2. PICK n : n = CHOOSE i \in DOMAIN s : s[i] = e
    OBVIOUS
  <1>3. n \in 1..Len(s) /\ s[n] = e
    BY <1>1, <1>2
  <1>4. TakeOff(s, e) = RemoveAt(s, n)
    BY <1>2 DEF TakeOff
  <1> QED
    BY <1>3, <1>4, WithoutNth

-------------------------------------------------------------------------------
(* Counting.                                                               *)

(* A finite set that gains or loses one element.                           *)
LEMMA OneMoreOrLess ==
  ASSUME NEW S, IsFiniteSet(S), NEW e
  PROVE  /\ Cardinality(S) \in Nat
         /\ e \notin S => Cardinality(S \cup {e}) = Cardinality(S) + 1
         /\ e \in S => Cardinality(S \ {e}) = Cardinality(S) - 1 /\ Cardinality(S) > 0
  <1>1. Cardinality(S) \in Nat
    BY FS_CardinalityType
  <1>2. e \notin S => Cardinality(S \cup {e}) = Cardinality(S) + 1
    BY FS_AddElement
  <1>3. e \in S => Cardinality(S \ {e}) = Cardinality(S) - 1
    BY FS_RemoveElement
  <1>4. e \in S => Cardinality(S) # 0
    BY FS_EmptySet
  <1> QED
    BY <1>1, <1>2, <1>3, <1>4

(* Clients and resolvers that satisfy something are finitely many.         *)
LEMMA Finitely ==
  /\ \A S \in SUBSET Clients : IsFiniteSet(S) /\ Cardinality(S) \in Nat
                               /\ Cardinality(S) <= Cardinality(Clients)
  /\ Cardinality(Clients) \in Nat
  /\ \A S \in SUBSET Resolvers : IsFiniteSet(S) /\ Cardinality(S) \in Nat
  /\ \A S \in SUBSET (Resolvers \X (1..Cardinality(Clients))) : IsFiniteSet(S) /\ Cardinality(S) \in Nat
  <1>1. IsFiniteSet(Clients) /\ IsFiniteSet(Resolvers)
    BY HostAssumption
  <1>2. Cardinality(Clients) \in Nat
    BY <1>1, FS_CardinalityType
  <1>3. IsFiniteSet(1..Cardinality(Clients))
    BY <1>2, FS_Interval
  <1>4. IsFiniteSet(Resolvers \X (1..Cardinality(Clients)))
    BY <1>1, <1>3, FS_Product
  <1> QED
    BY <1>1, <1>2, <1>4, FS_Subset, FS_CardinalityType

(* Who uses a host is counted by a natural number.                         *)
LEMMA HoldersCount ==
  ASSUME NEW i
  PROVE  /\ Cardinality(ConnectedFrom(i)) \in Nat /\ IsFiniteSet(ConnectedFrom(i))
         /\ Cardinality(Dropped(i)) \in Nat /\ IsFiniteSet(Dropped(i)) /\ Holders(i) \in Nat
  <1>1. /\ ConnectedFrom(i) \in SUBSET Clients
        /\ Dropped(i) \in SUBSET (Resolvers \X (1..Cardinality(Clients)))
    BY DEF ConnectedFrom, Dropped
  <1> QED
    BY <1>1, Finitely DEF Holders

\* Resolver r takes as many off the count of the same record as before.
ResolversCount(r) ==
  /\ resolver'[r].dwCount = resolver[r].dwCount
  /\ resolver[r].dwCount > 0 => resolver'[r].host = resolver[r].host

(* The connections that resolvers have dropped stay as they are.           *)
LEMMA DroppedKept ==
  ASSUME HostTypes, \A r \in Resolvers : ResolversCount(r)
  PROVE  \A i : Dropped(i)' = Dropped(i)
  <1> SUFFICES ASSUME NEW i, NEW r \in Resolvers, NEW n \in 1..Cardinality(Clients)
               PROVE  /\ resolver'[r].host = i /\ n <= resolver'[r].dwCount
                      <=> resolver[r].host = i /\ n <= resolver[r].dwCount
    BY DEF Dropped
  <1>1. resolver[r].dwCount \in Nat
    BY DEF HostTypes, Resolving
  <1> QED
    BY <1>1, Finitely DEF ResolversCount

(* A step that moves no connection to or from a host keeps its count.      *)
LEMMA HoldersKept ==
  ASSUME HostTypes, hostOf' = hostOf, \A r \in Resolvers : ResolversCount(r)
  PROVE  \A i : Holders(i)' = Holders(i)
  BY DroppedKept DEF Holders, ConnectedFrom

(* A connection that comes to a host is one more, one that leaves one less.*)
LEMMA HoldersChange ==
  ASSUME HostTypes, \A r \in Resolvers : ResolversCount(r), NEW c \in Clients, NEW i \in Infos
  PROVE  /\ (hostOf[c] = NoInfo /\ hostOf' = [hostOf EXCEPT ![c] = i]) =>
              \A j \in Infos : Holders(j)' = IF j = i THEN Holders(j) + 1 ELSE Holders(j)
         /\ (hostOf[c] = i /\ hostOf' = [hostOf EXCEPT ![c] = NoInfo]) =>
              \A j \in Infos : Holders(j)' = IF j = i THEN Holders(j) - 1 ELSE Holders(j)
  <1>1. hostOf \in [Clients -> Infos \cup {NoInfo}] /\ NoInfo \notin Infos
    BY HostAssumption DEF HostTypes
  <1>2. \A j : Dropped(j)' = Dropped(j)
    BY DroppedKept
  <1>3. ASSUME hostOf[c] = NoInfo, hostOf' = [hostOf EXCEPT ![c] = i], NEW j \in Infos
        PROVE  Holders(j)' = IF j = i THEN Holders(j) + 1 ELSE Holders(j)
    <2>1. c \notin ConnectedFrom(j)
      BY <1>1, <1>3 DEF ConnectedFrom
    <2>2. ConnectedFrom(j)' = IF j = i THEN ConnectedFrom(j) \cup {c} ELSE ConnectedFrom(j)
      BY <1>1, <1>3 DEF ConnectedFrom
    <2>3. j = i => Cardinality(ConnectedFrom(j)') = Cardinality(ConnectedFrom(j)) + 1
      BY <2>1, <2>2, HoldersCount, OneMoreOrLess
    <2> QED
      BY <1>2, <2>2, <2>3, HoldersCount DEF Holders
  <1>4. ASSUME hostOf[c] = i, hostOf' = [hostOf EXCEPT ![c] = NoInfo], NEW j \in Infos
        PROVE  Holders(j)' = IF j = i THEN Holders(j) - 1 ELSE Holders(j)
    <2>1. c \in ConnectedFrom(j) <=> j = i
      BY <1>4 DEF ConnectedFrom
    <2>2. ConnectedFrom(j)' = IF j = i THEN ConnectedFrom(j) \ {c} ELSE ConnectedFrom(j)
      BY <1>1, <1>4 DEF ConnectedFrom
    <2>3. j = i => Cardinality(ConnectedFrom(j)') = Cardinality(ConnectedFrom(j)) - 1
      BY <2>1, <2>2, HoldersCount, OneMoreOrLess
    <2> QED
      BY <1>2, <2>2, <2>3, HoldersCount DEF Holders
  <1> QED
    BY <1>3, <1>4

(* Whoever uses a host is counted.                                         *)
LEMMA ConnectedIsCounted ==
  ASSUME HostTypes, NEW c \in Clients, NEW i \in Infos, hostOf[c] = i
  PROVE  Holders(i) >= 1
  <1>1. c \in ConnectedFrom(i)
    BY DEF ConnectedFrom
  <1>2. Cardinality(ConnectedFrom(i)) > 0
    BY <1>1, HoldersCount, OneMoreOrLess
  <1> QED
    BY <1>2, HoldersCount DEF Holders

-------------------------------------------------------------------------------
(* The steps of the hosts.                                                 *)

(* What a step of the hosts may do to a client that is not registered.     *)
OnItsWay(c) ==
  \/ conn'[c] = conn[c] /\ hostOf'[c] = hostOf[c]
  \/ /\ conn[c] \in {"new", "identify", "waiting"}
     /\ conn'[c] \notin {"new", "online"}
     /\ hostOf'[c] # NoInfo <=> conn'[c] \in {"identify", "waiting", "process"}

(* The clients that are registered are not disturbed by it.                *)
LEMMA ClientsKept ==
  ASSUME IInv, UNCHANGED regvars, HostTypes', \A c \in Clients : OnItsWay(c),
         \A i \in Infos : info'[i].lClients = info[i].lClients
  PROVE  ClientTypes' /\ Places' /\ SlotsOK' /\ LoginsOK' /\ LimitsOK'
  <1>1. ClientTypes'
    BY DEF IInv, ClientTypes, regvars
  <1>2. \A c \in Clients : op[c].at # "idle" \/ conn[c] = "online" => conn'[c] = conn[c] /\ hostOf'[c] = hostOf[c]
    BY DEF IInv, Places, OnItsWay
  <1>3. Places'
    <2>1. ASSUME NEW c \in Clients
          PROVE  /\ op[c].at \in {"publish", "registered"} => conn'[c] = "process"
                 /\ op[c].at \notin {"idle", "publish", "registered"} => conn'[c] = "online"
                 /\ hostOf'[c] # NoInfo <=> \/ conn'[c] \in {"identify", "waiting", "process"}
                                            \/ (conn'[c] = "online" /\ ~ At(c, "closing"))
      BY <1>2 DEF IInv, Places, OnItsWay, At
    <2> QED
      BY <2>1 DEF IInv, Places, regvars, At, InArray, Going
  <1>4. \A c \in Clients : conn'[c] = "online" <=> conn[c] = "online"
    BY <1>2 DEF OnItsWay
  <1>5. SlotsOK'
    BY <1>4 DEF IInv, SlotsOK, Present, At, regvars
  <1>6. /\ \A c \in Clients : Online(c)' <=> Online(c)
        /\ \A c \in Clients, u \in Users : OfUser(c, u)' <=> OfUser(c, u)
    BY DEF Online, OfUser, At, regvars
  <1>7. LoginsOK'
    <2>1. \A c \in Clients : Online(c) => hostOf'[c] = hostOf[c]
      BY <1>2 DEF IInv, Places, LoginsOK, Online, At
    <2>2. \A i \in Infos : {c \in Clients : Online(c)' /\ hostOf'[c] = i} = {c \in Clients : Online(c) /\ hostOf[c] = i}
      BY <1>6, <2>1
    <2>3. \A i \in Infos : info'[i].lClients = Cardinality({c \in Clients : Online(c)' /\ hostOf'[c] = i})
      BY <2>2 DEF IInv, LoginsOK
    <2>4. /\ {c \in Clients : Online(c)'} = {c \in Clients : Online(c)}
          /\ \A u \in Users : {c \in Clients : OfUser(c, u)'} = {c \in Clients : OfUser(c, u)}
      BY <1>6
    <2>5. /\ lClients'.service = Cardinality({c \in Clients : Online(c)'})
          /\ \A u \in Users : lClients'.user[u] = Cardinality({c \in Clients : OfUser(c, u)'})
      BY <2>4 DEF IInv, LoginsOK, regvars
    <2>6. ASSUME NEW c \in Clients
          PROVE  /\ uid'[c] \in {NoOne, UserOf[c]}
                 /\ uid'[c] # NoOne => conn'[c] = "online"
                 /\ LogsIn(c)' => uid'[c] = NoOne /\ UserOf[c] \in Users
                 /\ Going(c, "undo")' => uid'[c] # NoOne
      BY <1>4 DEF IInv, LoginsOK, LogsIn, Going, At, regvars
    <2> QED
      BY <2>3, <2>5, <2>6 DEF LoginsOK
  <1>8. LimitsOK'
    <2>1. /\ \A S : {c \in Clients : Online(c)' /\ UserOf[c] \notin S} = {c \in Clients : Online(c) /\ UserOf[c] \notin S}
          /\ \A u \in Users : {c \in Clients : OfUser(c, u)'} = {c \in Clients : OfUser(c, u)}
      BY <1>6
    <2>2. LimitsKept'
      BY <2>1 DEF IInv, LimitsOK, LimitsKept
    <2>3. \A c \in Clients : Passed(c)' <=> Passed(c)
      BY DEF Passed, Going, At, regvars
    <2> QED
      BY <2>2, <2>3 DEF IInv, LimitsOK, Full, regvars
  <1> QED
    BY <1>1, <1>3, <1>5, <1>7, <1>8

(* A record nobody uses: no connection has it, waits for it or is counted. *)
LEMMA NobodyThere ==
  ASSUME IInv, NEW i \in Infos, info[i].dwShareCount = 0
  PROVE  /\ \A c \in Clients : hostOf[c] # i
         /\ info[i].lpNext = {} /\ info[i].lClients = 0
  <1>1. \A c \in Clients : hostOf[c] # i
    BY ConnectedIsCounted DEF IInv, Shares
  <1>2. info[i].lpNext = {}
    BY <1>1 DEF IInv, Queues, HostTypes, Record
  <1>3. {c \in Clients : Online(c) /\ hostOf[c] = i} = {}
    BY <1>1
  <1>4. info[i].lClients = 0
    BY <1>3, FS_EmptySet DEF IInv, LoginsOK
  <1> QED
    BY <1>1, <1>2, <1>4

(* The records of hosts stay when none comes, goes or gets an address.     *)
LEMMA RecordsKept ==
  ASSUME HostTypes, Records, lpHostArray' = lpHostArray,
         \A c \in Clients : hostOf'[c] \in {hostOf[c], NoInfo},
         \A i \in Infos : /\ info'[i].live = info[i].live /\ info'[i].address = info[i].address
                          /\ ~ info[i].live => info'[i] = info[i]
  PROVE  Records'
  <1>1. NoInfo \notin Infos
    BY HostAssumption
  <1>2. \A i \in lpHostArray : i \in Infos
    BY DEF Records
  <1> QED
    BY <1>1, <1>2 DEF Records

(* A step that moves nobody to or from a host keeps the share counts.      *)
LEMMA SharesKept ==
  ASSUME HostTypes, Shares, Records, UNCHANGED <<hostOf, lpHostArray, lpFreeHostList>>,
         \A r \in Resolvers : ResolversCount(r),
         \A i \in Infos : info'[i].dwShareCount = info[i].dwShareCount
  PROVE  Shares'
  <1>1. \A i \in Infos : Holders(i)' = Holders(i)
    BY HoldersKept
  <1>2. lpHostArray \subseteq Infos
    BY DEF Records
  <1> QED
    BY <1>1, <1>2 DEF Shares

(* Connections that leave a host are taken off its count, and its record   *)
(* goes on the list of those to free with the last.                        *)
LEMMA SharesLess ==
  ASSUME HostTypes, Shares, Records, lpHostArray' = lpHostArray,
         NEW i \in Infos, NEW n \in Nat \ {0}, info[i].live, Holders(i) >= n,
         \A j \in Infos : Holders(j)' = IF j = i THEN Holders(j) - n ELSE Holders(j),
         \A j \in Infos : info'[j].dwShareCount = IF j = i THEN info[j].dwShareCount - n
                                                           ELSE info[j].dwShareCount,
         lpFreeHostList' = IF info[i].dwShareCount = n THEN Append(lpFreeHostList, i) ELSE lpFreeHostList
  PROVE  Shares' /\ lpFreeHostList' \in Seq(Infos)
  <1>1. \A j \in Infos : info'[j].dwShareCount = Holders(j)'
    BY DEF Shares
  <1>2. /\ lpHostArray \subseteq Infos /\ i \in lpHostArray
        /\ info[i].dwShareCount \in Int /\ lpFreeHostList \in Seq(Infos)
    BY DEF Records, HostTypes, Record
  <1>3. CASE info[i].dwShareCount = n
    <2>1. i \notin ToSet(lpFreeHostList)
      BY <1>3 DEF Shares
    <2>2. /\ lpFreeHostList' \in Seq(Infos) /\ ToSet(lpFreeHostList') = ToSet(lpFreeHostList) \cup {i}
          /\ IsInjective(lpFreeHostList')
      <3>1. lpFreeHostList' = Append(lpFreeHostList, i) /\ IsInjective(lpFreeHostList)
        BY <1>3 DEF Shares
      <3>2. lpFreeHostList \in Seq(Infos)
        BY <1>2
      <3>3. /\ Append(lpFreeHostList, i) \in Seq(Infos) /\ IsInjective(Append(lpFreeHostList, i))
            /\ ToSet(Append(lpFreeHostList, i)) = ToSet(lpFreeHostList) \cup {i}
        BY <2>1, <3>1, <3>2, OneMore
      <3> QED
        BY <3>1, <3>3
    <2>3. {j \in lpHostArray : info'[j].dwShareCount = 0} = {j \in lpHostArray : info[j].dwShareCount = 0} \cup {i}
      BY <1>2, <1>3
    <2> QED
      BY <1>1, <2>2, <2>3 DEF Shares
  <1>4. CASE info[i].dwShareCount # n
    <2>1. info[i].dwShareCount # 0 /\ info'[i].dwShareCount # 0
      BY <1>2, <1>4, HoldersCount DEF Shares
    <2>2. {j \in lpHostArray : info'[j].dwShareCount = 0} = {j \in lpHostArray : info[j].dwShareCount = 0}
      BY <1>2, <2>1
    <2> QED
      BY <1>1, <1>2, <1>4, <2>2 DEF Shares
  <1> QED
    BY <1>3, <1>4

(* Who waits for the name of a host waits on, if a step moves no resolver. *)
LEMMA QueuesKept ==
  ASSUME HostTypes, Queues, UNCHANGED resolve,
         \A i \in Infos : info'[i].lpNext = info[i].lpNext,
         \A c \in Clients : /\ conn'[c] = "waiting" <=> conn[c] = "waiting"
                            /\ conn[c] = "waiting" => hostOf'[c] = hostOf[c] /\ hostOf[c] \in Infos
  PROVE  Queues'
  <1>1. \A r \in Resolvers : ResolverOK(r)' /\ \A i \in Infos : LooksUp(r, i)' <=> LooksUp(r, i)
    BY DEF Queues, resolve, ResolverOK, LooksUp
  <1>2. /\ resolver' = resolver /\ lpResolveList' = lpResolveList
        /\ dwResolveThreads' = dwResolveThreads
    BY DEF resolve
  <1>3. ASSUME NEW i \in Infos, NEW c \in info'[i].lpNext
        PROVE  /\ conn'[c] = "waiting" /\ hostOf'[c] = i
               /\ \A r \in Resolvers : c \notin resolver'[r].list
    <2>1. c \in info[i].lpNext /\ c \in Clients
      BY DEF HostTypes, Record
    <2> QED
      BY <1>2, <2>1 DEF Queues
  <1>4. ASSUME NEW r \in Resolvers, NEW c \in resolver'[r].list
        PROVE  /\ conn'[c] = "waiting" /\ hostOf'[c] = resolver'[r].host
               /\ \A q \in Resolvers \ {r} : c \notin resolver'[q].list
    <2>1. c \in resolver[r].list /\ c \in Clients
      BY <1>2 DEF HostTypes, Resolving
    <2> QED
      BY <1>2, <2>1 DEF Queues
  <1>5. ASSUME NEW c \in Clients, conn'[c] = "waiting"
        PROVE  c \in info'[hostOf'[c]].lpNext \/ \E r \in Resolvers : c \in resolver'[r].list
    BY <1>2, <1>5 DEF Queues
  <1> QED
    BY <1>1, <1>2, <1>3, <1>4, <1>5 DEF Queues

(* A connection that is being identified or is online has a record, and is *)
(* counted in it.                                                          *)
LEMMA HasHost ==
  ASSUME IInv, NEW c \in Clients,
         conn[c] \in {"identify", "waiting", "process"} \/ (conn[c] = "online" /\ ~ At(c, "closing"))
  PROVE  /\ hostOf[c] \in Infos /\ info[hostOf[c]] \in Record /\ info[hostOf[c]].live
         /\ info[hostOf[c]].address \in Addresses
         /\ Holders(hostOf[c]) \in Nat /\ Holders(hostOf[c]) >= 1
         /\ info[hostOf[c]].dwShareCount = Holders(hostOf[c])
  <1>1. hostOf[c] \in Infos
    BY DEF IInv, Places, HostTypes
  <1>2. Holders(hostOf[c]) \in Nat /\ Holders(hostOf[c]) >= 1
    BY <1>1, HoldersCount, ConnectedIsCounted DEF IInv
  <1> QED
    BY <1>1, <1>2 DEF IInv, Records, Shares, HostTypes

HostsFit == HostTypes /\ Records /\ Shares /\ Queues

NoneDisturbed ==
  /\ \A c \in Clients : OnItsWay(c)
  /\ \A i \in Infos : info'[i].lClients = info[i].lClients

(* A new version of the rules touches no record.                           *)
LEMMA ReadConnectionClassesKeeps ==
  ASSUME IInv, ReadConnectionClasses
  PROVE  HostsFit' /\ NoneDisturbed
  <1>1. dwClassListId' \in DOMAIN Rules
    BY HostAssumption DEF IInv, HostTypes, ReadConnectionClasses
  <1>2. UNCHANGED <<info, lpHostArray, lpFreeHostList, lpResolveList, dwResolveThreads, resolver, conn, hostOf>>
    BY DEF ReadConnectionClasses, hosts, resolve
  <1>3. HostTypes'
    BY <1>1, <1>2 DEF IInv, HostTypes
  <1>4. Records' /\ Shares'
    BY <1>2, SharesKept DEF IInv, Records, ResolversCount
  <1>5. Queues'
    BY <1>2 DEF IInv, Queues, ResolverOK, LooksUp
  <1>6. NoneDisturbed
    BY <1>2 DEF NoneDisturbed, OnItsWay
  <1> QED
    BY <1>3, <1>4, <1>5, <1>6 DEF HostsFit

(* A connection joins those that wait for its host.                        *)
LEMMA JoinQueueKeeps ==
  ASSUME IInv, NEW c \in Clients, JoinQueue(c)
  PROVE  HostsFit' /\ NoneDisturbed
  <1> DEFINE i == hostOf[c]
  <1>1. /\ i \in Infos /\ info[i] \in Record /\ info[i].live
    BY HasHost DEF JoinQueue
  <1> HIDE DEF i
  <1>2. /\ info' = [info EXCEPT ![i].lpNext = @ \cup {c}] /\ info[i].lpNext # {}
        /\ conn' = [conn EXCEPT ![c] = "waiting"] /\ conn[c] = "identify" /\ hostOf[c] = i
        /\ UNCHANGED <<lpHostArray, lpFreeHostList, dwClassListId, lpResolveList, dwResolveThreads, resolver, hostOf>>
    BY DEF JoinQueue, Wait, Move, resolve, i
  <1>3. info \in [Infos -> Record] /\ conn \in [Clients -> {"new", "identify", "waiting", "process", "online", "gone"}]
    BY DEF IInv, HostTypes
  <1>4. \A j \in Infos : /\ info'[j] = IF j = i THEN [info[i] EXCEPT !.lpNext = @ \cup {c}] ELSE info[j]
                         /\ info'[j].lpNext = IF j = i THEN info[i].lpNext \cup {c} ELSE info[j].lpNext
                         /\ info'[j].live = info[j].live /\ info'[j].address = info[j].address
                         /\ info'[j].dwShareCount = info[j].dwShareCount
                         /\ info'[j].lClients = info[j].lClients
                         /\ info'[j] \in Record
    BY <1>1, <1>2, <1>3 DEF Record
  <1>5. HostTypes'
    <2>1. info' \in [Infos -> Record]
      BY <1>2, <1>3, <1>4
    <2> QED
      BY <1>2, <2>1 DEF IInv, HostTypes
  <1>6. Records'
    BY <1>1, <1>2, <1>4, RecordsKept DEF IInv
  <1>7. Shares'
    BY <1>2, <1>4, SharesKept DEF IInv, ResolversCount
  <1>8. Queues'
    <2>1. \A r \in Resolvers : ResolverOK(r)' /\ \A j \in Infos : LooksUp(r, j)' <=> LooksUp(r, j)
      BY <1>2 DEF IInv, Queues, ResolverOK, LooksUp
    <2>2. \A j \in Infos : info'[j].lpNext # {} <=> info[j].lpNext # {}
      BY <1>2, <1>4
    <2>3. \A d \in Clients : conn'[d] = IF d = c THEN "waiting" ELSE conn[d]
      BY <1>2, <1>3
    <2>4. \A r \in Resolvers : c \notin resolver[r].list /\ resolver[r].list \subseteq Clients
      BY <1>2 DEF IInv, Queues, HostTypes, Resolving
    <2>5. ASSUME NEW j \in Infos, NEW d \in info'[j].lpNext
          PROVE  /\ conn'[d] = "waiting" /\ hostOf'[d] = j
                 /\ \A r \in Resolvers : d \notin resolver'[r].list
      <3>1. CASE d = c /\ j = i
        BY <1>2, <2>3, <2>4, <3>1
      <3>2. CASE ~ (d = c /\ j = i)
        <4>1. d \in info[j].lpNext /\ d \in Clients
          BY <1>1, <1>4, <3>2 DEF IInv, HostTypes, Record
        <4> QED
          BY <1>2, <2>3, <4>1 DEF IInv, Queues
      <3> QED
        BY <3>1, <3>2
    <2>6. ASSUME NEW r \in Resolvers, NEW d \in resolver'[r].list
          PROVE  /\ conn'[d] = "waiting" /\ hostOf'[d] = resolver'[r].host
                 /\ \A q \in Resolvers \ {r} : d \notin resolver'[q].list
      <3>1. d # c /\ d \in Clients /\ d \in resolver[r].list
        BY <1>2, <2>4
      <3> QED
        BY <1>2, <2>3, <3>1 DEF IInv, Queues
    <2>7. ASSUME NEW d \in Clients, conn'[d] = "waiting"
          PROVE  d \in info'[hostOf'[d]].lpNext \/ \E r \in Resolvers : d \in resolver'[r].list
      <3>1. CASE d = c
        BY <1>1, <1>2, <1>4, <3>1
      <3>2. CASE d # c
        <4>1. conn[d] = "waiting"
          BY <2>3, <2>7, <3>2
        <4>2. hostOf[d] \in Infos
          BY <4>1, HasHost
        <4>3. d \in info[hostOf[d]].lpNext \/ \E r \in Resolvers : d \in resolver[r].list
          BY <4>1 DEF IInv, Queues
        <4> QED
          BY <1>2, <1>4, <4>2, <4>3
      <3> QED
        BY <3>1, <3>2
    <2> QED
      BY <1>2, <2>1, <2>2, <2>5, <2>6, <2>7 DEF IInv, Queues
  <1>9. NoneDisturbed
    <2>1. hostOf[c] # NoInfo
      BY <1>1, <1>2, HostAssumption
    <2> QED
      BY <1>2, <1>3, <1>4, <2>1 DEF NoneDisturbed, OnItsWay
  <1> QED
    BY <1>5, <1>6, <1>7, <1>8, <1>9 DEF HostsFit

(* GetHostClass changes no more than the class of a record and its limit.  *)
LEMMA ClassOnly ==
  ASSUME HostTypes, NEW h \in Record, h.address \in Addresses,
         NEW g, g = GetHostClass(h) \/ g = CheckedClass(h)
  PROVE  /\ g \in Record
         /\ g.live = h.live /\ g.address = h.address /\ g.dwShareCount = h.dwShareCount
         /\ g.lClients = h.lClients /\ g.lpNext = h.lpNext
  <1> DEFINE rule == Rules[dwClassListId][h.address]
  <1>1. Rules[dwClassListId] \in [Addresses -> [lpClass : Classes \cup {NoClass}, lConnectionsPerHost : Int]]
    BY HostAssumption DEF HostTypes
  <1>2. rule \in [lpClass : Classes \cup {NoClass}, lConnectionsPerHost : Int]
    BY <1>1
  <1>3. dwClassListId \in Nat
    BY HostAssumption DEF HostTypes
  <1> HIDE DEF rule
  <1>4. GetHostClass(h) = [h EXCEPT !.lpClass = rule.lpClass, !.lConnectionsPerHost = rule.lConnectionsPerHost,
                                    !.dwClassListId = dwClassListId]
    BY DEF GetHostClass, rule
  <1>5. g = GetHostClass(h) \/ g = h
    BY DEF CheckedClass
  <1>6. CASE g = h
    BY <1>6
  <1>7. CASE g = GetHostClass(h)
    BY <1>2, <1>3, <1>4, <1>7 DEF Record
  <1> QED
    BY <1>5, <1>6, <1>7

(* The name is known: the connection goes on, or is dropped and is the one *)
(* less that uses the record.                                              *)
LEMMA UseCachedNameKeeps ==
  ASSUME IInv, NEW c \in Clients, UseCachedName(c)
  PROVE  HostsFit' /\ NoneDisturbed
  <1> DEFINE i == hostOf[c]
             h == CheckedClass(info[i])
             on == h.lConnectionsPerHost # 0 \/ ~ bReverseResolveIPs
  <1>1. /\ i \in Infos /\ info[i] \in Record /\ info[i].live /\ info[i].address \in Addresses
        /\ Holders(i) \in Nat /\ Holders(i) >= 1 /\ info[i].dwShareCount = Holders(i)
    BY HasHost DEF UseCachedName
  <1>2. /\ h \in Record
        /\ h.live = info[i].live /\ h.address = info[i].address /\ h.dwShareCount = info[i].dwShareCount
        /\ h.lClients = info[i].lClients /\ h.lpNext = info[i].lpNext
    BY <1>1, ClassOnly DEF IInv
  <1> HIDE DEF h
  <1>3. /\ conn[c] = "identify"
        /\ UNCHANGED <<lpHostArray, dwClassListId, lpResolveList, dwResolveThreads, resolver>>
        /\ IF on
           THEN /\ info' = [info EXCEPT ![i] = h]
                /\ conn' = [conn EXCEPT ![c] = "process"]
                /\ UNCHANGED <<lpFreeHostList, hostOf>>
           ELSE /\ info' = [info EXCEPT ![i] = [h EXCEPT !.dwShareCount = @ - 1]]
                /\ lpFreeHostList' = IF h.dwShareCount = 1 THEN Append(lpFreeHostList, i) ELSE lpFreeHostList
                /\ conn' = [conn EXCEPT ![c] = "gone"]
                /\ hostOf' = [hostOf EXCEPT ![c] = NoInfo]
    BY DEF UseCachedName, Move, resolve, h
  <1> HIDE DEF on
  <1>4. /\ info \in [Infos -> Record] /\ hostOf \in [Clients -> Infos \cup {NoInfo}]
        /\ conn \in [Clients -> {"new", "identify", "waiting", "process", "online", "gone"}]
        /\ NoInfo \notin Infos
    BY HostAssumption DEF IInv, HostTypes
  <1>5. \A j \in Infos : /\ j # i => info'[j] = info[j]
                         /\ info'[j] \in Record
                         /\ info'[j].live = info[j].live /\ info'[j].address = info[j].address
                         /\ info'[j].dwShareCount = IF j = i /\ ~ on THEN info[j].dwShareCount - 1
                                                                    ELSE info[j].dwShareCount
                         /\ info'[j].lClients = info[j].lClients
                         /\ info'[j].lpNext = info[j].lpNext
    <2>1. [h EXCEPT !.dwShareCount = @ - 1] \in Record
      BY <1>2 DEF Record
    <2>4. \A j \in Infos : info[j] \in Record /\ info[j].dwShareCount \in Int
      BY <1>4 DEF Record
    <2>2. CASE on
      <3>1. \A j \in Infos : info'[j] = IF j = i THEN h ELSE info[j]
        BY <1>1, <1>3, <1>4, <2>2
      <3> QED
        BY <1>1, <1>2, <2>2, <2>4, <3>1
    <2>3. CASE ~ on
      <3>1. info' = [info EXCEPT ![i] = [h EXCEPT !.dwShareCount = @ - 1]]
        BY <1>3, <2>3
      <3>2. \A j \in Infos : info'[j] = IF j = i THEN [h EXCEPT !.dwShareCount = @ - 1] ELSE info[j]
        BY <1>1, <1>4, <3>1
      <3>3. /\ [h EXCEPT !.dwShareCount = @ - 1].live = h.live
            /\ [h EXCEPT !.dwShareCount = @ - 1].address = h.address
            /\ [h EXCEPT !.dwShareCount = @ - 1].dwShareCount = h.dwShareCount - 1
            /\ [h EXCEPT !.dwShareCount = @ - 1].lClients = h.lClients
            /\ [h EXCEPT !.dwShareCount = @ - 1].lpNext = h.lpNext
        BY <1>2 DEF Record
      <3> QED
        BY <1>1, <1>2, <2>1, <2>3, <2>4, <3>2, <3>3
    <2> QED
      BY <2>2, <2>3
  <1>6. Shares' /\ lpFreeHostList' \in Seq(Infos)
    <2>1. \A r \in Resolvers : ResolversCount(r)
      BY <1>3 DEF ResolversCount
    <2>2. CASE on
      <3>1. \A j \in Infos : info'[j].dwShareCount = info[j].dwShareCount
        BY <1>4, <1>5, <2>2 DEF Record
      <3> QED
        BY <1>3, <2>1, <2>2, <3>1, SharesKept DEF IInv, HostTypes
    <2>3. CASE ~ on
      <3>1. \A j \in Infos : Holders(j)' = IF j = i THEN Holders(j) - 1 ELSE Holders(j)
        BY <1>1, <1>3, <2>1, <2>3, HoldersChange DEF IInv
      <3>2. lpFreeHostList' = IF info[i].dwShareCount = 1 THEN Append(lpFreeHostList, i) ELSE lpFreeHostList
        BY <1>2, <1>3, <2>3
      <3>3. \A j \in Infos : info'[j].dwShareCount = IF j = i THEN info[j].dwShareCount - 1
                                                              ELSE info[j].dwShareCount
        BY <1>5, <2>3
      <3> QED
        BY <1>1, <1>3, <3>1, <3>2, <3>3, SharesLess DEF IInv
    <2> QED
      BY <2>2, <2>3
  <1>7. HostTypes'
    BY <1>3, <1>4, <1>5, <1>6 DEF IInv, HostTypes
  <1>8. \A d \in Clients : /\ d # c => conn'[d] = conn[d] /\ hostOf'[d] = hostOf[d]
                           /\ conn'[c] = IF on THEN "process" ELSE "gone"
                           /\ hostOf'[c] = IF on THEN i ELSE NoInfo
    BY <1>3, <1>4
  <1>9. Records'
    BY <1>1, <1>3, <1>5, <1>8, RecordsKept DEF IInv
  <1>10. Queues'
    <2>1. \A d \in Clients : /\ conn'[d] = "waiting" <=> conn[d] = "waiting"
                             /\ conn[d] = "waiting" => hostOf'[d] = hostOf[d] /\ hostOf[d] \in Infos
      BY <1>3, <1>8, HasHost
    <2> QED
      BY <1>3, <1>5, <2>1, QueuesKept DEF IInv, resolve
  <1>11. NoneDisturbed
    BY <1>1, <1>3, <1>4, <1>5, <1>8 DEF NoneDisturbed, OnItsWay
  <1> QED
    BY <1>6, <1>7, <1>9, <1>10, <1>11 DEF HostsFit

(* The threads that run resolver jobs are counted: one more, one less.     *)
LEMMA ThreadsCounted ==
  ASSUME HostTypes, NEW r \in Resolvers,
         \A q \in Resolvers \ {r} : resolver'[q] = resolver[q]
  PROVE  Cardinality({q \in Resolvers : resolver'[q].at # "off"}) =
           Cardinality({q \in Resolvers : resolver[q].at # "off"})
                           + (IF resolver'[r].at # "off" THEN 1 ELSE 0)
                           - (IF resolver[r].at # "off" THEN 1 ELSE 0)
  <1> DEFINE on == {q \in Resolvers : resolver[q].at # "off"}
             then == {q \in Resolvers : resolver'[q].at # "off"}
  <1>1. IsFiniteSet(on) /\ IsFiniteSet(then)
    BY Finitely
  <1>2. Cardinality(then \ {r}) = Cardinality(on \ {r})
    <2>1. then \ {r} = on \ {r}
      OBVIOUS
    <2> HIDE DEF on, then
    <2> QED
      BY <2>1
  <1>3. /\ r \in then <=> resolver'[r].at # "off"
        /\ r \in on <=> resolver[r].at # "off"
    OBVIOUS
  <1> HIDE DEF on, then
  <1>4. /\ r \in then => Cardinality(then \ {r}) = Cardinality(then) - 1
        /\ r \notin then => Cardinality(then \ {r}) = Cardinality(then)
        /\ r \in on => Cardinality(on \ {r}) = Cardinality(on) - 1
        /\ r \notin on => Cardinality(on \ {r}) = Cardinality(on)
        /\ Cardinality(on) \in Nat /\ Cardinality(then) \in Nat
    <2>1. /\ r \notin then => then \ {r} = then
          /\ r \notin on => on \ {r} = on
      OBVIOUS
    <2> QED
      BY <1>1, <2>1, OneMoreOrLess
  <1>5. Cardinality(then) = Cardinality(on) + (IF r \in then THEN 1 ELSE 0) - (IF r \in on THEN 1 ELSE 0)
    BY <1>2, <1>4
  <1> QED
    BY <1>3, <1>5 DEF on, then

(* A resolver thread takes the next host, or ends if there is none.        *)
LEMMA PopResolveKeeps ==
  ASSUME IInv, NEW r \in Resolvers, PopResolve(r)
  PROVE  HostsFit' /\ NoneDisturbed
  <1>1. /\ resolver[r].at = "pop" /\ resolver[r].list = {} /\ resolver[r].dwCount = 0
        /\ resolver \in [Resolvers -> Resolving]
        /\ UNCHANGED <<info, lpHostArray, lpFreeHostList, dwClassListId, conn, hostOf>>
        /\ lpResolveList \in Seq(Infos) /\ IsInjective(lpResolveList)
    BY DEF PopResolve, IInv, Queues, ResolverOK, HostTypes, hosts
  <1>2. /\ lpResolveList' \in Seq(Infos) /\ IsInjective(lpResolveList')
        /\ resolver' \in [Resolvers -> Resolving] /\ dwResolveThreads' \in Int
        /\ \A q \in Resolvers \ {r} : resolver'[q] = resolver[q]
        /\ resolver'[r].list = {} /\ resolver'[r].dwCount = 0
        /\ \/ /\ resolver'[r].at = "resolve" /\ dwResolveThreads' = dwResolveThreads
              /\ resolver'[r].host \in ToSet(lpResolveList) /\ resolver'[r].host \in Infos
              /\ ToSet(lpResolveList') = ToSet(lpResolveList) \ {resolver'[r].host}
              /\ lpResolveList # <<>>
           \/ /\ resolver'[r].at = "off" /\ resolver'[r].host = NoInfo
              /\ dwResolveThreads' = dwResolveThreads - 1
              /\ lpResolveList' = lpResolveList /\ lpResolveList = <<>>
    <2>1. CASE lpResolveList # <<>>
      <3>1. /\ Tail(lpResolveList) \in Seq(Infos) /\ Head(lpResolveList) \in ToSet(lpResolveList)
            /\ Head(lpResolveList) \in Infos /\ IsInjective(Tail(lpResolveList))
            /\ ToSet(Tail(lpResolveList)) = ToSet(lpResolveList) \ {Head(lpResolveList)}
        BY <1>1, <2>1, OffTheHead
      <3>2. /\ lpResolveList' = Tail(lpResolveList) /\ dwResolveThreads' = dwResolveThreads
            /\ resolver' = [resolver EXCEPT ![r] = [@ EXCEPT !.at = "resolve", !.host = Head(lpResolveList)]]
        BY <2>1 DEF PopResolve
      <3>3. /\ [resolver[r] EXCEPT !.at = "resolve", !.host = Head(lpResolveList)] \in Resolving
            /\ resolver'[r] = [resolver[r] EXCEPT !.at = "resolve", !.host = Head(lpResolveList)]
        BY <1>1, <3>1, <3>2 DEF Resolving
      <3> QED
        BY <1>1, <2>1, <3>1, <3>2, <3>3 DEF IInv, HostTypes, Resolving
    <2>2. CASE lpResolveList = <<>>
      <3>1. Quiet \in Resolving
        BY DEF Quiet, Resolving
      <3>2. /\ dwResolveThreads' = dwResolveThreads - 1 /\ lpResolveList' = lpResolveList
            /\ resolver' = [resolver EXCEPT ![r] = Quiet]
        BY <2>2 DEF PopResolve
      <3>3. resolver'[r] = Quiet /\ \A q \in Resolvers \ {r} : resolver'[q] = resolver[q]
        BY <1>1, <3>2
      <3>4. resolver' \in [Resolvers -> Resolving] /\ dwResolveThreads' \in Int
        BY <1>1, <3>1, <3>2 DEF IInv, HostTypes
      <3> QED
        BY <1>1, <2>2, <3>2, <3>3, <3>4 DEF Quiet
    <2> QED
      BY <2>1, <2>2
  <1>3. HostTypes'
    BY <1>1, <1>2 DEF IInv, HostTypes
  <1>4. \A q \in Resolvers : ResolversCount(q) /\ resolver'[q].list = resolver[q].list
    <2>1. ASSUME NEW q \in Resolvers PROVE ResolversCount(q) /\ resolver'[q].list = resolver[q].list
      <3>1. CASE q = r
        <4>1. resolver'[r].dwCount = resolver[r].dwCount /\ ~ resolver[r].dwCount > 0
          BY <1>1, <1>2
        <4> QED
          BY <1>1, <1>2, <3>1, <4>1 DEF ResolversCount
      <3>2. CASE q # r
        BY <1>2, <3>2 DEF ResolversCount
      <3> QED
        BY <3>1, <3>2
    <2> QED
      BY <2>1
  <1>5. Records' /\ Shares'
    BY <1>1, <1>4, SharesKept DEF IInv, Records
  <1>6. Queues'
    <2>1. \A q \in Resolvers : ResolverOK(q)'
      BY <1>1, <1>2, Finitely DEF IInv, Queues, ResolverOK
    <2>2. \A q \in Resolvers, i \in Infos :
            LooksUp(q, i)' <=> LooksUp(q, i) \/ (q = r /\ resolver'[r].at = "resolve" /\ resolver'[r].host = i)
      BY <1>1, <1>2 DEF LooksUp
    <2>3. \A i \in Infos : info'[i].lpNext # {} <=>
            i \in ToSet(lpResolveList') \/ \E q \in Resolvers : LooksUp(q, i)'
      BY <1>1, <1>2, <2>2 DEF IInv, Queues
    <2>4. \A q \in Resolvers, i \in Infos : LooksUp(q, i)' =>
            /\ i \notin ToSet(lpResolveList')
            /\ \A p \in Resolvers \ {q} : ~ LooksUp(p, i)'
      BY <1>1, <1>2, <2>2 DEF IInv, Queues
    <2>5. \A q \in Resolvers : resolver[q].list # {} => resolver'[q].host = resolver[q].host
      BY <1>1, <1>2
    <2>6. /\ \A i \in Infos : \A c \in info'[i].lpNext :
               /\ conn'[c] = "waiting" /\ hostOf'[c] = i
               /\ \A q \in Resolvers : c \notin resolver'[q].list
          /\ \A q \in Resolvers : \A c \in resolver'[q].list :
               /\ conn'[c] = "waiting" /\ hostOf'[c] = resolver'[q].host
               /\ \A p \in Resolvers \ {q} : c \notin resolver'[p].list
          /\ \A c \in Clients : conn'[c] = "waiting" =>
               c \in info'[hostOf'[c]].lpNext \/ \E q \in Resolvers : c \in resolver'[q].list
      BY <1>1, <1>4, <2>5 DEF IInv, Queues
    <2>7. dwResolveThreads' = Cardinality({q \in Resolvers : resolver'[q].at # "off"})
      <3>1. Cardinality({q \in Resolvers : resolver'[q].at # "off"}) =
              Cardinality({q \in Resolvers : resolver[q].at # "off"})
                + (IF resolver'[r].at # "off" THEN 1 ELSE 0) - (IF resolver[r].at # "off" THEN 1 ELSE 0)
        BY <1>2, ThreadsCounted DEF IInv
      <3> QED
        BY <1>1, <1>2, <3>1 DEF IInv, Queues, HostTypes
    <2>8. lpResolveList' # <<>> => dwResolveThreads' > 0
      BY <1>2 DEF IInv, Queues
    <2> QED
      BY <1>2, <2>1, <2>3, <2>4, <2>6, <2>7, <2>8 DEF Queues
  <1>7. NoneDisturbed
    BY <1>1 DEF NoneDisturbed, OnItsWay
  <1> QED
    BY <1>3, <1>5, <1>6, <1>7 DEF HostsFit

(* A connection asks for the name of its host, and a thread is started     *)
(* for it unless there are enough.                                         *)
LEMMA AskForNameKeeps ==
  ASSUME IInv, NEW c \in Clients, AskForName(c)
  PROVE  HostsFit' /\ NoneDisturbed
  <1> DEFINE i == hostOf[c]
  <1>1. /\ i \in Infos /\ info[i] \in Record /\ info[i].live
    BY HasHost DEF AskForName
  <1> HIDE DEF i
  <1>2. /\ info' = [info EXCEPT ![i].lpNext = @ \cup {c}] /\ info[i].lpNext = {}
        /\ conn' = [conn EXCEPT ![c] = "waiting"] /\ conn[c] = "identify" /\ hostOf[c] = i
        /\ UNCHANGED <<lpHostArray, lpFreeHostList, dwClassListId, hostOf>>
        /\ QueueHostResolve(i)
    BY DEF AskForName, Wait, Move, i
  <1>3. /\ info \in [Infos -> Record] /\ lpResolveList \in Seq(Infos) /\ resolver \in [Resolvers -> Resolving]
        /\ conn \in [Clients -> {"new", "identify", "waiting", "process", "online", "gone"}]
        /\ dwResolveThreads \in Int
    BY DEF IInv, HostTypes
  <1>4. \A j \in Infos : /\ info'[j] = IF j = i THEN [info[i] EXCEPT !.lpNext = @ \cup {c}] ELSE info[j]
                         /\ info'[j].lpNext = IF j = i THEN {c} ELSE info[j].lpNext
                         /\ info'[j].live = info[j].live /\ info'[j].address = info[j].address
                         /\ info'[j].dwShareCount = info[j].dwShareCount
                         /\ info'[j].lClients = info[j].lClients
                         /\ info'[j] \in Record
    BY <1>1, <1>2, <1>3 DEF Record
  <1>5. /\ i \notin ToSet(lpResolveList) /\ IsInjective(lpResolveList)
        /\ \A r \in Resolvers : ~ LooksUp(r, i)
    BY <1>1, <1>2 DEF IInv, Queues
  <1>6. /\ lpResolveList' \in Seq(Infos) /\ IsInjective(lpResolveList')
        /\ ToSet(lpResolveList') = ToSet(lpResolveList) \cup {i}
    <2>1. lpResolveList' = Append(lpResolveList, i)
      BY <1>2 DEF QueueHostResolve
    <2>2. /\ Append(lpResolveList, i) \in Seq(Infos) /\ IsInjective(Append(lpResolveList, i))
          /\ ToSet(Append(lpResolveList, i)) = ToSet(lpResolveList) \cup {i}
      BY <1>1, <1>3, <1>5, OneMore
    <2> QED
      BY <2>1, <2>2
  <1>7. /\ resolver' \in [Resolvers -> Resolving] /\ dwResolveThreads' \in Int /\ dwResolveThreads' > 0
        /\ dwResolveThreads' = Cardinality({r \in Resolvers : resolver'[r].at # "off"})
        /\ \A r \in Resolvers :
             /\ resolver'[r].host = resolver[r].host /\ resolver'[r].list = resolver[r].list
             /\ resolver'[r].dwCount = resolver[r].dwCount
             /\ resolver'[r].at = resolver[r].at \/ (resolver[r].at = "off" /\ resolver'[r].at = "pop")
    <2>1. dwResolveThreads = Cardinality({r \in Resolvers : resolver[r].at # "off"})
      BY DEF IInv, Queues
    <2>2. CASE UNCHANGED <<dwResolveThreads, resolver>> /\ dwResolveThreads >= dwMaxResolverThreads
      BY <1>3, <2>1, <2>2, HostAssumption
    <2>3. CASE dwResolveThreads' = dwResolveThreads + 1
      <3>1. PICK r \in Resolvers : resolver[r].at = "off" /\ resolver' = [resolver EXCEPT ![r].at = "pop"]
        BY <1>2, <1>3, <2>3 DEF QueueHostResolve
      <3>2. \A q \in Resolvers : resolver'[q] = IF q = r THEN [resolver[r] EXCEPT !.at = "pop"] ELSE resolver[q]
        BY <1>3, <3>1
      <3>3. [resolver[r] EXCEPT !.at = "pop"] \in Resolving
        BY <1>3 DEF Resolving
      <3>4. resolver' \in [Resolvers -> Resolving]
        BY <1>3, <3>1, <3>3
      <3>5. Cardinality({q \in Resolvers : resolver'[q].at # "off"}) =
              Cardinality({q \in Resolvers : resolver[q].at # "off"})
                + (IF resolver'[r].at # "off" THEN 1 ELSE 0) - (IF resolver[r].at # "off" THEN 1 ELSE 0)
        BY <3>2, ThreadsCounted DEF IInv
      <3>6. resolver'[r].at = "pop"
        BY <1>3, <3>2 DEF Resolving
      <3>7. Cardinality({q \in Resolvers : resolver[q].at # "off"}) \in Nat
        BY Finitely
      <3>8. /\ dwResolveThreads' = Cardinality({q \in Resolvers : resolver'[q].at # "off"})
            /\ dwResolveThreads' \in Int /\ dwResolveThreads' > 0
        BY <2>1, <2>3, <3>1, <3>5, <3>6, <3>7
      <3>9. \A q \in Resolvers :
             /\ resolver'[q].host = resolver[q].host /\ resolver'[q].list = resolver[q].list
             /\ resolver'[q].dwCount = resolver[q].dwCount
             /\ resolver'[q].at = resolver[q].at \/ (resolver[q].at = "off" /\ resolver'[q].at = "pop")
        BY <1>3, <3>1, <3>2 DEF Resolving
      <3> QED
        BY <3>4, <3>8, <3>9
    <2> QED
      BY <1>2, <2>2, <2>3 DEF QueueHostResolve
  <1>8. HostTypes'
    <2>1. info' \in [Infos -> Record]
      BY <1>2, <1>3, <1>4
    <2> QED
      BY <1>2, <1>6, <1>7, <2>1 DEF IInv, HostTypes
  <1>9. Records'
    BY <1>1, <1>2, <1>4, RecordsKept DEF IInv
  <1>10. Shares'
    BY <1>2, <1>4, <1>7, SharesKept DEF IInv, ResolversCount
  <1>11. Queues'
    <2>1. \A r \in Resolvers : ResolverOK(r)' /\ \A j \in Infos : LooksUp(r, j)' <=> LooksUp(r, j)
      BY <1>7 DEF IInv, Queues, ResolverOK, LooksUp
    <2>2. \A j \in Infos : info'[j].lpNext # {} <=>
            j \in ToSet(lpResolveList') \/ \E r \in Resolvers : LooksUp(r, j)'
      <3>1. \A j \in Infos : info[j].lpNext # {} <=>
              j \in ToSet(lpResolveList) \/ \E r \in Resolvers : LooksUp(r, j)
        BY DEF IInv, Queues
      <3>2. ASSUME NEW j \in Infos
            PROVE  info'[j].lpNext = IF j = i THEN {c} ELSE info[j].lpNext
        BY <1>4
      <3> QED
        BY <1>6, <2>1, <3>1, <3>2
    <2>3. \A r \in Resolvers, j \in Infos : LooksUp(r, j)' =>
            /\ j \notin ToSet(lpResolveList')
            /\ \A q \in Resolvers \ {r} : ~ LooksUp(q, j)'
      BY <1>5, <1>6, <2>1 DEF IInv, Queues
    <2>4. \A d \in Clients : conn'[d] = IF d = c THEN "waiting" ELSE conn[d]
      BY <1>2, <1>3
    <2>5. \A r \in Resolvers : c \notin resolver[r].list /\ resolver[r].list \subseteq Clients
      BY <1>2, <1>3 DEF IInv, Queues, Resolving
    <2>6. ASSUME NEW j \in Infos, NEW d \in info'[j].lpNext
          PROVE  /\ conn'[d] = "waiting" /\ hostOf'[d] = j
                 /\ \A r \in Resolvers : d \notin resolver'[r].list
      <3>1. CASE j = i
        BY <1>2, <1>4, <1>7, <2>4, <2>5, <3>1
      <3>2. CASE j # i
        <4>1. d \in info[j].lpNext /\ d \in Clients
          BY <1>3, <1>4, <3>2 DEF Record
        <4> QED
          BY <1>2, <1>7, <2>4, <4>1 DEF IInv, Queues
      <3> QED
        BY <3>1, <3>2
    <2>7. ASSUME NEW r \in Resolvers, NEW d \in resolver'[r].list
          PROVE  /\ conn'[d] = "waiting" /\ hostOf'[d] = resolver'[r].host
                 /\ \A q \in Resolvers \ {r} : d \notin resolver'[q].list
      <3>1. d # c /\ d \in Clients /\ d \in resolver[r].list
        BY <1>7, <2>5
      <3> QED
        BY <1>2, <1>7, <2>4, <3>1 DEF IInv, Queues
    <2>8. ASSUME NEW d \in Clients, conn'[d] = "waiting"
          PROVE  d \in info'[hostOf'[d]].lpNext \/ \E r \in Resolvers : d \in resolver'[r].list
      <3>1. CASE d = c
        BY <1>1, <1>2, <1>4, <3>1
      <3>2. CASE d # c
        <4>1. conn[d] = "waiting"
          BY <2>4, <2>8, <3>2
        <4>2. hostOf[d] \in Infos
          BY <4>1, HasHost
        <4>3. d \in info[hostOf[d]].lpNext \/ \E r \in Resolvers : d \in resolver[r].list
          BY <4>1 DEF IInv, Queues
        <4>4. d \in info[hostOf[d]].lpNext => hostOf[d] # i
          BY <1>2
        <4> QED
          BY <1>2, <1>4, <1>7, <4>2, <4>3, <4>4
      <3> QED
        BY <3>1, <3>2
    <2> QED
      BY <1>6, <1>7, <2>1, <2>2, <2>3, <2>6, <2>7, <2>8 DEF Queues
  <1>12. NoneDisturbed
    <2>1. hostOf[c] # NoInfo
      BY <1>1, <1>2, HostAssumption
    <2> QED
      BY <1>2, <1>3, <1>4, <2>1 DEF NoneDisturbed, OnItsWay
  <1> QED
    BY <1>8, <1>9, <1>10, <1>11, <1>12 DEF HostsFit

(* A resolver takes those that wait, with the name and the class of the    *)
(* host.                                                                   *)
LEMMA TakePendingKeeps ==
  ASSUME IInv, NEW r \in Resolvers, TakePending(r)
  PROVE  HostsFit' /\ NoneDisturbed
  <1> DEFINE i == resolver[r].host
             g == [GetHostClass(info[i]) EXCEPT !.cached = TRUE, !.lpNext = {}]
             x == [resolver[r] EXCEPT !.at = "release", !.list = info[i].lpNext]
  <1>1. /\ info \in [Infos -> Record] /\ resolver \in [Resolvers -> Resolving] /\ resolver[r].at = "resolve"
        /\ resolver[r].list = {} /\ resolver[r].dwCount = 0
    BY DEF IInv, HostTypes, TakePending, Queues, ResolverOK
  <1>2. i \in Infos /\ LooksUp(r, i)
    BY <1>1 DEF IInv, Queues, ResolverOK, LooksUp
  <1>3. info[i].live /\ info[i].address \in Addresses /\ info[i] \in Record
    <2>1. PICK c \in info[i].lpNext : TRUE
      BY <1>2 DEF IInv, Queues
    <2>2. c \in Clients /\ conn[c] = "waiting" /\ hostOf[c] = i
      BY <1>1, <1>2, <2>1 DEF IInv, Queues, Record
    <2> QED
      BY <2>2, HasHost
  <1>4. /\ info' = [info EXCEPT ![i] = g] /\ resolver' = [resolver EXCEPT ![r] = x]
        /\ UNCHANGED <<lpHostArray, lpFreeHostList, dwClassListId, lpResolveList, dwResolveThreads, conn, hostOf>>
    BY DEF TakePending
  <1>5. /\ g \in Record /\ g.live = info[i].live /\ g.address = info[i].address
        /\ g.dwShareCount = info[i].dwShareCount /\ g.lClients = info[i].lClients /\ g.lpNext = {}
    <2> DEFINE f == GetHostClass(info[i])
    <2>1. /\ f \in Record /\ f.live = info[i].live /\ f.address = info[i].address
          /\ f.dwShareCount = info[i].dwShareCount /\ f.lClients = info[i].lClients
      BY <1>3, ClassOnly DEF IInv
    <2> HIDE DEF f
    <2>2. g = [f EXCEPT !.cached = TRUE, !.lpNext = {}]
      BY DEF f
    <2> HIDE DEF g
    <2> QED
      BY <2>1, <2>2 DEF Record
  <1>6. /\ x \in Resolving /\ x.at = "release" /\ x.host = i /\ x.list = info[i].lpNext /\ x.dwCount = 0
    BY <1>1, <1>2 DEF Record, Resolving
  <1> HIDE DEF g, x
  <1>7. \A j \in Infos : /\ info'[j] = IF j = i THEN g ELSE info[j]
                         /\ info'[j].lpNext = IF j = i THEN {} ELSE info[j].lpNext
                         /\ info'[j].live = info[j].live /\ info'[j].address = info[j].address
                         /\ info'[j].dwShareCount = info[j].dwShareCount
                         /\ info'[j].lClients = info[j].lClients
                         /\ info'[j] \in Record
    BY <1>1, <1>3, <1>4, <1>5
  <1>8. /\ resolver'[r] = x /\ \A q \in Resolvers \ {r} : resolver'[q] = resolver[q]
        /\ resolver' \in [Resolvers -> Resolving]
    BY <1>1, <1>4, <1>6
  <1>9. HostTypes'
    <2>1. info' \in [Infos -> Record]
      BY <1>1, <1>4, <1>7
    <2> QED
      BY <1>4, <1>8, <2>1 DEF IInv, HostTypes
  <1>10. Records'
    BY <1>3, <1>4, <1>7, RecordsKept DEF IInv
  <1>11. Shares'
    <2>1. \A q \in Resolvers : ResolversCount(q)
      BY <1>1, <1>6, <1>8 DEF ResolversCount
    <2> QED
      BY <1>4, <1>7, <2>1, SharesKept DEF IInv
  <1>12. Queues'
    <2>1. \A q \in Resolvers : ResolverOK(q)'
      BY <1>2, <1>6, <1>8, Finitely DEF IInv, Queues, ResolverOK
    <2>2. \A q \in Resolvers, j \in Infos : LooksUp(q, j)' <=> LooksUp(q, j) /\ q # r
      BY <1>6, <1>8 DEF LooksUp
    <2>3. \A q \in Resolvers \ {r} : ~ LooksUp(q, i)
      BY <1>2 DEF IInv, Queues
    <2>4. \A j \in Infos : LooksUp(r, j) => j = i
      BY DEF LooksUp
    <2>5. \A j \in Infos : info'[j].lpNext # {} <=>
            j \in ToSet(lpResolveList') \/ \E q \in Resolvers : LooksUp(q, j)'
      <3>1. ASSUME NEW j \in Infos
            PROVE  info'[j].lpNext # {} <=> j \in ToSet(lpResolveList') \/ \E q \in Resolvers : LooksUp(q, j)'
        <4>1. CASE j = i
          <5>1. i \notin ToSet(lpResolveList)
            BY <1>2 DEF IInv, Queues
          <5> QED
            BY <1>4, <1>7, <2>2, <2>3, <4>1, <5>1
        <4>2. CASE j # i
          <5>1. info[j].lpNext # {} <=> j \in ToSet(lpResolveList) \/ \E q \in Resolvers : LooksUp(q, j)
            BY DEF IInv, Queues
          <5> QED
            BY <1>4, <1>7, <2>2, <2>4, <4>2, <5>1
        <4> QED
          BY <4>1, <4>2
      <3> QED
        BY <3>1
    <2>6. \A q \in Resolvers, j \in Infos : LooksUp(q, j)' =>
            /\ j \notin ToSet(lpResolveList')
            /\ \A p \in Resolvers \ {q} : ~ LooksUp(p, j)'
      BY <1>4, <2>2 DEF IInv, Queues
    <2>7. ASSUME NEW j \in Infos, NEW d \in info'[j].lpNext
          PROVE  /\ conn'[d] = "waiting" /\ hostOf'[d] = j
                 /\ \A q \in Resolvers : d \notin resolver'[q].list
      <3>1. j # i /\ d \in info[j].lpNext
        BY <1>7
      <3>2. conn[d] = "waiting" /\ hostOf[d] = j /\ \A q \in Resolvers : d \notin resolver[q].list
        BY <3>1 DEF IInv, Queues
      <3>3. d \notin info[i].lpNext
        BY <1>2, <3>1, <3>2 DEF IInv, Queues
      <3> QED
        BY <1>4, <1>6, <1>8, <3>2, <3>3
    <2>8. ASSUME NEW q \in Resolvers, NEW d \in resolver'[q].list
          PROVE  /\ conn'[d] = "waiting" /\ hostOf'[d] = resolver'[q].host
                 /\ \A p \in Resolvers \ {q} : d \notin resolver'[p].list
      <3>1. CASE q = r
        <4>1. d \in info[i].lpNext
          BY <1>6, <1>8, <3>1
        <4>2. conn[d] = "waiting" /\ hostOf[d] = i /\ \A p \in Resolvers : d \notin resolver[p].list
          BY <1>2, <4>1 DEF IInv, Queues
        <4> QED
          BY <1>4, <1>6, <1>8, <3>1, <4>2
      <3>2. CASE q # r
        <4>1. d \in resolver[q].list
          BY <1>8, <3>2
        <4>2. /\ conn[d] = "waiting" /\ hostOf[d] = resolver[q].host
              /\ \A p \in Resolvers \ {q} : d \notin resolver[p].list
              /\ d \notin info[i].lpNext
          BY <1>2, <4>1 DEF IInv, Queues
        <4> QED
          BY <1>4, <1>6, <1>8, <3>2, <4>2
      <3> QED
        BY <3>1, <3>2
    <2>9. ASSUME NEW d \in Clients, conn'[d] = "waiting"
          PROVE  d \in info'[hostOf'[d]].lpNext \/ \E q \in Resolvers : d \in resolver'[q].list
      <3>1. conn[d] = "waiting" /\ hostOf'[d] = hostOf[d]
        BY <1>4, <2>9
      <3>2. hostOf[d] \in Infos
        BY <3>1, HasHost
      <3>3. d \in info[hostOf[d]].lpNext \/ \E q \in Resolvers : d \in resolver[q].list
        BY <3>1 DEF IInv, Queues
      <3>4. CASE d \in info[hostOf[d]].lpNext /\ hostOf[d] = i
        BY <1>6, <1>8, <3>4
      <3>5. CASE d \in info[hostOf[d]].lpNext /\ hostOf[d] # i
        BY <1>7, <3>1, <3>2, <3>5
      <3>6. CASE \E q \in Resolvers : d \in resolver[q].list
        <4>1. PICK q \in Resolvers : d \in resolver[q].list
          BY <3>6
        <4>2. q # r
          BY <1>1, <4>1
        <4> QED
          BY <1>8, <4>1, <4>2
      <3> QED
        BY <3>3, <3>4, <3>5, <3>6
    <2>10. dwResolveThreads' = Cardinality({q \in Resolvers : resolver'[q].at # "off"})
      <3>1. {q \in Resolvers : resolver'[q].at # "off"} = {q \in Resolvers : resolver[q].at # "off"}
        BY <1>1, <1>6, <1>8
      <3> QED
        BY <1>4, <3>1 DEF IInv, Queues
    <2>11. IsInjective(lpResolveList') /\ (lpResolveList' # <<>> => dwResolveThreads' > 0)
      BY <1>4 DEF IInv, Queues
    <2> QED
      BY <2>1, <2>5, <2>6, <2>7, <2>8, <2>9, <2>10, <2>11 DEF Queues
  <1>13. NoneDisturbed
    BY <1>4, <1>7 DEF NoneDisturbed, OnItsWay
  <1> QED
    BY <1>9, <1>10, <1>11, <1>12, <1>13 DEF HostsFit

(* Connections a resolver has dropped are counted until it takes them off  *)
(* the share count.                                                        *)
LEMMA DroppedChange ==
  ASSUME NEW r \in Resolvers, NEW i, NEW n \in 0..Cardinality(Clients),
         \A q \in Resolvers \ {r} : resolver'[q] = resolver[q]
  PROVE  /\ resolver[r].dwCount = 0 /\ resolver'[r].dwCount = n /\ resolver'[r].host = i =>
              \A j : Cardinality(Dropped(j)') = Cardinality(Dropped(j)) + IF j = i THEN n ELSE 0
         /\ resolver'[r].dwCount = 0 /\ resolver[r].dwCount = n /\ resolver[r].host = i =>
              \A j : Cardinality(Dropped(j)') = Cardinality(Dropped(j)) - IF j = i THEN n ELSE 0
  <1> DEFINE mine == {r} \X (1..n)
  <1>1. IsFiniteSet(mine) /\ Cardinality(mine) = n /\ n \in Nat
    <2>1. n \in Nat /\ n \in Int /\ 1 \in Int
      BY Finitely
    <2>2. IsFiniteSet({r}) /\ Cardinality({r}) = 1
      BY FS_Singleton
    <2>3. IsFiniteSet(1..n) /\ Cardinality(1..n) = n
      BY <2>1, FS_Interval
    <2>4. IsFiniteSet(mine) /\ Cardinality(mine) = 1 * n
      BY <2>2, <2>3, FS_Product
    <2> QED
      BY <2>1, <2>4
  <1>2. mine \subseteq Resolvers \X (1..Cardinality(Clients))
    BY <1>1, Finitely
  <1>3. ASSUME resolver[r].dwCount = 0, resolver'[r].dwCount = n, resolver'[r].host = i, NEW j
        PROVE  Cardinality(Dropped(j)') = Cardinality(Dropped(j)) + IF j = i THEN n ELSE 0
    <2>1. mine \cap Dropped(j) = {}
      BY <1>3 DEF Dropped
    <2>2. CASE j = i
      <3>1. Dropped(j)' = Dropped(j) \cup mine
        BY <1>2, <1>3, <2>2, Finitely DEF Dropped
      <3>2. Cardinality(Dropped(j) \cup mine) = Cardinality(Dropped(j)) + n - Cardinality(Dropped(j) \cap mine)
        BY <1>1, HoldersCount, FS_Union
      <3>3. Cardinality(Dropped(j) \cap mine) = 0
        BY <2>1, FS_EmptySet
      <3> QED
        BY <1>1, <2>2, <3>1, <3>2, <3>3, HoldersCount
    <2>3. CASE j # i
      <3>1. Dropped(j)' = Dropped(j)
        BY <1>3, <2>3, Finitely DEF Dropped
      <3> QED
        BY <2>3, <3>1, HoldersCount
    <2> QED
      BY <2>2, <2>3
  <1>4. ASSUME resolver'[r].dwCount = 0, resolver[r].dwCount = n, resolver[r].host = i, NEW j
        PROVE  Cardinality(Dropped(j)') = Cardinality(Dropped(j)) - IF j = i THEN n ELSE 0
    <2>1. CASE j = i
      <3>1. Dropped(j)' = Dropped(j) \ mine /\ Dropped(j) \cap mine = mine
        BY <1>2, <1>4, <2>1, Finitely DEF Dropped
      <3>2. Cardinality(Dropped(j) \ mine) = Cardinality(Dropped(j)) - Cardinality(Dropped(j) \cap mine)
        BY HoldersCount, FS_Difference
      <3> QED
        BY <1>1, <2>1, <3>1, <3>2
    <2>2. CASE j # i
      <3>1. Dropped(j)' = Dropped(j)
        BY <1>4, <2>2, Finitely DEF Dropped
      <3> QED
        BY <2>2, <3>1, HoldersCount
    <2> QED
      BY <2>1, <2>2
  <1> QED
    BY <1>3, <1>4

(* The connections that waited go on, or are all dropped: those are still  *)
(* counted by the resolver.                                                *)
LEMMA ReleaseKeeps ==
  ASSUME IInv, NEW r \in Resolvers, Release(r)
  PROVE  HostsFit' /\ NoneDisturbed
  <1> DEFINE i == resolver[r].host
             list == resolver[r].list
             drop == info[i].lConnectionsPerHost = 0
             n == IF drop THEN Cardinality(list) ELSE 0
             x == [resolver[r] EXCEPT !.at = "released", !.list = {}, !.dwCount = n]
  <1>1. /\ resolver \in [Resolvers -> Resolving] /\ resolver[r].at = "release" /\ i \in Infos
        /\ resolver[r].dwCount = 0 /\ list \subseteq Clients
        /\ conn \in [Clients -> {"new", "identify", "waiting", "process", "online", "gone"}]
        /\ hostOf \in [Clients -> Infos \cup {NoInfo}] /\ NoInfo \notin Infos
    BY HostAssumption DEF IInv, HostTypes, Release, Queues, ResolverOK, Resolving
  <1>2. /\ resolver' = [resolver EXCEPT ![r] = x]
        /\ conn' = [c \in Clients |-> IF c \notin list THEN conn[c] ELSE IF drop THEN "gone" ELSE "process"]
        /\ hostOf' = [c \in Clients |-> IF c \in list /\ drop THEN NoInfo ELSE hostOf[c]]
        /\ UNCHANGED <<info, lpHostArray, lpFreeHostList, dwClassListId, lpResolveList, dwResolveThreads>>
    BY DEF Release, hosts
  <1>3. n \in 0..Cardinality(Clients) /\ Cardinality(list) \in Nat /\ IsFiniteSet(list)
    <2>1. Cardinality(list) \in Nat /\ Cardinality(list) <= Cardinality(Clients) /\ IsFiniteSet(list)
      BY <1>1, Finitely
    <2> QED
      BY <2>1, Finitely
  <1>4. \A c \in list : conn[c] = "waiting" /\ hostOf[c] = i /\ \A q \in Resolvers \ {r} : c \notin resolver[q].list
    BY DEF IInv, Queues
  <1>5. /\ x \in Resolving /\ x.at = "released" /\ x.host = i /\ x.list = {} /\ x.dwCount = n
    BY <1>1, <1>3, Finitely DEF Resolving
  <1> HIDE DEF x, drop
  <1>6. /\ resolver'[r] = x /\ \A q \in Resolvers \ {r} : resolver'[q] = resolver[q]
        /\ resolver' \in [Resolvers -> Resolving]
    BY <1>1, <1>2, <1>5
  <1>7. HostTypes'
    BY <1>1, <1>2, <1>6 DEF IInv, HostTypes
  <1>8. Records'
    BY <1>1, <1>2, RecordsKept DEF IInv
  <1>9. Shares'
    <2>1. \A j \in Infos : Cardinality(Dropped(j)') = Cardinality(Dropped(j)) + IF j = i THEN n ELSE 0
      <3>1. resolver'[r].dwCount = n /\ resolver'[r].host = i /\ resolver[r].dwCount = 0
        BY <1>1, <1>5, <1>6
      <3> HIDE DEF n, i
      <3> QED
        BY <1>3, <1>6, <3>1, DroppedChange
    <2>2. \A j \in Infos : Cardinality(ConnectedFrom(j)') = Cardinality(ConnectedFrom(j)) - IF j = i THEN n ELSE 0
      <3> SUFFICES ASSUME NEW j \in Infos
                   PROVE  Cardinality(ConnectedFrom(j)') = Cardinality(ConnectedFrom(j)) - IF j = i THEN n ELSE 0
        OBVIOUS
      <3>1. CASE drop /\ j = i
        <4>1. ConnectedFrom(j)' = ConnectedFrom(j) \ list
          BY <1>1, <1>2, <3>1 DEF ConnectedFrom
        <4>2. ConnectedFrom(j) \cap list = list
          BY <1>1, <1>4, <3>1 DEF ConnectedFrom
        <4>3. Cardinality(ConnectedFrom(j) \ list) = Cardinality(ConnectedFrom(j)) - Cardinality(ConnectedFrom(j) \cap list)
          BY HoldersCount, FS_Difference
        <4> QED
          BY <3>1, <4>1, <4>2, <4>3
      <3>2. CASE ~ (drop /\ j = i)
        <4>1. ConnectedFrom(j)' = ConnectedFrom(j)
          BY <1>1, <1>2, <1>4, <3>2 DEF ConnectedFrom
        <4>2. n = 0 \/ j # i
          BY <3>2
        <4> QED
          BY <1>3, <4>1, <4>2, HoldersCount
      <3> QED
        BY <3>1, <3>2
    <2>3. \A j \in Infos : Holders(j)' = Holders(j)
      BY <1>3, <2>1, <2>2, HoldersCount DEF Holders
    <2>4. lpHostArray \subseteq Infos
      BY DEF IInv, Records
    <2> QED
      BY <1>2, <2>3, <2>4 DEF IInv, Shares
  <1>10. Queues'
    <2>1. \A q \in Resolvers : ResolverOK(q)'
      BY <1>1, <1>3, <1>5, <1>6 DEF IInv, Queues, ResolverOK
    <2>2. \A q \in Resolvers, j \in Infos : LooksUp(q, j)' <=> LooksUp(q, j)
      BY <1>1, <1>5, <1>6 DEF LooksUp
    <2>3. \A c \in Clients \ list : conn'[c] = conn[c] /\ hostOf'[c] = hostOf[c]
      BY <1>2
    <2>4. ASSUME NEW j \in Infos, NEW d \in info'[j].lpNext
          PROVE  /\ conn'[d] = "waiting" /\ hostOf'[d] = j
                 /\ \A q \in Resolvers : d \notin resolver'[q].list
      <3>1. d \in info[j].lpNext /\ d \in Clients
        BY <1>2 DEF IInv, HostTypes, Record
      <3>2. conn[d] = "waiting" /\ hostOf[d] = j /\ \A q \in Resolvers : d \notin resolver[q].list
        BY <3>1 DEF IInv, Queues
      <3> QED
        BY <1>5, <1>6, <2>3, <3>1, <3>2
    <2>5. ASSUME NEW q \in Resolvers, NEW d \in resolver'[q].list
          PROVE  /\ conn'[d] = "waiting" /\ hostOf'[d] = resolver'[q].host
                 /\ \A p \in Resolvers \ {q} : d \notin resolver'[p].list
      <3>1. q # r /\ d \in resolver[q].list /\ d \in Clients
        BY <1>1, <1>5, <1>6 DEF Resolving
      <3>2. /\ conn[d] = "waiting" /\ hostOf[d] = resolver[q].host
            /\ \A p \in Resolvers \ {q} : d \notin resolver[p].list
        BY <3>1 DEF IInv, Queues
      <3> QED
        BY <1>5, <1>6, <2>3, <3>1, <3>2
    <2>6. ASSUME NEW d \in Clients, conn'[d] = "waiting"
          PROVE  d \in info'[hostOf'[d]].lpNext \/ \E q \in Resolvers : d \in resolver'[q].list
      <3>1. d \notin list /\ conn[d] = "waiting" /\ hostOf'[d] = hostOf[d]
        BY <1>2, <2>6
      <3>2. d \in info[hostOf[d]].lpNext \/ \E q \in Resolvers : d \in resolver[q].list
        BY <3>1 DEF IInv, Queues
      <3> QED
        BY <1>2, <1>6, <3>1, <3>2
    <2>7. dwResolveThreads' = Cardinality({q \in Resolvers : resolver'[q].at # "off"})
      <3>1. {q \in Resolvers : resolver'[q].at # "off"} = {q \in Resolvers : resolver[q].at # "off"}
        BY <1>1, <1>5, <1>6
      <3> QED
        BY <1>2, <3>1 DEF IInv, Queues
    <2>8. /\ IsInjective(lpResolveList') /\ (lpResolveList' # <<>> => dwResolveThreads' > 0)
          /\ \A j \in Infos : info'[j].lpNext # {} <=>
               j \in ToSet(lpResolveList') \/ \E q \in Resolvers : LooksUp(q, j)'
          /\ \A q \in Resolvers, j \in Infos : LooksUp(q, j)' =>
               /\ j \notin ToSet(lpResolveList')
               /\ \A p \in Resolvers \ {q} : ~ LooksUp(p, j)'
      BY <1>2, <2>2 DEF IInv, Queues
    <2> QED
      BY <2>1, <2>4, <2>5, <2>6, <2>7, <2>8 DEF Queues
  <1>11. NoneDisturbed
    <2>1. ASSUME NEW c \in Clients PROVE OnItsWay(c)
      <3>1. CASE c \notin list
        BY <1>2, <3>1 DEF OnItsWay
      <3>2. CASE c \in list
        BY <1>1, <1>2, <1>4, <3>2 DEF OnItsWay
      <3> QED
        BY <3>1, <3>2
    <2> QED
      BY <1>2, <2>1 DEF NoneDisturbed
  <1> QED
    BY <1>7, <1>8, <1>9, <1>10, <1>11 DEF HostsFit

(* Those it has dropped are taken off the share count, and it looks for    *)
(* the next host.                                                          *)
LEMMA ReleaseEndKeeps ==
  ASSUME IInv, NEW r \in Resolvers, ReleaseEnd(r)
  PROVE  HostsFit' /\ NoneDisturbed
  <1> DEFINE i == resolver[r].host
             n == resolver[r].dwCount
             x == [Quiet EXCEPT !.at = "pop"]
  <1>1. /\ resolver \in [Resolvers -> Resolving] /\ resolver[r].at = "released" /\ i \in Infos
        /\ resolver[r].list = {} /\ n \in 0..Cardinality(Clients) /\ n \in Nat
        /\ info \in [Infos -> Record]
    <2>1. ResolverOK(r) /\ resolver \in [Resolvers -> Resolving] /\ info \in [Infos -> Record]
      BY DEF IInv, HostTypes, Queues
    <2>2. n \in Nat /\ n <= Cardinality(Clients) /\ Cardinality(Clients) \in Nat
      BY <2>1, Finitely DEF ResolverOK, Resolving
    <2>3. resolver[r].at = "released" /\ i \in Infos /\ resolver[r].list = {}
      BY <2>1 DEF ReleaseEnd, ResolverOK
    <2> QED
      BY <2>1, <2>2, <2>3
  <1>2. /\ resolver' = [resolver EXCEPT ![r] = x]
        /\ IF n > 0 THEN UnregisterNetworkAddress(i, n) ELSE UNCHANGED <<info, lpHostArray, lpFreeHostList>>
        /\ UNCHANGED <<dwClassListId, lpResolveList, dwResolveThreads, conn, hostOf>>
    BY DEF ReleaseEnd, hosts
  <1>3. x \in Resolving /\ x.at = "pop" /\ x.host = NoInfo /\ x.list = {} /\ x.dwCount = 0
    BY DEF Quiet, Resolving
  <1> HIDE DEF x
  <1>4. /\ resolver'[r] = x /\ \A q \in Resolvers \ {r} : resolver'[q] = resolver[q]
        /\ resolver' \in [Resolvers -> Resolving]
    BY <1>1, <1>2, <1>3
  <1>5. lpHostArray' = lpHostArray
    BY <1>2 DEF UnregisterNetworkAddress
  <1>6. \A j \in Infos : /\ j # i => info'[j] = info[j]
                         /\ info'[j] \in Record
                         /\ info'[j].live = info[j].live /\ info'[j].address = info[j].address
                         /\ info'[j].dwShareCount = IF j = i THEN info[j].dwShareCount - n
                                                             ELSE info[j].dwShareCount
                         /\ info'[j].lClients = info[j].lClients
                         /\ info'[j].lpNext = info[j].lpNext
    <2>1. \A j \in Infos : info[j].dwShareCount \in Int
      BY <1>1 DEF Record
    <2>2. CASE n = 0
      BY <1>1, <1>2, <2>1, <2>2
    <2>3. CASE n > 0
      <3>1. info' = [info EXCEPT ![i].dwShareCount = @ - n]
        BY <1>2, <2>3 DEF UnregisterNetworkAddress
      <3> QED
        BY <1>1, <2>1, <3>1 DEF Record
    <2> QED
      BY <1>1, <2>2, <2>3
  <1>7. info' \in [Infos -> Record]
    BY <1>1, <1>2, <1>6 DEF UnregisterNetworkAddress
  <1>8. \A j \in Infos : Cardinality(Dropped(j)') = Cardinality(Dropped(j)) - IF j = i THEN n ELSE 0
    <2>1. resolver'[r].dwCount = 0 /\ resolver[r].dwCount = n /\ resolver[r].host = i
      BY <1>3, <1>4
    <2> HIDE DEF n, i
    <2> QED
      BY <1>1, <1>4, <2>1, DroppedChange
  <1>9. \A j \in Infos : Holders(j)' = IF j = i THEN Holders(j) - n ELSE Holders(j)
    <2>1. \A j \in Infos : ConnectedFrom(j)' = ConnectedFrom(j)
      BY <1>2 DEF ConnectedFrom
    <2> QED
      BY <1>1, <1>8, <2>1, HoldersCount DEF Holders
  <1>10. n > 0 => Holders(i) >= n /\ info[i].live
    <2> SUFFICES ASSUME n > 0 PROVE Holders(i) >= n /\ info[i].live
      OBVIOUS
    <2>1. PICK j \in Infos : j = i
      BY <1>1
    <2>2. Cardinality(Dropped(j)') \in Nat
      <3>1. Dropped(j)' \in SUBSET (Resolvers \X (1..Cardinality(Clients)))
        BY DEF Dropped
      <3> QED
        BY <3>1, Finitely
    <2>3. Cardinality(Dropped(j)') = Cardinality(Dropped(j)) - n
      BY <1>8, <2>1
    <2>4. Holders(i) >= n
      BY <1>1, <2>1, <2>2, <2>3, HoldersCount DEF Holders
    <2>5. info[i].dwShareCount = Holders(i) /\ (~ info[i].live => info[i] = NoHost)
      BY <1>1 DEF IInv, Shares, Records
    <2> QED
      BY <1>1, <2>4, <2>5, HoldersCount DEF NoHost
  <1>11. Shares' /\ lpFreeHostList' \in Seq(Infos)
    <2>1. CASE n = 0
      <3>1. \A q \in Resolvers : ResolversCount(q)
        <4>1. ASSUME NEW q \in Resolvers PROVE ResolversCount(q)
          <5>1. CASE q = r
            BY <1>3, <1>4, <2>1, <5>1 DEF ResolversCount
          <5>2. CASE q # r
            BY <1>4, <5>2 DEF ResolversCount
          <5> QED
            BY <5>1, <5>2
        <4> QED
          BY <4>1
      <3>2. UNCHANGED <<info, lpHostArray, lpFreeHostList>>
        BY <1>2, <2>1
      <3> QED
        BY <1>2, <3>1, <3>2, SharesKept DEF IInv, HostTypes
    <2>2. CASE n > 0
      <3>1. lpFreeHostList' = IF info[i].dwShareCount = n THEN Append(lpFreeHostList, i) ELSE lpFreeHostList
        BY <1>2, <2>2 DEF UnregisterNetworkAddress
      <3>2. \A j \in Infos : info'[j].dwShareCount = IF j = i THEN info[j].dwShareCount - n
                                                              ELSE info[j].dwShareCount
        BY <1>6
      <3> QED
        BY <1>1, <1>5, <1>9, <1>10, <2>2, <3>1, <3>2, SharesLess DEF IInv
    <2> QED
      BY <1>1, <2>1, <2>2
  <1>12. HostTypes'
    BY <1>2, <1>4, <1>7, <1>11 DEF IInv, HostTypes
  <1>13. Records'
    <2>1. n = 0 => info' = info
      BY <1>2
    <2>2. \A j \in Infos : ~ info[j].live => info'[j] = info[j]
      BY <1>1, <1>6, <1>10, <2>1
    <2> QED
      BY <1>2, <1>5, <1>6, <2>2, RecordsKept DEF IInv
  <1>14. Queues'
    <2>1. \A q \in Resolvers : ResolverOK(q)'
      BY <1>3, <1>4, Finitely DEF IInv, Queues, ResolverOK
    <2>2. \A q \in Resolvers, j \in Infos : LooksUp(q, j)' <=> LooksUp(q, j)
      BY <1>1, <1>3, <1>4 DEF LooksUp
    <2>3. \A q \in Resolvers : /\ resolver'[q].list = resolver[q].list
                               /\ resolver[q].list # {} => resolver'[q].host = resolver[q].host
      BY <1>1, <1>3, <1>4
    <2>4. dwResolveThreads' = Cardinality({q \in Resolvers : resolver'[q].at # "off"})
      <3>1. {q \in Resolvers : resolver'[q].at # "off"} = {q \in Resolvers : resolver[q].at # "off"}
        BY <1>1, <1>3, <1>4
      <3> QED
        BY <1>2, <3>1 DEF IInv, Queues
    <2>5. /\ \A j \in Infos : \A d \in info'[j].lpNext :
               /\ conn'[d] = "waiting" /\ hostOf'[d] = j
               /\ \A q \in Resolvers : d \notin resolver'[q].list
          /\ \A q \in Resolvers : \A d \in resolver'[q].list :
               /\ conn'[d] = "waiting" /\ hostOf'[d] = resolver'[q].host
               /\ \A p \in Resolvers \ {q} : d \notin resolver'[p].list
      BY <1>2, <1>6, <2>3 DEF IInv, Queues
    <2>6. ASSUME NEW d \in Clients, conn'[d] = "waiting"
          PROVE  d \in info'[hostOf'[d]].lpNext \/ \E q \in Resolvers : d \in resolver'[q].list
      <3>1. conn[d] = "waiting" /\ hostOf'[d] = hostOf[d]
        BY <1>2, <2>6
      <3>2. hostOf[d] \in Infos
        BY <3>1, HasHost
      <3>3. d \in info[hostOf[d]].lpNext \/ \E q \in Resolvers : d \in resolver[q].list
        BY <3>1 DEF IInv, Queues
      <3> QED
        BY <1>6, <2>3, <3>1, <3>2, <3>3
    <2>7. \A j \in Infos : info'[j].lpNext # {} <=>
            j \in ToSet(lpResolveList') \/ \E q \in Resolvers : LooksUp(q, j)'
      BY <1>2, <1>6, <2>2 DEF IInv, Queues
    <2> QED
      BY <1>2, <2>1, <2>2, <2>4, <2>5, <2>6, <2>7 DEF IInv, Queues
  <1>15. NoneDisturbed
    BY <1>2, <1>6 DEF NoneDisturbed, OnItsWay
  <1> QED
    BY <1>11, <1>12, <1>13, <1>14, <1>15 DEF HostsFit

\* What is left when the records `gone` are freed: `records`, and the list of
\* those to free.
Left(records, list, gone) ==
  /\ gone \subseteq ToSet(lpFreeHostList)
  /\ list \in Seq(Infos) /\ IsInjective(list) /\ ToSet(list) = ToSet(lpFreeHostList) \ gone
  /\ records = [i \in Infos |-> IF i \in gone THEN NoHost ELSE info[i]]

(* The records that are freed when the array is full are used by nobody,   *)
(* and the others stay as they are.                                        *)
LEMMA Evicting ==
  ASSUME IInv, NEW records, NEW list, NEW gone, Left(records, list, gone)
  PROVE  /\ records \in [Infos -> Record]
         /\ lpHostArray \ gone = {i \in Infos : records[i].live}
         /\ ToSet(list) = {i \in lpHostArray \ gone : records[i].dwShareCount = 0}
         /\ \A i \in Infos :
              /\ records[i] \in Record
              /\ records[i].dwShareCount = info[i].dwShareCount /\ records[i].lClients = info[i].lClients
              /\ records[i].lpNext = info[i].lpNext
              /\ ~ records[i].live => records[i] = NoHost
              /\ i \in lpHostArray \ gone => records[i] = info[i] /\ info[i].address \in Addresses
              /\ i \in gone => \A c \in Clients : hostOf[c] # i
  <1>1. info \in [Infos -> Record] /\ NoHost \in Record
    BY DEF IInv, HostTypes, NoHost, Record
  <1>2. \A i \in gone : i \in Infos /\ i \in lpHostArray /\ info[i].dwShareCount = 0
    BY DEF Left, IInv, Shares, Records
  <1>3. \A i \in gone : info[i].lpNext = {} /\ info[i].lClients = 0 /\ \A c \in Clients : hostOf[c] # i
    BY <1>2, NobodyThere
  <1>4. records = [i \in Infos |-> IF i \in gone THEN NoHost ELSE info[i]]
    BY DEF Left
  <1>5. \A i \in Infos : records[i] = IF i \in gone THEN NoHost ELSE info[i]
    BY <1>4
  <1>6. lpHostArray \ gone = {i \in Infos : records[i].live}
    BY <1>2, <1>5 DEF IInv, Records, NoHost
  <1>7. ToSet(list) = {i \in lpHostArray \ gone : records[i].dwShareCount = 0}
    BY <1>5, <1>6 DEF Left, IInv, Shares
  <1>8. ASSUME NEW i \in Infos
        PROVE  /\ records[i] \in Record
               /\ records[i].dwShareCount = info[i].dwShareCount /\ records[i].lClients = info[i].lClients
               /\ records[i].lpNext = info[i].lpNext
               /\ ~ records[i].live => records[i] = NoHost
               /\ i \in lpHostArray \ gone => records[i] = info[i] /\ info[i].address \in Addresses
               /\ i \in gone => \A c \in Clients : hostOf[c] # i
    <2>1. CASE i \in gone
      <3>1. records[i] = NoHost
        BY <1>5, <2>1
      <3>2. NoHost.dwShareCount = 0 /\ NoHost.lClients = 0 /\ NoHost.lpNext = {} /\ ~ NoHost.live
        BY DEF NoHost
      <3> QED
        BY <1>1, <1>2, <1>3, <2>1, <3>1, <3>2
    <2>2. CASE i \notin gone
      BY <1>1, <1>5, <2>2 DEF IInv, Records
    <2> QED
      BY <2>1, <2>2
  <1>9. records \in [Infos -> Record]
    BY <1>4, <1>5, <1>8
  <1> QED
    BY <1>6, <1>7, <1>8, <1>9

(* A connection that comes in finds the record of its host, gets a new one *)
(* or is refused.                                                          *)
LEMMA RegisterNetworkAddressKeeps ==
  ASSUME IInv, NEW c \in Clients, RegisterNetworkAddress(c)
  PROVE  HostsFit' /\ NoneDisturbed
  <1>1. /\ conn[c] = "new" /\ hostOf[c] = NoInfo /\ NoInfo \notin Infos
        /\ hostOf \in [Clients -> Infos \cup {NoInfo}] /\ lpFreeHostList \in Seq(Infos)
        /\ conn \in [Clients -> {"new", "identify", "waiting", "process", "online", "gone"}]
        /\ AddressOf[c] \in Addresses /\ IsInjective(lpFreeHostList)
    BY HostAssumption DEF RegisterNetworkAddress, IInv, Places, HostTypes, Shares
  <1>2. UNCHANGED <<dwClassListId, lpResolveList, dwResolveThreads, resolver>>
    BY DEF RegisterNetworkAddress, resolve
  <1>3. \A r \in Resolvers : ResolversCount(r)
    BY <1>2 DEF ResolversCount
  <1>4. PICK old \in 0..Len(lpFreeHostList), past \in {"no", "interval", "ban"} :
          RegisterNetworkAddress(c)!(old, past)
    BY DEF RegisterNetworkAddress
  <1> DEFINE full == Cardinality(lpHostArray) = dwHostArraySize
             gone == IF full THEN Evicted(old) ELSE {}
             list == IF full THEN SubSeq(lpFreeHostList, old + 1, Len(lpFreeHostList)) ELSE lpFreeHostList
             records == [i \in Infos |-> IF i \in gone THEN NoHost ELSE info[i]]
  <1>5. Left(records, list, gone)
    <2>1. CASE full
      <3>1. gone = ToSet(SubSeq(lpFreeHostList, 1, old)) /\ list = SubSeq(lpFreeHostList, old + 1, Len(lpFreeHostList))
        BY <2>1 DEF Evicted
      <3>2. /\ ToSet(SubSeq(lpFreeHostList, 1, old)) \subseteq ToSet(lpFreeHostList)
            /\ list \in Seq(Infos) /\ IsInjective(list)
            /\ ToSet(list) = ToSet(lpFreeHostList) \ ToSet(SubSeq(lpFreeHostList, 1, old))
        BY <1>1, <3>1, Behind
      <3> HIDE DEF list, gone
      <3> QED
        BY <3>1, <3>2 DEF Left
    <2>2. CASE ~ full
      BY <1>1, <2>2 DEF Left
    <2> QED
      BY <2>1, <2>2
  <1>6. \/ /\ \E i \in Find(lpHostArray \ gone, AddressOf[c]) :
                \/ /\ info' = [records EXCEPT ![i].dwShareCount = @ + 1,
                                              ![i].dwAttemptCount = Attempt(records[i], past)]
                   /\ lpFreeHostList' = IF records[i].dwShareCount = 0 THEN TakeOff(list, i) ELSE list
                   /\ hostOf' = [hostOf EXCEPT ![c] = i]
                   /\ conn' = [conn EXCEPT ![c] = "identify"]
                \/ /\ info' = records /\ lpFreeHostList' = list
                   /\ conn' = [conn EXCEPT ![c] = "gone"]
                   /\ UNCHANGED hostOf
           /\ lpHostArray' = lpHostArray \ gone
        \/ /\ Find(lpHostArray \ gone, AddressOf[c]) = {}
           /\ \E i \in Unused :
                /\ info' = [records EXCEPT ![i] = NewHost(AddressOf[c])]
                /\ lpHostArray' = (lpHostArray \ gone) \cup {i}
                /\ hostOf' = [hostOf EXCEPT ![c] = i]
           /\ lpFreeHostList' = list
           /\ conn' = [conn EXCEPT ![c] = "identify"]
    BY <1>4 DEF Move
  <1> HIDE DEF full, gone, list, records
  <1>7. /\ records \in [Infos -> Record] /\ gone \subseteq Infos
        /\ lpHostArray \ gone = {i \in Infos : records[i].live}
        /\ list \in Seq(Infos) /\ IsInjective(list)
        /\ ToSet(list) = {i \in lpHostArray \ gone : records[i].dwShareCount = 0}
        /\ \A i \in Infos :
              /\ records[i] \in Record
              /\ records[i].dwShareCount = info[i].dwShareCount /\ records[i].lClients = info[i].lClients
              /\ records[i].lpNext = info[i].lpNext
              /\ ~ records[i].live => records[i] = NoHost
              /\ i \in lpHostArray \ gone => records[i] = info[i] /\ info[i].address \in Addresses
              /\ i \in gone => \A d \in Clients : hostOf[d] # i
    <2>1. gone \subseteq Infos
      BY <1>1, <1>5 DEF Left, IInv, Shares, Records
    <2>2. list \in Seq(Infos) /\ IsInjective(list)
      BY <1>5 DEF Left
    <2> QED
      BY <1>5, <2>1, <2>2, Evicting
  <1>8. \A i \in Infos : Holders(i) \in Nat /\ records[i].dwShareCount = Holders(i)
    BY <1>7, HoldersCount DEF IInv, Shares
  <1>9. \A d \in Clients : hostOf[d] \in Infos => records[hostOf[d]].live /\ hostOf[d] \in lpHostArray \ gone
    BY <1>7 DEF IInv, Records
  <1>10. \A i, j \in lpHostArray \ gone : info[i].address = info[j].address => i = j
    BY DEF IInv, Records
  \* What the three cases share.
  <1>11. ASSUME \A i \in Infos : info'[i].lpNext = records[i].lpNext /\ info'[i].lClients = records[i].lClients,
                conn'[c] \in {"identify", "gone"}, hostOf'[c] # NoInfo <=> conn'[c] = "identify",
                \A d \in Clients \ {c} : conn'[d] = conn[d] /\ hostOf'[d] = hostOf[d]
         PROVE  Queues' /\ NoneDisturbed
    <2>1. \A d \in Clients : /\ conn'[d] = "waiting" <=> conn[d] = "waiting"
                             /\ conn[d] = "waiting" => hostOf'[d] = hostOf[d] /\ hostOf[d] \in Infos
      BY <1>1, <1>11, HasHost
    <2>2. \A i \in Infos : info'[i].lpNext = info[i].lpNext /\ info'[i].lClients = info[i].lClients
      BY <1>7, <1>11
    <2>3. Queues'
      BY <1>2, <2>1, <2>2, QueuesKept DEF IInv, resolve
    <2>4. \A d \in Clients : OnItsWay(d)
      BY <1>1, <1>11 DEF OnItsWay
    <2> QED
      BY <2>2, <2>3, <2>4 DEF NoneDisturbed
  <1>12. CASE /\ \E i \in Find(lpHostArray \ gone, AddressOf[c]) :
                   /\ info' = [records EXCEPT ![i].dwShareCount = @ + 1,
                                              ![i].dwAttemptCount = Attempt(records[i], past)]
                   /\ lpFreeHostList' = IF records[i].dwShareCount = 0 THEN TakeOff(list, i) ELSE list
                   /\ hostOf' = [hostOf EXCEPT ![c] = i]
                   /\ conn' = [conn EXCEPT ![c] = "identify"]
              /\ lpHostArray' = lpHostArray \ gone
    <2>1. PICK i \in Find(lpHostArray \ gone, AddressOf[c]) :
                   /\ info' = [records EXCEPT ![i].dwShareCount = @ + 1,
                                              ![i].dwAttemptCount = Attempt(records[i], past)]
                   /\ lpFreeHostList' = IF records[i].dwShareCount = 0 THEN TakeOff(list, i) ELSE list
                   /\ hostOf' = [hostOf EXCEPT ![c] = i]
                   /\ conn' = [conn EXCEPT ![c] = "identify"]
      BY <1>12
    <2>2. i \in Infos /\ i \in lpHostArray \ gone /\ records[i] = info[i]
      BY <1>7 DEF Find
    <2> DEFINE g == [records[i] EXCEPT !.dwShareCount = @ + 1, !.dwAttemptCount = Attempt(records[i], past)]
    <2>3. /\ g \in Record /\ g.live = records[i].live /\ g.address = records[i].address
          /\ g.dwShareCount = records[i].dwShareCount + 1 /\ g.lClients = records[i].lClients
          /\ g.lpNext = records[i].lpNext
      <3>1. records[i] \in Record
        BY <1>7, <2>2
      <3>2. Attempt(records[i], past) \in Int
        BY <3>1 DEF Attempt, Record
      <3>3. PICK h : h = [records[i] EXCEPT !.dwShareCount = @ + 1]
        OBVIOUS
      <3>4. /\ h \in Record /\ h.live = records[i].live /\ h.address = records[i].address
            /\ h.dwShareCount = records[i].dwShareCount + 1 /\ h.lClients = records[i].lClients
            /\ h.lpNext = records[i].lpNext
        <4>1. PICK k \in Record : k = records[i]
          BY <3>1
        <4>2. h = [k EXCEPT !.dwShareCount = @ + 1]
          BY <3>3, <4>1
        <4>3. /\ h \in Record /\ h.live = k.live /\ h.address = k.address /\ h.lpNext = k.lpNext
              /\ h.dwShareCount = k.dwShareCount + 1 /\ h.lClients = k.lClients
          BY <4>2 DEF Record
        <4> QED
          BY <4>1, <4>3
      <3>5. g = [h EXCEPT !.dwAttemptCount = Attempt(records[i], past)]
        BY <3>3
      <3> HIDE DEF g
      <3> QED
        BY <3>2, <3>4, <3>5 DEF Record
    <2>4. info' = [records EXCEPT ![i] = g]
      BY <1>7, <2>1, <2>2
    <2> HIDE DEF g
    <2>5. \A j \in Infos : info'[j] = IF j = i THEN g ELSE records[j]
      BY <1>7, <2>2, <2>4
    <2>6. info' \in [Infos -> Record]
      BY <1>7, <2>2, <2>3, <2>4
    <2>7. \A j \in Infos : /\ info'[j].live = records[j].live /\ info'[j].address = records[j].address
                           /\ info'[j].dwShareCount = IF j = i THEN records[j].dwShareCount + 1
                                                               ELSE records[j].dwShareCount
                           /\ info'[j].lClients = records[j].lClients /\ info'[j].lpNext = records[j].lpNext
      BY <2>3, <2>5
    <2>8. \A j \in Infos : Holders(j)' = IF j = i THEN Holders(j) + 1 ELSE Holders(j)
      BY <1>1, <1>3, <2>1, <2>2, HoldersChange DEF IInv
    <2>9. /\ lpFreeHostList' \in Seq(Infos) /\ IsInjective(lpFreeHostList')
          /\ ToSet(lpFreeHostList') = ToSet(list) \ {i}
      <3>1. CASE records[i].dwShareCount = 0
        <4>1. lpFreeHostList' = TakeOff(list, i) /\ i \in ToSet(list)
          BY <1>7, <2>1, <2>2, <3>1
        <4>2. /\ TakeOff(list, i) \in Seq(Infos) /\ IsInjective(TakeOff(list, i))
              /\ ToSet(TakeOff(list, i)) = ToSet(list) \ {i}
          BY <1>7, <4>1, OffTheList
        <4> QED
          BY <4>1, <4>2
      <3>2. CASE records[i].dwShareCount # 0
        <4>1. lpFreeHostList' = list /\ i \notin ToSet(list)
          BY <1>7, <2>1, <3>2
        <4>2. ToSet(list) = ToSet(list) \ {i}
          BY <4>1
        <4> QED
          BY <1>7, <4>1, <4>2
      <3> QED
        BY <3>1, <3>2
    <2>10. Shares'
      <3>1. ToSet(lpFreeHostList') = {j \in lpHostArray' : info'[j].dwShareCount = 0}
        BY <1>7, <1>8, <1>12, <2>2, <2>7, <2>9
      <3> QED
        BY <1>8, <2>7, <2>8, <2>9, <3>1 DEF Shares
    <2>11. \A d \in Clients : /\ d # c => conn'[d] = conn[d] /\ hostOf'[d] = hostOf[d]
                              /\ conn'[c] = "identify" /\ hostOf'[c] = i
      BY <1>1, <2>1
    <2>12. Records'
      <3>1. lpHostArray' = {j \in Infos : info'[j].live}
        BY <1>7, <1>12, <2>7
      <3>2. \A j \in Infos : info'[j].live => info'[j].address \in Addresses
        BY <1>7, <2>7
      <3>3. \A j \in Infos : ~ info'[j].live => info'[j] = NoHost
        BY <1>7, <2>2, <2>5, <2>7
      <3>4. \A j, k \in lpHostArray' : info'[j].address = info'[k].address => j = k
        BY <1>7, <1>10, <1>12, <2>7
      <3>5. \A d \in Clients : hostOf'[d] \in Infos => info'[hostOf'[d]].live
        BY <1>7, <1>9, <2>2, <2>7, <2>11
      <3> QED
        BY <3>1, <3>2, <3>3, <3>4, <3>5 DEF Records
    <2>13. HostTypes'
      BY <1>1, <1>2, <2>1, <2>2, <2>6, <2>9 DEF IInv, HostTypes
    <2>14. Queues' /\ NoneDisturbed
      BY <1>1, <1>11, <2>2, <2>7, <2>11
    <2> QED
      BY <2>10, <2>12, <2>13, <2>14 DEF HostsFit
  <1>13. CASE /\ info' = records /\ lpFreeHostList' = list /\ lpHostArray' = lpHostArray \ gone
              /\ conn' = [conn EXCEPT ![c] = "gone"] /\ UNCHANGED hostOf
    <2>1. \A j \in Infos : Holders(j)' = Holders(j)
      BY <1>3, <1>13, HoldersKept DEF IInv
    <2>2. Shares'
      BY <1>7, <1>8, <1>13, <2>1 DEF Shares
    <2>3. Records'
      BY <1>7, <1>9, <1>10, <1>13 DEF Records
    <2>4. HostTypes'
      BY <1>1, <1>2, <1>7, <1>13 DEF IInv, HostTypes
    <2>5. Queues' /\ NoneDisturbed
      BY <1>1, <1>11, <1>13
    <2> QED
      BY <2>2, <2>3, <2>4, <2>5 DEF HostsFit
  <1>14. CASE /\ Find(lpHostArray \ gone, AddressOf[c]) = {}
              /\ \E i \in Unused :
                   /\ info' = [records EXCEPT ![i] = NewHost(AddressOf[c])]
                   /\ lpHostArray' = (lpHostArray \ gone) \cup {i}
                   /\ hostOf' = [hostOf EXCEPT ![c] = i]
              /\ lpFreeHostList' = list
              /\ conn' = [conn EXCEPT ![c] = "identify"]
    <2>1. PICK i \in Unused : /\ info' = [records EXCEPT ![i] = NewHost(AddressOf[c])]
                              /\ lpHostArray' = (lpHostArray \ gone) \cup {i}
                              /\ hostOf' = [hostOf EXCEPT ![c] = i]
      BY <1>14
    <2> DEFINE g == NewHost(AddressOf[c])
    <2>2. /\ g \in Record /\ g.live /\ g.address = AddressOf[c] /\ g.dwShareCount = 1
          /\ g.lClients = 0 /\ g.lpNext = {}
      <3>1. NoHost \in Record /\ NoHost.lClients = 0 /\ NoHost.lpNext = {}
        BY DEF NoHost, Record
      <3>2. PICK h : h = [NoHost EXCEPT !.live = TRUE, !.address = AddressOf[c]]
        OBVIOUS
      <3>3. /\ h \in Record /\ h.live /\ h.address = AddressOf[c] /\ h.lClients = 0 /\ h.lpNext = {}
        BY <1>1, <3>1, <3>2 DEF Record
      <3>4. PICK k : k = [h EXCEPT !.dwShareCount = 1]
        OBVIOUS
      <3>5. /\ k \in Record /\ k.live /\ k.address = AddressOf[c] /\ k.dwShareCount = 1
            /\ k.lClients = 0 /\ k.lpNext = {}
        BY <3>3, <3>4 DEF Record
      <3>6. g = [k EXCEPT !.dwAttemptCount = 1]
        BY <3>2, <3>4 DEF NewHost
      <3> HIDE DEF g
      <3> QED
        BY <3>5, <3>6 DEF Record
    <2> HIDE DEF g
    <2>3. i \in Infos /\ i \notin lpHostArray /\ info[i] = NoHost
      BY DEF Unused, IInv, Records
    <2>4. records[i].dwShareCount = 0 /\ records[i].lClients = 0 /\ records[i].lpNext = {}
      BY <1>7, <2>3 DEF NoHost
    <2>5. \A j \in Infos : info'[j] = IF j = i THEN g ELSE records[j]
      BY <1>7, <2>1, <2>3 DEF g
    <2>6. info' \in [Infos -> Record]
      BY <1>7, <2>1, <2>2, <2>3 DEF g
    <2>7. \A j \in Infos : Holders(j)' = IF j = i THEN Holders(j) + 1 ELSE Holders(j)
      BY <1>1, <1>3, <2>1, <2>3, HoldersChange DEF IInv
    <2>8. Shares'
      <3>1. \A j \in Infos : info'[j].dwShareCount = Holders(j)'
        BY <1>8, <2>2, <2>3, <2>4, <2>5, <2>7
      <3>2. ToSet(lpFreeHostList') = {j \in lpHostArray' : info'[j].dwShareCount = 0}
        BY <1>7, <1>14, <2>1, <2>2, <2>3, <2>5
      <3> QED
        BY <1>7, <1>14, <3>1, <3>2 DEF Shares
    <2>9. \A d \in Clients : /\ d # c => conn'[d] = conn[d] /\ hostOf'[d] = hostOf[d]
                             /\ conn'[c] = "identify" /\ hostOf'[c] = i
      BY <1>1, <1>14, <2>1
    <2>10. Records'
      <3>1. lpHostArray' = {j \in Infos : info'[j].live}
        BY <1>7, <2>1, <2>2, <2>3, <2>5
      <3>2. \A j \in Infos : info'[j].live => info'[j].address \in Addresses
        BY <1>1, <1>7, <2>2, <2>5
      <3>3. \A j \in Infos : ~ info'[j].live => info'[j] = NoHost
        BY <1>7, <2>2, <2>5
      <3>4. \A j \in lpHostArray \ gone : info[j].address # AddressOf[c]
        BY <1>14 DEF Find
      <3>5. \A j, k \in lpHostArray' : info'[j].address = info'[k].address => j = k
        BY <1>7, <1>10, <2>1, <2>2, <2>3, <2>5, <3>4
      <3>6. \A d \in Clients : hostOf'[d] \in Infos => info'[hostOf'[d]].live
        BY <1>9, <2>2, <2>3, <2>5, <2>9
      <3> QED
        BY <3>1, <3>2, <3>3, <3>5, <3>6 DEF Records
    <2>11. HostTypes'
      BY <1>1, <1>2, <1>7, <1>14, <2>1, <2>3, <2>6 DEF IInv, HostTypes
    <2>12. Queues' /\ NoneDisturbed
      <3>1. \A j \in Infos : info'[j].lpNext = records[j].lpNext /\ info'[j].lClients = records[j].lClients
        BY <2>2, <2>4, <2>5
      <3> QED
        BY <1>1, <1>11, <2>3, <2>9, <3>1
    <2> QED
      BY <2>8, <2>10, <2>11, <2>12 DEF HostsFit
  <1> QED
    BY <1>6, <1>12, <1>13, <1>14

(* A step of the hosts alone.                                              *)
LEMMA HostStepKeeps ==
  ASSUME IInv, HostStep, UNCHANGED regvars
  PROVE  IInv'
  <1>1. HostsFit' /\ NoneDisturbed
    BY ReadConnectionClassesKeeps, RegisterNetworkAddressKeeps, JoinQueueKeeps, AskForNameKeeps,
       UseCachedNameKeeps, PopResolveKeeps, TakePendingKeeps, ReleaseKeeps, ReleaseEndKeeps DEF HostStep
  <1>2. ClientTypes' /\ Places' /\ SlotsOK' /\ LoginsOK' /\ LimitsOK'
    BY <1>1, ClientsKept DEF HostsFit, NoneDisturbed
  <1> QED
    BY <1>1, <1>2 DEF IInv, HostsFit

-------------------------------------------------------------------------------
(* The steps of the clients.                                               *)

(* A step that does not touch the hosts keeps what is said of them.        *)
LEMMA HostsSame ==
  ASSUME IInv, UNCHANGED hostvars
  PROVE  HostsFit'
  <1>1. UNCHANGED <<info, lpHostArray, lpFreeHostList, dwClassListId, lpResolveList, dwResolveThreads,
                    resolver, conn, hostOf>>
    BY DEF hostvars
  <1>2. \A i : Holders(i)' = Holders(i)
    BY <1>1 DEF Holders, ConnectedFrom, Dropped
  <1>3. HostTypes' /\ Records'
    BY <1>1 DEF IInv, HostTypes, Records
  <1>4. Shares'
    BY <1>1, <1>2 DEF IInv, Shares
  <1>5. Queues'
    BY <1>1 DEF IInv, Queues, ResolverOK, LooksUp
  <1> QED
    BY <1>3, <1>4, <1>5 DEF HostsFit

\* What a client may do without a change to the tables: it neither enters nor
\* leaves the array or the counters, it is inside csClientArray where it has
\* to be, and what it goes on with, the limits allow.
Apart == {"publish", "registered", "accepted", "closing"}
MayMove(c) ==
  /\ op[c].at \notin Apart /\ op'[c].at \notin Apart \cup {"use"}
  /\ op'[c].at \in LockCalls => op'[c].then # "use"
  /\ op'[c].at # "idle" => conn[c] = "online"
  /\ csClientArray' = c <=> InArray(c)'
  /\ \A d \in Clients \ {c} : csClientArray' = d <=> csClientArray = d
  /\ LogsIn(c)' => uid[c] = NoOne /\ UserOf[c] \in Users
  /\ Going(c, "undo")' => uid[c] # NoOne
  /\ Passed(c)' => \/ Passed(c)
                   \/ /\ ~ Full(lMaxClients, lClients.service)
                      /\ ~ Full(Limits[UserOf[c]], lClients.user[UserOf[c]])

(* A step that moves one actor and leaves the tables as they are.          *)
LEMMA OpMoves ==
  ASSUME IInv, NEW a \in Actors, NEW x \in Op, op' = [op EXCEPT ![a] = x],
         UNCHANGED <<hostvars, lpClientArray, lpClientSlotList, slotOf, uid, lClients>>,
         csClientArray' \in Clients \cup {NoOne},
         x.at \in LockCalls => x.slot \in Slots /\ x.then # "idle",
         a \in Killers => /\ x.at \in LockCalls \cup {"idle", "use"}
                          /\ x.at \in LockCalls => x.then = "use"
                          /\ csClientArray' = csClientArray,
         a \in Clients => MayMove(a)
  PROVE  IInv'
  <1>1. /\ op \in [Actors -> Op] /\ Clients \cap Killers = {} /\ NoOne \notin Clients
        /\ Actors = Clients \cup Killers
    BY RegistryAssumption DEF IInv, ClientTypes, Actors
  <1>2. op'[a] = x /\ \A y \in Actors \ {a} : op'[y] = op[y]
    BY <1>1
  <1>3. UNCHANGED <<info, conn, hostOf>>
    BY DEF hostvars
  <1>4. HostsFit'
    BY HostsSame
  <1>5. ClientTypes'
    BY <1>1 DEF IInv, ClientTypes
  <1>6. \A c \in Clients \ {a} :
          /\ op'[c] = op[c] /\ (InArray(c)' <=> InArray(c)) /\ (LogsIn(c)' <=> LogsIn(c))
          /\ Passed(c)' <=> Passed(c)
          /\ \A place : Going(c, place)' <=> Going(c, place)
    BY <1>1, <1>2 DEF InArray, LogsIn, Passed, Going, At
  <1>7. \A c \in Clients : /\ At(c, "publish")' <=> At(c, "publish")
                           /\ At(c, "registered")' <=> At(c, "registered")
                           /\ At(c, "accepted")' <=> At(c, "accepted")
                           /\ At(c, "closing")' <=> At(c, "closing")
    BY <1>1, <1>2 DEF At, MayMove, Apart
  <1>8. Places'
    <2>1. \A y \in Actors : op'[y].at \in LockCalls => op'[y].slot \in Slots /\ op'[y].then # "idle"
      BY <1>2 DEF IInv, Places
    <2>2. \A k \in Killers : /\ op'[k].at \in LockCalls \cup {"idle", "use"}
                             /\ op'[k].at \in LockCalls => op'[k].then = "use"
      BY <1>1, <1>2 DEF IInv, Places
    <2>3. ASSUME NEW c \in Clients
          PROVE  /\ op'[c].at # "use" /\ (op'[c].at \in LockCalls => op'[c].then # "use")
                 /\ op'[c].at \in {"publish", "registered"} => conn'[c] = "process"
                 /\ op'[c].at \notin {"idle", "publish", "registered"} => conn'[c] = "online"
      <3>1. CASE c = a
        BY <1>2, <1>3, <3>1 DEF MayMove, Apart
      <3>2. CASE c # a
        BY <1>3, <1>6, <3>2 DEF IInv, Places
      <3> QED
        BY <3>1, <3>2
    <2>4. ASSUME NEW c \in Clients PROVE csClientArray' = c <=> InArray(c)'
      <3>1. CASE c = a
        BY <3>1 DEF MayMove
      <3>2. CASE c # a /\ a \in Clients
        BY <1>6, <3>2 DEF MayMove, IInv, Places
      <3>3. CASE a \in Killers
        BY <1>1, <1>6, <3>3 DEF IInv, Places
      <3> QED
        BY <1>1, <3>1, <3>2, <3>3
    <2>5. \A c \in Clients : hostOf'[c] # NoInfo <=>
            \/ conn'[c] \in {"identify", "waiting", "process"}
            \/ (conn'[c] = "online" /\ ~ At(c, "closing")')
      BY <1>3, <1>7 DEF IInv, Places
    <2> QED
      BY <2>1, <2>2, <2>3, <2>4, <2>5 DEF Places
  <1>9. SlotsOK'
    BY <1>3, <1>7 DEF IInv, SlotsOK, Present
  <1>10. /\ \A c \in Clients : Online(c)' <=> Online(c)
         /\ \A c \in Clients, u \in Users : OfUser(c, u)' <=> OfUser(c, u)
    BY <1>7 DEF Online, OfUser
  <1>11. LoginsOK'
    <2>1. ASSUME NEW c \in Clients
          PROVE  /\ LogsIn(c)' => uid'[c] = NoOne /\ UserOf[c] \in Users
                 /\ Going(c, "undo")' => uid'[c] # NoOne
      BY <1>6 DEF IInv, LoginsOK, MayMove
    <2>2. /\ {c \in Clients : Online(c)'} = {c \in Clients : Online(c)}
          /\ \A i \in Infos : {c \in Clients : Online(c)' /\ hostOf'[c] = i} = {c \in Clients : Online(c) /\ hostOf[c] = i}
          /\ \A u \in Users : {c \in Clients : OfUser(c, u)'} = {c \in Clients : OfUser(c, u)}
      BY <1>3, <1>10
    <2> QED
      BY <1>3, <2>1, <2>2 DEF IInv, LoginsOK
  <1>12. LimitsOK'
    <2>1. /\ \A S : {c \in Clients : Online(c)' /\ UserOf[c] \notin S} = {c \in Clients : Online(c) /\ UserOf[c] \notin S}
          /\ \A u \in Users : {c \in Clients : OfUser(c, u)'} = {c \in Clients : OfUser(c, u)}
      BY <1>10
    <2>2. LimitsKept'
      BY <2>1 DEF IInv, LimitsOK, LimitsKept
    <2>3. \A c \in Clients : Passed(c)' =>
            ~ Full(lMaxClients, lClients.service) /\ ~ Full(Limits[UserOf[c]], lClients.user[UserOf[c]])
      BY <1>6 DEF IInv, LimitsOK, MayMove
    <2> QED
      BY <2>2, <2>3 DEF LimitsOK, Full
  <1> QED
    BY <1>4, <1>5, <1>8, <1>9, <1>11, <1>12 DEF IInv, HostsFit

(* Nobody is in the slot: who counts clients goes on to the next one.      *)
LEMMA NobodyInSlot ==
  ASSUME IInv, NEW a \in Actors, NEW then, NEW count \in Nat, Missed(a, then, count)
  PROVE  \E x \in Op : /\ op' = [op EXCEPT ![a] = x]
                       /\ x.at = IF then = "compare" THEN "next" ELSE "idle"
  <1>1. op[a] \in Op
    BY DEF IInv, ClientTypes
  <1>2. CASE then = "compare"
    <2>1. PICK x : x = [Idle EXCEPT !.at = "next", !.n = op[a].n + 1, !.iCount = count]
      OBVIOUS
    <2>2. x = [at |-> "next", slot |-> 0, then |-> "idle", got |-> NoOne, n |-> op[a].n + 1,
               iCount |-> count, code |-> 0]
      BY <2>1 DEF Idle
    <2>3. x \in Op /\ x.at = "next"
      BY <1>1, <2>2 DEF Op
    <2> QED
      BY <1>2, <2>1, <2>3 DEF Missed
  <1>3. CASE then # "compare"
    <2>1. Idle \in Op /\ Idle.at = "idle"
      BY DEF Idle, Op
    <2> QED
      BY <1>3, <2>1 DEF Missed
  <1> QED
    BY <1>2, <1>3

(* LockClient begins with a look at the slot.                              *)
LEMMA Looked ==
  ASSUME IInv, NEW a \in Actors, NEW n \in Slots, NEW then \in {"use", "locked", "compare", "undo"},
         NEW count \in Nat, LookAt(a, n, then, count)
  PROVE  \E x \in Op : /\ op' = [op EXCEPT ![a] = x]
                       /\ \/ x.at = "exchange" /\ x.slot = n /\ x.then = then
                          \/ x.at = "next" /\ then = "compare"
                          \/ x.at = "idle" /\ then # "compare"
  <1>1. op[a] \in Op
    BY DEF IInv, ClientTypes
  <1>2. CASE lpClientArray[n] # NoOne
    <2>1. PICK x : x = [op[a] EXCEPT !.at = "exchange", !.slot = n, !.then = then, !.iCount = count]
      OBVIOUS
    <2>2. x \in Op /\ x.at = "exchange" /\ x.slot = n /\ x.then = then
      BY <1>1, <2>1 DEF Op
    <2> QED
      BY <1>2, <2>1, <2>2 DEF LookAt
  <1>3. CASE lpClientArray[n] = NoOne
    BY <1>3, NobodyInSlot DEF LookAt
  <1> QED
    BY <1>2, <1>3

(* LockClient: the first look, the exchange and the second look.           *)
LEMMA LockLookKeeps ==
  ASSUME IInv, NEW a \in Actors, LockLook(a)
  PROVE  IInv'
  <1>1. /\ op[a] \in Op /\ op[a].at = "look" /\ op[a].slot \in Slots
        /\ op[a].then \in {"use", "locked", "compare", "undo"} /\ op[a].iCount \in Nat
    BY DEF IInv, ClientTypes, Places, LockLook, At, LockCalls, Op
  <1>2. LookAt(a, op[a].slot, op[a].then, op[a].iCount)
    BY DEF LockLook
  <1>3. PICK x \in Op : /\ op' = [op EXCEPT ![a] = x]
                        /\ \/ x.at = "exchange" /\ x.slot = op[a].slot /\ x.then = op[a].then
                           \/ x.at = "next" /\ op[a].then = "compare"
                           \/ x.at = "idle" /\ op[a].then # "compare"
    BY <1>1, <1>2, Looked
  <1>4. /\ UNCHANGED <<hostvars, lpClientArray, lpClientSlotList, slotOf, uid, lClients, csClientArray>>
        /\ csClientArray \in Clients \cup {NoOne}
    BY DEF LockLook, table, logon, IInv, ClientTypes
  <1>5. op'[a] = x
    BY <1>3 DEF IInv, ClientTypes
  <1>6. a \in Killers => /\ x.at \in LockCalls \cup {"idle", "use"}
                         /\ x.at \in LockCalls => x.then = "use"
    BY <1>1, <1>3 DEF IInv, Places, LockCalls
  <1>7. a \in Clients => MayMove(a)
    BY <1>1, <1>3, <1>4, <1>5
       DEF IInv, Places, LoginsOK, MayMove, Apart, LockCalls, InArray, LogsIn, Passed, Going, At
  <1> QED
    BY <1>1, <1>3, <1>4, <1>6, <1>7, OpMoves DEF LockCalls

(* The flag of the slot is taken, or spun on.                              *)
LEMMA LockExchangeKeeps ==
  ASSUME IInv, NEW a \in Actors, LockExchange(a)
  PROVE  IInv'
  <1>1. /\ op \in [Actors -> Op] /\ op[a] \in Op /\ op[a].at = "exchange" /\ op[a].slot \in Slots
        /\ op[a].then # "idle"
    BY DEF IInv, ClientTypes, Places, LockExchange, At, LockCalls
  <1>2. PICK x : x = [op[a] EXCEPT !.at = IF lDataLock[op[a].slot] THEN "look" ELSE "again"]
    OBVIOUS
  <1>3. x \in Op /\ x.at \in {"look", "again"} /\ x.slot = op[a].slot /\ x.then = op[a].then
    BY <1>1, <1>2 DEF Op
  <1>4. op' = [op EXCEPT ![a] = x]
    BY <1>1, <1>2 DEF LockExchange, Goto
  <1>5. /\ UNCHANGED <<hostvars, lpClientArray, lpClientSlotList, slotOf, uid, lClients, csClientArray>>
        /\ csClientArray \in Clients \cup {NoOne}
    BY DEF LockExchange, logon, IInv, ClientTypes
  <1>6. op'[a] = x
    BY <1>1, <1>4
  <1>7. a \in Killers => x.then = "use" /\ x.at \in LockCalls
    BY <1>1, <1>3 DEF IInv, Places, LockCalls
  <1>8. a \in Clients => MayMove(a)
    BY <1>1, <1>3, <1>5, <1>6
       DEF IInv, Places, LoginsOK, MayMove, Apart, LockCalls, InArray, LogsIn, Passed, Going, At
  <1> QED
    BY <1>1, <1>3, <1>4, <1>5, <1>7, <1>8, OpMoves

(* The array is looked at again, with the flag set.                        *)
LEMMA LockAgainKeeps ==
  ASSUME IInv, NEW a \in Actors, LockAgain(a)
  PROVE  IInv'
  <1>1. /\ op \in [Actors -> Op] /\ op[a] \in Op /\ op[a].at = "again" /\ op[a].slot \in Slots
        /\ op[a].then \in {"use", "locked", "compare", "undo"}
    BY DEF IInv, ClientTypes, Places, LockAgain, At, LockCalls, Op
  <1>2. PICK x \in Op : /\ op' = [op EXCEPT ![a] = x]
                        /\ \/ x.at = op[a].then
                           \/ x.at = "next" /\ op[a].then = "compare"
                           \/ x.at = "idle" /\ op[a].then # "compare"
    <2>1. CASE lpClientArray[op[a].slot] # NoOne
      <3>1. PICK x : x = [op[a] EXCEPT !.at = op[a].then, !.got = lpClientArray[op[a].slot]]
        OBVIOUS
      <3>2. lpClientArray[op[a].slot] \in Clients \cup {NoOne}
        BY <1>1 DEF IInv, ClientTypes
      <3>3. x \in Op /\ x.at = op[a].then
        BY <1>1, <3>1, <3>2 DEF Op
      <3>4. op' = [op EXCEPT ![a] = x]
        BY <1>1, <2>1, <3>1 DEF LockAgain
      <3> QED
        BY <3>3, <3>4
    <2>2. CASE lpClientArray[op[a].slot] = NoOne
      <3>1. Missed(a, op[a].then, op[a].iCount) /\ op[a].iCount \in Nat
        BY <1>1, <2>2 DEF LockAgain, Op
      <3> QED
        BY <3>1, NobodyInSlot
    <2> QED
      BY <2>1, <2>2
  <1>3. /\ UNCHANGED <<hostvars, lpClientArray, lpClientSlotList, slotOf, uid, lClients, csClientArray>>
        /\ csClientArray \in Clients \cup {NoOne}
    BY DEF LockAgain, logon, IInv, ClientTypes
  <1>4. op'[a] = x
    BY <1>1, <1>2
  <1>5. a \in Killers => x.at \in {"idle", "use"} /\ x.at \notin LockCalls
    BY <1>1, <1>2 DEF IInv, Places, LockCalls
  <1>6. x.at \notin LockCalls
    BY <1>1, <1>2 DEF LockCalls
  <1>7. a \in Clients => MayMove(a)
    BY <1>1, <1>2, <1>3, <1>4
       DEF IInv, Places, LoginsOK, MayMove, Apart, LockCalls, InArray, LogsIn, Passed, Going, At
  <1> QED
    BY <1>1, <1>2, <1>3, <1>5, <1>6, <1>7, OpMoves

(* Who kills clients, or lists them, touches nothing but the lock.         *)
LEMMA KillKeeps ==
  ASSUME IInv, NEW k \in Killers, (\E n \in Slots : Kill(k, n)) \/ KillEnd(k)
  PROVE  IInv'
  <1>1. k \in Actors /\ k \notin Clients /\ op[k] \in Op
    BY RegistryAssumption DEF Actors, IInv, ClientTypes
  <1>2. PICK x \in Op : op' = [op EXCEPT ![k] = x] /\
                        (x.at = "idle" \/ (x.at = "exchange" /\ x.slot \in Slots /\ x.then = "use"))
    <2>1. ASSUME NEW n \in Slots, Kill(k, n)
          PROVE  \E x \in Op : op' = [op EXCEPT ![k] = x] /\
                        (x.at = "idle" \/ (x.at = "exchange" /\ x.slot \in Slots /\ x.then = "use"))
      <3>1. LookAt(k, n, "use", 0)
        BY <2>1 DEF Kill
      <3> QED
        BY <1>1, <3>1, Looked
    <2>2. ASSUME KillEnd(k)
          PROVE  \E x \in Op : op' = [op EXCEPT ![k] = x] /\ x.at = "idle"
      <3>1. Idle \in Op /\ Idle.at = "idle"
        BY DEF Idle, Op
      <3> QED
        BY <2>2, <3>1 DEF KillEnd
    <2> QED
      BY <2>1, <2>2
  <1>3. /\ UNCHANGED <<hostvars, lpClientArray, lpClientSlotList, slotOf, uid, lClients, csClientArray>>
        /\ csClientArray \in Clients \cup {NoOne}
    BY DEF Kill, KillEnd, table, logon, IInv, ClientTypes
  <1> QED
    BY <1>1, <1>2, <1>3, OpMoves DEF LockCalls

(* A log-in, and its undoing, begin with the lock of the client's own slot.*)
LEMMA LoginKeeps ==
  ASSUME IInv, NEW c \in Clients, Login(c) \/ Deauthenticate(c)
  PROVE  IInv'
  <1>1. /\ c \in Actors /\ c \notin Killers /\ conn[c] = "online" /\ op[c].at = "idle"
        /\ slotOf[c] \in Slots /\ csClientArray # c
    BY RegistryAssumption
       DEF Actors, Login, Deauthenticate, In, At, IInv, SlotsOK, Present, Places, InArray, Going, LockCalls
  <1>2. PICK then \in {"locked", "undo"} :
          /\ LookAt(c, slotOf[c], then, 0)
          /\ then = "locked" => uid[c] = NoOne /\ UserOf[c] \in Users
          /\ then = "undo" => uid[c] # NoOne
    BY RegistryAssumption DEF Login, Deauthenticate
  <1>3. PICK x \in Op : /\ op' = [op EXCEPT ![c] = x]
                        /\ x.at = "idle" \/ (x.at = "exchange" /\ x.slot \in Slots /\ x.then = then)
    BY <1>1, <1>2, Looked
  <1>4. /\ UNCHANGED <<hostvars, lpClientArray, lpClientSlotList, slotOf, uid, lClients, csClientArray>>
        /\ csClientArray \in Clients \cup {NoOne}
    BY DEF Login, Deauthenticate, table, logon, IInv, ClientTypes
  <1>5. op'[c] = x
    BY <1>1, <1>3 DEF IInv, ClientTypes
  <1>6. MayMove(c)
    BY <1>1, <1>2, <1>3, <1>4, <1>5 DEF MayMove, Apart, LockCalls, InArray, LogsIn, Passed, Going, At
  <1> QED
    BY <1>1, <1>3, <1>4, <1>6, OpMoves DEF LockCalls

(* The limits are looked at inside csClientArray.                          *)
LEMMA EnterLoginKeeps ==
  ASSUME IInv, NEW c \in Clients, EnterLogin(c)
  PROVE  IInv'
  <1>1. /\ c \in Actors /\ c \notin Killers /\ op[c].at = "locked" /\ op[c] \in Op
        /\ conn[c] = "online" /\ uid[c] = NoOne /\ UserOf[c] \in Users /\ NoOne \notin Clients
        /\ csClientArray = NoOne /\ csClientArray' = c
    BY RegistryAssumption
       DEF Actors, EnterLogin, At, IInv, ClientTypes, Places, LoginsOK, LogsIn, Going, LockCalls
  <1>2. PICK x : /\ op' = [op EXCEPT ![c] = x]
                 /\ \E place \in {"next", "decide"} :
                      /\ x = [Idle EXCEPT !.code = Refusal(c), !.n = 1, !.at = place]
                      /\ place = "next" => Refusal(c) = 0
    BY DEF EnterLogin
  <1>3. Refusal(c) \in Int
    BY DEF Refusal
  <1>4. /\ x \in Op /\ x.at \in {"next", "decide"} /\ x.code = Refusal(c)
        /\ x.at = "next" => Refusal(c) = 0
    <2>1. PICK place \in {"next", "decide"} :
            /\ x = [Idle EXCEPT !.code = Refusal(c), !.n = 1, !.at = place]
            /\ place = "next" => Refusal(c) = 0
      BY <1>2
    <2>2. x = [at |-> place, slot |-> 0, then |-> "idle", got |-> NoOne, n |-> 1, iCount |-> 0, code |-> Refusal(c)]
      BY <2>1 DEF Idle
    <2> QED
      BY <1>3, <2>1, <2>2 DEF Op
  <1>5. Refusal(c) = 0 /\ UserOf[c] \notin MayFill =>
          ~ Full(lMaxClients, lClients.service) /\ ~ Full(Limits[UserOf[c]], lClients.user[UserOf[c]])
    BY DEF Refusal
  <1>6. UNCHANGED <<hostvars, lpClientArray, lpClientSlotList, slotOf, uid, lClients>>
    BY DEF EnterLogin, table, logon
  <1>7. op'[c] = x
    BY <1>1, <1>2 DEF IInv, ClientTypes
  <1>8. MayMove(c)
    BY <1>1, <1>4, <1>5, <1>6, <1>7
       DEF MayMove, Apart, LockCalls, InArray, LogsIn, Passed, Going, At
  <1> QED
    BY <1>1, <1>2, <1>4, <1>6, <1>8, OpMoves DEF LockCalls

(* A log-in goes on to the next slot, or has seen them all.                *)
LEMMA NextClientKeeps ==
  ASSUME IInv, NEW c \in Clients, NextClient(c)
  PROVE  IInv'
  <1>1. /\ c \in Actors /\ c \notin Killers /\ op[c].at = "next" /\ op[c] \in Op /\ op \in [Actors -> Op]
        /\ conn[c] = "online" /\ csClientArray = c /\ LogsIn(c)
    BY RegistryAssumption DEF Actors, NextClient, At, IInv, ClientTypes, Places, InArray, LogsIn
  <1>2. PICK x \in Op : /\ op' = [op EXCEPT ![c] = x]
                        /\ \/ x.at \in {"next", "decide"}
                           \/ x.at = "exchange" /\ x.slot \in Slots /\ x.then = "compare"
    <2> DEFINE n == op[c].n
    <2>1. n \in Nat /\ op[c].iCount \in Nat
      BY <1>1 DEF Op
    <2>2. CASE n \notin Slots /\ op' = [op EXCEPT ![c] = [Idle EXCEPT !.at = "decide",
                        !.code = IF op[c].iCount >= LimitPerIP[UserOf[c]] THEN -5 ELSE 0]]
      <3> DEFINE v == IF op[c].iCount >= LimitPerIP[UserOf[c]] THEN -5 ELSE 0
      <3>1. v \in Int /\ op' = [op EXCEPT ![c] = [Idle EXCEPT !.at = "decide", !.code = v]]
        BY <2>2
      <3> HIDE DEF v
      <3>2. PICK x : x = [Idle EXCEPT !.at = "decide", !.code = v]
        OBVIOUS
      <3>3. x \in Op /\ x.at = "decide"
        BY <3>1, <3>2 DEF Idle, Op
      <3> QED
        BY <3>1, <3>2, <3>3
    <2>3. CASE op' = [op EXCEPT ![c].n = n + 1]
      <3>1. [op[c] EXCEPT !.n = n + 1] \in Op /\ [op[c] EXCEPT !.n = n + 1].at = "next"
        BY <1>1, <2>1 DEF Op
      <3>2. op' = [op EXCEPT ![c] = [op[c] EXCEPT !.n = n + 1]]
        BY <1>1, <2>3
      <3> QED
        BY <3>1, <3>2
    <2>4. CASE n \in Slots /\ LookAt(c, n, "compare", op[c].iCount)
      BY <1>1, <2>1, <2>4, Looked
    <2> QED
      BY <2>2, <2>3, <2>4 DEF NextClient
  <1>3. UNCHANGED <<hostvars, lpClientArray, lpClientSlotList, slotOf, uid, lClients, csClientArray>>
    BY DEF NextClient, table, logon
  <1>4. op'[c] = x
    BY <1>1, <1>2
  <1>5. MayMove(c)
    BY <1>1, <1>2, <1>3, <1>4
       DEF IInv, LoginsOK, Places, MayMove, Apart, LockCalls, InArray, LogsIn, Passed, Going, At
  <1> QED
    BY <1>1, <1>2, <1>3, <1>5, OpMoves DEF LockCalls

(* It has compared the client of a slot with its own.                      *)
LEMMA CompareKeeps ==
  ASSUME IInv, NEW c \in Clients, Compare(c)
  PROVE  IInv'
  <1>1. /\ c \in Actors /\ c \notin Killers /\ op[c].at = "compare" /\ op[c] \in Op /\ op \in [Actors -> Op]
        /\ conn[c] = "online" /\ csClientArray = c /\ LogsIn(c)
    BY RegistryAssumption DEF Actors, Compare, At, IInv, ClientTypes, Places, InArray, LogsIn, Going
  <1>2. PICK x \in Op : op' = [op EXCEPT ![c] = x] /\ x.at = "next"
    <2>1. op[c].n \in Nat /\ op[c].iCount \in Nat
      BY <1>1 DEF Op
    <2>2. PICK count \in Nat : op' = [op EXCEPT ![c] = [Idle EXCEPT !.at = "next", !.n = op[c].n + 1, !.iCount = count]]
      <3> DEFINE same == uid[op[c].got] = UserOf[c] /\ hostOf[op[c].got] = hostOf[c]
                 count == op[c].iCount + (IF same THEN 1 ELSE 0)
      <3>1. op' = [op EXCEPT ![c] = [Idle EXCEPT !.at = "next", !.n = op[c].n + 1, !.iCount = count]]
        BY DEF Compare
      <3>2. count \in Nat
        BY <2>1
      <3> HIDE DEF count
      <3> QED
        BY <3>1, <3>2
    <2>3. PICK x : x = [Idle EXCEPT !.at = "next", !.n = op[c].n + 1, !.iCount = count]
      OBVIOUS
    <2>4. x = [at |-> "next", slot |-> 0, then |-> "idle", got |-> NoOne, n |-> op[c].n + 1,
               iCount |-> count, code |-> 0]
      BY <2>3 DEF Idle
    <2>5. x \in Op /\ x.at = "next"
      BY <2>1, <2>4 DEF Op
    <2> QED
      BY <2>2, <2>3, <2>5
  <1>3. UNCHANGED <<hostvars, lpClientArray, lpClientSlotList, slotOf, uid, lClients, csClientArray>>
    BY DEF Compare, logon
  <1>4. op'[c] = x
    BY <1>1, <1>2
  <1>5. MayMove(c)
    BY <1>1, <1>2, <1>3, <1>4
       DEF IInv, LoginsOK, Places, MayMove, Apart, LockCalls, InArray, LogsIn, Passed, Going, At
  <1> QED
    BY <1>1, <1>2, <1>3, <1>5, OpMoves DEF LockCalls

(* A log-in is refused; a connection is closed.                            *)
LEMMA InOrOutKeeps ==
  ASSUME IInv, NEW c \in Clients, Refuse(c) \/ CloseConnection(c)
  PROVE  IInv'
  <1>1. /\ c \in Actors /\ c \notin Killers /\ op \in [Actors -> Op] /\ op[c] \in Op /\ NoOne \notin Clients
        /\ op[c].at \in {"idle", "decide"} /\ conn[c] = "online"
    BY RegistryAssumption DEF Actors, IInv, ClientTypes, Places, Refuse, CloseConnection, At, In
  <1>2. PICK x \in Op : /\ op' = [op EXCEPT ![c] = x]
                        /\ \/ op[c].at = "decide" /\ x.at = "idle" /\ csClientArray' = NoOne
                           \/ op[c].at = "idle" /\ x.at = "leaving" /\ csClientArray' = c /\ csClientArray = NoOne
    <2>1. CASE Refuse(c)
      <3>1. Idle \in Op /\ Idle.at = "idle"
        BY DEF Idle, Op
      <3> QED
        BY <2>1, <3>1 DEF Refuse, At
    <2>2. CASE CloseConnection(c)
      <3>1. [op[c] EXCEPT !.at = "leaving"] \in Op /\ [op[c] EXCEPT !.at = "leaving"].at = "leaving"
        BY <1>1 DEF Op
      <3>2. op' = [op EXCEPT ![c] = [op[c] EXCEPT !.at = "leaving"]]
        BY <1>1, <2>2 DEF CloseConnection, Goto
      <3> QED
        BY <2>2, <3>1, <3>2 DEF CloseConnection, At
    <2> QED
      BY <2>1, <2>2
  <1>3. UNCHANGED <<hostvars, lpClientArray, lpClientSlotList, slotOf, uid, lClients>>
    BY DEF Refuse, CloseConnection, table, logon
  <1>4. op'[c] = x
    BY <1>1, <1>2
  <1>5. op[c].at = "decide" => csClientArray = c
    BY DEF IInv, Places, InArray
  <1>6. MayMove(c)
    BY <1>1, <1>2, <1>3, <1>4, <1>5 DEF MayMove, Apart, LockCalls, InArray, LogsIn, Passed, Going, At
  <1> QED
    BY <1>1, <1>2, <1>3, <1>6, OpMoves DEF LockCalls

(* A step that moves nobody between hosts keeps what is said of them, even *)
(* if it counts log-ins in a record or lets a client come online.          *)
LEMMA HostsKept ==
  ASSUME IInv, UNCHANGED <<lpHostArray, lpFreeHostList, dwClassListId, resolve, hostOf>>,
         info' \in [Infos -> Record],
         \A i \in Infos : /\ info'[i].live = info[i].live /\ info'[i].address = info[i].address
                          /\ info'[i].dwShareCount = info[i].dwShareCount
                          /\ info'[i].lpNext = info[i].lpNext
                          /\ ~ info[i].live => info'[i] = info[i],
         conn' \in [Clients -> {"new", "identify", "waiting", "process", "online", "gone"}],
         \A d \in Clients : conn'[d] = "waiting" <=> conn[d] = "waiting"
  PROVE  HostsFit'
  <1>1. UNCHANGED <<lpResolveList, dwResolveThreads, resolver>>
    BY DEF resolve
  <1>2. HostTypes'
    BY <1>1 DEF IInv, HostTypes
  <1>3. Records'
    BY RecordsKept DEF IInv
  <1>4. Shares'
    BY <1>1, SharesKept DEF IInv, ResolversCount
  <1>5. Queues'
    <2>1. \A d \in Clients : conn[d] = "waiting" => hostOf'[d] = hostOf[d] /\ hostOf[d] \in Infos
      BY HasHost
    <2> QED
      BY <2>1, QueuesKept DEF IInv
  <1> QED
    BY <1>2, <1>3, <1>4, <1>5 DEF HostsFit

(* The counters stay when nobody logs in or out.                           *)
LEMMA LoginsSame ==
  ASSUME IInv, UNCHANGED <<uid, lClients>>,
         \A i \in Infos : info'[i].lClients = info[i].lClients,
         \A d \in Clients :
           /\ At(d, "closing")' <=> At(d, "closing")
           /\ At(d, "accepted")' <=> At(d, "accepted")
           /\ LogsIn(d)' => LogsIn(d)
           /\ Going(d, "undo")' => Going(d, "undo")
           /\ Passed(d)' => Passed(d)
           /\ conn[d] = "online" => conn'[d] = "online" /\ hostOf'[d] = hostOf[d]
  PROVE  LoginsOK' /\ LimitsOK'
  <1>1. /\ \A d \in Clients : Online(d)' <=> Online(d)
        /\ \A d \in Clients, u \in Users : OfUser(d, u)' <=> OfUser(d, u)
    BY DEF Online, OfUser
  <1>2. \A d \in Clients : Online(d) => hostOf'[d] = hostOf[d]
    BY DEF Online, IInv, LoginsOK, Places, At
  <1>3. /\ {d \in Clients : Online(d)'} = {d \in Clients : Online(d)}
        /\ \A i \in Infos : {d \in Clients : Online(d)' /\ hostOf'[d] = i} = {d \in Clients : Online(d) /\ hostOf[d] = i}
        /\ \A u \in Users : {d \in Clients : OfUser(d, u)'} = {d \in Clients : OfUser(d, u)}
        /\ \A S : {d \in Clients : Online(d)' /\ UserOf[d] \notin S} = {d \in Clients : Online(d) /\ UserOf[d] \notin S}
    BY <1>1, <1>2
  <1>4. LoginsOK'
    BY <1>3 DEF IInv, LoginsOK
  <1>5. LimitsKept'
    BY <1>3 DEF IInv, LimitsOK, LimitsKept
  <1>6. LimitsOK'
    BY <1>5 DEF IInv, LimitsOK, Full
  <1> QED
    BY <1>4, <1>6

(* Where each client is still agrees when one of them has moved on.        *)
LEMMA PlacesChange ==
  ASSUME IInv, NEW c \in Clients, NEW x, op' = [op EXCEPT ![c] = x], x.at \notin LockCalls \cup {"use"},
         x.at \in {"publish", "registered"} => conn'[c] = "process",
         x.at \notin {"idle", "publish", "registered"} => conn'[c] = "online",
         hostOf'[c] # NoInfo <=> \/ conn'[c] \in {"identify", "waiting", "process"}
                                 \/ (conn'[c] = "online" /\ x.at # "closing"),
         \A d \in Clients \ {c} : conn'[d] = conn[d] /\ hostOf'[d] = hostOf[d],
         \A d \in Clients : csClientArray' = d <=> InArray(d)'
  PROVE  Places'
  <1>1. c \in Actors /\ c \notin Killers /\ op \in [Actors -> Op] /\ Actors = Clients \cup Killers
    BY RegistryAssumption DEF Actors, IInv, ClientTypes
  <1>2. op'[c] = x /\ \A y \in Actors \ {c} : op'[y] = op[y]
    BY <1>1
  <1>3. \A y \in Actors : op'[y].at \in LockCalls => op'[y].slot \in Slots /\ op'[y].then # "idle"
    BY <1>2 DEF IInv, Places
  <1>4. \A k \in Killers : op'[k] = op[k]
    BY <1>1, <1>2
  <1>5. ASSUME NEW d \in Clients
        PROVE  /\ op'[d].at # "use" /\ (op'[d].at \in LockCalls => op'[d].then # "use")
               /\ op'[d].at \in {"publish", "registered"} => conn'[d] = "process"
               /\ op'[d].at \notin {"idle", "publish", "registered"} => conn'[d] = "online"
               /\ hostOf'[d] # NoInfo <=> \/ conn'[d] \in {"identify", "waiting", "process"}
                                          \/ (conn'[d] = "online" /\ ~ At(d, "closing")')
    <2>1. CASE d = c
      BY <1>2, <2>1 DEF At
    <2>2. CASE d # c
      BY <1>1, <1>2, <2>2 DEF IInv, Places, At
    <2> QED
      BY <2>1, <2>2
  <1> QED
    BY <1>3, <1>4, <1>5 DEF IInv, Places

(* A connection gets a free slot, inside csClientArray.                    *)
LEMMA RegisterClientKeeps ==
  ASSUME IInv, NEW c \in Clients, RegisterClient(c)
  PROVE  IInv'
  <1> DEFINE n == Head(lpClientSlotList)
             x == [op[c] EXCEPT !.at = "publish"]
  <1>1. /\ c \in Actors /\ op \in [Actors -> Op] /\ op[c] \in Op /\ NoOne \notin Clients /\ c \notin Killers
        /\ op[c].at = "idle" /\ conn[c] = "process" /\ csClientArray = NoOne
        /\ slotOf \in [Clients -> Slots \cup {0}]
    BY RegistryAssumption DEF Actors, IInv, ClientTypes, RegisterClient, At, In
  <1>2. /\ n \in Slots /\ n \in ToSet(lpClientSlotList) /\ lpClientArray[n] = NoOne
        /\ lpClientSlotList' \in Seq(Slots) /\ IsInjective(lpClientSlotList')
        /\ ToSet(lpClientSlotList') = ToSet(lpClientSlotList) \ {n}
    <2>1. lpClientSlotList # <<>> /\ lpClientSlotList' = Tail(lpClientSlotList)
      BY DEF RegisterClient
    <2>2. lpClientSlotList \in Seq(Slots) /\ IsInjective(lpClientSlotList)
      BY DEF IInv, ClientTypes, SlotsOK
    <2>3. /\ Tail(lpClientSlotList) \in Seq(Slots) /\ n \in ToSet(lpClientSlotList) /\ n \in Slots
          /\ ToSet(Tail(lpClientSlotList)) = ToSet(lpClientSlotList) \ {n} /\ IsInjective(Tail(lpClientSlotList))
      BY <2>1, <2>2, OffTheHead
    <2>4. lpClientArray[n] = NoOne
      BY <2>3 DEF IInv, SlotsOK
    <2> QED
      BY <2>1, <2>3, <2>4
  <1> HIDE DEF n
  <1>3. /\ slotOf' = [slotOf EXCEPT ![c] = n] /\ csClientArray' = c /\ op' = [op EXCEPT ![c] = x]
        /\ UNCHANGED <<hostvars, lpClientArray, uid, lClients>>
    BY <1>1 DEF RegisterClient, Goto, logon, n
  <1>4. x \in Op /\ x.at = "publish"
    BY <1>1 DEF Op
  <1> HIDE DEF x
  <1>5. op'[c] = x /\ (\A y \in Actors \ {c} : op'[y] = op[y]) /\ Actors = Clients \cup Killers
    BY <1>1, <1>3 DEF Actors
  <1>6. UNCHANGED <<info, conn, hostOf>>
    BY <1>3 DEF hostvars
  <1>7. \A d \in Clients : ~ InArray(d)
    BY <1>1 DEF IInv, Places
  <1>8. \A d \in Clients : /\ At(d, "publish")' <=> d = c
                           /\ Present(d)' <=> Present(d)
                           /\ At(d, "closing")' <=> At(d, "closing")
                           /\ At(d, "accepted")' <=> At(d, "accepted")
                           /\ InArray(d)' <=> d = c
                           /\ LogsIn(d)' => LogsIn(d)
                           /\ Going(d, "undo")' => Going(d, "undo")
                           /\ ~ Passed(d)'
    BY <1>1, <1>4, <1>5, <1>6, <1>7 DEF At, Present, InArray, LogsIn, Passed, Going, LockCalls
  <1>9. HostsFit'
    BY <1>3, HostsSame
  <1>10. ClientTypes'
    BY <1>1, <1>2, <1>3, <1>4 DEF IInv, ClientTypes
  <1>11. Places'
    <2>1. x.at \notin LockCalls \cup {"use"}
      BY <1>4 DEF LockCalls
    <2>2. hostOf[c] # NoInfo
      BY <1>1 DEF IInv, Places
    <2>3. \A d \in Clients : csClientArray' = d <=> InArray(d)'
      BY <1>3, <1>8
    <2> QED
      BY <1>1, <1>3, <1>4, <1>6, <2>1, <2>2, <2>3, PlacesChange
  <1>12. SlotsOK'
    <2>1. ~ Present(c) /\ \A d \in Clients : ~ At(d, "publish")
      BY <1>1, <1>7 DEF Present, At, InArray
    <2>2. \A d \in Clients : Present(d)' \/ At(d, "publish")' => slotOf'[d] \in Slots
      BY <1>1, <1>2, <1>3, <1>8 DEF IInv, SlotsOK
    <2>3. \A d \in Clients, m \in Slots : lpClientArray'[m] = d <=> Present(d)' /\ slotOf'[d] = m
      BY <1>1, <1>3, <1>8, <2>1 DEF IInv, SlotsOK
    <2>4. \A d \in Clients : At(d, "publish")' => lpClientArray'[slotOf'[d]] = NoOne
      BY <1>1, <1>2, <1>3, <1>8
    <2>5. ToSet(lpClientSlotList) = {m \in Slots : lpClientArray[m] = NoOne}
      BY <2>1 DEF IInv, SlotsOK
    <2>6. slotOf'[c] = n
      BY <1>1, <1>3
    <2>7. ToSet(lpClientSlotList') =
            {m \in Slots : lpClientArray'[m] = NoOne /\ \A d \in Clients : At(d, "publish")' => slotOf'[d] # m}
      BY <1>2, <1>3, <1>8, <2>5, <2>6
    <2> QED
      BY <1>2, <2>2, <2>3, <2>4, <2>7 DEF SlotsOK
  <1>13. LoginsOK' /\ LimitsOK'
    BY <1>3, <1>6, <1>8, LoginsSame
  <1> QED
    BY <1>9, <1>10, <1>11, <1>12, <1>13 DEF IInv, HostsFit

(* It is entered in the array, and csClientArray is left.                  *)
LEMMA PublishKeeps ==
  ASSUME IInv, NEW c \in Clients, Publish(c)
  PROVE  IInv'
  <1> DEFINE n == slotOf[c]
             x == [op[c] EXCEPT !.at = "registered"]
  <1>1. /\ c \in Actors /\ op \in [Actors -> Op] /\ op[c] \in Op /\ NoOne \notin Clients /\ c \notin Killers
        /\ op[c].at = "publish" /\ conn[c] = "process" /\ csClientArray = c
        /\ n \in Slots /\ lpClientArray[n] = NoOne /\ lpClientArray \in [Slots -> Clients \cup {NoOne}]
    BY RegistryAssumption DEF Actors, IInv, ClientTypes, Publish, At, Places, InArray, SlotsOK
  <1> HIDE DEF n
  <1>2. /\ lpClientArray' = [lpClientArray EXCEPT ![n] = c] /\ csClientArray' = NoOne
        /\ op' = [op EXCEPT ![c] = x]
        /\ UNCHANGED <<hostvars, lpClientSlotList, slotOf, uid, lClients>>
    BY <1>1 DEF Publish, Goto, logon, n
  <1>3. x \in Op /\ x.at = "registered"
    BY <1>1 DEF Op
  <1> HIDE DEF x
  <1>4. op'[c] = x /\ (\A y \in Actors \ {c} : op'[y] = op[y]) /\ Actors = Clients \cup Killers
    BY <1>1, <1>2 DEF Actors
  <1>5. UNCHANGED <<info, conn, hostOf>>
    BY <1>2 DEF hostvars
  <1>6. \A d \in Clients : InArray(d) <=> d = c
    BY <1>1 DEF IInv, Places
  <1>7. \A d \in Clients : /\ ~ At(d, "publish")' /\ (At(d, "publish") <=> d = c)
                           /\ Present(d)' <=> Present(d) \/ d = c
                           /\ At(d, "closing")' <=> At(d, "closing")
                           /\ At(d, "accepted")' <=> At(d, "accepted")
                           /\ ~ InArray(d)'
                           /\ LogsIn(d)' => LogsIn(d)
                           /\ Going(d, "undo")' => Going(d, "undo")
                           /\ ~ Passed(d)'
    BY <1>1, <1>3, <1>4, <1>5, <1>6 DEF At, Present, InArray, LogsIn, Passed, Going, LockCalls
  <1>8. HostsFit'
    BY <1>2, HostsSame
  <1>9. ClientTypes'
    BY <1>1, <1>2, <1>3 DEF IInv, ClientTypes
  <1>10. Places'
    <2>1. x.at \notin LockCalls \cup {"use"}
      BY <1>3 DEF LockCalls
    <2>2. hostOf[c] # NoInfo
      BY <1>1 DEF IInv, Places
    <2>3. \A d \in Clients : csClientArray' = d <=> InArray(d)'
      BY <1>1, <1>2, <1>7
    <2> QED
      BY <1>1, <1>2, <1>3, <1>5, <2>1, <2>2, <2>3, PlacesChange
  <1>11. SlotsOK'
    <2>1. \A m \in Slots : lpClientArray'[m] = IF m = n THEN c ELSE lpClientArray[m]
      BY <1>1, <1>2
    <2>2. slotOf[c] = n /\ slotOf' = slotOf
      BY <1>2 DEF n
    <2>3. \A d \in Clients : Present(d)' => slotOf'[d] \in Slots
      BY <1>1, <1>7, <2>2 DEF IInv, SlotsOK
    <2>4. ASSUME NEW d \in Clients, NEW m \in Slots
          PROVE  lpClientArray'[m] = d <=> Present(d)' /\ slotOf'[d] = m
      BY <1>1, <1>7, <2>1, <2>2 DEF IInv, SlotsOK
    <2>5. ToSet(lpClientSlotList') = {m \in Slots : lpClientArray'[m] = NoOne}
      BY <1>1, <1>2, <1>7, <2>1, <2>2 DEF IInv, SlotsOK
    <2> QED
      BY <1>2, <1>7, <2>3, <2>4, <2>5 DEF IInv, SlotsOK
  <1>12. LoginsOK' /\ LimitsOK'
    BY <1>2, <1>5, <1>7, LoginsSame
  <1> QED
    BY <1>8, <1>9, <1>10, <1>11, <1>12 DEF IInv, HostsFit

(* Its slot is unlocked, and the client is online.                         *)
LEMMA RegisteredKeeps ==
  ASSUME IInv, NEW c \in Clients, Registered(c)
  PROVE  IInv'
  <1> DEFINE x == [op[c] EXCEPT !.at = "idle"]
  <1>1. /\ c \in Actors /\ op \in [Actors -> Op] /\ op[c] \in Op
        /\ op[c].at = "registered" /\ conn[c] = "process" /\ hostOf[c] # NoInfo
        /\ conn \in [Clients -> {"new", "identify", "waiting", "process", "online", "gone"}]
    BY DEF Actors, IInv, ClientTypes, HostTypes, Registered, At, Places
  <1>2. /\ conn' = [conn EXCEPT ![c] = "online"] /\ op' = [op EXCEPT ![c] = x]
        /\ UNCHANGED <<info, lpHostArray, lpFreeHostList, resolve, dwClassListId, hostOf, lpClientArray,
                       lpClientSlotList, slotOf, csClientArray, uid, lClients>>
    BY <1>1 DEF Registered, Goto, Move, logon, hosts
  <1>3. x \in Op /\ x.at = "idle"
    BY <1>1 DEF Op
  <1> HIDE DEF x
  <1>4. /\ op'[c] = x /\ \A d \in Clients \ {c} : op'[d] = op[d]
        /\ \A d \in Clients : conn'[d] = IF d = c THEN "online" ELSE conn[d]
    BY <1>1, <1>2 DEF Actors
  <1>5. \A d \in Clients : /\ At(d, "publish")' <=> At(d, "publish")
                           /\ Present(d)' <=> Present(d)
                           /\ At(d, "closing")' <=> At(d, "closing")
                           /\ At(d, "accepted")' <=> At(d, "accepted")
                           /\ InArray(d)' <=> InArray(d)
                           /\ LogsIn(d)' <=> LogsIn(d)
                           /\ Going(d, "undo")' <=> Going(d, "undo")
                           /\ Passed(d)' <=> Passed(d)
    <2>1. ASSUME NEW d \in Clients \ {c}
          PROVE  /\ op'[d] = op[d] /\ conn'[d] = conn[d]
      BY <1>4
    <2>2. \A d \in Clients \ {c} : /\ InArray(d)' <=> InArray(d)
                                   /\ LogsIn(d)' <=> LogsIn(d)
                                   /\ Going(d, "undo")' <=> Going(d, "undo")
                                   /\ Passed(d)' <=> Passed(d)
      BY <2>1 DEF At, InArray, LogsIn, Passed, Going
    <2>3. /\ ~ InArray(c)' /\ ~ InArray(c) /\ ~ LogsIn(c)' /\ ~ LogsIn(c) /\ ~ Passed(c)' /\ ~ Passed(c)
          /\ ~ Going(c, "undo")' /\ ~ Going(c, "undo")
      BY <1>1, <1>3, <1>4 DEF At, InArray, LogsIn, Passed, Going, LockCalls
    <2>4. \A d \in Clients : /\ At(d, "publish")' <=> At(d, "publish")
                             /\ Present(d)' <=> Present(d)
                             /\ At(d, "closing")' <=> At(d, "closing")
                             /\ At(d, "accepted")' <=> At(d, "accepted")
      BY <1>1, <1>3, <1>4 DEF At, Present
    <2> QED
      BY <2>2, <2>3, <2>4
  <1>6. HostsFit'
    BY <1>1, <1>2, <1>4, HostsKept DEF IInv, HostTypes
  <1>7. ClientTypes'
    BY <1>1, <1>2, <1>3 DEF IInv, ClientTypes
  <1>8. Places'
    <2>1. \A d \in Clients : csClientArray' = d <=> InArray(d)'
      BY <1>2, <1>5 DEF IInv, Places
    <2>2. x.at \notin LockCalls \cup {"use"}
      BY <1>3 DEF LockCalls
    <2> QED
      BY <1>1, <1>2, <1>3, <1>4, <2>1, <2>2, PlacesChange
  <1>9. SlotsOK'
    BY <1>2, <1>5 DEF IInv, SlotsOK
  <1>10. LoginsOK' /\ LimitsOK'
    BY <1>2, <1>4, <1>5, LoginsSame
  <1> QED
    BY <1>6, <1>7, <1>8, <1>9, <1>10 DEF IInv, HostsFit

(* There is no slot for it: the connection leaves its host.                *)
LEMMA NoSlotKeeps ==
  ASSUME IInv, NEW c \in Clients, NoSlot(c)
  PROVE  IInv'
  <1> DEFINE i == hostOf[c]
  <1>1. /\ i \in Infos /\ info[i] \in Record /\ info[i].live /\ Holders(i) >= 1 /\ NoInfo \notin Infos
        /\ conn[c] = "process" /\ op[c].at = "idle" /\ info \in [Infos -> Record]
        /\ conn \in [Clients -> {"new", "identify", "waiting", "process", "online", "gone"}]
        /\ hostOf \in [Clients -> Infos \cup {NoInfo}]
    BY HasHost, HostAssumption DEF NoSlot, In, At, IInv, HostTypes
  <1>2. /\ info' = [info EXCEPT ![i].dwShareCount = @ - 1] /\ lpHostArray' = lpHostArray
        /\ lpFreeHostList' = IF info[i].dwShareCount = 1 THEN Append(lpFreeHostList, i) ELSE lpFreeHostList
        /\ hostOf' = [hostOf EXCEPT ![c] = NoInfo] /\ conn' = [conn EXCEPT ![c] = "gone"]
        /\ UNCHANGED <<resolve, dwClassListId, regvars>>
    BY DEF NoSlot, UnregisterNetworkAddress, Move
  <1> HIDE DEF i
  <1>3. \A j \in Infos : /\ info'[j] \in Record
                         /\ info'[j].live = info[j].live /\ info'[j].address = info[j].address
                         /\ info'[j].dwShareCount = IF j = i THEN info[j].dwShareCount - 1 ELSE info[j].dwShareCount
                         /\ info'[j].lClients = info[j].lClients /\ info'[j].lpNext = info[j].lpNext
                         /\ j # i => info'[j] = info[j]
    <2>1. \A j \in Infos : info[j] \in Record /\ info[j].dwShareCount \in Int
      BY <1>1 DEF Record
    <2>2. PICK k \in Record : k = info[i]
      BY <1>1
    <2>3. PICK h : h = [k EXCEPT !.dwShareCount = @ - 1]
      OBVIOUS
    <2>4. /\ h \in Record /\ h.live = k.live /\ h.address = k.address /\ h.dwShareCount = k.dwShareCount - 1
          /\ h.lClients = k.lClients /\ h.lpNext = k.lpNext
      BY <2>3 DEF Record
    <2>5. \A j \in Infos : info'[j] = IF j = i THEN h ELSE info[j]
      BY <1>1, <1>2, <2>2, <2>3
    <2> QED
      BY <1>1, <2>1, <2>2, <2>4, <2>5
  <1>4. \A d \in Clients : /\ conn'[d] = IF d = c THEN "gone" ELSE conn[d]
                           /\ hostOf'[d] = IF d = c THEN NoInfo ELSE hostOf[d]
    BY <1>1, <1>2
  <1>5. UNCHANGED <<lpResolveList, dwResolveThreads, resolver>>
    BY <1>2 DEF resolve
  <1>6. Shares' /\ lpFreeHostList' \in Seq(Infos)
    <2>1. \A r \in Resolvers : ResolversCount(r)
      BY <1>5 DEF ResolversCount
    <2>2. hostOf[c] = i
      BY DEF i
    <2>3. \A j \in Infos : Holders(j)' = IF j = i THEN Holders(j) - 1 ELSE Holders(j)
      BY <1>1, <1>2, <2>1, <2>2, HoldersChange DEF IInv
    <2> QED
      BY <1>1, <1>2, <1>3, <2>3, SharesLess DEF IInv
  <1>7. HostTypes'
    <2>1. info' \in [Infos -> Record]
      BY <1>1, <1>2, <1>3
    <2> QED
      BY <1>1, <1>2, <1>5, <1>6, <2>1 DEF IInv, HostTypes
  <1>8. Records'
    <2>1. \A j \in Infos : ~ info[j].live => info'[j] = info[j]
      BY <1>1, <1>3
    <2> QED
      BY <1>2, <1>3, <1>4, <2>1, RecordsKept DEF IInv
  <1>9. Queues'
    <2>1. \A d \in Clients : /\ conn'[d] = "waiting" <=> conn[d] = "waiting"
                             /\ conn[d] = "waiting" => hostOf'[d] = hostOf[d] /\ hostOf[d] \in Infos
      BY <1>1, <1>4, HasHost
    <2> QED
      BY <1>2, <1>3, <2>1, QueuesKept DEF IInv
  <1>10. UNCHANGED <<op, lpClientArray, lpClientSlotList, slotOf, csClientArray, uid, lClients>>
    BY <1>2 DEF regvars
  <1>11. \A d \in Clients : /\ \A place : At(d, place)' <=> At(d, place)
                            /\ Present(d)' <=> Present(d)
                            /\ InArray(d)' <=> InArray(d)
                            /\ LogsIn(d)' <=> LogsIn(d)
                            /\ Going(d, "undo")' <=> Going(d, "undo")
                            /\ Passed(d)' <=> Passed(d)
    BY <1>1, <1>4, <1>10 DEF At, Present, InArray, LogsIn, Passed, Going
  <1>12. ClientTypes'
    BY <1>10 DEF IInv, ClientTypes
  <1>13. Places'
    <2>1. op[c] \in Op /\ op \in [Actors -> Op] /\ c \in Actors
      BY DEF IInv, ClientTypes, Actors
    <2>2. op' = [op EXCEPT ![c] = op[c]] /\ op[c].at \notin LockCalls \cup {"use"}
      BY <1>1, <1>10, <2>1 DEF LockCalls
    <2>3. \A d \in Clients : csClientArray' = d <=> InArray(d)'
      BY <1>10, <1>11 DEF IInv, Places
    <2> QED
      BY <1>1, <1>4, <2>2, <2>3, PlacesChange
  <1>14. SlotsOK'
    BY <1>10, <1>11 DEF IInv, SlotsOK
  <1>15. LoginsOK' /\ LimitsOK'
    BY <1>1, <1>3, <1>4, <1>10, <1>11, LoginsSame
  <1> QED
    BY <1>6, <1>7, <1>8, <1>9, <1>12, <1>13, <1>14, <1>15 DEF IInv

(* Two sets of clients that differ in one client at most.                  *)
LEMMA BarringOne ==
  ASSUME NEW S \in SUBSET Clients, NEW T \in SUBSET Clients, NEW c \in Clients,
         \A d \in Clients \ {c} : d \in T <=> d \in S
  PROVE  Cardinality(T) = Cardinality(S) + (IF c \in T THEN 1 ELSE 0) - (IF c \in S THEN 1 ELSE 0)
  <1>1. IsFiniteSet(S) /\ IsFiniteSet(T) /\ Cardinality(S) \in Nat /\ Cardinality(T) \in Nat
    BY Finitely
  <1>2. CASE c \in S /\ c \notin T
    <2>1. T = S \ {c}
      BY <1>2
    <2> QED
      BY <1>1, <1>2, <2>1, OneMoreOrLess
  <1>3. CASE c \notin S /\ c \in T
    <2>1. T = S \cup {c}
      BY <1>3
    <2> QED
      BY <1>1, <1>3, <2>1, OneMoreOrLess
  <1>4. CASE c \in S <=> c \in T
    <2>1. T = S
      BY <1>4
    <2> QED
      BY <1>1, <1>4, <2>1
  <1> QED
    BY <1>2, <1>3, <1>4

EveryoneOnline == {d \in Clients : Online(d)}
OnlineFrom(i)  == {d \in Clients : Online(d) /\ hostOf[d] = i}

(* How many are online, and from one host, when one client logs in or out. *)
LEMMA OnlineChange ==
  ASSUME NEW c \in Clients,
         \A d \in Clients \ {c} : Online(d)' <=> Online(d),
         \A d \in Clients \ {c} : Online(d) => hostOf'[d] = hostOf[d]
  PROVE  /\ Cardinality(EveryoneOnline') =
              Cardinality(EveryoneOnline) + (IF Online(c)' THEN 1 ELSE 0) - (IF Online(c) THEN 1 ELSE 0)
         /\ \A i : Cardinality(OnlineFrom(i)') =
              Cardinality(OnlineFrom(i)) + (IF Online(c)' /\ hostOf'[c] = i THEN 1 ELSE 0)
                                         - (IF Online(c) /\ hostOf[c] = i THEN 1 ELSE 0)
         /\ Cardinality(EveryoneOnline) \in Nat
         /\ \A i : Cardinality(OnlineFrom(i)) \in Nat
  <1>1. /\ EveryoneOnline \in SUBSET Clients /\ EveryoneOnline' \in SUBSET Clients
        /\ \A d \in Clients \ {c} : d \in EveryoneOnline' <=> d \in EveryoneOnline
        /\ c \in EveryoneOnline' <=> Online(c)'
        /\ c \in EveryoneOnline <=> Online(c)
    BY DEF EveryoneOnline
  <1>2. Cardinality(EveryoneOnline') =
          Cardinality(EveryoneOnline) + (IF Online(c)' THEN 1 ELSE 0) - (IF Online(c) THEN 1 ELSE 0)
    BY <1>1, BarringOne
  <1>3. ASSUME NEW i
        PROVE  /\ Cardinality(OnlineFrom(i)') =
                    Cardinality(OnlineFrom(i)) + (IF Online(c)' /\ hostOf'[c] = i THEN 1 ELSE 0)
                                               - (IF Online(c) /\ hostOf[c] = i THEN 1 ELSE 0)
               /\ Cardinality(OnlineFrom(i)) \in Nat
    <2>1. /\ OnlineFrom(i) \in SUBSET Clients /\ OnlineFrom(i)' \in SUBSET Clients
          /\ \A d \in Clients \ {c} : d \in OnlineFrom(i)' <=> d \in OnlineFrom(i)
          /\ c \in OnlineFrom(i)' <=> Online(c)' /\ hostOf'[c] = i
          /\ c \in OnlineFrom(i) <=> Online(c) /\ hostOf[c] = i
      BY DEF OnlineFrom
    <2> QED
      BY <2>1, BarringOne, Finitely
  <1> QED
    BY <1>1, <1>2, <1>3, Finitely

(* How many are logged in as one user, then.                               *)
LEMMA OfUserChange ==
  ASSUME NEW c \in Clients, NEW u,
         \A d \in Clients \ {c} : OfUser(d, u)' <=> OfUser(d, u)
  PROVE  Cardinality({d \in Clients : OfUser(d, u)'}) =
           Cardinality({d \in Clients : OfUser(d, u)})
             + (IF OfUser(c, u)' THEN 1 ELSE 0) - (IF OfUser(c, u) THEN 1 ELSE 0)
  <1> DEFINE S == {d \in Clients : OfUser(d, u)}
             T == {d \in Clients : OfUser(d, u)'}
  <1>1. /\ S \in SUBSET Clients /\ T \in SUBSET Clients
        /\ \A d \in Clients \ {c} : d \in T <=> d \in S
        /\ c \in T <=> OfUser(c, u)'
        /\ c \in S <=> OfUser(c, u)
    OBVIOUS
  <1> HIDE DEF S, T
  <1>2. Cardinality(T) = Cardinality(S) + (IF OfUser(c, u)' THEN 1 ELSE 0) - (IF OfUser(c, u) THEN 1 ELSE 0)
    BY <1>1, BarringOne
  <1> QED
    BY <1>2 DEF S, T

(* No limit is exceeded when nobody comes in.                              *)
LEMMA FewerKeepLimits ==
  ASSUME IInv, \A d \in Clients : Online(d)' => Online(d),
         \A d \in Clients, u \in Users : OfUser(d, u)' => OfUser(d, u)
  PROVE  LimitsKept'
  <1> DEFINE S == {d \in Clients : Online(d) /\ UserOf[d] \notin MayFill}
             T == {d \in Clients : Online(d)' /\ UserOf[d] \notin MayFill}
             SU(u) == {d \in Clients : OfUser(d, u)}
             TU(u) == {d \in Clients : OfUser(d, u)'}
  <1>1. /\ T \subseteq S /\ S \in SUBSET Clients
        /\ \A u \in Users : TU(u) \subseteq SU(u) /\ SU(u) \in SUBSET Clients
    OBVIOUS
  <1>2. /\ lMaxClients >= 0 => Cardinality(S) <= lMaxClients
        /\ \A u \in Users \ MayFill : Limits[u] >= 0 => Cardinality(SU(u)) <= Limits[u]
    BY DEF IInv, LimitsOK, LimitsKept
  <1>3. lMaxClients \in Int /\ \A u \in Users : Limits[u] \in Int
    BY RegistryAssumption
  <1> HIDE DEF S, T, SU, TU
  <1>4. Cardinality(T) <= Cardinality(S) /\ Cardinality(S) \in Nat /\ Cardinality(T) \in Nat
    BY <1>1, Finitely, FS_Subset
  <1>5. \A u \in Users : /\ Cardinality(TU(u)) <= Cardinality(SU(u))
                         /\ Cardinality(SU(u)) \in Nat /\ Cardinality(TU(u)) \in Nat
    BY <1>1, Finitely, FS_Subset
  <1>6. /\ lMaxClients >= 0 => Cardinality(T) <= lMaxClients
        /\ \A u \in Users \ MayFill : Limits[u] >= 0 => Cardinality(TU(u)) <= Limits[u]
    BY <1>2, <1>3, <1>4, <1>5
  <1> QED
    BY <1>6 DEF LimitsKept, T, TU

(* CountLogin adds d to the counter of the service and to that of the user.*)
LEMMA CountLoginIs ==
  ASSUME ClientTypes, NEW u \in Users, NEW d \in Int, \E k : CountLogin(k, u, d)
  PROVE  /\ lClients' \in [service : Int, class : [Classes -> Int], user : [Users -> Int]]
         /\ lClients'.service = lClients.service + d
         /\ \A v \in Users : lClients'.user[v] = lClients.user[v] + IF v = u THEN d ELSE 0
  <1> PICK k : CountLogin(k, u, d)
    OBVIOUS
  <1>1. PICK l \in [service : Int, class : [Classes -> Int], user : [Users -> Int]] : l = lClients
    BY DEF ClientTypes
  <1> DEFINE Class == [j \in Classes |-> l.class[j] + (IF j = k THEN d ELSE 0)]
             User  == [l.user EXCEPT ![u] = @ + d]
  <1>2. Class \in [Classes -> Int]
    BY <1>1
  <1>3. User \in [Users -> Int] /\ \A v \in Users : User[v] = l.user[v] + IF v = u THEN d ELSE 0
    BY <1>1
  <1>4. lClients' = [service |-> l.service + d, class |-> Class, user |-> User]
    BY <1>1 DEF CountLogin
  <1> HIDE DEF Class, User
  <1> QED
    BY <1>1, <1>2, <1>3, <1>4

(* A log-in that no limit refuses is counted, inside csClientArray.        *)
LEMMA AcceptKeeps ==
  ASSUME IInv, NEW c \in Clients, Accept(c)
  PROVE  IInv'
  <1> DEFINE i == hostOf[c]
             x == [op[c] EXCEPT !.at = "accepted"]
  <1>1. /\ c \in Actors /\ op \in [Actors -> Op] /\ op[c] \in Op /\ NoOne \notin Clients \cup Users
        /\ op[c].at = "decide" /\ op[c].code = 0 /\ conn[c] = "online" /\ csClientArray = c
        /\ uid[c] = NoOne /\ UserOf[c] \in Users
        /\ i \in Infos /\ info[i].live /\ info \in [Infos -> Record]
    BY RegistryAssumption, HasHost
       DEF Actors, IInv, ClientTypes, HostTypes, Accept, At, Places, InArray, LoginsOK, LogsIn
  <1>2. /\ info' = [info EXCEPT ![i].lClients = @ + 1, ![i].dwAttemptCount = 1]
        /\ csClientArray' = NoOne /\ op' = [op EXCEPT ![c] = x]
        /\ UNCHANGED <<lpHostArray, lpFreeHostList, dwClassListId, resolve, conn, hostOf, lpClientArray,
                       lpClientSlotList, slotOf, uid>>
    BY <1>1 DEF Accept, Goto, table
  <1>3. /\ lClients' \in [service : Int, class : [Classes -> Int], user : [Users -> Int]]
        /\ lClients'.service = lClients.service + 1
        /\ \A v \in Users : lClients'.user[v] = lClients.user[v] + IF v = UserOf[c] THEN 1 ELSE 0
    <2>1. \E k : CountLogin(k, UserOf[c], 1)
      BY DEF Accept
    <2>2. ClientTypes
      BY DEF IInv
    <2> QED
      BY <1>1, <2>1, <2>2, CountLoginIs
  <1>4. x \in Op /\ x.at = "accepted"
    BY <1>1 DEF Op
  <1>5. hostOf[c] = i
    OBVIOUS
  <1> HIDE DEF x, i
  <1>6. \A j \in Infos : /\ info'[j] \in Record
                         /\ info'[j].live = info[j].live /\ info'[j].address = info[j].address
                         /\ info'[j].dwShareCount = info[j].dwShareCount
                         /\ info'[j].lClients = info[j].lClients + IF j = i THEN 1 ELSE 0
                         /\ info'[j].lpNext = info[j].lpNext
                         /\ j # i => info'[j] = info[j]
    <2>1. \A j \in Infos : info[j] \in Record /\ info[j].lClients \in Int
      BY <1>1 DEF Record
    <2>2. PICK k \in Record : k = info[i]
      BY <1>1
    <2>3. PICK g : g = [k EXCEPT !.lClients = @ + 1]
      OBVIOUS
    <2>4. /\ g \in Record /\ g.live = k.live /\ g.address = k.address /\ g.dwShareCount = k.dwShareCount
          /\ g.lClients = k.lClients + 1 /\ g.lpNext = k.lpNext
      BY <2>3 DEF Record
    <2>5. PICK h : h = [g EXCEPT !.dwAttemptCount = 1]
      OBVIOUS
    <2>6. /\ h \in Record /\ h.live = g.live /\ h.address = g.address /\ h.dwShareCount = g.dwShareCount
          /\ h.lClients = g.lClients /\ h.lpNext = g.lpNext
      BY <2>4, <2>5 DEF Record
    <2>7. info' = [info EXCEPT ![i] = [[info[i] EXCEPT !.lClients = @ + 1] EXCEPT !.dwAttemptCount = 1]]
      BY <1>1, <1>2
    <2>8. \A j \in Infos : info'[j] = IF j = i THEN h ELSE info[j]
      BY <1>1, <2>2, <2>3, <2>5, <2>7
    <2>9. ASSUME NEW j \in Infos, j = i
          PROVE  /\ info'[j] = h /\ info[j] = k
      BY <1>1, <2>2, <2>8, <2>9
    <2>10. ASSUME NEW j \in Infos, j # i
           PROVE  info'[j] = info[j]
      BY <2>8, <2>10
    <2>11. h.lClients = k.lClients + 1
      BY <2>4, <2>6
    <2> QED
      BY <2>1, <2>4, <2>6, <2>9, <2>10, <2>11
  <1>7. op'[c] = x /\ (\A y \in Actors \ {c} : op'[y] = op[y]) /\ Actors = Clients \cup Killers
    BY <1>1, <1>2 DEF Actors
  <1>8. \A d \in Clients : InArray(d) <=> d = c
    BY <1>1 DEF IInv, Places
  <1>9. \A d \in Clients : /\ At(d, "publish")' <=> At(d, "publish")
                           /\ Present(d)' <=> Present(d)
                           /\ At(d, "accepted")' <=> At(d, "accepted") \/ d = c
                           /\ At(d, "closing")' <=> At(d, "closing")
                           /\ ~ InArray(d)'
                           /\ LogsIn(d)' <=> LogsIn(d)
                           /\ Going(d, "undo")' <=> Going(d, "undo")
                           /\ ~ Passed(d)'
    BY <1>1, <1>2, <1>4, <1>7, <1>8 DEF At, Present, InArray, LogsIn, Passed, Going, LockCalls
  <1>10. HostsFit'
    <2>1. info' \in [Infos -> Record]
      BY <1>1, <1>2, <1>6
    <2>2. conn' \in [Clients -> {"new", "identify", "waiting", "process", "online", "gone"}]
      BY <1>2 DEF IInv, HostTypes
    <2>3. \A j \in Infos : ~ info[j].live => info'[j] = info[j]
      BY <1>1, <1>6
    <2> QED
      BY <1>2, <1>6, <2>1, <2>2, <2>3, HostsKept
  <1>11. ClientTypes'
    BY <1>1, <1>2, <1>3, <1>4 DEF IInv, ClientTypes
  <1>12. Places'
    <2>1. x.at \notin LockCalls \cup {"use"}
      BY <1>4 DEF LockCalls
    <2>2. hostOf[c] # NoInfo
      BY <1>1, <1>5, HostAssumption
    <2>3. \A d \in Clients : csClientArray' = d <=> InArray(d)'
      BY <1>1, <1>2, <1>9
    <2> QED
      BY <1>1, <1>2, <1>4, <2>1, <2>2, <2>3, PlacesChange
  <1>13. SlotsOK'
    BY <1>2, <1>9 DEF IInv, SlotsOK
  <1>14. /\ ~ Online(c) /\ Online(c)' /\ ~ OfUser(c, UserOf[c]) /\ OfUser(c, UserOf[c])'
         /\ \A d \in Clients \ {c} : Online(d)' <=> Online(d)
         /\ \A d \in Clients, u \in Users : d # c \/ u # UserOf[c] => (OfUser(d, u)' <=> OfUser(d, u))
    BY <1>1, <1>2, <1>9 DEF Online, OfUser, At
  <1>15. Cardinality({d \in Clients : Online(d)'}) = Cardinality({d \in Clients : Online(d)}) + 1
    <2>1. Cardinality(EveryoneOnline') = Cardinality(EveryoneOnline) + 1
      BY <1>2, <1>14, OnlineChange
    <2> QED
      BY <2>1 DEF EveryoneOnline
  <1>16. ASSUME NEW j \in Infos
         PROVE  Cardinality({d \in Clients : Online(d)' /\ hostOf'[d] = j}) =
                  Cardinality({d \in Clients : Online(d) /\ hostOf[d] = j}) + IF j = i THEN 1 ELSE 0
    <2>1. Cardinality(OnlineFrom(j)') = Cardinality(OnlineFrom(j)) + IF j = i THEN 1 ELSE 0
      BY <1>2, <1>5, <1>14, OnlineChange
    <2> QED
      BY <2>1 DEF OnlineFrom
  <1>17. ASSUME NEW u \in Users
         PROVE  Cardinality({d \in Clients : OfUser(d, u)'}) =
                  Cardinality({d \in Clients : OfUser(d, u)}) + IF u = UserOf[c] THEN 1 ELSE 0
    <2>1. ~ OfUser(c, u) /\ (OfUser(c, u)' <=> u = UserOf[c])
      BY <1>1, <1>14 DEF OfUser, At
    <2>2. Cardinality({d \in Clients : OfUser(d, u)}) \in Nat
      BY Finitely
    <2> QED
      BY <1>14, <2>1, <2>2, OfUserChange
  <1>18. LoginsOK'
    <2>1. lClients'.service = Cardinality({d \in Clients : Online(d)'})
      BY <1>3, <1>15 DEF IInv, LoginsOK
    <2>2. ASSUME NEW j \in Infos
          PROVE  info'[j].lClients = Cardinality({d \in Clients : Online(d)' /\ hostOf'[d] = j})
      <3>1. info[j].lClients = Cardinality({d \in Clients : Online(d) /\ hostOf[d] = j})
        BY DEF IInv, LoginsOK
      <3> QED
        BY <1>6, <1>16, <3>1
    <2>3. ASSUME NEW u \in Users
          PROVE  lClients'.user[u] = Cardinality({d \in Clients : OfUser(d, u)'})
      <3>1. lClients.user[u] = Cardinality({d \in Clients : OfUser(d, u)})
        BY DEF IInv, LoginsOK
      <3> QED
        BY <1>3, <1>17, <3>1
    <2> QED
      BY <1>2, <1>9, <2>1, <2>2, <2>3 DEF IInv, LoginsOK
  <1>19. LimitsKept'
    <2> DEFINE S == {d \in Clients : Online(d) /\ UserOf[d] \notin MayFill}
               T == {d \in Clients : Online(d)' /\ UserOf[d] \notin MayFill}
               TO == {d \in Clients : Online(d)'}
               TU(u) == {d \in Clients : OfUser(d, u)'}
    <2>1. /\ lMaxClients >= 0 => Cardinality(S) <= lMaxClients
          /\ \A u \in Users \ MayFill : Limits[u] >= 0 =>
               Cardinality({d \in Clients : OfUser(d, u)}) <= Limits[u]
      BY DEF IInv, LimitsOK, LimitsKept
    <2>2. UserOf[c] \notin MayFill => /\ ~ Full(lMaxClients, lClients.service)
                                      /\ ~ Full(Limits[UserOf[c]], lClients.user[UserOf[c]])
      BY <1>1 DEF IInv, LimitsOK, Passed, At
    <2>3. lMaxClients \in Int /\ \A u \in Users : Limits[u] \in Int
      BY RegistryAssumption
    <2>4. /\ T \subseteq TO /\ TO \in SUBSET Clients
          /\ UserOf[c] \in MayFill => T = S
      BY <1>14
    <2>5. Cardinality(TO) = lClients.service + 1
      BY <1>15 DEF IInv, LoginsOK
    <2>6. ASSUME NEW u \in Users
          PROVE  Cardinality(TU(u)) = lClients.user[u] + IF u = UserOf[c] THEN 1 ELSE 0
      <3>1. lClients.user[u] = Cardinality({d \in Clients : OfUser(d, u)})
        BY DEF IInv, LoginsOK
      <3> QED
        BY <1>17, <3>1
    <2>7. \A u \in Users : lClients.user[u] = Cardinality({d \in Clients : OfUser(d, u)}) /\ lClients.user[u] \in Nat
      BY Finitely DEF IInv, LoginsOK
    <2>8. lClients.service \in Nat
      BY Finitely DEF IInv, LoginsOK
    <2> HIDE DEF S, T, TO, TU
    <2>9. Cardinality(T) <= Cardinality(TO) /\ Cardinality(T) \in Nat
      BY <2>4, Finitely, FS_Subset
    <2>10. lMaxClients >= 0 => Cardinality(T) <= lMaxClients
      BY <2>1, <2>2, <2>3, <2>4, <2>5, <2>8, <2>9 DEF Full, Unlimited
    <2>11. ASSUME NEW u \in Users \ MayFill, Limits[u] >= 0
           PROVE  Cardinality(TU(u)) <= Limits[u]
      <3>1. Cardinality({d \in Clients : OfUser(d, u)}) <= Limits[u]
        BY <2>1, <2>11
      <3>2. u = UserOf[c] => ~ Full(Limits[u], lClients.user[u])
        BY <2>2
      <3> QED
        BY <2>3, <2>6, <2>7, <2>11, <3>1, <3>2 DEF Full, Unlimited
    <2> QED
      BY <2>10, <2>11 DEF LimitsKept, T, TU
  <1>20. LimitsOK'
    BY <1>9, <1>19 DEF LimitsOK
  <1> QED
    BY <1>10, <1>11, <1>12, <1>13, <1>18, <1>20 DEF IInv, HostsFit

(* The client has its user, and its slot is unlocked.                      *)
LEMMA LoggedInKeeps ==
  ASSUME IInv, NEW c \in Clients, LoggedIn(c)
  PROVE  IInv'
  <1>1. /\ c \in Actors /\ op \in [Actors -> Op] /\ op[c] \in Op /\ NoOne \notin Clients \cup Users
        /\ op[c].at = "accepted" /\ conn[c] = "online"
        /\ uid[c] = NoOne /\ UserOf[c] \in Users /\ uid \in [Clients -> Users \cup {NoOne}]
    BY RegistryAssumption DEF Actors, IInv, ClientTypes, LoggedIn, At, Places, LoginsOK, LogsIn
  <1>2. /\ uid' = [uid EXCEPT ![c] = UserOf[c]] /\ op' = [op EXCEPT ![c] = Idle]
        /\ UNCHANGED <<hostvars, lpClientArray, lpClientSlotList, slotOf, csClientArray, lClients>>
    BY DEF LoggedIn
  <1>3. Idle \in Op /\ Idle.at = "idle"
    BY DEF Idle, Op
  <1>4. op'[c] = Idle /\ (\A y \in Actors \ {c} : op'[y] = op[y]) /\ Actors = Clients \cup Killers
    BY <1>1, <1>2 DEF Actors
  <1>5. UNCHANGED <<info, conn, hostOf>> /\ \A d \in Clients : uid'[d] = IF d = c THEN UserOf[c] ELSE uid[d]
    BY <1>1, <1>2 DEF hostvars
  <1>6. \A d \in Clients : /\ At(d, "publish")' <=> At(d, "publish")
                           /\ Present(d)' <=> Present(d)
                           /\ At(d, "accepted")' <=> At(d, "accepted") /\ d # c
                           /\ At(d, "closing")' <=> At(d, "closing")
                           /\ InArray(d)' <=> InArray(d)
                           /\ LogsIn(d)' <=> LogsIn(d) /\ d # c
                           /\ Going(d, "undo")' <=> Going(d, "undo")
                           /\ Passed(d)' <=> Passed(d)
    BY <1>1, <1>3, <1>4, <1>5 DEF At, Present, InArray, LogsIn, Passed, Going, LockCalls
  <1>7. HostsFit'
    BY <1>2, HostsSame
  <1>8. ClientTypes'
    BY <1>1, <1>2, <1>3 DEF IInv, ClientTypes
  <1>9. Places'
    <2>1. Idle.at \notin LockCalls \cup {"use"}
      BY <1>3 DEF LockCalls
    <2>2. hostOf[c] # NoInfo
      BY <1>1, HasHost, HostAssumption DEF At
    <2>3. \A d \in Clients : csClientArray' = d <=> InArray(d)'
      BY <1>2, <1>6 DEF IInv, Places
    <2> QED
      BY <1>1, <1>2, <1>3, <1>5, <2>1, <2>2, <2>3, PlacesChange
  <1>10. SlotsOK'
    BY <1>2, <1>6 DEF IInv, SlotsOK
  <1>11. /\ \A d \in Clients : Online(d)' <=> Online(d)
         /\ \A d \in Clients, u \in Users : OfUser(d, u)' <=> OfUser(d, u)
    BY <1>1, <1>5, <1>6 DEF Online, OfUser, At
  <1>12. LoginsOK'
    <2>1. /\ {d \in Clients : Online(d)'} = {d \in Clients : Online(d)}
          /\ \A j \in Infos : {d \in Clients : Online(d)' /\ hostOf'[d] = j} = {d \in Clients : Online(d) /\ hostOf[d] = j}
          /\ \A u \in Users : {d \in Clients : OfUser(d, u)'} = {d \in Clients : OfUser(d, u)}
      BY <1>5, <1>11
    <2>2. /\ lClients'.service = Cardinality({d \in Clients : Online(d)'})
          /\ \A j \in Infos : info'[j].lClients = Cardinality({d \in Clients : Online(d)' /\ hostOf'[d] = j})
          /\ \A u \in Users : lClients'.user[u] = Cardinality({d \in Clients : OfUser(d, u)'})
      BY <1>2, <1>5, <2>1 DEF IInv, LoginsOK
    <2>3. ~ Going(c, "undo")
      BY <1>1 DEF Going, At, LockCalls
    <2> QED
      BY <1>1, <1>5, <1>6, <2>2, <2>3 DEF IInv, LoginsOK
  <1>13. LimitsOK'
    BY <1>2, <1>6, <1>11, FewerKeepLimits DEF IInv, LimitsOK
  <1> QED
    BY <1>7, <1>8, <1>9, <1>10, <1>12, <1>13 DEF IInv, HostsFit

(* The log-in is undone: it is taken out of the counters.                  *)
LEMMA UndoKeeps ==
  ASSUME IInv, NEW c \in Clients, Undo(c)
  PROVE  IInv'
  <1> DEFINE i == hostOf[c]
  <1>1. /\ c \in Actors /\ op \in [Actors -> Op] /\ op[c] \in Op /\ NoOne \notin Clients \cup Users
        /\ op[c].at = "undo" /\ conn[c] = "online" /\ csClientArray = NoOne
        /\ uid[c] = UserOf[c] /\ UserOf[c] \in Users /\ uid \in [Clients -> Users \cup {NoOne}]
        /\ i \in Infos /\ info[i].live /\ info \in [Infos -> Record]
    <2>1. op[c].at = "undo" /\ csClientArray = NoOne
      BY DEF Undo, At
    <2>2. uid[c] # NoOne /\ uid[c] = UserOf[c] /\ uid \in [Clients -> Users \cup {NoOne}]
      BY <2>1 DEF IInv, LoginsOK, Going, At, ClientTypes
    <2>3. conn[c] = "online" /\ ~ At(c, "closing")
      BY <2>1 DEF IInv, Places, At
    <2> QED
      BY <2>1, <2>2, <2>3, RegistryAssumption, HasHost DEF Actors, IInv, ClientTypes, HostTypes
  <1>2. /\ info' = [info EXCEPT ![i].lClients = @ - 1] /\ uid' = [uid EXCEPT ![c] = NoOne]
        /\ op' = [op EXCEPT ![c] = Idle]
        /\ UNCHANGED <<lpHostArray, lpFreeHostList, dwClassListId, resolve, conn, hostOf, lpClientArray,
                       lpClientSlotList, slotOf, csClientArray>>
    BY DEF Undo
  <1>3. /\ lClients' \in [service : Int, class : [Classes -> Int], user : [Users -> Int]]
        /\ lClients'.service = lClients.service + -1
        /\ \A v \in Users : lClients'.user[v] = lClients.user[v] + IF v = UserOf[c] THEN -1 ELSE 0
    <2>1. PICK d \in Int : d = -1
      OBVIOUS
    <2>2. \E k : CountLogin(k, UserOf[c], d)
      BY <2>1 DEF Undo
    <2>3. ClientTypes
      BY DEF IInv
    <2>4. /\ lClients' \in [service : Int, class : [Classes -> Int], user : [Users -> Int]]
          /\ lClients'.service = lClients.service + d
          /\ \A v \in Users : lClients'.user[v] = lClients.user[v] + IF v = UserOf[c] THEN d ELSE 0
      BY <1>1, <2>2, <2>3, CountLoginIs
    <2> QED
      BY <2>1, <2>4
  <1>4. Idle \in Op /\ Idle.at = "idle"
    BY DEF Idle, Op
  <1>5. hostOf[c] = i
    OBVIOUS
  <1> HIDE DEF i
  <1>6. \A j \in Infos : /\ info'[j] \in Record
                         /\ info'[j].live = info[j].live /\ info'[j].address = info[j].address
                         /\ info'[j].dwShareCount = info[j].dwShareCount
                         /\ info'[j].lClients = info[j].lClients - IF j = i THEN 1 ELSE 0
                         /\ info'[j].lpNext = info[j].lpNext
                         /\ j # i => info'[j] = info[j]
    <2>1. \A j \in Infos : info[j] \in Record /\ info[j].lClients \in Int
      BY <1>1 DEF Record
    <2>2. PICK k \in Record : k = info[i]
      BY <1>1
    <2>3. PICK h : h = [k EXCEPT !.lClients = @ - 1]
      OBVIOUS
    <2>4. /\ h \in Record /\ h.live = k.live /\ h.address = k.address /\ h.dwShareCount = k.dwShareCount
          /\ h.lClients = k.lClients - 1 /\ h.lpNext = k.lpNext
      BY <2>3 DEF Record
    <2>5. \A j \in Infos : info'[j] = IF j = i THEN h ELSE info[j]
      BY <1>1, <1>2, <2>2, <2>3
    <2>6. ASSUME NEW j \in Infos, j = i
          PROVE  /\ info'[j] = h /\ info[j] = k
      BY <1>1, <2>2, <2>5, <2>6
    <2>7. ASSUME NEW j \in Infos, j # i
          PROVE  info'[j] = info[j]
      BY <2>5, <2>7
    <2> QED
      BY <2>1, <2>4, <2>6, <2>7
  <1>7. op'[c] = Idle /\ (\A y \in Actors \ {c} : op'[y] = op[y]) /\ Actors = Clients \cup Killers
    BY <1>1, <1>2 DEF Actors
  <1>8. \A d \in Clients : uid'[d] = IF d = c THEN NoOne ELSE uid[d]
    BY <1>1, <1>2
  <1>9. \A d \in Clients : ~ InArray(d)
    BY <1>1 DEF IInv, Places
  <1>10. \A d \in Clients : /\ At(d, "publish")' <=> At(d, "publish")
                            /\ Present(d)' <=> Present(d)
                            /\ At(d, "accepted")' <=> At(d, "accepted")
                            /\ At(d, "closing")' <=> At(d, "closing")
                            /\ ~ InArray(d)'
                            /\ LogsIn(d)' <=> LogsIn(d)
                            /\ Going(d, "undo")' => Going(d, "undo") /\ d # c
                            /\ ~ Passed(d)'
    BY <1>1, <1>2, <1>4, <1>7, <1>9 DEF At, Present, InArray, LogsIn, Passed, Going, LockCalls
  <1>11. HostsFit'
    <2>1. info' \in [Infos -> Record]
      BY <1>1, <1>2, <1>6
    <2>2. conn' \in [Clients -> {"new", "identify", "waiting", "process", "online", "gone"}]
      BY <1>2 DEF IInv, HostTypes
    <2>3. \A j \in Infos : ~ info[j].live => info'[j] = info[j]
      BY <1>1, <1>6
    <2> QED
      BY <1>2, <1>6, <2>1, <2>2, <2>3, HostsKept
  <1>12. ClientTypes'
    BY <1>1, <1>2, <1>3, <1>4 DEF IInv, ClientTypes
  <1>13. Places'
    <2>1. Idle.at \notin LockCalls \cup {"use"}
      BY <1>4 DEF LockCalls
    <2>2. hostOf[c] # NoInfo
      BY <1>1, <1>5, HostAssumption
    <2>3. \A d \in Clients : csClientArray' = d <=> InArray(d)'
      BY <1>1, <1>2, <1>10
    <2> QED
      BY <1>1, <1>2, <1>4, <2>1, <2>2, <2>3, PlacesChange
  <1>14. SlotsOK'
    BY <1>2, <1>10 DEF IInv, SlotsOK
  <1>15. /\ Online(c) /\ ~ Online(c)' /\ OfUser(c, UserOf[c]) /\ ~ OfUser(c, UserOf[c])'
         /\ \A d \in Clients \ {c} : Online(d)' <=> Online(d)
         /\ \A d \in Clients, u \in Users : d # c \/ u # UserOf[c] => (OfUser(d, u)' <=> OfUser(d, u))
    BY <1>1, <1>4, <1>7, <1>8, <1>10 DEF Online, OfUser, At
  <1>16. Cardinality({d \in Clients : Online(d)'}) = Cardinality({d \in Clients : Online(d)}) - 1
    <2>1. Cardinality(EveryoneOnline') = Cardinality(EveryoneOnline) - 1
      BY <1>2, <1>15, OnlineChange
    <2> QED
      BY <2>1 DEF EveryoneOnline
  <1>17. ASSUME NEW j \in Infos
         PROVE  Cardinality({d \in Clients : Online(d)' /\ hostOf'[d] = j}) =
                  Cardinality({d \in Clients : Online(d) /\ hostOf[d] = j}) - IF j = i THEN 1 ELSE 0
    <2>1. Cardinality(OnlineFrom(j)') = Cardinality(OnlineFrom(j)) - IF j = i THEN 1 ELSE 0
      BY <1>2, <1>5, <1>15, OnlineChange
    <2> QED
      BY <2>1 DEF OnlineFrom
  <1>18. ASSUME NEW u \in Users
         PROVE  Cardinality({d \in Clients : OfUser(d, u)'}) =
                  Cardinality({d \in Clients : OfUser(d, u)}) + IF u = UserOf[c] THEN -1 ELSE 0
    <2>1. ~ OfUser(c, u)' /\ (OfUser(c, u) <=> u = UserOf[c])
      BY <1>1, <1>15 DEF OfUser, At
    <2>2. Cardinality({d \in Clients : OfUser(d, u)}) \in Nat
      BY Finitely
    <2> QED
      BY <1>15, <2>1, <2>2, OfUserChange
  <1>19. LoginsOK'
    <2>1. lClients'.service = Cardinality({d \in Clients : Online(d)'})
      <3>1. lClients.service = Cardinality({d \in Clients : Online(d)}) /\ lClients.service \in Int
        BY Finitely DEF IInv, LoginsOK
      <3> QED
        BY <1>3, <1>16, <3>1
    <2>2. ASSUME NEW j \in Infos
          PROVE  info'[j].lClients = Cardinality({d \in Clients : Online(d)' /\ hostOf'[d] = j})
      <3>1. info[j].lClients = Cardinality({d \in Clients : Online(d) /\ hostOf[d] = j})
        BY DEF IInv, LoginsOK
      <3> QED
        BY <1>6, <1>17, <3>1
    <2>3. ASSUME NEW u \in Users
          PROVE  lClients'.user[u] = Cardinality({d \in Clients : OfUser(d, u)'})
      <3>1. lClients.user[u] = Cardinality({d \in Clients : OfUser(d, u)})
        BY DEF IInv, LoginsOK
      <3> QED
        BY <1>3, <1>18, <3>1
    <2>4. ~ LogsIn(c)'
      BY <1>4, <1>7 DEF LogsIn, Going, At, LockCalls
    <2> QED
      BY <1>1, <1>2, <1>8, <1>10, <2>1, <2>2, <2>3, <2>4 DEF IInv, LoginsOK
  <1>20. LimitsOK'
    <2>1. LimitsKept'
      BY <1>15, FewerKeepLimits
    <2> QED
      BY <1>10, <2>1 DEF LimitsOK
  <1> QED
    BY <1>11, <1>12, <1>13, <1>14, <1>19, <1>20 DEF IInv, HostsFit

(* The memory of the client goes; its log-in leaves the counter of its     *)
(* user.                                                                   *)
LEMMA FreeClientKeeps ==
  ASSUME IInv, NEW c \in Clients, FreeClient(c)
  PROVE  IInv'
  <1>1. /\ c \in Actors /\ op \in [Actors -> Op] /\ op[c] \in Op /\ NoOne \notin Clients \cup Users
        /\ op[c].at = "closing" /\ conn[c] = "online" /\ hostOf[c] = NoInfo
        /\ uid[c] \in {NoOne, UserOf[c]} /\ uid \in [Clients -> Users \cup {NoOne}]
        /\ conn \in [Clients -> {"new", "identify", "waiting", "process", "online", "gone"}]
        /\ slotOf \in [Clients -> Slots \cup {0}]
    <2>1. op[c].at = "closing"
      BY DEF FreeClient, At
    <2>2. conn[c] = "online" /\ hostOf[c] = NoInfo
      BY <2>1 DEF IInv, Places, At
    <2>3. uid[c] \in {NoOne, UserOf[c]}
      BY DEF IInv, LoginsOK
    <2> QED
      BY <2>1, <2>2, <2>3, RegistryAssumption DEF Actors, IInv, ClientTypes, HostTypes
  <1>2. /\ uid' = [uid EXCEPT ![c] = NoOne] /\ slotOf' = [slotOf EXCEPT ![c] = 0]
        /\ conn' = [conn EXCEPT ![c] = "gone"] /\ op' = [op EXCEPT ![c] = Idle]
        /\ UNCHANGED <<info, lpHostArray, lpFreeHostList, resolve, dwClassListId, hostOf, lpClientArray,
                       lpClientSlotList, csClientArray>>
    BY DEF FreeClient, Move, hosts
  <1>3. /\ lClients' \in [service : Int, class : [Classes -> Int], user : [Users -> Int]]
        /\ lClients'.service = lClients.service
        /\ \A v \in Users : lClients'.user[v] =
                              lClients.user[v] + IF uid[c] # NoOne /\ v = UserOf[c] THEN -1 ELSE 0
    <2>1. PICK l \in [service : Int, class : [Classes -> Int], user : [Users -> Int]] : l = lClients
      BY DEF IInv, ClientTypes
    <2>2. CASE uid[c] = NoOne
      BY <2>1, <2>2 DEF FreeClient
    <2>3. CASE uid[c] # NoOne
      <3> DEFINE User == [l.user EXCEPT ![UserOf[c]] = @ - 1]
      <3>1. UserOf[c] \in Users
        BY <1>1, <2>3
      <3>2. User \in [Users -> Int] /\ \A v \in Users : User[v] = l.user[v] + IF v = UserOf[c] THEN -1 ELSE 0
        BY <2>1, <3>1
      <3>3. lClients' = [service |-> l.service, class |-> l.class, user |-> User]
        BY <2>1, <2>3 DEF FreeClient
      <3> HIDE DEF User
      <3> QED
        BY <2>1, <2>3, <3>2, <3>3
    <2> QED
      BY <2>2, <2>3
  <1>4. Idle \in Op /\ Idle.at = "idle"
    BY DEF Idle, Op
  <1>5. op'[c] = Idle /\ (\A y \in Actors \ {c} : op'[y] = op[y]) /\ Actors = Clients \cup Killers
    BY <1>1, <1>2 DEF Actors
  <1>6. \A d \in Clients : /\ uid'[d] = IF d = c THEN NoOne ELSE uid[d]
                           /\ conn'[d] = IF d = c THEN "gone" ELSE conn[d]
                           /\ slotOf'[d] = IF d = c THEN 0 ELSE slotOf[d]
    BY <1>1, <1>2
  <1>7. ASSUME NEW d \in Clients
        PROVE  /\ At(d, "publish")' <=> At(d, "publish")
               /\ Present(d)' <=> Present(d)
               /\ At(d, "accepted")' <=> At(d, "accepted")
               /\ At(d, "closing")' <=> At(d, "closing") /\ d # c
               /\ InArray(d)' <=> InArray(d)
               /\ LogsIn(d)' <=> LogsIn(d)
               /\ Going(d, "undo")' <=> Going(d, "undo")
               /\ Passed(d)' <=> Passed(d)
    <2>1. CASE d = c
      BY <1>1, <1>4, <1>5, <1>6, <2>1 DEF At, Present, InArray, LogsIn, Passed, Going, LockCalls
    <2>2. CASE d # c
      BY <1>1, <1>5, <1>6, <2>2 DEF At, Present, InArray, LogsIn, Passed, Going
    <2> QED
      BY <2>1, <2>2
  <1>8. HostsFit'
    <2>1. info' \in [Infos -> Record]
      BY <1>2 DEF IInv, HostTypes
    <2> QED
      BY <1>1, <1>2, <1>6, <2>1, HostsKept
  <1>9. ClientTypes'
    BY <1>1, <1>2, <1>3, <1>4 DEF IInv, ClientTypes
  <1>10. Places'
    <2>1. Idle.at \notin LockCalls \cup {"use"}
      BY <1>4 DEF LockCalls
    <2>2. \A d \in Clients : csClientArray' = d <=> InArray(d)'
      BY <1>2, <1>7 DEF IInv, Places
    <2> QED
      BY <1>1, <1>2, <1>4, <1>6, <2>1, <2>2, PlacesChange
  <1>11. SlotsOK'
    <2>1. ~ Present(c) /\ ~ At(c, "publish")
      BY <1>1 DEF Present, At
    <2>2. \A d \in Clients : Present(d)' \/ At(d, "publish")' => slotOf'[d] \in Slots
      BY <1>6, <1>7, <2>1 DEF IInv, SlotsOK
    <2>3. \A d \in Clients, m \in Slots : lpClientArray'[m] = d <=> Present(d)' /\ slotOf'[d] = m
      BY <1>2, <1>6, <1>7, <2>1 DEF IInv, SlotsOK
    <2>4. \A d \in Clients : At(d, "publish")' => slotOf'[d] = slotOf[d]
      BY <1>6, <1>7, <2>1
    <2> QED
      BY <1>2, <1>7, <2>2, <2>3, <2>4 DEF IInv, SlotsOK
  <1>12. /\ \A d \in Clients : Online(d)' <=> Online(d)
         /\ \A d \in Clients, u \in Users : d # c => (OfUser(d, u)' <=> OfUser(d, u))
         /\ \A u \in Users : ~ OfUser(c, u)' /\ (OfUser(c, u) <=> uid[c] # NoOne /\ u = UserOf[c])
    BY <1>1, <1>4, <1>5, <1>6, <1>7 DEF Online, OfUser, At
  <1>13. ASSUME NEW u \in Users
         PROVE  Cardinality({d \in Clients : OfUser(d, u)'}) =
                  Cardinality({d \in Clients : OfUser(d, u)}) + IF uid[c] # NoOne /\ u = UserOf[c] THEN -1 ELSE 0
    <2>1. Cardinality({d \in Clients : OfUser(d, u)}) \in Nat
      BY Finitely
    <2> QED
      BY <1>12, <2>1, OfUserChange
  <1>14. LoginsOK'
    <2>1. /\ {d \in Clients : Online(d)'} = {d \in Clients : Online(d)}
          /\ \A j \in Infos : {d \in Clients : Online(d)' /\ hostOf'[d] = j} = {d \in Clients : Online(d) /\ hostOf[d] = j}
      BY <1>2, <1>12
    <2>2. /\ lClients'.service = Cardinality({d \in Clients : Online(d)'})
          /\ \A j \in Infos : info'[j].lClients = Cardinality({d \in Clients : Online(d)' /\ hostOf'[d] = j})
      <3>1. lClients'.service = Cardinality({d \in Clients : Online(d)'})
        BY <1>3, <2>1 DEF IInv, LoginsOK
      <3>2. ASSUME NEW j \in Infos
            PROVE  info'[j].lClients = Cardinality({d \in Clients : Online(d)' /\ hostOf'[d] = j})
        <4>1. info[j].lClients = Cardinality({d \in Clients : Online(d) /\ hostOf[d] = j})
          BY DEF IInv, LoginsOK
        <4> QED
          BY <1>2, <2>1, <4>1
      <3> QED
        BY <3>1, <3>2
    <2>3. ASSUME NEW u \in Users
          PROVE  lClients'.user[u] = Cardinality({d \in Clients : OfUser(d, u)'})
      <3>1. lClients.user[u] = Cardinality({d \in Clients : OfUser(d, u)})
        BY DEF IInv, LoginsOK
      <3> QED
        BY <1>3, <1>13, <3>1
    <2>4. ~ LogsIn(c)' /\ ~ Going(c, "undo")'
      BY <1>4, <1>5 DEF LogsIn, Going, At, LockCalls
    <2> QED
      BY <1>1, <1>6, <1>7, <2>2, <2>3, <2>4 DEF IInv, LoginsOK
  <1>15. LimitsOK'
    <2>1. LimitsKept'
      <3>1. \A d \in Clients, u \in Users : OfUser(d, u)' => OfUser(d, u)
        BY <1>12
      <3> QED
        BY <1>12, <3>1, FewerKeepLimits
    <2>2. ASSUME NEW d \in Clients, Passed(d)'
          PROVE  /\ ~ Full(lMaxClients, lClients'.service)
                 /\ ~ Full(Limits[UserOf[d]], lClients'.user[UserOf[d]])
      <3>1. /\ ~ Full(lMaxClients, lClients.service)
            /\ ~ Full(Limits[UserOf[d]], lClients.user[UserOf[d]])
        BY <1>7, <2>2 DEF IInv, LimitsOK
      <3>2. UserOf[d] \in Users
        <4>1. Passed(d)
          BY <1>7, <2>2
        <4>2. LogsIn(d)
          BY <4>1 DEF Passed, LogsIn, Going, At
        <4> QED
          BY <4>2 DEF IInv, LoginsOK
      <3>3. lClients.user[UserOf[d]] \in Int /\ Limits[UserOf[d]] \in Int
        BY <3>2, RegistryAssumption DEF IInv, ClientTypes
      <3> QED
        BY <1>3, <3>1, <3>2, <3>3 DEF Full, Unlimited
    <2> QED
      BY <2>1, <2>2 DEF LimitsOK
  <1> QED
    BY <1>8, <1>9, <1>10, <1>11, <1>14, <1>15 DEF IInv, HostsFit

(* A client leaves: its slot, the counters and its host, inside            *)
(* csClientArray.                                                          *)
LEMMA UnregisterClientKeeps ==
  ASSUME IInv, NEW c \in Clients, UnregisterClient(c)
  PROVE  IInv'
  <1> DEFINE i == hostOf[c]
             n == slotOf[c]
             x == [op[c] EXCEPT !.at = "closing"]
             w == IF uid[c] = NoOne THEN 0 ELSE 1
  <1>1. /\ c \in Actors /\ op \in [Actors -> Op] /\ op[c] \in Op /\ NoOne \notin Clients \cup Users
        /\ op[c].at = "leaving" /\ conn[c] = "online" /\ csClientArray = c
        /\ hostOf \in [Clients -> Infos \cup {NoInfo}] /\ NoInfo \notin Infos
        /\ i \in Infos /\ info[i].live /\ Holders(i) >= 1 /\ info \in [Infos -> Record]
        /\ n \in Slots /\ lpClientArray[n] = c /\ lpClientArray \in [Slots -> Clients \cup {NoOne}]
    <2>1. op[c].at = "leaving"
      BY DEF UnregisterClient, At
    <2>2. conn[c] = "online" /\ csClientArray = c
      BY <2>1 DEF IInv, Places, InArray, At
    <2>3. Present(c)
      BY <2>1, <2>2 DEF Present, At
    <2>4. n \in Slots /\ lpClientArray[n] = c
      BY <2>3 DEF IInv, SlotsOK
    <2>5. i \in Infos /\ info[i].live /\ Holders(i) >= 1
      BY <2>1, <2>2, HasHost DEF At
    <2> QED
      BY <2>1, <2>2, <2>4, <2>5, RegistryAssumption, HostAssumption DEF Actors, IInv, ClientTypes, HostTypes
  <1>2. /\ info' = [info EXCEPT ![i].dwShareCount = @ - 1, ![i].lClients = @ - w]
        /\ lpFreeHostList' = IF info[i].dwShareCount = 1 THEN Append(lpFreeHostList, i) ELSE lpFreeHostList
        /\ hostOf' = [hostOf EXCEPT ![c] = NoInfo]
        /\ lpClientSlotList' = <<n>> \o lpClientSlotList
        /\ lpClientArray' = [lpClientArray EXCEPT ![n] = NoOne]
        /\ csClientArray' = NoOne /\ op' = [op EXCEPT ![c] = x]
        /\ UNCHANGED <<lpHostArray, dwClassListId, resolve, conn, slotOf, uid>>
    BY <1>1 DEF UnregisterClient, LeaveHost, Goto
  <1>3. /\ lClients' \in [service : Int, class : [Classes -> Int], user : [Users -> Int]]
        /\ lClients'.service = lClients.service - w
        /\ lClients'.user = lClients.user
    <2>1. PICK l \in [service : Int, class : [Classes -> Int], user : [Users -> Int]] : l = lClients
      BY DEF IInv, ClientTypes
    <2>2. CASE uid[c] = NoOne
      BY <2>1, <2>2 DEF UnregisterClient, Uncount
    <2>3. CASE uid[c] # NoOne
      <3> DEFINE Class == [k \in Classes |-> l.class[k] - (IF k = classOf[c] THEN 1 ELSE 0)]
      <3>1. Class \in [Classes -> Int]
        BY <2>1
      <3>2. lClients' = [service |-> l.service - 1, class |-> Class, user |-> l.user]
        BY <2>1, <2>3 DEF UnregisterClient, Uncount
      <3> HIDE DEF Class
      <3> QED
        BY <2>1, <2>3, <3>1, <3>2
    <2> QED
      BY <2>2, <2>3
  <1>4. x \in Op /\ x.at = "closing"
    BY <1>1 DEF Op
  <1>5. hostOf[c] = i /\ slotOf[c] = n /\ w \in {0, 1} /\ (w = 1 <=> uid[c] # NoOne)
    OBVIOUS
  <1> HIDE DEF i, n, x, w
  <1>6. \A j \in Infos : /\ info'[j] \in Record
                         /\ info'[j].live = info[j].live /\ info'[j].address = info[j].address
                         /\ info'[j].dwShareCount = IF j = i THEN info[j].dwShareCount - 1 ELSE info[j].dwShareCount
                         /\ info'[j].lClients = info[j].lClients - IF j = i THEN w ELSE 0
                         /\ info'[j].lpNext = info[j].lpNext
                         /\ j # i => info'[j] = info[j]
    <2>1. \A j \in Infos : info[j] \in Record /\ info[j].dwShareCount \in Int /\ info[j].lClients \in Int
      BY <1>1 DEF Record
    <2>2. PICK k \in Record : k = info[i]
      BY <1>1
    <2>3. PICK g : g = [k EXCEPT !.dwShareCount = @ - 1]
      OBVIOUS
    <2>4. /\ g \in Record /\ g.live = k.live /\ g.address = k.address /\ g.dwShareCount = k.dwShareCount - 1
          /\ g.lClients = k.lClients /\ g.lpNext = k.lpNext
      BY <2>3 DEF Record
    <2>5. PICK h : h = [g EXCEPT !.lClients = @ - w]
      OBVIOUS
    <2>6. /\ h \in Record /\ h.live = g.live /\ h.address = g.address /\ h.dwShareCount = g.dwShareCount
          /\ h.lClients = g.lClients - w /\ h.lpNext = g.lpNext
      BY <1>5, <2>4, <2>5 DEF Record
    <2>7. info' = [info EXCEPT ![i] = [[info[i] EXCEPT !.dwShareCount = @ - 1] EXCEPT !.lClients = @ - w]]
      <3>1. info' = [info EXCEPT ![i].dwShareCount = @ - 1, ![i].lClients = @ - w]
        BY <1>2
      <3>2. i \in Infos /\ info \in [Infos -> Record]
        BY <1>1
      <3> QED
        BY <3>1, <3>2
    <2>8. \A j \in Infos : info'[j] = IF j = i THEN h ELSE info[j]
      BY <1>1, <2>2, <2>3, <2>5, <2>7
    <2>9. ASSUME NEW j \in Infos, j = i
          PROVE  /\ info'[j] = h /\ info[j] = k
      BY <1>1, <2>2, <2>8, <2>9
    <2>10. ASSUME NEW j \in Infos, j # i
           PROVE  info'[j] = info[j]
      BY <2>8, <2>10
    <2>11. h.lClients = k.lClients - w /\ h.dwShareCount = k.dwShareCount - 1
      BY <2>4, <2>6
    <2> QED
      BY <2>1, <2>4, <2>6, <2>9, <2>10, <2>11
  <1>7. op'[c] = x /\ (\A y \in Actors \ {c} : op'[y] = op[y]) /\ Actors = Clients \cup Killers
    BY <1>1, <1>2 DEF Actors
  <1>8. \A d \in Clients : hostOf'[d] = IF d = c THEN NoInfo ELSE hostOf[d]
    BY <1>1, <1>2
  <1>9. \A d \in Clients : InArray(d) <=> d = c
    BY <1>1 DEF IInv, Places
  <1>10. \A d \in Clients : /\ ~ At(d, "publish") /\ ~ At(d, "publish")'
                            /\ Present(d)' <=> Present(d) /\ d # c
                            /\ At(d, "accepted")' <=> At(d, "accepted")
                            /\ At(d, "closing")' <=> At(d, "closing") \/ d = c
                            /\ ~ InArray(d)'
                            /\ LogsIn(d)' => LogsIn(d)
                            /\ Going(d, "undo")' => Going(d, "undo")
                            /\ ~ Passed(d)'
    BY <1>1, <1>2, <1>4, <1>7, <1>9 DEF At, Present, InArray, LogsIn, Passed, Going, LockCalls
  <1>11. UNCHANGED <<lpResolveList, dwResolveThreads, resolver>>
    BY <1>2 DEF resolve
  <1>12. Shares' /\ lpFreeHostList' \in Seq(Infos)
    <2>1. \A r \in Resolvers : ResolversCount(r)
      BY <1>11 DEF ResolversCount
    <2>2. \A j \in Infos : Holders(j)' = IF j = i THEN Holders(j) - 1 ELSE Holders(j)
      BY <1>1, <1>2, <1>5, <2>1, HoldersChange DEF IInv
    <2>3. \A j \in Infos : info'[j].dwShareCount = IF j = i THEN info[j].dwShareCount - 1
                                                            ELSE info[j].dwShareCount
      BY <1>6
    <2>4. HostTypes /\ Shares /\ Records
      BY DEF IInv
    <2> QED
      BY <1>1, <1>2, <2>2, <2>3, <2>4, SharesLess
  <1>13. HostTypes'
    <2>1. info' \in [Infos -> Record]
      BY <1>1, <1>2, <1>6
    <2>2. hostOf' \in [Clients -> Infos \cup {NoInfo}]
      BY <1>1, <1>2
    <2> QED
      BY <1>2, <1>11, <1>12, <2>1, <2>2 DEF IInv, HostTypes
  <1>14. Records'
    <2>1. \A j \in Infos : ~ info[j].live => info'[j] = info[j]
      BY <1>1, <1>6
    <2> QED
      BY <1>2, <1>6, <1>8, <2>1, RecordsKept DEF IInv
  <1>15. Queues'
    <2>1. \A d \in Clients : /\ conn'[d] = "waiting" <=> conn[d] = "waiting"
                             /\ conn[d] = "waiting" => hostOf'[d] = hostOf[d] /\ hostOf[d] \in Infos
      BY <1>1, <1>2, <1>8, HasHost
    <2> QED
      BY <1>2, <1>6, <2>1, QueuesKept DEF IInv
  <1>16. /\ lpClientSlotList' \in Seq(Slots) /\ IsInjective(lpClientSlotList')
         /\ ToSet(lpClientSlotList') = ToSet(lpClientSlotList) \cup {n}
    <2>1. n \notin ToSet(lpClientSlotList)
      BY <1>1 DEF IInv, SlotsOK
    <2>2. lpClientSlotList \in Seq(Slots) /\ IsInjective(lpClientSlotList)
      BY DEF IInv, ClientTypes, SlotsOK
    <2> QED
      BY <1>1, <1>2, <2>1, <2>2, OneInFront
  <1>17. ClientTypes'
    BY <1>1, <1>2, <1>3, <1>4, <1>16 DEF IInv, ClientTypes
  <1>18. Places'
    <2>1. x.at \notin LockCalls \cup {"use"}
      BY <1>4 DEF LockCalls
    <2>2. \A d \in Clients : csClientArray' = d <=> InArray(d)'
      BY <1>1, <1>2, <1>10
    <2> QED
      BY <1>1, <1>2, <1>4, <1>8, <2>1, <2>2, PlacesChange
  <1>19. SlotsOK'
    <2>1. \A m \in Slots : lpClientArray'[m] = IF m = n THEN NoOne ELSE lpClientArray[m]
      BY <1>1, <1>2
    <2>2. \A d \in Clients : Present(d)' => slotOf'[d] \in Slots
      BY <1>2, <1>10 DEF IInv, SlotsOK
    <2>3. ASSUME NEW d \in Clients, NEW m \in Slots
          PROVE  lpClientArray'[m] = d <=> Present(d)' /\ slotOf'[d] = m
      BY <1>1, <1>2, <1>5, <1>10, <2>1 DEF IInv, SlotsOK
    <2>4. ToSet(lpClientSlotList') = {m \in Slots : lpClientArray'[m] = NoOne}
      BY <1>1, <1>10, <1>16, <2>1 DEF IInv, SlotsOK
    <2> QED
      BY <1>10, <1>16, <2>2, <2>3, <2>4 DEF SlotsOK
  <1>20. /\ Online(c) <=> uid[c] # NoOne
         /\ ~ Online(c)'
         /\ \A d \in Clients \ {c} : Online(d)' <=> Online(d)
         /\ \A d \in Clients, u \in Users : OfUser(d, u)' <=> OfUser(d, u)
    BY <1>1, <1>2, <1>10 DEF Online, OfUser, At
  <1>21. Cardinality({d \in Clients : Online(d)'}) = Cardinality({d \in Clients : Online(d)}) - w
    <2>1. Cardinality(EveryoneOnline') = Cardinality(EveryoneOnline) - w
      BY <1>5, <1>8, <1>20, OnlineChange
    <2> QED
      BY <2>1 DEF EveryoneOnline
  <1>22. ASSUME NEW j \in Infos
         PROVE  Cardinality({d \in Clients : Online(d)' /\ hostOf'[d] = j}) =
                  Cardinality({d \in Clients : Online(d) /\ hostOf[d] = j}) - IF j = i THEN w ELSE 0
    <2>1. Cardinality(OnlineFrom(j)') = Cardinality(OnlineFrom(j)) - IF j = i THEN w ELSE 0
      BY <1>5, <1>8, <1>20, OnlineChange
    <2> QED
      BY <2>1 DEF OnlineFrom
  <1>23. LoginsOK'
    <2>1. lClients'.service = Cardinality({d \in Clients : Online(d)'})
      <3>1. lClients.service = Cardinality({d \in Clients : Online(d)})
        BY DEF IInv, LoginsOK
      <3> QED
        BY <1>3, <1>21, <3>1
    <2>2. ASSUME NEW j \in Infos
          PROVE  info'[j].lClients = Cardinality({d \in Clients : Online(d)' /\ hostOf'[d] = j})
      <3>1. info[j].lClients = Cardinality({d \in Clients : Online(d) /\ hostOf[d] = j})
        BY DEF IInv, LoginsOK
      <3> QED
        BY <1>6, <1>22, <3>1
    <2>3. ASSUME NEW u \in Users
          PROVE  lClients'.user[u] = Cardinality({d \in Clients : OfUser(d, u)'})
      <3>1. {d \in Clients : OfUser(d, u)'} = {d \in Clients : OfUser(d, u)}
        BY <1>20
      <3>2. lClients.user[u] = Cardinality({d \in Clients : OfUser(d, u)})
        BY DEF IInv, LoginsOK
      <3> QED
        BY <1>3, <3>1, <3>2
    <2> QED
      BY <1>2, <1>10, <2>1, <2>2, <2>3 DEF IInv, LoginsOK
  <1>24. LimitsOK'
    <2>1. LimitsKept'
      BY <1>20, FewerKeepLimits
    <2> QED
      BY <1>10, <2>1 DEF LimitsOK
  <1> QED
    BY <1>12, <1>13, <1>14, <1>15, <1>17, <1>18, <1>19, <1>23, <1>24 DEF IInv

-------------------------------------------------------------------------------
(* Nobody is connected at first.                                           *)
LEMMA InitKeeps == Init => IInv
  <1> SUFFICES ASSUME Init
               PROVE  IInv
    OBVIOUS
  <1>1. /\ info = [i \in Infos |-> NoHost] /\ lpHostArray = {} /\ lpFreeHostList = <<>>
        /\ dwClassListId = 1 /\ lpResolveList = <<>> /\ dwResolveThreads = 0
        /\ resolver = [r \in Resolvers |-> Quiet]
        /\ conn = [c \in Clients |-> "new"] /\ hostOf = [c \in Clients |-> NoInfo]
    BY DEF Init, HostInit
  <1>2. /\ lpClientArray = [n \in Slots |-> NoOne] /\ csClientArray = NoOne
        /\ slotOf = [c \in Clients |-> 0] /\ uid = [c \in Clients |-> NoOne]
        /\ lpClientSlotList = [n \in 1..Cardinality(Slots) |-> n]
        /\ lClients = [service |-> 0, class |-> [k \in Classes |-> 0], user |-> [u \in Users |-> 0]]
        /\ op = [a \in Actors |-> Idle]
    BY DEF Init, RegistryInit
  <1>3. /\ NoHost \in Record /\ ~ NoHost.live /\ NoHost.dwShareCount = 0 /\ NoHost.lClients = 0 /\ NoHost.lpNext = {}
        /\ Quiet \in Resolving /\ Quiet.at = "off" /\ Quiet.host = NoInfo /\ Quiet.list = {} /\ Quiet.dwCount = 0
        /\ Idle \in Op /\ Idle.at = "idle"
    BY DEF NoHost, Record, Quiet, Resolving, Idle, Op
  <1>4. /\ \A i \in Infos : info[i] = NoHost
        /\ \A r \in Resolvers : resolver[r] = Quiet
        /\ \A c \in Clients : conn[c] = "new" /\ hostOf[c] = NoInfo /\ uid[c] = NoOne /\ slotOf[c] = 0
        /\ \A a \in Actors : op[a] = Idle
        /\ \A n \in Slots : lpClientArray[n] = NoOne
        /\ Actors = Clients \cup Killers /\ NoOne \notin Clients \cup Users /\ NoInfo \notin Infos
    BY <1>1, <1>2, RegistryAssumption, HostAssumption DEF Actors
  <1>5. HostTypes
    <2>1. 1 \in DOMAIN Rules
      <3>1. Rules # <<>> /\ Rules \in Seq([Addresses -> [lpClass : Classes \cup {NoClass}, lConnectionsPerHost : Int]])
        BY HostAssumption
      <3> QED
        BY <3>1
    <2> QED
      BY <1>1, <1>3, <2>1 DEF HostTypes
  <1>6. Records
    BY <1>1, <1>3, <1>4 DEF Records
  <1>7. Shares
    <2>1. ASSUME NEW i \in Infos
          PROVE  Holders(i) = 0
      <3>1. ConnectedFrom(i) = {}
        BY <1>4 DEF ConnectedFrom
      <3>2. Dropped(i) = {}
        <4>1. \A d \in Resolvers \X (1..Cardinality(Clients)) : d[1] \in Resolvers /\ resolver[d[1]].host # i
          BY <1>3, <1>4
        <4> QED
          BY <4>1 DEF Dropped
      <3> QED
        BY <3>1, <3>2, FS_EmptySet DEF Holders
    <2>2. ToSet(lpFreeHostList) = {} /\ IsInjective(lpFreeHostList)
      BY <1>1 DEF ToSet, IsInjective
    <2> QED
      BY <1>1, <1>3, <1>4, <2>1, <2>2 DEF Shares
  <1>8. Queues
    <2>1. ToSet(lpResolveList) = {} /\ IsInjective(lpResolveList)
      BY <1>1 DEF ToSet, IsInjective
    <2>2. \A r \in Resolvers : ResolverOK(r) /\ \A i : ~ LooksUp(r, i)
      BY <1>3, <1>4, Finitely DEF ResolverOK, LooksUp
    <2>3. {r \in Resolvers : resolver[r].at # "off"} = {}
      BY <1>3, <1>4
    <2>4. dwResolveThreads = Cardinality({r \in Resolvers : resolver[r].at # "off"})
      BY <1>1, <2>3, FS_EmptySet
    <2> QED
      BY <1>1, <1>3, <1>4, <2>1, <2>2, <2>4 DEF Queues
  <1>9. /\ Slots = 1..Len(lpClientSlotList) /\ lpClientSlotList \in Seq(Slots) /\ IsInjective(lpClientSlotList)
        /\ ToSet(lpClientSlotList) = Slots
    <2>1. Slots = 1..Cardinality(Slots)
      BY RegistryAssumption
    <2>2. IsFiniteSet(Slots)
      BY RegistryAssumption
    <2>3. PICK N \in Nat : N = Cardinality(Slots)
      BY <2>2, FS_CardinalityType
    <2>4. lpClientSlotList = [n \in 1..N |-> n] /\ Slots = 1..N
      BY <1>2, <2>1, <2>3
    <2> QED
      BY <2>4 DEF ToSet, IsInjective
  <1>10. ClientTypes
    <2>1. lClients \in [service : Int, class : [Classes -> Int], user : [Users -> Int]]
      BY <1>2
    <2> QED
      BY <1>2, <1>3, <1>9, <2>1 DEF ClientTypes
  <1>11. \A c \in Clients : /\ \A place : At(c, place) => place = "idle"
                            /\ ~ Present(c) /\ ~ InArray(c) /\ ~ LogsIn(c) /\ ~ Going(c, "undo") /\ ~ Passed(c)
                            /\ ~ Online(c) /\ \A u \in Users : ~ OfUser(c, u)
    BY <1>3, <1>4 DEF At, Present, InArray, LogsIn, Going, LockCalls, Passed, Online, OfUser
  <1>12. Places
    BY <1>2, <1>3, <1>4, <1>11 DEF Places, LockCalls
  <1>13. SlotsOK
    BY <1>4, <1>9, <1>11 DEF SlotsOK
  <1>14. /\ Cardinality({c \in Clients : Online(c)}) = 0
         /\ \A i \in Infos : Cardinality({c \in Clients : Online(c) /\ hostOf[c] = i}) = 0
         /\ \A u \in Users : Cardinality({c \in Clients : OfUser(c, u)}) = 0
         /\ Cardinality({c \in Clients : Online(c) /\ UserOf[c] \notin MayFill}) = 0
    <2>1. /\ {c \in Clients : Online(c)} = {}
          /\ \A i \in Infos : {c \in Clients : Online(c) /\ hostOf[c] = i} = {}
          /\ \A u \in Users : {c \in Clients : OfUser(c, u)} = {}
          /\ {c \in Clients : Online(c) /\ UserOf[c] \notin MayFill} = {}
      BY <1>11
    <2> QED
      BY <2>1, FS_EmptySet
  <1>15. LoginsOK
    BY <1>2, <1>3, <1>4, <1>11, <1>14 DEF LoginsOK
  <1>16. LimitsOK
    BY <1>11, <1>14, RegistryAssumption DEF LimitsOK, LimitsKept
  <1> QED
    BY <1>5, <1>6, <1>7, <1>8, <1>10, <1>12, <1>13, <1>15, <1>16 DEF IInv

(* Every step keeps the invariant.                                         *)
LEMMA NextKeeps == IInv /\ [Next]_vars => IInv'
  <1> SUFFICES ASSUME IInv, [Next]_vars
               PROVE  IInv'
    OBVIOUS
  <1>1. CASE HostStep /\ UNCHANGED regvars
    BY <1>1, HostStepKeeps
  <1>2. ASSUME NEW c \in Clients, ClientStep(c)
        PROVE  IInv'
    <2>1. CASE RegisterClient(c) \/ Publish(c) \/ Registered(c) \/ NoSlot(c)
      BY <2>1, RegisterClientKeeps, PublishKeeps, RegisteredKeeps, NoSlotKeeps
    <2>2. CASE Login(c) \/ Deauthenticate(c) \/ EnterLogin(c) \/ NextClient(c) \/ Compare(c)
      BY <2>2, LoginKeeps, EnterLoginKeeps, NextClientKeeps, CompareKeeps
    <2>3. CASE Accept(c) \/ LoggedIn(c) \/ Refuse(c) \/ Undo(c)
      BY <2>3, AcceptKeeps, LoggedInKeeps, InOrOutKeeps, UndoKeeps
    <2>4. CASE CloseConnection(c) \/ UnregisterClient(c) \/ FreeClient(c)
      BY <2>4, InOrOutKeeps, UnregisterClientKeeps, FreeClientKeeps
    <2> QED
      BY <1>2, <2>1, <2>2, <2>3, <2>4 DEF ClientStep
  <1>3. ASSUME NEW k \in Killers, KillEnd(k) \/ \E n \in Slots : Kill(k, n)
        PROVE  IInv'
    BY <1>3, KillKeeps
  <1>4. ASSUME NEW a \in Actors, LockLook(a) \/ LockExchange(a) \/ LockAgain(a)
        PROVE  IInv'
    BY <1>4, LockLookKeeps, LockExchangeKeeps, LockAgainKeeps
  <1>5. CASE UNCHANGED vars
    <2>1. UNCHANGED regvars /\ UNCHANGED hostvars
      BY <1>5 DEF vars
    <2>2. HostsFit'
      BY <2>1, HostsSame
    <2>3. UNCHANGED <<lpClientArray, lpClientSlotList, csClientArray, slotOf, uid, lClients, op,
                      conn, hostOf, info>>
      BY <2>1 DEF regvars, hostvars
    <2>4. \A d \in Clients : /\ At(d, "publish")' <=> At(d, "publish")
                             /\ Present(d)' <=> Present(d)
                             /\ InArray(d)' <=> InArray(d)
                             /\ At(d, "closing")' <=> At(d, "closing")
                             /\ At(d, "accepted")' <=> At(d, "accepted")
                             /\ LogsIn(d)' => LogsIn(d)
                             /\ Going(d, "undo")' => Going(d, "undo")
                             /\ Passed(d)' => Passed(d)
      BY <2>3 DEF At, Present, InArray, LogsIn, Passed, Going
    <2>5. ClientTypes'
      BY <2>3 DEF IInv, ClientTypes
    <2>6. Places'
      BY <2>3, <2>4 DEF IInv, Places, At
    <2>7. SlotsOK'
      BY <2>3, <2>4 DEF IInv, SlotsOK
    <2>8. LoginsOK' /\ LimitsOK'
      BY <2>3, <2>4, LoginsSame
    <2> QED
      BY <2>2, <2>5, <2>6, <2>7, <2>8 DEF IInv, HostsFit
  <1> QED
    BY <1>1, <1>2, <1>3, <1>4, <1>5 DEF Next

(* The parts of the invariant give what the tables promise.                *)
LEMMA InvariantGives == IInv => RegistryInv
  <1> SUFFICES ASSUME IInv
               PROVE  RegistryInv
    OBVIOUS
  <1>1. NoInfo \notin Infos /\ NoOne \notin Clients
    BY HostAssumption, RegistryAssumption
  <1>2. WaitersHaveResolver
    <2>1. ASSUME NEW c \in Clients, conn[c] = "waiting"
          PROVE  \/ /\ c \in info[hostOf[c]].lpNext
                    /\ \/ hostOf[c] \in ToSet(lpResolveList)
                       \/ \E r \in Resolvers : resolver[r].at = "resolve" /\ resolver[r].host = hostOf[c]
                 \/ \E r \in Resolvers : c \in resolver[r].list
      <3>1. hostOf[c] \in Infos
        BY <2>1, HasHost
      <3>2. c \in info[hostOf[c]].lpNext \/ \E r \in Resolvers : c \in resolver[r].list
        BY <2>1 DEF IInv, Queues
      <3>3. info[hostOf[c]].lpNext # {} =>
              hostOf[c] \in ToSet(lpResolveList) \/ \E r \in Resolvers : LooksUp(r, hostOf[c])
        BY <3>1 DEF IInv, Queues
      <3> QED
        BY <3>2, <3>3 DEF LooksUp
    <2> QED
      BY <2>1 DEF WaitersHaveResolver, IInv, Queues
  <1>3. HostsShared
    <2>1. \A c \in Clients : hostOf[c] # NoInfo => info[hostOf[c]].live
      BY DEF IInv, HostTypes, Records
    <2>2. ASSUME NEW i \in Infos, info[i].lpNext # {}
          PROVE  info[i].dwShareCount > 0 /\ i \notin ToSet(lpFreeHostList)
      <3>1. info[i].dwShareCount # 0
        BY <2>2, NobodyThere
      <3>2. info[i].dwShareCount \in Nat
        BY HoldersCount DEF IInv, Shares
      <3> QED
        BY <3>1, <3>2 DEF IInv, Shares
    <2>3. \A i \in lpHostArray : info[i].dwShareCount = Holders(i)
      BY DEF IInv, Records, Shares
    <2> QED
      BY <1>2, <2>1, <2>2, <2>3 DEF HostsShared, IInv, Records, Shares
  <1>4. SlotsAgree
    <2> SUFFICES ASSUME csClientArray = NoOne
                 PROVE  /\ \A c \in Clients : Present(c) <=> \E n \in Slots : lpClientArray[n] = c
                        /\ \A n \in Slots : lpClientArray[n] # NoOne => slotOf[lpClientArray[n]] = n
                        /\ ToSet(lpClientSlotList) = {n \in Slots : lpClientArray[n] = NoOne}
                        /\ IsInjective(lpClientSlotList)
      BY DEF SlotsAgree
    <2>1. \A c \in Clients : ~ At(c, "publish")
      BY <1>1 DEF IInv, Places, InArray, At
    <2>2. \A c \in Clients : Present(c) <=> \E n \in Slots : lpClientArray[n] = c
      BY DEF IInv, SlotsOK
    <2>3. \A n \in Slots : lpClientArray[n] # NoOne => slotOf[lpClientArray[n]] = n
      BY DEF IInv, SlotsOK, ClientTypes
    <2>4. ToSet(lpClientSlotList) = {n \in Slots : lpClientArray[n] = NoOne} /\ IsInjective(lpClientSlotList)
      BY <2>1 DEF IInv, SlotsOK
    <2> QED
      BY <2>2, <2>3, <2>4
  <1>5. LoginsCounted
    BY DEF IInv, LoginsOK, LoginsCounted, Records
  <1> QED
    BY <1>3, <1>4, <1>5 DEF RegistryInv, OnlineAgrees, IInv, LimitsOK

(* Whatever clients, resolvers and killers do, in any numbers and any      *)
(* order: every record of a host is counted by who uses it and is to be    *)
(* freed only when nobody does, who waits for a name has a resolver to     *)
(* come, each slot has one client, the counters are those who are logged   *)
(* in, and no more users are let in than the service and their accounts    *)
(* allow.                                                                  *)
THEOREM RegistryKept == Spec => []RegistryInv
  <1> QED
    BY InitKeeps, NextKeeps, InvariantGives, PTL DEF Spec
===============================================================================
