----------------------------- MODULE HostTable -----------------------------
(***************************************************************************)
(* The hosts clients connect from (Identify.c, and GetHostClass of         *)
(* MessageHandler.c).  A host has one record, found by its address and     *)
(* counted by the connections that use it.  A record nobody uses stays in  *)
(* the array, on a list of records to free, until the array is full and    *)
(* the record is older than a ban.                                         *)
(*                                                                         *)
(* The record's lpNext links that list and, while the name of the host is  *)
(* looked up, the connections that wait for it.                            *)
(*                                                                         *)
(* Each operation is one critical section (csHostArray, csResolveList or   *)
(* the lLock of the record) and is one action or operator.                 *)
(***************************************************************************)
EXTENDS Integers, FiniteSets, SequencesExt

CONSTANTS Clients,      \* the connections, each accepted once
          Addresses,
          AddressOf,    \* the address each connection comes from
          Infos,        \* bound: the blocks of memory for records
          Resolvers,    \* the threads resolver jobs run in
          Classes, NoClass,
          Rules,        \* versions of the rules: address -> class and limit
          dwHostArraySize,
          dwMaxTicks,   \* attempts before a host is banned
          Immune,       \* addresses that are never banned
          dwMaxResolverThreads,
          bReverseResolveIPs,
          NoInfo

ASSUME HostAssumption ==
    /\ IsFiniteSet(Clients) /\ IsFiniteSet(Infos) /\ NoInfo \notin Infos
    /\ IsFiniteSet(Resolvers)
    /\ AddressOf \in [Clients -> Addresses] /\ Immune \subseteq Addresses
    /\ Rules # <<>>
    /\ Rules \in Seq([Addresses -> [lpClass : Classes \cup {NoClass}, lConnectionsPerHost : Int]])
    /\ dwHostArraySize \in Nat \ {0} /\ dwMaxTicks \in Nat \ {0}
    /\ dwMaxResolverThreads \in Nat \ {0} /\ bReverseResolveIPs \in BOOLEAN

VARIABLES
    info,           \* the records
    lpHostArray,    \* those in the array
    lpFreeHostList, \* those nobody uses, the longest unused first
    dwClassListId,  \* the version of the rules
    lpResolveList,  \* records whose host is to be looked up
    dwResolveThreads,
    resolver,       \* what each resolver thread has
    conn,           \* where each connection is
    hostOf          \* its record

hostvars == <<info, lpHostArray, lpFreeHostList, dwClassListId, lpResolveList,
              dwResolveThreads, resolver, conn, hostOf>>
hosts    == <<info, lpHostArray, lpFreeHostList>>
resolve  == <<lpResolveList, dwResolveThreads, resolver>>

NoHost == [live |-> FALSE, address |-> NoInfo, dwShareCount |-> 0, dwAttemptCount |-> 0,
           cached |-> FALSE, lpClass |-> NoClass, lConnectionsPerHost |-> 0,
           dwClassListId |-> 0, lClients |-> 0, lpNext |-> {}]
Unused == {i \in Infos : ~ info[i].live}
Quiet  == [at |-> "off", host |-> NoInfo, list |-> {}, dwCount |-> 0]

HostInit ==
    /\ info = [i \in Infos |-> NoHost]
    /\ lpHostArray = {} /\ lpFreeHostList = <<>>
    /\ dwClassListId = 1
    /\ lpResolveList = <<>> /\ dwResolveThreads = 0
    /\ resolver = [r \in Resolvers |-> Quiet]
    /\ conn = [c \in Clients |-> "new"]
    /\ hostOf = [c \in Clients |-> NoInfo]

Move(c, place) == conn' = [conn EXCEPT ![c] = place]

-----------------------------------------------------------------------------
(* GetHostClass: what the rules in force say of the host.  Rules that name *)
(* hosts by name, known masks and knocks decide the same two fields.       *)
GetHostClass(h) ==
    LET rule == Rules[dwClassListId][h.address] IN
    [h EXCEPT !.lpClass = rule.lpClass, !.lConnectionsPerHost = rule.lConnectionsPerHost,
              !.dwClassListId = dwClassListId]

CheckedClass(h) == IF h.dwClassListId # dwClassListId THEN GetHostClass(h) ELSE h

(* ReadConnectionClasses, on a re-read of the configuration. *)
ReadConnectionClasses ==
    /\ dwClassListId < Len(Rules)
    /\ dwClassListId' = dwClassListId + 1
    /\ UNCHANGED <<hosts, resolve, conn, hostOf>>

(* RegisterNetworkAddress(c): the records that may go when the array is    *)
(* full are a first part of the list (`old` of them are older than a ban); *)
(* if there is none the array grows.  A host that has come too often and   *)
(* not yet `past` a ban is refused; one that was quiet `past` an interval  *)
(* starts to count anew.                                                   *)
Evicted(old)   == ToSet(SubSeq(lpFreeHostList, 1, old))
Find(array, a) == {i \in array : info[i].address = a}
\* Mutant: the record stays on the list of those to free.
TakeOffKeepsLink(list, i) == list
TakeOff(list, i) == RemoveAt(list, CHOOSE n \in DOMAIN list : list[n] = i)

NewHost(a) == [NoHost EXCEPT !.live = TRUE, !.address = a, !.dwShareCount = 1, !.dwAttemptCount = 1]

Attempt(h, past) ==
    IF h.dwAttemptCount >= dwMaxTicks \/ past # "no" THEN 1 ELSE h.dwAttemptCount + 1

RegisterNetworkAddress(c) ==
    \E old \in 0..Len(lpFreeHostList), past \in {"no", "interval", "ban"} :
    LET full  == Cardinality(lpHostArray) = dwHostArraySize
        spared == AddressOf[c] \in Immune \/ past = "ban"
        gone  == IF full THEN Evicted(old) ELSE {}
        array == lpHostArray \ gone
        list  == IF full THEN SubSeq(lpFreeHostList, old + 1, Len(lpFreeHostList)) ELSE lpFreeHostList
        freed == [i \in Infos |-> IF i \in gone THEN NoHost ELSE info[i]] IN
    /\ conn[c] = "new"
    /\ full \/ old = 0
    /\ \/ \E i \in Find(array, AddressOf[c]) :
            \/ /\ freed[i].dwAttemptCount < dwMaxTicks \/ spared
               /\ info' = [freed EXCEPT ![i].dwShareCount = @ + 1,
                                        ![i].dwAttemptCount = Attempt(freed[i], past)]
               /\ lpFreeHostList' = IF freed[i].dwShareCount = 0 THEN TakeOff(list, i) ELSE list
               /\ hostOf' = [hostOf EXCEPT ![c] = i]
               /\ Move(c, "identify")
            \/ /\ freed[i].dwAttemptCount >= dwMaxTicks /\ ~ spared
               /\ info' = freed /\ lpFreeHostList' = list
               /\ Move(c, "gone")
               /\ UNCHANGED hostOf
          /\ lpHostArray' = array
       \/ /\ Find(array, AddressOf[c]) = {} /\ past = "no" /\ Unused # {}
          /\ LET i == CHOOSE j \in Unused : TRUE IN
             /\ info' = [freed EXCEPT ![i] = NewHost(AddressOf[c])]
             /\ lpHostArray' = array \cup {i}
             /\ hostOf' = [hostOf EXCEPT ![c] = i]
          /\ lpFreeHostList' = list
          /\ Move(c, "identify")
    /\ UNCHANGED <<dwClassListId, resolve>>

(* UnregisterNetworkAddress(i, n). *)
UnregisterNetworkAddress(i, n) ==
    /\ info' = [info EXCEPT ![i].dwShareCount = @ - n]
    /\ lpFreeHostList' = IF info[i].dwShareCount = n THEN Append(lpFreeHostList, i) ELSE lpFreeHostList
    /\ UNCHANGED lpHostArray

-----------------------------------------------------------------------------
(* IdentifyClient: the connection joins those that wait for the name of    *)
(* its host, or asks for it, or goes on, or is dropped.                    *)
QueueHostResolve(i) ==
    /\ lpResolveList' = Append(lpResolveList, i)
    /\ \/ /\ dwResolveThreads < dwMaxResolverThreads
          /\ dwResolveThreads' = dwResolveThreads + 1
          /\ \E r \in Resolvers : /\ resolver[r].at = "off"
                                  /\ resolver' = [resolver EXCEPT ![r].at = "pop"]
       \/ /\ dwResolveThreads >= dwMaxResolverThreads
          /\ UNCHANGED <<dwResolveThreads, resolver>>

Wait(c, i) == info' = [info EXCEPT ![i].lpNext = @ \cup {c}]

JoinQueue(c) ==
    LET i == hostOf[c] IN
    /\ conn[c] = "identify" /\ bReverseResolveIPs
    /\ info[i].lpNext # {}
    /\ Wait(c, i) /\ Move(c, "waiting")
    /\ UNCHANGED <<lpHostArray, lpFreeHostList, dwClassListId, resolve, hostOf>>

\* A name in the cache may have become too old to use.
AskForName(c) ==
    LET i == hostOf[c] IN
    /\ conn[c] = "identify" /\ bReverseResolveIPs
    /\ info[i].lpNext = {}
    /\ Wait(c, i) /\ Move(c, "waiting")
    /\ QueueHostResolve(i)
    /\ UNCHANGED <<lpHostArray, lpFreeHostList, dwClassListId, hostOf>>

UseCachedName(c) ==
    LET i == hostOf[c] IN
    /\ conn[c] = "identify"
    /\ bReverseResolveIPs => info[i].lpNext = {} /\ info[i].cached
    /\ LET h == CheckedClass(info[i]) IN
       IF h.lConnectionsPerHost # 0 \/ ~ bReverseResolveIPs
       THEN /\ info' = [info EXCEPT ![i] = h]
            /\ Move(c, "process")
            /\ UNCHANGED <<lpFreeHostList, hostOf>>
       ELSE /\ info' = [info EXCEPT ![i] = [h EXCEPT !.dwShareCount = @ - 1]]
            /\ lpFreeHostList' = IF h.dwShareCount = 1 THEN Append(lpFreeHostList, i) ELSE lpFreeHostList
            /\ Move(c, "gone")
            /\ hostOf' = [hostOf EXCEPT ![c] = NoInfo]
    /\ UNCHANGED <<lpHostArray, dwClassListId, resolve>>

(* ResolveThread: the next host to look up, or the end of the thread.      *)
PopResolve(r) ==
    /\ resolver[r].at = "pop"
    /\ IF lpResolveList # <<>>
       THEN /\ lpResolveList' = Tail(lpResolveList)
            /\ resolver' = [resolver EXCEPT ![r] = [@ EXCEPT !.at = "resolve", !.host = Head(lpResolveList)]]
            /\ UNCHANGED dwResolveThreads
       ELSE /\ dwResolveThreads' = dwResolveThreads - 1
            /\ resolver' = [resolver EXCEPT ![r] = Quiet]
            /\ UNCHANGED lpResolveList
    /\ UNCHANGED <<hosts, dwClassListId, conn, hostOf>>

\* Mutant: the queue of the host is not emptied.
TakeKeepsQueue(r) ==
    LET i == resolver[r].host IN
    /\ resolver[r].at = "resolve"
    /\ info' = [info EXCEPT ![i] = [GetHostClass(@) EXCEPT !.cached = TRUE]]
    /\ resolver' = [resolver EXCEPT ![r] = [@ EXCEPT !.at = "release", !.list = info[i].lpNext]]
    /\ UNCHANGED <<lpHostArray, lpFreeHostList, dwClassListId, lpResolveList, dwResolveThreads, conn, hostOf>>
TakePending(r) ==
    LET i == resolver[r].host IN
    /\ resolver[r].at = "resolve"
    /\ info' = [info EXCEPT ![i] = [GetHostClass(@) EXCEPT !.cached = TRUE, !.lpNext = {}]]
    /\ resolver' = [resolver EXCEPT ![r] = [@ EXCEPT !.at = "release", !.list = info[i].lpNext]]
    /\ UNCHANGED <<lpHostArray, lpFreeHostList, dwClassListId, lpResolveList, dwResolveThreads, conn, hostOf>>

\* The pending connections go on or are dropped, by what the record says.
Release(r) ==
    LET i == resolver[r].host
        list == resolver[r].list
        drop == info[i].lConnectionsPerHost = 0 IN
    /\ resolver[r].at = "release"
    /\ conn' = [c \in Clients |-> IF c \notin list THEN conn[c] ELSE IF drop THEN "gone" ELSE "process"]
    /\ hostOf' = [c \in Clients |-> IF c \in list /\ drop THEN NoInfo ELSE hostOf[c]]
    /\ resolver' = [resolver EXCEPT ![r] = [@ EXCEPT !.at = "released", !.list = {},
                                                     !.dwCount = IF drop THEN Cardinality(list) ELSE 0]]
    /\ UNCHANGED <<hosts, dwClassListId, lpResolveList, dwResolveThreads>>

ReleaseEnd(r) ==
    LET i == resolver[r].host IN
    /\ resolver[r].at = "released"
    /\ IF resolver[r].dwCount > 0 THEN UnregisterNetworkAddress(i, resolver[r].dwCount) ELSE UNCHANGED hosts
    /\ resolver' = [resolver EXCEPT ![r] = [Quiet EXCEPT !.at = "pop"]]
    /\ UNCHANGED <<dwClassListId, lpResolveList, dwResolveThreads, conn, hostOf>>

HostStep ==
    \/ ReadConnectionClasses
    \/ \E c \in Clients : RegisterNetworkAddress(c) \/ JoinQueue(c) \/ AskForName(c) \/ UseCachedName(c)
    \/ \E r \in Resolvers : PopResolve(r) \/ TakePending(r) \/ Release(r) \/ ReleaseEnd(r)
=============================================================================
