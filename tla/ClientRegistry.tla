--------------------------- MODULE ClientRegistry ---------------------------
(***************************************************************************)
(* The table of connected clients (MessageHandler.c), from ProcessClient   *)
(* of Identify.c, which registers a connection, to FTP_Close_Connection of *)
(* FtpServer.c, which takes it out.                                        *)
(*                                                                         *)
(* A client has a slot.  Who wants to use a client locks its slot: the     *)
(* lock is a flag that is spun on, and the entry in the array is looked at *)
(* before and after.  The array, the free slots and the counters of logged *)
(* in clients change under csClientArray.  A log-in holds the lock of its  *)
(* own slot when it enters csClientArray, and where a user may only come   *)
(* so often from one host it locks every other slot in there.              *)
(*                                                                         *)
(* The actors are the connections (their jobs run one at a time) and       *)
(* threads that kill clients, or list them, by slot.  What a kill does to  *)
(* the jobs of a client is in ClientJobs.                                  *)
(***************************************************************************)
EXTENDS HostTable

CONSTANTS Slots,        \* 1, 2, ...: MAX_CLIENTS of them
          Killers,
          Users, UserOf,\* the user each connection logs in as, or NoOne
          MayFill,      \* users with flag M: no limit applies to them
          LimitPerIP,   \* per user; 0 is no limit
          Limits,       \* log-ins of each user
          lMaxClients,  \* of the service
          ClassLimit,   \* class -> lMaxClients
          MAX_KILLS,    \* bound on the slots killers lock
          MAX_LOGINS,   \* bound on the log-ins of one connection
          NoOne

Unlimited == -1

ASSUME RegistryAssumption ==
    /\ IsFiniteSet(Slots) /\ Slots = 1..Cardinality(Slots) /\ Slots # {}
    /\ Clients \cap Killers = {} /\ NoOne \notin Clients \cup Killers
    /\ NoOne \notin Users /\ UserOf \in [Clients -> Users \cup {NoOne}] /\ MayFill \subseteq Users
    /\ LimitPerIP \in [Users -> Nat] /\ Limits \in [Users -> Int] /\ lMaxClients \in Int
    /\ ClassLimit \in [Classes -> Int]
    /\ MAX_KILLS \in Nat /\ MAX_LOGINS \in Nat

Actors == Clients \cup Killers

VARIABLES
    lpClientArray,    \* slot -> client
    lDataLock,        \* slot -> whether it is locked
    lpClientSlotList, \* the free slots, the last freed first
    csClientArray,    \* who is inside
    slotOf,           \* the slot of each client
    classOf,          \* lpClass of the client: that of its host when registered
    uid,              \* Static.Uid: the user a client is logged in as
    counted,          \* the class its log-in was counted in
    lClients,         \* log-ins: of the service, of each class, of each user
    op,               \* what each actor does
    freed,            \* clients whose memory has been given back
    kills, logins

regvars == <<lpClientArray, lDataLock, lpClientSlotList, csClientArray, slotOf, classOf,
             uid, counted, lClients, op, freed, kills, logins>>
vars    == <<hostvars, regvars>>

table  == <<lpClientArray, lDataLock, lpClientSlotList, slotOf, classOf>>
logon  == <<uid, counted, lClients, logins>>

Idle == [at |-> "idle", slot |-> 0, then |-> "idle", got |-> NoOne, n |-> 0, iCount |-> 0, code |-> 0]

RegistryInit ==
    /\ lpClientArray = [n \in Slots |-> NoOne]
    /\ lDataLock = [n \in Slots |-> FALSE]
    /\ lpClientSlotList = [n \in 1..Cardinality(Slots) |-> n]
    /\ csClientArray = NoOne
    /\ slotOf = [c \in Clients |-> 0]
    /\ classOf = [c \in Clients |-> NoClass]
    /\ uid = [c \in Clients |-> NoOne]
    /\ counted = [c \in Clients |-> NoClass]
    /\ lClients = [service |-> 0, class |-> [k \in Classes |-> 0], user |-> [u \in Users |-> 0]]
    /\ op = [a \in Actors |-> Idle]
    /\ freed = {} /\ kills = 0 /\ logins = [c \in Clients |-> 0]

Init == HostInit /\ RegistryInit

At(a, place)   == op[a].at = place
Goto(a, place) == op' = [op EXCEPT ![a].at = place]
In(c, place)   == c \in Clients /\ conn[c] = place

-----------------------------------------------------------------------------
(* LockClient(n): look at the array, take the lock, look again.  `then` is *)
(* where its caller goes on; who counts clients goes on to the next slot   *)
(* if there is nobody in this one.                                         *)
Missed(a, then, count) ==
    op' = [op EXCEPT ![a] = IF then = "compare"
                            THEN [Idle EXCEPT !.at = "next", !.n = op[a].n + 1, !.iCount = count]
                            ELSE Idle]
LookAt(a, n, then, count) ==
    IF lpClientArray[n] # NoOne
    THEN op' = [op EXCEPT ![a] = [@ EXCEPT !.at = "exchange", !.slot = n, !.then = then, !.iCount = count]]
    ELSE Missed(a, then, count)

LockLook(a) ==
    /\ At(a, "look")
    /\ LookAt(a, op[a].slot, op[a].then, op[a].iCount)
    /\ UNCHANGED <<hostvars, table, csClientArray, logon, freed, kills>>

LockExchange(a) ==
    LET n == op[a].slot IN
    /\ At(a, "exchange")
    /\ Goto(a, IF lDataLock[n] THEN "look" ELSE "again")
    /\ lDataLock' = [lDataLock EXCEPT ![n] = TRUE]
    /\ UNCHANGED <<hostvars, lpClientArray, lpClientSlotList, slotOf, classOf, csClientArray, logon, freed, kills>>

LockAgain(a) ==
    LET n == op[a].slot IN
    /\ At(a, "again")
    /\ IF lpClientArray[n] # NoOne
       THEN /\ op' = [op EXCEPT ![a] = [@ EXCEPT !.at = op[a].then, !.got = lpClientArray[n]]]
            /\ UNCHANGED lDataLock
       ELSE /\ Missed(a, op[a].then, op[a].iCount)
            /\ lDataLock' = [lDataLock EXCEPT ![n] = FALSE]
    /\ UNCHANGED <<hostvars, lpClientArray, lpClientSlotList, slotOf, classOf, csClientArray, logon, freed, kills>>

UnlockClient(n) == lDataLock' = [lDataLock EXCEPT ![n] = FALSE]

(* KillUser and KickUser, and who lists the clients: lock a slot, use the  *)
(* client, unlock it.                                                      *)
Kill(k, n) ==
    /\ k \in Killers /\ At(k, "idle") /\ kills < MAX_KILLS
    /\ kills' = kills + 1
    /\ LookAt(k, n, "use", 0)
    /\ UNCHANGED <<hostvars, table, csClientArray, logon, freed>>

KillEnd(k) ==
    /\ At(k, "use")
    /\ UnlockClient(op[k].slot)
    /\ op' = [op EXCEPT ![k] = Idle]
    /\ UNCHANGED <<hostvars, lpClientArray, lpClientSlotList, slotOf, classOf, csClientArray, logon, freed, kills>>

-----------------------------------------------------------------------------
(* ProcessClient and RegisterClient.  The lock is set, whoever has it.     *)
RegisterClient(c) ==
    /\ In(c, "process") /\ At(c, "idle") /\ csClientArray = NoOne
    /\ lpClientSlotList # <<>>
    /\ LET n == Head(lpClientSlotList) IN
       /\ lpClientSlotList' = Tail(lpClientSlotList)
       /\ slotOf' = [slotOf EXCEPT ![c] = n]
       /\ classOf' = [classOf EXCEPT ![c] = info[hostOf[c]].lpClass]
       /\ lDataLock' = [lDataLock EXCEPT ![n] = TRUE]
    /\ csClientArray' = c
    /\ Goto(c, "publish")
    /\ UNCHANGED <<hostvars, lpClientArray, logon, freed, kills>>

Publish(c) ==
    /\ At(c, "publish")
    /\ lpClientArray' = [lpClientArray EXCEPT ![slotOf[c]] = c]
    /\ csClientArray' = NoOne
    /\ Goto(c, "registered")
    /\ UNCHANGED <<hostvars, lDataLock, lpClientSlotList, slotOf, classOf, logon, freed, kills>>

Registered(c) ==
    /\ At(c, "registered")
    /\ UnlockClient(slotOf[c])
    /\ Move(c, "online") /\ Goto(c, "idle")
    /\ UNCHANGED <<hosts, resolve, dwClassListId, hostOf, lpClientArray, lpClientSlotList, slotOf,
                   classOf, csClientArray, logon, freed, kills>>

\* No slot is free: the connection is closed.
NoSlot(c) ==
    /\ In(c, "process") /\ At(c, "idle") /\ csClientArray = NoOne
    /\ lpClientSlotList = <<>>
    /\ UnregisterNetworkAddress(hostOf[c], 1)
    /\ hostOf' = [hostOf EXCEPT ![c] = NoInfo]
    /\ Move(c, "gone")
    /\ UNCHANGED <<resolve, dwClassListId, regvars>>

-----------------------------------------------------------------------------
(* UpdateClientData(DATA_AUTHENTICATE): the limits, in the order of the    *)
(* code, for a user they apply to.                                         *)
Full(limit, count) == limit # Unlimited /\ count >= limit

Refusal(c) ==
    LET u == UserOf[c]
        h == info[hostOf[c]] IN
    IF u \in MayFill THEN 0
    ELSE IF Full(lMaxClients, lClients.service) THEN -1
    ELSE IF h.lpClass # NoClass /\ Full(ClassLimit[h.lpClass], lClients.class[h.lpClass]) THEN -2
    ELSE IF Full(h.lConnectionsPerHost, h.lClients) THEN -3
    ELSE IF Full(Limits[u], lClients.user[u]) THEN -4
    ELSE 0

Login(c) ==
    /\ In(c, "online") /\ At(c, "idle") /\ uid[c] = NoOne
    /\ UserOf[c] # NoOne /\ logins[c] < MAX_LOGINS
    /\ logins' = [logins EXCEPT ![c] = @ + 1]
    /\ LookAt(c, slotOf[c], "locked", 0)
    /\ UNCHANGED <<hostvars, table, csClientArray, uid, counted, lClients, freed, kills>>

\* Mutant: the limits are looked at outside csClientArray.
EnterLoginOutside(c) ==
    /\ At(c, "locked")
    /\ op' = [op EXCEPT ![c] = [Idle EXCEPT !.code = Refusal(c), !.at = "decide"]]
    /\ UNCHANGED <<hostvars, table, csClientArray, logon, freed, kills>>
EnterLogin(c) ==
    LET code == Refusal(c) IN
    /\ At(c, "locked") /\ csClientArray = NoOne
    /\ csClientArray' = c
    /\ op' = [op EXCEPT ![c] = [Idle EXCEPT !.code = code, !.n = 1,
                 !.at = IF code = 0 /\ UserOf[c] \notin MayFill /\ LimitPerIP[UserOf[c]] > 0
                        THEN "next" ELSE "decide"]]
    /\ UNCHANGED <<hostvars, table, logon, freed, kills>>

\* The other clients, one after the other.
NextClient(c) ==
    LET n == op[c].n IN
    /\ At(c, "next")
    /\ \/ /\ n \notin Slots
          /\ op' = [op EXCEPT ![c] = [Idle EXCEPT !.at = "decide",
                        !.code = IF op[c].iCount >= LimitPerIP[UserOf[c]] THEN -5 ELSE 0]]
       \/ n = slotOf[c] /\ op' = [op EXCEPT ![c].n = n + 1]
       \/ n \in Slots \ {slotOf[c]} /\ LookAt(c, n, "compare", op[c].iCount)
    /\ UNCHANGED <<hostvars, table, csClientArray, logon, freed, kills>>

Compare(c) ==
    LET other == op[c].got
        same  == uid[other] = UserOf[c] /\ hostOf[other] = hostOf[c] IN
    /\ At(c, "compare")
    /\ op' = [op EXCEPT ![c] = [Idle EXCEPT !.at = "next", !.n = op[c].n + 1,
                                            !.iCount = op[c].iCount + (IF same THEN 1 ELSE 0)]]
    /\ UnlockClient(op[c].slot)
    /\ UNCHANGED <<hostvars, lpClientArray, lpClientSlotList, slotOf, classOf, csClientArray, logon, freed, kills>>

\* The counters, by one more or one less.
CountLogin(k, u, d) ==
    lClients' = [lClients EXCEPT !.service = @ + d, !.user[u] = @ + d,
                                 !.class = [j \in Classes |-> @[j] + (IF j = k THEN d ELSE 0)]]

Accept(c) ==
    LET i == hostOf[c] IN
    /\ At(c, "decide") /\ op[c].code = 0
    /\ CountLogin(info[i].lpClass, UserOf[c], 1)
    /\ counted' = [counted EXCEPT ![c] = info[i].lpClass]
    /\ info' = [info EXCEPT ![i].lClients = @ + 1, ![i].dwAttemptCount = 1]
    /\ csClientArray' = NoOne
    /\ Goto(c, "accepted")
    /\ UNCHANGED <<lpHostArray, lpFreeHostList, dwClassListId, resolve, conn, hostOf, table, uid, logins, freed, kills>>

LoggedIn(c) ==
    /\ At(c, "accepted")
    /\ uid' = [uid EXCEPT ![c] = UserOf[c]]
    /\ UnlockClient(slotOf[c])
    /\ op' = [op EXCEPT ![c] = Idle]
    /\ UNCHANGED <<hostvars, lpClientArray, lpClientSlotList, slotOf, classOf, csClientArray,
                   counted, lClients, logins, freed, kills>>

Refuse(c) ==
    /\ At(c, "decide") /\ op[c].code # 0
    /\ csClientArray' = NoOne
    /\ UnlockClient(slotOf[c])
    /\ op' = [op EXCEPT ![c] = Idle]
    /\ UNCHANGED <<hostvars, lpClientArray, lpClientSlotList, slotOf, classOf, logon, freed, kills>>

(* DATA_DEAUTHENTICATE: the user file could not be locked after a log-in.  *)
Deauthenticate(c) ==
    /\ In(c, "online") /\ At(c, "idle") /\ uid[c] # NoOne
    /\ LookAt(c, slotOf[c], "undo", 0)
    /\ UNCHANGED <<hostvars, table, csClientArray, logon, freed, kills>>

Undo(c) ==
    LET i == hostOf[c] IN
    /\ At(c, "undo") /\ csClientArray = NoOne
    /\ CountLogin(info[i].lpClass, UserOf[c], -1)
    /\ info' = [info EXCEPT ![i].lClients = @ - 1]
    /\ uid' = [uid EXCEPT ![c] = NoOne]
    /\ counted' = [counted EXCEPT ![c] = NoClass]
    /\ UnlockClient(slotOf[c])
    /\ op' = [op EXCEPT ![c] = Idle]
    /\ UNCHANGED <<lpHostArray, lpFreeHostList, dwClassListId, resolve, conn, hostOf, lpClientArray,
                   lpClientSlotList, slotOf, classOf, csClientArray, logins, freed, kills>>
-----------------------------------------------------------------------------
(* FTP_Close_Connection, with UnregisterClient: inside csClientArray it    *)
(* waits for the lock, gives the slot back, takes the log-in out of the    *)
(* counters, of the class the client was registered with, and leaves the   *)
(* host.  Then the memory of the client goes.                              *)
CloseConnection(c) ==
    /\ In(c, "online") /\ At(c, "idle") /\ csClientArray = NoOne
    /\ csClientArray' = c
    /\ Goto(c, "leaving")
    /\ UNCHANGED <<hostvars, table, logon, freed, kills>>

\* Mutant: a log-in is not taken out of the counters.
UncountNothing(c) == UNCHANGED lClients
Uncount(c) ==
    lClients' = IF uid[c] = NoOne THEN lClients
                ELSE [lClients EXCEPT !.service = @ - 1,
                          !.class = [k \in Classes |-> @[k] - (IF k = classOf[c] THEN 1 ELSE 0)]]

LeaveHost(c) ==
    LET i == hostOf[c] IN
    /\ info' = [info EXCEPT ![i].dwShareCount = @ - 1,
                            ![i].lClients = @ - (IF uid[c] = NoOne THEN 0 ELSE 1)]
    /\ lpFreeHostList' = IF info[i].dwShareCount = 1 THEN Append(lpFreeHostList, i) ELSE lpFreeHostList
    /\ hostOf' = [hostOf EXCEPT ![c] = NoInfo]

\* Mutant: the entry in the array is left for the next client to overwrite.
UnregisterKeepsEntry(c) ==
    LET n == slotOf[c] IN
    /\ At(c, "leaving") /\ ~ lDataLock[n]
    /\ lpClientSlotList' = <<n>> \o lpClientSlotList
    /\ Uncount(c) /\ LeaveHost(c)
    /\ csClientArray' = NoOne
    /\ Goto(c, "closing")
    /\ UNCHANGED <<lpHostArray, dwClassListId, resolve, conn, lpClientArray, lDataLock, slotOf, classOf,
                   uid, counted, logins, freed, kills>>
UnregisterClient(c) ==
    LET n == slotOf[c] IN
    /\ At(c, "leaving") /\ ~ lDataLock[n]
    /\ lpClientSlotList' = <<n>> \o lpClientSlotList
    /\ Uncount(c) /\ LeaveHost(c)
    /\ lpClientArray' = [lpClientArray EXCEPT ![n] = NoOne]
    /\ csClientArray' = NoOne
    /\ Goto(c, "closing")
    /\ UNCHANGED <<lpHostArray, dwClassListId, resolve, conn, lDataLock, slotOf, classOf,
                   uid, counted, logins, freed, kills>>

FreeClient(c) ==
    /\ At(c, "closing")
    /\ lClients' = IF uid[c] = NoOne THEN lClients ELSE [lClients EXCEPT !.user[UserOf[c]] = @ - 1]
    /\ uid' = [uid EXCEPT ![c] = NoOne]
    /\ freed' = freed \cup {c}
    /\ slotOf' = [slotOf EXCEPT ![c] = 0] /\ classOf' = [classOf EXCEPT ![c] = NoClass]
    /\ counted' = [counted EXCEPT ![c] = NoClass]
    /\ Move(c, "gone") /\ op' = [op EXCEPT ![c] = Idle]
    /\ UNCHANGED <<hosts, resolve, dwClassListId, hostOf, lpClientArray, lDataLock, lpClientSlotList,
                   csClientArray, logins, kills>>

-----------------------------------------------------------------------------
ClientStep(c) ==
    \/ RegisterClient(c) \/ Publish(c) \/ Registered(c) \/ NoSlot(c)
    \/ Login(c) \/ EnterLogin(c) \/ NextClient(c) \/ Compare(c)
    \/ Accept(c) \/ LoggedIn(c) \/ Refuse(c) \/ Deauthenticate(c) \/ Undo(c)
    \/ CloseConnection(c) \/ UnregisterClient(c) \/ FreeClient(c)

Next ==
    \/ HostStep /\ UNCHANGED regvars
    \/ \E c \in Clients : ClientStep(c)
    \/ \E k \in Killers : KillEnd(k) \/ \E n \in Slots : Kill(k, n)
    \/ \E a \in Actors : LockLook(a) \/ LockExchange(a) \/ LockAgain(a)

Spec == Init /\ [][Next]_vars

-----------------------------------------------------------------------------
(* Connections that hold a share of record i: those that have it, and what *)
(* a resolver has dropped and not yet taken off the count.                 *)
ConnectedFrom(i) == {c \in Clients : hostOf[c] = i}
Dropped(i) == {d \in Resolvers \X (1..Cardinality(Clients)) :
                  resolver[d[1]].host = i /\ d[2] <= resolver[d[1]].dwCount}
Holders(i) == Cardinality(ConnectedFrom(i)) + Cardinality(Dropped(i))

(* A connection that waits for the name of its host is never forgotten:    *)
(* its record is to be looked up, or a resolver thread has taken it, and   *)
(* while there are records to look up there is a thread.                   *)
WaitersHaveResolver ==
    /\ \A c \in Clients : conn[c] = "waiting" =>
          \/ /\ c \in info[hostOf[c]].lpNext
             /\ \/ hostOf[c] \in ToSet(lpResolveList)
                \/ \E r \in Resolvers : resolver[r].at = "resolve" /\ resolver[r].host = hostOf[c]
          \/ \E r \in Resolvers : c \in resolver[r].list
    /\ dwResolveThreads = Cardinality({r \in Resolvers : resolver[r].at # "off"})
    /\ lpResolveList # <<>> => dwResolveThreads > 0

(* A record of a host is counted by exactly those who use it, is on the    *)
(* list of those to free only when nobody does, and its link then serves   *)
(* only that list ("re-use should be OK since sharecount > 1 and thus not  *)
(* on free list", Identify.h:119).                                         *)
HostsShared ==
    /\ WaitersHaveResolver
    /\ lpHostArray = {i \in Infos : info[i].live}
    /\ ToSet(lpFreeHostList) = {i \in lpHostArray : info[i].dwShareCount = 0}
    /\ IsInjective(lpFreeHostList)
    /\ \A i \in lpHostArray : info[i].dwShareCount = Holders(i)
    /\ \A c \in Clients : hostOf[c] # NoInfo => info[hostOf[c]].live
    /\ \A i \in Infos : info[i].lpNext # {} => info[i].dwShareCount > 0 /\ i \notin ToSet(lpFreeHostList)
    /\ \A i, j \in lpHostArray : info[i].address = info[j].address => i = j

Present(c) == (conn[c] = "online" /\ ~ At(c, "closing")) \/ At(c, "registered")

(* A slot has one client, and no client while it is free: whenever nobody  *)
(* is inside csClientArray, the array holds the clients that are           *)
(* registered and not yet unregistered, each in a slot of its own.         *)
SlotsAgree ==
    csClientArray = NoOne =>
        /\ \A c \in Clients : Present(c) <=> \E n \in Slots : lpClientArray[n] = c
        /\ \A n \in Slots : lpClientArray[n] # NoOne => slotOf[lpClientArray[n]] = n
        /\ ToSet(lpClientSlotList) = {n \in Slots : lpClientArray[n] = NoOne}
        /\ IsInjective(lpClientSlotList)

(* The counters of the service, the host and the user are the clients that *)
(* are logged in.                                                          *)
Online(c)  == (uid[c] # NoOne /\ ~ At(c, "closing")) \/ At(c, "accepted")
OfUser(c, u) == UserOf[c] = u /\ (uid[c] = u \/ At(c, "accepted"))
LoginsCounted ==
    /\ lClients.service = Cardinality({c \in Clients : Online(c)})
    /\ \A i \in lpHostArray : info[i].lClients = Cardinality({c \in Clients : Online(c) /\ hostOf[c] = i})
    /\ \A u \in Users : lClients.user[u] = Cardinality({c \in Clients : OfUser(c, u)})

(* What the server keeps about who is online agrees in all its tables.     *)
OnlineAgrees == SlotsAgree /\ LoginsCounted

(* No more users whom limits apply to are logged in than the service and   *)
(* their accounts allow, whoever logs in at the same time.                 *)
LimitsKept ==
    /\ lMaxClients >= 0 =>
           Cardinality({c \in Clients : Online(c) /\ UserOf[c] \notin MayFill}) <= lMaxClients
    /\ \A u \in Users \ MayFill : Limits[u] >= 0 =>
           Cardinality({c \in Clients : OfUser(c, u)}) <= Limits[u]

(* The records of hosts, the slots, the counters and the limits.           *)
RegistryInv == HostsShared /\ OnlineAgrees /\ LimitsKept
=============================================================================
