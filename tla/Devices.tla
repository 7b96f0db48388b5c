------------------------------- MODULE Devices -------------------------------
(***************************************************************************)
(* The network devices of the services (Services.c) and the list that the  *)
(* socket scheduler keeps of them (Socket.c).                              *)
(*                                                                         *)
(* A device is shared by the services that listen on it or open their data *)
(* connections on it, by every socket that is bound to it, and by SITE     *)
(* DEVICE LIST while it prints it; whoever gives up the last share frees   *)
(* it.  Three locks are taken: loServiceList, a service's loLock, and      *)
(* loDeviceList.                                                           *)
(*                                                                         *)
(* A thread is a list of the calls it has still to make; a call that       *)
(* depends on what it finds puts those that follow in front of the others. *)
(***************************************************************************)
EXTENDS Integers, Sequences, FiniteSets

CONSTANTS Starters, Sockets, Printers, Disablers,  \* the threads, by what they do
          Names,        \* of devices
          Structs,      \* 1, 2, ...: memory for devices
          Plans,        \* what is read from the configuration: [listen, data]
          Turns,        \* bounds on the commands: how many each thread has
          OutPorts,     \* whether the devices may have Out_Ports, or none
          MAX_RETRIES   \* bound on the attempts to bind that fail in the system

ASSUME DevicesAssumption ==
    /\ Structs \subseteq Nat \ {0}
    /\ \A p \in Plans : p.listen \in Names /\ \A i \in DOMAIN p.data : p.data[i] \in Names
    /\ Turns \subseteq [Starters \cup Sockets \cup Printers \cup Disablers -> Nat] /\ OutPorts \subseteq BOOLEAN /\ MAX_RETRIES \in Nat

Threads == Starters \cup Sockets \cup Printers \cup Disablers
Locks   == {"loServiceList", "loLock", "loDeviceList"}
NoDevice == 0

VARIABLES
    device,    \* each structure: [name, live, count, bActive, bDisabled]
    lpDeviceList,  \* the listed structures, the newest first
    lpPrevSDevice, lpNextSDevice, lpSchedulerDeviceList,
    lpService, \* [lpDevice, lpDataDevices, old]: old are the data devices before a start
    lock,      \* each lock: [readers, writer]
    todo,      \* the calls of each thread
    found,     \* lpDevice in each thread
    sock,      \* lpSocket->lpDevice of each socket
    left,      \* commands each thread has still to give
    ports,     \* whether the devices have Out_Ports
    retries,   \* attempts to bind that have failed
    ended,     \* structures whose last share has been given up
    revived    \* those shared again after that

devvars == <<device, lpDeviceList, lpPrevSDevice, lpNextSDevice, lpSchedulerDeviceList, lpService,
             lock, todo, found, sock, left, ports, retries, ended, revived>>
scheduled == <<lpPrevSDevice, lpNextSDevice, lpSchedulerDeviceList>>
given   == <<left, retries, ended, revived>>

NoStruct == [name |-> "none", live |-> FALSE, count |-> 0, bActive |-> FALSE, bDisabled |-> FALSE]

DevInit ==
    /\ device = [d \in Structs |-> NoStruct] /\ lpDeviceList = <<>>
    /\ lpPrevSDevice = [d \in Structs |-> NoDevice] /\ lpNextSDevice = [d \in Structs |-> NoDevice]
    /\ lpSchedulerDeviceList = NoDevice
    /\ lpService = [lpDevice |-> NoDevice, lpDataDevices |-> <<>>, old |-> <<>>]
    /\ lock = [l \in Locks |-> [readers |-> {}, writer |-> "none"]]
    /\ todo = [t \in Threads |-> <<>>] /\ found = [t \in Threads |-> NoDevice]
    /\ sock = [t \in Sockets |-> NoDevice]
    /\ left \in Turns /\ ports \in OutPorts /\ retries = 0 /\ ended = {} /\ revived = {}

-----------------------------------------------------------------------------
(* The calls.                                                              *)
Call(f, x) == [f |-> f, x |-> x]
Rest(t)    == Tail(todo[t])
Doing(t, f) == todo[t] # <<>> /\ Head(todo[t]).f = f
Arg(t)     == Head(todo[t]).x
Continue(t, calls) == todo' = [todo EXCEPT ![t] = calls \o Tail(@)]

(* LOCKOBJECT, as AbstractRWLock promises it; a writer that has claimed    *)
(* the lock keeps new readers out.                                         *)
AcquireShared(t) ==
    /\ Doing(t, "AcquireShared") /\ lock[Arg(t)].writer = "none"
    /\ lock' = [lock EXCEPT ![Arg(t)].readers = @ \cup {t}]
    /\ Continue(t, <<>>)
    /\ UNCHANGED <<device, lpDeviceList, scheduled, lpService, found, sock, given>>

AcquireExclusive(t) ==
    /\ \/ /\ Doing(t, "AcquireExclusive") /\ lock[Arg(t)].writer = "none"
          /\ lock' = [lock EXCEPT ![Arg(t)].writer = t]
          /\ Continue(t, <<Call("AwaitReaders", Arg(t))>>)
       \/ /\ Doing(t, "AwaitReaders") /\ lock[Arg(t)].readers = {}
          /\ Continue(t, <<>>) /\ UNCHANGED lock
    /\ UNCHANGED <<device, lpDeviceList, scheduled, lpService, found, sock, given>>

ReleaseLock(t) ==
    /\ Doing(t, "Release")
    /\ lock' = [lock EXCEPT ![Arg(t)] = IF @.writer = t THEN [@ EXCEPT !.writer = "none"]
                                        ELSE [@ EXCEPT !.readers = @ \ {t}]]
    /\ Continue(t, <<>>)
    /\ UNCHANGED <<device, lpDeviceList, scheduled, lpService, found, sock, given>>

Shared(l, calls)    == <<Call("AcquireShared", l)>> \o calls \o <<Call("Release", l)>>
Exclusive(l, calls) == <<Call("AcquireExclusive", l)>> \o calls \o <<Call("Release", l)>>

Device_Share(t) ==
    LET d == Arg(t) IN
    /\ Doing(t, "Share")
    /\ device' = [device EXCEPT ![d].count = @ + 1]
    /\ Continue(t, IF device[d].count = 0 THEN <<Call("Register", d)>> ELSE <<>>)
    /\ revived' = IF device[d].count = 0 THEN revived \cup ({d} \cap ended) ELSE revived
    /\ UNCHANGED <<lpDeviceList, scheduled, lpService, lock, found, sock, left, retries, ended>>

End(d) == <<Call("Unregister", d)>> \o Exclusive("loDeviceList", <<Call("Unlink", d)>>) \o <<Call("Free", d)>>

Device_Unshare(t) ==
    LET d == Arg(t)
        last == device[d].count = 1 IN
    /\ Doing(t, "Unshare")
    /\ device' = [device EXCEPT ![d].count = @ - 1]
    /\ Continue(t, IF last THEN End(d) ELSE <<>>)
    /\ ended' = IF last THEN ended \cup {d} ELSE ended
    /\ UNCHANGED <<lpDeviceList, scheduled, lpService, lock, found, sock, left, retries, revived>>

(* The list of the scheduler: the device that was first is linked back to  *)
(* itself, not to the new one.                                             *)
RegisterSchedulerDevice(t) ==
    LET d == Arg(t)
        first == lpSchedulerDeviceList IN
    /\ Doing(t, "Register")
    /\ lpPrevSDevice' = [e \in Structs |-> IF e = d THEN NoDevice ELSE IF e = first THEN e ELSE lpPrevSDevice[e]]
    /\ lpNextSDevice' = [lpNextSDevice EXCEPT ![d] = first]
    /\ lpSchedulerDeviceList' = d
    /\ Continue(t, <<>>)
    /\ UNCHANGED <<device, lpDeviceList, lpService, lock, found, sock, given>>

UnregisterSchedulerDevice(t) ==
    LET d == Arg(t)
        next == lpNextSDevice[d]
        prev == lpPrevSDevice[d] IN
    /\ Doing(t, "Unregister")
    /\ lpPrevSDevice' = IF next # NoDevice THEN [lpPrevSDevice EXCEPT ![next] = prev] ELSE lpPrevSDevice
    /\ IF prev # NoDevice
       THEN lpNextSDevice' = [lpNextSDevice EXCEPT ![prev] = next] /\ UNCHANGED lpSchedulerDeviceList
       ELSE lpSchedulerDeviceList' = next /\ UNCHANGED lpNextSDevice
    /\ Continue(t, <<>>)
    /\ UNCHANGED <<device, lpDeviceList, lpService, lock, found, sock, given>>

Unlink(t) ==
    /\ Doing(t, "Unlink")
    /\ lpDeviceList' = SelectSeq(lpDeviceList, LAMBDA d : d # Arg(t))
    /\ Continue(t, <<>>)
    /\ UNCHANGED <<device, scheduled, lpService, lock, found, sock, given>>

FreeDevice(t) ==
    /\ Doing(t, "Free")
    /\ device' = [device EXCEPT ![Arg(t)].live = FALSE]
    /\ Continue(t, <<>>)
    /\ UNCHANGED <<lpDeviceList, scheduled, lpService, lock, found, sock, given>>

-----------------------------------------------------------------------------
(* Device_Load: find the device by its name, or make one, and read its     *)
(* section of the configuration, which may be wrong.                       *)
Device_Load(name) == Shared("loDeviceList", <<Call("Find", name)>>) \o <<Call("Update", name)>>

\* Mutant: what is found in the list is not shared.
KeepNothing(d) == <<>>
Keep(d) == <<Call("Share", d)>>

Named(name) == {i \in DOMAIN lpDeviceList : device[lpDeviceList[i]].name = name}
FindDevice(t) ==
    /\ Doing(t, "Find")
    /\ LET at == Named(Arg(t)) IN
       IF at = {}
       THEN found' = [found EXCEPT ![t] = NoDevice] /\ Continue(t, <<>>)
       ELSE LET d == lpDeviceList[CHOOSE i \in at : \A j \in at : i <= j] IN
            found' = [found EXCEPT ![t] = d] /\ Continue(t, Keep(d))
    /\ UNCHANGED <<device, lpDeviceList, scheduled, lpService, lock, sock, given>>

(* An existing device whose section is wrong is not returned: its share    *)
(* stays.                                                                  *)
Update(t) ==
    LET d == found[t]
        unused == {e \in Structs : device[e] = NoStruct}
        new == CHOOSE e \in unused : \A f \in unused : e <= f IN
    /\ Doing(t, "Update")
    /\ \/ /\ d # NoDevice                          \* it has been read not long ago
          /\ Continue(t, <<>>) /\ UNCHANGED <<found, device>>
       \/ /\ d # NoDevice
          /\ Continue(t, Exclusive("loDeviceList", <<Call("Refresh", d)>>)) /\ UNCHANGED <<found, device>>
       \/ /\ found' = [found EXCEPT ![t] = NoDevice]  \* HOST, BIND or PORT error
          /\ Continue(t, <<>>) /\ UNCHANGED device
       \/ /\ d = NoDevice /\ unused # {}
          /\ device' = [device EXCEPT ![new] = [NoStruct EXCEPT !.name = Arg(t), !.live = TRUE]]
          /\ found' = [found EXCEPT ![t] = new]
          /\ Continue(t, Exclusive("loDeviceList", <<Call("Insert", new)>>) \o <<Call("Share", new)>>)
    /\ UNCHANGED <<lpDeviceList, scheduled, lpService, lock, sock, given>>

Refresh(t) ==
    /\ Doing(t, "Refresh") \/ Doing(t, "Insert")
    /\ device' = [device EXCEPT ![Arg(t)].bActive = @ \/ ~device[Arg(t)].bDisabled]
    /\ lpDeviceList' = IF Doing(t, "Insert") THEN <<Arg(t)>> \o lpDeviceList ELSE lpDeviceList
    /\ Continue(t, <<>>)
    /\ UNCHANGED <<scheduled, lpService, lock, found, sock, given>>

(* Service_Start.                                                          *)
Loads(names) == LET f[i \in 0..Len(names)] ==
                      IF i = 0 THEN <<>> ELSE f[i - 1] \o Device_Load(names[i]) \o <<Call("Collect", 0)>>
                IN f[Len(names)]

Unshares(ds) == [i \in DOMAIN ds |-> Call("Unshare", ds[i])]

Service_Start(t) ==
    /\ todo[t] = <<>> /\ left[t] > 0
    /\ \E p \in Plans :
         todo' = [todo EXCEPT ![t] =
             Exclusive("loServiceList",
                 Device_Load(p.listen)
                 \o Exclusive("loLock", <<Call("Swap", 0)>> \o Loads(p.data))
                 \o <<Call("FreeOld", 0)>>)]
    /\ left' = [left EXCEPT ![t] = @ - 1]
    /\ UNCHANGED <<device, lpDeviceList, scheduled, lpService, lock, found, sock, retries, ended, revived>>

(* An inactive device is not listened on.  The new device has been shared  *)
(* by Device_Load and is shared again; the old one gives up one share.     *)
Swap(t) ==
    LET d   == IF found[t] # NoDevice /\ device[found[t]].bActive THEN found[t] ELSE NoDevice
        old == lpService.lpDevice IN
    /\ Doing(t, "Swap")
    /\ lpService' = [lpDevice |-> d, lpDataDevices |-> <<>>, old |-> lpService.lpDataDevices]
    /\ Continue(t, (IF d # NoDevice THEN <<Call("Share", d)>> ELSE <<>>)
                   \o (IF old # NoDevice THEN <<Call("Unshare", old)>> ELSE <<>>))
    /\ UNCHANGED <<device, lpDeviceList, scheduled, lock, found, sock, given>>

Collect(t) ==
    /\ Doing(t, "Collect")
    /\ lpService' = [lpService EXCEPT !.lpDataDevices = IF found[t] = NoDevice THEN @ ELSE Append(@, found[t])]
    /\ Continue(t, <<>>)
    /\ UNCHANGED <<device, lpDeviceList, scheduled, lock, found, sock, given>>

FreeOld(t) ==
    /\ Doing(t, "FreeOld")
    /\ lpService' = [lpService EXCEPT !.old = <<>>]
    /\ Continue(t, Unshares(lpService.old))
    /\ UNCHANGED <<device, lpDeviceList, scheduled, lock, found, sock, given>>

-----------------------------------------------------------------------------
(* BindSocketToDevice, as FTP_Data_Active (PORT) calls it: up to five      *)
(* times, from the second on with BIND_TRY_AGAIN.                          *)
\* Mutant: the locks are taken the other way round.
BindListFirst(again) ==
    <<Call("AcquireShared", "loDeviceList"), Call("AcquireShared", "loLock"), Call("Pick", again)>>
Bind(again) == <<Call("AcquireShared", "loLock"), Call("AcquireShared", "loDeviceList"), Call("Pick", again)>>

Open(t) ==
    /\ todo[t] = <<>> /\ sock[t] = NoDevice /\ left[t] > 0
    /\ todo' = [todo EXCEPT ![t] = Bind(FALSE)]
    /\ left' = [left EXCEPT ![t] = @ - 1]
    /\ UNCHANGED <<device, lpDeviceList, scheduled, lpService, lock, found, sock, retries, ended, revived>>

Released == <<Call("Release", "loDeviceList"), Call("Release", "loLock")>>

(* One of the active data devices, in turn or at random.  Without ports to *)
(* try again with, the call returns as it stands, with both locks.         *)
PickDevice(t) ==
    LET data == lpService.lpDataDevices
        picks == IF data = <<>> THEN {lpService.lpDevice} ELSE {data[i] : i \in DOMAIN data}
        active == {d \in picks \ {NoDevice} : device[d].bActive} IN
    /\ Doing(t, "Pick")
    /\ IF active = {} THEN Continue(t, Released)
       ELSE IF Arg(t) /\ ~ports THEN Continue(t, <<>>)
       ELSE \E d \in active : Continue(t, <<Call("Share", d), Call("Bound", d)>> \o Released \o <<Call("Try", 0)>>)
    /\ UNCHANGED <<device, lpDeviceList, scheduled, lpService, lock, found, sock, given>>

Bound(t) ==
    /\ Doing(t, "Bound")
    /\ sock' = [sock EXCEPT ![t] = Arg(t)]
    /\ Continue(t, <<>>)
    /\ UNCHANGED <<device, lpDeviceList, scheduled, lpService, lock, found, given>>

(* bind() and WSAConnect(): the port may be in use.  Where the connection  *)
(* fails for that, the device of the first attempt keeps its share.        *)
TryPort(t) ==
    /\ Doing(t, "Try")
    /\ \/ Continue(t, <<>>) /\ UNCHANGED retries
       \/ /\ retries < MAX_RETRIES /\ retries' = retries + 1
          /\ \/ Continue(t, <<Call("Unbind", 0)>> \o Bind(TRUE))
             \/ Continue(t, Bind(TRUE))
    /\ UNCHANGED <<device, lpDeviceList, scheduled, lpService, lock, found, sock, left, ended, revived>>

CloseData(t) ==
    /\ todo[t] = <<>> /\ sock[t] # NoDevice
    /\ todo' = [todo EXCEPT ![t] = <<Call("Unbind", 0)>>]
    /\ UNCHANGED <<device, lpDeviceList, scheduled, lpService, lock, found, sock, given>>

UnbindSocket(t) ==
    /\ Doing(t, "Unbind")
    /\ Continue(t, IF sock[t] = NoDevice THEN <<>> ELSE <<Call("Unshare", sock[t])>>)
    /\ sock' = [sock EXCEPT ![t] = NoDevice]
    /\ UNCHANGED <<device, lpDeviceList, scheduled, lpService, lock, found, given>>

-----------------------------------------------------------------------------
(* Admin_Devices.  LIST shares all devices and prints them one by one,     *)
(* without the lock.                                                       *)
PrintAll(ds) == LET f[i \in 0..Len(ds)] ==
                   IF i = 0 THEN <<>>
                   ELSE f[i - 1] \o <<Call("Release", "loDeviceList"), Call("Unshare", ds[i]),
                                      Call("AcquireShared", "loDeviceList")>>
             IN [i \in DOMAIN ds |-> Call("Share", ds[i])] \o f[Len(ds)]

ListDevices(t) ==
    \/ /\ todo[t] = <<>> /\ left[t] > 0
       /\ todo' = [todo EXCEPT ![t] = Shared("loDeviceList", <<Call("Copy", 0)>>)]
       /\ left' = [left EXCEPT ![t] = @ - 1]
       /\ UNCHANGED <<device, lpDeviceList, scheduled, lpService, lock, found, sock, retries, ended, revived>>
    \/ /\ Doing(t, "Copy")
       /\ Continue(t, PrintAll(lpDeviceList))
       /\ UNCHANGED <<device, lpDeviceList, scheduled, lpService, lock, found, sock, given>>

(* ENABLE and DISABLE.  A device is not disabled if it is what the service *)
(* listens on and has no data devices; where it has some, the code looks   *)
(* whether the listening device is one of them, not the one to disable.    *)
Disable(t) ==
    /\ todo[t] = <<>> /\ left[t] > 0
    /\ \E name \in Names, off \in BOOLEAN :
         todo' = [todo EXCEPT ![t] = Shared("loDeviceList", <<Call(IF off THEN "Disable" ELSE "Enable", name)>>)]
    /\ left' = [left EXCEPT ![t] = @ - 1]
    /\ UNCHANGED <<device, lpDeviceList, scheduled, lpService, lock, found, sock, retries, ended, revived>>

Choose(t) ==
    LET at == Named(Arg(t))
        d  == lpDeviceList[CHOOSE i \in at : \A j \in at : i <= j]
        off == Doing(t, "Disable") IN
    /\ off \/ Doing(t, "Enable")
    /\ IF at = {} \/ (at # {} /\ (device[d].bDisabled = off \/ (off /\ d = lpService.lpDevice)))
       THEN Continue(t, <<>>)
       ELSE Continue(t, IF off THEN Shared("loServiceList", <<Call("Check", d)>>) ELSE <<Call("Set", <<d, off>>)>>)
    /\ UNCHANGED <<device, lpDeviceList, scheduled, lpService, lock, found, sock, given>>

Check(t) ==
    LET data == lpService.lpDataDevices
        active == {i \in DOMAIN data : device[data[i]].bActive}
        listens == \E i \in DOMAIN data : data[i] = lpService.lpDevice
        refused == IF data = <<>> THEN lpService.lpDevice = Arg(t) ELSE listens /\ Cardinality(active) <= 1 IN
    /\ Doing(t, "Check")
    /\ todo' = [todo EXCEPT ![t] = IF refused THEN Tail(@)
                                   ELSE <<Head(Tail(@)), Call("Set", <<Arg(t), TRUE>>)>> \o Tail(Tail(@))]
    /\ UNCHANGED <<device, lpDeviceList, scheduled, lpService, lock, found, sock, given>>

SetState(t) ==
    /\ Doing(t, "Set")
    /\ device' = [device EXCEPT ![Arg(t)[1]] = [@ EXCEPT !.bDisabled = Arg(t)[2], !.bActive = ~Arg(t)[2]]]
    /\ Continue(t, <<>>)
    /\ UNCHANGED <<lpDeviceList, scheduled, lpService, lock, found, sock, given>>

Begins(t) ==
    \/ t \in Starters /\ Service_Start(t)
    \/ t \in Sockets /\ (Open(t) \/ CloseData(t))
    \/ t \in Printers /\ ListDevices(t)
    \/ t \in Disablers /\ Disable(t)
Locking(t) == AcquireShared(t) \/ AcquireExclusive(t) \/ ReleaseLock(t)
Sharing(t) == \/ Device_Share(t) \/ Device_Unshare(t)
              \/ RegisterSchedulerDevice(t) \/ UnregisterSchedulerDevice(t) \/ Unlink(t) \/ FreeDevice(t)
Loading(t) == FindDevice(t) \/ Update(t) \/ Refresh(t) \/ Swap(t) \/ Collect(t) \/ FreeOld(t)
Binding(t) == PickDevice(t) \/ Bound(t) \/ TryPort(t) \/ UnbindSocket(t)
Disabling(t) == Choose(t) \/ Check(t) \/ SetState(t)

DevNext ==
    /\ UNCHANGED ports
    /\ \E t \in Threads :
         Begins(t) \/ Locking(t) \/ Sharing(t) \/ Loading(t) \/ Binding(t) \/ Disabling(t)

-----------------------------------------------------------------------------
(* Who has a pointer to a device that must stay valid: the service, a      *)
(* socket that is bound, a thread that prints it (its shares taken, its    *)
(* call of Device_Unshare to come).                                        *)
Elements(q) == {q[i] : i \in DOMAIN q}
ToCome(t, f) == {todo[t][i].x : i \in {j \in DOMAIN todo[t] : todo[t][j].f = f}}
HeldBy(t) == (IF t \in Sockets THEN {sock[t]} ELSE {})
             \cup (IF t \in Printers THEN ToCome(t, "Unshare") \ ToCome(t, "Share") ELSE {})
Held == (UNION {HeldBy(t) : t \in Threads} \cup Elements(lpService.lpDataDevices)) \ {NoDevice}

(* A device somebody holds has not been freed, unless it was found in the  *)
(* list and shared again when its last share had been given up and it was  *)
(* on its way out of the list: then two threads free it, one of them under *)
(* the holder.                                                             *)
HeldIsLive == \A d \in Held : device[d].live \/ d \in revived

(* The scheduler's list has every registered device; a freed one stays in  *)
(* it only if it was linked to itself.                                     *)
RECURSIVE Reach(_, _)
Reach(d, seen) == IF d = NoDevice \/ d \in seen THEN seen ELSE Reach(lpNextSDevice[d], seen \cup {d})
Scheduled == Reach(lpSchedulerDeviceList, {})
SchedulerSound ==
    /\ \A d \in Scheduled : device[d].live \/ lpPrevSDevice[d] = d \/ revived # {}
    /\ \A d \in Structs : /\ device[d].live /\ device[d].count > 0 /\ revived = {}
                          /\ \A t \in Threads : d \notin ToCome(t, "Register")
                       => d \in Scheduled

(* An attempt to bind again without Out_Ports returns with two locks held. *)
BindReturns == ports \/ retries = 0

(* The threads take the three locks in one order, but for DISABLE, which   *)
(* takes loServiceList with loDeviceList held.                             *)
Blocks(s, t) ==
    /\ s # t
    /\ \/ (Doing(t, "AcquireShared") \/ Doing(t, "AcquireExclusive")) /\ lock[Arg(t)].writer = s
       \/ Doing(t, "AwaitReaders") /\ s \in lock[Arg(t)].readers
Deadlocked == {S \in SUBSET Threads \ {{}} : \A t \in S : \E s \in S : Blocks(s, t)}
OnlyDisableBlocks == BindReturns => \A S \in Deadlocked : S \cap Disablers # {}

(* A call that has returned holds no lock; but for an attempt to bind      *)
(* again without Out_Ports, which returns with two.                        *)
LocksReturned ==
    BindReturns =>
    \A t \in Threads : todo[t] = <<>> => \A l \in Locks : t \notin lock[l].readers /\ lock[l].writer # t

(* All of the above.                                                       *)
DevicesInv == HeldIsLive /\ SchedulerSound /\ OnlyDisableBlocks /\ LocksReturned

(* While a device is printed, the share that was taken for it keeps it     *)
(* ("this guarantees the pointer will still be valid", Services.c:2091).   *)
PrintedIsLive == \A t \in Printers : \A d \in HeldBy(t) \ {NoDevice} : device[d].live
=============================================================================
