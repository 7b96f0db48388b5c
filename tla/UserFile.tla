------------------------------ MODULE UserFile ------------------------------
(***************************************************************************)
(* The users of the server (UserNew.c) and the files they are kept in      *)
(* (UserFileModule.c).                                                     *)
(*                                                                         *)
(* Every registered user has a parent: the current contents, a count of    *)
(* those who have it open, the lock of whoever changes it (hPrimaryLock),  *)
(* error flags and the timer that writes again what could not be written.  *)
(* Whoever opens a user works on a share of its contents; to change it he  *)
(* takes the primary lock, copies the current contents, publishes the      *)
(* changed copy and writes the file.                                       *)
(*                                                                         *)
(* The threads are administrators and sessions that create, delete, rename *)
(* and edit users at once; each step is what is done between two locks.    *)
(* The server may be killed at any of them, faults at some, and is started *)
(* again from the files.  The contents of a file are the edits that went   *)
(* into it: every edit is of a field of its own.                           *)
(*                                                                         *)
(* A user is named by his file context too, which the code closes where it *)
(* may still be used or has been closed before: what is then done to a     *)
(* handle is done to no file or to any that is open.                       *)
(***************************************************************************)
EXTENDS IdDatabase

CONSTANTS Threads,
          Root,         \* the name of the user the server starts with
          Edits,        \* the edits, each made once
          Template,     \* whether Default.User exists
          MAX_REQUESTS, \* bound on the creations, deletions, renamings and kills
          NoThread

Timer == "timer"      \* who has the lock of a parent that its timer writes

ASSUME UserFileAssumption ==
    /\ Root \in Names /\ Names \cap Ids = {} /\ Threads \cap Ids = {}
    /\ NoThread \notin Threads
    /\ Template \in BOOLEAN /\ MAX_REQUESTS \in Nat

VARIABLES
    parent,     \* the parents, by uid
    session,    \* the uid each thread has open, or NoId
    op,         \* what each thread is doing
    file,       \* the user file of every uid, "<name>.temporary" of every name
    handle,     \* the file each parent, and each creating thread, has open
    stray,      \* the files and users that another operation got hold of
    up,
    requests,
    used,       \* the edits made so far
    created,    \* uids: CreateUser has returned them, or the server read them
    doomed,     \* uids: a deletion has named them
    acked       \* uid -> edits whose UserFile_Unlock reported success

ufvars == <<parent, session, op, file, handle, stray, up,
            requests, used, created, doomed, acked>>
vars   == <<idvars, ufvars>>

None     == [is |-> "none", edits |-> {}, new |-> {}]
Deleting == [is |-> "deleting", edits |-> {}, new |-> {}]   \* but still open
Empty    == [is |-> "empty", edits |-> {}, new |-> {}]
Data(e)  == [is |-> "data", edits |-> e, new |-> {}]

\* The part of the ghost variables and the disk that most steps leave alone.
disk   == <<file, handle, stray>>
ghosts == <<used, created, doomed, acked>>
server == <<up, requests>>

NoParent == [live |-> FALSE, inArray |-> FALSE, lOpenCount |-> 0, dwErrorFlags |-> {},
             edits |-> {}, hPrimaryLock |-> NoThread, timer |-> "none", saw |-> {}]
Parent(edits) == [NoParent EXCEPT !.live = TRUE, !.inArray = TRUE, !.edits = edits]

Idle == [at |-> "idle", then |-> "idle", name |-> NoName, new |-> NoName, uid |-> NoId,
         own |-> NoId, item |-> NoItem, copy |-> {}, saw |-> {}]

Paths  == Names \cup Ids
Owners == Threads \cup Ids
OpenBy(f) == {o \in Owners : handle[o] = f}

Init ==
    /\ IdInit(Root)
    /\ parent = [u \in Ids |-> IF u = 0 THEN Parent({}) ELSE NoParent]
    /\ session = [t \in Threads |-> NoId]
    /\ op = [t \in Threads |-> Idle]
    /\ file = [f \in Paths |-> IF f = 0 THEN Data({}) ELSE None]
    /\ handle = [o \in Owners |-> IF o = 0 THEN 0 ELSE NoId]
    /\ stray = {}
    /\ up = TRUE /\ requests = 0
    /\ used = {} /\ created = {0} /\ doomed = {}
    /\ acked = [u \in Ids |-> {}]

At(t, place)   == up /\ op[t].at = place
Goto(t, place) == op' = [op EXCEPT ![t].at = place]
Done(t)        == op' = [op EXCEPT ![t] = Idle]
\* The end of User_Unregister and UserFile_Close, which have several callers.
Finish(t)      == op' = [op EXCEPT ![t] =
                      IF @.then = "idle" THEN Idle
                      ELSE [Idle EXCEPT !.at = op[t].then, !.name = op[t].name, !.own = op[t].own]]
Registered(u)  == u # NoId /\ parent[u].inArray      \* GetParentUserFile

-----------------------------------------------------------------------------
(* User_StandardClose.  A context that is closed already is closed again:  *)
(* its handle is nobody's, or what another opened since.                   *)
Closes(o, lost) ==
    /\ handle[o] # NoId
    /\ file' = [file EXCEPT ![handle[o]] = IF @ = Deleting /\ OpenBy(handle[o]) = {o} THEN None ELSE @]
    /\ handle' = [handle EXCEPT ![o] = NoId]
    /\ stray' = stray \cup lost

CloseContext(o, lost) ==
    \/ Closes(o, lost)
    \/ /\ handle[o] = NoId
       /\ \/ stray' = stray \cup lost /\ UNCHANGED <<file, handle>>
          \/ \E other \in Owners : Closes(other, lost \cup ({other} \cap Ids))

-----------------------------------------------------------------------------
(* The process ends.  What is in the files stays, a file that was being    *)
(* deleted is gone, a torn one has the old or the new of each row.         *)
Torn == {f \in Paths : file[f].new # {}}

Settled(f, rows) ==
    CASE file[f] = Deleting -> None
      [] f \in Torn -> Data(file[f].edits \cup (rows[f] \cap file[f].new))
      [] OTHER -> file[f]

Ends ==
    /\ up' = FALSE
    /\ \E rows \in [Torn -> SUBSET UNION {file[f].new : f \in Torn}] :
         file' = [f \in Paths |-> Settled(f, rows)]
    /\ handle' = [o \in Owners |-> NoId]
    /\ parent' = [u \in Ids |-> NoParent]
    /\ session' = [t \in Threads |-> NoId]
    /\ op' = [t \in Threads |-> Idle]
    /\ lpIdArray' = {} /\ lpFreedId' = <<>> /\ subTables' = {} /\ iNextFreeId' = 0
    /\ item' = [i \in Items |-> [name |-> NoName, id |-> NoId]]
    /\ lpNameTable' = [id \in Ids |-> NoItem]
    /\ UNCHANGED <<idFile, stray, ghosts>>

(* CreateUser and the copy of the template in User_StandardCreate; a file  *)
(* another creation has open refuses it.  Without a template there may be  *)
(* a file, or none.                                                        *)
Asks(t) ==
    /\ At(t, "idle") /\ session[t] = NoId /\ requests < MAX_REQUESTS
    /\ requests' = requests + 1

CreateUser(t, n) ==
    /\ Asks(t) /\ SearchByName(n) = NoId
    /\ Template => OpenBy(n) = {}
    /\ file' = IF Template THEN [file EXCEPT ![n] = Data({})] ELSE file
    /\ stray' = IF Template THEN stray \ {n} ELSE stray
    /\ op' = [op EXCEPT ![t] = [Idle EXCEPT !.at = "read", !.name = n]]
    /\ UNCHANGED <<idvars, parent, session, handle, up, ghosts>>

(* User_StandardRead(bCreate) makes the file if it is not there. *)
OpenTemporary(t) ==
    LET n == op[t].name IN
    /\ At(t, "read")
    /\ \/ file[n] = Deleting /\ Done(t) /\ UNCHANGED <<file, handle>>
       \/ /\ file[n] # Deleting
          /\ file' = [file EXCEPT ![n] = IF @ = None THEN Empty ELSE @]
          /\ handle' = [handle EXCEPT ![t] = n]
          /\ op' = [op EXCEPT ![t].at = "register", ![t].copy = file[n].edits]
    /\ UNCHANGED <<idvars, parent, session, stray, server, ghosts>>

(* User_Register, under the exclusive lock of the array.  The handle goes  *)
(* to the parent, and where the name is taken or the id refused it is      *)
(* closed.  A handle to the file another creation has moved or registered  *)
(* meanwhile gives two users one file.                                     *)
Register(t) ==
    LET n == op[t].name
        u == iNextFreeId
        sharers == {v \in Ids : handle[v] = handle[t] /\ handle[v] # NoId} IN
    /\ At(t, "register")
    /\ \/ /\ SearchByName(n) = NoId /\ ~ AddRefused(n)
          /\ IdAdd(n)
          /\ parent' = [parent EXCEPT ![u] = Parent(op[t].copy)]
          /\ handle' = [handle EXCEPT ![u] = handle[t], ![t] = NoId]
          /\ stray' = IF handle[t] = n /\ sharers = {} THEN stray
                      ELSE stray \cup {u} \cup sharers \cup ({handle[t]} \cap Paths)
          /\ op' = [op EXCEPT ![t].at = "move", ![t].uid = u, ![t].copy = {}]
          /\ UNCHANGED file
       \/ /\ IF SearchByName(n) = NoId THEN AddRefused(n) /\ IdAdd(n)
             ELSE Registered(SearchByName(n)) /\ UNCHANGED idvars
          /\ CloseContext(t, {})
          /\ op' = [op EXCEPT ![t].at = "discard", ![t].copy = {}]
          /\ UNCHANGED parent
    /\ UNCHANGED <<session, server, ghosts>>

(* User_StandardClose after User_Unregister has succeeded: it closes the   *)
(* context User_Unregister has closed with the parent, or left to those    *)
(* who have the user open.                                                 *)
CloseCreated(t) ==
    /\ At(t, "close")
    /\ CloseContext(op[t].own, {op[t].own})
    /\ Goto(t, "discard")
    /\ UNCHANGED <<idvars, parent, session, server, ghosts>>

(* DeleteFile of the temporary file: it goes with its last handle. *)
Discard(t) ==
    LET n == op[t].name IN
    /\ At(t, "discard")
    /\ file' = [file EXCEPT ![n] = IF @ # None /\ OpenBy(n) # {} THEN Deleting ELSE None]
    /\ Done(t)
    /\ UNCHANGED <<idvars, parent, session, handle, stray, server, ghosts>>

(* MoveFileEx to the file of the uid, whoever has it open.  A file that is *)
(* being deleted does not move and the registration is taken back.         *)
MoveTemporary(t) ==
    LET n == op[t].name
        u == op[t].uid IN
    /\ At(t, "move")
    /\ \/ /\ file[n] \notin {None, Deleting}
          /\ file' = [file EXCEPT ![u] = file[n], ![n] = None]
          /\ handle' = [o \in Owners |-> IF handle[o] = n THEN u ELSE handle[o]]
          /\ stray' = IF n \in stray THEN (stray \ {n}) \cup {u} ELSE stray
          /\ created' = created \cup {u}
          /\ Done(t)
       \/ /\ file[n] \in {None, Deleting}
          /\ op' = [op EXCEPT ![t].at = "unregister", ![t].then = "close", ![t].own = u]
          /\ UNCHANGED <<disk, created>>
    /\ UNCHANGED <<idvars, parent, session, server, used, doomed, acked>>

-----------------------------------------------------------------------------
(* DeleteUser, down to User_StandardDelete. *)
DeleteUser(t, n) ==
    LET u == SearchByName(n) IN
    /\ Asks(t) /\ Registered(u)
    /\ op' = [op EXCEPT ![t] = [Idle EXCEPT !.at = "delete", !.name = n, !.uid = u]]
    /\ doomed' = doomed \cup {u}
    /\ UNCHANGED <<idvars, parent, session, disk, up, used, created, acked>>

(* DeleteFile of the user file, which its parent has open: it stays until  *)
(* that handle is closed, and cannot be deleted again.                     *)
DeleteUserFile(t) ==
    LET u == op[t].uid IN
    /\ At(t, "delete")
    /\ \/ file[u] = Deleting /\ Done(t) /\ UNCHANGED file
       \/ /\ file[u] # Deleting
          /\ file' = [file EXCEPT ![u] = IF @ # None /\ OpenBy(u) # {} THEN Deleting ELSE None]
          /\ Goto(t, "unregister")
    /\ UNCHANGED <<idvars, parent, session, handle, stray, server, ghosts>>

(* User_Unregister goes by the name the caller gave: first the parent is   *)
(* found and held, under the shared lock ...                               *)
UnregisterFind(t) ==
    LET u == SearchByName(op[t].name) IN
    /\ At(t, "unregister")
    /\ \/ /\ u = NoId
          /\ IF op[t].then = "idle" THEN Done(t) ELSE Goto(t, "discard")
          /\ UNCHANGED parent
       \/ /\ Registered(u)
          /\ parent' = [parent EXCEPT ![u].lOpenCount = @ + 1]
          /\ op' = [op EXCEPT ![t].at = "take", ![t].uid = u]
    /\ UNCHANGED <<idvars, session, disk, server, ghosts>>

(* ... then taken from the array, under the exclusive one.  Whoever has it *)
(* open last frees it.                                                     *)
\* Mutant: the parent is freed although a session has it open.
UnregisterFrees(t) ==
    LET u == op[t].uid IN
    /\ At(t, "take")
    /\ parent' = [parent EXCEPT ![u].inArray = FALSE, ![u].lOpenCount = @ - 1]
    /\ doomed' = doomed \cup {u}
    /\ Goto(t, "remove")
    /\ UNCHANGED <<idvars, session, disk, server, used, created, acked>>

UnregisterTake(t) ==
    LET u == op[t].uid
        inUse == parent[u].lOpenCount > 1 IN
    /\ At(t, "take")
    /\ parent' = [parent EXCEPT ![u].inArray = FALSE,
                                ![u].lOpenCount = @ - 1,
                                ![u].dwErrorFlags = IF inUse THEN @ \cup {"WAIT_UNREGISTER"} ELSE @]
    /\ doomed' = doomed \cup {u}
    /\ IF inUse THEN Finish(t) ELSE Goto(t, "remove")
    /\ UNCHANGED <<idvars, session, disk, server, used, created, acked>>

(* Both dereference the parent of a name without looking whether it is in  *)
(* the array, which it leaves before the name is removed.                  *)
NullParent(t) ==
    LET u == SearchByName(op[t].name) IN
    /\ At(t, "register") \/ At(t, "unregister")
    /\ u # NoId /\ ~ Registered(u)
    /\ Ends /\ UNCHANGED requests

(* The resources of a parent that is free: the id, then the context of the *)
(* file.  User_Unregister removes the name its caller gave, UserFile_Close *)
(* the one that is now in the block the uid pointed at: by then the user   *)
(* may have been renamed, and another have his name.                       *)
NameToRemove(t) == IF op[t].item = NoItem THEN op[t].name ELSE item[op[t].item].name

Mistaken(t) ==
    LET found == {item[i].id : i \in Find(NameToRemove(t))} IN
    IF found = {op[t].uid} THEN {} ELSE found \cup {op[t].uid}

RemoveId(t) ==
    /\ At(t, "remove")
    /\ IdRemove(NameToRemove(t))
    /\ CloseContext(op[t].uid, Mistaken(t))
    /\ Goto(t, "free")
    /\ UNCHANGED <<parent, session, server, ghosts>>

\* Mutant: the timer is not waited for.
FreeWithTimer(t) ==
    /\ At(t, "free")
    /\ parent' = [parent EXCEPT ![op[t].uid] = [@ EXCEPT !.live = FALSE]]
    /\ Finish(t)
    /\ UNCHANGED <<idvars, session, disk, server, ghosts>>

(* StopIoTimer waits for a timer that runs, now on a file that is closed. *)
TimerRuns(u) == parent[u].timer \notin {"none", "pending", "done"}

FreeParent(t) ==
    LET u == op[t].uid IN
    /\ At(t, "free") /\ ~ TimerRuns(u)
    /\ parent' = [parent EXCEPT ![u] = NoParent]
    /\ Finish(t)
    /\ UNCHANGED <<idvars, session, disk, server, ghosts>>

-----------------------------------------------------------------------------
(* RenameUser: the user is looked up, then the id database renames it.     *)
RenameUser(t, n, new) ==
    /\ Asks(t) /\ n # new /\ Registered(SearchByName(n))
    /\ op' = [op EXCEPT ![t] = [Idle EXCEPT !.at = "rename", !.name = n, !.new = new]]
    /\ UNCHANGED <<idvars, parent, session, disk, up, ghosts>>

RegisterAs(t) ==
    /\ At(t, "rename")
    /\ IdRename(op[t].name, op[t].new)
    /\ Done(t)
    /\ UNCHANGED <<parent, session, disk, server, ghosts>>

-----------------------------------------------------------------------------
(* A session opens a user (the share it takes under the secondary lock is  *)
(* the current one: nothing here depends on it) and closes it.             *)
OpenPrimitive(t, u) ==
    /\ At(t, "idle") /\ session[t] = NoId
    /\ Registered(u) /\ "WAIT_UNREGISTER" \notin parent[u].dwErrorFlags
    /\ parent' = [parent EXCEPT ![u].lOpenCount = @ + 1]
    /\ session' = [session EXCEPT ![t] = u]
    /\ UNCHANGED <<idvars, op, disk, server, ghosts>>

\* Mutant: who closes a deleted user last does not free him.
CloseForgets(t) ==
    LET u == session[t] IN
    /\ At(t, "idle") /\ u # NoId
    /\ parent' = [parent EXCEPT ![u].lOpenCount = @ - 1]
    /\ session' = [session EXCEPT ![t] = NoId]
    /\ UNCHANGED <<idvars, op, disk, server, ghosts>>

Close(t) ==
    LET u == session[t]
        last == /\ parent[u].lOpenCount = 1
                /\ "WAIT_UNREGISTER" \in parent[u].dwErrorFlags IN
    /\ At(t, "idle") /\ u # NoId
    /\ parent' = [parent EXCEPT ![u].lOpenCount = @ - 1]
    /\ session' = [session EXCEPT ![t] = NoId]
    /\ op' = IF ~ last THEN op
             ELSE [op EXCEPT ![t].at = "remove", ![t].uid = u, ![t].item = SearchById(u)]
    /\ UNCHANGED <<idvars, disk, server, ghosts>>

-----------------------------------------------------------------------------
(* UserFile_Lock: the primary lock is waited for and the current contents  *)
(* are copied.  A user with an error is not to be changed.                 *)
Free(u)   == parent[u].hPrimaryLock = NoThread

\* Mutant: the lock is not waited for.
LockAnyway(t) ==
    LET u == session[t] IN
    /\ At(t, "idle") /\ u # NoId /\ used # Edits
    /\ parent[u].dwErrorFlags = {}
    /\ parent' = [parent EXCEPT ![u].hPrimaryLock = t]
    /\ op' = [op EXCEPT ![t].at = "edit", ![t].copy = parent[u].edits]
    /\ UNCHANGED <<idvars, session, disk, server, ghosts>>

UserFile_Lock(t) ==
    LET u == session[t] IN
    /\ At(t, "idle") /\ u # NoId /\ used # Edits
    /\ Free(u) /\ parent[u].dwErrorFlags = {}
    /\ parent' = [parent EXCEPT ![u].hPrimaryLock = t]
    /\ op' = [op EXCEPT ![t].at = "edit", ![t].copy = parent[u].edits]
    /\ UNCHANGED <<idvars, session, disk, server, ghosts>>

(* What is written goes to the file of the user, or, if his context is     *)
(* closed, to any other that is open or to none of them.                   *)
Contents(u) == file[handle[u]]

Were == {file[f] : f \in Paths}

Put(u, new) ==
    LET With(f) == [file EXCEPT ![f] = IF @ = Deleting THEN @ ELSE new[@]] IN
    \/ /\ handle[u] # NoId
       /\ file' = With(handle[u])
       /\ UNCHANGED stray
    \/ /\ handle[u] = NoId
       /\ \/ stray' = stray \cup {u} /\ UNCHANGED file
          \/ \E f \in {handle[o] : o \in Owners} \ {NoId} :
               file' = With(f) /\ stray' = stray \cup {u, f}

\* Mutant: the file is made empty before it is written.
BeginWriteEmpty(u, edits) ==
    Put(u, [old \in Were |-> [is |-> "data", edits |-> {}, new |-> edits]])

(* User_StandardWrite writes over the old file and cuts it off after that: *)
(* in between, every row of the file is the old one or the new.            *)
BeginWrite(u, edits) ==
    Put(u, [old \in Were |-> [is |-> "data", edits |-> old.edits, new |-> edits]])
Wrote(u)      == Put(u, [old \in Were |-> Data(parent[u].edits)])
WroteNothing(u) == Put(u, [old \in Were |-> Data(old.edits)])

(* UserFile_Unlock.  The changed copy becomes the current contents, under  *)
(* the secondary lock, and is written unless the user has been deleted     *)
(* meanwhile.  A copy that is as it was is thrown away.                    *)
Publish(t) ==
    LET u == session[t]
        errors == parent[u].dwErrorFlags IN
    /\ At(t, "edit")
    /\ \E e \in Edits \ used :
         LET new == op[t].copy \cup {e} IN
         /\ parent' = [parent EXCEPT ![u].edits = new,
                           ![u].hPrimaryLock = IF errors = {} THEN @ ELSE NoThread]
         /\ used' = used \cup {e}
         /\ IF errors = {} THEN Goto(t, "write") /\ BeginWrite(u, new)
                           ELSE Done(t) /\ UNCHANGED <<file, stray>>
    /\ UNCHANGED <<idvars, session, handle, server, created, doomed, acked>>

ThrowAway(t) ==
    /\ At(t, "edit")
    /\ parent' = [parent EXCEPT ![session[t]].hPrimaryLock = NoThread]
    /\ Done(t)
    /\ UNCHANGED <<idvars, session, disk, server, ghosts>>

Written(t) ==
    LET u == session[t] IN
    /\ At(t, "write")
    /\ Wrote(u)
    /\ acked' = [acked EXCEPT ![u] = @ \cup parent[u].edits]
    /\ parent' = [parent EXCEPT ![u].hPrimaryLock = NoThread]
    /\ Done(t)
    /\ UNCHANGED <<idvars, session, handle, server, used, created, doomed>>

\* The users whose deletion a thread does not see that writes back the flags it saw.
Forgotten(u, saw) == IF "WAIT_UNREGISTER" \in parent[u].dwErrorFlags \ saw THEN {u} ELSE {}

(* WriteFile fails: the file is as it was.  The flag is put in by reading  *)
(* all flags and writing them; the old timer, if any, is stopped and a new *)
(* one started.                                                            *)
WriteFails(t) ==
    LET u == session[t] IN
    /\ At(t, "write")
    /\ WroteNothing(u)
    /\ op' = [op EXCEPT ![t].at = "flag", ![t].saw = parent[u].dwErrorFlags]
    /\ UNCHANGED <<idvars, parent, session, handle, server, ghosts>>

\* Mutant: the old timer is stopped and none is started.
SetErrorOnly(t) ==
    LET u == session[t] IN
    /\ At(t, "flag") /\ ~ TimerRuns(u)
    /\ parent' = [parent EXCEPT ![u].dwErrorFlags = op[t].saw \cup {"WRITE_ERROR"},
                      ![u].timer = "none", ![u].hPrimaryLock = NoThread]
    /\ stray' = stray \cup Forgotten(u, op[t].saw)
    /\ Done(t)
    /\ UNCHANGED <<idvars, session, file, handle, server, ghosts>>

SetWriteError(t) ==
    LET u == session[t] IN
    /\ At(t, "flag") /\ ~ TimerRuns(u)
    /\ parent' = [parent EXCEPT ![u].dwErrorFlags = op[t].saw \cup {"WRITE_ERROR"},
                      ![u].timer = "pending", ![u].hPrimaryLock = NoThread]
    /\ stray' = stray \cup Forgotten(u, op[t].saw)
    /\ Done(t)
    /\ UNCHANGED <<idvars, session, file, handle, server, ghosts>>

-----------------------------------------------------------------------------
(* UserFile_WriteTimer, a timer thread: it waits for the primary lock,     *)
(* writes the current contents and takes the flag away again.              *)
Runs(u, place) == up /\ parent[u].timer = place

TimerFires(u) ==
    /\ Runs(u, "pending")
    /\ parent' = [parent EXCEPT ![u].timer = "waits"]
    /\ UNCHANGED <<idvars, session, op, disk, server, ghosts>>

TimerLocks(u) ==
    /\ Runs(u, "waits") /\ Free(u)
    /\ BeginWrite(u, parent[u].edits)
    /\ parent' = [parent EXCEPT ![u].timer = "writes", ![u].hPrimaryLock = Timer]
    /\ UNCHANGED <<idvars, session, op, handle, server, ghosts>>

TimerWriteFails(u) ==
    LET deleted == "WAIT_UNREGISTER" \in parent[u].dwErrorFlags IN
    /\ Runs(u, "writes")
    /\ WroteNothing(u)
    /\ parent' = [parent EXCEPT ![u].hPrimaryLock = NoThread,
                                ![u].timer = IF deleted THEN "done" ELSE "pending"]
    /\ UNCHANGED <<idvars, session, op, handle, server, ghosts>>

TimerWrites(u) ==
    /\ Runs(u, "writes")
    /\ Wrote(u)
    /\ parent' = [parent EXCEPT ![u].timer = "clears", ![u].saw = parent[u].dwErrorFlags]
    /\ UNCHANGED <<idvars, session, op, handle, server, ghosts>>

TimerClears(u) ==
    /\ Runs(u, "clears")
    /\ parent' = [parent EXCEPT ![u].dwErrorFlags = parent[u].saw \ {"WRITE_ERROR"},
                                ![u].saw = {}, ![u].hPrimaryLock = NoThread, ![u].timer = "done"]
    /\ stray' = stray \cup Forgotten(u, parent[u].saw)
    /\ UNCHANGED <<idvars, session, op, file, handle, server, ghosts>>

-----------------------------------------------------------------------------
Kill ==
    /\ up /\ requests < MAX_REQUESTS
    /\ requests' = requests + 1
    /\ Ends

(* User_Init: every user of the table whose file is there is opened.  One  *)
(* file that is too short to be read keeps the server from starting.       *)
Start ==
    LET there == {u \in Ids : file[u].is = "data"}
        known == {e[2] : e \in idFile} \cap there IN
    /\ ~ up
    /\ \A e \in idFile : file[e[2]] # Empty
    /\ Load(there)
    /\ up' = TRUE
    /\ parent' = [u \in Ids |-> IF u \in known THEN Parent(file[u].edits) ELSE NoParent]
    /\ handle' = [o \in Owners |-> IF o \in known THEN o ELSE NoId]
    /\ created' = known
    /\ doomed' = doomed \cap known
    /\ acked' = [u \in Ids |-> IF u \in known THEN acked[u] ELSE {}]
    /\ UNCHANGED <<session, op, file, stray, requests, used>>

-----------------------------------------------------------------------------
Create(t) == OpenTemporary(t) \/ Register(t) \/ CloseCreated(t) \/ Discard(t) \/ MoveTemporary(t)
Delete(t) == DeleteUserFile(t) \/ UnregisterFind(t) \/ UnregisterTake(t)
                \/ RemoveId(t) \/ FreeParent(t) \/ NullParent(t)
Change(t) == UserFile_Lock(t) \/ Publish(t) \/ ThrowAway(t) \/ Written(t) \/ WriteFails(t)
                \/ SetWriteError(t)
WriteTimer(u) == TimerFires(u) \/ TimerLocks(u) \/ TimerWriteFails(u) \/ TimerWrites(u)
                    \/ TimerClears(u)

Request(t) ==
    \/ \E n \in Names : CreateUser(t, n) \/ DeleteUser(t, n)
                         \/ \E new \in Names : RenameUser(t, n, new)
    \/ \E u \in Ids : OpenPrimitive(t, u)
    \/ Close(t)

Next ==
    \/ \E t \in Threads : Request(t) \/ Create(t) \/ Delete(t) \/ RegisterAs(t) \/ Change(t)
    \/ \E u \in Ids : WriteTimer(u)
    \/ Kill \/ Start

Spec == Init /\ [][Next]_vars

-----------------------------------------------------------------------------
Freeing(t) == op[t].at \in {"remove", "free"}

(* Whoever has a user open, is taking him out of the array or is freeing   *)
(* him keeps the parent in memory, and so does a timer; the count is       *)
(* theirs, and one thread frees (User_Unregister, UserFile_Close and the   *)
(* timer meet here without a lock in common).                              *)
HoldersKeepParent ==
    /\ \A t \in Threads : session[t] # NoId => parent[session[t]].live
    /\ \A t \in Threads : op[t].at = "take" \/ Freeing(t) => parent[op[t].uid].live
    /\ \A u \in Ids :
         /\ parent[u].inArray \/ parent[u].timer # "none" => parent[u].live
         /\ parent[u].lOpenCount = Cardinality({t \in Threads : session[t] = u})
                + Cardinality({t \in Threads : op[t].at = "take" /\ op[t].uid = u})
         /\ Cardinality({t \in Threads : Freeing(t) /\ op[t].uid = u}) <= 1

(* A name is in the tables as long as the parent of its user is in memory, *)
(* and out of the array only for one that a deletion has named and whose   *)
(* last holder is to free it; the file is open until then.                 *)
NamesHaveParents ==
    \A u \in Ids \ stray :
      LET named == lpNameTable[u] # NoItem
          closing == \E t \in Threads : op[t].at = "free" /\ op[t].uid = u IN
      /\ parent[u].inArray => named
      /\ named => parent[u].live /\ ~ closing
      /\ parent[u].live => named \/ closing
      /\ parent[u].live /\ ~ parent[u].inArray =>
           /\ u \in doomed
           /\ parent[u].lOpenCount > 0 \/ \E t \in Threads : Freeing(t) /\ op[t].uid = u
      /\ parent[u].live => handle[u] # NoId \/ closing

(* The names, the ids and the parents of all users agree, while threads    *)
(* create, rename, delete, open and close them.                            *)
UsersKept == IdTablesAgree /\ HoldersKeepParent /\ NamesHaveParents

(* What one editor published no other editor loses: the current contents   *)
(* of a user only gain edits while the server is up.                       *)
EditsKept ==
    [][\A u \in Ids : up' /\ parent[u].live /\ parent'[u].live
                            => parent[u].edits \subseteq parent'[u].edits]_vars

(* A user whose contents are not in his file is being written, or there is *)
(* a timer that will write him; and a thread that stops the old timer with *)
(* the primary lock held never waits for one that waits for that lock.     *)
UnwrittenIsRetried ==
    /\ \A u \in Ids :
         (up /\ u \in created \ (doomed \cup stray) /\ Contents(u).edits # parent[u].edits)
            => ~ Free(u) \/ parent[u].timer \in {"pending", "waits"}
    /\ \A t \in Threads : op[t].at = "flag" => ~ TimerRuns(session[t])

(* A user that CreateUser returned and no deletion has named is on the     *)
(* disk, under his id, with every edit that was reported written: a server *)
(* killed at any moment has him again.                                     *)
Durable ==
    /\ UnwrittenIsRetried
    /\ \A u \in created \ (doomed \cup stray) :
       /\ \E e \in idFile : e[2] = u
       /\ file[u].is \in {"data", "empty"}
       /\ acked[u] \subseteq file[u].edits

=============================================================================
