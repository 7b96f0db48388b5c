------------------------------ MODULE GroupFile ------------------------------
(***************************************************************************)
(* The groups of the server (GroupNew.c) and their files                   *)
(* (GroupFileModule.c).  They are kept as users are: an id database, a     *)
(* parent for each group, a lock for whoever changes it and a timer that   *)
(* writes again.  So the operations are those of UserFile, on variables of *)
(* their own, but for the deletion: a group that has users is not deleted, *)
(* and Group_Unregister stops the timer before it closes the file.         *)
(***************************************************************************)
EXTENDS Integers, FiniteSets, Sequences

CONSTANTS GroupNames, GroupIds, GroupItems, GROUP_SUBTABLE, NoGroupName,
          Openers,      \* the threads that use groups
          NoOpener,
          FirstGroup,   \* the group the server starts with
          GroupEdits,
          MemberEdits,      \* the edits that put a user into a group
          MAX_GROUP_REQUESTS

ASSUME GroupFileAssumption == MemberEdits \subseteq GroupEdits

VARIABLES gItem, lpGroupIdArray, lpGroupNameTable, groupSubTables, lpFreedGid,
          iNextFreeGid, groupIdFile, gParent, gOpen, gOp, gFile, gHandle,
          gStray, gUp, gRequests, gUsed, gCreated, gDoomed, gAcked

gidvars == <<gItem, lpGroupIdArray, lpGroupNameTable, groupSubTables, lpFreedGid,
             iNextFreeGid, groupIdFile>>
groupfilevars == <<gidvars, gParent, gOpen, gOp, gFile, gHandle, gStray, gUp,
                   gRequests, gUsed, gCreated, gDoomed, gAcked>>

Files == INSTANCE UserFile WITH
    Names <- GroupNames, Ids <- GroupIds, Items <- GroupItems, SUBTABLE <- GROUP_SUBTABLE,
    NoName <- NoGroupName, Threads <- Openers, NoThread <- NoOpener, Root <- FirstGroup,
    Edits <- GroupEdits, Template <- TRUE,
    MAX_REQUESTS <- MAX_GROUP_REQUESTS,
    item <- gItem, lpIdArray <- lpGroupIdArray, lpNameTable <- lpGroupNameTable,
    subTables <- groupSubTables, lpFreedId <- lpFreedGid, iNextFreeId <- iNextFreeGid,
    idFile <- groupIdFile, parent <- gParent, session <- gOpen, op <- gOp, file <- gFile,
    handle <- gHandle, stray <- gStray, up <- gUp,
    requests <- gRequests, used <- gUsed, created <- gCreated, doomed <- gDoomed,
    acked <- gAcked

GroupFileInit == Files!Init

-----------------------------------------------------------------------------
(* CreateGroup: the template is copied and read, the group is registered,  *)
(* its file gets the name of its id or the registration is taken back.     *)
CreateGroup(t, n)          == Files!CreateUser(t, n)
Group_StandardRead(t)      == Files!OpenTemporary(t)
Group_Register(t)          == Files!Register(t)
DiscardGroup(t)            == Files!Discard(t)
MoveGroup(t)               == Files!MoveTemporary(t)
CloseCreatedGroup(t)       == Files!CloseCreated(t)

(* DeleteGroup, which asks for the users of the group without a lock. *)
HasUsers(n) == gParent[Files!SearchByName(n)].edits \cap MemberEdits # {}

DeleteEmptyGroup(t, n) ==
    /\ Files!Registered(Files!SearchByName(n)) /\ ~ HasUsers(n)
    /\ Files!DeleteUser(t, n)

Group_StandardDelete(t)    == Files!DeleteUserFile(t)

-----------------------------------------------------------------------------
(* Group_Unregister and the last GroupFile_Close. *)
UnregisterFindGroup(t)     == Files!UnregisterFind(t)

\* Mutant: the parent is freed although a session has it open.
TakeGroupFrees(t)          == Files!UnregisterFrees(t)

UnregisterTakeGroup(t)     == Files!UnregisterTake(t)

\* A parent that is out of the array is dereferenced: the process faults.
NullGroup(t)               == Files!NullParent(t)

Unregistering(t) == gOp[t].item = Files!NoItem

RemoveGid(t) ==
    /\ ~ Unregistering(t) => Files!RemoveId(t)
    /\ Unregistering(t) =>
         /\ Files!At(t, "remove")
         /\ Files!IdRemove(gOp[t].name)
         /\ gStray' = gStray \cup Files!Mistaken(t)
         /\ Files!Goto(t, "free")
         /\ UNCHANGED <<gParent, gOpen, gFile, gHandle, gUp, gRequests,
                        gUsed, gCreated, gDoomed, gAcked>>

FreeParentGroup(t) ==
    LET g == gOp[t].uid IN
    /\ ~ Unregistering(t) => Files!FreeParent(t)
    /\ Unregistering(t) =>
         /\ Files!At(t, "free") /\ ~ Files!TimerRuns(g)
         /\ Files!CloseContext(g, {})
         /\ gParent' = [gParent EXCEPT ![g] = Files!NoParent]
         /\ Files!Finish(t)
         /\ UNCHANGED <<gidvars, gOpen, gUp, gRequests, gUsed, gCreated,
                        gDoomed, gAcked>>

-----------------------------------------------------------------------------
RenameGroup(t, n, new)     == Files!RenameUser(t, n, new)
Group_RegisterAs(t)        == Files!RegisterAs(t)
GroupFile_Open(t, g)       == Files!OpenPrimitive(t, g)
CloseGroup(t)             == Files!Close(t)

(* GroupFile_Lock, the edit, GroupFile_Unlock with the file written, and   *)
(* GroupFile_WriteTimer.                                                   *)
GroupFile_Lock(t)          == Files!UserFile_Lock(t)
GroupFile_Publish(t)       == Files!Publish(t)
GroupFile_ThrowAway(t)     == Files!ThrowAway(t)
Group_StandardWrite(t)     == Files!Written(t)
GroupWriteFails(t)         == Files!WriteFails(t)
GroupWriteError(t)         == Files!SetWriteError(t)
GroupFile_WriteTimer(g)    == Files!WriteTimer(g)

(* The server is killed; Group_Init opens the groups of the table again. *)
KillGroups                 == Files!Kill
Group_Init                 == Files!Start

-----------------------------------------------------------------------------
GroupRequest(t) ==
    \/ \E n \in GroupNames : CreateGroup(t, n) \/ DeleteEmptyGroup(t, n)
                               \/ \E new \in GroupNames : RenameGroup(t, n, new)
    \/ \E g \in GroupIds : GroupFile_Open(t, g)
    \/ CloseGroup(t)

GroupStep(t) ==
    \/ Group_StandardRead(t) \/ Group_Register(t) \/ DiscardGroup(t) \/ MoveGroup(t)
    \/ CloseCreatedGroup(t) \/ NullGroup(t)
    \/ Group_StandardDelete(t) \/ UnregisterFindGroup(t) \/ UnregisterTakeGroup(t)
    \/ RemoveGid(t) \/ FreeParentGroup(t)
    \/ Group_RegisterAs(t)
    \/ GroupFile_Lock(t) \/ GroupFile_Publish(t) \/ GroupFile_ThrowAway(t)
    \/ Group_StandardWrite(t) \/ GroupWriteFails(t) \/ GroupWriteError(t)

GroupFileNext ==
    \/ \E t \in Openers : GroupRequest(t) \/ GroupStep(t)
    \/ \E g \in GroupIds : GroupFile_WriteTimer(g)
    \/ KillGroups \/ Group_Init

-----------------------------------------------------------------------------
(* The names, the ids and the parents of all groups agree whatever is done *)
(* to them at once; whoever has a group open keeps its parent in memory,   *)
(* and what was reported written is in its file or will be written.        *)
GroupsKept == Files!UsersKept /\ Files!Durable
=============================================================================
