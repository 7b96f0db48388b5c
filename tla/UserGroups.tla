----------------------------- MODULE UserGroups -----------------------------
(***************************************************************************)
(* The commands of RemoteAdmin.c that put users into groups: SITE ADDUSER  *)
(* and GADDUSER, CHGRP, DELUSER, READD, PURGE, GRPADD and GRPDEL.  A user  *)
(* keeps the list of his groups, a group the count of its users; the two   *)
(* are in different files, each under a primary lock of its own            *)
(* (UserNew.c, GroupNew.c), and a command changes them one after another.  *)
(*                                                                         *)
(* UserFile models what is below: here opening, locking and closing are    *)
(* one step each.  A change is made where the code makes it on its copy;   *)
(* nobody looks at it before the lock is released.  Files are written      *)
(* without error, so a lock fails only on a user or group that is deleted. *)
(***************************************************************************)
EXTENDS Integers, Sequences, FiniteSets, SequencesExt

CONSTANTS Threads, Users, Gids,
          NOGROUP_ID,    \* the group of users who have no other
          Template,      \* the groups in Default.User
          Standing,      \* groups with a member whom no command names
          FirstUser,     \* a user there is from the start, and his groups
          FirstGroups,
          SLOTS,         \* the slots of a new group, -1: no limit
          MAX_GROUPS,    \* 128 in the code
          MAX_REQUESTS,  \* bound on the commands and the arguments of CHGRP
          NoThread, NoUser, NoGroup

ASSUME UserGroupsAssumption ==
    /\ Standing \subseteq Gids /\ NOGROUP_ID \in Standing
    /\ ToSet(Template) \subseteq Standing
    /\ FirstUser \in Users /\ FirstGroups \in Seq(Gids \ {NOGROUP_ID})
    /\ FirstGroups # <<>> /\ Len(FirstGroups) <= MAX_GROUPS
    /\ IsInjective(FirstGroups)
    /\ NoThread \notin Threads /\ NoUser \notin Users /\ NoGroup \notin Gids

VARIABLES
    group,      \* gid -> what is registered, who has it open and locked
    user,       \* uid -> the same, and the groups of the user
    op,         \* what each thread is doing
    requests,
    cut         \* gid -> memberships that CHGRP has dropped from a list

vars == <<group, user, op, requests, cut>>

\* is: "free" (no such id), "registered" or "doomed": deleted and still open.
FreeGroup == [is |-> "free", lOpenCount |-> 0, hPrimaryLock |-> NoThread,
              Users |-> 0, slots |-> -1]
FreeUser  == [is |-> "free", lOpenCount |-> 0, hPrimaryLock |-> NoThread,
              groups |-> <<>>, DeletedOn |-> FALSE]
Idle == [at |-> "idle", u |-> NoUser, g |-> NoGroup, rest |-> <<>>, mark |-> "",
         inNoGroup |-> 0]

Registered(r) == r.is = "registered"
Free(r)       == r.hPrimaryLock = NoThread
Open(r)       == [r EXCEPT !.lOpenCount = @ + 1]
Lock(r, t)    == [r EXCEPT !.hPrimaryLock = t]
Unlock(r)     == [r EXCEPT !.hPrimaryLock = NoThread]

(* GroupFile_Close and UserFile_Close: the last one of a deleted group or  *)
(* user frees its id.                                                      *)
GroupFile_Close(r) ==
    IF r.is = "doomed" /\ r.lOpenCount = 1 THEN FreeGroup
    ELSE [r EXCEPT !.lOpenCount = @ - 1]
UserFile_Close(r) ==
    IF r.is = "doomed" /\ r.lOpenCount = 1 THEN FreeUser
    ELSE [r EXCEPT !.lOpenCount = @ - 1]

\* The group a thread holds, unlocked and closed.
ReleaseGroup(g) == IF g = NoGroup THEN group
                   ELSE [group EXCEPT ![g] = GroupFile_Close(Unlock(@))]
ReleaseUser(u)  == [user EXCEPT ![u] = UserFile_Close(Unlock(@))]

Without(gs, g) == SelectSeq(gs, LAMBDA h : h # g)

Init ==
    /\ group = [g \in Gids |->
                  [FreeGroup EXCEPT !.is = "registered",
                     !.slots = IF g = NOGROUP_ID THEN -1 ELSE SLOTS,
                     !.Users = (IF g \in Standing THEN 1 ELSE 0)
                                 + (IF g \in ToSet(FirstGroups) THEN 1 ELSE 0)]]
    /\ \E deleted \in BOOLEAN :
         user = [u \in Users |-> IF u # FirstUser THEN FreeUser
                   ELSE [FreeUser EXCEPT !.is = "registered", !.groups = FirstGroups,
                                         !.DeletedOn = deleted]]
    /\ op = [t \in Threads |-> Idle]
    /\ requests = 0
    /\ cut = [g \in Gids |-> 0]

At(t, place)   == op[t].at = place
Goto(t, place) == op' = [op EXCEPT ![t].at = place]
Done(t)        == op' = [op EXCEPT ![t] = Idle]

Asks(t, place) ==
    /\ At(t, place) /\ requests < MAX_REQUESTS
    /\ requests' = requests + 1

\* A user is named once the command that adds him has unlocked him.
Named(u) == \A t \in Threads : op[t].u = u => op[t].at \notin {"addOther", "addCount"}

\* A command that begins by opening user u, or group g.
AsksUser(t, u, place) ==
    /\ Asks(t, "idle") /\ Registered(user[u]) /\ Named(u)
    /\ user' = [user EXCEPT ![u] = Open(@)]
    /\ op' = [op EXCEPT ![t] = [Idle EXCEPT !.at = place, !.u = u]]
    /\ UNCHANGED <<group, cut>>

AsksGroup(t, g, place, mark) ==
    /\ Asks(t, "idle") /\ Registered(group[g])
    /\ group' = [group EXCEPT ![g] = Open(@)]
    /\ op' = [op EXCEPT ![t] = [Idle EXCEPT !.at = place, !.g = g, !.mark = mark]]
    /\ UNCHANGED <<user, cut>>

-----------------------------------------------------------------------------
(* Admin_AddGroup and Admin_DeleteGroup.  A group without users goes out   *)
(* of the array while whoever deletes it has it locked and open.           *)
Admin_AddGroup(t) ==
    /\ Asks(t, "idle")
    /\ \E g \in Gids :
         /\ group[g].is = "free"
         /\ group' = [group EXCEPT ![g] = [FreeGroup EXCEPT !.is = "registered", !.slots = SLOTS]]
    /\ UNCHANGED <<user, op, cut>>

Admin_DeleteGroup(t, g) == g # NOGROUP_ID /\ AsksGroup(t, g, "deleteGroup", "")

\* Mutant: a group is deleted whoever is in it.
DeleteAnyGroup(t) ==
    LET g == op[t].g IN
    /\ At(t, "deleteGroup") /\ Free(group[g])
    /\ group' = [group EXCEPT ![g] = GroupFile_Close([@ EXCEPT !.is = "doomed"])]
    /\ Done(t)
    /\ UNCHANGED <<user, requests, cut>>


DeleteGroup(t) ==
    LET g == op[t].g IN
    /\ At(t, "deleteGroup") /\ Free(group[g])
    /\ group' = [group EXCEPT ![g] = GroupFile_Close(
                    IF Registered(@) /\ @.Users = 0 THEN [@ EXCEPT !.is = "doomed"] ELSE @)]
    /\ Done(t)
    /\ UNCHANGED <<user, requests, cut>>

-----------------------------------------------------------------------------
(* Admin_DeleteUser marks a user, Admin_ReAdd takes the mark away: each    *)
(* opens the user, waits for his lock and closes him again.                *)
Admin_DeleteUser(t, u) == AsksUser(t, u, "mark")
Admin_ReAdd(t, u)      == user[u].DeletedOn /\ AsksUser(t, u, "unmark")

SetDeleted(t) ==
    LET u == op[t].u IN
    /\ op[t].at \in {"mark", "unmark"} /\ Free(user[u])
    /\ user' = [user EXCEPT ![u] = UserFile_Close(
                    IF Registered(@) THEN [@ EXCEPT !.DeletedOn = At(t, "mark")] ELSE @)]
    /\ Done(t)
    /\ UNCHANGED <<group, requests, cut>>

(* Admin_Purge: the mark is looked at before the user is locked, and not   *)
(* again.  DeleteUser takes the user out of the array; his groups are then *)
(* counted down one by one, the first gets its slot back.                  *)
Admin_Purge(t, u) == user[u].DeletedOn /\ AsksUser(t, u, "purge")

PurgeUser(t) ==
    LET u == op[t].u IN
    /\ At(t, "purge") /\ Free(user[u])
    /\ \/ /\ Registered(user[u])
          /\ user' = [user EXCEPT ![u] = Lock([@ EXCEPT !.is = "doomed"], t)]
          /\ op' = [op EXCEPT ![t].at = "purgeNext", ![t].rest = user[u].groups, ![t].mark = "first"]
       \/ /\ ~ Registered(user[u])
          /\ user' = [user EXCEPT ![u] = UserFile_Close(@)]
          /\ Done(t)
    /\ UNCHANGED <<group, requests, cut>>

\* Opens the next group of the list a thread works on; one that is gone is passed over.
OpenNext(t, place) ==
    LET g == Head(op[t].rest)
        known == Registered(group[g]) IN
    /\ group' = [group EXCEPT ![g] = IF known THEN Open(@) ELSE @]
    /\ op' = [op EXCEPT ![t].at = IF known THEN place ELSE @,
                        ![t].rest = IF known THEN @ ELSE Tail(@),
                        ![t].mark = IF known THEN @ ELSE ""]

PurgeNext(t) ==
    /\ At(t, "purgeNext")
    /\ \/ op[t].rest # <<>> /\ OpenNext(t, "purgeCount") /\ UNCHANGED user
       \/ op[t].rest = <<>> /\ user' = ReleaseUser(op[t].u) /\ Done(t) /\ UNCHANGED group
    /\ UNCHANGED <<requests, cut>>

\* Mutant: only the default group is counted down.
PurgeCountFirst(t) ==
    LET g == Head(op[t].rest) IN
    /\ At(t, "purgeCount") /\ Free(group[g])
    /\ group' = [group EXCEPT ![g] = GroupFile_Close([@ EXCEPT
                    !.Users = IF op[t].mark = "first" THEN @ - 1 ELSE @])]
    /\ op' = [op EXCEPT ![t].at = "purgeNext", ![t].rest = Tail(@), ![t].mark = ""]
    /\ UNCHANGED <<user, requests, cut>>

PurgeCount(t) ==
    LET g == Head(op[t].rest)
        slot == op[t].mark = "first" /\ group[g].slots # -1 IN
    /\ At(t, "purgeCount") /\ Free(group[g])
    /\ group' = [group EXCEPT ![g] = GroupFile_Close(
                    IF Registered(@) THEN [@ EXCEPT !.Users = @ - 1,
                                                    !.slots = IF slot THEN @ + 1 ELSE @]
                    ELSE @)]
    /\ op' = [op EXCEPT ![t].at = "purgeNext", ![t].rest = Tail(@), ![t].mark = ""]
    /\ UNCHANGED <<user, requests, cut>>

-----------------------------------------------------------------------------
(* Admin_AddUserX: the group is locked until the user is complete.  A      *)
(* group admin needs a slot.                                               *)
Admin_AddUser(t, g)      == AsksGroup(t, g, "addUser", "site")
Admin_GroupAddUser(t, g) == g # NOGROUP_ID /\ AsksGroup(t, g, "addUser", "admin")

LockGroup(t) ==
    LET g == op[t].g IN
    /\ At(t, "addUser") /\ Free(group[g])
    /\ \/ /\ Registered(group[g])
          /\ group' = [group EXCEPT ![g] = Lock(@, t)]
          /\ Goto(t, "create")
       \/ /\ ~ Registered(group[g])
          /\ group' = [group EXCEPT ![g] = GroupFile_Close(@)]
          /\ Done(t)
    /\ UNCHANGED <<user, requests, cut>>

(* The groups of a new user: those of the template with his group in front *)
(* of them, of which a full list drops the last.                           *)
NewGroups(g) ==
    LET kept == Without(Template, NOGROUP_ID) IN
    IF g # NOGROUP_ID
      THEN LET all == <<g>> \o Without(kept, g) IN
           SubSeq(all, 1, IF Len(all) > MAX_GROUPS THEN MAX_GROUPS ELSE Len(all))
      ELSE IF kept = <<>> THEN <<NOGROUP_ID>> ELSE kept

NeedsSlot(t) == op[t].mark = "admin"

\* Mutant: a group admin may add users without a slot.
CreateUserAnyway(t) ==
    LET g == op[t].g
        slot == NeedsSlot(t) /\ group[g].slots # -1 IN
    /\ At(t, "create")
    /\ \E u \in Users :
         /\ user[u].is = "free"
         /\ user' = [user EXCEPT ![u] = [FreeUser EXCEPT !.is = "registered", !.lOpenCount = 1,
                                           !.hPrimaryLock = t, !.groups = NewGroups(g)]]
         /\ op' = [op EXCEPT ![t].at = "addOther", ![t].u = u, ![t].rest = Without(NewGroups(g), g)]
    /\ group' = [group EXCEPT ![g].Users = @ + 1, ![g].slots = IF slot THEN @ - 1 ELSE @]
    /\ UNCHANGED <<requests, cut>>

(* CreateUser; the new user is opened and locked at once, for nobody else  *)
(* names him yet.                                                          *)
CreateUser(t) ==
    LET g == op[t].g
        slot == NeedsSlot(t) /\ group[g].slots # -1
        member == g \in ToSet(NewGroups(g)) IN
    /\ At(t, "create")
    /\ NeedsSlot(t) => group[g].slots # 0
    /\ \E u \in Users :
         /\ user[u].is = "free"
         /\ user' = [user EXCEPT ![u] = [FreeUser EXCEPT !.is = "registered", !.lOpenCount = 1,
                                           !.hPrimaryLock = t, !.groups = NewGroups(g)]]
         /\ op' = [op EXCEPT ![t].at = "addOther", ![t].u = u, ![t].rest = Without(NewGroups(g), g)]
    /\ group' = [group EXCEPT ![g].Users = IF member THEN @ + 1 ELSE @,
                              ![g].slots = IF slot THEN @ - 1 ELSE @]
    /\ UNCHANGED <<requests, cut>>

\* There is no slot, or the name of the user is taken.
NotCreated(t) ==
    /\ At(t, "create")
    /\ group' = ReleaseGroup(op[t].g)
    /\ Done(t)
    /\ UNCHANGED <<user, requests, cut>>

(* Every other group of the user is opened, locked, counted and closed     *)
(* while the first is locked.                                              *)
AddToOther(t) ==
    /\ At(t, "addOther")
    /\ \/ op[t].rest # <<>> /\ OpenNext(t, "addCount") /\ UNCHANGED user
       \/ op[t].rest = <<>> /\ user' = ReleaseUser(op[t].u) /\ Goto(t, "added") /\ UNCHANGED group
    /\ UNCHANGED <<requests, cut>>

AddCount(t) ==
    LET g == Head(op[t].rest) IN
    /\ At(t, "addCount") /\ Free(group[g])
    /\ group' = [group EXCEPT ![g] = GroupFile_Close(
                    IF Registered(@) THEN [@ EXCEPT !.Users = @ + 1] ELSE @)]
    /\ op' = [op EXCEPT ![t].at = "addOther", ![t].rest = Tail(@)]
    /\ UNCHANGED <<user, requests, cut>>

Added(t) ==
    /\ At(t, "added")
    /\ group' = ReleaseGroup(op[t].g)
    /\ Done(t)
    /\ UNCHANGED <<user, requests, cut>>

-----------------------------------------------------------------------------
(* Admin_ChangeUserGroups: the user stays locked, NOGROUP_ID is taken off  *)
(* his list for the time of the command.                                   *)
Admin_ChangeUserGroups(t, u) == AsksUser(t, u, "change")

LockUser(t) ==
    LET u == op[t].u
        inNoGroup == IF NOGROUP_ID \in ToSet(user[u].groups) THEN 1 ELSE 0 IN
    /\ At(t, "change") /\ Free(user[u])
    /\ \/ /\ Registered(user[u])
          /\ user' = [user EXCEPT ![u] = Lock([@ EXCEPT !.groups = Without(@, NOGROUP_ID)], t)]
          /\ op' = [op EXCEPT ![t].at = "argument", ![t].inNoGroup = inNoGroup]
       \/ /\ ~ Registered(user[u])
          /\ user' = [user EXCEPT ![u] = UserFile_Close(@)]
          /\ Done(t)
    /\ UNCHANGED <<group, requests, cut>>

\* The marks of an argument: make it the default group, add, remove, or the other way round.
Marks == {".", "+", "-", ""}

(* The next argument: the group of the one before is given back, the new   *)
(* one opened, if there is such a group.                                   *)
NextArgument(t, mark, g) ==
    LET known == Registered(group[g])
        rest == ReleaseGroup(op[t].g) IN
    /\ Asks(t, "argument")
    /\ group' = IF known THEN [rest EXCEPT ![g] = Open(@)] ELSE rest
    /\ op' = [op EXCEPT ![t].at = IF known THEN "group" ELSE "argument",
                        ![t].g = IF known THEN g ELSE NoGroup,
                        ![t].mark = mark]
    /\ UNCHANGED <<user, cut>>

\* Whether a group with that mark is to be removed from the list, or put on it.
Removes(mark, gs, g) == g \in ToSet(gs) /\ mark \in {"-", ""}
Appends(mark, gs, g) == g \notin ToSet(gs) /\ Len(gs) < MAX_GROUPS /\ mark \in {"+", "", "."}
Fronts(mark, gs, g)  == g \in ToSet(gs) /\ gs[1] # g /\ mark = "."

\* The groups in front of g in a list, and behind it.
Before(gs, g) == SubSeq(gs, 1, CHOOSE i \in 0 .. Len(gs) - 1 : gs[i + 1] = g)
Behind(gs, g) == SubSeq(gs, Len(Before(gs, g)) + 2, Len(gs))

(* What an argument makes of the list.  A group that is on the list and    *)
(* made the default one is moved to the front, and the end of the list set *)
(* where it was: what stood behind it is lost.                             *)
Changed(mark, gs, g) ==
    CASE g = NOGROUP_ID                        -> gs
      [] Removes(mark, gs, g)                  -> Without(gs, g)
      [] Appends(mark, gs, g) /\ mark = "."    -> <<g>> \o gs
      [] Appends(mark, gs, g)                  -> Append(gs, g)
      [] Fronts(mark, gs, g)                   -> <<g>> \o Before(gs, g)
      [] OTHER                                 -> gs


(* The group is locked and stays so until the next argument. *)
ChangeGroup(t) ==
    LET u == op[t].u
        g == op[t].g
        gs == user[u].groups
        new == Changed(op[t].mark, gs, g)
        lost == IF g # NOGROUP_ID /\ Fronts(op[t].mark, gs, g) THEN ToSet(Behind(gs, g)) ELSE {} IN
    /\ At(t, "group") /\ Free(group[g])
    /\ \/ /\ Registered(group[g])
          /\ group' = [group EXCEPT ![g] = Lock([@ EXCEPT !.Users =
                          @ + (IF g \in ToSet(new) THEN 1 ELSE 0) - (IF g \in ToSet(gs) THEN 1 ELSE 0)], t)]
          /\ user' = [user EXCEPT ![u].groups = new]
          /\ cut' = [h \in Gids |-> IF h \in lost THEN cut[h] + 1 ELSE cut[h]]
          /\ Goto(t, "argument")
       \/ /\ ~ Registered(group[g])
          /\ group' = [group EXCEPT ![g] = GroupFile_Close(@)]
          /\ op' = [op EXCEPT ![t].at = "argument", ![t].g = NoGroup]
          /\ UNCHANGED <<user, cut>>
    /\ UNCHANGED requests

(* The argument -*: every group of the list, one after another. *)
RemoveAll(t) ==
    /\ Asks(t, "argument")
    /\ group' = ReleaseGroup(op[t].g)
    /\ op' = [op EXCEPT ![t].at = "all", ![t].g = NoGroup,
                        ![t].rest = user[op[t].u].groups]
    /\ UNCHANGED <<user, cut>>

RemoveNext(t) ==
    /\ At(t, "all")
    /\ \/ op[t].rest # <<>> /\ OpenNext(t, "allCount")
       \/ op[t].rest = <<>> /\ Goto(t, "argument") /\ UNCHANGED group
    /\ UNCHANGED <<user, requests, cut>>

RemoveCount(t) ==
    LET g == Head(op[t].rest) IN
    /\ At(t, "allCount") /\ Free(group[g])
    /\ group' = [group EXCEPT ![g] = GroupFile_Close(
                    IF Registered(@) THEN [@ EXCEPT !.Users = @ - 1] ELSE @)]
    /\ user' = [user EXCEPT ![op[t].u].groups = IF Registered(group[g]) THEN Without(@, g) ELSE @]
    /\ op' = [op EXCEPT ![t].at = "all", ![t].rest = Tail(@)]
    /\ UNCHANGED <<requests, cut>>

\* Whether the user joins NOGROUP_ID, or leaves it.
Joins(t)  == user[op[t].u].groups = <<>> /\ op[t].inNoGroup = 0
Leaves(t) == user[op[t].u].groups # <<>> /\ op[t].inNoGroup # 0

NoMoreArguments(t) ==
    LET rest == ReleaseGroup(op[t].g) IN
    /\ At(t, "argument")
    /\ group' = IF Joins(t) \/ Leaves(t) THEN [rest EXCEPT ![NOGROUP_ID] = Open(@)] ELSE rest
    /\ op' = [op EXCEPT ![t].at = IF Joins(t) \/ Leaves(t) THEN "noGroup" ELSE "changed",
                        ![t].g = NoGroup]
    /\ UNCHANGED <<user, requests, cut>>

CountNoGroup(t) ==
    /\ At(t, "noGroup") /\ Free(group[NOGROUP_ID])
    /\ group' = [group EXCEPT ![NOGROUP_ID] = GroupFile_Close([@ EXCEPT
                    !.Users = IF Leaves(t) THEN @ - op[t].inNoGroup ELSE @ + 1])]
    /\ Goto(t, "changed")
    /\ UNCHANGED <<user, requests, cut>>

ChangeDone(t) ==
    LET u == op[t].u IN
    /\ At(t, "changed")
    /\ user' = [user EXCEPT ![u] = UserFile_Close(Unlock([@ EXCEPT
                    !.groups = IF @ = <<>> THEN <<NOGROUP_ID>> ELSE @]))]
    /\ Done(t)
    /\ UNCHANGED <<group, requests, cut>>

-----------------------------------------------------------------------------
(* What is asked: commands, and the arguments of CHGRP.  No fairness. *)
Request(t) ==
    \/ Admin_AddGroup(t)
    \/ \E g \in Gids : Admin_DeleteGroup(t, g) \/ Admin_AddUser(t, g) \/ Admin_GroupAddUser(t, g)
    \/ \E u \in Users : \/ Admin_DeleteUser(t, u) \/ Admin_ReAdd(t, u)
                        \/ Admin_Purge(t, u) \/ Admin_ChangeUserGroups(t, u)
    \/ RemoveAll(t) \/ \E mark \in Marks, g \in Gids : NextArgument(t, mark, g)

\* What a thread does of itself.
Step(t) ==
    \/ DeleteGroup(t) \/ SetDeleted(t)
    \/ PurgeUser(t) \/ PurgeNext(t) \/ PurgeCount(t)
    \/ LockGroup(t) \/ CreateUser(t) \/ NotCreated(t) \/ AddToOther(t) \/ AddCount(t) \/ Added(t)
    \/ LockUser(t) \/ ChangeGroup(t) \/ RemoveNext(t) \/ RemoveCount(t)
    \/ NoMoreArguments(t) \/ CountNoGroup(t) \/ ChangeDone(t)

Next == \E t \in Threads : Request(t) \/ Step(t)

Spec == Init /\ [][Next]_vars /\ \A t \in Threads : WF_vars(Step(t))

-----------------------------------------------------------------------------
Quiet == \A t \in Threads : At(t, "idle")
Members(g) == Cardinality({u \in Users : Registered(user[u]) /\ g \in ToSet(user[u].groups)})
                + IF g \in Standing THEN 1 ELSE 0


(* Users are added with one group locked, by commands each of which waits   *)
(* for the group of the next.                                              *)
Embraced ==
    \E adders \in SUBSET Threads \ {{}} :
      \A t \in adders : At(t, "addCount") /\ \E s \in adders : Head(op[t].rest) = op[s].g


(* GroupFile.h: Users is "# of users in this group".                       *)
UsersCounted == Quiet => \A g \in Gids : Registered(group[g]) => group[g].Users = Members(g)

=============================================================================
