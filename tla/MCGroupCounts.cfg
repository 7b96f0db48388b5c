CONSTANTS
    t1 = t1
    t2 = t2
    u1 = u1
    u2 = u2
    nogroup = nogroup
    a = a
    b = b
    c = c
    Threads = {t1, t2}
    Users = {u1, u2}
    Gids = {nogroup, a, b, c}
    NOGROUP_ID = nogroup
    Template <- MCTemplate
    Standing <- MCStanding
    FirstUser = u1
    FirstGroups <- MCGroups
    SLOTS = 1
    MAX_GROUPS = 3
    MAX_REQUESTS = 4
    NoThread = NoThread
    NoUser = NoUser
    NoGroup = NoGroup
    \* two names and three ids of groups, and the edit that adds a user
    GroupNames = {g, h}
    GroupIds <- MCIds
    GroupItems <- MCItems
    GROUP_SUBTABLE = 2
    NoGroupName = NoGroupName
    Openers = {o1, o2}
    NoOpener = NoOpener
    FirstGroup = g
    GroupEdits = {adduser}
    MemberEdits = {adduser}
    MAX_GROUP_REQUESTS = 3
SPECIFICATION MCSpec
INVARIANT UsersCounted
CHECK_DEADLOCK FALSE
