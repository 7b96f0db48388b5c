--------------------------- MODULE DirectoryCache ---------------------------
(***************************************************************************)
(* The cache of directories (DirectoryCache.c).  A directory that is       *)
(* cached has an entry, which threads hold one at a time; entries nobody   *)
(* holds or waits for are on a list, from which the longest unused goes    *)
(* when the table is full.  Opening a directory brings the entry up to     *)
(* date if it was marked, or if its time on the disk is another one, and   *)
(* reads who owns what from the file .ioFTPD of the directory.             *)
(*                                                                         *)
(* The threads work with stacks of calls: a recursive open holds a         *)
(* directory while it opens those below it, an update holds one that it    *)
(* has opened.                                                             *)
(*                                                                         *)
(* NTFS_Reparse_Method is IGNORE, the default.  There is one bucket.  What *)
(* the listing says of a directory below is left out: whether a recursive  *)
(* open finds it already populated is left open.  Memory and, in a         *)
(* directory that exists, the file system never fail.  Directories that    *)
(* are moved have no directories in them.                                  *)
(***************************************************************************)
EXTENDS Integers, FiniteSets, SequencesExt

CONSTANTS DirThreads, Dirs, NoDir,
          ParentDir,             \* the directory each directory is in, or NoDir
          Files,              \* the names of files
          Self,               \* the directory itself, among what has an owner
          Existing,           \* the directories there are at first
          Plans,              \* what the threads may be asked to do
          dwCacheBucketSize,
          MAX_JOBS            \* bound on the jobs of one thread

Job(op, dir, x) == [op |-> op, dir |-> dir, x |-> x]

\* What is asked of a directory, of a file in it, and where to a directory
\* is moved.  The directories that are made are in others.
Made == {d \in Dirs : ParentDir[d] # NoDir}
Asked ==
    {Job(op, d, Self) : op \in {"open", "size", "rmdir"}, d \in Dirs} \cup {Job("mkdir", d, Self) : d \in Made}
    \cup {Job(op, d, x) : op \in {"upload", "delete"}, d \in Dirs, x \in Files}
    \cup {Job("move", d, e) : d \in Dirs, e \in Made}

ASSUME DirectoryAssumption ==
    /\ IsFiniteSet(DirThreads) /\ IsFiniteSet(Dirs)
    /\ NoDir \notin Dirs /\ Self \notin Files
    /\ ParentDir \in [Dirs -> Dirs \cup {NoDir}] /\ Existing \subseteq Dirs
    /\ Plans \subseteq [DirThreads -> SUBSET Asked]
    /\ dwCacheBucketSize \in Nat \ {0} /\ MAX_JOBS \in [DirThreads -> Nat]

VARIABLES
    volume,             \* the directories, and in .ioFTPD what has a recorded owner
    entry,            \* their entries in the table
    lpDirectoryList,  \* those nobody uses, the last used first
    dwAllocated,
    stack,            \* the calls each thread is in, the outermost first
    plan,             \* the jobs each thread may be asked to do,
    jobs,             \* and how many it has begun
    promised,         \* what an open that starts now must see of each directory
    owners,           \* what has been given an owner and is still there
    intruded,         \* the directories that were unlocked while others had them
    overlooked        \* those found missing whose old contents stayed in the table

cache == <<entry, lpDirectoryList, dwAllocated>>
dirghosts == <<promised, owners, intruded, overlooked>>
asked == <<plan, jobs>>
dirvars == <<volume, cache, stack, asked, dirghosts>>

NoInfo  == [stamp |-> -1, files |-> {}, owned |-> {}]
NoEntry == [cached |-> FALSE, lReferenceCount |-> 0, hEvent |-> "none", lForceUpdate |-> FALSE,
            bLocked |-> FALSE, ftCacheTime |-> -1, info |-> NoInfo]
NewEntry == [NoEntry EXCEPT !.cached = TRUE, !.lReferenceCount = 2, !.lForceUpdate = TRUE]

DirInit ==
    /\ volume = [d \in Dirs |-> [exists |-> d \in Existing, stamp |-> 0, mtime |-> 0,
                               files |-> {}, perms |-> {}]]
    /\ entry = [d \in Dirs |-> NoEntry]
    /\ lpDirectoryList = <<>> /\ dwAllocated = 0
    /\ stack = [t \in DirThreads |-> <<>>]
    /\ plan \in Plans /\ jobs = [t \in DirThreads |-> 0]
    /\ promised = [d \in Dirs |-> 0]
    /\ owners = [d \in Dirs |-> {}] /\ intruded = {} /\ overlooked = {}

-----------------------------------------------------------------------------
(* The calls.                                                              *)
Frame(op, at, d, x, recursive, keep, due) ==
    [op |-> op, at |-> at, on |-> NoDir, then |-> "", dir |-> d, x |-> x, recursive |-> recursive,
     keep |-> keep, check |-> TRUE, missing |-> FALSE, failed |-> FALSE, due |-> due, seen |-> 0,
     list |-> NoInfo, got |-> {}, todo |-> {}, holds |-> {}]

Open(d, recursive, keep) == Frame("open", "acquire", d, Self, recursive, keep, promised[d])
Update(d, x)             == Frame("update", "call", d, x, FALSE, FALSE, 0)
Begun(op, d, x)          == Frame(op, "begin", d, x, FALSE, FALSE, 0)

Top(t)          == Last(stack[t])
In(t, op, at)   == stack[t] # <<>> /\ Top(t).op = op /\ Top(t).at = at
Become(t, f)    == stack' = [stack EXCEPT ![t] = Append(Front(@), f)]
GoOn(t, at)     == Become(t, [Top(t) EXCEPT !.at = at])
Enter(t, g, f)  == stack' = [stack EXCEPT ![t] = Append(Append(Front(@), g), f)]
Call(t, at, f)  == Enter(t, [Top(t) EXCEPT !.at = at], f)
Return(t)       == stack' = [stack EXCEPT ![t] = Front(@)]
\* The caller learns whether the call has failed, and has what it keeps.
Told(t, f, ok, kept) ==
    [f EXCEPT !.failed = ~ ok, !.holds = @ \cup kept, !.got = entry[Top(t).dir].info.owned]
ReturnTo(t, ok, kept) ==
    LET rest == Front(stack[t]) IN
    stack' = [stack EXCEPT ![t] = IF rest = <<>> THEN rest
                                  ELSE Append(Front(rest), Told(t, Last(rest), ok, kept))]

\* The calls of the threads, those that have a directory, and those that
\* wait for it.
Calls       == UNION {{<<t, n>> : n \in 1..Len(stack[t])} : t \in DirThreads}
CallAt(c)   == stack[c[1]][c[2]]
Holders(d)  == {c \in Calls : d \in CallAt(c).holds}
Waiters(d)  == {c \in Calls : CallAt(c).on = d}

Without(list, d) ==
    IF d \in ToSet(list) THEN RemoveAt(list, CHOOSE i \in DOMAIN list : list[i] = d) ELSE list
Children(d) == {c \in Dirs : ParentDir[c] = d /\ volume[c].exists}

-----------------------------------------------------------------------------
Has(f, d, then)      == [f EXCEPT !.at = then, !.check = TRUE, !.holds = @ \cup {d}]
WaitsFor(f, d, then) == [f EXCEPT !.at = "wait", !.on = d, !.then = then]

(* AcquireDirCacheLock: the first to come has the directory, who comes     *)
(* later waits for the event.                                              *)
Acquire(t, d, tab, list, then) ==
    /\ entry' = [tab EXCEPT ![d].lReferenceCount = @ + 1,
                            ![d].hEvent = IF tab[d].lReferenceCount = 2 /\ @ = "none" THEN "reset" ELSE @]
    /\ lpDirectoryList' = IF tab[d].lReferenceCount = 1 /\ ~ tab[d].bLocked THEN Without(list, d) ELSE list
    /\ Become(t, IF tab[d].lReferenceCount = 1 THEN Has(Top(t), d, then) ELSE WaitsFor(Top(t), d, then))

(* InsertAndAcquireDirCacheLock: room is made before the directory is      *)
(* looked for.  A new entry is held by who made it.                        *)
InsertAndAcquire(t, d, then) ==
    LET full == Cardinality({e \in Dirs : entry[e].cached}) + 1 >= dwAllocated
        gone == IF full /\ lpDirectoryList # <<>> THEN Last(lpDirectoryList) ELSE NoDir
        tab  == [e \in Dirs |-> IF e = gone THEN NoEntry ELSE entry[e]]
        list == Without(lpDirectoryList, gone) IN
    /\ dwAllocated' = IF full /\ gone = NoDir THEN dwAllocated + dwCacheBucketSize ELSE dwAllocated
    /\ \/ /\ ~ tab[d].cached
          /\ entry' = [tab EXCEPT ![d] = NewEntry]
          /\ lpDirectoryList' = list
          /\ Become(t, Has(Top(t), d, then))
       \/ /\ tab[d].cached
          /\ Acquire(t, d, tab, list, then)

\* The event lets one of those who wait go on.
\* Mutant: the event stays set.
WakeAll(t) ==
    LET d == Top(t).on IN
    /\ stack[t] # <<>> /\ Top(t).at = "wait"
    /\ entry[d].hEvent = "set"
    /\ Become(t, [Top(t) EXCEPT !.at = Top(t).then, !.then = "", !.on = NoDir, !.holds = @ \cup {d}])
    /\ UNCHANGED <<volume, cache, asked, dirghosts>>
Wake(t) ==
    LET d == Top(t).on IN
    /\ stack[t] # <<>> /\ Top(t).at = "wait"
    /\ entry[d].hEvent = "set"
    /\ entry' = [entry EXCEPT ![d].hEvent = "reset"]
    /\ Become(t, [Top(t) EXCEPT !.at = Top(t).then, !.then = "", !.on = NoDir,
                                !.check = entry[d].lForceUpdate, !.holds = @ \cup {d}])
    /\ UNCHANGED <<volume, lpDirectoryList, dwAllocated, asked, dirghosts>>

(* ReleaseDirCacheLock2, for a directory that `n` threads less use: it     *)
(* goes to the next, or is unused, or is forgotten.                        *)
\* Mutant: the next is not told.
HandOverQuietly(e, left) == [e EXCEPT !.lReferenceCount = left]
HandOver(e, left)  == [e EXCEPT !.lReferenceCount = left, !.hEvent = IF @ = "none" THEN @ ELSE "set"]
\* Mutant: a directory that is locked goes on the list like any other.
ListAny(list, d, e)  == <<d>> \o list
ListUnused(list, d, e) == IF e.bLocked THEN list ELSE <<d>> \o list

Release2(d, e, n, delete) ==
    LET left == e.lReferenceCount - n IN
    IF left > 1
    THEN /\ entry' = [entry EXCEPT ![d] = HandOver(e, left)]
         /\ UNCHANGED lpDirectoryList
    ELSE /\ entry' = [entry EXCEPT ![d] = IF delete THEN NoEntry
                                          ELSE [e EXCEPT !.lReferenceCount = left, !.hEvent = "none"]]
         /\ lpDirectoryList' = IF delete THEN lpDirectoryList ELSE ListUnused(lpDirectoryList, d, e)

Release(d, e, delete) == Release2(d, e, 1, delete) /\ UNCHANGED dwAllocated

(* MarkDirectory, of each of some directories. *)
\* Mutant: who has the directory is trusted to see the change.
MarkUnheld(D) ==
    /\ entry' = [d \in Dirs |-> [entry[d] EXCEPT !.lForceUpdate = @ \/ (d \in D /\ entry[d].lReferenceCount = 1)]]
    /\ promised' = [d \in Dirs |-> IF d \in D THEN volume[d].stamp ELSE promised[d]]
    /\ UNCHANGED <<lpDirectoryList, dwAllocated>>
Mark(D) ==
    /\ entry' = [d \in Dirs |-> [entry[d] EXCEPT !.lForceUpdate = @ \/ (d \in D /\ entry[d].cached)]]
    /\ promised' = [d \in Dirs |-> IF d \in D THEN volume[d].stamp ELSE promised[d]]
    /\ UNCHANGED <<lpDirectoryList, dwAllocated>>

-----------------------------------------------------------------------------
(* OpenDirectory.                                                          *)
AcquireDirectory(t) ==
    /\ In(t, "open", "acquire")
    /\ InsertAndAcquire(t, Top(t).dir, "opened")
    /\ UNCHANGED <<volume, asked, dirghosts>>

\* lForceUpdate is taken before the disk is looked at.  Who had to wait and
\* finds it unset does not look at the disk.
Exchange(t) ==
    LET d == Top(t).dir IN
    /\ In(t, "open", "opened")
    /\ \E populated \in IF Top(t).recursive /\ entry[d].info # NoInfo THEN BOOLEAN ELSE {TRUE} :
          LET again == entry[d].lForceUpdate \/ ~ populated IN
          Become(t, [Top(t) EXCEPT !.at = IF again \/ Top(t).check THEN "look" ELSE "finish", !.check = ~ again])
    /\ entry' = [entry EXCEPT ![d].lForceUpdate = FALSE]
    /\ UNCHANGED <<volume, lpDirectoryList, dwAllocated, asked, dirghosts>>

LookAtDisk(t) ==
    LET d == Top(t).dir
        e == entry[d] IN
    /\ In(t, "open", "look")
    /\ Become(t, IF ~ volume[d].exists THEN [Top(t) EXCEPT !.at = "finish", !.missing = TRUE, !.failed = TRUE]
                 ELSE IF e.info # NoInfo /\ Top(t).check /\ e.ftCacheTime = volume[d].mtime
                 THEN [Top(t) EXCEPT !.at = "finish"]
                 ELSE [Top(t) EXCEPT !.at = "list", !.seen = volume[d].mtime])
    /\ UNCHANGED <<volume, cache, asked, dirghosts>>

(* UpdateDirectory: the names, then what is below.  An open that does not  *)
(* look below has the directory read again next time.                      *)
ListDirectory(t) ==
    LET d == Top(t).dir
        below == Children(d) IN
    /\ In(t, "open", "list")
    /\ \/ /\ ~ volume[d].exists
          /\ entry' = [entry EXCEPT ![d].info = NoInfo]
          /\ Become(t, [Top(t) EXCEPT !.at = "finish", !.failed = TRUE])
       \/ /\ volume[d].exists
          /\ \E todo \in IF Top(t).recursive THEN SUBSET below ELSE {{}} :
                Become(t, [Top(t) EXCEPT !.at = "below", !.todo = todo,
                              !.list = [NoInfo EXCEPT !.stamp = volume[d].stamp, !.files = volume[d].files]])
          /\ \E again \in IF ~ Top(t).recursive /\ below # {} THEN BOOLEAN ELSE {FALSE} :
                entry' = [entry EXCEPT ![d].lForceUpdate = @ \/ again]
    /\ UNCHANGED <<volume, lpDirectoryList, dwAllocated, asked, dirghosts>>

OpenBelow(t) ==
    /\ In(t, "open", "below")
    /\ \E c \in Top(t).todo : Enter(t, [Top(t) EXCEPT !.todo = @ \ {c}], Open(c, FALSE, FALSE))
    /\ UNCHANGED <<volume, cache, asked, dirghosts>>

(* ReadDirectoryPermissions: what has an entry in .ioFTPD has an owner; a  *)
(* file that was known keeps the one it had.  .ioFTPD is written again if  *)
(* it has entries for files that are not there.                            *)
\* Mutant: what the entry says is trusted.
OwnedBefore(d, list) == entry[d].info.owned \cap (list.files \cup {Self})
Owned(d, list) == (volume[d].perms \cap (list.files \cup {Self})) \cup (entry[d].info.owned \cap list.files)
Rewritten(d, list) ==
    ~ volume[d].perms \subseteq (list.files \cup {Self}) \/ (Self \in volume[d].perms /\ list.files # {})

ReadPermissions(t) ==
    LET d == Top(t).dir
        list == Top(t).list
        owned == Owned(d, list) IN
    /\ In(t, "open", "below") /\ Top(t).todo = {}
    /\ \/ /\ volume[d].exists
          /\ entry' = [entry EXCEPT ![d].info = [list EXCEPT !.owned = owned], ![d].ftCacheTime = Top(t).seen]
          /\ volume' = [volume EXCEPT ![d].perms = IF Rewritten(d, list) THEN owned ELSE @]
          /\ Become(t, [Top(t) EXCEPT !.at = "finish", !.failed = FALSE])
       \/ /\ ~ volume[d].exists
          /\ entry' = [entry EXCEPT ![d].info = [list EXCEPT !.owned = entry[d].info.owned \cap list.files]]
          /\ Become(t, [Top(t) EXCEPT !.at = "finish", !.failed = TRUE])
          /\ UNCHANGED volume
    /\ overlooked' = overlooked \ {d}
    /\ UNCHANGED <<lpDirectoryList, dwAllocated, asked, promised, owners, intruded>>

(* The caller gets what the entry has, unless the directory is locked.  A  *)
(* directory that is not there is forgotten.                               *)
Succeeds(t) == ~ Top(t).failed /\ entry[Top(t).dir].info # NoInfo /\ ~ entry[Top(t).dir].bLocked

FinishOpen(t) ==
    LET d == Top(t).dir IN
    /\ In(t, "open", "finish")
    /\ \/ /\ Succeeds(t) /\ Top(t).keep
          /\ ReturnTo(t, TRUE, {d})
          /\ UNCHANGED cache
       \/ /\ ~ (Succeeds(t) /\ Top(t).keep)
          /\ Release(d, entry[d], Top(t).missing /\ ~ entry[d].bLocked)
          /\ ReturnTo(t, Succeeds(t), {})
    /\ overlooked' = IF Top(t).missing /\ entry'[d].cached THEN overlooked \cup {d} ELSE overlooked
    /\ UNCHANGED <<volume, asked, promised, owners, intruded>>

-----------------------------------------------------------------------------
(* UpdateFileInfo(d, x): gives x an owner.  The directory is held from its *)
(* opening until .ioFTPD has been written.                                 *)
Changed(dk, d) == [e \in Dirs |-> IF e = d THEN [dk[e] EXCEPT !.stamp = @ + 1, !.mtime = @ + 1] ELSE dk[e]]
\* A new .ioFTPD is a change of the directory.
WritePermissions(d, owned) ==
    volume' = [volume EXCEPT ![d].perms = IF volume[d].exists THEN owned ELSE @,
                         ![d].mtime = IF volume[d].exists /\ volume[d].perms = {} THEN @ + 1 ELSE @]

CallUpdate(t) ==
    LET f == Top(t) IN
    /\ In(t, "update", "call")
    /\ IF volume[f.dir].exists /\ (f.x = Self \/ f.x \in volume[f.dir].files)
       THEN Call(t, "held", Open(f.dir, FALSE, TRUE))
       ELSE ReturnTo(t, FALSE, {})
    /\ UNCHANGED <<volume, cache, asked, dirghosts>>

SaveOwner(t) ==
    LET f == Top(t)
        e == entry[f.dir]
        owned == e.info.owned \cup {f.x} IN
    /\ In(t, "update", "held")
    /\ \/ /\ ~ f.failed /\ f.x \in e.info.files \cup {Self}
          /\ WritePermissions(f.dir, owned)
          /\ Release(f.dir, [e EXCEPT !.info.owned = owned], FALSE)
          /\ owners' = [owners EXCEPT ![f.dir] = IF f.x \in volume[f.dir].files \cup {Self} THEN @ \cup {f.x} ELSE @]
          /\ IF f.x = Self /\ ParentDir[f.dir] # NoDir
             THEN Become(t, [f EXCEPT !.at = "mark", !.holds = {}])
             ELSE ReturnTo(t, TRUE, {})
       \/ /\ ~ f.failed /\ f.x \notin e.info.files \cup {Self}
          /\ Release(f.dir, e, FALSE)
          /\ ReturnTo(t, FALSE, {})
          /\ UNCHANGED <<volume, owners>>
       \/ /\ f.failed
          /\ ReturnTo(t, FALSE, {})
          /\ UNCHANGED <<volume, cache, owners>>
    /\ UNCHANGED <<asked, promised, intruded, overlooked>>

\* MarkDirectory2 of the parent, with the name of the directory.
MarkParentOf(t) ==
    LET p == ParentDir[Top(t).dir] IN
    /\ In(t, "update", "mark")
    /\ promised' = [promised EXCEPT ![p] = volume[p].stamp]
    /\ \/ /\ entry[p].cached
          /\ Acquire(t, p, [entry EXCEPT ![p].lForceUpdate = TRUE], lpDirectoryList, "marking")
          /\ UNCHANGED dwAllocated
       \/ /\ ~ entry[p].cached
          /\ ReturnTo(t, TRUE, {})
          /\ UNCHANGED cache
    /\ UNCHANGED <<volume, asked, owners, intruded, overlooked>>

EndMark(t) ==
    LET p == ParentDir[Top(t).dir] IN
    /\ In(t, "update", "marking")
    /\ Release(p, [entry[p] EXCEPT !.lForceUpdate = TRUE], FALSE)
    /\ ReturnTo(t, TRUE, {})
    /\ UNCHANGED <<volume, asked, dirghosts>>

-----------------------------------------------------------------------------
(* The jobs: what the commands of the clients do with a directory.         *)
Started(j) ==
    IF j.op \in {"open", "size"} THEN Open(j.dir, j.op = "size", FALSE) ELSE Begun(j.op, j.dir, j.x)

Begin(t) ==
    /\ stack[t] = <<>> /\ jobs[t] < MAX_JOBS[t]
    /\ jobs' = [jobs EXCEPT ![t] = @ + 1]
    /\ \E j \in plan[t] : stack' = [stack EXCEPT ![t] = <<Started(j)>>]
    /\ UNCHANGED <<plan, volume, cache, dirghosts>>

\* MarkParent, of the directory and then of the one it is in.
MarkDir(t) ==
    /\ stack[t] # <<>> /\ Top(t).op \in {"upload", "delete", "rmdir", "move"}
    /\ Top(t).at \in {"mark", "mark parent"}
    /\ IF Top(t).at = "mark"
       THEN Mark({Top(t).dir}) /\ GoOn(t, "mark parent")
       ELSE Mark({ParentDir[d] : d \in {Top(t).dir, Top(t).x} \cap Dirs}) /\ Return(t)
    /\ UNCHANGED <<volume, asked, owners, intruded, overlooked>>

(* An upload: the file is there, it grows, it gets its owner.              *)
CreateFile(t) ==
    LET f == Top(t) IN
    /\ In(t, "upload", "begin")
    /\ IF volume[f.dir].exists /\ f.x \notin volume[f.dir].files
       THEN /\ volume' = [Changed(volume, f.dir) EXCEPT ![f.dir].files = @ \cup {f.x}]
            /\ GoOn(t, "write")
       ELSE Return(t) /\ UNCHANGED volume
    /\ UNCHANGED <<cache, asked, dirghosts>>

WriteFile(t) ==
    LET f == Top(t) IN
    /\ In(t, "upload", "write")
    /\ volume' = [volume EXCEPT ![f.dir].stamp = @ + (IF f.x \in volume[f.dir].files THEN 1 ELSE 0)]
    /\ Call(t, "mark", Update(f.dir, f.x))
    /\ UNCHANGED <<cache, asked, dirghosts>>

(* IoDeleteFile. *)
DeleteFile(t) ==
    LET f == Top(t) IN
    /\ In(t, "delete", "begin")
    /\ IF f.x \in volume[f.dir].files
       THEN /\ volume' = [Changed(volume, f.dir) EXCEPT ![f.dir].files = @ \ {f.x}]
            /\ owners' = [owners EXCEPT ![f.dir] = @ \ {f.x}]
            /\ GoOn(t, "mark")
       ELSE Return(t) /\ UNCHANGED <<volume, owners>>
    /\ UNCHANGED <<cache, asked, promised, intruded, overlooked>>

MakeDirectory(t) ==
    LET d == Top(t).dir IN
    /\ In(t, "mkdir", "begin")
    /\ IF ~ volume[d].exists /\ volume[ParentDir[d]].exists
       THEN /\ volume' = [Changed(Changed(volume, d), ParentDir[d]) EXCEPT ![d].exists = TRUE]
            /\ Call(t, "done", Update(d, Self))
       ELSE Return(t) /\ UNCHANGED volume
    /\ UNCHANGED <<cache, asked, dirghosts>>

Returned(t) ==
    /\ stack[t] # <<>> /\ Top(t).at = "done"
    /\ Return(t)
    /\ UNCHANGED <<volume, cache, asked, dirghosts>>

(* IoRemoveDirectory: .ioFTPD goes first, if there is nothing else.  If    *)
(* the directory cannot be removed its owner is recorded again.            *)
StatDirectory(t) ==
    /\ In(t, "rmdir", "begin")
    /\ IF volume[Top(t).dir].exists THEN Call(t, "scan", Open(Top(t).dir, TRUE, FALSE)) ELSE Return(t)
    /\ UNCHANGED <<volume, cache, asked, dirghosts>>

IsEmpty(d) == volume[d].files = {} /\ Children(d) = {}

DeletePermissions(t) ==
    LET d == Top(t).dir IN
    /\ In(t, "rmdir", "scan")
    /\ IF Top(t).failed \/ (~ IsEmpty(d) /\ volume[d].perms # {})
       THEN Return(t) /\ UNCHANGED volume
       ELSE /\ volume' = [volume EXCEPT ![d].perms = {}, ![d].mtime = @ + (IF volume[d].perms = {} THEN 0 ELSE 1)]
            /\ GoOn(t, "remove")
    /\ UNCHANGED <<cache, asked, dirghosts>>

Removed(dk, d) == [Changed(Changed(dk, d), ParentDir[d]) EXCEPT ![d].exists = FALSE]

RemoveDirectory(t) ==
    LET d == Top(t).dir IN
    /\ In(t, "rmdir", "remove")
    /\ IF volume[d].exists /\ IsEmpty(d)
       THEN /\ volume' = [Removed(volume, d) EXCEPT ![d].perms = {}]
            /\ owners' = [owners EXCEPT ![d] = {}]
            /\ GoOn(t, "mark parent")
       ELSE /\ IF Self \in Top(t).got THEN Call(t, "done", Update(d, Self)) ELSE Return(t)
            /\ UNCHANGED <<volume, owners>>
    /\ UNCHANGED <<cache, asked, promised, intruded, overlooked>>

-----------------------------------------------------------------------------
(* IoMoveDirectory(d, x).  Both entries are held until the new directory   *)
(* is there and has the .ioFTPD of the old one.  While the files move the  *)
(* entries are not held but locked, and who opens the directories gets an  *)
(* error.                                                                  *)
MoveBegins(t) ==
    LET f == Top(t) IN
    /\ In(t, "move", "begin")
    /\ IF f.dir = f.x \/ volume[f.x].exists
       THEN Return(t) /\ UNCHANGED cache
       ELSE InsertAndAcquire(t, f.dir, "source")
    /\ UNCHANGED <<volume, asked, dirghosts>>

MoveSource(t) ==
    LET f == Top(t) IN
    /\ In(t, "move", "source")
    /\ IF entry[f.dir].bLocked \/ ~ volume[f.dir].exists
       THEN /\ Become(t, [f EXCEPT !.at = "unlock", !.failed = TRUE])
            /\ UNCHANGED cache
       ELSE InsertAndAcquire(t, f.x, "target")
    /\ UNCHANGED <<volume, asked, dirghosts>>

MoveTarget(t) ==
    LET f == Top(t)
        list == [NoInfo EXCEPT !.stamp = volume[f.dir].stamp, !.files = volume[f.dir].files]
        owned == Owned(f.dir, list) IN
    /\ In(t, "move", "target")
    /\ \/ /\ ~ entry[f.x].bLocked /\ ~ volume[f.x].exists /\ volume[ParentDir[f.x]].exists /\ volume[f.dir].exists
          /\ volume' = [Changed(Changed(volume, f.x), ParentDir[f.x])
                         EXCEPT ![f.x].exists = TRUE, ![f.x].perms = owned,
                                ![f.dir].perms = IF Rewritten(f.dir, list) THEN owned ELSE @]
          /\ entry' = [entry EXCEPT ![f.dir].info = [list EXCEPT !.owned = owned],
                                    ![f.dir].ftCacheTime = volume[f.dir].mtime,
                                    ![f.dir].bLocked = TRUE, ![f.x].bLocked = TRUE]
          /\ Become(t, [f EXCEPT !.at = "release", !.got = owned])
       \/ /\ entry[f.x].bLocked \/ volume[f.x].exists \/ ~ volume[ParentDir[f.x]].exists \/ ~ volume[f.dir].exists
          /\ Become(t, [f EXCEPT !.at = "unlock", !.failed = TRUE])
          /\ UNCHANGED <<volume, entry>>
    /\ UNCHANGED <<lpDirectoryList, dwAllocated, asked, dirghosts>>

MoveRelease(t) ==
    LET f == Top(t)
        d == IF f.dir \in f.holds THEN f.dir ELSE f.x IN
    /\ In(t, "move", "release")
    /\ Release(d, entry[d], FALSE)
    /\ Become(t, [f EXCEPT !.holds = @ \ {d}, !.at = IF d = f.dir THEN "release" ELSE "files"])
    /\ UNCHANGED <<volume, asked, dirghosts>>

\* The files, as they are found in the old directory; or no more is found.
MoveFile(t) ==
    LET f == Top(t) IN
    /\ In(t, "move", "files")
    /\ \E x \in volume[f.dir].files \ f.todo :
          IF x \in volume[f.x].files
          THEN /\ Become(t, [f EXCEPT !.failed = TRUE, !.todo = @ \cup {x}])
               /\ UNCHANGED <<volume, owners>>
          ELSE /\ volume' = [Changed(Changed(volume, f.dir), f.x) EXCEPT ![f.dir].files = @ \ {x},
                                                                     ![f.x].files = @ \cup {x}]
               /\ owners' = [owners EXCEPT ![f.dir] = @ \ {x}, ![f.x] = @ \cup (owners[f.dir] \cap {x})]
               /\ UNCHANGED stack
    /\ UNCHANGED <<cache, asked, promised, intruded, overlooked>>

MoveRest(t) ==
    LET f == Top(t)
        d == f.dir
        ok == ~ f.failed /\ volume[d].exists /\ IsEmpty(d) IN
    /\ In(t, "move", "files")
    /\ volume' = IF f.failed THEN volume
               ELSE [(IF ok THEN Removed(volume, d) ELSE volume) EXCEPT ![d].perms = {}]
    /\ owners' = IF ok THEN [owners EXCEPT ![d] = {}, ![f.x] = @ \cup (owners[d] \cap {Self})] ELSE owners
    /\ Become(t, [f EXCEPT !.failed = ~ ok,
                           !.at = IF ok \/ f.failed THEN "unlock" ELSE "restore"])
    /\ UNCHANGED <<cache, asked, promised, intruded, overlooked>>

\* The old directory was not empty: what its entry says is recorded again.
MoveRestore(t) ==
    LET d == Top(t).dir IN
    /\ In(t, "move", "restore")
    /\ Acquire(t, d, entry, lpDirectoryList, "restored")
    /\ UNCHANGED <<volume, dwAllocated, asked, dirghosts>>

MoveRestored(t) ==
    LET d == Top(t).dir IN
    /\ In(t, "move", "restored")
    /\ WritePermissions(d, entry[d].info.owned)
    /\ Release(d, [entry[d] EXCEPT !.lForceUpdate = TRUE], FALSE)
    /\ Become(t, [Top(t) EXCEPT !.at = "unlock", !.holds = {}])
    /\ UNCHANGED <<asked, dirghosts>>

\* The locks go, whoever has the entries; what is still held is released.
\* ReleaseDirCacheLock2 takes whoever has an entry meanwhile for the next.
Unlocked(d) == [entry[d] EXCEPT !.lForceUpdate = TRUE, !.bLocked = FALSE]
MoveUnlock(t) ==
    LET f == Top(t)
        d == IF f.at = "unlock" THEN f.dir ELSE f.x
        held == d \in f.holds IN
    /\ stack[t] # <<>> /\ f.op = "move" /\ f.at \in {"unlock", "unlock target"}
    /\ IF held THEN Release(d, [entry[d] EXCEPT !.lForceUpdate = TRUE], FALSE)
       ELSE Release2(d, Unlocked(d), 0, f.at = "unlock" /\ ~ f.failed) /\ UNCHANGED dwAllocated
    /\ Become(t, [f EXCEPT !.at = IF f.at = "unlock" /\ (f.x \in f.holds \/ ~ held) THEN "unlock target"
                                  ELSE "mark parent", !.holds = @ \ {d}])
    /\ intruded' = IF ~ held /\ Holders(d) # {} /\ entry'[d].hEvent = "set" THEN intruded \cup {d} ELSE intruded
    /\ UNCHANGED <<volume, asked, promised, owners, overlooked>>

-----------------------------------------------------------------------------
OpenStep(t) ==
    \/ AcquireDirectory(t) \/ Wake(t) \/ Exchange(t) \/ LookAtDisk(t) \/ ListDirectory(t)
    \/ OpenBelow(t) \/ ReadPermissions(t) \/ FinishOpen(t)
UpdateStep(t) == CallUpdate(t) \/ SaveOwner(t) \/ MarkParentOf(t) \/ EndMark(t)
CommandStep(t) ==
    \/ Begin(t) \/ MarkDir(t) \/ CreateFile(t) \/ WriteFile(t) \/ DeleteFile(t) \/ MakeDirectory(t)
    \/ Returned(t) \/ StatDirectory(t) \/ DeletePermissions(t) \/ RemoveDirectory(t)
MoveStep(t) ==
    \/ MoveBegins(t) \/ MoveSource(t) \/ MoveTarget(t) \/ MoveRelease(t) \/ MoveFile(t) \/ MoveRest(t)
    \/ MoveRestore(t) \/ MoveRestored(t) \/ MoveUnlock(t)

DirNext == \E t \in DirThreads : OpenStep(t) \/ UpdateStep(t) \/ CommandStep(t) \/ MoveStep(t)

DirSpec == DirInit /\ [][DirNext]_dirvars

-----------------------------------------------------------------------------
ListedAreUnused ==
    \A d \in Dirs \ intruded :
        /\ \A i, j \in DOMAIN lpDirectoryList : lpDirectoryList[i] = d /\ lpDirectoryList[j] = d => i = j
        /\ d \in ToSet(lpDirectoryList) <=> entry[d].lReferenceCount = 1 /\ ~ entry[d].bLocked

(* Nobody waits for a directory that no one has and no one was told of:    *)
(* the event of the entry is not lost.                                     *)
WaitersAreTold ==
    \A d \in Dirs \ intruded : Waiters(d) # {} => entry[d].hEvent = "set" \/ Holders(d) # {}

(* "Since we hold the directory lock we know we are the only writer"       *)
(* (DirectoryCache.c:1313): one call at a time has a directory, its entry  *)
(* stays in the table while a call has it or waits for it, and is on the   *)
(* list of those that may go exactly when none has, waits or has locked it.*)
(* IoMoveDirectory ends this for a directory: when it takes its lock away, *)
(* without having the directory, it wakes the next although somebody has   *)
(* it (DirectoryCache.c:3252).                                             *)
HoldersExclude ==
    /\ ListedAreUnused /\ WaitersAreTold
    /\ \A d \in Dirs \ intruded :
          /\ Cardinality(Holders(d)) <= 1
          /\ entry[d].lReferenceCount
                = (IF entry[d].cached THEN 1 ELSE 0) + Cardinality(Holders(d)) + Cardinality(Waiters(d))

(* "This guarantees that we don't miss it being set to true"               *)
(* (DirectoryCache.c:1584): who opens a directory after a change was       *)
(* marked sees the change, whoever was reading the directory meanwhile.    *)
(* An open that finds the directory missing has taken the mark; if others  *)
(* wait for the entry it stays, and the next of them gets the old contents *)
(* (DirectoryCache.c:1993).                                                *)
MarkedIsSeen ==
    \A t \in DirThreads : In(t, "open", "finish") /\ Succeeds(t) /\ Top(t).dir \notin intruded \cup overlooked
        => entry[Top(t).dir].info.stamp >= Top(t).due

(* Whatever is uploaded, listed, moved and removed at the same time, what  *)
(* has been given an owner has it on the disk when all is done.            *)
OwnersKept ==
    (\A t \in DirThreads : stack[t] = <<>>) => \A d \in Dirs : owners[d] \subseteq volume[d].perms

(* Whoever has a directory has it alone, and sees what was done to it.     *)
DirectoryInv == HoldersExclude /\ MarkedIsSeen
=============================================================================
