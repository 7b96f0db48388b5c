----------------------- MODULE DirectoryCache_proofs -----------------------
(***************************************************************************)
(* DirectoryCache for any number of threads and directories: whoever has a *)
(* directory has it alone and sees what was done to it (DirectoryInv).     *)
(***************************************************************************)
EXTENDS DirectoryCache, FiniteSetTheorems, TLAPS

-------------------------------------------------------------------------------
(* The inductive invariant: what the state is made of.                     *)

Owners  == Files \cup {Self}
Infos   == [stamp : Int, files : SUBSET Files, owned : SUBSET Owners]
Volumes == [exists : BOOLEAN, stamp : Int, mtime : Int, files : SUBSET Files, perms : SUBSET Owners]
Entries == [cached : BOOLEAN, lReferenceCount : Int, hEvent : {"none", "reset", "set"},
            lForceUpdate : BOOLEAN, bLocked : BOOLEAN, ftCacheTime : Int, info : Infos]

Operations == {"open", "update", "upload", "delete", "mkdir", "rmdir", "move"}
Places ==
  {"acquire", "wait", "opened", "look", "list", "below", "finish", "call", "held", "mark", "marking",
   "mark parent", "begin", "write", "done", "scan", "remove", "source", "target", "release", "files",
   "restore", "restored", "unlock", "unlock target"}
Nexts == {"", "opened", "marking", "source", "target", "restored"}
Frames ==
  [op : Operations, at : Places, on : Dirs \cup {NoDir}, then : Nexts, dir : Dirs, x : Owners \cup Dirs,
   recursive : BOOLEAN, keep : BOOLEAN, check : BOOLEAN, missing : BOOLEAN, failed : BOOLEAN,
   due : Int, seen : Int, list : Infos, got : SUBSET Owners, todo : SUBSET (Dirs \cup Files),
   holds : SUBSET Dirs]

TypesFit ==
  /\ volume \in [Dirs -> Volumes] /\ entry \in [Dirs -> Entries]
  /\ lpDirectoryList \in Seq(Dirs) /\ stack \in [DirThreads -> Seq(Frames)]
  /\ promised \in [Dirs -> Int]
  /\ plan \in Plans

(* What a call has, and what it waits for, by where it is.                 *)
OpenFits(f) ==
  /\ \/ f.at = "acquire" /\ f.on = NoDir /\ f.holds = {}
     \/ f.at = "wait" /\ f.on = f.dir /\ f.then = "opened" /\ f.holds = {}
     \/ f.at \in {"opened", "look", "list", "below", "finish"} /\ f.on = NoDir /\ f.holds = {f.dir}
  /\ f.todo \subseteq Dirs
  /\ f.missing => f.at = "finish" /\ f.failed

UpdateFits(f) ==
  /\ f.x \in Owners /\ ~ f.keep
  /\ \/ f.at = "call" /\ f.on = NoDir /\ f.holds = {}
     \/ f.at = "held" /\ f.on = NoDir /\ f.holds \subseteq {f.dir}
     \/ f.at = "mark" /\ f.on = NoDir /\ f.holds = {} /\ f.dir \in Made
     \/ f.at = "wait" /\ f.on = ParentDir[f.dir] /\ f.then = "marking" /\ f.holds = {} /\ f.dir \in Made
     \/ f.at = "marking" /\ f.on = NoDir /\ f.holds = {ParentDir[f.dir]} /\ f.dir \in Made

CommandFits(f) ==
  /\ f.on = NoDir /\ f.holds = {} /\ f.at # "wait" /\ ~ f.keep
  /\ f.op \in {"upload", "delete"} => f.x \in Files
  /\ f.op = "mkdir" => f.dir \in Made

MoveFits(f) ==
  /\ f.x \in Made /\ ~ f.keep
  /\ f.at # "begin" => f.dir # f.x
  /\ \/ f.at \in {"begin", "files", "restore", "mark parent"} /\ f.on = NoDir /\ f.holds = {}
     \/ f.at = "wait" /\ f.then \in {"source", "restored"} /\ f.on = f.dir /\ f.holds = {}
     \/ f.at \in {"source", "restored"} /\ f.on = NoDir /\ f.holds = {f.dir}
     \/ f.at = "wait" /\ f.then = "target" /\ f.on = f.x /\ f.holds = {f.dir}
     \/ f.at = "target" /\ f.on = NoDir /\ f.holds = {f.dir, f.x}
     \/ f.at = "release" /\ f.on = NoDir /\ f.holds \in {{f.x}, {f.dir, f.x}}
     \/ f.at = "unlock" /\ f.on = NoDir /\ f.holds \in {{}, {f.dir}, {f.dir, f.x}}
     \/ f.at = "unlock target" /\ f.on = NoDir /\ f.holds \in {{}, {f.x}}

Fits(f) ==
  \/ f.op = "open" /\ OpenFits(f)
  \/ f.op = "update" /\ UpdateFits(f)
  \/ f.op \in {"upload", "delete", "mkdir", "rmdir"} /\ CommandFits(f)
  \/ f.op = "move" /\ MoveFits(f)

\* What a call does while another, that it has made, goes on.
Calling(f, g) ==
  \/ /\ g.op = "open" /\ ~ g.keep
     /\ (f.op = "open" /\ f.at = "below") \/ (f.op = "rmdir" /\ f.at = "scan")
  \/ /\ g.op = "open" /\ g.keep
     /\ f.op = "update" /\ f.at = "held" /\ f.holds = {} /\ f.dir = g.dir
  \/ /\ g.op = "update"
     /\ f.op \in {"upload", "mkdir", "rmdir"} /\ f.at \in {"mark", "done"}

\* An update has its directory once it has been opened.
Settled(f) == f.op = "update" /\ f.at = "held" => (f.failed <=> f.holds = {})

StackFits(s) ==
  /\ \A n \in 1..Len(s) : Fits(s[n])
  /\ \A n \in 2..Len(s) : Calling(s[n - 1], s[n])
  /\ s # <<>> => ~ s[1].keep /\ Settled(s[Len(s)])

CallsFit == \A t \in DirThreads : StackFits(stack[t])

-------------------------------------------------------------------------------
(* The entries: an entry counts who has the directory and who waits for it.*)

Once(list, d)   == \A i, j \in 1..Len(list) : list[i] = d /\ list[j] = d => i = j
Listed(list, d) == \E i \in 1..Len(list) : list[i] = d

EntryKept(d) ==
  /\ Once(lpDirectoryList, d)
  /\ IsFiniteSet(Holders(d)) /\ IsFiniteSet(Waiters(d))
  /\ entry[d].lReferenceCount
        = (IF entry[d].cached THEN 1 ELSE 0) + Cardinality(Holders(d)) + Cardinality(Waiters(d))
  /\ ~ entry[d].cached => entry[d].lReferenceCount = 0 /\ ~ entry[d].bLocked
  /\ Cardinality(Holders(d)) <= 1
  /\ Holders(d) # {} => entry[d].hEvent # "set"
  /\ Waiters(d) # {} => entry[d].hEvent # "none" /\ (entry[d].hEvent = "set" \/ Holders(d) # {})
  /\ entry[d].hEvent = "set" => Waiters(d) # {}
  /\ Listed(lpDirectoryList, d) <=> (entry[d].lReferenceCount = 1 /\ ~ entry[d].bLocked)

(* The locks: one move at a time has locked a directory, and between the   *)
(* test of the lock of the old directory and the setting of it nobody      *)
(* else sets it.                                                           *)
Locks(f) ==
  IF f.op # "move" THEN {}
  ELSE IF f.at \in {"release", "files", "restore", "restored"} \/ (f.at = "wait" /\ f.then = "restored")
  THEN {f.dir, f.x}
  ELSE IF f.at = "unlock" /\ f.dir \notin f.holds THEN {f.dir, f.x}
  ELSE IF f.at = "unlock target" /\ f.x \notin f.holds THEN {f.x}
  ELSE {}
Tested(f) ==
  IF f.op = "move" /\ (f.at = "target" \/ (f.at = "wait" /\ f.then = "target")) THEN {f.dir} ELSE {}

Lockers(d) == {c \in Calls : d \in Locks(CallAt(c))}
Testers(d) == {c \in Calls : d \in Tested(CallAt(c))}

LockKept(d) ==
  /\ Lockers(d) # {} => entry[d].bLocked
  /\ \A c, b \in Lockers(d) : c = b
  /\ Testers(d) # {} => ~ entry[d].bLocked

TableKept == \A d \in Dirs \ intruded : EntryKept(d) /\ LockKept(d)

-------------------------------------------------------------------------------
(* Stacks.                                                                 *)
TopOf(t) == <<t, Len(stack[t])>>

LEMMA TopIsCall ==
  ASSUME TypesFit, NEW t \in DirThreads, stack[t] # <<>>
  PROVE  /\ Len(stack[t]) \in Nat \ {0} /\ Top(t) = stack[t][Len(stack[t])] /\ Top(t) \in Frames
         /\ TopOf(t) \in Calls /\ CallAt(TopOf(t)) = Top(t)
<1>1. stack[t] \in Seq(Frames)
  BY DEF TypesFit
<1>2. Len(stack[t]) \in Nat \ {0} /\ stack[t][Len(stack[t])] \in Frames
  BY <1>1
<1>3. <<t, Len(stack[t])>> \in {<<t, n>> : n \in 1..Len(stack[t])}
  BY <1>2
<1>. QED
  BY <1>2, <1>3 DEF Top, Last, TopOf, Calls, CallAt

LEMMA IsCall ==
  ASSUME NEW c
  PROVE  c \in Calls <=> \E t \in DirThreads : \E n \in 1..Len(stack[t]) : c = <<t, n>>
BY DEF Calls

LEMMA IsCallNext ==
  ASSUME NEW c
  PROVE  c \in Calls' <=> \E t \in DirThreads : \E n \in 1..Len(stack'[t]) : c = <<t, n>>
BY DEF Calls

LEMMA BecomeStack ==
  ASSUME TypesFit, NEW t \in DirThreads, stack[t] # <<>>, NEW f \in Frames, Become(t, f)
  PROVE  /\ stack' \in [DirThreads -> Seq(Frames)]
         /\ \A u \in DirThreads \ {t} : stack'[u] = stack[u]
         /\ Len(stack'[t]) = Len(stack[t])
         /\ \A n \in 1..Len(stack[t]) : stack'[t][n] = IF n = Len(stack[t]) THEN f ELSE stack[t][n]
<1>1. stack[t] \in Seq(Frames) /\ Len(stack[t]) \in Nat \ {0}
  BY TopIsCall DEF TypesFit
<1>2. Front(stack[t]) \in Seq(Frames) /\ Len(Front(stack[t])) = Len(stack[t]) - 1
      /\ \A n \in 1..(Len(stack[t]) - 1) : Front(stack[t])[n] = stack[t][n]
  BY <1>1 DEF Front
<1>3. stack' = [stack EXCEPT ![t] = Append(Front(stack[t]), f)]
  BY DEF Become
<1>4. stack'[t] = Append(Front(stack[t]), f)
  BY <1>3 DEF TypesFit
<1>5. /\ stack'[t] \in Seq(Frames) /\ Len(stack'[t]) = Len(stack[t])
      /\ \A n \in 1..Len(stack[t]) : stack'[t][n] = IF n = Len(stack[t]) THEN f ELSE stack[t][n]
  BY <1>1, <1>2, <1>4
<1>6. /\ \A u \in DirThreads \ {t} : stack'[u] = stack[u]
      /\ stack' \in [DirThreads -> Seq(Frames)]
  BY <1>3, <1>4, <1>5 DEF TypesFit
<1>. QED
  BY <1>5, <1>6

LEMMA EnterStack ==
  ASSUME TypesFit, NEW t \in DirThreads, stack[t] # <<>>, NEW g \in Frames, NEW f \in Frames, Enter(t, g, f)
  PROVE  /\ stack' \in [DirThreads -> Seq(Frames)]
         /\ \A u \in DirThreads \ {t} : stack'[u] = stack[u]
         /\ Len(stack'[t]) = Len(stack[t]) + 1
         /\ \A n \in 1..Len(stack[t]) : stack'[t][n] = IF n = Len(stack[t]) THEN g ELSE stack[t][n]
         /\ stack'[t][Len(stack[t]) + 1] = f
<1>1. stack[t] \in Seq(Frames) /\ Len(stack[t]) \in Nat \ {0}
  BY TopIsCall DEF TypesFit
<1>2. Front(stack[t]) \in Seq(Frames) /\ Len(Front(stack[t])) = Len(stack[t]) - 1
      /\ \A n \in 1..(Len(stack[t]) - 1) : Front(stack[t])[n] = stack[t][n]
  BY <1>1 DEF Front
<1>3. stack' = [stack EXCEPT ![t] = Append(Append(Front(stack[t]), g), f)]
  BY DEF Enter
<1>4. stack'[t] = Append(Append(Front(stack[t]), g), f)
  BY <1>3 DEF TypesFit
<1> DEFINE s == Append(Front(stack[t]), g)
<1>5. s \in Seq(Frames) /\ Len(s) = Len(stack[t])
      /\ \A n \in 1..Len(stack[t]) : s[n] = IF n = Len(stack[t]) THEN g ELSE stack[t][n]
  BY <1>1, <1>2
<1>6. stack'[t] = Append(s, f)
  BY <1>4
<1> HIDE DEF s
<1>7. /\ stack'[t] \in Seq(Frames) /\ Len(stack'[t]) = Len(stack[t]) + 1
      /\ \A n \in 1..Len(stack[t]) : stack'[t][n] = s[n]
      /\ stack'[t][Len(stack[t]) + 1] = f
  BY <1>1, <1>5, <1>6
<1>8. /\ \A u \in DirThreads \ {t} : stack'[u] = stack[u]
      /\ stack' \in [DirThreads -> Seq(Frames)]
  BY <1>3, <1>4, <1>7 DEF TypesFit
<1>. QED
  BY <1>1, <1>5, <1>7, <1>8

LEMMA ReturnStack ==
  ASSUME TypesFit, NEW t \in DirThreads, stack[t] # <<>>, Return(t)
  PROVE  /\ stack' \in [DirThreads -> Seq(Frames)]
         /\ \A u \in DirThreads \ {t} : stack'[u] = stack[u]
         /\ Len(stack'[t]) = Len(stack[t]) - 1
         /\ \A n \in 1..(Len(stack[t]) - 1) : stack'[t][n] = stack[t][n]
<1>1. stack[t] \in Seq(Frames) /\ Len(stack[t]) \in Nat \ {0}
  BY TopIsCall DEF TypesFit
<1>2. Front(stack[t]) \in Seq(Frames) /\ Len(Front(stack[t])) = Len(stack[t]) - 1
      /\ \A n \in 1..(Len(stack[t]) - 1) : Front(stack[t])[n] = stack[t][n]
  BY <1>1 DEF Front
<1>3. stack' = [stack EXCEPT ![t] = Front(stack[t])]
  BY DEF Return
<1>. QED
  BY <1>1, <1>2, <1>3 DEF TypesFit

LEMMA ReturnToStack ==
  ASSUME TypesFit, NEW t \in DirThreads, stack[t] # <<>>, NEW ok \in BOOLEAN, NEW kept \in SUBSET Dirs,
         ReturnTo(t, ok, kept)
  PROVE  /\ stack' \in [DirThreads -> Seq(Frames)]
         /\ \A u \in DirThreads \ {t} : stack'[u] = stack[u]
         /\ Len(stack'[t]) = Len(stack[t]) - 1
         /\ \A n \in 1..(Len(stack[t]) - 2) : stack'[t][n] = stack[t][n]
         /\ Len(stack[t]) > 1 =>
              /\ stack[t][Len(stack[t]) - 1] \in Frames /\ stack'[t][Len(stack[t]) - 1] \in Frames
              /\ stack'[t][Len(stack[t]) - 1] = Told(t, stack[t][Len(stack[t]) - 1], ok, kept)
<1>0. PICK m \in Nat : Len(stack[t]) = m + 1
  <2>1. Len(stack[t]) - 1 \in Nat /\ Len(stack[t]) = (Len(stack[t]) - 1) + 1
    BY TopIsCall
  <2>. QED
    BY <2>1
<1> DEFINE rest == Front(stack[t])
           f == stack[t][m]
           g == Told(t, f, ok, kept)
<1>1. stack[t] \in Seq(Frames) /\ Len(stack[t]) - 1 = m /\ Len(stack[t]) - 2 = m - 1
  BY <1>0 DEF TypesFit
<1>2. rest \in Seq(Frames) /\ Len(rest) = m /\ \A n \in 1..m : rest[n] = stack[t][n]
  BY <1>0, <1>1 DEF Front
<1>3. stack' = [stack EXCEPT ![t] =
          IF rest = <<>> THEN rest
          ELSE Append(Front(rest), Told(t, Last(rest), ok, kept))]
  BY DEF ReturnTo
<1> HIDE DEF rest
<1>4. CASE m = 0
  <2>1. rest = <<>>
    BY <1>1, <1>2, <1>4
  <2>2. stack' = [stack EXCEPT ![t] = <<>>]
    BY <1>3, <2>1
  <2>. QED
    BY <1>0, <1>1, <1>4, <2>2 DEF TypesFit
<1>5. CASE m # 0
  <2>0. Len(rest) \in Nat \ {0} /\ m \in 1..m /\ m \in 1..Len(stack[t]) /\ rest[m] = f
    BY <1>0, <1>2, <1>5
  <2>1. rest # <<>> /\ Last(rest) = f /\ f \in Frames
    BY <1>1, <1>2, <2>0 DEF Last
  <2>2. entry[Top(t).dir].info.owned \in SUBSET Owners
    BY TopIsCall DEF TypesFit, Frames, Entries, Infos
  <2>3. g \in Frames
    BY <2>1, <2>2 DEF Frames, Told
  <2>4. stack' = [stack EXCEPT ![t] = Append(Front(rest), g)]
    BY <1>3, <2>1
  <2>5. stack'[t] = Append(Front(rest), g)
    BY <2>4 DEF TypesFit
  <2>6. Front(rest) \in Seq(Frames) /\ Len(Front(rest)) = m - 1
        /\ \A n \in 1..(m - 1) : Front(rest)[n] = rest[n]
    BY <1>2, <2>0 DEF Front
  <2> HIDE DEF g
  <2>7. stack'[t] \in Seq(Frames) /\ Len(stack'[t]) = m /\ stack'[t][m] = g
        /\ \A n \in 1..(m - 1) : stack'[t][n] = Front(rest)[n]
    BY <1>1, <1>5, <2>3, <2>5, <2>6
  <2>8. \A n \in 1..(m - 1) : stack'[t][n] = stack[t][n]
    BY <1>1, <1>2, <2>6, <2>7
  <2>9. (\A u \in DirThreads \ {t} : stack'[u] = stack[u]) /\ stack' \in [DirThreads -> Seq(Frames)]
    BY <2>4, <2>5, <2>7 DEF TypesFit
  <2>10. f \in Frames /\ g \in Frames
         /\ g = Told(t, f, ok, kept)
    BY <2>1, <2>3 DEF g
  <2>. QED
    BY <1>0, <1>1, <2>7, <2>8, <2>9, <2>10
<1>. QED
  BY <1>4, <1>5

-------------------------------------------------------------------------------
(* What the operations on the stacks do to who has a directory, waits for  *)
(* it or has locked it.                                                    *)
LEMMA BecomeCalls ==
  ASSUME TypesFit, NEW t \in DirThreads, stack[t] # <<>>, NEW f \in Frames, Become(t, f)
  PROVE  Calls' = Calls /\ \A c \in Calls : CallAt(c)' = IF c = TopOf(t) THEN f ELSE CallAt(c)
<1>1. /\ \A u \in DirThreads \ {t} : stack'[u] = stack[u]
      /\ Len(stack'[t]) = Len(stack[t])
      /\ \A n \in 1..Len(stack[t]) : stack'[t][n] = IF n = Len(stack[t]) THEN f ELSE stack[t][n]
  BY BecomeStack
<1>2. \A u \in DirThreads : 1..Len(stack'[u]) = 1..Len(stack[u])
  BY <1>1
<1>3. Calls' = Calls
  BY <1>2 DEF Calls
<1>4. ASSUME NEW c \in Calls
      PROVE  CallAt(c)' = IF c = TopOf(t) THEN f ELSE CallAt(c)
  <2>1. PICK u \in DirThreads : \E n \in 1..Len(stack[u]) : c = <<u, n>>
    BY <1>4, IsCall
  <2>2. PICK n \in 1..Len(stack[u]) : c = <<u, n>>
    BY <2>1
  <2>3. CallAt(c)' = stack'[u][n] /\ CallAt(c) = stack[u][n]
    BY <2>2 DEF CallAt
  <2>4. c = TopOf(t) <=> u = t /\ n = Len(stack[t])
    BY <2>2 DEF TopOf
  <2>. QED
    BY <1>1, <2>2, <2>3, <2>4
<1>. QED
  BY <1>3, <1>4

LEMMA BecomeSets ==
  ASSUME TypesFit, NEW t \in DirThreads, stack[t] # <<>>, NEW f \in Frames, Become(t, f), NEW d
  PROVE  /\ Holders(d)' = (Holders(d) \ {TopOf(t)}) \cup (IF d \in f.holds THEN {TopOf(t)} ELSE {})
         /\ Waiters(d)' = (Waiters(d) \ {TopOf(t)}) \cup (IF f.on = d THEN {TopOf(t)} ELSE {})
         /\ Lockers(d)' = (Lockers(d) \ {TopOf(t)}) \cup (IF d \in Locks(f) THEN {TopOf(t)} ELSE {})
         /\ Testers(d)' = (Testers(d) \ {TopOf(t)}) \cup (IF d \in Tested(f) THEN {TopOf(t)} ELSE {})
<1>1. Calls' = Calls /\ \A c \in Calls : CallAt(c)' = IF c = TopOf(t) THEN f ELSE CallAt(c)
  BY BecomeCalls
<1>2. TopOf(t) \in Calls
  BY TopIsCall
<1>3. /\ Holders(d)' = {c \in Calls : d \in (IF c = TopOf(t) THEN f ELSE CallAt(c)).holds}
      /\ Waiters(d)' = {c \in Calls : (IF c = TopOf(t) THEN f ELSE CallAt(c)).on = d}
  BY <1>1 DEF Holders, Waiters
<1>4. /\ Lockers(d)' = {c \in Calls : d \in Locks(CallAt(c)')}
      /\ Testers(d)' = {c \in Calls : d \in Tested(CallAt(c)')}
  BY <1>1 DEF Lockers, Testers, Locks, Tested
<1>5. Holders(d)' = (Holders(d) \ {TopOf(t)}) \cup (IF d \in f.holds THEN {TopOf(t)} ELSE {})
  BY <1>2, <1>3 DEF Holders
<1>6. Waiters(d)' = (Waiters(d) \ {TopOf(t)}) \cup (IF f.on = d THEN {TopOf(t)} ELSE {})
  BY <1>2, <1>3 DEF Waiters
<1>7. Lockers(d)' = (Lockers(d) \ {TopOf(t)}) \cup (IF d \in Locks(f) THEN {TopOf(t)} ELSE {})
  BY <1>1, <1>2, <1>4 DEF Lockers
<1>8. Testers(d)' = (Testers(d) \ {TopOf(t)}) \cup (IF d \in Tested(f) THEN {TopOf(t)} ELSE {})
  BY <1>1, <1>2, <1>4 DEF Testers
<1>. QED
  BY <1>5, <1>6, <1>7, <1>8

LEMMA EnterCalls ==
  ASSUME TypesFit, NEW t \in DirThreads, stack[t] # <<>>, NEW g \in Frames, NEW f \in Frames, Enter(t, g, f)
  PROVE  /\ Calls' = Calls \cup {<<t, Len(stack[t]) + 1>>}
         /\ \A c \in Calls : CallAt(c)' = IF c = TopOf(t) THEN g ELSE CallAt(c)
         /\ \A c \in Calls' \ Calls : CallAt(c)' = f
<1>1. /\ \A u \in DirThreads \ {t} : stack'[u] = stack[u]
      /\ Len(stack'[t]) = Len(stack[t]) + 1
      /\ \A n \in 1..Len(stack[t]) : stack'[t][n] = IF n = Len(stack[t]) THEN g ELSE stack[t][n]
      /\ stack'[t][Len(stack[t]) + 1] = f
  BY EnterStack
<1>2. Len(stack[t]) \in Nat
  BY TopIsCall
<1>3. 1..Len(stack'[t]) = (1..Len(stack[t])) \cup {Len(stack[t]) + 1}
  BY <1>1, <1>2
<1>4. Calls' = Calls \cup {<<t, Len(stack[t]) + 1>>}
  <2>1. ASSUME NEW c \in Calls' PROVE c \in Calls \cup {<<t, Len(stack[t]) + 1>>}
    <3>1. PICK u \in DirThreads : \E n \in 1..Len(stack'[u]) : c = <<u, n>>
      BY <2>1, IsCallNext
    <3>2. PICK n \in 1..Len(stack'[u]) : c = <<u, n>>
      BY <3>1
    <3>3. n \in 1..Len(stack[u]) \/ (u = t /\ n = Len(stack[t]) + 1)
      BY <1>1, <1>3, <3>2
    <3>. QED
      BY <3>2, <3>3, IsCall
  <2>2. ASSUME NEW c \in Calls \cup {<<t, Len(stack[t]) + 1>>} PROVE c \in Calls'
    <3>1. CASE c = <<t, Len(stack[t]) + 1>>
      <4>1. Len(stack[t]) + 1 \in 1..Len(stack'[t])
        BY <1>3
      <4>. QED
        BY <3>1, <4>1, IsCallNext
    <3>2. CASE c \in Calls
      <4>1. PICK u \in DirThreads : \E n \in 1..Len(stack[u]) : c = <<u, n>>
        BY <3>2, IsCall
      <4>2. PICK n \in 1..Len(stack[u]) : c = <<u, n>>
        BY <4>1
      <4>3. n \in 1..Len(stack'[u])
        BY <1>1, <1>3, <4>2
      <4>. QED
        BY <4>2, <4>3, IsCallNext
    <3>. QED
      BY <2>2, <3>1, <3>2
  <2>. QED
    BY <2>1, <2>2
<1>5. ASSUME NEW c \in Calls
      PROVE  CallAt(c)' = IF c = TopOf(t) THEN g ELSE CallAt(c)
  <2>1. PICK u \in DirThreads : \E n \in 1..Len(stack[u]) : c = <<u, n>>
    BY <1>5, IsCall
  <2>2. PICK n \in 1..Len(stack[u]) : c = <<u, n>>
    BY <2>1
  <2>3. CallAt(c)' = stack'[u][n] /\ CallAt(c) = stack[u][n]
    BY <2>2 DEF CallAt
  <2>4. c = TopOf(t) <=> u = t /\ n = Len(stack[t])
    BY <2>2 DEF TopOf
  <2>. QED
    BY <1>1, <2>2, <2>3, <2>4
<1>6. ASSUME NEW c \in Calls' \ Calls
      PROVE  CallAt(c)' = f
  <2>1. c = <<t, Len(stack[t]) + 1>>
    BY <1>4
  <2>2. CallAt(c)' = stack'[t][Len(stack[t]) + 1]
    BY <2>1 DEF CallAt
  <2>. QED
    BY <1>1, <2>2
<1>. QED
  BY <1>4, <1>5, <1>6

\* A call begins: it has nothing yet, its caller keeps what it has.
LEMMA EnterSets ==
  ASSUME TypesFit, NEW t \in DirThreads, stack[t] # <<>>, NEW g \in Frames, NEW f \in Frames, Enter(t, g, f),
         f.holds = {}, f.on = NoDir, Locks(f) = {}, Tested(f) = {},
         g.holds = Top(t).holds, g.on = Top(t).on, Locks(g) = Locks(Top(t)), Tested(g) = Tested(Top(t)),
         NEW d \in Dirs
  PROVE  Holders(d)' = Holders(d) /\ Waiters(d)' = Waiters(d) /\ Lockers(d)' = Lockers(d) /\ Testers(d)' = Testers(d)
<1>1. /\ Calls \subseteq Calls'
      /\ \A c \in Calls : CallAt(c)' = IF c = TopOf(t) THEN g ELSE CallAt(c)
      /\ \A c \in Calls' \ Calls : CallAt(c)' = f
  BY EnterCalls
<1>2. CallAt(TopOf(t)) = Top(t)
  BY TopIsCall
<1>3. d # NoDir
  BY DirectoryAssumption
<1>4. /\ Holders(d)' = {c \in Calls' : d \in (CallAt(c)').holds}
      /\ Waiters(d)' = {c \in Calls' : (CallAt(c)').on = d}
  BY DEF Holders, Waiters
<1>5. /\ Lockers(d)' = {c \in Calls' : d \in Locks(CallAt(c)')}
      /\ Testers(d)' = {c \in Calls' : d \in Tested(CallAt(c)')}
  BY DEF Lockers, Testers, Locks, Tested
<1>6. Holders(d)' = Holders(d) /\ Waiters(d)' = Waiters(d)
  BY <1>1, <1>2, <1>3, <1>4 DEF Holders, Waiters
<1>7. Lockers(d)' = Lockers(d) /\ Testers(d)' = Testers(d)
  BY <1>1, <1>2, <1>5 DEF Lockers, Testers
<1>. QED
  BY <1>6, <1>7

LEMMA ReturnCalls ==
  ASSUME TypesFit, NEW t \in DirThreads, stack[t] # <<>>, Return(t)
  PROVE  Calls' = Calls \ {TopOf(t)} /\ \A c \in Calls' : CallAt(c)' = CallAt(c)
<1>1. /\ \A u \in DirThreads \ {t} : stack'[u] = stack[u]
      /\ Len(stack'[t]) = Len(stack[t]) - 1
      /\ \A n \in 1..(Len(stack[t]) - 1) : stack'[t][n] = stack[t][n]
  BY ReturnStack
<1>2. Len(stack[t]) \in Nat \ {0}
  BY TopIsCall
<1>3. 1..Len(stack'[t]) = (1..Len(stack[t])) \ {Len(stack[t])}
  BY <1>1, <1>2
<1>4. ASSUME NEW c \in Calls' PROVE c \in Calls \ {TopOf(t)} /\ CallAt(c)' = CallAt(c)
  <2>1. PICK u \in DirThreads : \E n \in 1..Len(stack'[u]) : c = <<u, n>>
    BY <1>4, IsCallNext
  <2>2. PICK n \in 1..Len(stack'[u]) : c = <<u, n>>
    BY <2>1
  <2>3. n \in 1..Len(stack[u]) /\ stack'[u][n] = stack[u][n] /\ (u = t => n # Len(stack[t]))
    BY <1>1, <1>2, <1>3, <2>2
  <2>4. CallAt(c)' = CallAt(c)
    BY <2>2, <2>3 DEF CallAt
  <2>. QED
    BY <2>2, <2>3, <2>4, IsCall DEF TopOf
<1>5. ASSUME NEW c \in Calls \ {TopOf(t)} PROVE c \in Calls'
  <2>1. PICK u \in DirThreads : \E n \in 1..Len(stack[u]) : c = <<u, n>>
    BY <1>5, IsCall
  <2>2. PICK n \in 1..Len(stack[u]) : c = <<u, n>>
    BY <2>1
  <2>3. n \in 1..Len(stack'[u])
    BY <1>1, <1>3, <1>5, <2>2 DEF TopOf
  <2>. QED
    BY <2>2, <2>3, IsCallNext
<1>. QED
  BY <1>4, <1>5

LEMMA ReturnSets ==
  ASSUME TypesFit, NEW t \in DirThreads, stack[t] # <<>>, Return(t), NEW d
  PROVE  /\ Holders(d)' = Holders(d) \ {TopOf(t)} /\ Waiters(d)' = Waiters(d) \ {TopOf(t)}
         /\ Lockers(d)' = Lockers(d) \ {TopOf(t)} /\ Testers(d)' = Testers(d) \ {TopOf(t)}
<1>1. Calls' = Calls \ {TopOf(t)} /\ \A c \in Calls' : CallAt(c)' = CallAt(c)
  BY ReturnCalls
<1>2. /\ Holders(d)' = {c \in Calls' : d \in (CallAt(c)').holds}
      /\ Waiters(d)' = {c \in Calls' : (CallAt(c)').on = d}
  BY DEF Holders, Waiters
<1>3. /\ Lockers(d)' = {c \in Calls' : d \in Locks(CallAt(c)')}
      /\ Testers(d)' = {c \in Calls' : d \in Tested(CallAt(c)')}
  BY DEF Lockers, Testers, Locks, Tested
<1>. QED
  BY <1>1, <1>2, <1>3 DEF Holders, Waiters, Lockers, Testers

LEMMA ReturnToCalls ==
  ASSUME TypesFit, NEW t \in DirThreads, stack[t] # <<>>, NEW ok \in BOOLEAN, NEW kept \in SUBSET Dirs,
         ReturnTo(t, ok, kept)
  PROVE  /\ Calls' = Calls \ {TopOf(t)}
         /\ \A c \in Calls' :
              IF c = <<t, Len(stack[t]) - 1>>
              THEN CallAt(c)' = Told(t, CallAt(c), ok, kept)
              ELSE CallAt(c)' = CallAt(c)
<1> DEFINE k == Len(stack[t]) - 1
           h(f) == Told(t, f, ok, kept)
<1>0. Len(stack[t]) \in Nat \ {0}
  BY TopIsCall
<1>1. /\ \A u \in DirThreads \ {t} : stack'[u] = stack[u]
      /\ Len(stack'[t]) = Len(stack[t]) - 1
      /\ \A n \in 1..(Len(stack[t]) - 2) : stack'[t][n] = stack[t][n]
      /\ Len(stack[t]) > 1 => stack'[t][k] = h(stack[t][k])
  BY ReturnToStack
<1>2. 1..Len(stack'[t]) = (1..Len(stack[t])) \ {Len(stack[t])}
  BY <1>0, <1>1
<1> HIDE DEF h
<1>3. ASSUME NEW c \in Calls' PROVE /\ c \in Calls \ {TopOf(t)}
                                    /\ CallAt(c)' = IF c = <<t, k>> THEN h(CallAt(c)) ELSE CallAt(c)
  <2>1. PICK u \in DirThreads : \E n \in 1..Len(stack'[u]) : c = <<u, n>>
    BY <1>3, IsCallNext
  <2>2. PICK n \in 1..Len(stack'[u]) : c = <<u, n>>
    BY <2>1
  <2>3. n \in 1..Len(stack[u]) /\ (u = t => n # Len(stack[t]))
    BY <1>0, <1>1, <1>2, <2>2
  <2>4. stack'[u][n] = IF u = t /\ n = k THEN h(stack[u][n]) ELSE stack[u][n]
    BY <1>0, <1>1, <2>2, <2>3
  <2>5. CallAt(c)' = stack'[u][n] /\ CallAt(c) = stack[u][n]
    BY <2>2 DEF CallAt
  <2>6. c = <<t, k>> <=> u = t /\ n = k
    BY <2>2
  <2>. QED
    BY <2>2, <2>3, <2>4, <2>5, <2>6, IsCall DEF TopOf
<1>4. ASSUME NEW c \in Calls \ {TopOf(t)} PROVE c \in Calls'
  <2>1. PICK u \in DirThreads : \E n \in 1..Len(stack[u]) : c = <<u, n>>
    BY <1>4, IsCall
  <2>2. PICK n \in 1..Len(stack[u]) : c = <<u, n>>
    BY <2>1
  <2>3. n \in 1..Len(stack'[u])
    BY <1>1, <1>2, <1>4, <2>2 DEF TopOf
  <2>. QED
    BY <2>2, <2>3, IsCallNext
<1>. QED
  BY <1>3, <1>4 DEF h

\* Who is returned to, if anybody.
LEMMA CallerIs ==
  ASSUME TypesFit, CallsFit, NEW t \in DirThreads, stack[t] # <<>>
  PROVE  <<t, Len(stack[t]) - 1>> \in Calls =>
            /\ Len(stack[t]) > 1
            /\ Calling(CallAt(<<t, Len(stack[t]) - 1>>), Top(t))
            /\ CallAt(<<t, Len(stack[t]) - 1>>) = stack[t][Len(stack[t]) - 1]
            /\ CallAt(<<t, Len(stack[t]) - 1>>) \in Frames
            /\ Fits(CallAt(<<t, Len(stack[t]) - 1>>))
<1> SUFFICES ASSUME <<t, Len(stack[t]) - 1>> \in Calls
             PROVE  /\ Len(stack[t]) > 1
                    /\ Calling(CallAt(<<t, Len(stack[t]) - 1>>), Top(t))
                    /\ CallAt(<<t, Len(stack[t]) - 1>>) = stack[t][Len(stack[t]) - 1]
                    /\ CallAt(<<t, Len(stack[t]) - 1>>) \in Frames
                    /\ Fits(CallAt(<<t, Len(stack[t]) - 1>>))
  OBVIOUS
<1>1. Len(stack[t]) \in Nat \ {0} /\ Top(t) = stack[t][Len(stack[t])] /\ stack[t] \in Seq(Frames)
  BY TopIsCall DEF TypesFit
<1>2. Len(stack[t]) - 1 \in 1..Len(stack[t])
  BY IsCall
<1>3. Len(stack[t]) > 1 /\ Len(stack[t]) \in 2..Len(stack[t])
  BY <1>1, <1>2
<1>4. Calling(stack[t][Len(stack[t]) - 1], stack[t][Len(stack[t])]) /\ Fits(stack[t][Len(stack[t]) - 1])
  BY <1>2, <1>3 DEF CallsFit, StackFits
<1>5. stack[t][Len(stack[t]) - 1] \in Frames
  BY <1>1, <1>2
<1>6. CallAt(<<t, Len(stack[t]) - 1>>) = stack[t][Len(stack[t]) - 1]
  BY DEF CallAt
<1>. QED
  BY <1>1, <1>3, <1>4, <1>5, <1>6

LEMMA ReturnToSets ==
  ASSUME TypesFit, CallsFit, NEW t \in DirThreads, stack[t] # <<>>, NEW ok \in BOOLEAN,
         NEW kept \in SUBSET Dirs, ReturnTo(t, ok, kept), NEW d
  PROVE  /\ Holders(d)' = (Holders(d) \ {TopOf(t)})
                             \cup (IF d \in kept THEN {<<t, Len(stack[t]) - 1>>} \cap Calls ELSE {})
         /\ Waiters(d)' = Waiters(d) \ {TopOf(t)}
         /\ Lockers(d)' = Lockers(d) \ {TopOf(t)} /\ Testers(d)' = Testers(d) \ {TopOf(t)}
<1> DEFINE b == <<t, Len(stack[t]) - 1>>
           h(f) == Told(t, f, ok, kept)
<1>1. Calls' = Calls \ {TopOf(t)} /\ \A c \in Calls' : CallAt(c)' = IF c = b THEN h(CallAt(c)) ELSE CallAt(c)
  BY ReturnToCalls
<1>2. b # TopOf(t)
  BY TopIsCall DEF TopOf
<1>3. b \in Calls => CallAt(b) \in Frames /\ CallAt(b).op # "move"
  BY CallerIs DEF Calling
<1>4. b \in Calls => /\ h(CallAt(b)).holds = CallAt(b).holds \cup kept /\ h(CallAt(b)).on = CallAt(b).on
                     /\ h(CallAt(b)).op = CallAt(b).op
  BY <1>3 DEF Frames, Told
<1> HIDE DEF h
<1>5. b \in Calls => /\ Locks(h(CallAt(b))) = Locks(CallAt(b)) /\ Tested(h(CallAt(b))) = Tested(CallAt(b))
  BY <1>3, <1>4 DEF Locks, Tested
<1>6. /\ Holders(d)' = {c \in Calls' : d \in (CallAt(c)').holds}
      /\ Waiters(d)' = {c \in Calls' : (CallAt(c)').on = d}
  BY DEF Holders, Waiters
<1>7. /\ Lockers(d)' = {c \in Calls' : d \in Locks(CallAt(c)')}
      /\ Testers(d)' = {c \in Calls' : d \in Tested(CallAt(c)')}
  BY DEF Lockers, Testers, Locks, Tested
<1> HIDE DEF b
<1>8. Holders(d)' = (Holders(d) \ {TopOf(t)}) \cup (IF d \in kept THEN {b} \cap Calls ELSE {})
  BY <1>1, <1>2, <1>4, <1>6 DEF Holders
<1>9. Waiters(d)' = Waiters(d) \ {TopOf(t)}
  BY <1>1, <1>2, <1>4, <1>6 DEF Waiters
<1>10. Lockers(d)' = Lockers(d) \ {TopOf(t)} /\ Testers(d)' = Testers(d) \ {TopOf(t)}
  BY <1>1, <1>2, <1>5, <1>7 DEF Lockers, Testers
<1>. QED
  BY <1>8, <1>9, <1>10 DEF b

-------------------------------------------------------------------------------
(* The calls stay what they should be.                                     *)
LEMMA TopFits ==
  ASSUME TypesFit, CallsFit, NEW t \in DirThreads, stack[t] # <<>>
  PROVE  Fits(Top(t)) /\ Settled(Top(t))
<1>1. Len(stack[t]) \in Nat \ {0} /\ Top(t) = stack[t][Len(stack[t])]
  BY TopIsCall
<1>2. Len(stack[t]) \in 1..Len(stack[t])
  BY <1>1
<1>. QED
  BY <1>1, <1>2 DEF CallsFit, StackFits

LEMMA BecomeFits ==
  ASSUME TypesFit, CallsFit, NEW t \in DirThreads, stack[t] # <<>>, NEW f \in Frames, Become(t, f),
         f.op = Top(t).op, f.keep = Top(t).keep, f.dir = Top(t).dir, Fits(f), Settled(f)
  PROVE  stack' \in [DirThreads -> Seq(Frames)] /\ CallsFit'
<1>1. /\ stack' \in [DirThreads -> Seq(Frames)]
      /\ \A u \in DirThreads \ {t} : stack'[u] = stack[u]
      /\ Len(stack'[t]) = Len(stack[t])
      /\ \A n \in 1..Len(stack[t]) : stack'[t][n] = IF n = Len(stack[t]) THEN f ELSE stack[t][n]
  BY BecomeStack
<1>2. Len(stack[t]) \in Nat \ {0} /\ Top(t) = stack[t][Len(stack[t])]
  BY TopIsCall
<1>3. StackFits(stack[t])
  BY DEF CallsFit
<1>4. StackFits(stack'[t])
  <2>1. \A n \in 1..Len(stack'[t]) : Fits(stack'[t][n])
    BY <1>1, <1>3 DEF StackFits
  <2>2. ASSUME NEW n \in 2..Len(stack'[t]) PROVE Calling(stack'[t][n - 1], stack'[t][n])
    <3>1. Calling(stack[t][n - 1], stack[t][n]) /\ n - 1 \in 1..Len(stack[t]) /\ n \in 1..Len(stack[t])
          /\ n - 1 # Len(stack[t])
      BY <1>1, <1>2, <1>3 DEF StackFits
    <3>2. stack'[t][n - 1] = stack[t][n - 1]
      BY <1>1, <3>1
    <3>3. CASE n = Len(stack[t])
      BY <1>1, <1>2, <3>1, <3>2, <3>3 DEF Calling
    <3>4. CASE n # Len(stack[t])
      BY <1>1, <3>1, <3>2, <3>4
    <3>. QED
      BY <3>3, <3>4
  <2>3. ~ stack'[t][1].keep
    BY <1>1, <1>2, <1>3 DEF StackFits
  <2>4. Settled(stack'[t][Len(stack'[t])])
    BY <1>1, <1>2
  <2>. QED
    BY <2>1, <2>2, <2>3, <2>4 DEF StackFits
<1>5. \A u \in DirThreads : StackFits(stack'[u])
  BY <1>1, <1>4 DEF CallsFit
<1>. QED
  BY <1>1, <1>5 DEF CallsFit

LEMMA EnterFits ==
  ASSUME TypesFit, CallsFit, NEW t \in DirThreads, stack[t] # <<>>, NEW g \in Frames, NEW f \in Frames,
         Enter(t, g, f), g.op = Top(t).op, g.keep = Top(t).keep, g.dir = Top(t).dir, Fits(g), Fits(f),
         Calling(g, f), Settled(f)
  PROVE  stack' \in [DirThreads -> Seq(Frames)] /\ CallsFit'
<1>1. /\ stack' \in [DirThreads -> Seq(Frames)]
      /\ \A u \in DirThreads \ {t} : stack'[u] = stack[u]
      /\ Len(stack'[t]) = Len(stack[t]) + 1
      /\ \A n \in 1..Len(stack[t]) : stack'[t][n] = IF n = Len(stack[t]) THEN g ELSE stack[t][n]
      /\ stack'[t][Len(stack[t]) + 1] = f
  BY EnterStack
<1>2. Len(stack[t]) \in Nat \ {0} /\ Top(t) = stack[t][Len(stack[t])]
  BY TopIsCall
<1>3. StackFits(stack[t])
  BY DEF CallsFit
<1>4. StackFits(stack'[t])
  <2>1. ASSUME NEW n \in 1..Len(stack'[t]) PROVE Fits(stack'[t][n])
    <3>1. CASE n \in 1..Len(stack[t])
      BY <1>1, <1>3, <3>1 DEF StackFits
    <3>2. CASE n = Len(stack[t]) + 1
      BY <1>1, <3>2
    <3>. QED
      BY <1>1, <1>2, <3>1, <3>2
  <2>2. ASSUME NEW n \in 2..Len(stack'[t]) PROVE Calling(stack'[t][n - 1], stack'[t][n])
    <3>1. CASE n = Len(stack[t]) + 1
      <4>1. n - 1 = Len(stack[t]) /\ n - 1 \in 1..Len(stack[t])
        BY <1>2, <3>1
      <4>. QED
        BY <1>1, <3>1, <4>1
    <3>2. CASE n # Len(stack[t]) + 1
      <4>1. n - 1 \in 1..Len(stack[t]) /\ n \in 1..Len(stack[t]) /\ n - 1 # Len(stack[t]) /\ n \in 2..Len(stack[t])
        BY <1>1, <1>2, <3>2
      <4>2. stack'[t][n - 1] = stack[t][n - 1] /\ Calling(stack[t][n - 1], stack[t][n])
        BY <1>1, <1>3, <4>1 DEF StackFits
      <4>3. CASE n = Len(stack[t])
        BY <1>1, <1>2, <4>1, <4>2, <4>3 DEF Calling
      <4>4. CASE n # Len(stack[t])
        BY <1>1, <4>1, <4>2, <4>4
      <4>. QED
        BY <4>3, <4>4
    <3>. QED
      BY <3>1, <3>2
  <2>3. ~ stack'[t][1].keep
    BY <1>1, <1>2, <1>3 DEF StackFits
  <2>4. Settled(stack'[t][Len(stack'[t])])
    BY <1>1, <1>2
  <2>. QED
    BY <2>1, <2>2, <2>3, <2>4 DEF StackFits
<1>5. \A u \in DirThreads : StackFits(stack'[u])
  BY <1>1, <1>4 DEF CallsFit
<1>. QED
  BY <1>1, <1>5 DEF CallsFit

\* Only opens and updates are called.
LEMMA CommandIsAlone ==
  ASSUME TypesFit, CallsFit, NEW t \in DirThreads, stack[t] # <<>>, Top(t).op \notin {"open", "update"}
  PROVE  Len(stack[t]) = 1
<1>1. Len(stack[t]) \in Nat \ {0} /\ Top(t) = stack[t][Len(stack[t])]
  BY TopIsCall
<1>2. \A n \in 2..Len(stack[t]) : Calling(stack[t][n - 1], stack[t][n])
  BY DEF CallsFit, StackFits
<1>3. Len(stack[t]) \notin 2..Len(stack[t])
  BY <1>1, <1>2 DEF Calling
<1>4. \A n \in Nat \ {0} : n \notin 2..n => n = 1
  OBVIOUS
<1>. QED
  BY <1>1, <1>3, <1>4

LEMMA ReturnFits ==
  ASSUME TypesFit, CallsFit, NEW t \in DirThreads, stack[t] # <<>>, Return(t), Top(t).op \notin {"open", "update"}
  PROVE  stack' \in [DirThreads -> Seq(Frames)] /\ CallsFit'
<1>1. /\ stack' \in [DirThreads -> Seq(Frames)]
      /\ \A u \in DirThreads \ {t} : stack'[u] = stack[u]
      /\ Len(stack'[t]) = Len(stack[t]) - 1
  BY ReturnStack
<1>2. Len(stack'[t]) = 0
  BY <1>1, CommandIsAlone
<1>3. stack'[t] = <<>>
  BY <1>1, <1>2
<1>4. StackFits(stack'[t])
  BY <1>3 DEF StackFits
<1>5. \A u \in DirThreads : StackFits(stack'[u])
  BY <1>1, <1>4 DEF CallsFit
<1>. QED
  BY <1>1, <1>5 DEF CallsFit

\* What a call that succeeds, or fails, leaves to its caller.
Keeps(f, ok, kept) == IF f.keep /\ ok THEN kept = {f.dir} ELSE kept = {}

LEMMA ReturnToFits ==
  ASSUME TypesFit, CallsFit, NEW t \in DirThreads, stack[t] # <<>>, NEW ok \in BOOLEAN,
         NEW kept \in SUBSET Dirs, ReturnTo(t, ok, kept),
         Keeps(Top(t), ok, kept)
  PROVE  stack' \in [DirThreads -> Seq(Frames)] /\ CallsFit'
<1>1. /\ stack' \in [DirThreads -> Seq(Frames)]
      /\ \A u \in DirThreads \ {t} : stack'[u] = stack[u]
      /\ Len(stack'[t]) = Len(stack[t]) - 1
      /\ \A n \in 1..(Len(stack[t]) - 2) : stack'[t][n] = stack[t][n]
      /\ Len(stack[t]) > 1 =>
            /\ stack[t][Len(stack[t]) - 1] \in Frames /\ stack'[t][Len(stack[t]) - 1] \in Frames
            /\ stack'[t][Len(stack[t]) - 1] = Told(t, stack[t][Len(stack[t]) - 1], ok, kept)
  BY ReturnToStack
<1>2. Len(stack[t]) \in Nat \ {0} /\ Top(t) = stack[t][Len(stack[t])]
  BY TopIsCall
<1>3. StackFits(stack[t])
  BY DEF CallsFit
<1>4. CASE Len(stack[t]) = 1
  <2>1. stack'[t] = <<>>
    BY <1>1, <1>4
  <2>2. StackFits(stack'[t])
    BY <2>1 DEF StackFits
  <2>3. \A u \in DirThreads : StackFits(stack'[u])
    BY <1>1, <2>2 DEF CallsFit
  <2>. QED
    BY <1>1, <2>3 DEF CallsFit
<1>5. CASE Len(stack[t]) > 1
  <2>0. PICK m \in Nat \ {0} : Len(stack[t]) = m + 1
    <3>1. Len(stack[t]) - 1 \in Nat \ {0} /\ Len(stack[t]) = (Len(stack[t]) - 1) + 1
      BY <1>2, <1>5
    <3>. QED
      BY <3>1
  <2> DEFINE f == stack[t][m]
             g == stack'[t][m]
  <2>1. f \in Frames /\ g \in Frames /\ g = Told(t, f, ok, kept)
    BY <1>1, <1>5, <2>0
  <2>2. /\ g.op = f.op /\ g.at = f.at /\ g.on = f.on /\ g.then = f.then /\ g.dir = f.dir /\ g.x = f.x
        /\ g.keep = f.keep /\ g.missing = f.missing /\ g.todo = f.todo
        /\ g.failed = ~ ok /\ g.holds = f.holds \cup kept
    BY <2>1 DEF Frames, Told
  <2>3. Calling(f, Top(t)) /\ Fits(f)
    <3>1. m \in 1..Len(stack[t]) /\ m + 1 \in 2..Len(stack[t]) /\ (m + 1) - 1 = m
      BY <2>0
    <3>. QED
      BY <1>2, <1>3, <2>0, <3>1 DEF StackFits
  <2>4. kept = {} \/ (f.op = "update" /\ f.at = "held" /\ kept = {f.dir})
    <3>1. kept = {} \/ (Top(t).keep /\ kept = {Top(t).dir})
      BY DEF Keeps
    <3>2. Top(t).keep => f.op = "update" /\ f.at = "held" /\ f.dir = Top(t).dir
      <4>1. Top(t).keep => Top(t).op = "open"
        BY TopFits DEF Fits, UpdateFits, CommandFits, MoveFits
      <4>. QED
        BY <2>3, <4>1 DEF Calling
    <3>. QED
      BY <3>1, <3>2
  <2>5. Fits(g)
    <3>1. CASE f.op = "open"
      BY <2>2, <2>3, <2>4, <3>1 DEF Fits, OpenFits, Calling
    <3>2. CASE f.op = "update"
      BY <2>2, <2>3, <2>4, <3>2 DEF Fits, UpdateFits
    <3>3. CASE f.op \notin {"open", "update"}
      BY <2>2, <2>3, <2>4, <3>3 DEF Fits, CommandFits, Calling
    <3>. QED
      BY <3>1, <3>2, <3>3
  <2>6. Settled(g)
    <3> SUFFICES ASSUME g.op = "update", g.at = "held" PROVE g.failed <=> g.holds = {}
      BY DEF Settled
    <3>1. f.op = "update" /\ f.at = "held"
      BY <2>2
    <3>2. Top(t).op = "open" /\ Top(t).keep /\ f.holds = {} /\ f.dir = Top(t).dir
      BY <2>3, <3>1 DEF Calling
    <3>3. kept = IF ok THEN {f.dir} ELSE {}
      BY <3>2 DEF Keeps
    <3>. QED
      BY <2>2, <3>2, <3>3
  <2>7. Len(stack'[t]) = m /\ \A n \in 1..m : stack'[t][n] = IF n = m THEN g ELSE stack[t][n]
    BY <1>1, <2>0
  <2>8. /\ \A n \in 1..(m + 1) : Fits(stack[t][n])
        /\ \A n \in 2..(m + 1) : Calling(stack[t][n - 1], stack[t][n])
        /\ ~ stack[t][1].keep
    BY <1>3, <2>0 DEF StackFits
  <2> HIDE DEF f, g
  <2>9. \A n \in 1..Len(stack'[t]) : Fits(stack'[t][n])
    BY <2>5, <2>7, <2>8
  <2>10. ASSUME NEW n \in 2..Len(stack'[t]) PROVE Calling(stack'[t][n - 1], stack'[t][n])
    <3>1. n - 1 \in 1..m /\ n - 1 # m /\ n \in 1..m /\ n \in 2..(m + 1)
      BY <2>7
    <3>2. stack'[t][n - 1] = stack[t][n - 1] /\ Calling(stack[t][n - 1], stack[t][n])
      BY <2>7, <2>8, <3>1
    <3>3. CASE n = m
      BY <2>2, <2>7, <3>1, <3>2, <3>3 DEF Calling, f
    <3>4. CASE n # m
      BY <2>7, <3>1, <3>2, <3>4
    <3>. QED
      BY <3>3, <3>4
  <2>11. ~ stack'[t][1].keep
    BY <2>2, <2>7, <2>8 DEF f
  <2>12. Settled(stack'[t][Len(stack'[t])])
    BY <2>6, <2>7
  <2>13. StackFits(stack'[t])
    BY <2>9, <2>10, <2>11, <2>12 DEF StackFits
  <2>14. \A u \in DirThreads : StackFits(stack'[u])
    BY <1>1, <2>13 DEF CallsFit
  <2>. QED
    BY <1>1, <2>14 DEF CallsFit
<1>6. \A n \in Nat \ {0} : n = 1 \/ n > 1
  OBVIOUS
<1>7. Len(stack[t]) = 1 \/ Len(stack[t]) > 1
  BY <1>2, <1>6
<1>. QED
  BY <1>4, <1>5, <1>7

-------------------------------------------------------------------------------
(* The list.                                                               *)
LEMMA WithoutMeans ==
  ASSUME NEW list \in Seq(Dirs), NEW d
  PROVE  /\ Without(list, d) \in Seq(Dirs)
         /\ \A e : Once(list, e) => Once(Without(list, d), e)
         /\ \A e : e # d => (Listed(Without(list, d), e) <=> Listed(list, e))
         /\ Once(list, d) => ~ Listed(Without(list, d), d)
<1>1. d \in ToSet(list) <=> Listed(list, d)
  BY DEF ToSet, Listed
<1>2. CASE ~ Listed(list, d)
  BY <1>1, <1>2 DEF Without
<1>3. CASE Listed(list, d)
  <2> DEFINE k == CHOOSE i \in DOMAIN list : list[i] = d
             rest == Without(list, d)
             low  == SubSeq(list, 1, k - 1)
             high == SubSeq(list, k + 1, Len(list))
  <2>1. k \in 1..Len(list) /\ list[k] = d
    BY <1>3 DEF Listed
  <2>2. rest = low \o high
    BY <1>1, <1>3 DEF Without, RemoveAt
  <2> HIDE DEF k, rest
  <2>3. /\ low \in Seq(Dirs) /\ Len(low) = k - 1
        /\ \A i \in 1..(k - 1) : low[i] = list[i]
    BY <2>1
  <2>4. /\ high \in Seq(Dirs) /\ Len(high) = Len(list) - k
        /\ \A i \in 1..(Len(list) - k) : high[i] = list[k + i]
    BY <2>1
  <2> HIDE DEF low, high
  <2>5. rest \in Seq(Dirs) /\ Len(rest) = Len(list) - 1
    BY <2>1, <2>2, <2>3, <2>4
  <2>6. \A i \in 1..(Len(list) - 1) : rest[i] = IF i < k THEN list[i] ELSE list[i + 1]
    <3> SUFFICES ASSUME NEW i \in 1..(Len(list) - 1) PROVE rest[i] = IF i < k THEN list[i] ELSE list[i + 1]
      OBVIOUS
    <3>1. CASE i < k
      BY <2>1, <2>2, <2>3, <2>4, <3>1
    <3>2. CASE ~ (i < k)
      <4>0. /\ i \in Int /\ Len(low) \in Int /\ Len(high) \in Int
            /\ i > Len(low) /\ i <= Len(low) + Len(high) /\ i \in 1..(Len(low) + Len(high))
        BY <2>1, <2>3, <2>4, <3>2
      <4>1. rest[i] = high[i - Len(low)]
        BY <2>2, <2>3, <2>4, <4>0
      <4>2. i - Len(low) = i - k + 1 /\ i - k + 1 \in 1..(Len(list) - k) /\ k + (i - k + 1) = i + 1
        BY <2>1, <2>3, <3>2
      <4>. QED
        BY <2>4, <3>2, <4>1, <4>2
    <3>. QED
      BY <3>1, <3>2
  <2>7. ASSUME NEW e, Once(list, e) PROVE Once(rest, e)
    <3> SUFFICES ASSUME NEW i \in 1..Len(rest), NEW j \in 1..Len(rest), rest[i] = e, rest[j] = e PROVE i = j
      BY DEF Once
    <3> DEFINE up(n) == IF n < k THEN n ELSE n + 1
    <3>1. up(i) \in 1..Len(list) /\ up(j) \in 1..Len(list) /\ list[up(i)] = e /\ list[up(j)] = e
      BY <2>1, <2>5, <2>6
    <3>2. up(i) = up(j)
      BY <2>7, <3>1 DEF Once
    <3>. QED
      BY <2>1, <3>2
  <2>8. ASSUME NEW e, e # d PROVE Listed(rest, e) <=> Listed(list, e)
    <3>1. ASSUME Listed(rest, e) PROVE Listed(list, e)
      <4>1. PICK i \in 1..Len(rest) : rest[i] = e
        BY <3>1 DEF Listed
      <4>2. (IF i < k THEN i ELSE i + 1) \in 1..Len(list) /\ list[IF i < k THEN i ELSE i + 1] = e
        BY <2>1, <2>5, <2>6, <4>1
      <4>. QED
        BY <4>2 DEF Listed
    <3>2. ASSUME Listed(list, e) PROVE Listed(rest, e)
      <4>1. PICK i \in 1..Len(list) : list[i] = e
        BY <3>2 DEF Listed
      <4>2. i # k
        BY <2>1, <2>8, <4>1
      <4>3. CASE i < k
        <5>1. i \in 1..Len(rest) /\ rest[i] = e
          BY <2>1, <2>5, <2>6, <4>1, <4>3
        <5>. QED
          BY <5>1 DEF Listed
      <4>4. CASE i > k
        <5>1. i - 1 \in 1..Len(rest) /\ ~ (i - 1 < k) /\ (i - 1) + 1 = i
          BY <2>1, <2>5, <4>4
        <5>2. rest[i - 1] = e
          BY <2>5, <2>6, <4>1, <5>1
        <5>. QED
          BY <5>1, <5>2 DEF Listed
      <4>. QED
        BY <2>1, <4>2, <4>3, <4>4
    <3>. QED
      BY <3>1, <3>2
  <2>9. ASSUME Once(list, d), Listed(rest, d) PROVE FALSE
    <3>1. PICK i \in 1..Len(rest) : rest[i] = d
      BY <2>9 DEF Listed
    <3>2. (IF i < k THEN i ELSE i + 1) \in 1..Len(list) /\ list[IF i < k THEN i ELSE i + 1] = d
          /\ (IF i < k THEN i ELSE i + 1) # k
      BY <2>1, <2>5, <2>6, <3>1
    <3>. QED
      BY <2>1, <2>9, <3>2 DEF Once
  <2>. QED
    BY <2>5, <2>7, <2>8, <2>9 DEF rest
<1>. QED
  BY <1>2, <1>3

LEMMA PrependMeans ==
  ASSUME NEW list \in Seq(Dirs), NEW d \in Dirs
  PROVE  /\ <<d>> \o list \in Seq(Dirs)
         /\ \A e : e # d => (Once(<<d>> \o list, e) <=> Once(list, e)) /\ (Listed(<<d>> \o list, e) <=> Listed(list, e))
         /\ Listed(<<d>> \o list, d)
         /\ ~ Listed(list, d) => Once(<<d>> \o list, d)
<1> DEFINE new == <<d>> \o list
<1>1. new \in Seq(Dirs) /\ Len(new) = Len(list) + 1 /\ new[1] = d
      /\ \A i \in 1..Len(list) : new[i + 1] = list[i]
  OBVIOUS
<1> HIDE DEF new
<1>2. \A i \in 1..Len(new) : i = 1 \/ (i - 1 \in 1..Len(list) /\ new[i] = list[i - 1])
  BY <1>1
<1>3. ASSUME NEW e, e # d PROVE Listed(new, e) <=> Listed(list, e)
  <2>1. ASSUME NEW i \in 1..Len(new), new[i] = e PROVE Listed(list, e)
    BY <1>1, <1>2, <1>3, <2>1 DEF Listed
  <2>2. ASSUME NEW i \in 1..Len(list), list[i] = e PROVE Listed(new, e)
    <3>1. i + 1 \in 1..Len(new) /\ new[i + 1] = e
      BY <1>1, <2>2
    <3>. QED
      BY <3>1 DEF Listed
  <2>. QED
    BY <2>1, <2>2 DEF Listed
<1>4. ASSUME NEW e, e # d, Once(list, e) PROVE Once(new, e)
  <2> SUFFICES ASSUME NEW i \in 1..Len(new), NEW j \in 1..Len(new), new[i] = e, new[j] = e PROVE i = j
    BY DEF Once
  <2>1. i - 1 \in 1..Len(list) /\ j - 1 \in 1..Len(list) /\ list[i - 1] = e /\ list[j - 1] = e
    BY <1>1, <1>2, <1>4
  <2>. QED
    BY <1>4, <2>1 DEF Once
<1>5. ASSUME NEW e, e # d, Once(new, e) PROVE Once(list, e)
  <2> SUFFICES ASSUME NEW i \in 1..Len(list), NEW j \in 1..Len(list), list[i] = e, list[j] = e PROVE i = j
    BY DEF Once
  <2>1. i + 1 \in 1..Len(new) /\ j + 1 \in 1..Len(new) /\ new[i + 1] = e /\ new[j + 1] = e
    BY <1>1
  <2>2. i + 1 = j + 1
    BY <1>5, <2>1 DEF Once
  <2>. QED
    BY <2>2
<1>6. Listed(new, d)
  BY <1>1 DEF Listed
<1>7. ASSUME ~ Listed(list, d) PROVE Once(new, d)
  <2>1. \A i \in 1..Len(new) : new[i] = d => i = 1
    BY <1>2, <1>7 DEF Listed
  <2>. QED
    BY <2>1 DEF Once
<1>. QED
  BY <1>1, <1>3, <1>4, <1>5, <1>6, <1>7 DEF new

-------------------------------------------------------------------------------
(* Types and calls, by the operations on the table.                        *)
Later == {"opened", "marking", "source", "target", "restored"}

LEMMA HasIsFrame ==
  ASSUME NEW f \in Frames, NEW d \in Dirs, NEW then \in Later
  PROVE  /\ Has(f, d, then) \in Frames
         /\ Has(f, d, then).op = f.op /\ Has(f, d, then).at = then /\ Has(f, d, then).on = f.on
         /\ Has(f, d, then).then = f.then /\ Has(f, d, then).dir = f.dir /\ Has(f, d, then).x = f.x
         /\ Has(f, d, then).keep = f.keep /\ Has(f, d, then).todo = f.todo /\ Has(f, d, then).missing = f.missing
         /\ Has(f, d, then).failed = f.failed /\ Has(f, d, then).due = f.due
         /\ Has(f, d, then).holds = f.holds \cup {d}
<1>1. f.holds \cup {d} \in SUBSET Dirs /\ then \in Places
  BY DEF Frames, Later, Places
<1>2. Has(f, d, then) \in Frames
  BY <1>1 DEF Frames, Has
<1>. QED
  BY <1>2 DEF Frames, Has

LEMMA WaitsIsFrame ==
  ASSUME NEW f \in Frames, NEW d \in Dirs, NEW then \in Later
  PROVE  /\ WaitsFor(f, d, then) \in Frames
         /\ WaitsFor(f, d, then).op = f.op /\ WaitsFor(f, d, then).at = "wait" /\ WaitsFor(f, d, then).on = d
         /\ WaitsFor(f, d, then).then = then /\ WaitsFor(f, d, then).dir = f.dir /\ WaitsFor(f, d, then).x = f.x
         /\ WaitsFor(f, d, then).keep = f.keep /\ WaitsFor(f, d, then).todo = f.todo
         /\ WaitsFor(f, d, then).missing = f.missing /\ WaitsFor(f, d, then).failed = f.failed
         /\ WaitsFor(f, d, then).due = f.due /\ WaitsFor(f, d, then).holds = f.holds
<1>1. then \in Nexts /\ "wait" \in Places
  BY DEF Later, Places, Nexts
<1>2. WaitsFor(f, d, then) \in Frames
  BY <1>1 DEF Frames, WaitsFor
<1>. QED
  BY <1>2 DEF Frames, WaitsFor

LEMMA NoEntryIsEntry ==
  /\ NoInfo \in Infos /\ NoEntry \in Entries /\ NewEntry \in Entries
  /\ ~ NoEntry.cached /\ NoEntry.lReferenceCount = 0 /\ NoEntry.hEvent = "none" /\ ~ NoEntry.lForceUpdate
  /\ ~ NoEntry.bLocked /\ NoEntry.info = NoInfo
  /\ NewEntry.cached /\ NewEntry.lReferenceCount = 2 /\ NewEntry.hEvent = "none" /\ NewEntry.lForceUpdate
  /\ ~ NewEntry.bLocked /\ NewEntry.info = NoInfo
<1>1. NoInfo \in Infos
  BY DEF NoInfo, Infos
<1>2. NoEntry \in Entries
  BY <1>1 DEF NoEntry, Entries
<1>3. /\ ~ NoEntry.cached /\ NoEntry.lReferenceCount = 0 /\ NoEntry.hEvent = "none" /\ ~ NoEntry.lForceUpdate
      /\ ~ NoEntry.bLocked /\ NoEntry.info = NoInfo
  BY DEF NoEntry
<1>4. /\ NewEntry \in Entries
      /\ NewEntry.cached /\ NewEntry.lReferenceCount = 2 /\ NewEntry.hEvent = "none" /\ NewEntry.lForceUpdate
      /\ ~ NewEntry.bLocked /\ NewEntry.info = NoInfo
  <2>1. /\ NewEntry \in Entries
        /\ NewEntry.cached /\ NewEntry.lReferenceCount = 2 /\ NewEntry.lForceUpdate
        /\ NewEntry.hEvent = NoEntry.hEvent /\ NewEntry.bLocked = NoEntry.bLocked /\ NewEntry.info = NoEntry.info
    <3>1. \A n \in Int : \A e \in Entries :
            LET g == [e EXCEPT !.cached = TRUE, !.lReferenceCount = n, !.lForceUpdate = TRUE] IN
            /\ g \in Entries /\ g.cached /\ g.lReferenceCount = n /\ g.lForceUpdate
            /\ g.hEvent = e.hEvent /\ g.bLocked = e.bLocked /\ g.info = e.info
      BY DEF Entries
    <3>2. PICK n \in Int : n = 2
      OBVIOUS
    <3>3. NewEntry = [NoEntry EXCEPT !.cached = TRUE, !.lReferenceCount = n, !.lForceUpdate = TRUE]
      BY <3>2 DEF NewEntry
    <3> DEFINE g == [NoEntry EXCEPT !.cached = TRUE, !.lReferenceCount = n, !.lForceUpdate = TRUE]
    <3>4. /\ g \in Entries /\ g.cached /\ g.lReferenceCount = n /\ g.lForceUpdate
          /\ g.hEvent = NoEntry.hEvent /\ g.bLocked = NoEntry.bLocked /\ g.info = NoEntry.info
      BY <1>2, <3>1
    <3> HIDE DEF g
    <3>. QED
      BY <3>2, <3>3, <3>4 DEF g
  <2>. QED
    BY <1>3, <2>1
<1>. QED
  BY <1>1, <1>2, <1>3, <1>4

Events == {"none", "reset", "set"}
LEMMA CountIsEntry ==
  ASSUME NEW e \in Entries, NEW n \in Int, NEW event \in Events,
         NEW g, g = [e EXCEPT !.lReferenceCount = n, !.hEvent = event]
  PROVE  /\ g \in Entries /\ g.cached = e.cached /\ g.lReferenceCount = n /\ g.hEvent = event
         /\ g.lForceUpdate = e.lForceUpdate /\ g.bLocked = e.bLocked /\ g.ftCacheTime = e.ftCacheTime
         /\ g.info = e.info
BY DEF Entries, Events

\* The call that gets the directory, or waits for it.
LEMMA AcquireFits ==
  ASSUME TypesFit, CallsFit, NEW t \in DirThreads, stack[t] # <<>>, NEW d \in Dirs, NEW then \in Later,
         NEW f, f = Has(Top(t), d, then) \/ f = WaitsFor(Top(t), d, then), Fits(f), Become(t, f)
  PROVE  stack' \in [DirThreads -> Seq(Frames)] /\ CallsFit'
<1>1. Top(t) \in Frames
  BY TopIsCall
<1>2. CASE f = Has(Top(t), d, then)
  <2>1. f \in Frames /\ f.op = Top(t).op /\ f.keep = Top(t).keep /\ f.dir = Top(t).dir /\ f.at = then
    BY <1>1, <1>2, HasIsFrame
  <2>2. Settled(f)
    BY <2>1 DEF Later, Settled
  <2>. QED
    BY <2>1, <2>2, BecomeFits
<1>3. CASE f = WaitsFor(Top(t), d, then)
  <2>1. f \in Frames /\ f.op = Top(t).op /\ f.keep = Top(t).keep /\ f.dir = Top(t).dir /\ f.at = "wait"
    BY <1>1, <1>3, WaitsIsFrame
  <2>2. Settled(f)
    BY <2>1 DEF Settled
  <2>. QED
    BY <2>1, <2>2, BecomeFits
<1>. QED
  BY <1>2, <1>3

LEMMA AcquireTypes ==
  ASSUME NEW t, NEW d \in Dirs, NEW tab \in [Dirs -> Entries], NEW list \in Seq(Dirs), NEW then \in Later,
         Acquire(t, d, tab, list, then)
  PROVE  /\ entry' \in [Dirs -> Entries] /\ lpDirectoryList' \in Seq(Dirs)
         /\ entry'[d].cached = tab[d].cached /\ entry'[d].lReferenceCount = tab[d].lReferenceCount + 1
         /\ entry'[d].bLocked = tab[d].bLocked /\ entry'[d].lForceUpdate = tab[d].lForceUpdate
         /\ entry'[d].info = tab[d].info /\ entry'[d].ftCacheTime = tab[d].ftCacheTime
         /\ entry'[d].hEvent =
              IF tab[d].lReferenceCount = 2 /\ tab[d].hEvent = "none" THEN "reset" ELSE tab[d].hEvent
         /\ \A e \in Dirs \ {d} : entry'[e] = tab[e]
<1>1. entry' = [tab EXCEPT ![d].lReferenceCount = @ + 1,
                            ![d].hEvent = IF tab[d].lReferenceCount = 2 /\ @ = "none" THEN "reset" ELSE @]
  BY DEF Acquire
<1>2. lpDirectoryList' \in Seq(Dirs)
  BY WithoutMeans DEF Acquire
<1>3. tab[d] \in Entries
  OBVIOUS
<1> DEFINE n == tab[d].lReferenceCount + 1
           event == IF tab[d].lReferenceCount = 2 /\ tab[d].hEvent = "none" THEN "reset" ELSE tab[d].hEvent
           g == [tab[d] EXCEPT !.lReferenceCount = n, !.hEvent = event]
<1>4. n \in Int /\ event \in Events
  BY <1>3 DEF Entries, Events
<1>5. entry' = [tab EXCEPT ![d] = g]
  BY <1>1
<1>51. entry'[d] = g
  BY <1>5
<1> HIDE DEF n, event, g
<1>51a. g = [tab[d] EXCEPT !.lReferenceCount = n, !.hEvent = event]
  BY DEF g
<1>51b. /\ g \in Entries /\ g.cached = tab[d].cached /\ g.lReferenceCount = n /\ g.hEvent = event
        /\ g.lForceUpdate = tab[d].lForceUpdate /\ g.bLocked = tab[d].bLocked
        /\ g.ftCacheTime = tab[d].ftCacheTime /\ g.info = tab[d].info
  BY <1>3, <1>4, <1>51a DEF Entries, Events
<1>52. /\ entry'[d] \in Entries
      /\ entry'[d].cached = tab[d].cached /\ entry'[d].lReferenceCount = n
      /\ entry'[d].bLocked = tab[d].bLocked /\ entry'[d].lForceUpdate = tab[d].lForceUpdate
      /\ entry'[d].info = tab[d].info /\ entry'[d].ftCacheTime = tab[d].ftCacheTime
      /\ entry'[d].hEvent = event
  BY <1>51, <1>51b
<1>6. \A e \in Dirs \ {d} : entry'[e] = tab[e]
  BY <1>1
<1>7. entry' \in [Dirs -> Entries]
  BY <1>5, <1>51, <1>52
<1>. QED
  BY <1>2, <1>52, <1>6, <1>7 DEF n, event

LEMMA AcquireStack ==
  ASSUME TypesFit, CallsFit, NEW t \in DirThreads, stack[t] # <<>>, NEW d \in Dirs,
         NEW tab \in [Dirs -> Entries], NEW list \in Seq(Dirs), NEW then \in Later,
         Acquire(t, d, tab, list, then),
         Fits(Has(Top(t), d, then)), Fits(WaitsFor(Top(t), d, then))
  PROVE  stack' \in [DirThreads -> Seq(Frames)] /\ CallsFit'
<1> DEFINE f == IF tab[d].lReferenceCount = 1 THEN Has(Top(t), d, then) ELSE WaitsFor(Top(t), d, then)
<1>1. Become(t, f)
  BY DEF Acquire
<1>2. (f = Has(Top(t), d, then) \/ f = WaitsFor(Top(t), d, then)) /\ Fits(f)
  OBVIOUS
<1> HIDE DEF f
<1>. QED
  BY <1>1, <1>2, AcquireFits

(* Room is made, then the directory is looked for.                         *)
Gone == IF Cardinality({e \in Dirs : entry[e].cached}) + 1 >= dwAllocated /\ lpDirectoryList # <<>>
        THEN Last(lpDirectoryList) ELSE NoDir
Left == [e \in Dirs |-> IF e = Gone THEN NoEntry ELSE entry[e]]

LEMMA GoneMeans ==
  ASSUME TypesFit
  PROVE  /\ Gone \in Dirs => Listed(lpDirectoryList, Gone)
         /\ Left \in [Dirs -> Entries]
         /\ Without(lpDirectoryList, Gone) \in Seq(Dirs)
         /\ \A e \in Dirs : Left[e] = IF e = Gone THEN NoEntry ELSE entry[e]
<1>1. lpDirectoryList # <<>> => Listed(lpDirectoryList, Last(lpDirectoryList))
  <2>1. lpDirectoryList # <<>> => Len(lpDirectoryList) \in 1..Len(lpDirectoryList)
    BY DEF TypesFit
  <2>. QED
    BY <2>1 DEF Listed, Last
<1>2. Gone \in Dirs => Gone = Last(lpDirectoryList) /\ lpDirectoryList # <<>>
  BY DirectoryAssumption DEF Gone
<1>. QED
  BY <1>1, <1>2, WithoutMeans, NoEntryIsEntry DEF TypesFit, Left

LEMMA InsertMeans ==
  ASSUME NEW t, NEW d, NEW then, InsertAndAcquire(t, d, then)
  PROVE  \/ /\ ~ Left[d].cached
            /\ entry' = [Left EXCEPT ![d] = NewEntry]
            /\ lpDirectoryList' = Without(lpDirectoryList, Gone)
            /\ Become(t, Has(Top(t), d, then))
         \/ /\ Left[d].cached
            /\ Acquire(t, d, Left, Without(lpDirectoryList, Gone), then)
BY DEF InsertAndAcquire, Left, Gone

LEMMA InsertFits ==
  ASSUME TypesFit, CallsFit, NEW t \in DirThreads, stack[t] # <<>>, NEW d \in Dirs, NEW then \in Later,
         InsertAndAcquire(t, d, then),
         Fits(Has(Top(t), d, then)), Fits(WaitsFor(Top(t), d, then))
  PROVE  /\ entry' \in [Dirs -> Entries] /\ lpDirectoryList' \in Seq(Dirs)
         /\ stack' \in [DirThreads -> Seq(Frames)] /\ CallsFit'
<1>1. Left \in [Dirs -> Entries] /\ Without(lpDirectoryList, Gone) \in Seq(Dirs)
  BY GoneMeans
<1>2. CASE /\ entry' = [Left EXCEPT ![d] = NewEntry] /\ lpDirectoryList' = Without(lpDirectoryList, Gone)
           /\ Become(t, Has(Top(t), d, then))
  <2>1. entry' \in [Dirs -> Entries] /\ lpDirectoryList' \in Seq(Dirs)
    BY <1>1, <1>2, NoEntryIsEntry
  <2>. QED
    BY <1>2, <2>1, AcquireFits
<1>3. CASE Acquire(t, d, Left, Without(lpDirectoryList, Gone), then)
  BY <1>1, <1>3, AcquireTypes, AcquireStack
<1>. QED
  BY <1>2, <1>3, InsertMeans

LEMMA ReleaseTypes ==
  ASSUME TypesFit, NEW d \in Dirs, NEW e \in Entries, NEW n \in Int, NEW delete \in BOOLEAN, Release2(d, e, n, delete)
  PROVE  /\ entry' \in [Dirs -> Entries] /\ lpDirectoryList' \in Seq(Dirs)
         /\ \A b \in Dirs \ {d} : entry'[b] = entry[b]
         /\ \/ /\ e.lReferenceCount - n > 1 /\ lpDirectoryList' = lpDirectoryList
               /\ entry'[d] = [e EXCEPT !.lReferenceCount = e.lReferenceCount - n,
                                        !.hEvent = IF @ = "none" THEN @ ELSE "set"]
            \/ /\ ~ (e.lReferenceCount - n > 1) /\ delete
               /\ entry'[d] = NoEntry /\ lpDirectoryList' = lpDirectoryList
            \/ /\ ~ (e.lReferenceCount - n > 1) /\ ~ delete
               /\ entry'[d] = [e EXCEPT !.lReferenceCount = e.lReferenceCount - n, !.hEvent = "none"]
               /\ lpDirectoryList' = IF e.bLocked THEN lpDirectoryList ELSE <<d>> \o lpDirectoryList
<1>1. CASE e.lReferenceCount - n > 1
  <2>1. /\ entry' = [entry EXCEPT ![d] = [e EXCEPT !.lReferenceCount = e.lReferenceCount - n,
                                                 !.hEvent = IF @ = "none" THEN @ ELSE "set"]]
        /\ lpDirectoryList' = lpDirectoryList
    BY <1>1 DEF Release2, HandOver
  <2>2. e.lReferenceCount - n \in Int /\ (IF e.hEvent = "none" THEN e.hEvent ELSE "set") \in Events
    BY DEF Entries, Events
  <2>3. \A m \in Int : \A event \in Events : [e EXCEPT !.lReferenceCount = m, !.hEvent = event] \in Entries
    BY CountIsEntry
  <2>4. [e EXCEPT !.lReferenceCount = e.lReferenceCount - n,
                  !.hEvent = IF e.hEvent = "none" THEN e.hEvent ELSE "set"] \in Entries
    BY <2>2, <2>3
  <2>. QED
    BY <1>1, <2>1, <2>4 DEF TypesFit
<1>2. CASE ~ (e.lReferenceCount - n > 1) /\ delete
  <2>1. entry' = [entry EXCEPT ![d] = NoEntry] /\ lpDirectoryList' = lpDirectoryList
    BY <1>2 DEF Release2
  <2>. QED
    BY <1>2, <2>1, NoEntryIsEntry DEF TypesFit
<1>3. CASE ~ (e.lReferenceCount - n > 1) /\ ~ delete
  <2>1. /\ entry' = [entry EXCEPT ![d] = [e EXCEPT !.lReferenceCount = e.lReferenceCount - n, !.hEvent = "none"]]
        /\ lpDirectoryList' = IF e.bLocked THEN lpDirectoryList ELSE <<d>> \o lpDirectoryList
    BY <1>3 DEF Release2, ListUnused
  <2>2. e.lReferenceCount - n \in Int /\ "none" \in Events
    BY DEF Entries, Events
  <2>3. [e EXCEPT !.lReferenceCount = e.lReferenceCount - n, !.hEvent = "none"] \in Entries
    BY <2>2, CountIsEntry
  <2>. QED
    BY <1>3, <2>1, <2>3, PrependMeans DEF TypesFit
<1>. QED
  BY <1>1, <1>2, <1>3

(* The time of a directory only grows.                                     *)
Grown(v) == v \in [Dirs -> Volumes] /\ \A d \in Dirs : volume[d].stamp <= v[d].stamp

LEMMA ChangedGrows ==
  ASSUME TypesFit, NEW v, Grown(v), NEW d
  PROVE  Grown(Changed(v, d))
<1>1. ASSUME NEW e \in Dirs
      PROVE  /\ Changed(v, d)[e] \in Volumes /\ volume[e].stamp <= Changed(v, d)[e].stamp
  <2>1. v[e] \in Volumes /\ v[e].stamp \in Int /\ v[e].mtime \in Int /\ volume[e].stamp <= v[e].stamp
    BY DEF Grown, Volumes
  <2>2. volume[e].stamp \in Int
    BY DEF TypesFit, Volumes
  <2>3. PICK n \in Int, m \in Int : n = v[e].stamp + 1 /\ m = v[e].mtime + 1
    BY <2>1
  <2>4. Changed(v, d)[e] = IF e = d THEN [v[e] EXCEPT !.stamp = n, !.mtime = m] ELSE v[e]
    BY <2>3 DEF Changed
  <2>5. [v[e] EXCEPT !.stamp = n, !.mtime = m] \in Volumes /\ [v[e] EXCEPT !.stamp = n, !.mtime = m].stamp = n
    BY <2>1 DEF Volumes
  <2>6. volume[e].stamp <= n
    BY <2>1, <2>2, <2>3
  <2>. QED
    BY <2>1, <2>4, <2>5, <2>6
<1>2. Changed(v, d) \in [Dirs -> Volumes]
  BY <1>1 DEF Changed
<1>. QED
  BY <1>1, <1>2 DEF Grown

LEMMA SameGrows ==
  ASSUME TypesFit
  PROVE  Grown(volume)
BY DEF Grown, TypesFit, Volumes

\* What else is written of a directory leaves its time.
LEMMA WrittenGrows ==
  ASSUME TypesFit, NEW v, Grown(v), NEW d \in Dirs, NEW w \in Volumes, w.stamp = v[d].stamp
  PROVE  Grown([v EXCEPT ![d] = w])
BY DEF Grown

-------------------------------------------------------------------------------
(* Every step leaves the types and the calls as they should be.            *)
LEMMA TypesStay ==
  ASSUME TypesFit, CallsFit', stack' \in [DirThreads -> Seq(Frames)], entry' \in [Dirs -> Entries],
         lpDirectoryList' \in Seq(Dirs), Grown(volume'), UNCHANGED <<promised, plan>>
  PROVE  TypesFit' /\ CallsFit' /\ Grown(volume')
BY DEF TypesFit, Grown

LEMMA AcquireDirectoryFits ==
  ASSUME TypesFit, CallsFit, NEW t \in DirThreads, AcquireDirectory(t)
  PROVE  TypesFit' /\ CallsFit' /\ Grown(volume')
<1> DEFINE f == Top(t)
<1>1. stack[t] # <<>> /\ f.op = "open" /\ f.at = "acquire" /\ InsertAndAcquire(t, f.dir, "opened")
      /\ UNCHANGED <<volume, promised, plan>>
  BY DEF AcquireDirectory, In, asked, dirghosts
<1>2. f \in Frames /\ Fits(f) /\ f.dir \in Dirs /\ "opened" \in Later
  BY <1>1, TopIsCall, TopFits DEF Frames, Later
<1> HIDE DEF f
<1>3. f.on = NoDir /\ f.holds = {} /\ f.todo \subseteq Dirs /\ ~ f.missing
  BY <1>1, <1>2 DEF Fits, OpenFits
<1>4. Fits(Has(f, f.dir, "opened"))
  BY <1>1, <1>2, <1>3, HasIsFrame DEF Fits, OpenFits
<1>5. Fits(WaitsFor(f, f.dir, "opened"))
  BY <1>1, <1>2, <1>3, WaitsIsFrame DEF Fits, OpenFits
<1>6. /\ entry' \in [Dirs -> Entries] /\ lpDirectoryList' \in Seq(Dirs)
      /\ stack' \in [DirThreads -> Seq(Frames)] /\ CallsFit'
  BY <1>1, <1>2, <1>4, <1>5, InsertFits DEF f
<1>. QED
  BY <1>1, <1>6, TypesStay, SameGrows

LEMMA WakeFits ==
  ASSUME TypesFit, CallsFit, NEW t \in DirThreads, Wake(t)
  PROVE  TypesFit' /\ CallsFit' /\ Grown(volume')
<1> DEFINE f == Top(t)
           g == [f EXCEPT !.at = f.then, !.then = "", !.on = NoDir,
                          !.check = entry[f.on].lForceUpdate, !.holds = @ \cup {f.on}]
<1>1. stack[t] # <<>> /\ f.at = "wait" /\ Become(t, g) /\ entry' = [entry EXCEPT ![f.on].hEvent = "reset"]
      /\ UNCHANGED <<volume, promised, plan, lpDirectoryList>>
  BY DEF Wake, asked, dirghosts
<1>2. f \in Frames /\ Fits(f)
  BY <1>1, TopIsCall, TopFits
<1>3. f.on \in Dirs /\ f.then \in Later
  <2>1. \A d \in Made : ParentDir[d] \in Dirs /\ d \in Dirs
    BY DirectoryAssumption DEF Made
  <2>2. f.dir \in Dirs
    BY <1>2 DEF Frames
  <2>3. CASE f.op = "open"
    BY <1>1, <1>2, <2>2, <2>3 DEF Fits, OpenFits, Later
  <2>4. CASE f.op = "update"
    BY <1>1, <1>2, <2>1, <2>4 DEF Fits, UpdateFits, Later
  <2>5. CASE f.op = "move"
    BY <1>1, <1>2, <2>1, <2>2, <2>5 DEF Fits, MoveFits, Later
  <2>. QED
    BY <1>1, <1>2, <2>3, <2>4, <2>5 DEF Fits, CommandFits
<1>4. entry[f.on] \in Entries /\ entry[f.on].lForceUpdate \in BOOLEAN
  BY <1>3 DEF TypesFit, Entries
<1>5. /\ g \in Frames /\ g.op = f.op /\ g.at = f.then /\ g.on = NoDir /\ g.dir = f.dir /\ g.x = f.x
      /\ g.keep = f.keep /\ g.todo = f.todo /\ g.missing = f.missing /\ g.failed = f.failed
      /\ g.holds = f.holds \cup {f.on}
  BY <1>2, <1>3, <1>4 DEF Frames, Later, Places, Nexts
<1> HIDE DEF f, g
<1>6. Fits(g) /\ Settled(g)
  <2>1. Settled(g)
    BY <1>3, <1>5 DEF Later, Settled
  <2>2. CASE f.op = "open"
    <3>1. f.on = f.dir /\ f.then = "opened" /\ f.holds = {} /\ f.todo \subseteq Dirs /\ ~ f.missing
      BY <1>1, <1>2, <2>2 DEF Fits, OpenFits
    <3>2. g.holds = {g.dir}
      BY <1>5, <3>1
    <3>. QED
      BY <1>5, <2>1, <2>2, <3>1, <3>2 DEF Fits, OpenFits
  <2>3. CASE f.op = "update"
    <3>1. /\ f.on = ParentDir[f.dir] /\ f.then = "marking" /\ f.holds = {} /\ f.dir \in Made
          /\ f.x \in Owners /\ ~ f.keep
      BY <1>1, <1>2, <2>3 DEF Fits, UpdateFits
    <3>2. g.holds = {ParentDir[g.dir]}
      BY <1>5, <3>1
    <3>. QED
      BY <1>5, <2>1, <2>3, <3>1, <3>2 DEF Fits, UpdateFits
  <2>4. CASE f.op = "move"
    <3>1. f.x \in Made /\ ~ f.keep /\ f.dir # f.x
          /\ \/ f.then \in {"source", "restored"} /\ f.on = f.dir /\ f.holds = {}
             \/ f.then = "target" /\ f.on = f.x /\ f.holds = {f.dir}
      BY <1>1, <1>2, <2>4 DEF Fits, MoveFits
    <3>2. g.holds = IF g.at = "target" THEN {g.dir, g.x} ELSE {g.dir}
      BY <1>5, <3>1
    <3>. QED
      BY <1>5, <2>1, <2>4, <3>1, <3>2 DEF Fits, MoveFits
  <2>. QED
    BY <1>1, <1>2, <2>1, <2>2, <2>3, <2>4 DEF Fits, CommandFits
<1>7. stack' \in [DirThreads -> Seq(Frames)] /\ CallsFit'
  BY <1>1, <1>5, <1>6, BecomeFits DEF f
<1>8. entry' \in [Dirs -> Entries]
  <2>1. [entry[f.on] EXCEPT !.hEvent = "reset"] \in Entries
    BY <1>4 DEF Entries
  <2>. QED
    BY <1>1, <1>3, <2>1 DEF TypesFit
<1>9. lpDirectoryList' \in Seq(Dirs) /\ Grown(volume')
  BY <1>1, SameGrows DEF TypesFit
<1>. QED
  BY <1>1, <1>7, <1>8, <1>9, TypesStay

LEMMA ExchangeFits ==
  ASSUME TypesFit, CallsFit, NEW t \in DirThreads, Exchange(t)
  PROVE  TypesFit' /\ CallsFit' /\ Grown(volume')
<1> DEFINE f == Top(t)
<1>1. stack[t] # <<>> /\ f.op = "open" /\ f.at = "opened"
      /\ entry' = [entry EXCEPT ![f.dir].lForceUpdate = FALSE]
      /\ UNCHANGED <<volume, promised, plan, lpDirectoryList>>
  BY DEF Exchange, In, asked, dirghosts
<1>2. PICK at \in {"look", "finish"}, check \in BOOLEAN : Become(t, [f EXCEPT !.at = at, !.check = check])
  <2>1. PICK populated \in BOOLEAN :
          LET again == entry[f.dir].lForceUpdate \/ ~ populated IN
          Become(t, [f EXCEPT !.at = IF again \/ f.check THEN "look" ELSE "finish", !.check = ~ again])
    BY DEF Exchange
  <2> DEFINE at == IF (entry[f.dir].lForceUpdate \/ ~ populated) \/ f.check THEN "look" ELSE "finish"
             check == ~ (entry[f.dir].lForceUpdate \/ ~ populated)
  <2>2. at \in {"look", "finish"} /\ check \in BOOLEAN
    OBVIOUS
  <2>3. Become(t, [f EXCEPT !.at = at, !.check = check])
    BY <2>1
  <2>. QED
    BY <2>2, <2>3
<1> DEFINE g == [f EXCEPT !.at = at, !.check = check]
<1>3. f \in Frames /\ Fits(f) /\ f.dir \in Dirs
  BY <1>1, TopIsCall, TopFits DEF Frames
<1>4. /\ g \in Frames /\ g.op = f.op /\ g.at = at /\ g.on = f.on /\ g.dir = f.dir
      /\ g.keep = f.keep /\ g.todo = f.todo /\ g.missing = f.missing /\ g.failed = f.failed /\ g.holds = f.holds
  BY <1>3 DEF Frames, Places
<1>5. Become(t, g)
  BY <1>2
<1> HIDE DEF f, g
<1>6. Fits(g) /\ Settled(g)
  BY <1>1, <1>3, <1>4 DEF Fits, OpenFits, Settled
<1>7. stack' \in [DirThreads -> Seq(Frames)] /\ CallsFit'
  BY <1>1, <1>4, <1>5, <1>6, BecomeFits DEF f
<1>8. entry' \in [Dirs -> Entries]
  <2>1. [entry[f.dir] EXCEPT !.lForceUpdate = FALSE] \in Entries
    <3>1. entry[f.dir] \in Entries
      BY <1>3 DEF TypesFit
    <3>. QED
      BY <3>1 DEF Entries
  <2>. QED
    BY <1>1, <1>3, <2>1 DEF TypesFit
<1>9. lpDirectoryList' \in Seq(Dirs) /\ Grown(volume')
  BY <1>1, SameGrows DEF TypesFit
<1>. QED
  BY <1>1, <1>7, <1>8, <1>9, TypesStay

LEMMA LookAtDiskFits ==
  ASSUME TypesFit, CallsFit, NEW t \in DirThreads, LookAtDisk(t)
  PROVE  TypesFit' /\ CallsFit' /\ Grown(volume')
<1> DEFINE f == Top(t)
           missing == [f EXCEPT !.at = "finish", !.missing = TRUE, !.failed = TRUE]
           fresh == [f EXCEPT !.at = "finish"]
           old == [f EXCEPT !.at = "list", !.seen = volume[f.dir].mtime]
<1>1. stack[t] # <<>> /\ f.op = "open" /\ f.at = "look"
      /\ UNCHANGED <<volume, promised, plan, entry, lpDirectoryList>>
  BY DEF LookAtDisk, In, asked, dirghosts, cache
<1>2. Become(t, missing) \/ Become(t, fresh) \/ Become(t, old)
  BY DEF LookAtDisk
<1>3. f \in Frames /\ Fits(f) /\ f.dir \in Dirs
  BY <1>1, TopIsCall, TopFits DEF Frames
<1>4. volume[f.dir].mtime \in Int
  BY <1>3 DEF TypesFit, Volumes
<1>5. PICK g \in {missing, fresh, old} : Become(t, g)
  BY <1>2
<1>6. /\ g \in Frames /\ g.op = f.op /\ g.at \in {"finish", "list"} /\ g.on = f.on /\ g.dir = f.dir
      /\ g.keep = f.keep /\ g.todo = f.todo /\ g.holds = f.holds
      /\ g.missing => f.missing \/ (g.at = "finish" /\ g.failed)
  <2>1. CASE g = missing
    BY <1>1, <1>3, <2>1 DEF Frames, Places
  <2>2. CASE g = fresh
    BY <1>1, <1>3, <2>2 DEF Frames, Places
  <2>3. CASE g = old
    BY <1>1, <1>3, <1>4, <2>3 DEF Frames, Places
  <2>. QED
    BY <2>1, <2>2, <2>3
<1> HIDE DEF f, missing, fresh, old
<1>7. Fits(g) /\ Settled(g)
  BY <1>1, <1>3, <1>6 DEF Fits, OpenFits, Settled
<1>8. stack' \in [DirThreads -> Seq(Frames)] /\ CallsFit'
  BY <1>1, <1>5, <1>6, <1>7, BecomeFits DEF f
<1>9. lpDirectoryList' \in Seq(Dirs) /\ Grown(volume') /\ entry' \in [Dirs -> Entries]
  BY <1>1, SameGrows DEF TypesFit
<1>. QED
  BY <1>1, <1>8, <1>9, TypesStay

\* What a call begins with.
LEMMA FrameIsFrame ==
  ASSUME NEW op \in Operations, NEW at \in Places, NEW d \in Dirs, NEW x \in Owners \cup Dirs,
         NEW r \in BOOLEAN, NEW k \in BOOLEAN, NEW due \in Int
  PROVE  /\ Frame(op, at, d, x, r, k, due) \in Frames
         /\ Frame(op, at, d, x, r, k, due).op = op /\ Frame(op, at, d, x, r, k, due).at = at
         /\ Frame(op, at, d, x, r, k, due).on = NoDir /\ Frame(op, at, d, x, r, k, due).dir = d
         /\ Frame(op, at, d, x, r, k, due).x = x /\ Frame(op, at, d, x, r, k, due).keep = k
         /\ Frame(op, at, d, x, r, k, due).holds = {} /\ Frame(op, at, d, x, r, k, due).todo = {}
         /\ Frame(op, at, d, x, r, k, due).due = due /\ ~ Frame(op, at, d, x, r, k, due).missing
         /\ ~ Frame(op, at, d, x, r, k, due).failed
<1>1. PICK zero \in Int : zero = 0
  OBVIOUS
<1>1a. "" \in Nexts
  BY DEF Nexts
<1>2. NoDir \in Dirs \cup {NoDir} /\ NoInfo \in Infos
  BY NoEntryIsEntry
<1> DEFINE f == Frame(op, at, d, x, r, k, due)
<1>3. f = [op |-> op, at |-> at, on |-> NoDir, then |-> "", dir |-> d, x |-> x, recursive |-> r,
           keep |-> k, check |-> TRUE, missing |-> FALSE, failed |-> FALSE, due |-> due, seen |-> zero,
           list |-> NoInfo, got |-> {}, todo |-> {}, holds |-> {}]
  BY <1>1 DEF Frame
<1> HIDE DEF f
<1>4. f \in Frames
  BY <1>1a, <1>2, <1>3 DEF Frames
<1>5. /\ f.op = op /\ f.at = at /\ f.on = NoDir /\ f.dir = d /\ f.x = x /\ f.keep = k /\ f.holds = {}
      /\ f.todo = {} /\ f.due = due /\ ~ f.missing /\ ~ f.failed
  BY <1>1, <1>3
<1>. QED
  BY <1>4, <1>5 DEF f

LEMMA OpenIsFrame ==
  ASSUME TypesFit, NEW d \in Dirs, NEW r \in BOOLEAN, NEW k \in BOOLEAN
  PROVE  /\ Open(d, r, k) \in Frames
         /\ Open(d, r, k).op = "open" /\ Open(d, r, k).at = "acquire" /\ Open(d, r, k).on = NoDir
         /\ Open(d, r, k).dir = d /\ Open(d, r, k).keep = k /\ Open(d, r, k).holds = {}
         /\ Open(d, r, k).todo = {} /\ ~ Open(d, r, k).missing /\ Open(d, r, k).due = promised[d]
         /\ Fits(Open(d, r, k)) /\ Settled(Open(d, r, k)) /\ Locks(Open(d, r, k)) = {} /\ Tested(Open(d, r, k)) = {}
<1> DEFINE g == Open(d, r, k)
<1>1. promised[d] \in Int
  BY DEF TypesFit
<1>2. "open" \in Operations /\ "acquire" \in Places /\ Self \in Owners \cup Dirs
  BY DEF Operations, Places, Owners
<1>4. /\ g \in Frames
      /\ g.op = "open" /\ g.at = "acquire" /\ g.on = NoDir /\ g.dir = d /\ g.keep = k /\ g.holds = {}
      /\ g.todo = {} /\ ~ g.missing /\ g.due = promised[d]
  BY <1>1, <1>2, FrameIsFrame DEF Open
<1> HIDE DEF g
<1>6. Fits(g) /\ Settled(g)
  BY <1>4 DEF Fits, OpenFits, Settled
<1>7. Locks(g) = {} /\ Tested(g) = {}
  BY <1>4 DEF Locks, Tested
<1>. QED
  BY <1>4, <1>6, <1>7 DEF g

LEMMA UpdateIsFrame ==
  ASSUME NEW d \in Dirs, NEW x \in Owners
  PROVE  /\ Update(d, x) \in Frames
         /\ Update(d, x).op = "update" /\ Update(d, x).at = "call" /\ Update(d, x).on = NoDir
         /\ Update(d, x).dir = d /\ ~ Update(d, x).keep /\ Update(d, x).holds = {} /\ Update(d, x).x = x
         /\ Fits(Update(d, x)) /\ Settled(Update(d, x)) /\ Locks(Update(d, x)) = {} /\ Tested(Update(d, x)) = {}
<1> DEFINE g == Update(d, x)
<1>1. "update" \in Operations /\ "call" \in Places /\ x \in Owners \cup Dirs /\ 0 \in Int /\ FALSE \in BOOLEAN
  BY DEF Operations, Places
<1>2. /\ g \in Frames
      /\ g.op = "update" /\ g.at = "call" /\ g.on = NoDir /\ g.dir = d /\ ~ g.keep /\ g.holds = {} /\ g.x = x
  <2>1. \A k \in BOOLEAN, due \in Int : Frame("update", "call", d, x, k, k, due) \in Frames
    BY <1>1, FrameIsFrame
  <2>2. g \in Frames
    <3>1. PICK k \in BOOLEAN : k = FALSE
      OBVIOUS
    <3>1a. PICK due \in Int : due = 0
      OBVIOUS
    <3>2. Frame("update", "call", d, x, k, k, due) \in Frames
      BY <2>1
    <3>3. g = Frame("update", "call", d, x, k, k, due)
      BY <3>1, <3>1a DEF Update, Frame
    <3>. QED
      BY <3>2, <3>3
  <2>. QED
    BY <2>2 DEF Update, Frame
<1> HIDE DEF g
<1>4. Fits(g) /\ Settled(g)
  BY <1>2 DEF Fits, UpdateFits, Settled
<1>5. Locks(g) = {} /\ Tested(g) = {}
  BY <1>2 DEF Locks, Tested
<1>. QED
  BY <1>2, <1>4, <1>5 DEF g

LEMMA ListDirectoryFits ==
  ASSUME TypesFit, CallsFit, NEW t \in DirThreads, ListDirectory(t)
  PROVE  TypesFit' /\ CallsFit' /\ Grown(volume')
<1> DEFINE f == Top(t)
           list == [NoInfo EXCEPT !.stamp = volume[f.dir].stamp, !.files = volume[f.dir].files]
<1>1. stack[t] # <<>> /\ f.op = "open" /\ f.at = "list"
      /\ UNCHANGED <<volume, promised, plan, lpDirectoryList>>
  BY DEF ListDirectory, In, asked, dirghosts
<1>2. f \in Frames /\ Fits(f) /\ f.dir \in Dirs
  BY <1>1, TopIsCall, TopFits DEF Frames
<1>3. list \in Infos
  <2>1. volume[f.dir].stamp \in Int /\ volume[f.dir].files \in SUBSET Files
    BY <1>2 DEF TypesFit, Volumes
  <2>. QED
    BY <2>1, NoEntryIsEntry DEF Infos
<1>4. CASE /\ entry' = [entry EXCEPT ![f.dir].info = NoInfo]
           /\ Become(t, [f EXCEPT !.at = "finish", !.failed = TRUE])
  <2> DEFINE g == [f EXCEPT !.at = "finish", !.failed = TRUE]
  <2>1. /\ g \in Frames /\ g.op = f.op /\ g.at = "finish" /\ g.on = f.on /\ g.dir = f.dir /\ g.keep = f.keep
        /\ g.todo = f.todo /\ g.holds = f.holds /\ g.missing = f.missing
    BY <1>2 DEF Frames, Places
  <2>2. Become(t, g)
    BY <1>4
  <2> HIDE DEF f, g
  <2>3. Fits(g) /\ Settled(g)
    BY <1>1, <1>2, <2>1 DEF Fits, OpenFits, Settled
  <2>4. stack' \in [DirThreads -> Seq(Frames)] /\ CallsFit'
    BY <1>1, <2>1, <2>2, <2>3, BecomeFits DEF f
  <2>5. [entry[f.dir] EXCEPT !.info = NoInfo] \in Entries
    BY <1>2, NoEntryIsEntry DEF TypesFit, Entries
  <2>6. entry' \in [Dirs -> Entries]
    BY <1>2, <1>4, <2>5 DEF TypesFit, f
  <2>7. lpDirectoryList' \in Seq(Dirs) /\ Grown(volume')
    BY <1>1, SameGrows DEF TypesFit
  <2>. QED
    BY <1>1, <2>4, <2>6, <2>7, TypesStay
<1>5. ASSUME NEW todo \in SUBSET Dirs, Become(t, [f EXCEPT !.at = "below", !.todo = todo, !.list = list]),
             NEW again \in BOOLEAN, entry' = [entry EXCEPT ![f.dir].lForceUpdate = @ \/ again]
      PROVE  TypesFit' /\ CallsFit' /\ Grown(volume')
  <2> DEFINE g == [f EXCEPT !.at = "below", !.todo = todo, !.list = list]
  <2> HIDE DEF list
  <2>1. /\ g \in Frames /\ g.op = f.op /\ g.at = "below" /\ g.on = f.on /\ g.dir = f.dir /\ g.keep = f.keep
        /\ g.todo = todo /\ g.holds = f.holds /\ g.missing = f.missing
    BY <1>2, <1>3, <1>5 DEF Frames, Places
  <2>2. Become(t, g)
    BY <1>5
  <2> HIDE DEF f, g
  <2>3. Fits(g) /\ Settled(g)
    BY <1>1, <1>2, <1>5, <2>1 DEF Fits, OpenFits, Settled
  <2>4. stack' \in [DirThreads -> Seq(Frames)] /\ CallsFit'
    BY <1>1, <2>1, <2>2, <2>3, BecomeFits DEF f
  <2>5. PICK marked \in BOOLEAN : marked = (entry[f.dir].lForceUpdate \/ again)
    OBVIOUS
  <2>5a. [entry[f.dir] EXCEPT !.lForceUpdate = marked] \in Entries
    <3>1. entry[f.dir] \in Entries
      BY <1>2 DEF TypesFit
    <3>. QED
      BY <3>1 DEF Entries
  <2>6. entry' \in [Dirs -> Entries]
    BY <1>2, <1>5, <2>5, <2>5a DEF TypesFit, f
  <2>7. lpDirectoryList' \in Seq(Dirs) /\ Grown(volume')
    BY <1>1, SameGrows DEF TypesFit
  <2>. QED
    BY <1>1, <2>4, <2>6, <2>7, TypesStay
<1>6. \/ /\ entry' = [entry EXCEPT ![f.dir].info = NoInfo]
         /\ Become(t, [f EXCEPT !.at = "finish", !.failed = TRUE])
      \/ \E todo \in SUBSET Dirs, again \in BOOLEAN :
           /\ Become(t, [f EXCEPT !.at = "below", !.todo = todo, !.list = list])
           /\ entry' = [entry EXCEPT ![f.dir].lForceUpdate = @ \/ again]
  BY Zenon DEF ListDirectory, Children
<1>. QED
  BY <1>4, <1>5, <1>6

LEMMA OpenBelowFits ==
  ASSUME TypesFit, CallsFit, NEW t \in DirThreads, OpenBelow(t)
  PROVE  TypesFit' /\ CallsFit' /\ Grown(volume')
<1> DEFINE f == Top(t)
<1>1. stack[t] # <<>> /\ f.op = "open" /\ f.at = "below"
      /\ UNCHANGED <<volume, promised, plan, entry, lpDirectoryList>>
  BY DEF OpenBelow, In, asked, dirghosts, cache
<1>2. PICK c \in f.todo : Enter(t, [f EXCEPT !.todo = @ \ {c}], Open(c, FALSE, FALSE))
  BY DEF OpenBelow
<1>3. f \in Frames /\ Fits(f)
  BY <1>1, TopIsCall, TopFits
<1> DEFINE g == [f EXCEPT !.todo = @ \ {c}]
<1>4. /\ g \in Frames /\ g.op = f.op /\ g.at = f.at /\ g.on = f.on /\ g.dir = f.dir /\ g.keep = f.keep
      /\ g.todo \subseteq f.todo /\ g.holds = f.holds /\ g.missing = f.missing
  BY <1>3 DEF Frames
<1>5. Enter(t, g, Open(c, FALSE, FALSE))
  BY <1>2
<1> HIDE DEF f, g
<1>6. c \in Dirs /\ f.todo \subseteq Dirs
  BY <1>1, <1>2, <1>3 DEF Fits, OpenFits
<1>7. Fits(g)
  BY <1>1, <1>3, <1>4, <1>6 DEF Fits, OpenFits
<1>8. Calling(g, Open(c, FALSE, FALSE))
  BY <1>1, <1>4, <1>6, OpenIsFrame DEF Calling
<1>8a. Open(c, FALSE, FALSE) \in Frames /\ Fits(Open(c, FALSE, FALSE)) /\ Settled(Open(c, FALSE, FALSE))
  BY <1>6, OpenIsFrame
<1>9. stack' \in [DirThreads -> Seq(Frames)] /\ CallsFit'
  BY <1>1, <1>4, <1>5, <1>7, <1>8, <1>8a, EnterFits DEF f
<1>10. lpDirectoryList' \in Seq(Dirs) /\ Grown(volume') /\ entry' \in [Dirs -> Entries]
  BY <1>1, SameGrows DEF TypesFit
<1>. QED
  BY <1>1, <1>9, <1>10, TypesStay

LEMMA OwnedType ==
  ASSUME TypesFit, NEW d \in Dirs, NEW list \in Infos
  PROVE  Owned(d, list) \in SUBSET Owners
<1>1. volume[d].perms \in SUBSET Owners /\ entry[d].info.owned \in SUBSET Owners
  BY DEF TypesFit, Volumes, Entries, Infos
<1>. QED
  BY <1>1 DEF Owned

LEMMA PermsWritten ==
  ASSUME TypesFit, NEW d \in Dirs, NEW perms \in SUBSET Owners, NEW v, Grown(v), v[d].stamp \in Int
  PROVE  Grown([v EXCEPT ![d].perms = perms])
<1>1. v[d] \in Volumes
  BY DEF Grown
<1>2. [v[d] EXCEPT !.perms = perms] \in Volumes /\ [v[d] EXCEPT !.perms = perms].stamp = v[d].stamp
  BY <1>1 DEF Volumes
<1>. QED
  BY <1>2, WrittenGrows

LEMMA ReadPermissionsFits ==
  ASSUME TypesFit, CallsFit, NEW t \in DirThreads, ReadPermissions(t)
  PROVE  TypesFit' /\ CallsFit' /\ Grown(volume')
<1> DEFINE f == Top(t)
           d == f.dir
           owned == Owned(d, f.list)
<1>1. stack[t] # <<>> /\ f.op = "open" /\ f.at = "below"
      /\ UNCHANGED <<promised, plan, lpDirectoryList>>
  BY DEF ReadPermissions, In, asked, dirghosts
<1>2. f \in Frames /\ Fits(f) /\ d \in Dirs /\ f.list \in Infos /\ f.seen \in Int
  BY <1>1, TopIsCall, TopFits DEF Frames
<1>3. owned \in SUBSET Owners /\ entry[d] \in Entries /\ volume[d] \in Volumes
  BY <1>2, OwnedType DEF TypesFit
<1>4. PICK failed \in BOOLEAN : Become(t, [f EXCEPT !.at = "finish", !.failed = failed])
  BY DEF ReadPermissions
<1> DEFINE g == [f EXCEPT !.at = "finish", !.failed = failed]
<1>5. /\ g \in Frames /\ g.op = f.op /\ g.at = "finish" /\ g.on = f.on /\ g.dir = f.dir
      /\ g.keep = f.keep /\ g.todo = f.todo /\ g.holds = f.holds /\ g.missing = f.missing
  BY <1>2 DEF Frames, Places
<1>6. Become(t, g)
  BY <1>4
<1>7. Fits(g) /\ Settled(g)
  <2> HIDE DEF g, f
  <2>. QED
    BY <1>1, <1>2, <1>5 DEF Fits, OpenFits, Settled
<1>8. stack' \in [DirThreads -> Seq(Frames)] /\ CallsFit'
  <2> HIDE DEF g
  <2>. QED
    BY <1>1, <1>5, <1>6, <1>7, BecomeFits
<1>9. \/ /\ entry' = [entry EXCEPT ![d].info = [f.list EXCEPT !.owned = owned], ![d].ftCacheTime = f.seen]
         /\ volume' = [volume EXCEPT ![d].perms = IF Rewritten(d, f.list) THEN owned ELSE @]
      \/ /\ entry' = [entry EXCEPT ![d].info = [f.list EXCEPT !.owned = entry[d].info.owned \cap f.list.files]]
         /\ volume' = volume
  BY DEF ReadPermissions
<1>10. entry' \in [Dirs -> Entries]
  <2>1. [f.list EXCEPT !.owned = owned] \in Infos
    BY <1>2, <1>3 DEF Infos
  <2>2. entry[d].info.owned \cap f.list.files \in SUBSET Owners
    BY <1>2 DEF Infos, Owners
  <2>3. [f.list EXCEPT !.owned = entry[d].info.owned \cap f.list.files] \in Infos
    BY <1>2, <2>2 DEF Infos
  <2>4. \A i \in Infos : [entry[d] EXCEPT !.info = i] \in Entries
    BY <1>3 DEF Entries
  <2>5. \A i \in Infos : [entry[d] EXCEPT !.info = i, !.ftCacheTime = f.seen] \in Entries
    BY <1>2, <1>3 DEF Entries
  <2> HIDE DEF owned, d, f
  <2>6. CASE entry' = [entry EXCEPT ![d].info = [f.list EXCEPT !.owned = owned], ![d].ftCacheTime = f.seen]
    BY <1>2, <2>1, <2>5, <2>6 DEF TypesFit
  <2>7. CASE entry' = [entry EXCEPT ![d].info = [f.list EXCEPT !.owned = entry[d].info.owned \cap f.list.files]]
    BY <1>2, <2>3, <2>4, <2>7 DEF TypesFit
  <2>. QED
    BY <1>9, <2>6, <2>7
<1>11. Grown(volume')
  <2>1. Grown(volume) /\ volume[d].stamp \in Int
    BY <1>3, SameGrows DEF Volumes
  <2>2. (IF Rewritten(d, f.list) THEN owned ELSE volume[d].perms) \in SUBSET Owners
    BY <1>3 DEF Volumes
  <2> HIDE DEF owned, d, f
  <2>3. Grown([volume EXCEPT ![d].perms = IF Rewritten(d, f.list) THEN owned ELSE volume[d].perms])
    BY <1>2, <2>1, <2>2, PermsWritten
  <2>4. CASE volume' = [volume EXCEPT ![d].perms = IF Rewritten(d, f.list) THEN owned ELSE @]
    BY <2>3, <2>4
  <2>5. CASE volume' = volume
    BY <2>1, <2>5
  <2>. QED
    BY <1>9, <2>4, <2>5
<1>12. lpDirectoryList' \in Seq(Dirs)
  BY <1>1 DEF TypesFit
<1>. QED
  BY <1>1, <1>8, <1>10, <1>11, <1>12, TypesStay

LEMMA FinishOpenFits ==
  ASSUME TypesFit, CallsFit, NEW t \in DirThreads, FinishOpen(t)
  PROVE  TypesFit' /\ CallsFit' /\ Grown(volume')
<1> DEFINE f == Top(t)
           d == f.dir
<1>1. stack[t] # <<>> /\ f.op = "open" /\ f.at = "finish" /\ UNCHANGED <<promised, plan, volume>>
  BY DEF FinishOpen, In, asked, dirghosts
<1>2. f \in Frames /\ Fits(f) /\ d \in Dirs
  BY <1>1, TopIsCall, TopFits DEF Frames
<1>3. entry[d] \in Entries /\ Grown(volume')
  BY <1>1, <1>2, SameGrows DEF TypesFit
<1>4. CASE Succeeds(t) /\ f.keep
  <2>1. ReturnTo(t, TRUE, {d}) /\ UNCHANGED <<entry, lpDirectoryList>>
    BY <1>4 DEF FinishOpen, cache
  <2>2. Keeps(Top(t), TRUE, {d}) /\ {d} \in SUBSET Dirs /\ TRUE \in BOOLEAN
    BY <1>2, <1>4 DEF Keeps
  <2>3. stack' \in [DirThreads -> Seq(Frames)] /\ CallsFit'
    BY <1>1, <2>1, <2>2, ReturnToFits
  <2>4. entry' \in [Dirs -> Entries] /\ lpDirectoryList' \in Seq(Dirs)
    BY <2>1 DEF TypesFit
  <2>. QED
    BY <1>1, <1>3, <2>3, <2>4, TypesStay
<1>5. CASE ~ (Succeeds(t) /\ f.keep)
  <2>1. PICK delete \in BOOLEAN : Release2(d, entry[d], 1, delete)
    BY <1>5 DEF FinishOpen, Release
  <2>2. ReturnTo(t, Succeeds(t), {})
    BY <1>5 DEF FinishOpen
  <2>3. PICK ok \in BOOLEAN : ok = Succeeds(t)
    BY DEF Succeeds
  <2>4. ReturnTo(t, ok, {})
    BY <2>2, <2>3
  <2>5. Keeps(Top(t), ok, {}) /\ {} \in SUBSET Dirs
    BY <1>5, <2>3 DEF Keeps
  <2>6. stack' \in [DirThreads -> Seq(Frames)] /\ CallsFit'
    BY <1>1, <2>4, <2>5, ReturnToFits
  <2>7. entry' \in [Dirs -> Entries] /\ lpDirectoryList' \in Seq(Dirs)
    <3>1. 1 \in Int
      OBVIOUS
    <3>. QED
      BY <1>2, <1>3, <2>1, <3>1, ReleaseTypes, Zenon
  <2>. QED
    BY <1>1, <1>3, <2>6, <2>7, TypesStay
<1>. QED
  BY <1>4, <1>5

\* A call goes on to another place.
At(f, at) == [f EXCEPT !.at = at]

LEMMA AtIsFrame ==
  ASSUME NEW f \in Frames, NEW at \in Places
  PROVE  /\ At(f, at) \in Frames /\ At(f, at).at = at
         /\ At(f, at).op = f.op /\ At(f, at).on = f.on /\ At(f, at).then = f.then /\ At(f, at).dir = f.dir
         /\ At(f, at).x = f.x /\ At(f, at).keep = f.keep /\ At(f, at).todo = f.todo
         /\ At(f, at).missing = f.missing /\ At(f, at).failed = f.failed /\ At(f, at).due = f.due
         /\ At(f, at).holds = f.holds
BY DEF Frames, At

LEMMA CallUpdateFits ==
  ASSUME TypesFit, CallsFit, NEW t \in DirThreads, CallUpdate(t)
  PROVE  TypesFit' /\ CallsFit' /\ Grown(volume')
<1> DEFINE f == Top(t)
<1>1. stack[t] # <<>> /\ f.op = "update" /\ f.at = "call"
      /\ UNCHANGED <<volume, promised, plan, entry, lpDirectoryList>>
  BY DEF CallUpdate, In, asked, dirghosts, cache
<1>2. f \in Frames /\ Fits(f) /\ f.dir \in Dirs
  BY <1>1, TopIsCall, TopFits DEF Frames
<1>3. Enter(t, At(f, "held"), Open(f.dir, FALSE, TRUE)) \/ ReturnTo(t, FALSE, {})
  BY DEF CallUpdate, Call, At
<1> HIDE DEF f
<1>4. f.x \in Owners /\ ~ f.keep /\ f.on = NoDir /\ f.holds = {}
  BY <1>1, <1>2 DEF Fits, UpdateFits
<1>5. ASSUME Enter(t, At(f, "held"), Open(f.dir, FALSE, TRUE))
      PROVE  stack' \in [DirThreads -> Seq(Frames)] /\ CallsFit'
  <2>0. PICK r \in BOOLEAN, k \in BOOLEAN : ~ r /\ k
    OBVIOUS
  <2> DEFINE g == At(f, "held")
             h == Open(f.dir, r, k)
  <2>1. "held" \in Places
    BY DEF Places
  <2>2. g \in Frames /\ g.op = f.op /\ g.at = "held" /\ g.on = f.on /\ g.dir = f.dir /\ g.x = f.x
        /\ g.keep = f.keep /\ g.holds = f.holds
    BY <1>2, <2>1, AtIsFrame
  <2> HIDE DEF g
  <2>3. Fits(g)
    BY <1>1, <1>4, <2>2 DEF Fits, UpdateFits
  <2>4. /\ h \in Frames /\ h.op = "open" /\ h.dir = f.dir /\ h.keep = k /\ Fits(h) /\ Settled(h)
    BY <1>2, OpenIsFrame
  <2>5. Enter(t, g, h)
    <3>1. r = FALSE /\ k = TRUE
      BY <2>0
    <3>. QED
      BY <1>5, <3>1 DEF g
  <2> HIDE DEF h
  <2>6. Calling(g, h)
    BY <1>1, <1>4, <2>0, <2>2, <2>4 DEF Calling
  <2>. QED
    BY <1>1, <2>2, <2>3, <2>4, <2>5, <2>6, EnterFits DEF f
<1>6. ASSUME ReturnTo(t, FALSE, {})
      PROVE  stack' \in [DirThreads -> Seq(Frames)] /\ CallsFit'
  <2>1. PICK no \in BOOLEAN : no = FALSE
    OBVIOUS
  <2>2. Keeps(Top(t), no, {}) /\ ReturnTo(t, no, {}) /\ stack[t] # <<>>
    BY <1>1, <1>6, <2>1 DEF Keeps
  <2>3. {} \in SUBSET Dirs
    OBVIOUS
  <2>. QED
    BY <2>2, <2>3, ReturnToFits
<1>7. stack' \in [DirThreads -> Seq(Frames)] /\ CallsFit'
  BY <1>3, <1>5, <1>6
<1>8. lpDirectoryList' \in Seq(Dirs) /\ Grown(volume') /\ entry' \in [Dirs -> Entries]
  BY <1>1, SameGrows DEF TypesFit
<1>. QED
  BY <1>1, <1>7, <1>8, TypesStay

LEMMA PermissionsGrow ==
  ASSUME TypesFit, NEW d \in Dirs, NEW owned \in SUBSET Owners, WritePermissions(d, owned)
  PROVE  Grown(volume')
<1>1. volume[d] \in Volumes
  BY DEF TypesFit
<1>2. PICK m \in Int : m = IF volume[d].exists /\ volume[d].perms = {} THEN volume[d].mtime + 1 ELSE volume[d].mtime
  BY <1>1 DEF Volumes
<1>3. PICK perms \in SUBSET Owners : perms = IF volume[d].exists THEN owned ELSE volume[d].perms
  BY <1>1 DEF Volumes
<1> DEFINE w == [volume[d] EXCEPT !.perms = perms, !.mtime = m]
<1>4. volume' = [volume EXCEPT ![d] = w]
  BY <1>2, <1>3 DEF WritePermissions
<1>5. w \in Volumes /\ w.stamp = volume[d].stamp
  BY <1>1 DEF Volumes
<1> HIDE DEF w
<1>. QED
  BY <1>4, <1>5, SameGrows, WrittenGrows

LEMMA SaveOwnerFits ==
  ASSUME TypesFit, CallsFit, NEW t \in DirThreads, SaveOwner(t)
  PROVE  TypesFit' /\ CallsFit' /\ Grown(volume')
<1> DEFINE f == Top(t)
           e == entry[f.dir]
           owned == e.info.owned \cup {f.x}
<1>1. stack[t] # <<>> /\ f.op = "update" /\ f.at = "held" /\ UNCHANGED <<promised, plan>>
  BY DEF SaveOwner, In, asked
<1>2. f \in Frames /\ Fits(f) /\ Settled(f) /\ f.dir \in Dirs /\ e \in Entries
  BY <1>1, TopIsCall, TopFits DEF Frames, TypesFit
<1>3. f.x \in Owners /\ ~ f.keep /\ f.on = NoDir
  <2> HIDE DEF f
  <2>. QED
    BY <1>1, <1>2 DEF Fits, UpdateFits
<1>4. \A b \in BOOLEAN : Keeps(f, b, {}) /\ {} \in SUBSET Dirs
  BY <1>3 DEF Keeps
<1>5. CASE /\ WritePermissions(f.dir, owned)
           /\ Release(f.dir, [e EXCEPT !.info.owned = owned], FALSE)
           /\ IF f.x = Self /\ ParentDir[f.dir] # NoDir
              THEN Become(t, [f EXCEPT !.at = "mark", !.holds = {}])
              ELSE ReturnTo(t, TRUE, {})
  <2>1. owned \in SUBSET Owners /\ e.info \in Infos
    BY <1>2, <1>3 DEF Entries, Infos
  <2>2. [e EXCEPT !.info.owned = owned] \in Entries
    <3>1. [e.info EXCEPT !.owned = owned] \in Infos
      BY <2>1 DEF Infos
    <3>. QED
      BY <1>2, <3>1 DEF Entries
  <2>3. PICK delete \in BOOLEAN : Release2(f.dir, [e EXCEPT !.info.owned = owned], 1, delete)
    BY <1>5, Zenon DEF Release
  <2>4. entry' \in [Dirs -> Entries] /\ lpDirectoryList' \in Seq(Dirs)
    <3>1. 1 \in Int
      OBVIOUS
    <3> HIDE DEF e, owned, f
    <3>. QED
      BY <1>2, <2>2, <2>3, <3>1, ReleaseTypes, Zenon
  <2>5. Grown(volume')
    BY <1>2, <1>5, <2>1, PermissionsGrow
  <2>6. CASE f.x = Self /\ ParentDir[f.dir] # NoDir
    <3> DEFINE g == [f EXCEPT !.at = "mark", !.holds = {}]
    <3>1. /\ g \in Frames /\ g.op = f.op /\ g.at = "mark" /\ g.on = f.on /\ g.dir = f.dir /\ g.x = f.x
          /\ g.keep = f.keep /\ g.holds = {}
      BY <1>2 DEF Frames, Places
    <3>2. Become(t, g)
      BY <1>5, <2>6
    <3>3. f.dir \in Made
      BY <1>2, <2>6 DEF Made
    <3> HIDE DEF f, g
    <3>4. Fits(g) /\ Settled(g)
      BY <1>1, <1>3, <3>1, <3>3 DEF Fits, UpdateFits, Settled
    <3>5. stack' \in [DirThreads -> Seq(Frames)] /\ CallsFit'
      BY <1>1, <3>1, <3>2, <3>4, BecomeFits DEF f
    <3>. QED
      BY <1>1, <2>4, <2>5, <3>5, TypesStay
  <2>7. CASE ReturnTo(t, TRUE, {})
    <3>1. stack' \in [DirThreads -> Seq(Frames)] /\ CallsFit'
      BY <1>1, <1>4, <2>7, ReturnToFits
    <3>. QED
      BY <1>1, <2>4, <2>5, <3>1, TypesStay
  <2>. QED
    BY <1>5, <2>6, <2>7
<1>6. CASE /\ Release(f.dir, e, FALSE) \/ UNCHANGED <<entry, lpDirectoryList>>
           /\ ReturnTo(t, FALSE, {}) /\ UNCHANGED volume
  <2>1. stack' \in [DirThreads -> Seq(Frames)] /\ CallsFit'
    BY <1>1, <1>4, <1>6, ReturnToFits
  <2>2. Grown(volume')
    BY <1>6, SameGrows
  <2>3. CASE Release(f.dir, e, FALSE)
    <3>1. PICK delete \in BOOLEAN : Release2(f.dir, e, 1, delete)
      BY <2>3, Zenon DEF Release
    <3>1a. 1 \in Int
      OBVIOUS
    <3>2. entry' \in [Dirs -> Entries] /\ lpDirectoryList' \in Seq(Dirs)
      BY <1>2, <3>1, <3>1a, ReleaseTypes, Zenon
    <3>. QED
      BY <1>1, <2>1, <2>2, <3>2, TypesStay
  <2>4. CASE UNCHANGED <<entry, lpDirectoryList>>
    <3>1. entry' \in [Dirs -> Entries] /\ lpDirectoryList' \in Seq(Dirs)
      BY <2>4 DEF TypesFit
    <3>. QED
      BY <1>1, <2>1, <2>2, <3>1, TypesStay
  <2>. QED
    BY <1>6, <2>3, <2>4
<1>. QED
  BY <1>5, <1>6 DEF SaveOwner, cache

LEMMA ReleaseFits ==
  ASSUME TypesFit, NEW d \in Dirs, NEW e \in Entries, Release(d, e, FALSE)
  PROVE  entry' \in [Dirs -> Entries] /\ lpDirectoryList' \in Seq(Dirs)
<1>1. PICK delete \in BOOLEAN : Release2(d, e, 1, delete)
  BY DEF Release
<1>2. 1 \in Int
  OBVIOUS
<1>. QED
  BY <1>1, <1>2, ReleaseTypes, Zenon

LEMMA EndFits ==
  ASSUME TypesFit, CallsFit, NEW t \in DirThreads, stack[t] # <<>>, ~ Top(t).keep,
         ReturnTo(t, TRUE, {}) \/ ReturnTo(t, FALSE, {})
  PROVE  stack' \in [DirThreads -> Seq(Frames)] /\ CallsFit'
<1>1. PICK ok \in BOOLEAN : ReturnTo(t, ok, {})
  OBVIOUS
<1>2. Keeps(Top(t), ok, {})
  BY DEF Keeps
<1>3. {} \in SUBSET Dirs
  OBVIOUS
<1>. QED
  BY <1>1, <1>2, <1>3, ReturnToFits

\* A directory is marked.
Marked(e) == [e EXCEPT !.lForceUpdate = TRUE]

LEMMA MarkedIsEntry ==
  ASSUME NEW e \in Entries
  PROVE  /\ Marked(e) \in Entries /\ Marked(e).cached = e.cached /\ Marked(e).lReferenceCount = e.lReferenceCount
         /\ Marked(e).hEvent = e.hEvent /\ Marked(e).lForceUpdate /\ Marked(e).bLocked = e.bLocked
         /\ Marked(e).ftCacheTime = e.ftCacheTime /\ Marked(e).info = e.info
BY DEF Entries, Marked

LEMMA MarkParentOfFits ==
  ASSUME TypesFit, CallsFit, NEW t \in DirThreads, MarkParentOf(t)
  PROVE  TypesFit' /\ CallsFit' /\ Grown(volume')
<1> DEFINE f == Top(t)
           p == ParentDir[f.dir]
<1>1. /\ stack[t] # <<>> /\ f.op = "update" /\ f.at = "mark" /\ UNCHANGED <<volume, plan>>
      /\ promised' = [promised EXCEPT ![p] = volume[p].stamp]
  BY DEF MarkParentOf, In, asked
<1>2. f \in Frames /\ Fits(f) /\ f.dir \in Dirs
  BY <1>1, TopIsCall, TopFits DEF Frames
<1>3. \/ Acquire(t, p, [entry EXCEPT ![p].lForceUpdate = TRUE], lpDirectoryList, "marking")
      \/ ReturnTo(t, TRUE, {}) /\ UNCHANGED <<entry, lpDirectoryList>>
  BY DEF MarkParentOf, cache
<1> HIDE DEF f
<1>4. f.x \in Owners /\ ~ f.keep /\ f.on = NoDir /\ f.holds = {} /\ f.dir \in Made
  BY <1>1, <1>2 DEF Fits, UpdateFits
<1>5. p \in Dirs
  BY <1>4, DirectoryAssumption DEF Made
<1>6. entry' \in [Dirs -> Entries] /\ lpDirectoryList' \in Seq(Dirs)
      /\ stack' \in [DirThreads -> Seq(Frames)] /\ CallsFit'
  <2>1. CASE Acquire(t, p, [entry EXCEPT ![p].lForceUpdate = TRUE], lpDirectoryList, "marking")
    <3> DEFINE tab == [entry EXCEPT ![p].lForceUpdate = TRUE]
    <3>1. tab \in [Dirs -> Entries]
      <4>1. tab = [entry EXCEPT ![p] = Marked(entry[p])] /\ entry[p] \in Entries
        BY <1>5 DEF TypesFit, Marked
      <4>. QED
        BY <1>5, <4>1, MarkedIsEntry DEF TypesFit
    <3>2. "marking" \in Later /\ lpDirectoryList \in Seq(Dirs)
      BY DEF Later, TypesFit
    <3>3. Fits(Has(f, p, "marking"))
      <4> DEFINE g == Has(f, p, "marking")
      <4>1. g.op = f.op /\ g.at = "marking" /\ g.on = f.on /\ g.dir = f.dir /\ g.x = f.x /\ g.keep = f.keep
            /\ g.holds = f.holds \cup {p}
        BY <1>2, <1>5, <3>2, HasIsFrame
      <4> HIDE DEF g
      <4>2. g.holds = {ParentDir[g.dir]}
        BY <1>4, <4>1
      <4>3. g.op = "update" /\ g.at = "marking" /\ g.on = NoDir /\ g.x \in Owners /\ ~ g.keep /\ g.dir \in Made
        BY <1>1, <1>4, <4>1
      <4>4. UpdateFits(g)
        BY <4>2, <4>3 DEF UpdateFits
      <4>5. Fits(g)
        BY <4>3, <4>4 DEF Fits
      <4>. QED
        BY <4>5 DEF g
    <3>4. Fits(WaitsFor(f, p, "marking"))
      BY <1>1, <1>2, <1>4, <1>5, <3>2, WaitsIsFrame DEF Fits, UpdateFits
    <3>5. Acquire(t, p, tab, lpDirectoryList, "marking")
      BY <2>1
    <3> HIDE DEF tab, p
    <3>. QED
      BY <1>1, <1>5, <3>1, <3>2, <3>3, <3>4, <3>5, AcquireTypes, AcquireStack DEF f
  <2>2. CASE ReturnTo(t, TRUE, {}) /\ UNCHANGED <<entry, lpDirectoryList>>
    <3>1. entry' \in [Dirs -> Entries] /\ lpDirectoryList' \in Seq(Dirs)
      BY <2>2 DEF TypesFit
    <3>2. stack' \in [DirThreads -> Seq(Frames)] /\ CallsFit'
      BY <1>1, <1>4, <2>2, EndFits DEF f
    <3>. QED
      BY <3>1, <3>2
  <2>. QED
    BY <1>3, <2>1, <2>2
<1>7. promised' \in [Dirs -> Int]
  BY <1>1, <1>5 DEF TypesFit, Volumes
<1>. QED
  BY <1>1, <1>6, <1>7, SameGrows DEF TypesFit

LEMMA EndMarkFits ==
  ASSUME TypesFit, CallsFit, NEW t \in DirThreads, EndMark(t)
  PROVE  TypesFit' /\ CallsFit' /\ Grown(volume')
<1> DEFINE f == Top(t)
           p == ParentDir[f.dir]
<1>1. /\ stack[t] # <<>> /\ f.op = "update" /\ f.at = "marking" /\ UNCHANGED <<volume, plan, promised>>
      /\ Release(p, Marked(entry[p]), FALSE) /\ ReturnTo(t, TRUE, {})
  BY DEF EndMark, In, asked, dirghosts, Marked
<1>2. f \in Frames /\ Fits(f) /\ f.dir \in Dirs
  BY <1>1, TopIsCall, TopFits DEF Frames
<1> HIDE DEF f
<1>4. ~ f.keep /\ f.dir \in Made
  BY <1>1, <1>2 DEF Fits, UpdateFits
<1>5. p \in Dirs /\ entry[p] \in Entries
  BY <1>4, DirectoryAssumption DEF Made, TypesFit
<1>6. entry' \in [Dirs -> Entries] /\ lpDirectoryList' \in Seq(Dirs)
  BY <1>1, <1>5, MarkedIsEntry, ReleaseFits
<1>7. stack' \in [DirThreads -> Seq(Frames)] /\ CallsFit'
  BY <1>1, <1>4, EndFits DEF f
<1>. QED
  BY <1>1, <1>6, <1>7, SameGrows, TypesStay

-------------------------------------------------------------------------------
\* What a thread is asked to do.
LEMMA BegunIsFrame ==
  ASSUME NEW op \in Operations, NEW d \in Dirs, NEW x \in Owners \cup Dirs
  PROVE  /\ Begun(op, d, x) \in Frames
         /\ Begun(op, d, x).op = op /\ Begun(op, d, x).at = "begin" /\ Begun(op, d, x).on = NoDir
         /\ Begun(op, d, x).dir = d /\ ~ Begun(op, d, x).keep /\ Begun(op, d, x).holds = {} /\ Begun(op, d, x).x = x
<1>1. PICK no \in BOOLEAN : ~ no
  OBVIOUS
<1>2. PICK zero \in Int : zero = 0
  OBVIOUS
<1>3. "begin" \in Places
  BY DEF Places
<1>4. Begun(op, d, x) = Frame(op, "begin", d, x, no, no, zero)
  BY <1>1, <1>2 DEF Begun, Frame
<1>. QED
  BY <1>1, <1>3, <1>4, FrameIsFrame

LEMMA AskedMeans ==
  ASSUME NEW j \in Asked
  PROVE  /\ j.op \in {"open", "size", "rmdir", "mkdir", "upload", "delete", "move"} /\ j.dir \in Dirs
         /\ j.x \in Owners \cup Dirs
         /\ j.op = "mkdir" => j.dir \in Made
         /\ j.op \in {"upload", "delete"} => j.x \in Files
         /\ j.op = "move" => j.x \in Made
<1>1. CASE j \in {Job(op, d, Self) : op \in {"open", "size", "rmdir"}, d \in Dirs}
  <2>1. PICK op \in {"open", "size", "rmdir"}, d \in Dirs : j = Job(op, d, Self)
    BY <1>1
  <2>2. j.op = op /\ j.dir = d /\ j.x = Self
    BY <2>1 DEF Job
  <2>. QED
    BY <2>2 DEF Owners
<1>2. CASE j \in {Job("mkdir", d, Self) : d \in Made}
  <2>1. PICK d \in Made : j = Job("mkdir", d, Self)
    BY <1>2
  <2>2. j.op = "mkdir" /\ j.dir = d /\ j.x = Self
    BY <2>1 DEF Job
  <2>. QED
    BY <2>2 DEF Owners, Made
<1>3. CASE j \in {Job(op, d, x) : op \in {"upload", "delete"}, d \in Dirs, x \in Files}
  <2>1. PICK op \in {"upload", "delete"}, d \in Dirs, x \in Files : j = Job(op, d, x)
    BY <1>3
  <2>2. j.op = op /\ j.dir = d /\ j.x = x
    BY <2>1 DEF Job
  <2>. QED
    BY <2>2 DEF Owners
<1>4. CASE j \in {Job("move", d, e) : d \in Dirs, e \in Made}
  <2>1. PICK d \in Dirs, e \in Made : j = Job("move", d, e)
    BY <1>4
  <2>2. j.op = "move" /\ j.dir = d /\ j.x = e
    BY <2>1 DEF Job
  <2>. QED
    BY <2>2 DEF Made
<1>. QED
  BY <1>1, <1>2, <1>3, <1>4 DEF Asked

LEMMA StartedIsFrame ==
  ASSUME TypesFit, NEW j \in Asked
  PROVE  /\ Started(j) \in Frames /\ Fits(Started(j)) /\ Settled(Started(j)) /\ ~ Started(j).keep
         /\ Started(j).holds = {} /\ Started(j).on = NoDir /\ Started(j).at \in {"begin", "acquire"}
         /\ Started(j).dir \in Dirs
         /\ Started(j).op = "open" => Started(j).at = "acquire" /\ Started(j).due = promised[Started(j).dir]
<1>1. CASE j.op \in {"open", "size"}
  <2>1. PICK r \in BOOLEAN, no \in BOOLEAN : r = (j.op = "size") /\ no = FALSE
    <3>1. PICK r \in BOOLEAN : r = (j.op = "size")
      OBVIOUS
    <3>. QED
      BY <3>1
  <2>2. Started(j) = Open(j.dir, r, no)
    BY <1>1, <2>1 DEF Started
  <2> DEFINE g == Started(j)
  <2>3. j.dir \in Dirs
    BY AskedMeans
  <2>4. /\ g \in Frames /\ g.op = "open" /\ g.at = "acquire" /\ g.on = NoDir /\ g.dir = j.dir /\ g.keep = no
        /\ g.holds = {} /\ g.due = promised[j.dir] /\ Fits(g) /\ Settled(g)
    BY <2>2, <2>3, OpenIsFrame
  <2> HIDE DEF g
  <2>. QED
    BY <2>1, <2>3, <2>4 DEF g
<1>2. CASE j.op \notin {"open", "size"}
  <2> DEFINE g == Started(j)
  <2>1. g = Begun(j.op, j.dir, j.x)
    BY <1>2 DEF Started
  <2>2. j.op \in Operations
    BY <1>2, AskedMeans DEF Operations
  <2>3. /\ g \in Frames /\ g.op = j.op /\ g.at = "begin" /\ g.on = NoDir /\ g.dir = j.dir /\ ~ g.keep
        /\ g.holds = {} /\ g.x = j.x
    BY <2>1, <2>2, AskedMeans, BegunIsFrame
  <2> HIDE DEF g
  <2>4. Fits(g) /\ Settled(g)
    BY <1>2, <2>3, AskedMeans DEF Fits, CommandFits, MoveFits, Settled
  <2>. QED
    BY <1>2, <2>3, <2>4, AskedMeans DEF g
<1>. QED
  BY <1>1, <1>2

LEMMA BeginFits ==
  ASSUME TypesFit, CallsFit, NEW t \in DirThreads, Begin(t)
  PROVE  TypesFit' /\ CallsFit' /\ Grown(volume')
<1>1. stack[t] = <<>> /\ UNCHANGED <<plan, volume, entry, lpDirectoryList, promised>>
  BY DEF Begin, cache, dirghosts
<1>2. PICK j \in plan[t] : stack' = [stack EXCEPT ![t] = <<Started(j)>>]
  BY DEF Begin
<1>3. j \in Asked
  BY DirectoryAssumption DEF TypesFit
<1> DEFINE g == Started(j)
<1>4. g \in Frames /\ Fits(g) /\ Settled(g) /\ ~ g.keep
  BY <1>3, StartedIsFrame
<1> HIDE DEF g
<1>5. <<g>> \in Seq(Frames) /\ Len(<<g>>) = 1 /\ <<g>>[1] = g /\ <<g>> # <<>>
  BY <1>4
<1>6. StackFits(<<g>>)
  BY <1>4, <1>5 DEF StackFits
<1>7. stack' = [stack EXCEPT ![t] = <<g>>]
  BY <1>2 DEF g
<1>8. stack' \in [DirThreads -> Seq(Frames)] /\ \A u \in DirThreads : StackFits(stack'[u])
  BY <1>5, <1>6, <1>7 DEF TypesFit, CallsFit
<1>9. entry' \in [Dirs -> Entries] /\ lpDirectoryList' \in Seq(Dirs) /\ CallsFit'
  BY <1>1, <1>8 DEF TypesFit, CallsFit
<1>. QED
  BY <1>1, <1>8, <1>9, SameGrows, TypesStay

\* A command goes on to another place.
LEMMA CommandGoes ==
  ASSUME TypesFit, CallsFit, NEW t \in DirThreads, stack[t] # <<>>, Top(t).op \in {"upload", "delete", "mkdir", "rmdir"},
         NEW at \in Places, at # "wait", GoOn(t, at)
  PROVE  stack' \in [DirThreads -> Seq(Frames)] /\ CallsFit'
<1> DEFINE f == Top(t)
           g == At(f, at)
<1>1. f \in Frames /\ Fits(f)
  BY TopIsCall, TopFits
<1>2. g \in Frames /\ g.op = f.op /\ g.at = at /\ g.on = f.on /\ g.dir = f.dir /\ g.x = f.x
      /\ g.keep = f.keep /\ g.holds = f.holds
  BY <1>1, AtIsFrame
<1>3. Become(t, g) /\ f.op \in {"upload", "delete", "mkdir", "rmdir"}
  BY DEF GoOn, At
<1> HIDE DEF f, g
<1>4. Fits(g) /\ Settled(g)
  <2>1. CommandFits(f)
    BY <1>1, <1>3 DEF Fits
  <2>2. CommandFits(g)
    BY <1>2, <2>1 DEF CommandFits
  <2>. QED
    BY <1>2, <1>3, <2>2 DEF Fits, Settled
<1>. QED
  BY <1>2, <1>3, <1>4, BecomeFits DEF f

\* A command calls another operation.
LEMMA CommandCalls ==
  ASSUME TypesFit, CallsFit, NEW t \in DirThreads, stack[t] # <<>>, Top(t).op \in {"upload", "delete", "mkdir", "rmdir"},
         NEW at \in Places, at # "wait", NEW h \in Frames, Call(t, at, h), Fits(h), Settled(h),
         \/ h.op = "update" /\ Top(t).op \in {"upload", "mkdir", "rmdir"} /\ at \in {"mark", "done"}
         \/ h.op = "open" /\ ~ h.keep /\ Top(t).op = "rmdir" /\ at = "scan"
  PROVE  stack' \in [DirThreads -> Seq(Frames)] /\ CallsFit'
<1> DEFINE f == Top(t)
           g == At(f, at)
<1>1. f \in Frames /\ Fits(f)
  BY TopIsCall, TopFits
<1>2. g \in Frames /\ g.op = f.op /\ g.at = at /\ g.on = f.on /\ g.dir = f.dir /\ g.x = f.x
      /\ g.keep = f.keep /\ g.holds = f.holds
  BY <1>1, AtIsFrame
<1>3. Enter(t, g, h) /\ f.op \in {"upload", "delete", "mkdir", "rmdir"}
  BY DEF Call, At
<1>4. Calling(g, h)
  BY <1>2 DEF Calling
<1> HIDE DEF f, g
<1>5. Fits(g)
  <2>1. CommandFits(f)
    BY <1>1, <1>3 DEF Fits
  <2>2. CommandFits(g)
    BY <1>2, <2>1 DEF CommandFits
  <2>. QED
    BY <1>2, <1>3, <2>2 DEF Fits
<1>. QED
  BY <1>2, <1>3, <1>4, <1>5, EnterFits DEF f

LEMMA MarkStays ==
  ASSUME TypesFit, NEW D, Mark(D)
  PROVE  /\ entry' \in [Dirs -> Entries] /\ lpDirectoryList' = lpDirectoryList /\ promised' \in [Dirs -> Int]
         /\ \A d \in Dirs :
              /\ entry'[d] = IF d \in D /\ entry[d].cached THEN Marked(entry[d]) ELSE entry[d]
              /\ promised'[d] = IF d \in D THEN volume[d].stamp ELSE promised[d]
<1>1. ASSUME NEW d \in Dirs
      PROVE  /\ entry'[d] = IF d \in D /\ entry[d].cached THEN Marked(entry[d]) ELSE entry[d]
             /\ entry'[d] \in Entries
  <2>1. entry[d] \in Entries
    BY DEF TypesFit
  <2>2. entry[d].lForceUpdate \in BOOLEAN /\ entry[d] = [entry[d] EXCEPT !.lForceUpdate = entry[d].lForceUpdate]
    BY <2>1 DEF Entries
  <2>3. entry'[d] = [entry[d] EXCEPT !.lForceUpdate = entry[d].lForceUpdate \/ (d \in D /\ entry[d].cached)]
    BY DEF Mark
  <2>4. PICK b \in BOOLEAN : b = (entry[d].lForceUpdate \/ (d \in D /\ entry[d].cached))
    OBVIOUS
  <2>5. entry'[d] = [entry[d] EXCEPT !.lForceUpdate = b]
    BY <2>3, <2>4
  <2>6. CASE d \in D /\ entry[d].cached
    <3>1. entry'[d] = Marked(entry[d])
      BY <2>4, <2>5, <2>6 DEF Marked
    <3>. QED
      BY <2>1, <2>6, <3>1, MarkedIsEntry
  <2>7. CASE ~ (d \in D /\ entry[d].cached)
    <3>1. b = entry[d].lForceUpdate
      BY <2>2, <2>4, <2>7
    <3>2. entry'[d] = entry[d]
      BY <2>2, <2>5, <3>1
    <3>. QED
      BY <2>1, <2>7, <3>2
  <2>. QED
    BY <2>6, <2>7
<1>2. \A d \in Dirs : volume[d].stamp \in Int /\ promised[d] \in Int
  BY DEF TypesFit, Volumes
<1>3. promised' = [d \in Dirs |-> IF d \in D THEN volume[d].stamp ELSE promised[d]] /\ lpDirectoryList' = lpDirectoryList
      /\ entry' = [d \in Dirs |-> [entry[d] EXCEPT !.lForceUpdate = @ \/ (d \in D /\ entry[d].cached)]]
  BY DEF Mark
<1>4. entry' \in [Dirs -> Entries]
  <2> DEFINE E(d) == [entry[d] EXCEPT !.lForceUpdate = @ \/ (d \in D /\ entry[d].cached)]
  <2>1. entry' = [d \in Dirs |-> E(d)]
    BY <1>3
  <2> HIDE DEF E
  <2>. QED
    BY <1>1, <2>1
<1>. QED
  BY <1>1, <1>2, <1>3, <1>4

LEMMA MarkDirFits ==
  ASSUME TypesFit, CallsFit, NEW t \in DirThreads, MarkDir(t)
  PROVE  TypesFit' /\ CallsFit' /\ Grown(volume')
<1>1. stack[t] # <<>> /\ Top(t).op \in {"upload", "delete", "rmdir", "move"} /\ UNCHANGED <<volume, plan>>
      /\ Top(t).at \in {"mark", "mark parent"}
  BY DEF MarkDir, asked
<1>2. PICK D : Mark(D) /\ ((Top(t).at = "mark" /\ GoOn(t, "mark parent")) \/ Return(t))
  BY DEF MarkDir
<1>3. entry' \in [Dirs -> Entries] /\ lpDirectoryList' \in Seq(Dirs) /\ promised' \in [Dirs -> Int]
  BY <1>2, MarkStays DEF TypesFit
<1>4. stack' \in [DirThreads -> Seq(Frames)] /\ CallsFit'
  <2>1. ASSUME Top(t).at = "mark", GoOn(t, "mark parent") PROVE stack' \in [DirThreads -> Seq(Frames)] /\ CallsFit'
    <3>1. Top(t).op # "move"
      BY <1>1, <2>1, TopFits DEF Fits, MoveFits
    <3>2. "mark parent" \in Places /\ "mark parent" # "wait"
      BY DEF Places
    <3>. QED
      BY <1>1, <2>1, <3>1, <3>2, CommandGoes
  <2>. QED
    BY <1>1, <1>2, <2>1, ReturnFits
<1>. QED
  BY <1>1, <1>3, <1>4, SameGrows DEF TypesFit

\* What is written of a directory beside its times.
LEMMA FilesWritten ==
  ASSUME TypesFit, NEW v, Grown(v), NEW d \in Dirs, NEW files \in SUBSET Files
  PROVE  Grown([v EXCEPT ![d].files = files])
<1>1. v[d] \in Volumes
  BY DEF Grown
<1>2. [v[d] EXCEPT !.files = files] \in Volumes /\ [v[d] EXCEPT !.files = files].stamp = v[d].stamp
  BY <1>1 DEF Volumes
<1>. QED
  BY <1>2, WrittenGrows

LEMMA ExistsWritten ==
  ASSUME TypesFit, NEW v, Grown(v), NEW d \in Dirs, NEW exists \in BOOLEAN
  PROVE  Grown([v EXCEPT ![d].exists = exists])
<1>1. v[d] \in Volumes
  BY DEF Grown
<1>2. [v[d] EXCEPT !.exists = exists] \in Volumes /\ [v[d] EXCEPT !.exists = exists].stamp = v[d].stamp
  BY <1>1 DEF Volumes
<1>. QED
  BY <1>2, WrittenGrows

LEMMA CommandTop ==
  ASSUME TypesFit, CallsFit, NEW t \in DirThreads, stack[t] # <<>>
  PROVE  /\ Top(t) \in Frames /\ Top(t).dir \in Dirs /\ volume[Top(t).dir] \in Volumes
         /\ Top(t).op \in {"upload", "delete"} => Top(t).x \in Files
         /\ Top(t).op = "mkdir" => Top(t).dir \in Made /\ ParentDir[Top(t).dir] \in Dirs
<1> DEFINE f == Top(t)
<1>1. f \in Frames /\ Fits(f)
  BY TopIsCall, TopFits
<1> HIDE DEF f
<1>2. f.dir \in Dirs
  BY <1>1 DEF Frames
<1>3. f.op \in {"upload", "delete"} => f.x \in Files
  BY <1>1 DEF Fits, CommandFits
<1>4. f.op = "mkdir" => f.dir \in Made
  BY <1>1 DEF Fits, CommandFits
<1>5. f.dir \in Made => ParentDir[f.dir] \in Dirs
  BY DirectoryAssumption DEF Made
<1>6. volume[f.dir] \in Volumes
  BY <1>2 DEF TypesFit
<1>. QED
  BY <1>1, <1>2, <1>3, <1>4, <1>5, <1>6 DEF f

LEMMA CreateFileFits ==
  ASSUME TypesFit, CallsFit, NEW t \in DirThreads, CreateFile(t)
  PROVE  TypesFit' /\ CallsFit' /\ Grown(volume')
<1> DEFINE f == Top(t)
<1>1. stack[t] # <<>> /\ f.op = "upload" /\ UNCHANGED <<entry, lpDirectoryList, promised, plan>>
  BY DEF CreateFile, In, asked, cache, dirghosts
<1>2. f.dir \in Dirs /\ f.x \in Files
  BY <1>1, CommandTop
<1>3. \/ GoOn(t, "write") /\ volume' = [Changed(volume, f.dir) EXCEPT ![f.dir].files = @ \cup {f.x}]
      \/ Return(t) /\ volume' = volume
  BY DEF CreateFile
<1>4. stack' \in [DirThreads -> Seq(Frames)] /\ CallsFit'
  <2>1. "write" \in Places /\ "write" # "wait"
    BY DEF Places
  <2>. QED
    BY <1>1, <1>3, <2>1, CommandGoes, ReturnFits
<1>5. Grown(volume')
  <2> DEFINE v == Changed(volume, f.dir)
  <2>1. Grown(v)
    BY SameGrows, ChangedGrows
  <2>2. v[f.dir].files \cup {f.x} \in SUBSET Files
    BY <1>2, <2>1 DEF Grown, Volumes
  <2> HIDE DEF v
  <2>3. Grown([v EXCEPT ![f.dir].files = v[f.dir].files \cup {f.x}])
    BY <1>2, <2>1, <2>2, FilesWritten
  <2>4. volume' = [v EXCEPT ![f.dir].files = v[f.dir].files \cup {f.x}] \/ volume' = volume
    BY <1>3 DEF v
  <2>. QED
    BY <2>3, <2>4, SameGrows
<1>6. entry' \in [Dirs -> Entries] /\ lpDirectoryList' \in Seq(Dirs)
  BY <1>1 DEF TypesFit
<1>. QED
  BY <1>1, <1>4, <1>5, <1>6, TypesStay

LEMMA WriteFileFits ==
  ASSUME TypesFit, CallsFit, NEW t \in DirThreads, WriteFile(t)
  PROVE  TypesFit' /\ CallsFit' /\ Grown(volume')
<1> DEFINE f == Top(t)
<1>1. /\ stack[t] # <<>> /\ f.op = "upload" /\ UNCHANGED <<entry, lpDirectoryList, promised, plan>>
      /\ Call(t, "mark", Update(f.dir, f.x))
      /\ volume' = [volume EXCEPT ![f.dir].stamp = @ + (IF f.x \in volume[f.dir].files THEN 1 ELSE 0)]
  BY DEF WriteFile, In, asked, cache, dirghosts
<1>2. f.dir \in Dirs /\ f.x \in Files /\ f.x \in Owners /\ volume[f.dir] \in Volumes
  BY <1>1, CommandTop DEF Owners
<1>3. stack' \in [DirThreads -> Seq(Frames)] /\ CallsFit'
  <2> DEFINE h == Update(f.dir, f.x)
  <2>1. h \in Frames /\ Fits(h) /\ Settled(h) /\ h.op = "update"
    BY <1>2, UpdateIsFrame
  <2>2. Call(t, "mark", h) /\ "mark" \in Places /\ "mark" # "wait"
    BY <1>1 DEF Places
  <2> HIDE DEF h
  <2>. QED
    BY <1>1, <2>1, <2>2, CommandCalls
<1>4. Grown(volume')
  <2>1. volume[f.dir].stamp \in Int
    BY <1>2 DEF Volumes
  <2>2. PICK n \in Int : n = volume[f.dir].stamp + (IF f.x \in volume[f.dir].files THEN 1 ELSE 0)
    BY <2>1
  <2> DEFINE w == [volume[f.dir] EXCEPT !.stamp = n]
  <2>3. volume' = [volume EXCEPT ![f.dir] = w]
    BY <1>1, <2>2
  <2>4. w \in Volumes /\ w.stamp = n /\ volume[f.dir].stamp <= n
    BY <1>2, <2>1, <2>2 DEF Volumes
  <2> HIDE DEF w
  <2>5. volume' \in [Dirs -> Volumes]
    BY <1>2, <2>3, <2>4 DEF TypesFit
  <2>6. \A d \in Dirs : volume[d].stamp <= volume'[d].stamp
    BY <1>2, <2>3, <2>4, SameGrows DEF TypesFit, Grown
  <2>. QED
    BY <2>5, <2>6 DEF Grown
<1>5. entry' \in [Dirs -> Entries] /\ lpDirectoryList' \in Seq(Dirs)
  BY <1>1 DEF TypesFit
<1>. QED
  BY <1>1, <1>3, <1>4, <1>5, TypesStay

LEMMA DeleteFileFits ==
  ASSUME TypesFit, CallsFit, NEW t \in DirThreads, DeleteFile(t)
  PROVE  TypesFit' /\ CallsFit' /\ Grown(volume')
<1> DEFINE f == Top(t)
<1>1. stack[t] # <<>> /\ f.op = "delete" /\ UNCHANGED <<entry, lpDirectoryList, promised, plan>>
  BY DEF DeleteFile, In, asked, cache
<1>2. f.dir \in Dirs
  BY <1>1, CommandTop
<1>3. \/ GoOn(t, "mark") /\ volume' = [Changed(volume, f.dir) EXCEPT ![f.dir].files = @ \ {f.x}]
      \/ Return(t) /\ volume' = volume
  BY DEF DeleteFile
<1>4. stack' \in [DirThreads -> Seq(Frames)] /\ CallsFit'
  <2>1. "mark" \in Places /\ "mark" # "wait"
    BY DEF Places
  <2>. QED
    BY <1>1, <1>3, <2>1, CommandGoes, ReturnFits
<1>5. Grown(volume')
  <2> DEFINE v == Changed(volume, f.dir)
  <2>1. Grown(v)
    BY SameGrows, ChangedGrows
  <2>2. v[f.dir].files \ {f.x} \in SUBSET Files
    BY <1>2, <2>1 DEF Grown, Volumes
  <2> HIDE DEF v
  <2>3. Grown([v EXCEPT ![f.dir].files = v[f.dir].files \ {f.x}])
    BY <1>2, <2>1, <2>2, FilesWritten
  <2>4. volume' = [v EXCEPT ![f.dir].files = v[f.dir].files \ {f.x}] \/ volume' = volume
    BY <1>3 DEF v
  <2>. QED
    BY <2>3, <2>4, SameGrows
<1>6. entry' \in [Dirs -> Entries] /\ lpDirectoryList' \in Seq(Dirs)
  BY <1>1 DEF TypesFit
<1>. QED
  BY <1>1, <1>4, <1>5, <1>6, TypesStay

LEMMA MakeDirectoryFits ==
  ASSUME TypesFit, CallsFit, NEW t \in DirThreads, MakeDirectory(t)
  PROVE  TypesFit' /\ CallsFit' /\ Grown(volume')
<1> DEFINE f == Top(t)
<1>1. stack[t] # <<>> /\ f.op = "mkdir" /\ UNCHANGED <<entry, lpDirectoryList, promised, plan>>
  BY DEF MakeDirectory, In, asked, cache, dirghosts
<1>2. f.dir \in Dirs /\ Self \in Owners
  BY <1>1, CommandTop DEF Owners
<1>3. \/ /\ Call(t, "done", Update(f.dir, Self))
         /\ volume' = [Changed(Changed(volume, f.dir), ParentDir[f.dir]) EXCEPT ![f.dir].exists = TRUE]
      \/ Return(t) /\ volume' = volume
  BY DEF MakeDirectory
<1>4. stack' \in [DirThreads -> Seq(Frames)] /\ CallsFit'
  <2> DEFINE h == Update(f.dir, Self)
  <2>1. h \in Frames /\ Fits(h) /\ Settled(h) /\ h.op = "update"
    BY <1>2, UpdateIsFrame
  <2>2. Call(t, "done", h) \/ Return(t)
    BY <1>3
  <2>3. "done" \in Places /\ "done" # "wait"
    BY DEF Places
  <2> HIDE DEF h
  <2>. QED
    BY <1>1, <2>1, <2>2, <2>3, CommandCalls, ReturnFits
<1>5. Grown(volume')
  <2> DEFINE v == Changed(Changed(volume, f.dir), ParentDir[f.dir])
  <2>1. Grown(v)
    BY SameGrows, ChangedGrows
  <2> HIDE DEF v
  <2>2. PICK yes \in BOOLEAN : yes = TRUE
    OBVIOUS
  <2>3. Grown([v EXCEPT ![f.dir].exists = yes])
    BY <1>2, <2>1, ExistsWritten
  <2>4. volume' = [v EXCEPT ![f.dir].exists = yes] \/ volume' = volume
    BY <1>3, <2>2 DEF v
  <2>. QED
    BY <2>3, <2>4, SameGrows
<1>6. entry' \in [Dirs -> Entries] /\ lpDirectoryList' \in Seq(Dirs)
  BY <1>1 DEF TypesFit
<1>. QED
  BY <1>1, <1>4, <1>5, <1>6, TypesStay

\* Only commands are ever done.
LEMMA ReturnedFits ==
  ASSUME TypesFit, CallsFit, NEW t \in DirThreads, Returned(t)
  PROVE  TypesFit' /\ CallsFit' /\ Grown(volume')
<1>1. /\ stack[t] # <<>> /\ Top(t).at = "done" /\ Return(t)
      /\ UNCHANGED <<volume, entry, lpDirectoryList, promised, plan>>
  BY DEF Returned, asked, cache, dirghosts
<1>2. Top(t).op \notin {"open", "update"}
  BY <1>1, TopFits DEF Fits, OpenFits, UpdateFits
<1>3. entry' \in [Dirs -> Entries] /\ lpDirectoryList' \in Seq(Dirs)
  BY <1>1 DEF TypesFit
<1>. QED
  BY <1>1, <1>2, <1>3, ReturnFits, SameGrows, TypesStay

LEMMA StatDirectoryFits ==
  ASSUME TypesFit, CallsFit, NEW t \in DirThreads, StatDirectory(t)
  PROVE  TypesFit' /\ CallsFit' /\ Grown(volume')
<1> DEFINE f == Top(t)
<1>1. /\ stack[t] # <<>> /\ f.op = "rmdir" /\ UNCHANGED <<volume, entry, lpDirectoryList, promised, plan>>
      /\ Call(t, "scan", Open(f.dir, TRUE, FALSE)) \/ Return(t)
  BY DEF StatDirectory, In, asked, cache, dirghosts
<1>2. f.dir \in Dirs
  BY <1>1, CommandTop
<1>3. PICK r \in BOOLEAN, no \in BOOLEAN : r /\ ~ no
  OBVIOUS
<1> DEFINE h == Open(f.dir, r, no)
<1>4. Call(t, "scan", h) \/ Return(t)
  <2>1. r = TRUE /\ no = FALSE
    BY <1>3
  <2>. QED
    BY <1>1, <2>1
<1>5. h \in Frames /\ Fits(h) /\ Settled(h) /\ h.op = "open" /\ h.keep = no
  BY <1>2, OpenIsFrame
<1>6. "scan" \in Places /\ "scan" # "wait"
  BY DEF Places
<1> HIDE DEF h
<1>7. stack' \in [DirThreads -> Seq(Frames)] /\ CallsFit'
  BY <1>1, <1>3, <1>4, <1>5, <1>6, CommandCalls, ReturnFits
<1>8. entry' \in [Dirs -> Entries] /\ lpDirectoryList' \in Seq(Dirs)
  BY <1>1 DEF TypesFit
<1>. QED
  BY <1>1, <1>7, <1>8, SameGrows, TypesStay

LEMMA DeletePermissionsFits ==
  ASSUME TypesFit, CallsFit, NEW t \in DirThreads, DeletePermissions(t)
  PROVE  TypesFit' /\ CallsFit' /\ Grown(volume')
<1> DEFINE f == Top(t)
           d == f.dir
<1>1. /\ stack[t] # <<>> /\ f.op = "rmdir" /\ UNCHANGED <<entry, lpDirectoryList, promised, plan>>
      /\ \/ Return(t) /\ volume' = volume
         \/ /\ GoOn(t, "remove")
            /\ volume' = [volume EXCEPT ![d].perms = {}, ![d].mtime = @ + (IF volume[d].perms = {} THEN 0 ELSE 1)]
  BY DEF DeletePermissions, In, asked, cache, dirghosts
<1>2. d \in Dirs /\ volume[d] \in Volumes
  BY <1>1, CommandTop
<1>3. stack' \in [DirThreads -> Seq(Frames)] /\ CallsFit'
  <2>1. "remove" \in Places /\ "remove" # "wait"
    BY DEF Places
  <2>. QED
    BY <1>1, <2>1, CommandGoes, ReturnFits
<1>4. Grown(volume')
  <2>1. PICK m \in Int : m = volume[d].mtime + (IF volume[d].perms = {} THEN 0 ELSE 1)
    BY <1>2 DEF Volumes
  <2> DEFINE w == [volume[d] EXCEPT !.perms = {}, !.mtime = m]
  <2>2. volume' = volume \/ volume' = [volume EXCEPT ![d] = w]
    BY <1>1, <2>1
  <2>3. w \in Volumes /\ w.stamp = volume[d].stamp
    BY <1>2 DEF Volumes
  <2> HIDE DEF w
  <2>. QED
    BY <1>2, <2>2, <2>3, SameGrows, WrittenGrows
<1>5. entry' \in [Dirs -> Entries] /\ lpDirectoryList' \in Seq(Dirs)
  BY <1>1 DEF TypesFit
<1>. QED
  BY <1>1, <1>3, <1>4, <1>5, TypesStay

LEMMA RemovedGrows ==
  ASSUME TypesFit, NEW d \in Dirs
  PROVE  Grown([Removed(volume, d) EXCEPT ![d].perms = {}])
<1> DEFINE v == Changed(Changed(volume, d), ParentDir[d])
<1>1. Grown(v)
  BY SameGrows, ChangedGrows
<1>2. PICK no \in BOOLEAN : no = FALSE
  OBVIOUS
<1> HIDE DEF v
<1>3. Grown([v EXCEPT ![d].exists = no])
  BY <1>1, ExistsWritten
<1> DEFINE w == [v EXCEPT ![d].exists = no]
<1>4. w = Removed(volume, d)
  BY <1>2 DEF Removed, v
<1>5. Grown(w)
  BY <1>3
<1> HIDE DEF w
<1>6. w[d].stamp \in Int /\ {} \in SUBSET Owners
  BY <1>5 DEF Grown, Volumes
<1>7. Grown([w EXCEPT ![d].perms = {}])
  BY <1>5, <1>6, PermsWritten
<1>. QED
  BY <1>4, <1>7

LEMMA RemoveDirectoryFits ==
  ASSUME TypesFit, CallsFit, NEW t \in DirThreads, RemoveDirectory(t)
  PROVE  TypesFit' /\ CallsFit' /\ Grown(volume')
<1> DEFINE f == Top(t)
           h == Update(f.dir, Self)
<1>1. /\ stack[t] # <<>> /\ f.op = "rmdir" /\ UNCHANGED <<entry, lpDirectoryList, promised, plan>>
      /\ \/ GoOn(t, "mark parent") /\ volume' = [Removed(volume, f.dir) EXCEPT ![f.dir].perms = {}]
         \/ (Call(t, "done", h) \/ Return(t)) /\ volume' = volume
  BY DEF RemoveDirectory, In, asked, cache
<1>2. f.dir \in Dirs /\ Self \in Owners
  BY <1>1, CommandTop DEF Owners
<1>3. h \in Frames /\ Fits(h) /\ Settled(h) /\ h.op = "update"
  BY <1>2, UpdateIsFrame
<1>4. "done" \in Places /\ "done" # "wait" /\ "mark parent" \in Places /\ "mark parent" # "wait"
  BY DEF Places
<1>5. Grown(volume')
  BY <1>1, <1>2, RemovedGrows, SameGrows
<1> HIDE DEF h
<1>6. stack' \in [DirThreads -> Seq(Frames)] /\ CallsFit'
  BY <1>1, <1>3, <1>4, CommandGoes, CommandCalls, ReturnFits
<1>7. entry' \in [Dirs -> Entries] /\ lpDirectoryList' \in Seq(Dirs)
  BY <1>1 DEF TypesFit
<1>. QED
  BY <1>1, <1>5, <1>6, <1>7, TypesStay

-------------------------------------------------------------------------------
LEMMA MoveTop ==
  ASSUME TypesFit, CallsFit, NEW t \in DirThreads, stack[t] # <<>>, Top(t).op = "move"
  PROVE  /\ Top(t) \in Frames /\ MoveFits(Top(t)) /\ Fits(Top(t))
         /\ Top(t).dir \in Dirs /\ Top(t).x \in Dirs /\ ParentDir[Top(t).x] \in Dirs
         /\ entry[Top(t).dir] \in Entries /\ entry[Top(t).x] \in Entries
         /\ volume[Top(t).dir] \in Volumes /\ volume[Top(t).x] \in Volumes
<1> DEFINE f == Top(t)
<1>1. f \in Frames /\ Fits(f) /\ f.op = "move"
  BY TopIsCall, TopFits
<1> HIDE DEF f
<1>2. f.dir \in Dirs /\ MoveFits(f)
  BY <1>1 DEF Frames, Fits
<1>3. f.x \in Made
  BY <1>2 DEF MoveFits
<1>4. f.x \in Dirs /\ ParentDir[f.x] \in Dirs
  BY <1>3, DirectoryAssumption DEF Made
<1>5. entry[f.dir] \in Entries /\ entry[f.x] \in Entries /\ volume[f.dir] \in Volumes /\ volume[f.x] \in Volumes
  BY <1>2, <1>4 DEF TypesFit
<1>. QED
  BY <1>1, <1>2, <1>4, <1>5 DEF f

LEMMA MoveGoes ==
  ASSUME TypesFit, CallsFit, NEW t \in DirThreads, stack[t] # <<>>, Top(t).op = "move",
         NEW g \in Frames, Become(t, g), g.op = Top(t).op, g.dir = Top(t).dir, g.keep = Top(t).keep, MoveFits(g)
  PROVE  stack' \in [DirThreads -> Seq(Frames)] /\ CallsFit'
BY BecomeFits DEF Fits, Settled

LEMMA MoveBeginsFits ==
  ASSUME TypesFit, CallsFit, NEW t \in DirThreads, MoveBegins(t)
  PROVE  TypesFit' /\ CallsFit' /\ Grown(volume')
<1> DEFINE f == Top(t)
<1>1. /\ stack[t] # <<>> /\ f.op = "move" /\ f.at = "begin" /\ UNCHANGED <<volume, promised, plan>>
      /\ \/ Return(t) /\ UNCHANGED <<entry, lpDirectoryList>>
         \/ f.dir # f.x /\ InsertAndAcquire(t, f.dir, "source")
  BY DEF MoveBegins, In, asked, cache, dirghosts
<1>2. f \in Frames /\ MoveFits(f) /\ f.dir \in Dirs /\ "source" \in Later
  BY <1>1, MoveTop DEF Later
<1>3. CASE Return(t) /\ UNCHANGED <<entry, lpDirectoryList>>
  <2>1. entry' \in [Dirs -> Entries] /\ lpDirectoryList' \in Seq(Dirs)
    BY <1>3 DEF TypesFit
  <2>2. stack' \in [DirThreads -> Seq(Frames)] /\ CallsFit'
    BY <1>1, <1>3, ReturnFits
  <2>. QED
    BY <1>1, <2>1, <2>2, SameGrows, TypesStay
<1>4. CASE f.dir # f.x /\ InsertAndAcquire(t, f.dir, "source")
  <2> HIDE DEF f
  <2>1. f.x \in Made /\ ~ f.keep /\ f.on = NoDir /\ f.holds = {}
    BY <1>1, <1>2 DEF MoveFits
  <2>2. Fits(Has(f, f.dir, "source"))
    <3> DEFINE g == Has(f, f.dir, "source")
    <3>1. g.op = f.op /\ g.at = "source" /\ g.on = f.on /\ g.dir = f.dir /\ g.x = f.x /\ g.keep = f.keep
          /\ g.holds = f.holds \cup {f.dir}
      BY <1>2, HasIsFrame
    <3> HIDE DEF g
    <3>2. g.holds = {g.dir}
      BY <2>1, <3>1
    <3>3. MoveFits(g)
      BY <1>4, <2>1, <3>1, <3>2 DEF MoveFits
    <3>4. Fits(g)
      BY <1>1, <3>1, <3>3 DEF Fits
    <3>. QED
      BY <3>4 DEF g
  <2>3. Fits(WaitsFor(f, f.dir, "source"))
    <3> DEFINE g == WaitsFor(f, f.dir, "source")
    <3>1. g.op = f.op /\ g.at = "wait" /\ g.on = f.dir /\ g.dir = f.dir /\ g.x = f.x /\ g.keep = f.keep
          /\ g.holds = f.holds /\ g.then = "source"
      BY <1>2, WaitsIsFrame
    <3> HIDE DEF g
    <3>3. MoveFits(g)
      BY <1>4, <2>1, <3>1 DEF MoveFits
    <3>4. Fits(g)
      BY <1>1, <3>1, <3>3 DEF Fits
    <3>. QED
      BY <3>4 DEF g
  <2>4. /\ entry' \in [Dirs -> Entries] /\ lpDirectoryList' \in Seq(Dirs)
        /\ stack' \in [DirThreads -> Seq(Frames)] /\ CallsFit'
    BY <1>1, <1>2, <1>4, <2>2, <2>3, InsertFits DEF f
  <2>. QED
    BY <1>1, <2>4, SameGrows, TypesStay
<1>. QED
  BY <1>1, <1>3, <1>4

LEMMA MoveSourceFits ==
  ASSUME TypesFit, CallsFit, NEW t \in DirThreads, MoveSource(t)
  PROVE  TypesFit' /\ CallsFit' /\ Grown(volume')
<1> DEFINE f == Top(t)
<1>1. /\ stack[t] # <<>> /\ f.op = "move" /\ f.at = "source" /\ UNCHANGED <<volume, promised, plan>>
      /\ \/ Become(t, [f EXCEPT !.at = "unlock", !.failed = TRUE]) /\ UNCHANGED <<entry, lpDirectoryList>>
         \/ InsertAndAcquire(t, f.x, "target")
  BY DEF MoveSource, In, asked, cache, dirghosts
<1>2. f \in Frames /\ MoveFits(f) /\ f.dir \in Dirs /\ f.x \in Dirs /\ "target" \in Later
  BY <1>1, MoveTop DEF Later
<1>3. f.x \in Made /\ ~ f.keep /\ f.on = NoDir /\ f.holds = {f.dir} /\ f.dir # f.x
  <2> HIDE DEF f
  <2>. QED
    BY <1>1, <1>2 DEF MoveFits
<1>4. CASE Become(t, [f EXCEPT !.at = "unlock", !.failed = TRUE]) /\ UNCHANGED <<entry, lpDirectoryList>>
  <2>1. entry' \in [Dirs -> Entries] /\ lpDirectoryList' \in Seq(Dirs)
    BY <1>4 DEF TypesFit
  <2> DEFINE g == [f EXCEPT !.at = "unlock", !.failed = TRUE]
  <2>2. /\ g \in Frames /\ g.op = f.op /\ g.at = "unlock" /\ g.on = f.on /\ g.dir = f.dir /\ g.x = f.x
        /\ g.keep = f.keep /\ g.holds = f.holds
    BY <1>2 DEF Frames, Places
  <2>3. Become(t, g)
    BY <1>4
  <2> HIDE DEF f, g
  <2>4. MoveFits(g)
    BY <1>3, <2>2 DEF MoveFits
  <2>5. stack' \in [DirThreads -> Seq(Frames)] /\ CallsFit'
    BY <1>1, <2>2, <2>3, <2>4, MoveGoes DEF f
  <2>. QED
    BY <1>1, <2>1, <2>5, SameGrows, TypesStay
<1>5. CASE InsertAndAcquire(t, f.x, "target")
  <2> HIDE DEF f
  <2>2. Fits(Has(f, f.x, "target"))
    <3> DEFINE g == Has(f, f.x, "target")
    <3>1. g.op = f.op /\ g.at = "target" /\ g.on = f.on /\ g.dir = f.dir /\ g.x = f.x /\ g.keep = f.keep
          /\ g.holds = f.holds \cup {f.x}
      BY <1>2, HasIsFrame
    <3> HIDE DEF g
    <3>2. g.holds = {g.dir, g.x}
      BY <1>3, <3>1
    <3>3. MoveFits(g)
      BY <1>3, <3>1, <3>2 DEF MoveFits
    <3>4. Fits(g)
      BY <1>1, <3>1, <3>3 DEF Fits
    <3>. QED
      BY <3>4 DEF g
  <2>3. Fits(WaitsFor(f, f.x, "target"))
    <3> DEFINE g == WaitsFor(f, f.x, "target")
    <3>1. g.op = f.op /\ g.at = "wait" /\ g.on = f.x /\ g.dir = f.dir /\ g.x = f.x /\ g.keep = f.keep
          /\ g.holds = f.holds /\ g.then = "target"
      BY <1>2, WaitsIsFrame
    <3> HIDE DEF g
    <3>3. MoveFits(g)
      BY <1>3, <3>1 DEF MoveFits
    <3>4. Fits(g)
      BY <1>1, <3>1, <3>3 DEF Fits
    <3>. QED
      BY <3>4 DEF g
  <2>4. /\ entry' \in [Dirs -> Entries] /\ lpDirectoryList' \in Seq(Dirs)
        /\ stack' \in [DirThreads -> Seq(Frames)] /\ CallsFit'
    BY <1>1, <1>2, <1>5, <2>2, <2>3, InsertFits DEF f
  <2>. QED
    BY <1>1, <2>4, SameGrows, TypesStay
<1>. QED
  BY <1>1, <1>4, <1>5

\* Directories are locked: the old one is read as well.
LEMMA LockIsEntry ==
  ASSUME NEW e \in Entries, NEW i \in Infos, NEW n \in Int, NEW yes \in BOOLEAN, yes
  PROVE  /\ [e EXCEPT !.info = i, !.ftCacheTime = n, !.bLocked = TRUE] \in Entries
         /\ [e EXCEPT !.bLocked = TRUE] \in Entries
<1>1. yes = TRUE
  OBVIOUS
<1>2. [e EXCEPT !.info = i, !.ftCacheTime = n, !.bLocked = yes] \in Entries /\ [e EXCEPT !.bLocked = yes] \in Entries
  BY DEF Entries
<1>. QED
  BY <1>1, <1>2

LEMMA MoveTargetFits ==
  ASSUME TypesFit, CallsFit, NEW t \in DirThreads, MoveTarget(t)
  PROVE  TypesFit' /\ CallsFit' /\ Grown(volume')
<1> DEFINE f == Top(t)
           list == [NoInfo EXCEPT !.stamp = volume[f.dir].stamp, !.files = volume[f.dir].files]
           owned == Owned(f.dir, list)
           info == [list EXCEPT !.owned = owned]
           moves == /\ volume' = [Changed(Changed(volume, f.x), ParentDir[f.x])
                         EXCEPT ![f.x].exists = TRUE, ![f.x].perms = owned,
                                ![f.dir].perms = IF Rewritten(f.dir, list) THEN owned ELSE @]
                    /\ entry' = [entry EXCEPT ![f.dir].info = info, ![f.dir].ftCacheTime = volume[f.dir].mtime,
                                    ![f.dir].bLocked = TRUE, ![f.x].bLocked = TRUE]
                    /\ Become(t, [f EXCEPT !.at = "release", !.got = owned])
           fails == Become(t, [f EXCEPT !.at = "unlock", !.failed = TRUE]) /\ volume' = volume /\ entry' = entry
<1>1. /\ stack[t] # <<>> /\ f.op = "move" /\ f.at = "target" /\ UNCHANGED <<lpDirectoryList, promised, plan>>
      /\ moves \/ fails
  BY DEF MoveTarget, In, asked, cache, dirghosts
<1> HIDE DEF list, owned, info, moves, fails
<1>2. f \in Frames /\ MoveFits(f) /\ f.dir \in Dirs /\ f.x \in Dirs
      /\ entry[f.dir] \in Entries /\ entry[f.x] \in Entries /\ volume[f.dir] \in Volumes /\ volume[f.x] \in Volumes
  BY <1>1, MoveTop
<1>3. f.x \in Made /\ ~ f.keep /\ f.on = NoDir /\ f.holds = {f.dir, f.x} /\ f.dir # f.x
  <2> HIDE DEF f
  <2>. QED
    BY <1>1, <1>2, Zenon DEF MoveFits
<1>4. list \in Infos
  <2>1. volume[f.dir].stamp \in Int /\ volume[f.dir].files \in SUBSET Files
    BY <1>2 DEF Volumes
  <2>. QED
    BY <2>1, NoEntryIsEntry DEF Infos, list
<1>5. owned \in SUBSET Owners /\ volume[f.dir].mtime \in Int
  BY <1>2, <1>4, OwnedType DEF Volumes, owned
<1>6. info \in Infos
  BY <1>4, <1>5 DEF Infos, info
<1>7. CASE moves
  <2>1. entry' \in [Dirs -> Entries]
    <3> DEFINE e == [entry[f.dir] EXCEPT !.info = info, !.ftCacheTime = volume[f.dir].mtime, !.bLocked = TRUE]
               b == [entry[f.x] EXCEPT !.bLocked = TRUE]
    <3>1. PICK yes \in BOOLEAN : yes
      OBVIOUS
    <3>2. e \in Entries /\ b \in Entries
      BY <1>2, <1>5, <1>6, <3>1, LockIsEntry
    <3>3. entry' = [entry EXCEPT ![f.dir] = e, ![f.x] = b]
      BY <1>2, <1>3, <1>7 DEF TypesFit, moves
    <3> HIDE DEF e, b, f
    <3>. QED
      BY <1>2, <3>2, <3>3 DEF TypesFit
  <2>2. Grown(volume')
    <3> DEFINE v == Changed(Changed(volume, f.x), ParentDir[f.x])
    <3>1. Grown(v)
      BY SameGrows, ChangedGrows
    <3>2. PICK yes \in BOOLEAN : yes = TRUE
      OBVIOUS
    <3> HIDE DEF v
    <3> DEFINE w == [v EXCEPT ![f.x].exists = TRUE]
    <3>3. Grown(w)
      <4>1. Grown([v EXCEPT ![f.x].exists = yes])
        BY <1>2, <3>1, ExistsWritten
      <4>. QED
        BY <3>2, <4>1
    <3>4. w[f.x].stamp \in Int
      BY <1>2, <3>3 DEF Grown, Volumes
    <3> HIDE DEF w
    <3> DEFINE u == [w EXCEPT ![f.x].perms = owned]
    <3>5. Grown(u)
      BY <1>2, <1>5, <3>3, <3>4, PermsWritten
    <3>6. u[f.dir] \in Volumes
      BY <1>2, <3>5 DEF Grown
    <3> HIDE DEF u
    <3>7. u[f.dir].stamp \in Int /\ u[f.dir].perms \in SUBSET Owners
      BY <3>6 DEF Volumes
    <3>8. PICK perms \in SUBSET Owners : perms = IF Rewritten(f.dir, list) THEN owned ELSE u[f.dir].perms
      BY <1>5, <3>7
    <3>9. Grown([u EXCEPT ![f.dir].perms = perms])
      BY <1>2, <3>5, <3>7, PermsWritten, Zenon
    <3>10. volume' = [u EXCEPT ![f.dir].perms = perms]
      <4>1. volume' = [v EXCEPT ![f.x].exists = TRUE, ![f.x].perms = owned,
                                ![f.dir].perms = IF Rewritten(f.dir, list) THEN owned ELSE @]
        BY <1>7 DEF v, moves
      <4>2. volume' = [u EXCEPT ![f.dir].perms = IF Rewritten(f.dir, list) THEN owned ELSE @]
        BY <1>2, <1>3, <3>1, <4>1 DEF u, w, Grown
      <4>. QED
        BY <3>8, <4>2
    <3>. QED
      BY <3>9, <3>10
  <2> DEFINE g == [f EXCEPT !.at = "release", !.got = owned]
  <2>3. /\ g \in Frames /\ g.op = f.op /\ g.at = "release" /\ g.on = f.on /\ g.dir = f.dir /\ g.x = f.x
        /\ g.keep = f.keep /\ g.holds = f.holds
    BY <1>2, <1>5 DEF Frames, Places
  <2>4. Become(t, g)
    BY <1>7 DEF moves
  <2> HIDE DEF f, g
  <2>5. MoveFits(g)
    BY <1>3, <2>3 DEF MoveFits
  <2>6. stack' \in [DirThreads -> Seq(Frames)] /\ CallsFit'
    BY <1>1, <2>3, <2>4, <2>5, MoveGoes DEF f
  <2>7. lpDirectoryList' \in Seq(Dirs)
    BY <1>1 DEF TypesFit
  <2>. QED
    BY <1>1, <2>1, <2>2, <2>6, <2>7, TypesStay, Zenon
<1>8. CASE fails
  <2>1. entry' \in [Dirs -> Entries] /\ lpDirectoryList' \in Seq(Dirs)
    BY <1>1, <1>8 DEF TypesFit, fails
  <2> DEFINE g == [f EXCEPT !.at = "unlock", !.failed = TRUE]
  <2>2. /\ g \in Frames /\ g.op = f.op /\ g.at = "unlock" /\ g.on = f.on /\ g.dir = f.dir /\ g.x = f.x
        /\ g.keep = f.keep /\ g.holds = f.holds
    BY <1>2 DEF Frames, Places
  <2>3. Become(t, g)
    BY <1>8 DEF fails
  <2> HIDE DEF f, g
  <2>4. MoveFits(g)
    BY <1>3, <2>2 DEF MoveFits
  <2>5. stack' \in [DirThreads -> Seq(Frames)] /\ CallsFit'
    BY <1>1, <2>2, <2>3, <2>4, MoveGoes, Zenon DEF f
  <2>. QED
    BY <1>1, <1>8, <2>1, <2>5, SameGrows, TypesStay DEF fails
<1>. QED
  BY <1>1, <1>7, <1>8

LEMMA MoveReleaseFits ==
  ASSUME TypesFit, CallsFit, NEW t \in DirThreads, MoveRelease(t)
  PROVE  TypesFit' /\ CallsFit' /\ Grown(volume')
<1> DEFINE f == Top(t)
           d == IF f.dir \in f.holds THEN f.dir ELSE f.x
           g == [f EXCEPT !.holds = @ \ {d}, !.at = IF d = f.dir THEN "release" ELSE "files"]
<1>1. /\ stack[t] # <<>> /\ f.op = "move" /\ f.at = "release" /\ UNCHANGED <<volume, promised, plan>>
      /\ Release(d, entry[d], FALSE) /\ Become(t, g)
  BY DEF MoveRelease, In, asked, dirghosts
<1>2. f \in Frames /\ MoveFits(f) /\ f.dir \in Dirs /\ f.x \in Dirs
  BY <1>1, MoveTop
<1>3. d \in Dirs /\ entry[d] \in Entries
  BY <1>2 DEF TypesFit
<1>4. /\ g \in Frames /\ g.op = f.op /\ g.at = (IF d = f.dir THEN "release" ELSE "files") /\ g.on = f.on /\ g.dir = f.dir
      /\ g.x = f.x /\ g.keep = f.keep /\ g.holds = f.holds \ {d}
  <2>1. PICK at \in {"release", "files"} : at = IF d = f.dir THEN "release" ELSE "files"
    OBVIOUS
  <2>2. g = [f EXCEPT !.holds = f.holds \ {d}, !.at = at]
    BY <2>1
  <2>3. f.holds \ {d} \in SUBSET Dirs /\ at \in Places
    BY <1>2, <2>1 DEF Frames, Places
  <2> HIDE DEF d, g, f
  <2>. QED
    BY <1>2, <2>1, <2>2, <2>3 DEF Frames
<1>5. entry' \in [Dirs -> Entries] /\ lpDirectoryList' \in Seq(Dirs)
  BY <1>1, <1>3, ReleaseFits
<1> HIDE DEF f, g
<1>6. f.x \in Made /\ ~ f.keep /\ f.on = NoDir /\ f.holds \in {{f.x}, {f.dir, f.x}} /\ f.dir # f.x
  BY <1>1, <1>2 DEF MoveFits
<1>7. MoveFits(g)
  <2>1. CASE f.dir \in f.holds
    <3>1. f.holds = {f.dir, f.x} /\ d = f.dir
      BY <1>6, <2>1
    <3>2. g.holds = {g.x} /\ g.at = "release"
      BY <1>4, <1>6, <3>1
    <3>. QED
      BY <1>4, <1>6, <3>2 DEF MoveFits
  <2>2. CASE f.dir \notin f.holds
    <3>1. f.holds = {f.x} /\ d = f.x
      BY <1>6, <2>2
    <3>2. g.holds = {} /\ g.at = "files"
      BY <1>4, <1>6, <3>1
    <3>. QED
      BY <1>4, <1>6, <3>2 DEF MoveFits
  <2>. QED
    BY <2>1, <2>2
<1>8. stack' \in [DirThreads -> Seq(Frames)] /\ CallsFit'
  BY <1>1, <1>4, <1>7, MoveGoes DEF f
<1>. QED
  BY <1>1, <1>5, <1>8, SameGrows, TypesStay

LEMMA MoveFileFits ==
  ASSUME TypesFit, CallsFit, NEW t \in DirThreads, MoveFile(t)
  PROVE  TypesFit' /\ CallsFit' /\ Grown(volume')
<1> DEFINE f == Top(t)
<1>1. /\ stack[t] # <<>> /\ f.op = "move" /\ f.at = "files" /\ UNCHANGED <<entry, lpDirectoryList, promised, plan>>
  BY DEF MoveFile, In, asked, cache
<1>2. PICK x \in volume[f.dir].files \ f.todo :
        \/ Become(t, [f EXCEPT !.failed = TRUE, !.todo = @ \cup {x}]) /\ volume' = volume
        \/ /\ volume' = [Changed(Changed(volume, f.dir), f.x) EXCEPT ![f.dir].files = @ \ {x},
                                                                     ![f.x].files = @ \cup {x}]
           /\ stack' = stack
  BY Zenon DEF MoveFile
<1>3. f \in Frames /\ MoveFits(f) /\ f.dir \in Dirs /\ f.x \in Dirs /\ volume[f.dir] \in Volumes
  BY <1>1, MoveTop
<1>4. x \in Files
  BY <1>3 DEF Volumes
<1>5. entry' \in [Dirs -> Entries] /\ lpDirectoryList' \in Seq(Dirs)
  BY <1>1 DEF TypesFit
<1>6. CASE Become(t, [f EXCEPT !.failed = TRUE, !.todo = @ \cup {x}]) /\ volume' = volume
  <2> DEFINE g == [f EXCEPT !.failed = TRUE, !.todo = @ \cup {x}]
  <2>1. /\ g \in Frames /\ g.op = f.op /\ g.at = f.at /\ g.on = f.on /\ g.dir = f.dir /\ g.x = f.x
        /\ g.keep = f.keep /\ g.holds = f.holds /\ g.then = f.then
    BY <1>3, <1>4 DEF Frames
  <2>2. Become(t, g)
    BY <1>6
  <2> HIDE DEF f, g
  <2>3. MoveFits(g)
    BY <1>1, <1>3, <2>1 DEF MoveFits
  <2>4. stack' \in [DirThreads -> Seq(Frames)] /\ CallsFit'
    BY <1>1, <2>1, <2>2, <2>3, MoveGoes DEF f
  <2>. QED
    BY <1>1, <1>5, <1>6, <2>4, SameGrows, TypesStay
<1>7. CASE /\ volume' = [Changed(Changed(volume, f.dir), f.x) EXCEPT ![f.dir].files = @ \ {x},
                                                                     ![f.x].files = @ \cup {x}]
           /\ stack' = stack
  <2>1. Grown(volume')
    <3> DEFINE v == Changed(Changed(volume, f.dir), f.x)
    <3>1. Grown(v)
      BY SameGrows, ChangedGrows
    <3> HIDE DEF v
    <3> DEFINE u == [v EXCEPT ![f.dir].files = @ \ {x}]
    <3>2. v[f.dir].files \ {x} \in SUBSET Files
      BY <1>3, <3>1 DEF Grown, Volumes
    <3>3. Grown(u)
      BY <1>3, <3>1, <3>2, FilesWritten
    <3> HIDE DEF u
    <3>4. u[f.x].files \cup {x} \in SUBSET Files
      BY <1>3, <1>4, <3>3 DEF Grown, Volumes
    <3>5. Grown([u EXCEPT ![f.x].files = u[f.x].files \cup {x}])
      BY <1>3, <3>3, <3>4, FilesWritten
    <3>6. volume' = [u EXCEPT ![f.x].files = u[f.x].files \cup {x}]
      BY <1>7 DEF u, v
    <3>. QED
      BY <3>5, <3>6
  <2>2. stack' \in [DirThreads -> Seq(Frames)] /\ CallsFit'
    BY <1>7 DEF TypesFit, CallsFit
  <2>. QED
    BY <1>1, <1>5, <2>1, <2>2, TypesStay
<1>. QED
  BY <1>2, <1>6, <1>7

LEMMA MoveRestFits ==
  ASSUME TypesFit, CallsFit, NEW t \in DirThreads, MoveRest(t)
  PROVE  TypesFit' /\ CallsFit' /\ Grown(volume')
<1> DEFINE f == Top(t)
           d == f.dir
<1>1. /\ stack[t] # <<>> /\ f.op = "move" /\ f.at = "files" /\ UNCHANGED <<entry, lpDirectoryList, promised, plan>>
  BY DEF MoveRest, In, asked, cache
<1>2. \/ volume' = volume
      \/ volume' = [Removed(volume, d) EXCEPT ![d].perms = {}]
      \/ volume' = [volume EXCEPT ![d].perms = {}]
  BY DEF MoveRest
<1>3. PICK failed \in BOOLEAN, at \in {"unlock", "restore"} : Become(t, [f EXCEPT !.failed = failed, !.at = at])
  <2> DEFINE failed == ~ (~ f.failed /\ volume[d].exists /\ IsEmpty(d))
             at == IF (~ f.failed /\ volume[d].exists /\ IsEmpty(d)) \/ f.failed THEN "unlock" ELSE "restore"
  <2>1. failed \in BOOLEAN /\ at \in {"unlock", "restore"}
    OBVIOUS
  <2>2. Become(t, [f EXCEPT !.failed = failed, !.at = at])
    BY DEF MoveRest
  <2>. QED
    BY <2>1, <2>2
<1>4. f \in Frames /\ MoveFits(f) /\ d \in Dirs /\ volume[d] \in Volumes
  BY <1>1, MoveTop
<1>5. Grown(volume')
  <2>1. volume[d].stamp \in Int /\ {} \in SUBSET Owners
    BY <1>4 DEF Volumes
  <2>2. Grown([volume EXCEPT ![d].perms = {}])
    BY <1>4, <2>1, SameGrows, PermsWritten
  <2>. QED
    BY <1>2, <1>4, <2>2, SameGrows, RemovedGrows
<1> DEFINE g == [f EXCEPT !.failed = failed, !.at = at]
<1>6. /\ g \in Frames /\ g.op = f.op /\ g.at = at /\ g.on = f.on /\ g.dir = f.dir /\ g.x = f.x
      /\ g.keep = f.keep /\ g.holds = f.holds
  BY <1>4 DEF Frames, Places
<1>7. Become(t, g)
  BY <1>3
<1> HIDE DEF f, g
<1>8. MoveFits(g)
  BY <1>1, <1>4, <1>6 DEF MoveFits
<1>9. stack' \in [DirThreads -> Seq(Frames)] /\ CallsFit'
  BY <1>1, <1>6, <1>7, <1>8, MoveGoes DEF f
<1>10. entry' \in [Dirs -> Entries] /\ lpDirectoryList' \in Seq(Dirs)
  BY <1>1 DEF TypesFit
<1>. QED
  BY <1>1, <1>5, <1>9, <1>10, TypesStay

LEMMA MoveRestoreFits ==
  ASSUME TypesFit, CallsFit, NEW t \in DirThreads, MoveRestore(t)
  PROVE  TypesFit' /\ CallsFit' /\ Grown(volume')
<1> DEFINE f == Top(t)
<1>1. /\ stack[t] # <<>> /\ f.op = "move" /\ f.at = "restore" /\ UNCHANGED <<volume, promised, plan>>
      /\ Acquire(t, f.dir, entry, lpDirectoryList, "restored")
  BY DEF MoveRestore, In, asked, dirghosts
<1>2. f \in Frames /\ MoveFits(f) /\ f.dir \in Dirs /\ "restored" \in Later
  BY <1>1, MoveTop DEF Later
<1> HIDE DEF f
<1>3. f.x \in Made /\ ~ f.keep /\ f.on = NoDir /\ f.holds = {} /\ f.dir # f.x
  BY <1>1, <1>2 DEF MoveFits
<1>4. Fits(Has(f, f.dir, "restored"))
  <2> DEFINE g == Has(f, f.dir, "restored")
  <2>1. g.op = f.op /\ g.at = "restored" /\ g.on = f.on /\ g.dir = f.dir /\ g.x = f.x /\ g.keep = f.keep
        /\ g.holds = f.holds \cup {f.dir}
    BY <1>2, HasIsFrame
  <2> HIDE DEF g
  <2>2. g.holds = {g.dir}
    BY <1>3, <2>1
  <2>3. MoveFits(g)
    BY <1>3, <2>1, <2>2 DEF MoveFits
  <2>4. Fits(g)
    BY <1>1, <2>1, <2>3 DEF Fits
  <2>. QED
    BY <2>4 DEF g
<1>5. Fits(WaitsFor(f, f.dir, "restored"))
  <2> DEFINE g == WaitsFor(f, f.dir, "restored")
  <2>1. g.op = f.op /\ g.at = "wait" /\ g.on = f.dir /\ g.dir = f.dir /\ g.x = f.x /\ g.keep = f.keep
        /\ g.holds = f.holds /\ g.then = "restored"
    BY <1>2, WaitsIsFrame
  <2> HIDE DEF g
  <2>3. MoveFits(g)
    BY <1>3, <2>1 DEF MoveFits
  <2>4. Fits(g)
    BY <1>1, <2>1, <2>3 DEF Fits
  <2>. QED
    BY <2>4 DEF g
<1>6. entry \in [Dirs -> Entries] /\ lpDirectoryList \in Seq(Dirs)
  BY DEF TypesFit
<1>7. /\ entry' \in [Dirs -> Entries] /\ lpDirectoryList' \in Seq(Dirs)
      /\ stack' \in [DirThreads -> Seq(Frames)] /\ CallsFit'
  BY <1>1, <1>2, <1>4, <1>5, <1>6, AcquireTypes, AcquireStack DEF f
<1>. QED
  BY <1>1, <1>7, SameGrows, TypesStay

LEMMA MoveRestoredFits ==
  ASSUME TypesFit, CallsFit, NEW t \in DirThreads, MoveRestored(t)
  PROVE  TypesFit' /\ CallsFit' /\ Grown(volume')
<1> DEFINE f == Top(t)
           d == f.dir
           g == [f EXCEPT !.at = "unlock", !.holds = {}]
<1>1. /\ stack[t] # <<>> /\ f.op = "move" /\ f.at = "restored" /\ UNCHANGED <<promised, plan>>
      /\ WritePermissions(d, entry[d].info.owned) /\ Release(d, Marked(entry[d]), FALSE) /\ Become(t, g)
  BY DEF MoveRestored, In, asked, dirghosts, Marked
<1>2. f \in Frames /\ MoveFits(f) /\ d \in Dirs /\ entry[d] \in Entries
  BY <1>1, MoveTop
<1>3. Grown(volume')
  <2>1. entry[d].info.owned \in SUBSET Owners
    BY <1>2 DEF Entries, Infos
  <2>. QED
    BY <1>1, <1>2, <2>1, PermissionsGrow
<1>4. entry' \in [Dirs -> Entries] /\ lpDirectoryList' \in Seq(Dirs)
  BY <1>1, <1>2, MarkedIsEntry, ReleaseFits
<1>5. /\ g \in Frames /\ g.op = f.op /\ g.at = "unlock" /\ g.on = f.on /\ g.dir = f.dir /\ g.x = f.x
      /\ g.keep = f.keep /\ g.holds = {}
  BY <1>2 DEF Frames, Places
<1> HIDE DEF f, g
<1>6. MoveFits(g)
  BY <1>1, <1>2, <1>5 DEF MoveFits
<1>7. stack' \in [DirThreads -> Seq(Frames)] /\ CallsFit'
  BY <1>1, <1>5, <1>6, MoveGoes DEF f
<1>. QED
  BY <1>1, <1>3, <1>4, <1>7, TypesStay

LEMMA UnlockedIsEntry ==
  ASSUME TypesFit, NEW d \in Dirs
  PROVE  /\ Unlocked(d) \in Entries /\ Unlocked(d).cached = entry[d].cached
         /\ Unlocked(d).lReferenceCount = entry[d].lReferenceCount
         /\ Unlocked(d).hEvent = entry[d].hEvent /\ Unlocked(d).lForceUpdate /\ ~ Unlocked(d).bLocked
         /\ Unlocked(d).info = entry[d].info
<1>1. entry[d] \in Entries
  BY DEF TypesFit
<1>3. PICK yes \in BOOLEAN, no \in BOOLEAN : yes = TRUE /\ no = FALSE
  OBVIOUS
<1> DEFINE g == [entry[d] EXCEPT !.lForceUpdate = yes, !.bLocked = no]
<1>4. /\ g \in Entries /\ g.cached = entry[d].cached /\ g.lReferenceCount = entry[d].lReferenceCount
      /\ g.hEvent = entry[d].hEvent /\ g.lForceUpdate = yes /\ g.bLocked = no /\ g.info = entry[d].info
  BY <1>1 DEF Entries
<1>5. g = Unlocked(d)
  BY <1>3 DEF Unlocked
<1> HIDE DEF g
<1>. QED
  BY <1>3, <1>4, <1>5

\* Which of its directories a move leaves.
Leaving(f) == IF f.at = "unlock" THEN f.dir ELSE f.x
Parted(f) ==
  [f EXCEPT !.at = IF f.at = "unlock" /\ (f.x \in f.holds \/ Leaving(f) \notin f.holds) THEN "unlock target"
                   ELSE "mark parent", !.holds = @ \ {Leaving(f)}]

LEMMA MoveUnlockStep ==
  ASSUME TypesFit, CallsFit, NEW t \in DirThreads, MoveUnlock(t)
  PROVE  /\ stack[t] # <<>> /\ Top(t).op = "move" /\ Top(t).at \in {"unlock", "unlock target"}
         /\ UNCHANGED <<volume, promised, plan, overlooked>>
         /\ Top(t) \in Frames /\ MoveFits(Top(t)) /\ Top(t).dir \in Dirs /\ Top(t).x \in Dirs
         /\ Leaving(Top(t)) \in Dirs /\ entry[Leaving(Top(t))] \in Entries
         /\ Parted(Top(t)) \in Frames /\ MoveFits(Parted(Top(t)))
         /\ Parted(Top(t)).op = Top(t).op /\ Parted(Top(t)).on = NoDir /\ Parted(Top(t)).dir = Top(t).dir
         /\ Parted(Top(t)).x = Top(t).x /\ Parted(Top(t)).keep = Top(t).keep
         /\ Parted(Top(t)).holds = Top(t).holds \ {Leaving(Top(t))}
         /\ Parted(Top(t)).at \in {"unlock target", "mark parent"}
         /\ Parted(Top(t)).at = "unlock target" =>
              /\ Top(t).at = "unlock"
              /\ Top(t).x \notin Top(t).holds => Leaving(Top(t)) \notin Top(t).holds
         /\ Become(t, Parted(Top(t)))
         /\ IF Leaving(Top(t)) \in Top(t).holds
            THEN Release(Leaving(Top(t)), Marked(entry[Leaving(Top(t))]), FALSE)
            ELSE /\ Release2(Leaving(Top(t)), Unlocked(Leaving(Top(t))), 0, Top(t).at = "unlock" /\ ~ Top(t).failed)
                 /\ UNCHANGED dwAllocated
         /\ intruded' = IF Leaving(Top(t)) \notin Top(t).holds /\ Holders(Leaving(Top(t))) # {}
                             /\ entry'[Leaving(Top(t))].hEvent = "set"
                        THEN intruded \cup {Leaving(Top(t))} ELSE intruded
<1> DEFINE f == Top(t)
           d == Leaving(f)
           g == Parted(f)
<1>1. /\ stack[t] # <<>> /\ f.op = "move" /\ f.at \in {"unlock", "unlock target"}
      /\ UNCHANGED <<volume, promised, plan, overlooked>>
      /\ Become(t, g)
      /\ IF d \in f.holds THEN Release(d, Marked(entry[d]), FALSE)
         ELSE Release2(d, Unlocked(d), 0, f.at = "unlock" /\ ~ f.failed) /\ UNCHANGED dwAllocated
      /\ intruded' = IF d \notin f.holds /\ Holders(d) # {} /\ entry'[d].hEvent = "set"
                     THEN intruded \cup {d} ELSE intruded
  BY DEF MoveUnlock, Leaving, Parted, Marked, asked
<1>2. f \in Frames /\ MoveFits(f) /\ f.dir \in Dirs /\ f.x \in Dirs
  BY <1>1, MoveTop
<1>3. d \in Dirs /\ entry[d] \in Entries
  BY <1>2 DEF Leaving, TypesFit
<1>4. /\ g \in Frames /\ g.op = f.op /\ g.on = f.on /\ g.dir = f.dir /\ g.x = f.x
      /\ g.keep = f.keep /\ g.holds = f.holds \ {d}
      /\ g.at = IF f.at = "unlock" /\ (f.x \in f.holds \/ d \notin f.holds) THEN "unlock target" ELSE "mark parent"
  BY <1>2 DEF Frames, Places, Parted
<1> HIDE DEF f, g
<1>5. f.x \in Made /\ ~ f.keep /\ f.on = NoDir /\ f.dir # f.x
  BY <1>1, <1>2 DEF MoveFits
<1>6. MoveFits(g)
  <2>1. CASE f.at = "unlock"
    <3>1. d = f.dir /\ f.holds \in {{}, {f.dir}, {f.dir, f.x}}
      BY <1>2, <2>1 DEF MoveFits, Leaving
    <3>2. \/ g.at = "unlock target" /\ g.holds \in {{}, {g.x}}
          \/ g.at = "mark parent" /\ g.holds = {}
      BY <1>4, <1>5, <2>1, <3>1
    <3>. QED
      BY <1>4, <1>5, <3>2 DEF MoveFits
  <2>2. CASE f.at = "unlock target"
    <3>1. d = f.x /\ f.holds \in {{}, {f.x}}
      BY <1>2, <2>2 DEF MoveFits, Leaving
    <3>2. g.at = "mark parent" /\ g.holds = {}
      BY <1>4, <1>5, <2>2, <3>1
    <3>. QED
      BY <1>4, <1>5, <3>2 DEF MoveFits
  <2>. QED
    BY <1>1, <2>1, <2>2
<1>7. /\ g.at \in {"unlock target", "mark parent"}
      /\ g.at = "unlock target" => f.at = "unlock" /\ (f.x \notin f.holds => d \notin f.holds)
  BY <1>4
<1>. QED
  BY <1>1, <1>2, <1>3, <1>4, <1>5, <1>6, <1>7 DEF f, g

LEMMA MoveUnlockFits ==
  ASSUME TypesFit, CallsFit, NEW t \in DirThreads, MoveUnlock(t)
  PROVE  TypesFit' /\ CallsFit' /\ Grown(volume')
<1> DEFINE f == Top(t)
           d == Leaving(f)
           g == Parted(f)
<1>1. /\ stack[t] # <<>> /\ f.op = "move" /\ UNCHANGED <<volume, promised, plan>>
      /\ d \in Dirs /\ entry[d] \in Entries /\ Become(t, g) /\ g \in Frames /\ MoveFits(g)
      /\ g.op = f.op /\ g.dir = f.dir /\ g.keep = f.keep
      /\ \/ Release(d, Marked(entry[d]), FALSE)
         \/ Release2(d, Unlocked(d), 0, f.at = "unlock" /\ ~ f.failed)
  BY MoveUnlockStep
<1>2. stack' \in [DirThreads -> Seq(Frames)] /\ CallsFit'
  BY <1>1, MoveGoes
<1>3. entry' \in [Dirs -> Entries] /\ lpDirectoryList' \in Seq(Dirs)
  <2>1. CASE Release(d, Marked(entry[d]), FALSE)
    BY <1>1, <2>1, MarkedIsEntry, ReleaseFits, Zenon
  <2>2. CASE Release2(d, Unlocked(d), 0, f.at = "unlock" /\ ~ f.failed)
    <3>1. PICK delete \in BOOLEAN : Release2(d, Unlocked(d), 0, delete)
      BY <2>2
    <3>2. 0 \in Int
      OBVIOUS
    <3>. QED
      BY <1>1, <3>1, <3>2, UnlockedIsEntry, ReleaseTypes, Zenon
  <2>. QED
    BY <1>1, <2>1, <2>2, Zenon
<1>. QED
  BY <1>1, <1>2, <1>3, SameGrows, TypesStay

LEMMA InitFits ==
  ASSUME DirInit
  PROVE  TypesFit /\ CallsFit /\ Calls = {}
<1>1. PICK zero \in Int : zero = 0
  OBVIOUS
<1>2. volume = [d \in Dirs |-> [exists |-> d \in Existing, stamp |-> zero, mtime |-> zero, files |-> {}, perms |-> {}]]
  BY <1>1 DEF DirInit
<1>3. volume \in [Dirs -> Volumes]
  <2>1. \A d \in Dirs : \A b \in BOOLEAN :
          [exists |-> b, stamp |-> zero, mtime |-> zero, files |-> {}, perms |-> {}] \in Volumes
    BY DEF Volumes
  <2>2. ASSUME NEW d \in Dirs
        PROVE [exists |-> d \in Existing, stamp |-> zero, mtime |-> zero, files |-> {}, perms |-> {}] \in Volumes
    <3> DEFINE b == d \in Existing
    <3>1. b \in BOOLEAN
      OBVIOUS
    <3> HIDE DEF b
    <3>2. [exists |-> b, stamp |-> zero, mtime |-> zero, files |-> {}, perms |-> {}] \in Volumes
      BY <2>1, <3>1
    <3>. QED
      BY <3>2 DEF b
  <2>. QED
    BY <1>2, <2>2
<1>4. entry \in [Dirs -> Entries] /\ lpDirectoryList \in Seq(Dirs) /\ promised \in [Dirs -> Int] /\ plan \in Plans
  BY NoEntryIsEntry DEF DirInit
<1>5. stack = [t \in DirThreads |-> <<>>]
  BY DEF DirInit
<1>6. stack \in [DirThreads -> Seq(Frames)]
  BY <1>5
<1>7. CallsFit
  BY <1>5 DEF CallsFit, StackFits
<1>8. Calls = {}
  BY <1>5 DEF Calls
<1>. QED
  BY <1>3, <1>4, <1>6, <1>7, <1>8 DEF TypesFit

\* The types and the calls are as they should be.
LEMMA StepFits ==
  ASSUME TypesFit, CallsFit, DirNext
  PROVE  TypesFit' /\ CallsFit' /\ Grown(volume')
<1>1. PICK t \in DirThreads : OpenStep(t) \/ UpdateStep(t) \/ CommandStep(t) \/ MoveStep(t)
  BY DEF DirNext
<1>2. CASE OpenStep(t)
  BY <1>2, AcquireDirectoryFits, WakeFits, ExchangeFits, LookAtDiskFits, ListDirectoryFits, OpenBelowFits,
     ReadPermissionsFits, FinishOpenFits DEF OpenStep
<1>3. CASE UpdateStep(t)
  BY <1>3, CallUpdateFits, SaveOwnerFits, MarkParentOfFits, EndMarkFits DEF UpdateStep
<1>4. CASE CommandStep(t)
  BY <1>4, BeginFits, MarkDirFits, CreateFileFits, WriteFileFits, DeleteFileFits, MakeDirectoryFits, ReturnedFits,
     StatDirectoryFits, DeletePermissionsFits, RemoveDirectoryFits DEF CommandStep
<1>5. CASE MoveStep(t)
  BY <1>5, MoveBeginsFits, MoveSourceFits, MoveTargetFits, MoveReleaseFits, MoveFileFits, MoveRestFits,
     MoveRestoreFits, MoveRestoredFits, MoveUnlockFits DEF MoveStep
<1>. QED
  BY <1>1, <1>2, <1>3, <1>4, <1>5
-------------------------------------------------------------------------------
(* What an entry counts, as a directory is acquired, given on and released.*)
LEMMA EntryMeans ==
  ASSUME TypesFit, NEW d \in Dirs, EntryKept(d)
  PROVE  /\ Cardinality(Holders(d)) \in Nat /\ Cardinality(Waiters(d)) \in Nat
         /\ Cardinality(Holders(d)) = 0 <=> Holders(d) = {}
         /\ Cardinality(Waiters(d)) = 0 <=> Waiters(d) = {}
         /\ ~ entry[d].cached => Holders(d) = {} /\ Waiters(d) = {} /\ ~ entry[d].bLocked
         /\ entry[d].cached => entry[d].lReferenceCount >= 1
         /\ entry[d].lReferenceCount = 1 => entry[d].cached /\ Holders(d) = {} /\ Waiters(d) = {}
         /\ Listed(lpDirectoryList, d) =>
              entry[d].cached /\ entry[d].lReferenceCount = 1 /\ ~ entry[d].bLocked
         /\ Holders(d) # {} \/ Waiters(d) # {} => entry[d].cached /\ entry[d].lReferenceCount >= 2
<1>1. Cardinality(Holders(d)) \in Nat /\ Cardinality(Waiters(d)) \in Nat
  BY FS_CardinalityType DEF EntryKept
<1>2. /\ Cardinality(Holders(d)) = 0 <=> Holders(d) = {}
      /\ Cardinality(Waiters(d)) = 0 <=> Waiters(d) = {}
  BY FS_EmptySet DEF EntryKept
<1>. QED
  BY <1>1, <1>2 DEF EntryKept

\* The counted fields of an entry.
SameCounts(e, d) ==
  e.cached = entry[d].cached /\ e.lReferenceCount = entry[d].lReferenceCount
  /\ e.hEvent = entry[d].hEvent /\ e.bLocked = entry[d].bLocked

SameSets(d) ==
  /\ Holders(d)' = Holders(d) /\ Waiters(d)' = Waiters(d)
  /\ Lockers(d)' \subseteq Lockers(d) /\ Testers(d)' \subseteq Testers(d)

LEMMA QuietTable ==
  ASSUME NEW d \in Dirs, EntryKept(d), LockKept(d), SameSets(d), SameCounts(entry'[d], d),
         Once(lpDirectoryList', d), Listed(lpDirectoryList', d) <=> Listed(lpDirectoryList, d)
  PROVE  EntryKept(d)' /\ LockKept(d)'
<1>1. EntryKept(d)'
  BY DEF EntryKept, SameSets, SameCounts
<1>2. LockKept(d)'
  BY DEF LockKept, SameSets, SameCounts
<1>. QED
  BY <1>1, <1>2

LEMMA LockStays ==
  ASSUME NEW d \in Dirs, LockKept(d), Lockers(d)' \subseteq Lockers(d), entry'[d].bLocked = entry[d].bLocked,
         Testers(d)' \subseteq Testers(d) \/ ~ entry[d].bLocked
  PROVE  LockKept(d)'
BY DEF LockKept

LEMMA NewKept ==
  ASSUME TypesFit, NEW d \in Dirs, EntryKept(d), ~ entry[d].cached \/ Listed(lpDirectoryList, d), NEW c,
         entry'[d] = NewEntry, Holders(d)' = Holders(d) \cup {c}, Waiters(d)' = Waiters(d),
         Once(lpDirectoryList', d), ~ Listed(lpDirectoryList', d)
  PROVE  EntryKept(d)'
<1>1. Holders(d)' = {c} /\ Waiters(d)' = {}
  BY EntryMeans
<1>2. IsFiniteSet({c}) /\ Cardinality({c}) = 1 /\ IsFiniteSet({}) /\ Cardinality({}) = 0
  BY FS_Singleton, FS_EmptySet
<1>3. /\ entry'[d].cached /\ entry'[d].lReferenceCount = 2 /\ entry'[d].hEvent = "none" /\ ~ entry'[d].bLocked
  BY NoEntryIsEntry
<1>. QED
  BY <1>1, <1>2, <1>3 DEF EntryKept

LEMMA GoneKept ==
  ASSUME TypesFit, NEW d \in Dirs, EntryKept(d), Listed(lpDirectoryList, d),
         entry'[d] = NoEntry, Holders(d)' = Holders(d), Waiters(d)' = Waiters(d),
         Once(lpDirectoryList', d), ~ Listed(lpDirectoryList', d)
  PROVE  EntryKept(d)'
<1>1. Holders(d)' = {} /\ Waiters(d)' = {}
  BY EntryMeans
<1>2. IsFiniteSet({}) /\ Cardinality({}) = 0
  BY FS_EmptySet
<1>3. /\ ~ entry'[d].cached /\ entry'[d].lReferenceCount = 0 /\ entry'[d].hEvent = "none" /\ ~ entry'[d].bLocked
  BY NoEntryIsEntry
<1>. QED
  BY <1>1, <1>2, <1>3 DEF EntryKept

LEMMA FirstKept ==
  ASSUME TypesFit, NEW d \in Dirs, EntryKept(d), entry[d].lReferenceCount = 1, NEW c,
         Holders(d)' = Holders(d) \cup {c}, Waiters(d)' = Waiters(d),
         entry'[d].cached = entry[d].cached, entry'[d].lReferenceCount = 2,
         entry'[d].hEvent = entry[d].hEvent, entry'[d].bLocked = entry[d].bLocked,
         Once(lpDirectoryList', d), ~ Listed(lpDirectoryList', d)
  PROVE  EntryKept(d)'
<1>1. Holders(d) = {} /\ Waiters(d) = {} /\ Holders(d)' = {c} /\ Waiters(d)' = {} /\ entry[d].cached
  BY EntryMeans
<1>2. IsFiniteSet({c}) /\ Cardinality({c}) = 1 /\ IsFiniteSet({}) /\ Cardinality({}) = 0
  BY FS_Singleton, FS_EmptySet
<1>. QED
  BY <1>1, <1>2 DEF EntryKept

LEMMA QueueKept ==
  ASSUME TypesFit, NEW d \in Dirs, EntryKept(d), entry[d].cached, entry[d].lReferenceCount # 1, NEW c,
         c \notin Waiters(d), Holders(d)' = Holders(d), Waiters(d)' = Waiters(d) \cup {c},
         entry'[d].cached = entry[d].cached, entry'[d].lReferenceCount = entry[d].lReferenceCount + 1,
         entry'[d].hEvent
           = IF entry[d].lReferenceCount = 2 /\ entry[d].hEvent = "none" THEN "reset" ELSE entry[d].hEvent,
         entry'[d].bLocked = entry[d].bLocked,
         Once(lpDirectoryList', d), Listed(lpDirectoryList', d) <=> Listed(lpDirectoryList, d)
  PROVE  EntryKept(d)'
<1>1. IsFiniteSet(Waiters(d)') /\ Cardinality(Waiters(d)') = Cardinality(Waiters(d)) + 1
  BY FS_AddElement DEF EntryKept
<1>2. /\ Cardinality(Holders(d)) \in Nat /\ Cardinality(Waiters(d)) \in Nat
      /\ Cardinality(Holders(d)) = 0 <=> Holders(d) = {}
      /\ Cardinality(Waiters(d)) = 0 <=> Waiters(d) = {}
      /\ ~ Listed(lpDirectoryList, d)
  BY EntryMeans
<1>3. /\ entry[d].lReferenceCount = 1 + Cardinality(Holders(d)) + Cardinality(Waiters(d))
      /\ Cardinality(Holders(d)) <= 1 /\ entry[d].lReferenceCount \in Int
  BY DEF EntryKept, TypesFit, Entries
<1>4. Waiters(d) = {} => Holders(d) # {} /\ entry[d].lReferenceCount = 2
  BY <1>2, <1>3
<1>5. entry'[d].hEvent # "none" /\ (entry'[d].hEvent = "set" \/ Holders(d) # {})
  <2>1. CASE Waiters(d) = {}
    BY <1>4, <2>1 DEF EntryKept
  <2>2. CASE Waiters(d) # {}
    BY <2>2 DEF EntryKept
  <2>. QED
    BY <2>1, <2>2
<1>6. Holders(d) # {} => entry'[d].hEvent # "set"
  BY DEF EntryKept
<1>7. /\ entry'[d].lReferenceCount # 1 /\ Waiters(d)' # {}
      /\ entry'[d].lReferenceCount = 1 + Cardinality(Holders(d)') + Cardinality(Waiters(d)')
  BY <1>1, <1>2, <1>3
<1>. QED
  BY <1>1, <1>2, <1>3, <1>5, <1>6, <1>7 DEF EntryKept

LEMMA WakeKept ==
  ASSUME TypesFit, NEW d \in Dirs, EntryKept(d), entry[d].hEvent = "set", NEW c \in Waiters(d),
         Holders(d)' = Holders(d) \cup {c}, Waiters(d)' = Waiters(d) \ {c},
         entry'[d].cached = entry[d].cached, entry'[d].lReferenceCount = entry[d].lReferenceCount,
         entry'[d].hEvent = "reset", entry'[d].bLocked = entry[d].bLocked,
         UNCHANGED lpDirectoryList
  PROVE  EntryKept(d)'
<1>1. Holders(d) = {} /\ IsFiniteSet(Waiters(d)) /\ Holders(d)' = {c}
  BY DEF EntryKept
<1>2. /\ IsFiniteSet(Waiters(d)') /\ Cardinality(Waiters(d)') = Cardinality(Waiters(d)) - 1
      /\ Cardinality(Waiters(d)) \in Nat
  BY <1>1, FS_RemoveElement, FS_CardinalityType
<1>3. IsFiniteSet({c}) /\ Cardinality({c}) = 1 /\ Cardinality({}) = 0
  BY FS_Singleton, FS_EmptySet
<1>4. Cardinality(Holders(d)) + Cardinality(Waiters(d)) = Cardinality(Holders(d)') + Cardinality(Waiters(d)')
  BY <1>1, <1>2, <1>3
<1>5. entry'[d].lReferenceCount
        = (IF entry'[d].cached THEN 1 ELSE 0) + Cardinality(Holders(d)') + Cardinality(Waiters(d)')
  <2>1. entry[d].lReferenceCount
          = (IF entry[d].cached THEN 1 ELSE 0) + Cardinality(Holders(d)) + Cardinality(Waiters(d))
    BY DEF EntryKept
  <2>. QED
    BY <1>1, <1>2, <1>3, <2>1
<1>. QED
  BY <1>1, <1>2, <1>3, <1>5 DEF EntryKept

\* What becomes of the entry of a directory that is acquired or released.
Stays(f, e) == f.cached = e.cached /\ f.bLocked = e.bLocked /\ f.lForceUpdate = e.lForceUpdate /\ f.info = e.info

Acquired(d, tab) ==
  /\ Stays(entry'[d], tab[d]) /\ entry'[d].lReferenceCount = tab[d].lReferenceCount + 1
  /\ entry'[d].hEvent = IF tab[d].lReferenceCount = 2 /\ tab[d].hEvent = "none" THEN "reset" ELSE tab[d].hEvent
  /\ \A e \in Dirs \ {d} : entry'[e] = tab[e]

LEMMA AcquireMeans ==
  ASSUME NEW t, NEW d \in Dirs, NEW tab \in [Dirs -> Entries], NEW list \in Seq(Dirs), NEW then \in Later,
         Acquire(t, d, tab, list, then)
  PROVE  Acquired(d, tab)
<1>1. /\ entry' \in [Dirs -> Entries] /\ lpDirectoryList' \in Seq(Dirs)
      /\ entry'[d].cached = tab[d].cached /\ entry'[d].lReferenceCount = tab[d].lReferenceCount + 1
      /\ entry'[d].bLocked = tab[d].bLocked /\ entry'[d].lForceUpdate = tab[d].lForceUpdate
      /\ entry'[d].info = tab[d].info /\ entry'[d].ftCacheTime = tab[d].ftCacheTime
      /\ entry'[d].hEvent =
           IF tab[d].lReferenceCount = 2 /\ tab[d].hEvent = "none" THEN "reset" ELSE tab[d].hEvent
      /\ \A e \in Dirs \ {d} : entry'[e] = tab[e]
  BY AcquireTypes
<1>. QED
  BY <1>1 DEF Acquired, Stays

HandedOver(d, e, left) ==
  /\ left > 1 /\ Stays(entry'[d], e) /\ entry'[d].lReferenceCount = left
  /\ entry'[d].hEvent = (IF e.hEvent = "none" THEN "none" ELSE "set") /\ lpDirectoryList' = lpDirectoryList
Forgotten(d, e, left) ==
  ~ (left > 1) /\ entry'[d] = NoEntry /\ lpDirectoryList' = lpDirectoryList
Unused(d, e, left) ==
  /\ ~ (left > 1) /\ Stays(entry'[d], e) /\ entry'[d].lReferenceCount = left /\ entry'[d].hEvent = "none"
  /\ lpDirectoryList' = IF e.bLocked THEN lpDirectoryList ELSE <<d>> \o lpDirectoryList

LEMMA ReleaseMeans ==
  ASSUME TypesFit, NEW d \in Dirs, NEW e \in Entries, NEW n \in Int, NEW delete \in BOOLEAN, Release2(d, e, n, delete)
  PROVE  /\ \A b \in Dirs \ {d} : entry'[b] = entry[b]
         /\ \/ HandedOver(d, e, e.lReferenceCount - n)
            \/ delete /\ Forgotten(d, e, e.lReferenceCount - n)
            \/ ~ delete /\ Unused(d, e, e.lReferenceCount - n)
<1>0. PICK left \in Int : left = e.lReferenceCount - n
  BY DEF Entries
<1>1. \A b \in Dirs \ {d} : entry'[b] = entry[b]
  <2>1. PICK g : entry' = [entry EXCEPT ![d] = g]
    BY DEF Release2
  <2>. QED
    BY <2>1 DEF TypesFit
<1>2. CASE left > 1
  <2>1. PICK event \in Events : event = IF e.hEvent = "none" THEN "none" ELSE "set"
    BY DEF Entries, Events
  <2>2. entry' = [entry EXCEPT ![d] = [e EXCEPT !.lReferenceCount = left, !.hEvent = event]]
        /\ lpDirectoryList' = lpDirectoryList
    BY <1>0, <1>2, <2>1 DEF Release2, HandOver
  <2>3. entry'[d] = [e EXCEPT !.lReferenceCount = left, !.hEvent = event]
    BY <2>2 DEF TypesFit
  <2>4. Stays(entry'[d], e) /\ entry'[d].lReferenceCount = left /\ entry'[d].hEvent = event
    BY <2>3 DEF Entries, Events, Stays
  <2>. QED
    BY <1>0, <1>1, <1>2, <2>1, <2>2, <2>4 DEF HandedOver
<1>3. CASE ~ (left > 1) /\ delete
  <2>1. entry' = [entry EXCEPT ![d] = NoEntry] /\ lpDirectoryList' = lpDirectoryList
    BY <1>0, <1>3 DEF Release2
  <2>2. entry'[d] = NoEntry
    BY <2>1 DEF TypesFit
  <2>. QED
    BY <1>0, <1>1, <1>3, <2>1, <2>2 DEF Forgotten
<1>4. CASE ~ (left > 1) /\ ~ delete
  <2>1. /\ entry' = [entry EXCEPT ![d] = [e EXCEPT !.lReferenceCount = left, !.hEvent = "none"]]
        /\ lpDirectoryList' = IF e.bLocked THEN lpDirectoryList ELSE <<d>> \o lpDirectoryList
    BY <1>0, <1>4 DEF Release2, ListUnused
  <2>2. entry'[d] = [e EXCEPT !.lReferenceCount = left, !.hEvent = "none"]
    BY <2>1 DEF TypesFit
  <2>3. Stays(entry'[d], e) /\ entry'[d].lReferenceCount = left /\ entry'[d].hEvent = "none"
    BY <2>2 DEF Entries, Events, Stays
  <2>. QED
    BY <1>0, <1>1, <1>4, <2>1, <2>3 DEF Unused
<1>. QED
  BY <1>2, <1>3, <1>4

LEMMA ReleaseKept ==
  ASSUME TypesFit, NEW d \in Dirs, EntryKept(d), NEW c \in Holders(d), NEW delete \in BOOLEAN,
         delete => ~ entry[d].bLocked,
         Holders(d)' = Holders(d) \ {c}, Waiters(d)' = Waiters(d), NEW e, SameCounts(e, d),
         \/ HandedOver(d, e, e.lReferenceCount - 1)
         \/ delete /\ Forgotten(d, e, e.lReferenceCount - 1)
         \/ ~ delete /\ Unused(d, e, e.lReferenceCount - 1)
  PROVE  EntryKept(d)' /\ entry'[d].bLocked = entry[d].bLocked
<1>0. PICK left \in Int : left = entry[d].lReferenceCount - 1 /\ left = e.lReferenceCount - 1
  BY DEF SameCounts, TypesFit, Entries
<1>1. /\ Cardinality(Holders(d)) \in Nat /\ Cardinality(Waiters(d)) \in Nat
      /\ Cardinality(Waiters(d)) = 0 <=> Waiters(d) = {}
      /\ entry[d].cached /\ entry[d].lReferenceCount >= 2 /\ entry[d].lReferenceCount \in Int
      /\ ~ Listed(lpDirectoryList, d)
  BY EntryMeans DEF TypesFit, Entries
<1>2. /\ entry[d].lReferenceCount = 1 + Cardinality(Holders(d)) + Cardinality(Waiters(d))
      /\ Cardinality(Holders(d)) <= 1 /\ IsFiniteSet(Holders(d)) /\ IsFiniteSet(Waiters(d))
      /\ Once(lpDirectoryList, d)
  BY <1>1 DEF EntryKept
<1>3. IsFiniteSet(Holders(d) \ {c}) /\ Cardinality(Holders(d) \ {c}) = Cardinality(Holders(d)) - 1
  BY <1>2, FS_RemoveElement
<1>4. Cardinality(Holders(d) \ {c}) \in Nat /\ (Cardinality(Holders(d) \ {c}) = 0 <=> Holders(d) \ {c} = {})
  BY <1>3, FS_CardinalityType, FS_EmptySet
<1>5. Cardinality(Holders(d)) = 1 /\ Holders(d)' = {}
  BY <1>1, <1>2, <1>3, <1>4
<1>6. IsFiniteSet({}) /\ Cardinality({}) = 0
  BY FS_EmptySet
<1>7. CASE HandedOver(d, e, left)
  <2>0. /\ left > 1 /\ entry'[d].cached = entry[d].cached /\ entry'[d].lReferenceCount = left
        /\ entry'[d].hEvent = (IF entry[d].hEvent = "none" THEN "none" ELSE "set")
        /\ entry'[d].bLocked = entry[d].bLocked /\ lpDirectoryList' = lpDirectoryList
    BY <1>7 DEF HandedOver, Stays, SameCounts
  <2>1. Waiters(d) # {} /\ entry[d].hEvent # "none"
    BY <1>0, <1>1, <1>2, <1>5, <2>0 DEF EntryKept
  <2>a. Cardinality(Holders(d)') = 0 /\ Cardinality(Waiters(d)') = Cardinality(Waiters(d))
    BY <1>5, <1>6
  <2>b. entry[d].lReferenceCount = 2 + Cardinality(Waiters(d))
    BY <1>1, <1>2, <1>5
  <2>c. entry'[d].lReferenceCount = 1 + Cardinality(Waiters(d)) /\ entry'[d].lReferenceCount # 1
    BY <1>0, <1>1, <2>0, <2>b
  <2>2. /\ entry'[d].lReferenceCount = 1 + Cardinality(Holders(d)') + Cardinality(Waiters(d)')
        /\ entry'[d].lReferenceCount # 1
    BY <1>1, <2>a, <2>c
  <2>3. entry'[d].hEvent = "set" /\ entry'[d].cached /\ entry'[d].bLocked = entry[d].bLocked
        /\ lpDirectoryList' = lpDirectoryList
    BY <1>1, <2>0, <2>1
  <2>4. Once(lpDirectoryList', d) /\ ~ Listed(lpDirectoryList', d)
    BY <1>1, <1>2, <2>3
  <2>5a. IsFiniteSet(Holders(d)') /\ IsFiniteSet(Waiters(d)')
    BY <1>2, <1>5, <1>6
  <2>5. IsFiniteSet(Holders(d)') /\ IsFiniteSet(Waiters(d)') /\ Cardinality(Holders(d)') <= 1
        /\ Waiters(d)' # {}
    BY <2>a, <2>1, <2>5a
  <2>6. EntryKept(d)'
    BY <1>5, <2>2, <2>3, <2>4, <2>5 DEF EntryKept
  <2>. QED
    BY <2>3, <2>6
<1>8. ASSUME ~ (left > 1)
      PROVE  Waiters(d)' = {} /\ left = 1
  BY <1>0, <1>1, <1>2, <1>5, <1>8
<1>9. CASE delete /\ Forgotten(d, e, left)
  <2>1. /\ ~ entry'[d].cached /\ entry'[d].lReferenceCount = 0 /\ entry'[d].hEvent = "none" /\ ~ entry'[d].bLocked
        /\ lpDirectoryList' = lpDirectoryList
    BY <1>9, NoEntryIsEntry DEF Forgotten
  <2>2. Waiters(d)' = {}
    BY <1>8, <1>9 DEF Forgotten
  <2>2a. IsFiniteSet(Holders(d)') /\ IsFiniteSet(Waiters(d)') /\ Cardinality(Holders(d)') = 0
         /\ Cardinality(Waiters(d)') = 0
    BY <1>2, <1>5, <1>6, <2>2
  <2>2b. Once(lpDirectoryList', d) /\ ~ Listed(lpDirectoryList', d)
    BY <1>1, <1>2, <2>1
  <2>3. EntryKept(d)'
    BY <1>5, <2>1, <2>2, <2>2a, <2>2b DEF EntryKept
  <2>4. entry[d].bLocked \in BOOLEAN /\ entry'[d].bLocked = FALSE
    BY <1>9 DEF TypesFit, Entries, NoEntry, Forgotten
  <2>. QED
    BY <1>9, <2>3, <2>4
<1>10. CASE ~ delete /\ Unused(d, e, left)
  <2>0. /\ entry'[d].cached = entry[d].cached /\ entry'[d].lReferenceCount = left /\ ~ (left > 1)
        /\ entry'[d].hEvent = "none" /\ entry'[d].bLocked = entry[d].bLocked
        /\ lpDirectoryList' = IF entry[d].bLocked THEN lpDirectoryList ELSE <<d>> \o lpDirectoryList
    BY <1>10 DEF Unused, Stays, SameCounts
  <2>1. Waiters(d)' = {} /\ entry'[d].lReferenceCount = 1 /\ entry'[d].cached
    BY <1>1, <1>8, <2>0
  <2>2. Once(lpDirectoryList', d) /\ (Listed(lpDirectoryList', d) <=> ~ entry'[d].bLocked)
    BY <1>1, <1>2, <2>0, PrependMeans DEF TypesFit
  <2>3. IsFiniteSet(Holders(d)') /\ IsFiniteSet(Waiters(d)') /\ Cardinality(Holders(d)') = 0
        /\ Cardinality(Waiters(d)') = 0
    BY <1>2, <1>5, <1>6, <2>1
  <2>5. EntryKept(d)'
    BY <1>5, <2>0, <2>1, <2>2, <2>3 DEF EntryKept
  <2>. QED
    BY <2>0, <2>5
<1>11. HandedOver(d, e, left) \/ (delete /\ Forgotten(d, e, left)) \/ (~ delete /\ Unused(d, e, left))
  BY <1>0
<1>. QED
  BY <1>7, <1>9, <1>10, <1>11

LEMMA GiveKept ==
  ASSUME TypesFit, NEW d \in Dirs, EntryKept(d), NEW c \in Holders(d), NEW b,
         Holders(d)' = (Holders(d) \ {c}) \cup {b}, Waiters(d)' = Waiters(d), entry'[d] = entry[d],
         UNCHANGED lpDirectoryList
  PROVE  EntryKept(d)'
<1>1. /\ Cardinality(Holders(d)) \in Nat /\ Cardinality(Holders(d)) <= 1 /\ IsFiniteSet(Holders(d))
      /\ Cardinality(Holders(d)) = 0 <=> Holders(d) = {}
  BY EntryMeans DEF EntryKept
<1>2. IsFiniteSet(Holders(d) \ {c}) /\ Cardinality(Holders(d) \ {c}) = Cardinality(Holders(d)) - 1
  BY <1>1, FS_RemoveElement
<1>3. Cardinality(Holders(d) \ {c}) \in Nat /\ (Cardinality(Holders(d) \ {c}) = 0 <=> Holders(d) \ {c} = {})
  BY <1>2, FS_CardinalityType, FS_EmptySet
<1>4. Cardinality(Holders(d)) = 1 /\ Holders(d)' = {b}
  BY <1>1, <1>2, <1>3
<1>5. IsFiniteSet({b}) /\ Cardinality({b}) = 1
  BY FS_Singleton
<1>. QED
  BY <1>4, <1>5 DEF EntryKept

LEMMA UnlockKept ==
  ASSUME TypesFit, NEW d \in Dirs, EntryKept(d), entry[d].bLocked, NEW delete \in BOOLEAN,
         Holders(d)' = Holders(d), Waiters(d)' = Waiters(d), Holders(d) = {} \/ entry'[d].hEvent # "set",
         NEW e, e.cached = entry[d].cached, e.lReferenceCount = entry[d].lReferenceCount,
         e.hEvent = entry[d].hEvent, ~ e.bLocked,
         \/ HandedOver(d, e, e.lReferenceCount - 0)
         \/ delete /\ Forgotten(d, e, e.lReferenceCount - 0)
         \/ ~ delete /\ Unused(d, e, e.lReferenceCount - 0)
  PROVE  EntryKept(d)' /\ ~ entry'[d].bLocked
<1>0. PICK left \in Int : left = entry[d].lReferenceCount /\ left = e.lReferenceCount - 0
  BY DEF TypesFit, Entries
<1>1. /\ Cardinality(Holders(d)) \in Nat /\ Cardinality(Waiters(d)) \in Nat
      /\ Cardinality(Waiters(d)) = 0 <=> Waiters(d) = {}
      /\ Cardinality(Holders(d)) = 0 <=> Holders(d) = {}
      /\ entry[d].cached /\ left >= 1
      /\ ~ Listed(lpDirectoryList, d)
      /\ left = 1 => Holders(d) = {} /\ Waiters(d) = {}
  BY <1>0, EntryMeans DEF EntryKept
<1>2. /\ left = 1 + Cardinality(Holders(d)) + Cardinality(Waiters(d))
      /\ Once(lpDirectoryList, d)
  BY <1>0, <1>1 DEF EntryKept
<1>3. CASE HandedOver(d, e, left)
  <2>0. /\ entry'[d].cached = entry[d].cached /\ entry'[d].lReferenceCount = left /\ left > 1
        /\ entry'[d].hEvent = (IF entry[d].hEvent = "none" THEN "none" ELSE "set")
        /\ ~ entry'[d].bLocked /\ lpDirectoryList' = lpDirectoryList
    BY <1>3 DEF HandedOver, Stays
  <2>1. (Holders(d) = {} => Waiters(d) # {}) /\ left # 1
    BY <1>1, <1>2, <2>0
  <2>2. entry'[d].lReferenceCount = entry[d].lReferenceCount
    BY <1>0, <2>0
  <2>3. CASE Holders(d) = {}
    BY <1>1, <2>0, <2>1, <2>2, <2>3 DEF EntryKept
  <2>4. CASE Holders(d) # {}
    <3>1. entry[d].hEvent = "none" /\ Waiters(d) = {}
      BY <2>0, <2>4 DEF EntryKept
    <3>. QED
      BY <1>1, <2>0, <2>1, <2>2, <2>4, <3>1 DEF EntryKept
  <2>. QED
    BY <2>3, <2>4
<1>4. ASSUME ~ (left > 1)
      PROVE  left = 1 /\ Holders(d) = {} /\ Waiters(d) = {}
  BY <1>1, <1>4
<1>5. IsFiniteSet({}) /\ Cardinality({}) = 0
  BY FS_EmptySet
<1>6. CASE delete /\ Forgotten(d, e, left)
  <2>1. /\ ~ entry'[d].cached /\ entry'[d].lReferenceCount = 0 /\ entry'[d].hEvent = "none" /\ ~ entry'[d].bLocked
        /\ lpDirectoryList' = lpDirectoryList
    BY <1>6, NoEntryIsEntry DEF Forgotten
  <2>2. Holders(d)' = {} /\ Waiters(d)' = {}
    BY <1>4, <1>6 DEF Forgotten
  <2>. QED
    BY <1>1, <1>2, <1>5, <2>1, <2>2 DEF EntryKept
<1>7. CASE ~ delete /\ Unused(d, e, left)
  <2>0. /\ entry'[d].cached = entry[d].cached /\ entry'[d].lReferenceCount = left /\ ~ (left > 1)
        /\ entry'[d].hEvent = "none" /\ ~ entry'[d].bLocked /\ lpDirectoryList' = <<d>> \o lpDirectoryList
    BY <1>7 DEF Unused, Stays
  <2>1. Holders(d)' = {} /\ Waiters(d)' = {} /\ entry'[d].lReferenceCount = 1 /\ entry'[d].cached
    BY <1>1, <1>4, <2>0
  <2>2. Once(lpDirectoryList', d) /\ Listed(lpDirectoryList', d)
    BY <1>1, <1>2, <2>0, PrependMeans DEF TypesFit
  <2>. QED
    BY <1>5, <2>0, <2>1, <2>2 DEF EntryKept
<1>8. HandedOver(d, e, left) \/ (delete /\ Forgotten(d, e, left)) \/ (~ delete /\ Unused(d, e, left))
  BY <1>0
<1>. QED
  BY <1>3, <1>6, <1>7, <1>8

LEMMA QuietEntry ==
  ASSUME NEW d \in Dirs, EntryKept(d), Holders(d)' = Holders(d), Waiters(d)' = Waiters(d),
         SameCounts(entry'[d], d),
         Once(lpDirectoryList', d), Listed(lpDirectoryList', d) <=> Listed(lpDirectoryList, d)
  PROVE  EntryKept(d)'
BY DEF EntryKept, SameCounts

\* Whether the call a thread is in has a directory, waits for it, locked it.
LEMMA TopIsIn ==
  ASSUME TypesFit, NEW t \in DirThreads, stack[t] # <<>>, NEW d
  PROVE  /\ TopOf(t) \in Holders(d) <=> d \in Top(t).holds
         /\ TopOf(t) \in Waiters(d) <=> Top(t).on = d
         /\ TopOf(t) \in Lockers(d) <=> d \in Locks(Top(t))
         /\ TopOf(t) \in Testers(d) <=> d \in Tested(Top(t))
BY TopIsCall DEF Holders, Waiters, Lockers, Testers

LEMMA BecomeQuiet ==
  ASSUME TypesFit, NEW t \in DirThreads, stack[t] # <<>>, NEW f \in Frames, Become(t, f), NEW d \in Dirs,
         f.holds = Top(t).holds, f.on = Top(t).on, Locks(f) \subseteq Locks(Top(t)), Tested(f) \subseteq Tested(Top(t))
  PROVE  SameSets(d)
<1>1. /\ Holders(d)' = (Holders(d) \ {TopOf(t)}) \cup (IF d \in f.holds THEN {TopOf(t)} ELSE {})
      /\ Waiters(d)' = (Waiters(d) \ {TopOf(t)}) \cup (IF f.on = d THEN {TopOf(t)} ELSE {})
      /\ Lockers(d)' = (Lockers(d) \ {TopOf(t)}) \cup (IF d \in Locks(f) THEN {TopOf(t)} ELSE {})
      /\ Testers(d)' = (Testers(d) \ {TopOf(t)}) \cup (IF d \in Tested(f) THEN {TopOf(t)} ELSE {})
  BY BecomeSets
<1>2. /\ TopOf(t) \in Holders(d) <=> d \in Top(t).holds
      /\ TopOf(t) \in Waiters(d) <=> Top(t).on = d
      /\ TopOf(t) \in Lockers(d) <=> d \in Locks(Top(t))
      /\ TopOf(t) \in Testers(d) <=> d \in Tested(Top(t))
  BY TopIsIn
<1>3. Holders(d)' = Holders(d) /\ Waiters(d)' = Waiters(d)
  BY <1>1, <1>2
<1>4. Lockers(d)' \subseteq Lockers(d) /\ Testers(d)' \subseteq Testers(d)
  BY <1>1, <1>2
<1>. QED
  BY <1>3, <1>4 DEF SameSets

LEMMA EnterQuiet ==
  ASSUME TypesFit, NEW t \in DirThreads, stack[t] # <<>>, NEW g \in Frames, NEW f \in Frames, Enter(t, g, f),
         f.holds = {}, f.on = NoDir, Locks(f) = {}, Tested(f) = {},
         g.holds = Top(t).holds, g.on = Top(t).on, Locks(g) = Locks(Top(t)), Tested(g) = Tested(Top(t)),
         NEW d \in Dirs
  PROVE  SameSets(d)
BY EnterSets DEF SameSets

LEMMA ReturnQuiet ==
  ASSUME TypesFit, NEW t \in DirThreads, stack[t] # <<>>, Return(t), NEW d \in Dirs,
         Top(t).holds = {}, Top(t).on = NoDir
  PROVE  SameSets(d)
<1>1. TopOf(t) \notin Holders(d) /\ TopOf(t) \notin Waiters(d)
  BY TopIsIn, DirectoryAssumption
<1>2. /\ Holders(d)' = Holders(d) \ {TopOf(t)} /\ Waiters(d)' = Waiters(d) \ {TopOf(t)}
      /\ Lockers(d)' = Lockers(d) \ {TopOf(t)} /\ Testers(d)' = Testers(d) \ {TopOf(t)}
  BY ReturnSets
<1>. QED
  BY <1>1, <1>2 DEF SameSets

LEMMA ReturnToQuiet ==
  ASSUME TypesFit, CallsFit, NEW t \in DirThreads, stack[t] # <<>>, NEW ok \in BOOLEAN, ReturnTo(t, ok, {}),
         NEW d \in Dirs, Top(t).holds = {}, Top(t).on = NoDir
  PROVE  SameSets(d)
<1>1. TopOf(t) \notin Holders(d) /\ TopOf(t) \notin Waiters(d)
  BY TopIsIn, DirectoryAssumption
<1>2. {} \in SUBSET Dirs
  OBVIOUS
<1>3. /\ Holders(d)' = (Holders(d) \ {TopOf(t)})
                           \cup (IF d \in {} THEN {<<t, Len(stack[t]) - 1>>} \cap Calls ELSE {})
      /\ Waiters(d)' = Waiters(d) \ {TopOf(t)}
      /\ Lockers(d)' = Lockers(d) \ {TopOf(t)} /\ Testers(d)' = Testers(d) \ {TopOf(t)}
  BY <1>2, ReturnToSets
<1>. QED
  BY <1>1, <1>3 DEF SameSets

LEMMA StackQuiet ==
  ASSUME UNCHANGED stack, NEW d
  PROVE  SameSets(d)
<1>1. Calls' = Calls /\ \A c : CallAt(c)' = CallAt(c)
  BY DEF Calls, CallAt
<1>2. Holders(d)' = Holders(d) /\ Waiters(d)' = Waiters(d)
  BY <1>1 DEF Holders, Waiters
<1>3. Lockers(d)' = Lockers(d)
  BY <1>1 DEF Lockers, Locks
<1>4. Testers(d)' = Testers(d)
  BY <1>1 DEF Testers, Tested
<1>. QED
  BY <1>2, <1>3, <1>4 DEF SameSets

\* A directory is acquired.
LEMMA AcquireTable ==
  ASSUME TypesFit, NEW t \in DirThreads, stack[t] # <<>>, NEW b \in Dirs,
         NEW tab \in [Dirs -> Entries], NEW list \in Seq(Dirs), NEW then \in Later, Acquire(t, b, tab, list, then),
         Top(t).on = NoDir, b \notin Top(t).holds,
         Locks(Has(Top(t), b, then)) \subseteq Locks(Top(t)),
         Locks(WaitsFor(Top(t), b, then)) \subseteq Locks(Top(t)),
         NEW d \in Dirs, EntryKept(d), LockKept(d), SameCounts(tab[d], d), d = b => tab[b].cached,
         d \in Tested(Has(Top(t), b, then)) \cup Tested(WaitsFor(Top(t), b, then)) =>
           ~ entry[d].bLocked \/ d \in Tested(Top(t)),
         Once(list, d), Listed(list, d) <=> Listed(lpDirectoryList, d)
  PROVE  EntryKept(d)' /\ LockKept(d)'
<1> DEFINE f == IF tab[b].lReferenceCount = 1 THEN Has(Top(t), b, then) ELSE WaitsFor(Top(t), b, then)
<1>1. Top(t) \in Frames /\ f \in Frames /\ Become(t, f)
  BY TopIsCall, HasIsFrame, WaitsIsFrame DEF Acquire
<1>2. /\ f.holds = (IF tab[b].lReferenceCount = 1 THEN Top(t).holds \cup {b} ELSE Top(t).holds)
      /\ f.on = (IF tab[b].lReferenceCount = 1 THEN NoDir ELSE b)
      /\ Locks(f) \subseteq Locks(Top(t))
      /\ d \in Tested(f) => ~ entry[d].bLocked \/ d \in Tested(Top(t))
  <2>1. CASE tab[b].lReferenceCount = 1
    <3>1. f = Has(Top(t), b, then)
      BY <2>1
    <3>2. f.holds = Top(t).holds \cup {b} /\ f.on = NoDir
      BY <1>1, <3>1, HasIsFrame
    <3>. QED
      BY <2>1, <3>1, <3>2
  <2>2. CASE tab[b].lReferenceCount # 1
    <3>1. f = WaitsFor(Top(t), b, then)
      BY <2>2
    <3>2. f.holds = Top(t).holds /\ f.on = b
      BY <1>1, <3>1, WaitsIsFrame
    <3>. QED
      BY <2>2, <3>1, <3>2
  <2>. QED
    BY <2>1, <2>2
<1>3a. Acquired(b, tab)
  BY AcquireMeans
<1>3. /\ entry'[b].cached = tab[b].cached /\ entry'[b].lReferenceCount = tab[b].lReferenceCount + 1
      /\ entry'[b].bLocked = tab[b].bLocked
      /\ entry'[b].hEvent =
           IF tab[b].lReferenceCount = 2 /\ tab[b].hEvent = "none" THEN "reset" ELSE tab[b].hEvent
      /\ \A e \in Dirs \ {b} : entry'[e] = tab[e]
  BY <1>3a DEF Acquired, Stays
<1>4. lpDirectoryList' = IF tab[b].lReferenceCount = 1 /\ ~ tab[b].bLocked THEN Without(list, b) ELSE list
  BY DEF Acquire
<1> HIDE DEF f
<1>5. /\ Holders(d)' = (Holders(d) \ {TopOf(t)}) \cup (IF d \in f.holds THEN {TopOf(t)} ELSE {})
      /\ Waiters(d)' = (Waiters(d) \ {TopOf(t)}) \cup (IF f.on = d THEN {TopOf(t)} ELSE {})
      /\ Lockers(d)' = (Lockers(d) \ {TopOf(t)}) \cup (IF d \in Locks(f) THEN {TopOf(t)} ELSE {})
      /\ Testers(d)' = (Testers(d) \ {TopOf(t)}) \cup (IF d \in Tested(f) THEN {TopOf(t)} ELSE {})
  BY <1>1, BecomeSets
<1>6. /\ TopOf(t) \in Holders(d) <=> d \in Top(t).holds
      /\ TopOf(t) \notin Waiters(d)
      /\ TopOf(t) \in Lockers(d) <=> d \in Locks(Top(t))
      /\ TopOf(t) \in Testers(d) <=> d \in Tested(Top(t))
  BY TopIsIn, DirectoryAssumption
<1>7. Lockers(d)' \subseteq Lockers(d) /\ (Testers(d)' \subseteq Testers(d) \/ ~ entry[d].bLocked)
  BY <1>2, <1>5, <1>6
<1>8. entry'[d].bLocked = entry[d].bLocked
  BY <1>3 DEF SameCounts
<1>9. LockKept(d)'
  BY <1>7, <1>8, LockStays
<1>10. CASE d # b
  <2>1. Holders(d)' = Holders(d) /\ Waiters(d)' = Waiters(d)
    BY <1>2, <1>5, <1>6, <1>10, DirectoryAssumption
  <2>2. SameCounts(entry'[d], d)
    BY <1>3, <1>10 DEF SameCounts
  <2>3. Once(lpDirectoryList', d) /\ (Listed(lpDirectoryList', d) <=> Listed(lpDirectoryList, d))
    BY <1>4, <1>10, WithoutMeans
  <2>. QED
    BY <1>9, <2>1, <2>2, <2>3, QuietEntry
<1>11. CASE d = b /\ tab[b].lReferenceCount = 1
  <2>1. Holders(d)' = Holders(d) \cup {TopOf(t)} /\ Waiters(d)' = Waiters(d)
    BY <1>2, <1>5, <1>6, <1>11, DirectoryAssumption
  <2>2. /\ entry[d].lReferenceCount = 1
        /\ entry'[d].cached = entry[d].cached /\ entry'[d].lReferenceCount = 2
        /\ entry'[d].hEvent = entry[d].hEvent
    <3>1. entry[d].lReferenceCount = 1 /\ tab[b].hEvent = entry[d].hEvent /\ tab[b].cached = entry[d].cached
      BY <1>11 DEF SameCounts
    <3>2. entry'[d].lReferenceCount = 2
      BY <1>3, <1>11
    <3>2a. tab[b].lReferenceCount # 2
      BY <1>11
    <3>3. entry'[d].hEvent = tab[b].hEvent /\ entry'[d].cached = tab[b].cached
      BY <1>3, <1>11, <3>2a
    <3>. QED
      BY <3>1, <3>2, <3>3
  <2>3. Once(lpDirectoryList', d) /\ ~ Listed(lpDirectoryList', d)
    <3>1. CASE tab[b].bLocked
      <4>1. ~ Listed(lpDirectoryList, d)
        BY <1>11, <3>1 DEF EntryKept, SameCounts
      <4>. QED
        BY <1>4, <3>1, <4>1
    <3>2. CASE ~ tab[b].bLocked
      BY <1>4, <1>11, <3>2, WithoutMeans
    <3>. QED
      BY <3>1, <3>2
  <2>4. EntryKept(d)'
    BY <1>8, <2>1, <2>2, <2>3, FirstKept
  <2>. QED
    BY <1>9, <2>4
<1>12. CASE d = b /\ tab[b].lReferenceCount # 1
  <2>1. Holders(d)' = Holders(d) /\ Waiters(d)' = Waiters(d) \cup {TopOf(t)}
    BY <1>2, <1>5, <1>6, <1>12
  <2>2. /\ entry[d].lReferenceCount # 1 /\ entry[d].cached
        /\ entry'[d].cached = entry[d].cached /\ entry'[d].lReferenceCount = entry[d].lReferenceCount + 1
        /\ entry'[d].hEvent =
             IF entry[d].lReferenceCount = 2 /\ entry[d].hEvent = "none" THEN "reset" ELSE entry[d].hEvent
    BY <1>3, <1>12 DEF SameCounts
  <2>3. lpDirectoryList' = list
    BY <1>4, <1>12
  <2>4. EntryKept(d)'
    BY <1>6, <1>8, <2>1, <2>2, <2>3, QueueKept
  <2>. QED
    BY <1>9, <2>4
<1>. QED
  BY <1>10, <1>11, <1>12

\* A directory is looked for, after the longest unused has made room.
LEMMA InsertTable ==
  ASSUME TypesFit, NEW t \in DirThreads, stack[t] # <<>>, NEW b \in Dirs, NEW then \in Later,
         InsertAndAcquire(t, b, then), Top(t).on = NoDir, b \notin Top(t).holds,
         Locks(Has(Top(t), b, then)) \subseteq Locks(Top(t)),
         Locks(WaitsFor(Top(t), b, then)) \subseteq Locks(Top(t)),
         NEW d \in Dirs, EntryKept(d), LockKept(d),
         d \in Tested(Has(Top(t), b, then)) \cup Tested(WaitsFor(Top(t), b, then)) => ~ entry[d].bLocked
  PROVE  EntryKept(d)' /\ LockKept(d)'
<1> DEFINE list == Without(lpDirectoryList, Gone)
           f == Has(Top(t), b, then)
<1>1. /\ Gone \in Dirs => Listed(lpDirectoryList, Gone)
      /\ Left \in [Dirs -> Entries] /\ list \in Seq(Dirs)
      /\ \A e \in Dirs : Left[e] = IF e = Gone THEN NoEntry ELSE entry[e]
  BY GoneMeans
<1>2. Once(lpDirectoryList, d) /\ lpDirectoryList \in Seq(Dirs)
  BY DEF EntryKept, TypesFit
<1>3. /\ Once(list, d)
      /\ d # Gone => (Listed(list, d) <=> Listed(lpDirectoryList, d))
      /\ d = Gone => ~ Listed(list, d)
  BY <1>2, WithoutMeans
<1>4. d = Gone => entry[d].cached /\ entry[d].lReferenceCount = 1 /\ ~ entry[d].bLocked
                  /\ Holders(d) = {} /\ Waiters(d) = {} /\ Listed(lpDirectoryList, d)
  BY <1>1, EntryMeans
<1>5. /\ ~ NoEntry.cached /\ ~ NoEntry.bLocked /\ NewEntry.cached /\ ~ NewEntry.bLocked
      /\ entry[d] \in Entries /\ NoEntry \in Entries /\ NewEntry \in Entries
  BY NoEntryIsEntry DEF TypesFit
<1>6. /\ Top(t) \in Frames /\ f \in Frames /\ f.holds = Top(t).holds \cup {b} /\ f.on = NoDir
  BY TopIsCall, HasIsFrame
<1> HIDE DEF list, f
<1>7. CASE /\ ~ Left[b].cached
           /\ entry' = [Left EXCEPT ![b] = NewEntry] /\ lpDirectoryList' = list /\ Become(t, f)
  <2>1. /\ Holders(d)' = (Holders(d) \ {TopOf(t)}) \cup (IF d \in f.holds THEN {TopOf(t)} ELSE {})
        /\ Waiters(d)' = (Waiters(d) \ {TopOf(t)}) \cup (IF f.on = d THEN {TopOf(t)} ELSE {})
        /\ Lockers(d)' = (Lockers(d) \ {TopOf(t)}) \cup (IF d \in Locks(f) THEN {TopOf(t)} ELSE {})
        /\ Testers(d)' = (Testers(d) \ {TopOf(t)}) \cup (IF d \in Tested(f) THEN {TopOf(t)} ELSE {})
    BY <1>6, <1>7, BecomeSets
  <2>2. /\ TopOf(t) \in Holders(d) <=> d \in Top(t).holds
        /\ TopOf(t) \notin Waiters(d)
        /\ TopOf(t) \in Lockers(d) <=> d \in Locks(Top(t))
    BY TopIsIn, DirectoryAssumption
  <2>3. Lockers(d)' \subseteq Lockers(d) /\ (Testers(d)' \subseteq Testers(d) \/ ~ entry[d].bLocked)
    BY <2>1, <2>2 DEF f
  <2>4. Waiters(d)' = Waiters(d) /\ Holders(d)' = Holders(d) \cup (IF d = b THEN {TopOf(t)} ELSE {})
    BY <1>6, <2>1, <2>2, DirectoryAssumption
  <2>5. entry'[d] = IF d = b THEN NewEntry ELSE Left[d]
    BY <1>1, <1>7
  <2>6. CASE d = b
    <3>1. ~ entry[d].cached \/ d = Gone
      BY <1>1, <1>7, <2>6
    <3>2. ~ Listed(lpDirectoryList', d) /\ Once(lpDirectoryList', d)
      BY <1>3, <1>7, <3>1, EntryMeans
    <3>3. ~ entry[d].cached \/ Listed(lpDirectoryList, d)
      BY <1>4, <3>1
    <3>4. EntryKept(d)'
      BY <2>4, <2>5, <2>6, <3>2, <3>3, NewKept
    <3>5. entry'[d].bLocked = entry[d].bLocked
      <4>1. ~ entry[d].bLocked
        BY <1>4, <3>1, EntryMeans
      <4>2. entry[d].bLocked = FALSE /\ NewEntry.bLocked = FALSE
        BY <1>5, <4>1 DEF Entries
      <4>. QED
        BY <2>5, <2>6, <4>2
    <3>. QED
      BY <2>3, <3>4, <3>5, LockStays
  <2>7. CASE d # b /\ d = Gone
    <3>1. entry'[d] = NoEntry /\ Holders(d)' = Holders(d)
      BY <1>1, <2>4, <2>5, <2>7
    <3>2. EntryKept(d)'
      BY <1>3, <1>4, <1>7, <2>4, <2>7, <3>1, GoneKept
    <3>3. entry'[d].bLocked = entry[d].bLocked
      <4>1. entry[d].bLocked = FALSE /\ NoEntry.bLocked = FALSE
        BY <1>4, <1>5, <2>7 DEF Entries
      <4>. QED
        BY <3>1, <4>1
    <3>. QED
      BY <2>3, <3>2, <3>3, LockStays
  <2>8. CASE d # b /\ d # Gone
    <3>1. entry'[d] = entry[d] /\ Holders(d)' = Holders(d)
      BY <1>1, <2>4, <2>5, <2>8
    <3>2. EntryKept(d)'
      BY <1>3, <1>7, <2>4, <2>8, <3>1, QuietEntry DEF SameCounts
    <3>. QED
      BY <2>3, <3>1, <3>2, LockStays
  <2>. QED
    BY <2>6, <2>7, <2>8
<1>8. CASE Left[b].cached /\ Acquire(t, b, Left, list, then)
  <2>1. b # Gone
    BY <1>1, <1>5, <1>8
  <2>2. CASE d # Gone
    <3>1. SameCounts(Left[d], d)
      BY <1>1, <2>2 DEF SameCounts
    <3>. QED
      BY <1>1, <1>3, <1>8, <2>2, <3>1, AcquireTable
  <2>3. CASE d = Gone
    <3> DEFINE g == IF Left[b].lReferenceCount = 1 THEN f ELSE WaitsFor(Top(t), b, then)
    <3>1. g \in Frames /\ Become(t, g) /\ g.on # d /\ (d \in g.holds <=> d \in Top(t).holds)
          /\ Locks(g) \subseteq Locks(Top(t))
      BY <1>6, <1>8, <2>1, <2>3, WaitsIsFrame, DirectoryAssumption DEF Acquire, f
    <3> HIDE DEF g
    <3>2. /\ Holders(d)' = (Holders(d) \ {TopOf(t)}) \cup (IF d \in g.holds THEN {TopOf(t)} ELSE {})
          /\ Waiters(d)' = (Waiters(d) \ {TopOf(t)}) \cup (IF g.on = d THEN {TopOf(t)} ELSE {})
          /\ Lockers(d)' = (Lockers(d) \ {TopOf(t)}) \cup (IF d \in Locks(g) THEN {TopOf(t)} ELSE {})
      BY <3>1, BecomeSets
    <3>3. /\ TopOf(t) \in Holders(d) <=> d \in Top(t).holds
          /\ TopOf(t) \notin Waiters(d)
          /\ TopOf(t) \in Lockers(d) <=> d \in Locks(Top(t))
      BY TopIsIn, DirectoryAssumption
    <3>4. Holders(d)' = Holders(d) /\ Waiters(d)' = Waiters(d) /\ Lockers(d)' \subseteq Lockers(d)
      BY <3>1, <3>2, <3>3
    <3>5. \A e \in Dirs \ {b} : entry'[e] = Left[e]
      BY <1>1, <1>8, AcquireTypes
    <3>6. entry'[d] = NoEntry
      BY <1>1, <2>1, <2>3, <3>5
    <3>7. lpDirectoryList' = list \/ lpDirectoryList' = Without(list, b)
      BY <1>8 DEF Acquire
    <3>8. Once(lpDirectoryList', d) /\ ~ Listed(lpDirectoryList', d)
      BY <1>1, <1>3, <2>1, <2>3, <3>7, WithoutMeans
    <3>9. EntryKept(d)'
      BY <1>4, <2>3, <3>4, <3>6, <3>8, GoneKept
    <3>10. entry[d].bLocked = FALSE /\ NoEntry.bLocked = FALSE
      BY <1>4, <1>5, <2>3 DEF Entries
    <3>11. LockKept(d)'
      BY <3>4, <3>6, <3>10, LockStays
    <3>. QED
      BY <3>9, <3>11
  <2>. QED
    BY <2>2, <2>3
<1>. QED
  BY <1>7, <1>8, InsertMeans DEF list, f

\* Who has a directory releases it.
LEMMA ReleaseTable ==
  ASSUME TypesFit, NEW t \in DirThreads, NEW b \in Dirs, NEW e \in Entries, NEW delete \in BOOLEAN,
         Release2(b, e, 1, delete), SameCounts(e, b), delete => ~ e.bLocked,
         NEW c, NEW d \in Dirs, d = b => c \in Holders(d), EntryKept(d), LockKept(d),
         Holders(d)' = (IF d = b THEN Holders(d) \ {c} ELSE Holders(d)), Waiters(d)' = Waiters(d),
         Lockers(d)' \subseteq Lockers(d), Testers(d)' \subseteq Testers(d)
  PROVE  EntryKept(d)' /\ LockKept(d)'
<1>0. PICK n \in Int : n = 1
  OBVIOUS
<1>1. Release2(b, e, n, delete)
  BY <1>0
<1>2. /\ \A a \in Dirs \ {b} : entry'[a] = entry[a]
      /\ \/ HandedOver(b, e, e.lReferenceCount - n)
         \/ delete /\ Forgotten(b, e, e.lReferenceCount - n)
         \/ ~ delete /\ Unused(b, e, e.lReferenceCount - n)
  BY <1>1, ReleaseMeans
<1>3. CASE d # b
  <2>1. SameCounts(entry'[d], d)
    BY <1>2, <1>3 DEF SameCounts
  <2>2. lpDirectoryList' = lpDirectoryList \/ lpDirectoryList' = <<b>> \o lpDirectoryList
    BY <1>2 DEF HandedOver, Forgotten, Unused
  <2>3. Once(lpDirectoryList', d) /\ (Listed(lpDirectoryList', d) <=> Listed(lpDirectoryList, d))
    <3>1. Once(lpDirectoryList, d) /\ lpDirectoryList \in Seq(Dirs)
      BY DEF EntryKept, TypesFit
    <3>2. /\ Once(<<b>> \o lpDirectoryList, d) <=> Once(lpDirectoryList, d)
          /\ Listed(<<b>> \o lpDirectoryList, d) <=> Listed(lpDirectoryList, d)
      BY <1>3, <3>1, PrependMeans
    <3>. QED
      BY <2>2, <3>1, <3>2
  <2>4. Holders(d)' = Holders(d)
    BY <1>3
  <2>5. EntryKept(d)'
    BY <2>1, <2>3, <2>4, QuietEntry
  <2>6. LockKept(d)'
    BY <2>1, LockStays DEF SameCounts
  <2>. QED
    BY <2>5, <2>6
<1>4. CASE d = b
  <2>1. c \in Holders(d) /\ Holders(d)' = Holders(d) \ {c} /\ (delete => ~ entry[d].bLocked)
    BY <1>4 DEF SameCounts
  <2>2. \/ HandedOver(d, e, e.lReferenceCount - 1)
        \/ delete /\ Forgotten(d, e, e.lReferenceCount - 1)
        \/ ~ delete /\ Unused(d, e, e.lReferenceCount - 1)
    BY <1>0, <1>2, <1>4
  <2>3. SameCounts(e, d)
    BY <1>4
  <2>4. EntryKept(d)' /\ entry'[d].bLocked = entry[d].bLocked
    BY <2>1, <2>2, <2>3, ReleaseKept
  <2>. QED
    BY <2>4, LockStays
<1>. QED
  BY <1>3, <1>4

-------------------------------------------------------------------------------
(* Every step keeps the table.                                             *)
LEMMA BecomeIsFrame ==
  ASSUME TypesFit, TypesFit', NEW t \in DirThreads, stack[t] # <<>>, NEW f, Become(t, f)
  PROVE  f \in Frames
<1>1. stack[t] \in Seq(Frames) /\ Len(stack[t]) \in Nat \ {0} /\ stack'[t] \in Seq(Frames)
  BY TopIsCall DEF TypesFit
<1>2. Front(stack[t]) \in Seq(Frames)
  BY <1>1 DEF Front
<1>3. stack'[t] = Append(Front(stack[t]), f)
  BY DEF Become, TypesFit
<1> DEFINE s == Front(stack[t])
<1>4. Len(s) \in Nat /\ Append(s, f) \in Seq(Frames) /\ Append(s, f)[Len(s) + 1] = f /\ Len(Append(s, f)) = Len(s) + 1
  BY <1>1, <1>2, <1>3
<1> HIDE DEF s
<1>. QED
  BY <1>4

LEMMA StillQuiet ==
  ASSUME TypesFit, TypesFit', NEW t \in DirThreads, stack[t] # <<>>, NEW f, Become(t, f), NEW d \in Dirs,
         Top(t).op # "move", f.op = Top(t).op, f.holds = Top(t).holds, f.on = Top(t).on
  PROVE  SameSets(d)
<1>1. f \in Frames
  BY BecomeIsFrame
<1>2. Locks(f) = {} /\ Tested(f) = {}
  BY DEF Locks, Tested
<1>. QED
  BY <1>1, <1>2, BecomeQuiet

\* How the steps of a call change what it is at.
LEMMA ChangeKeeps ==
  ASSUME NEW f \in Frames, NEW a, NEW b, NEW c, NEW e
  PROVE  /\ [f EXCEPT !.at = a, !.check = b].op = f.op /\ [f EXCEPT !.at = a, !.check = b].holds = f.holds
         /\ [f EXCEPT !.at = a, !.check = b].on = f.on /\ [f EXCEPT !.at = a, !.check = b].dir = f.dir
         /\ [f EXCEPT !.at = a, !.missing = b, !.failed = c].op = f.op
         /\ [f EXCEPT !.at = a, !.missing = b, !.failed = c].holds = f.holds
         /\ [f EXCEPT !.at = a, !.missing = b, !.failed = c].on = f.on
         /\ [f EXCEPT !.at = a].op = f.op /\ [f EXCEPT !.at = a].holds = f.holds /\ [f EXCEPT !.at = a].on = f.on
         /\ [f EXCEPT !.at = a, !.seen = b].op = f.op /\ [f EXCEPT !.at = a, !.seen = b].holds = f.holds
         /\ [f EXCEPT !.at = a, !.seen = b].on = f.on
         /\ [f EXCEPT !.at = a, !.failed = b].op = f.op /\ [f EXCEPT !.at = a, !.failed = b].holds = f.holds
         /\ [f EXCEPT !.at = a, !.failed = b].on = f.on
         /\ [f EXCEPT !.at = a, !.todo = b, !.list = c].op = f.op
         /\ [f EXCEPT !.at = a, !.todo = b, !.list = c].holds = f.holds
         /\ [f EXCEPT !.at = a, !.todo = b, !.list = c].on = f.on
BY DEF Frames

LEMMA AcquireDirectoryTable ==
  ASSUME TypesFit, CallsFit, NEW t \in DirThreads, AcquireDirectory(t), NEW d \in Dirs, EntryKept(d), LockKept(d)
  PROVE  EntryKept(d)' /\ LockKept(d)'
<1>1. stack[t] # <<>> /\ Top(t).op = "open" /\ Top(t).at = "acquire" /\ InsertAndAcquire(t, Top(t).dir, "opened")
  BY DEF AcquireDirectory, In
<1>2. Top(t) \in Frames /\ Top(t).dir \in Dirs /\ "opened" \in Later
  BY <1>1, TopIsCall DEF Frames, Later
<1>3. Top(t).on = NoDir /\ Top(t).holds = {}
  BY <1>1, TopFits DEF Fits, OpenFits
<1>4. Has(Top(t), Top(t).dir, "opened").op = "open" /\ WaitsFor(Top(t), Top(t).dir, "opened").op = "open"
  BY <1>1, <1>2, HasIsFrame, WaitsIsFrame
<1>5. /\ Locks(Has(Top(t), Top(t).dir, "opened")) = {} /\ Locks(WaitsFor(Top(t), Top(t).dir, "opened")) = {}
      /\ Tested(Has(Top(t), Top(t).dir, "opened")) = {} /\ Tested(WaitsFor(Top(t), Top(t).dir, "opened")) = {}
  BY <1>4 DEF Locks, Tested
<1>. QED
  BY <1>1, <1>2, <1>3, <1>5, InsertTable

LEMMA ExchangeTable ==
  ASSUME TypesFit, TypesFit', NEW t \in DirThreads, Exchange(t), NEW d \in Dirs, EntryKept(d), LockKept(d)
  PROVE  EntryKept(d)' /\ LockKept(d)'
<1>1. stack[t] # <<>> /\ Top(t).op = "open"
  BY DEF Exchange, In
<1>2. Top(t) \in Frames /\ Top(t).dir \in Dirs
  BY <1>1, TopIsCall DEF Frames
<1>3. PICK at, check : Become(t, [Top(t) EXCEPT !.at = at, !.check = check])
  BY DEF Exchange
<1>4. SameSets(d)
  <2> DEFINE f == [Top(t) EXCEPT !.at = at, !.check = check]
  <2>1. f.op = Top(t).op /\ f.holds = Top(t).holds /\ f.on = Top(t).on
    BY <1>2, ChangeKeeps
  <2>2. Become(t, f)
    BY <1>3
  <2> HIDE DEF f
  <2>. QED
    BY <1>1, <2>1, <2>2, StillQuiet
<1>5. SameCounts(entry'[d], d)
  BY <1>2 DEF Exchange, SameCounts, TypesFit, Entries
<1>6. lpDirectoryList' = lpDirectoryList
  BY DEF Exchange
<1>. QED
  BY <1>4, <1>5, <1>6, QuietTable DEF EntryKept

LEMMA LookAtDiskTable ==
  ASSUME TypesFit, TypesFit', NEW t \in DirThreads, LookAtDisk(t), NEW d \in Dirs, EntryKept(d), LockKept(d)
  PROVE  EntryKept(d)' /\ LockKept(d)'
<1>1. stack[t] # <<>> /\ Top(t).op = "open" /\ entry' = entry /\ lpDirectoryList' = lpDirectoryList
  BY DEF LookAtDisk, In, cache
<1>2. Top(t) \in Frames
  BY <1>1, TopIsCall
<1>3. \/ \E at, a, b : Become(t, [Top(t) EXCEPT !.at = at, !.missing = a, !.failed = b])
      \/ \E at : Become(t, [Top(t) EXCEPT !.at = at])
      \/ \E at, a : Become(t, [Top(t) EXCEPT !.at = at, !.seen = a])
  BY DEF LookAtDisk
<1>4. SameSets(d)
  <2>1. CASE \E at, a, b : Become(t, [Top(t) EXCEPT !.at = at, !.missing = a, !.failed = b])
    <3>1. PICK at, a, b : Become(t, [Top(t) EXCEPT !.at = at, !.missing = a, !.failed = b])
      BY <2>1
    <3> DEFINE f == [Top(t) EXCEPT !.at = at, !.missing = a, !.failed = b]
    <3>2. f.op = Top(t).op /\ f.holds = Top(t).holds /\ f.on = Top(t).on
      BY <1>2, ChangeKeeps
    <3>3. Become(t, f)
      BY <3>1
    <3> HIDE DEF f
    <3>. QED
      BY <1>1, <3>2, <3>3, StillQuiet
  <2>2. CASE \E at : Become(t, [Top(t) EXCEPT !.at = at])
    <3>1. PICK at : Become(t, [Top(t) EXCEPT !.at = at])
      BY <2>2
    <3> DEFINE f == [Top(t) EXCEPT !.at = at]
    <3>2. f.op = Top(t).op /\ f.holds = Top(t).holds /\ f.on = Top(t).on
      BY <1>2, ChangeKeeps
    <3>3. Become(t, f)
      BY <3>1
    <3> HIDE DEF f
    <3>. QED
      BY <1>1, <3>2, <3>3, StillQuiet
  <2>3. CASE \E at, a : Become(t, [Top(t) EXCEPT !.at = at, !.seen = a])
    <3>1. PICK at, a : Become(t, [Top(t) EXCEPT !.at = at, !.seen = a])
      BY <2>3
    <3> DEFINE f == [Top(t) EXCEPT !.at = at, !.seen = a]
    <3>2. f.op = Top(t).op /\ f.holds = Top(t).holds /\ f.on = Top(t).on
      BY <1>2, ChangeKeeps
    <3>3. Become(t, f)
      BY <3>1
    <3> HIDE DEF f
    <3>. QED
      BY <1>1, <3>2, <3>3, StillQuiet
  <2>. QED
    BY <1>3, <2>1, <2>2, <2>3
<1>5. SameCounts(entry'[d], d)
  BY <1>1 DEF SameCounts
<1>. QED
  BY <1>1, <1>4, <1>5, QuietTable DEF EntryKept

LEMMA ListDirectoryTable ==
  ASSUME TypesFit, TypesFit', NEW t \in DirThreads, ListDirectory(t), NEW d \in Dirs, EntryKept(d), LockKept(d)
  PROVE  EntryKept(d)' /\ LockKept(d)'
<1>1. stack[t] # <<>> /\ Top(t).op = "open" /\ lpDirectoryList' = lpDirectoryList
  BY DEF ListDirectory, In
<1>2. Top(t) \in Frames /\ Top(t).dir \in Dirs
  BY <1>1, TopIsCall DEF Frames
<1>3. \/ \E at, a : Become(t, [Top(t) EXCEPT !.at = at, !.failed = a])
      \/ \E at, a, b : Become(t, [Top(t) EXCEPT !.at = at, !.todo = a, !.list = b])
  BY DEF ListDirectory
<1>4. SameSets(d)
  <2>1. CASE \E at, a : Become(t, [Top(t) EXCEPT !.at = at, !.failed = a])
    <3>1. PICK at, a : Become(t, [Top(t) EXCEPT !.at = at, !.failed = a])
      BY <2>1
    <3> DEFINE f == [Top(t) EXCEPT !.at = at, !.failed = a]
    <3>2. f.op = Top(t).op /\ f.holds = Top(t).holds /\ f.on = Top(t).on
      BY <1>2, ChangeKeeps
    <3>3. Become(t, f)
      BY <3>1
    <3> HIDE DEF f
    <3>. QED
      BY <1>1, <3>2, <3>3, StillQuiet
  <2>2. CASE \E at, a, b : Become(t, [Top(t) EXCEPT !.at = at, !.todo = a, !.list = b])
    <3>1. PICK at, a, b : Become(t, [Top(t) EXCEPT !.at = at, !.todo = a, !.list = b])
      BY <2>2
    <3> DEFINE f == [Top(t) EXCEPT !.at = at, !.todo = a, !.list = b]
    <3>2. f.op = Top(t).op /\ f.holds = Top(t).holds /\ f.on = Top(t).on
      BY <1>2, ChangeKeeps
    <3>3. Become(t, f)
      BY <3>1
    <3> HIDE DEF f
    <3>. QED
      BY <1>1, <3>2, <3>3, StillQuiet
  <2>. QED
    BY <1>3, <2>1, <2>2
<1>5. \/ entry' = [entry EXCEPT ![Top(t).dir].info = NoInfo]
      \/ \E again \in BOOLEAN : entry' = [entry EXCEPT ![Top(t).dir].lForceUpdate = @ \/ again]
  BY DEF ListDirectory
<1>6. SameCounts(entry'[d], d)
  <2>1. CASE entry' = [entry EXCEPT ![Top(t).dir].info = NoInfo]
    BY <1>2, <2>1 DEF SameCounts, TypesFit, Entries
  <2>2. ASSUME NEW again \in BOOLEAN, entry' = [entry EXCEPT ![Top(t).dir].lForceUpdate = @ \/ again]
        PROVE  SameCounts(entry'[d], d)
    BY <1>2, <2>2 DEF SameCounts, TypesFit, Entries
  <2>. QED
    BY <1>5, <2>1, <2>2
<1>. QED
  BY <1>1, <1>4, <1>6, QuietTable DEF EntryKept

LEMMA OpenBelowTable ==
  ASSUME TypesFit, CallsFit, NEW t \in DirThreads, OpenBelow(t), NEW d \in Dirs, EntryKept(d), LockKept(d)
  PROVE  EntryKept(d)' /\ LockKept(d)'
<1>1. stack[t] # <<>> /\ Top(t).op = "open" /\ Top(t).at = "below" /\ entry' = entry /\ lpDirectoryList' = lpDirectoryList
  BY DEF OpenBelow, In, cache
<1>2. Top(t) \in Frames /\ Top(t).todo \subseteq Dirs
  BY <1>1, TopIsCall, TopFits DEF Fits, OpenFits
<1>3. PICK c \in Top(t).todo : Enter(t, [Top(t) EXCEPT !.todo = @ \ {c}], Open(c, FALSE, FALSE))
  BY DEF OpenBelow
<1> DEFINE g == [Top(t) EXCEPT !.todo = @ \ {c}]
<1>4. g \in Frames /\ g.op = Top(t).op /\ g.holds = Top(t).holds /\ g.on = Top(t).on
  BY <1>2 DEF Frames
<1>5. PICK no \in BOOLEAN : no = FALSE
  OBVIOUS
<1>6. /\ Open(c, no, no) \in Frames /\ Open(c, no, no).on = NoDir /\ Open(c, no, no).holds = {}
      /\ Locks(Open(c, no, no)) = {} /\ Tested(Open(c, no, no)) = {}
  BY <1>2, <1>3, OpenIsFrame
<1> HIDE DEF g
<1>7. Enter(t, g, Open(c, no, no))
  BY <1>3, <1>5 DEF g
<1>8. Locks(g) = {} /\ Tested(g) = {} /\ Locks(Top(t)) = {} /\ Tested(Top(t)) = {}
  BY <1>1, <1>4 DEF Locks, Tested
<1>9. SameSets(d)
  BY <1>1, <1>4, <1>6, <1>7, <1>8, EnterQuiet
<1>10. SameCounts(entry'[d], d)
  BY <1>1 DEF SameCounts
<1>. QED
  BY <1>1, <1>9, <1>10, QuietTable DEF EntryKept

LEMMA ReadPermissionsTable ==
  ASSUME TypesFit, TypesFit', NEW t \in DirThreads, ReadPermissions(t), NEW d \in Dirs, EntryKept(d), LockKept(d)
  PROVE  EntryKept(d)' /\ LockKept(d)'
<1>1. stack[t] # <<>> /\ Top(t).op = "open" /\ lpDirectoryList' = lpDirectoryList
  BY DEF ReadPermissions, In
<1>2. Top(t) \in Frames /\ Top(t).dir \in Dirs
  BY <1>1, TopIsCall DEF Frames
<1>3. \E at, a : Become(t, [Top(t) EXCEPT !.at = at, !.failed = a])
  BY DEF ReadPermissions
<1>4. SameSets(d)
  <2>1. CASE \E at, a : Become(t, [Top(t) EXCEPT !.at = at, !.failed = a])
    <3>1. PICK at, a : Become(t, [Top(t) EXCEPT !.at = at, !.failed = a])
      BY <2>1
    <3> DEFINE f == [Top(t) EXCEPT !.at = at, !.failed = a]
    <3>2. f.op = Top(t).op /\ f.holds = Top(t).holds /\ f.on = Top(t).on
      BY <1>2, ChangeKeeps
    <3>3. Become(t, f)
      BY <3>1
    <3> HIDE DEF f
    <3>. QED
      BY <1>1, <3>2, <3>3, StillQuiet
  <2>. QED
    BY <1>3, <2>1
<1>5. \/ \E i, n : entry' = [entry EXCEPT ![Top(t).dir].info = i, ![Top(t).dir].ftCacheTime = n]
      \/ \E i : entry' = [entry EXCEPT ![Top(t).dir].info = i]
  BY DEF ReadPermissions
<1>6. SameCounts(entry'[d], d)
  <2>1. ASSUME NEW i, NEW n, entry' = [entry EXCEPT ![Top(t).dir].info = i, ![Top(t).dir].ftCacheTime = n]
        PROVE  SameCounts(entry'[d], d)
    BY <1>2, <2>1 DEF SameCounts, TypesFit, Entries
  <2>2. ASSUME NEW i, entry' = [entry EXCEPT ![Top(t).dir].info = i]
        PROVE  SameCounts(entry'[d], d)
    BY <1>2, <2>2 DEF SameCounts, TypesFit, Entries
  <2>. QED
    BY <1>5, <2>1, <2>2
<1>. QED
  BY <1>1, <1>4, <1>6, QuietTable DEF EntryKept

LEMMA ReturnReleaseTable ==
  ASSUME TypesFit, CallsFit, NEW t \in DirThreads, stack[t] # <<>>, NEW ok \in BOOLEAN, ReturnTo(t, ok, {}),
         NEW b \in Dirs, Top(t).holds = {b}, Top(t).on = NoDir, NEW e \in Entries, SameCounts(e, b),
         NEW delete \in BOOLEAN, Release2(b, e, 1, delete), delete => ~ e.bLocked,
         NEW d \in Dirs, EntryKept(d), LockKept(d)
  PROVE  EntryKept(d)' /\ LockKept(d)'
<1>1. {} \in SUBSET Dirs
  OBVIOUS
<1>2. /\ Holders(d)' = (Holders(d) \ {TopOf(t)})
                           \cup (IF d \in {} THEN {<<t, Len(stack[t]) - 1>>} \cap Calls ELSE {})
      /\ Waiters(d)' = Waiters(d) \ {TopOf(t)}
      /\ Lockers(d)' = Lockers(d) \ {TopOf(t)} /\ Testers(d)' = Testers(d) \ {TopOf(t)}
  BY <1>1, ReturnToSets
<1>3. (TopOf(t) \in Holders(d) <=> d = b) /\ TopOf(t) \notin Waiters(d)
  BY TopIsIn, DirectoryAssumption
<1>4. /\ Holders(d)' = (IF d = b THEN Holders(d) \ {TopOf(t)} ELSE Holders(d)) /\ Waiters(d)' = Waiters(d)
      /\ Lockers(d)' \subseteq Lockers(d) /\ Testers(d)' \subseteq Testers(d)
  BY <1>2, <1>3
<1>5. d = b => TopOf(t) \in Holders(d)
  BY <1>3
<1>. QED
  BY <1>4, <1>5, ReleaseTable

LEMMA BecomeReleaseTable ==
  ASSUME TypesFit, NEW t \in DirThreads, stack[t] # <<>>, NEW f \in Frames, Become(t, f),
         NEW b \in Dirs, b \in Top(t).holds, f.holds = Top(t).holds \ {b}, Top(t).on = NoDir, f.on = NoDir,
         Locks(f) \subseteq Locks(Top(t)), Tested(f) \subseteq Tested(Top(t)),
         NEW e \in Entries, SameCounts(e, b),
         NEW delete \in BOOLEAN, Release2(b, e, 1, delete), delete => ~ e.bLocked,
         NEW d \in Dirs, EntryKept(d), LockKept(d)
  PROVE  EntryKept(d)' /\ LockKept(d)'
<1>1. /\ Holders(d)' = (Holders(d) \ {TopOf(t)}) \cup (IF d \in f.holds THEN {TopOf(t)} ELSE {})
      /\ Waiters(d)' = (Waiters(d) \ {TopOf(t)}) \cup (IF f.on = d THEN {TopOf(t)} ELSE {})
      /\ Lockers(d)' = (Lockers(d) \ {TopOf(t)}) \cup (IF d \in Locks(f) THEN {TopOf(t)} ELSE {})
      /\ Testers(d)' = (Testers(d) \ {TopOf(t)}) \cup (IF d \in Tested(f) THEN {TopOf(t)} ELSE {})
  BY BecomeSets
<1>2. /\ TopOf(t) \in Holders(d) <=> d \in Top(t).holds
      /\ TopOf(t) \notin Waiters(d)
      /\ TopOf(t) \in Lockers(d) <=> d \in Locks(Top(t))
      /\ TopOf(t) \in Testers(d) <=> d \in Tested(Top(t))
  BY TopIsIn, DirectoryAssumption
<1>3. Holders(d)' = (IF d = b THEN Holders(d) \ {TopOf(t)} ELSE Holders(d)) /\ Waiters(d)' = Waiters(d)
  BY <1>1, <1>2, DirectoryAssumption
<1>4. Lockers(d)' \subseteq Lockers(d) /\ Testers(d)' \subseteq Testers(d)
  BY <1>1, <1>2
<1>5. d = b => TopOf(t) \in Holders(d)
  BY <1>2
<1>. QED
  BY <1>3, <1>4, <1>5, ReleaseTable

LEMMA WakeTable ==
  ASSUME TypesFit, TypesFit', CallsFit, NEW t \in DirThreads, Wake(t), NEW d \in Dirs, EntryKept(d), LockKept(d)
  PROVE  EntryKept(d)' /\ LockKept(d)'
<1> DEFINE f == Top(t)
           g == [f EXCEPT !.at = f.then, !.then = "", !.on = NoDir,
                          !.check = entry[f.on].lForceUpdate, !.holds = @ \cup {f.on}]
<1>1. stack[t] # <<>> /\ f.at = "wait" /\ Become(t, g) /\ entry' = [entry EXCEPT ![f.on].hEvent = "reset"]
      /\ entry[f.on].hEvent = "set" /\ UNCHANGED lpDirectoryList
  BY DEF Wake
<1>2. f \in Frames /\ Fits(f) /\ g \in Frames
  BY <1>1, TopIsCall, TopFits, BecomeIsFrame
<1>3. g.op = f.op /\ g.at = f.then /\ g.on = NoDir /\ g.dir = f.dir /\ g.x = f.x /\ g.holds = f.holds \cup {f.on}
  BY <1>2 DEF Frames
<1>4. f.op = "move" => /\ f.then \in {"source", "target", "restored"} /\ f.dir # f.x
                       /\ \/ f.on = f.dir /\ f.holds = {}
                          \/ f.on = f.x /\ f.holds = {f.dir}
  <2> HIDE DEF f
  <2>. QED
    BY <1>1, <1>2 DEF Fits, MoveFits
<1>5. Locks(g) = Locks(f) /\ Tested(g) = Tested(f)
  <2> HIDE DEF f, g
  <2>. QED
    BY <1>1, <1>3, <1>4 DEF Locks, Tested
<1> HIDE DEF g
<1>6. /\ Holders(d)' = (Holders(d) \ {TopOf(t)}) \cup (IF d \in g.holds THEN {TopOf(t)} ELSE {})
      /\ Waiters(d)' = (Waiters(d) \ {TopOf(t)}) \cup (IF g.on = d THEN {TopOf(t)} ELSE {})
      /\ Lockers(d)' = (Lockers(d) \ {TopOf(t)}) \cup (IF d \in Locks(g) THEN {TopOf(t)} ELSE {})
      /\ Testers(d)' = (Testers(d) \ {TopOf(t)}) \cup (IF d \in Tested(g) THEN {TopOf(t)} ELSE {})
  BY <1>1, <1>2, BecomeSets
<1>7. /\ TopOf(t) \in Holders(d) <=> d \in Top(t).holds
      /\ TopOf(t) \in Waiters(d) <=> Top(t).on = d
      /\ TopOf(t) \in Lockers(d) <=> d \in Locks(Top(t))
      /\ TopOf(t) \in Testers(d) <=> d \in Tested(Top(t))
  BY <1>1, TopIsIn
<1>8. Lockers(d)' \subseteq Lockers(d) /\ Testers(d)' \subseteq Testers(d)
  BY <1>5, <1>6, <1>7
<1>9. CASE d = f.on
  <2>1. TopOf(t) \in Waiters(d) /\ Holders(d)' = Holders(d) \cup {TopOf(t)} /\ Waiters(d)' = Waiters(d) \ {TopOf(t)}
    BY <1>3, <1>6, <1>7, <1>9, DirectoryAssumption
  <2>2. /\ entry'[d].cached = entry[d].cached /\ entry'[d].lReferenceCount = entry[d].lReferenceCount
        /\ entry'[d].hEvent = "reset" /\ entry'[d].bLocked = entry[d].bLocked
    BY <1>1, <1>9 DEF TypesFit, Entries
  <2>3. EntryKept(d)'
    BY <1>1, <1>9, <2>1, <2>2, WakeKept
  <2>. QED
    BY <1>8, <2>2, <2>3, LockStays
<1>10. CASE d # f.on
  <2>1. Holders(d)' = Holders(d) /\ Waiters(d)' = Waiters(d)
    BY <1>3, <1>6, <1>7, <1>10, DirectoryAssumption
  <2>2. SameSets(d)
    BY <1>8, <2>1 DEF SameSets
  <2>3. SameCounts(entry'[d], d)
    BY <1>1, <1>10 DEF SameCounts, TypesFit
  <2>. QED
    BY <1>1, <2>2, <2>3, QuietTable DEF EntryKept
<1>. QED
  BY <1>9, <1>10

LEMMA FinishOpenTable ==
  ASSUME TypesFit, CallsFit, NEW t \in DirThreads, FinishOpen(t), NEW d \in Dirs, EntryKept(d), LockKept(d)
  PROVE  EntryKept(d)' /\ LockKept(d)'
<1> DEFINE b == Top(t).dir
<1>1. stack[t] # <<>> /\ Top(t).op = "open" /\ Top(t).at = "finish"
  BY DEF FinishOpen, In
<1>2. Top(t) \in Frames /\ Fits(Top(t)) /\ b \in Dirs
  BY <1>1, TopIsCall, TopFits DEF Frames
<1>3. Top(t).holds = {b} /\ Top(t).on = NoDir /\ entry[b] \in Entries /\ SameCounts(entry[b], b)
  BY <1>1, <1>2 DEF Fits, OpenFits, TypesFit, SameCounts
<1>4. CASE Succeeds(t) /\ Top(t).keep
  <2>1. PICK ok \in BOOLEAN : ok = TRUE
    OBVIOUS
  <2>2. ReturnTo(t, ok, {b}) /\ UNCHANGED <<entry, lpDirectoryList>>
    BY <1>4, <2>1 DEF FinishOpen, cache
  <2>3. /\ Holders(d)' = (Holders(d) \ {TopOf(t)})
                             \cup (IF d \in {b} THEN {<<t, Len(stack[t]) - 1>>} \cap Calls ELSE {})
        /\ Waiters(d)' = Waiters(d) \ {TopOf(t)}
        /\ Lockers(d)' = Lockers(d) \ {TopOf(t)} /\ Testers(d)' = Testers(d) \ {TopOf(t)}
    <3>1. {b} \in SUBSET Dirs
      BY <1>2
    <3>. QED
      BY <1>1, <2>2, <3>1, ReturnToSets
  <2>4. <<t, Len(stack[t]) - 1>> \in Calls
    <3>1. Len(stack[t]) \in Nat \ {0} /\ Top(t) = stack[t][Len(stack[t])] /\ ~ stack[t][1].keep
      BY <1>1, TopIsCall DEF CallsFit, StackFits
    <3>2. Len(stack[t]) # 1
      BY <1>4, <3>1
    <3>2a. \A n \in Nat \ {0} : n # 1 => n - 1 \in 1..n
      OBVIOUS
    <3>3. Len(stack[t]) - 1 \in 1..Len(stack[t])
      BY <3>1, <3>2, <3>2a
    <3>. QED
      BY <3>3, IsCall
  <2>5. (TopOf(t) \in Holders(d) <=> d = b) /\ TopOf(t) \notin Waiters(d)
    BY <1>1, <1>3, TopIsIn, DirectoryAssumption
  <2>6. LockKept(d)'
    BY <2>2, <2>3, LockStays
  <2>7. CASE d = b
    <3>1. Holders(d)' = (Holders(d) \ {TopOf(t)}) \cup {<<t, Len(stack[t]) - 1>>} /\ Waiters(d)' = Waiters(d)
          /\ TopOf(t) \in Holders(d)
      BY <2>3, <2>4, <2>5, <2>7
    <3>. QED
      BY <2>2, <2>6, <3>1, GiveKept
  <2>8. CASE d # b
    <3>1. Holders(d)' = Holders(d) /\ Waiters(d)' = Waiters(d)
      BY <2>3, <2>5, <2>8
    <3>2. SameCounts(entry'[d], d)
      BY <2>2 DEF SameCounts
    <3>. QED
      BY <2>2, <2>6, <3>1, <3>2, QuietEntry DEF EntryKept
  <2>. QED
    BY <2>7, <2>8
<1>5. CASE ~ (Succeeds(t) /\ Top(t).keep)
  <2>1. PICK delete \in BOOLEAN : delete = (Top(t).missing /\ ~ entry[b].bLocked)
    OBVIOUS
  <2>2. Release2(b, entry[b], 1, delete) /\ (delete => ~ entry[b].bLocked)
    BY <1>5, <2>1 DEF FinishOpen, Release
  <2>3. PICK ok \in BOOLEAN : ok = Succeeds(t)
    BY DEF Succeeds
  <2>4. ReturnTo(t, ok, {})
    BY <1>5, <2>3 DEF FinishOpen
  <2> HIDE DEF b
  <2>. QED
    BY <1>1, <1>2, <1>3, <2>2, <2>4, ReturnReleaseTable
<1>. QED
  BY <1>4, <1>5

LEMMA EndQuiet ==
  ASSUME TypesFit, CallsFit, NEW t \in DirThreads, stack[t] # <<>>, ReturnTo(t, TRUE, {}) \/ ReturnTo(t, FALSE, {}),
         Top(t).holds = {}, Top(t).on = NoDir, NEW d \in Dirs
  PROVE  SameSets(d)
<1>1. PICK ok \in BOOLEAN : ReturnTo(t, ok, {})
  OBVIOUS
<1>. QED
  BY <1>1, ReturnToQuiet

LEMMA EndRelease ==
  ASSUME TypesFit, CallsFit, NEW t \in DirThreads, stack[t] # <<>>, ReturnTo(t, TRUE, {}) \/ ReturnTo(t, FALSE, {}),
         NEW b \in Dirs, Top(t).holds = {b}, Top(t).on = NoDir, NEW e \in Entries, SameCounts(e, b),
         Release(b, e, FALSE), NEW d \in Dirs, EntryKept(d), LockKept(d)
  PROVE  EntryKept(d)' /\ LockKept(d)'
<1>1. PICK ok \in BOOLEAN : ReturnTo(t, ok, {})
  OBVIOUS
<1>2. PICK delete \in BOOLEAN : delete = FALSE
  OBVIOUS
<1>3. Release2(b, e, 1, delete) /\ (delete => ~ e.bLocked)
  BY <1>2 DEF Release
<1>. QED
  BY <1>1, <1>3, ReturnReleaseTable

LEMMA CallUpdateTable ==
  ASSUME TypesFit, CallsFit, NEW t \in DirThreads, CallUpdate(t), NEW d \in Dirs, EntryKept(d), LockKept(d)
  PROVE  EntryKept(d)' /\ LockKept(d)'
<1> DEFINE f == Top(t)
           g == At(f, "held")
<1>1. stack[t] # <<>> /\ f.op = "update" /\ f.at = "call" /\ entry' = entry /\ lpDirectoryList' = lpDirectoryList
  BY DEF CallUpdate, In, cache
<1>2. f \in Frames /\ Fits(f) /\ f.dir \in Dirs
  BY <1>1, TopIsCall, TopFits DEF Frames
<1>3. f.on = NoDir /\ f.holds = {}
  <2> HIDE DEF f
  <2>. QED
    BY <1>1, <1>2 DEF Fits, UpdateFits
<1>4. SameSets(d)
  <2>1. CASE Enter(t, g, Open(f.dir, FALSE, TRUE))
    <3>1. PICK no \in BOOLEAN : no = FALSE
      OBVIOUS
    <3>2. PICK yes \in BOOLEAN : yes = TRUE
      OBVIOUS
    <3>3. /\ Open(f.dir, no, yes) \in Frames /\ Open(f.dir, no, yes).on = NoDir /\ Open(f.dir, no, yes).holds = {}
          /\ Locks(Open(f.dir, no, yes)) = {} /\ Tested(Open(f.dir, no, yes)) = {}
      BY <1>2, OpenIsFrame
    <3>4. "held" \in Places
      BY DEF Places
    <3>5. g \in Frames /\ g.op = f.op /\ g.holds = f.holds /\ g.on = f.on
      BY <1>2, <3>4, AtIsFrame
    <3> HIDE DEF g
    <3>6. Locks(g) = {} /\ Tested(g) = {} /\ Locks(f) = {} /\ Tested(f) = {}
      BY <1>1, <3>5 DEF Locks, Tested
    <3>7. Enter(t, g, Open(f.dir, no, yes))
      BY <2>1, <3>1, <3>2
    <3>. QED
      BY <1>1, <3>3, <3>5, <3>6, <3>7, EnterQuiet
  <2>2. CASE ReturnTo(t, FALSE, {})
    BY <1>1, <1>3, <2>2, EndQuiet
  <2>. QED
    BY <2>1, <2>2 DEF CallUpdate, Call, At
<1>5. SameCounts(entry'[d], d)
  BY <1>1 DEF SameCounts
<1>. QED
  BY <1>1, <1>4, <1>5, QuietTable DEF EntryKept

LEMMA SaveOwnerTable ==
  ASSUME TypesFit, TypesFit', CallsFit, NEW t \in DirThreads, SaveOwner(t), NEW d \in Dirs, EntryKept(d), LockKept(d)
  PROVE  EntryKept(d)' /\ LockKept(d)'
<1> DEFINE f == Top(t)
           e == entry[f.dir]
           owned == e.info.owned \cup {f.x}
<1>1. stack[t] # <<>> /\ f.op = "update" /\ f.at = "held"
  BY DEF SaveOwner, In
<1>2. f \in Frames /\ Fits(f) /\ Settled(f) /\ f.dir \in Dirs /\ e \in Entries
  BY <1>1, TopIsCall, TopFits DEF Frames, TypesFit
<1>3. f.x \in Owners /\ f.on = NoDir /\ (f.failed => f.holds = {}) /\ (~ f.failed => f.holds = {f.dir})
  <2> HIDE DEF f
  <2>. QED
    BY <1>1, <1>2 DEF Fits, UpdateFits, Settled
<1>4. CASE /\ ~ f.failed
           /\ Release(f.dir, [e EXCEPT !.info.owned = owned], FALSE)
           /\ IF f.x = Self /\ ParentDir[f.dir] # NoDir
              THEN Become(t, [f EXCEPT !.at = "mark", !.holds = {}])
              ELSE ReturnTo(t, TRUE, {})
  <2> DEFINE h == [e EXCEPT !.info.owned = owned]
  <2>1. h \in Entries /\ SameCounts(h, f.dir)
    <3>1. owned \in SUBSET Owners /\ e.info \in Infos
      BY <1>2, <1>3 DEF Entries, Infos
    <3>2. [e.info EXCEPT !.owned = owned] \in Infos
      BY <3>1 DEF Infos
    <3>. QED
      BY <1>2, <3>2 DEF Entries, SameCounts
  <2>2. Release(f.dir, h, FALSE)
    BY <1>4
  <2> HIDE DEF h
  <2>3. CASE f.x = Self /\ ParentDir[f.dir] # NoDir
    <3> DEFINE g == [f EXCEPT !.at = "mark", !.holds = {}]
    <3>1. Become(t, g)
      BY <1>4, <2>3
    <3>2. g \in Frames /\ g.op = f.op /\ g.on = f.on /\ g.holds = {}
      BY <1>2 DEF Frames, Places
    <3> HIDE DEF g
    <3>3. Locks(g) = {} /\ Tested(g) = {}
      BY <1>1, <3>2 DEF Locks, Tested
    <3>4. f.dir \in f.holds /\ g.holds = f.holds \ {f.dir} /\ g.on = NoDir
      BY <1>3, <1>4, <3>2
    <3>5. PICK delete \in BOOLEAN : delete = FALSE
      OBVIOUS
    <3>6. Release2(f.dir, h, 1, delete) /\ (delete => ~ h.bLocked)
      BY <2>2, <3>5 DEF Release
    <3>. QED
      BY <1>1, <1>2, <1>3, <2>1, <3>1, <3>2, <3>3, <3>4, <3>6, BecomeReleaseTable
  <2>4. CASE ReturnTo(t, TRUE, {})
    BY <1>1, <1>2, <1>3, <1>4, <2>1, <2>2, <2>4, EndRelease
  <2>. QED
    BY <1>4, <2>3, <2>4
<1>5. CASE ~ f.failed /\ Release(f.dir, e, FALSE) /\ ReturnTo(t, FALSE, {})
  <2>1. SameCounts(e, f.dir)
    BY DEF SameCounts
  <2>. QED
    BY <1>1, <1>2, <1>3, <1>5, <2>1, EndRelease
<1>6. CASE f.failed /\ ReturnTo(t, FALSE, {}) /\ UNCHANGED <<entry, lpDirectoryList>>
  <2>1. SameSets(d)
    BY <1>1, <1>3, <1>6, EndQuiet
  <2>2. SameCounts(entry'[d], d) /\ lpDirectoryList' = lpDirectoryList
    BY <1>6 DEF SameCounts
  <2>. QED
    BY <2>1, <2>2, QuietTable DEF EntryKept
<1>. QED
  BY <1>4, <1>5, <1>6 DEF SaveOwner, cache

LEMMA MarkParentOfTable ==
  ASSUME TypesFit, CallsFit, NEW t \in DirThreads, MarkParentOf(t), NEW d \in Dirs, EntryKept(d), LockKept(d)
  PROVE  EntryKept(d)' /\ LockKept(d)'
<1> DEFINE f == Top(t)
           p == ParentDir[f.dir]
           tab == [entry EXCEPT ![p].lForceUpdate = TRUE]
<1>1. stack[t] # <<>> /\ f.op = "update" /\ f.at = "mark"
  BY DEF MarkParentOf, In
<1>2. f \in Frames /\ Fits(f) /\ f.dir \in Dirs
  BY <1>1, TopIsCall, TopFits DEF Frames
<1>3. f.on = NoDir /\ f.holds = {} /\ p \in Dirs
  <2>1. f.on = NoDir /\ f.holds = {} /\ f.dir \in Made
    <3> HIDE DEF f
    <3>. QED
      BY <1>1, <1>2 DEF Fits, UpdateFits
  <2>. QED
    BY <2>1, DirectoryAssumption DEF Made
<1>4. CASE entry[p].cached /\ Acquire(t, p, tab, lpDirectoryList, "marking")
  <2>1. tab = [entry EXCEPT ![p] = Marked(entry[p])] /\ entry[p] \in Entries
    BY <1>3 DEF TypesFit, Marked
  <2>2. tab \in [Dirs -> Entries] /\ tab[p] = Marked(entry[p])
        /\ \A b \in Dirs : tab[b] = IF b = p THEN Marked(entry[p]) ELSE entry[b]
    BY <1>3, <2>1, MarkedIsEntry DEF TypesFit
  <2>3. /\ Marked(entry[p]).cached = entry[p].cached /\ Marked(entry[p]).bLocked = entry[p].bLocked
        /\ Marked(entry[p]).lReferenceCount = entry[p].lReferenceCount /\ Marked(entry[p]).hEvent = entry[p].hEvent
    BY <2>1, MarkedIsEntry
  <2>4. "marking" \in Later /\ lpDirectoryList \in Seq(Dirs) /\ Acquire(t, p, tab, lpDirectoryList, "marking")
    BY <1>4 DEF Later, TypesFit
  <2> HIDE DEF tab
  <2>5. SameCounts(tab[d], d) /\ tab[p].cached
    BY <1>3, <1>4, <2>2, <2>3 DEF SameCounts
  <2>6. Has(f, p, "marking").op = "update" /\ WaitsFor(f, p, "marking").op = "update"
    BY <1>1, <1>2, <1>3, <2>4, HasIsFrame, WaitsIsFrame
  <2>7. /\ Locks(Has(f, p, "marking")) = {} /\ Locks(WaitsFor(f, p, "marking")) = {}
        /\ Tested(Has(f, p, "marking")) = {} /\ Tested(WaitsFor(f, p, "marking")) = {}
    BY <2>6 DEF Locks, Tested
  <2>8. Once(lpDirectoryList, d)
    BY DEF EntryKept
  <2> HIDE DEF p
  <2>. QED
    BY <1>1, <1>3, <2>2, <2>4, <2>5, <2>7, <2>8, AcquireTable
<1>5. CASE ReturnTo(t, TRUE, {}) /\ UNCHANGED <<entry, lpDirectoryList>>
  <2>1. SameSets(d)
    BY <1>1, <1>3, <1>5, EndQuiet
  <2>2. SameCounts(entry'[d], d) /\ lpDirectoryList' = lpDirectoryList
    BY <1>5 DEF SameCounts
  <2>. QED
    BY <2>1, <2>2, QuietTable DEF EntryKept
<1>. QED
  BY <1>4, <1>5 DEF MarkParentOf, cache

LEMMA EndMarkTable ==
  ASSUME TypesFit, CallsFit, NEW t \in DirThreads, EndMark(t), NEW d \in Dirs, EntryKept(d), LockKept(d)
  PROVE  EntryKept(d)' /\ LockKept(d)'
<1> DEFINE f == Top(t)
           p == ParentDir[f.dir]
<1>1. /\ stack[t] # <<>> /\ f.op = "update" /\ f.at = "marking"
      /\ Release(p, Marked(entry[p]), FALSE) /\ ReturnTo(t, TRUE, {})
  BY DEF EndMark, In, Marked
<1>2. f \in Frames /\ Fits(f) /\ f.dir \in Dirs
  BY <1>1, TopIsCall, TopFits DEF Frames
<1>3. f.on = NoDir /\ f.holds = {p} /\ f.dir \in Made
  <2> HIDE DEF f
  <2>. QED
    BY <1>1, <1>2 DEF Fits, UpdateFits
<1>4. p \in Dirs /\ entry[p] \in Entries
  BY <1>3, DirectoryAssumption DEF Made, TypesFit
<1>5. Marked(entry[p]) \in Entries /\ SameCounts(Marked(entry[p]), p)
  BY <1>4, MarkedIsEntry DEF SameCounts
<1> HIDE DEF p
<1>. QED
  BY <1>1, <1>3, <1>4, <1>5, EndRelease

LEMMA BeginCalls ==
  ASSUME TypesFit, NEW t \in DirThreads, stack[t] = <<>>, NEW f, stack' = [stack EXCEPT ![t] = <<f>>]
  PROVE  /\ Calls' = Calls \cup {<<t, 1>>} /\ <<t, 1>> \notin Calls
         /\ \A c \in Calls : CallAt(c)' = CallAt(c)
         /\ CallAt(<<t, 1>>)' = f
<1>1. /\ stack'[t] = <<f>> /\ Len(stack'[t]) = 1 /\ Len(stack[t]) = 0 /\ stack'[t][1] = f
      /\ \A u \in DirThreads \ {t} : stack'[u] = stack[u]
  BY DEF TypesFit
<1>2. \A u \in DirThreads : 1..Len(stack'[u]) = (IF u = t THEN {1} ELSE 1..Len(stack[u]))
  <2>1. 1..1 = {1}
    OBVIOUS
  <2>. QED
    BY <1>1, <2>1
<1>3. 1..Len(stack[t]) = {}
  BY <1>1
<1>4. ASSUME NEW c PROVE c \in Calls' <=> c \in Calls \cup {<<t, 1>>}
  <2>1. c \in Calls' <=> \E u \in DirThreads : \E n \in 1..Len(stack'[u]) : c = <<u, n>>
    BY IsCallNext
  <2>2. c \in Calls <=> \E u \in DirThreads : \E n \in 1..Len(stack[u]) : c = <<u, n>>
    BY IsCall
  <2>. QED
    BY <1>2, <1>3, <2>1, <2>2
<1>5. ASSUME NEW c \in Calls PROVE c # <<t, 1>> /\ CallAt(c)' = CallAt(c)
  <2>1. PICK u \in DirThreads : \E n \in 1..Len(stack[u]) : c = <<u, n>>
    BY IsCall
  <2>2. PICK n \in 1..Len(stack[u]) : c = <<u, n>>
    BY <2>1
  <2>3. u # t
    BY <1>3, <2>2
  <2>. QED
    BY <1>1, <2>2, <2>3 DEF CallAt
<1>. QED
  BY <1>1, <1>4, <1>5 DEF CallAt

LEMMA BeginTable ==
  ASSUME TypesFit, CallsFit, NEW t \in DirThreads, Begin(t), NEW d \in Dirs, EntryKept(d), LockKept(d)
  PROVE  EntryKept(d)' /\ LockKept(d)'
<1>1. PICK j \in plan[t] : stack' = [stack EXCEPT ![t] = <<Started(j)>>]
  BY DEF Begin
<1>2. stack[t] = <<>> /\ entry' = entry /\ lpDirectoryList' = lpDirectoryList
  BY DEF Begin, cache
<1>3. j \in Asked
  BY <1>1, DirectoryAssumption DEF TypesFit
<1>4. /\ Started(j).holds = {} /\ Started(j).on = NoDir /\ Started(j).at \in {"begin", "acquire"}
  BY <1>3, StartedIsFrame
<1> DEFINE f == Started(j)
<1>5. Locks(f) = {} /\ Tested(f) = {} /\ d \notin f.holds /\ f.on # d
  BY <1>4, DirectoryAssumption DEF Locks, Tested
<1>6. /\ Calls' = Calls \cup {<<t, 1>>} /\ <<t, 1>> \notin Calls
      /\ \A c \in Calls : CallAt(c)' = CallAt(c)
      /\ CallAt(<<t, 1>>)' = f
  BY <1>1, <1>2, BeginCalls
<1> HIDE DEF f
<1>7. Holders(d)' = Holders(d) /\ Waiters(d)' = Waiters(d)
  BY <1>5, <1>6 DEF Holders, Waiters
<1>8. Lockers(d)' = {c \in Calls' : d \in Locks(CallAt(c)')} /\ Testers(d)' = {c \in Calls' : d \in Tested(CallAt(c)')}
  BY DEF Lockers, Testers, Locks, Tested
<1>9. Lockers(d)' = Lockers(d) /\ Testers(d)' = Testers(d)
  BY <1>5, <1>6, <1>8 DEF Lockers, Testers
<1>10. SameSets(d) /\ SameCounts(entry'[d], d)
  BY <1>2, <1>7, <1>9 DEF SameSets, SameCounts
<1>. QED
  BY <1>2, <1>10, QuietTable DEF EntryKept

\* A command goes on, returns, or makes a call.
CommandGoesOn(t) ==
  \/ Return(t)
  \/ \E at \in Places : GoOn(t, at)
  \/ \E at \in Places : \E h \in Frames :
       /\ Call(t, at, h) /\ h.holds = {} /\ h.on = NoDir /\ Locks(h) = {} /\ Tested(h) = {}
       /\ h.op = "open" => h.due = promised[h.dir]

LEMMA CommandQuiet ==
  ASSUME TypesFit, CallsFit, NEW t \in DirThreads, stack[t] # <<>>,
         Top(t).op \in {"upload", "delete", "mkdir", "rmdir"}, CommandGoesOn(t), NEW d \in Dirs
  PROVE  SameSets(d)
<1>1. Top(t) \in Frames /\ Top(t).on = NoDir /\ Top(t).holds = {}
  BY TopIsCall, TopFits DEF Fits, CommandFits
<1>2. Locks(Top(t)) = {} /\ Tested(Top(t)) = {}
  BY DEF Locks, Tested
<1>3. CASE Return(t)
  BY <1>1, <1>3, ReturnQuiet
<1>4. ASSUME NEW at \in Places PROVE At(Top(t), at) \in Frames
           /\ At(Top(t), at).holds = Top(t).holds /\ At(Top(t), at).on = Top(t).on
           /\ Locks(At(Top(t), at)) = {} /\ Tested(At(Top(t), at)) = {}
  <2>1. At(Top(t), at).op = Top(t).op /\ At(Top(t), at) \in Frames
        /\ At(Top(t), at).holds = Top(t).holds /\ At(Top(t), at).on = Top(t).on
    BY <1>1, AtIsFrame
  <2>. QED
    BY <2>1 DEF Locks, Tested
<1>5. ASSUME NEW at \in Places, GoOn(t, at) PROVE SameSets(d)
  <2>1. Become(t, At(Top(t), at))
    BY <1>5 DEF GoOn, At
  <2>. QED
    BY <1>2, <1>4, <2>1, BecomeQuiet
<1>6. ASSUME NEW at \in Places, NEW h \in Frames,
             Call(t, at, h), h.holds = {}, h.on = NoDir, Locks(h) = {}, Tested(h) = {}
      PROVE  SameSets(d)
  <2>1. Enter(t, At(Top(t), at), h)
    BY <1>6 DEF Call, At
  <2>. QED
    BY <1>2, <1>4, <1>6, <2>1, EnterQuiet
<1>. QED
  BY <1>3, <1>5, <1>6 DEF CommandGoesOn

LEMMA CommandTable ==
  ASSUME TypesFit, CallsFit, NEW t \in DirThreads, stack[t] # <<>>,
         Top(t).op \in {"upload", "delete", "mkdir", "rmdir"}, CommandGoesOn(t), UNCHANGED <<entry, lpDirectoryList>>,
         NEW d \in Dirs, EntryKept(d), LockKept(d)
  PROVE  EntryKept(d)' /\ LockKept(d)'
<1>1. SameSets(d)
  BY CommandQuiet
<1>2. SameCounts(entry'[d], d)
  BY DEF SameCounts
<1>. QED
  BY <1>1, <1>2, QuietTable DEF EntryKept

LEMMA CallsUpdate ==
  ASSUME NEW t, NEW at \in Places, NEW d \in Dirs, NEW x \in Owners, Call(t, at, Update(d, x))
  PROVE  CommandGoesOn(t)
BY UpdateIsFrame DEF CommandGoesOn

\* What the steps of the commands have in common.
CommandStays(t) ==
  /\ stack[t] # <<>> /\ Top(t).op \in {"upload", "delete", "mkdir", "rmdir"} /\ CommandGoesOn(t)
  /\ UNCHANGED <<entry, lpDirectoryList, dwAllocated, intruded, overlooked, promised>>

LEMMA CommandsStay ==
  ASSUME TypesFit, CallsFit, NEW t \in DirThreads,
         \/ CreateFile(t) \/ WriteFile(t) \/ DeleteFile(t) \/ MakeDirectory(t) \/ StatDirectory(t)
         \/ DeletePermissions(t) \/ RemoveDirectory(t)
         \/ Returned(t) /\ Top(t).op \in {"upload", "delete", "mkdir", "rmdir"}
  PROVE  CommandStays(t)
<1>1. \A at \in {"write", "mark", "done", "scan", "remove", "mark parent"} : at \in Places
  BY DEF Places
<1>2. Self \in Owners /\ Files \subseteq Owners
  BY DEF Owners
<1>3. stack[t] # <<>> => Top(t).dir \in Dirs /\ (Top(t).op = "upload" => Top(t).x \in Files)
  BY CommandTop
<1>4. CASE CreateFile(t)
  BY <1>1, <1>4 DEF CreateFile, In, cache, dirghosts, CommandGoesOn, CommandStays
<1>5. CASE WriteFile(t)
  <2>1. Call(t, "mark", Update(Top(t).dir, Top(t).x)) /\ stack[t] # <<>> /\ Top(t).op = "upload"
        /\ UNCHANGED <<entry, lpDirectoryList, dwAllocated, intruded, overlooked, promised>>
    BY <1>5 DEF WriteFile, In, cache, dirghosts
  <2>2. CommandGoesOn(t)
    BY <1>1, <1>2, <1>3, <2>1, CallsUpdate
  <2>. QED
    BY <2>1, <2>2 DEF CommandStays
<1>6. CASE DeleteFile(t)
  BY <1>1, <1>6 DEF DeleteFile, In, cache, CommandGoesOn, CommandStays
<1>7. CASE MakeDirectory(t)
  <2>1. \/ Call(t, "done", Update(Top(t).dir, Self))
        \/ Return(t)
    BY <1>7 DEF MakeDirectory
  <2>2. stack[t] # <<>> /\ Top(t).op = "mkdir"
        /\ UNCHANGED <<entry, lpDirectoryList, dwAllocated, intruded, overlooked, promised>>
    BY <1>7 DEF MakeDirectory, In, cache, dirghosts
  <2>3. CommandGoesOn(t)
    <3>1. CASE Return(t)
      BY <3>1 DEF CommandGoesOn
    <3>. QED
      BY <1>1, <1>2, <1>3, <2>1, <2>2, <3>1, CallsUpdate
  <2>. QED
    BY <2>2, <2>3 DEF CommandStays
<1>8. CASE StatDirectory(t)
  <2>1. \/ Call(t, "scan", Open(Top(t).dir, TRUE, FALSE))
        \/ Return(t)
    BY <1>8 DEF StatDirectory
  <2>2. stack[t] # <<>> /\ Top(t).op = "rmdir"
        /\ UNCHANGED <<entry, lpDirectoryList, dwAllocated, intruded, overlooked, promised>>
    BY <1>8 DEF StatDirectory, In, cache, dirghosts
  <2>3. CommandGoesOn(t)
    <3>1. CASE Return(t)
      BY <3>1 DEF CommandGoesOn
    <3>2. CASE Call(t, "scan", Open(Top(t).dir, TRUE, FALSE))
      <4>1. PICK no \in BOOLEAN : no = FALSE
        OBVIOUS
      <4>2. PICK yes \in BOOLEAN : yes = TRUE
        OBVIOUS
      <4>3. Call(t, "scan", Open(Top(t).dir, yes, no)) /\ "scan" \in Places
        BY <1>1, <3>2, <4>1, <4>2
      <4>4. /\ Open(Top(t).dir, yes, no) \in Frames /\ Open(Top(t).dir, yes, no).on = NoDir
            /\ Open(Top(t).dir, yes, no).holds = {} /\ Open(Top(t).dir, yes, no).dir = Top(t).dir
            /\ Open(Top(t).dir, yes, no).due = promised[Top(t).dir]
            /\ Locks(Open(Top(t).dir, yes, no)) = {} /\ Tested(Open(Top(t).dir, yes, no)) = {}
        BY <1>3, <2>2, OpenIsFrame
      <4>. QED
        BY <4>3, <4>4 DEF CommandGoesOn
    <3>. QED
      BY <2>1, <3>1, <3>2
  <2>. QED
    BY <2>2, <2>3 DEF CommandStays
<1>9. CASE DeletePermissions(t)
  BY <1>1, <1>9 DEF DeletePermissions, In, cache, dirghosts, CommandGoesOn, CommandStays
<1>10. CASE RemoveDirectory(t)
  <2>1. \/ GoOn(t, "mark parent")
        \/ Call(t, "done", Update(Top(t).dir, Self))
        \/ Return(t)
    BY <1>10 DEF RemoveDirectory
  <2>2. stack[t] # <<>> /\ Top(t).op = "rmdir"
        /\ UNCHANGED <<entry, lpDirectoryList, dwAllocated, intruded, overlooked, promised>>
    BY <1>10 DEF RemoveDirectory, In, cache
  <2>3. CommandGoesOn(t)
    <3>1. CASE Return(t) \/ GoOn(t, "mark parent")
      BY <1>1, <3>1 DEF CommandGoesOn
    <3>. QED
      BY <1>1, <1>2, <1>3, <2>1, <2>2, <3>1, CallsUpdate
  <2>. QED
    BY <2>2, <2>3 DEF CommandStays
<1>11. CASE Returned(t) /\ Top(t).op \in {"upload", "delete", "mkdir", "rmdir"}
  BY <1>11 DEF Returned, cache, dirghosts, CommandGoesOn, CommandStays
<1>. QED
  BY <1>4, <1>5, <1>6, <1>7, <1>8, <1>9, <1>10, <1>11

LEMMA DoneIsCommand ==
  ASSUME TypesFit, CallsFit, NEW t \in DirThreads, stack[t] # <<>>, Top(t).at = "done"
  PROVE  Top(t).op \in {"upload", "delete", "mkdir", "rmdir"}
BY TopFits DEF Fits, OpenFits, UpdateFits, MoveFits

LEMMA MarkDirTable ==
  ASSUME TypesFit, CallsFit, NEW t \in DirThreads, MarkDir(t), NEW d \in Dirs, EntryKept(d), LockKept(d)
  PROVE  EntryKept(d)' /\ LockKept(d)'
<1> DEFINE f == Top(t)
<1>1. /\ stack[t] # <<>> /\ f.op \in {"upload", "delete", "rmdir", "move"} /\ f.at \in {"mark", "mark parent"}
      /\ \/ GoOn(t, "mark parent") /\ f.at = "mark"
         \/ Return(t)
  BY DEF MarkDir
<1>2. f \in Frames /\ Fits(f)
  BY <1>1, TopIsCall, TopFits
<1>3. f.on = NoDir /\ f.holds = {} /\ (f.op = "move" => f.at = "mark parent")
  <2> HIDE DEF f
  <2>1. CASE f.op = "move"
    BY <1>1, <1>2, <2>1 DEF Fits, MoveFits
  <2>2. CASE f.op # "move"
    BY <1>1, <1>2, <2>2 DEF Fits, CommandFits
  <2>. QED
    BY <2>1, <2>2
<1>4. SameSets(d)
  <2>1. CASE Return(t)
    BY <1>1, <1>3, <2>1, ReturnQuiet
  <2>2. CASE GoOn(t, "mark parent") /\ f.at = "mark"
    <3>1. Become(t, At(f, "mark parent")) /\ "mark parent" \in Places
      BY <2>2 DEF GoOn, At, Places
    <3>2. /\ At(f, "mark parent") \in Frames /\ At(f, "mark parent").op = f.op
          /\ At(f, "mark parent").on = f.on /\ At(f, "mark parent").holds = f.holds
      BY <1>2, <3>1, AtIsFrame
    <3>3. f.op # "move"
      BY <1>3, <2>2
    <3>4. Locks(At(f, "mark parent")) = {} /\ Tested(At(f, "mark parent")) = {}
      BY <3>2, <3>3 DEF Locks, Tested
    <3>. QED
      BY <1>1, <3>1, <3>2, <3>4, BecomeQuiet
  <2>. QED
    BY <1>1, <2>1, <2>2
<1>5. PICK D : Mark(D)
  BY DEF MarkDir
<1>6. entry'[d] = Marked(entry[d]) \/ entry'[d] = entry[d]
  BY <1>5, MarkStays
<1>7. entry[d] \in Entries /\ lpDirectoryList' = lpDirectoryList
  BY <1>5, MarkStays DEF TypesFit
<1>8. SameCounts(entry'[d], d)
  BY <1>6, <1>7, MarkedIsEntry DEF SameCounts
<1>. QED
  BY <1>4, <1>7, <1>8, QuietTable DEF EntryKept

LEMMA MoveBeginsTable ==
  ASSUME TypesFit, CallsFit, NEW t \in DirThreads, MoveBegins(t), NEW d \in Dirs, EntryKept(d), LockKept(d)
  PROVE  EntryKept(d)' /\ LockKept(d)'
<1> DEFINE f == Top(t)
<1>1. /\ stack[t] # <<>> /\ f.op = "move" /\ f.at = "begin"
      /\ \/ Return(t) /\ UNCHANGED <<entry, lpDirectoryList>>
         \/ InsertAndAcquire(t, f.dir, "source")
  BY DEF MoveBegins, In, cache
<1>2. f \in Frames /\ MoveFits(f) /\ f.dir \in Dirs /\ "source" \in Later
  BY <1>1, MoveTop DEF Later
<1>3. f.on = NoDir /\ f.holds = {}
  <2> HIDE DEF f
  <2>. QED
    BY <1>1, <1>2 DEF MoveFits
<1>4. CASE Return(t) /\ UNCHANGED <<entry, lpDirectoryList>>
  <2>1. SameSets(d) /\ SameCounts(entry'[d], d)
    BY <1>1, <1>3, <1>4, ReturnQuiet DEF SameCounts
  <2>. QED
    BY <1>4, <2>1, QuietTable DEF EntryKept
<1>5. CASE InsertAndAcquire(t, f.dir, "source")
  <2>1. /\ Has(f, f.dir, "source").op = "move" /\ Has(f, f.dir, "source").at = "source"
        /\ WaitsFor(f, f.dir, "source").op = "move" /\ WaitsFor(f, f.dir, "source").at = "wait"
        /\ WaitsFor(f, f.dir, "source").then = "source"
    BY <1>1, <1>2, HasIsFrame, WaitsIsFrame
  <2>2. /\ Locks(Has(f, f.dir, "source")) = {} /\ Locks(WaitsFor(f, f.dir, "source")) = {}
        /\ Tested(Has(f, f.dir, "source")) = {} /\ Tested(WaitsFor(f, f.dir, "source")) = {}
    BY <2>1 DEF Locks, Tested
  <2>. QED
    BY <1>1, <1>2, <1>3, <1>5, <2>2, InsertTable
<1>. QED
  BY <1>1, <1>4, <1>5

LEMMA MoveSourceTable ==
  ASSUME TypesFit, CallsFit, NEW t \in DirThreads, MoveSource(t), NEW d \in Dirs, EntryKept(d), LockKept(d)
  PROVE  EntryKept(d)' /\ LockKept(d)'
<1> DEFINE f == Top(t)
<1>1. /\ stack[t] # <<>> /\ f.op = "move" /\ f.at = "source"
      /\ \/ Become(t, [f EXCEPT !.at = "unlock", !.failed = TRUE]) /\ UNCHANGED <<entry, lpDirectoryList>>
         \/ ~ entry[f.dir].bLocked /\ InsertAndAcquire(t, f.x, "target")
  BY DEF MoveSource, In, cache
<1>2. f \in Frames /\ MoveFits(f) /\ f.dir \in Dirs /\ f.x \in Dirs /\ "target" \in Later
  BY <1>1, MoveTop DEF Later
<1>3. f.on = NoDir /\ f.holds = {f.dir} /\ f.dir # f.x
  <2> HIDE DEF f
  <2>. QED
    BY <1>1, <1>2 DEF MoveFits
<1>4. CASE Become(t, [f EXCEPT !.at = "unlock", !.failed = TRUE]) /\ UNCHANGED <<entry, lpDirectoryList>>
  <2> DEFINE g == [f EXCEPT !.at = "unlock", !.failed = TRUE]
  <2>1. g \in Frames /\ g.op = f.op /\ g.at = "unlock" /\ g.on = f.on /\ g.dir = f.dir /\ g.holds = f.holds
    BY <1>2 DEF Frames, Places
  <2>2. Become(t, g)
    BY <1>4
  <2> HIDE DEF g
  <2>3. Locks(g) = {} /\ Tested(g) = {}
    BY <1>3, <2>1 DEF Locks, Tested
  <2>4. SameSets(d)
    BY <1>1, <2>1, <2>2, <2>3, BecomeQuiet
  <2>5. SameCounts(entry'[d], d)
    BY <1>4 DEF SameCounts
  <2>. QED
    BY <1>4, <2>4, <2>5, QuietTable DEF EntryKept
<1>5. CASE ~ entry[f.dir].bLocked /\ InsertAndAcquire(t, f.x, "target")
  <2>1. /\ Has(f, f.x, "target").op = "move" /\ Has(f, f.x, "target").at = "target"
        /\ Has(f, f.x, "target").dir = f.dir
        /\ WaitsFor(f, f.x, "target").op = "move" /\ WaitsFor(f, f.x, "target").at = "wait"
        /\ WaitsFor(f, f.x, "target").then = "target" /\ WaitsFor(f, f.x, "target").dir = f.dir
    BY <1>1, <1>2, HasIsFrame, WaitsIsFrame
  <2>2. /\ Locks(Has(f, f.x, "target")) = {} /\ Locks(WaitsFor(f, f.x, "target")) = {}
        /\ Tested(Has(f, f.x, "target")) = {f.dir} /\ Tested(WaitsFor(f, f.x, "target")) = {f.dir}
    BY <2>1 DEF Locks, Tested
  <2>3. d \in Tested(Has(f, f.x, "target")) \cup Tested(WaitsFor(f, f.x, "target")) => ~ entry[d].bLocked
    BY <1>5, <2>2
  <2>4. f.x \notin f.holds
    BY <1>3
  <2>5. stack[t] # <<>> /\ f = Top(t) /\ InsertAndAcquire(t, f.x, "target")
    BY <1>1, <1>5
  <2> HIDE DEF f
  <2>. QED
    BY <1>2, <1>3, <2>2, <2>3, <2>4, <2>5, InsertTable
<1>. QED
  BY <1>1, <1>4, <1>5

LEMMA OneHolder ==
  ASSUME NEW d \in Dirs, EntryKept(d), NEW a \in Holders(d), NEW b \in Holders(d)
  PROVE  a = b
<1>1. IsFiniteSet(Holders(d)) /\ Cardinality(Holders(d)) <= 1
  BY DEF EntryKept
<1>2. Cardinality(Holders(d)) \in Nat /\ (Cardinality(Holders(d)) = 0 <=> Holders(d) = {})
  BY <1>1, FS_CardinalityType, FS_EmptySet
<1>3. Cardinality(Holders(d)) = 1
  BY <1>1, <1>2
<1>4. \E x : Holders(d) = {x}
  BY <1>1, <1>3, FS_Singleton
<1>. QED
  BY <1>4

\* Who has found a directory not locked has it.
LEMMA TestersHold ==
  ASSUME TypesFit, CallsFit, NEW d
  PROVE  Testers(d) \subseteq Holders(d)
<1> SUFFICES ASSUME NEW c \in Calls, d \in Tested(CallAt(c)) PROVE d \in CallAt(c).holds
  BY DEF Testers, Holders
<1>0. PICK t \in DirThreads : \E n \in 1..Len(stack[t]) : c = <<t, n>>
  BY IsCall
<1>1. PICK n \in 1..Len(stack[t]) : c = <<t, n>>
  BY <1>0
<1>2. Fits(CallAt(c))
  BY <1>1 DEF CallsFit, StackFits, CallAt
<1> DEFINE f == CallAt(c)
<1>3. f.op = "move" /\ (f.at = "target" \/ (f.at = "wait" /\ f.then = "target")) /\ d = f.dir
  BY DEF Tested
<1> HIDE DEF f
<1>4. MoveFits(f)
  BY <1>2, <1>3 DEF Fits, f
<1>5. d \in f.holds
  BY <1>3, <1>4 DEF MoveFits
<1>. QED
  BY <1>5 DEF f

LEMMA MoveTargetTable ==
  ASSUME TypesFit, CallsFit, NEW t \in DirThreads, MoveTarget(t), NEW d \in Dirs, EntryKept(d), LockKept(d)
  PROVE  EntryKept(d)' /\ LockKept(d)'
<1> DEFINE f == Top(t)
           list == [NoInfo EXCEPT !.stamp = volume[f.dir].stamp, !.files = volume[f.dir].files]
           owned == Owned(f.dir, list)
           info == [list EXCEPT !.owned = owned]
           g == [f EXCEPT !.at = "release", !.got = owned]
           h == [f EXCEPT !.at = "unlock", !.failed = TRUE]
           moves == /\ ~ entry[f.x].bLocked
                    /\ entry' = [entry EXCEPT ![f.dir].info = info, ![f.dir].ftCacheTime = volume[f.dir].mtime,
                                    ![f.dir].bLocked = TRUE, ![f.x].bLocked = TRUE]
                    /\ Become(t, g)
           fails == Become(t, h) /\ entry' = entry
<1>1. /\ stack[t] # <<>> /\ f.op = "move" /\ f.at = "target" /\ UNCHANGED lpDirectoryList
      /\ moves \/ fails
  BY DEF MoveTarget, In, cache
<1> HIDE DEF list, owned, info, moves, fails
<1>2. f \in Frames /\ MoveFits(f) /\ f.dir \in Dirs /\ f.x \in Dirs
      /\ entry[f.dir] \in Entries /\ entry[f.x] \in Entries /\ volume[f.dir] \in Volumes
  BY <1>1, MoveTop
<1>3. f.on = NoDir /\ f.holds = {f.dir, f.x} /\ f.dir # f.x
  <2> HIDE DEF f
  <2>. QED
    BY <1>1, <1>2 DEF MoveFits
<1>4. Locks(f) = {} /\ Tested(f) = {f.dir}
  BY <1>1 DEF Locks, Tested
<1>5. CASE fails
  <2>1. h \in Frames /\ h.op = f.op /\ h.at = "unlock" /\ h.on = f.on /\ h.dir = f.dir /\ h.holds = f.holds
    BY <1>2 DEF Frames, Places
  <2> HIDE DEF h
  <2>2. Locks(h) = {} /\ Tested(h) = {}
    BY <1>3, <2>1 DEF Locks, Tested
  <2>3. SameSets(d)
    BY <1>1, <1>5, <2>1, <2>2, BecomeQuiet DEF fails
  <2>4. SameCounts(entry'[d], d)
    BY <1>5 DEF SameCounts, fails
  <2>. QED
    BY <1>1, <2>3, <2>4, QuietTable, Zenon DEF EntryKept
<1>6. CASE moves
  <2>1. owned \in SUBSET Owners
    <3>1. volume[f.dir].stamp \in Int /\ volume[f.dir].files \in SUBSET Files
      BY <1>2 DEF Volumes
    <3>2. list \in Infos
      BY <3>1, NoEntryIsEntry DEF Infos, list
    <3>. QED
      BY <1>2, <3>2, OwnedType DEF owned
  <2>2. /\ g \in Frames /\ g.op = f.op /\ g.at = "release" /\ g.on = f.on /\ g.dir = f.dir /\ g.x = f.x
        /\ g.holds = f.holds
    BY <1>2, <2>1 DEF Frames, Places
  <2> HIDE DEF g
  <2>3. Locks(g) = {f.dir, f.x} /\ Tested(g) = {}
    BY <1>1, <2>2 DEF Locks, Tested
  <2>4. /\ Holders(d)' = Holders(d) /\ Waiters(d)' = Waiters(d)
        /\ Lockers(d)' = (Lockers(d) \ {TopOf(t)}) \cup (IF d \in {f.dir, f.x} THEN {TopOf(t)} ELSE {})
        /\ Testers(d)' = Testers(d) \ {TopOf(t)}
    <3>1. /\ Holders(d)' = (Holders(d) \ {TopOf(t)}) \cup (IF d \in g.holds THEN {TopOf(t)} ELSE {})
          /\ Waiters(d)' = (Waiters(d) \ {TopOf(t)}) \cup (IF g.on = d THEN {TopOf(t)} ELSE {})
          /\ Lockers(d)' = (Lockers(d) \ {TopOf(t)}) \cup (IF d \in Locks(g) THEN {TopOf(t)} ELSE {})
          /\ Testers(d)' = (Testers(d) \ {TopOf(t)}) \cup (IF d \in Tested(g) THEN {TopOf(t)} ELSE {})
      BY <1>1, <1>6, <2>2, BecomeSets DEF moves
    <3>2. /\ TopOf(t) \in Holders(d) <=> d \in f.holds
          /\ TopOf(t) \in Waiters(d) <=> f.on = d
      BY <1>1, TopIsIn
    <3>. QED
      BY <2>2, <2>3, <3>1, <3>2
  <2>5. /\ entry'[d].cached = entry[d].cached /\ entry'[d].lReferenceCount = entry[d].lReferenceCount
        /\ entry'[d].hEvent = entry[d].hEvent
        /\ d \notin {f.dir, f.x} => entry'[d].bLocked = entry[d].bLocked
        /\ d \in {f.dir, f.x} => entry'[d].bLocked
    <3> HIDE DEF f
    <3>1. entry \in [Dirs -> Entries]
      BY DEF TypesFit
    <3>. QED
      BY <1>2, <1>3, <1>6, <3>1 DEF Entries, moves
  <2>6. CASE d \notin {f.dir, f.x}
    <3>1. SameSets(d)
      BY <2>4, <2>6 DEF SameSets
    <3>2. SameCounts(entry'[d], d)
      BY <2>5, <2>6 DEF SameCounts
    <3>. QED
      BY <1>1, <3>1, <3>2, QuietTable DEF EntryKept
  <2>7. CASE d \in {f.dir, f.x}
    <3>1. TopOf(t) \in Holders(d)
      BY <1>1, <1>3, <2>7, TopIsIn
    <3>2. entry[d].lReferenceCount >= 2 /\ entry[d].cached
      BY <3>1, EntryMeans
    <3>3. EntryKept(d)'
      BY <1>1, <2>4, <2>5, <3>2 DEF EntryKept
    <3>4. ~ entry[d].bLocked
      <4>1. CASE d = f.x
        BY <1>6, <4>1 DEF moves
      <4>2. CASE d = f.dir
        <5>1. TopOf(t) \in Testers(d)
          BY <1>1, <1>4, <4>2, TopIsIn
        <5>. QED
          BY <5>1 DEF LockKept
      <4>. QED
        BY <2>7, <4>1, <4>2
    <3>5. Lockers(d)' = {TopOf(t)}
      BY <2>4, <2>7, <3>4 DEF LockKept
    <3>6. Testers(d)' = {}
      BY <2>4, <3>1, TestersHold, OneHolder
    <3>7. LockKept(d)'
      BY <2>5, <2>7, <3>5, <3>6 DEF LockKept
    <3>. QED
      BY <3>3, <3>7
  <2>. QED
    BY <2>6, <2>7
<1>. QED
  BY <1>1, <1>5, <1>6

LEMMA MoveReleaseTable ==
  ASSUME TypesFit, CallsFit, NEW t \in DirThreads, MoveRelease(t), NEW d \in Dirs, EntryKept(d), LockKept(d)
  PROVE  EntryKept(d)' /\ LockKept(d)'
<1> DEFINE f == Top(t)
           b == IF f.dir \in f.holds THEN f.dir ELSE f.x
           g == [f EXCEPT !.holds = @ \ {b}, !.at = IF b = f.dir THEN "release" ELSE "files"]
<1>1. /\ stack[t] # <<>> /\ f.op = "move" /\ f.at = "release"
      /\ Release(b, entry[b], FALSE) /\ Become(t, g)
  BY DEF MoveRelease, In
<1>2. f \in Frames /\ MoveFits(f) /\ f.dir \in Dirs /\ f.x \in Dirs
  BY <1>1, MoveTop
<1>3. b \in Dirs /\ entry[b] \in Entries /\ SameCounts(entry[b], b)
  BY <1>2 DEF TypesFit, SameCounts
<1>4. /\ g \in Frames /\ g.op = f.op /\ g.at \in {"release", "files"} /\ g.on = f.on /\ g.dir = f.dir
      /\ g.x = f.x /\ g.holds = f.holds \ {b}
  <2>1. PICK at \in {"release", "files"} : at = IF b = f.dir THEN "release" ELSE "files"
    OBVIOUS
  <2>2. g = [f EXCEPT !.holds = f.holds \ {b}, !.at = at]
    BY <2>1
  <2>3. f.holds \ {b} \in SUBSET Dirs /\ at \in Places
    BY <1>2, <2>1 DEF Frames, Places
  <2> HIDE DEF b, g, f
  <2>. QED
    BY <1>2, <2>1, <2>2, <2>3 DEF Frames
<1> HIDE DEF f, g
<1>5. f.on = NoDir /\ f.holds \in {{f.x}, {f.dir, f.x}} /\ b \in f.holds
  BY <1>1, <1>2 DEF MoveFits
<1>6. Locks(f) = {f.dir, f.x} /\ Locks(g) = {f.dir, f.x} /\ Tested(g) = {} /\ Tested(f) = {}
  BY <1>1, <1>4 DEF Locks, Tested
<1>7. PICK delete \in BOOLEAN : delete = FALSE
  OBVIOUS
<1>8. Release2(b, entry[b], 1, delete) /\ (delete => ~ entry[b].bLocked)
  BY <1>1, <1>7 DEF Release
<1> HIDE DEF b
<1>. QED
  BY <1>1, <1>3, <1>4, <1>5, <1>6, <1>8, BecomeReleaseTable DEF f

LEMMA MoveFileTable ==
  ASSUME TypesFit, CallsFit, NEW t \in DirThreads, MoveFile(t), NEW d \in Dirs, EntryKept(d), LockKept(d)
  PROVE  EntryKept(d)' /\ LockKept(d)'
<1> DEFINE f == Top(t)
<1>1. /\ stack[t] # <<>> /\ f.op = "move" /\ f.at = "files" /\ UNCHANGED <<entry, lpDirectoryList>>
  BY DEF MoveFile, In, cache
<1>2. PICK x \in volume[f.dir].files \ f.todo :
        Become(t, [f EXCEPT !.failed = TRUE, !.todo = @ \cup {x}]) \/ stack' = stack
  BY Zenon DEF MoveFile
<1>3. f \in Frames /\ MoveFits(f) /\ volume[f.dir] \in Volumes
  BY <1>1, MoveTop
<1>4. SameCounts(entry'[d], d)
  BY <1>1 DEF SameCounts
<1>5. SameSets(d)
  <2>1. CASE stack' = stack
    BY <2>1, StackQuiet
  <2>2. CASE Become(t, [f EXCEPT !.failed = TRUE, !.todo = @ \cup {x}])
    <3> DEFINE g == [f EXCEPT !.failed = TRUE, !.todo = @ \cup {x}]
    <3>1. x \in Files
      BY <1>3 DEF Volumes
    <3>2. /\ g \in Frames /\ g.op = f.op /\ g.at = f.at /\ g.on = f.on /\ g.dir = f.dir /\ g.x = f.x
          /\ g.holds = f.holds /\ g.then = f.then
      BY <1>3, <3>1 DEF Frames
    <3>3. Become(t, g)
      BY <2>2
    <3> HIDE DEF g
    <3>4. Locks(g) = Locks(f) /\ Tested(g) = Tested(f)
      BY <3>2 DEF Locks, Tested
    <3>. QED
      BY <1>1, <3>2, <3>3, <3>4, BecomeQuiet
  <2>. QED
    BY <1>2, <2>1, <2>2
<1>. QED
  BY <1>1, <1>4, <1>5, QuietTable DEF EntryKept

LEMMA MoveRestTable ==
  ASSUME TypesFit, CallsFit, NEW t \in DirThreads, MoveRest(t), NEW d \in Dirs, EntryKept(d), LockKept(d)
  PROVE  EntryKept(d)' /\ LockKept(d)'
<1> DEFINE f == Top(t)
<1>1. /\ stack[t] # <<>> /\ f.op = "move" /\ f.at = "files" /\ UNCHANGED <<entry, lpDirectoryList>>
  BY DEF MoveRest, In, cache
<1>3. PICK failed \in BOOLEAN, at \in {"unlock", "restore"} : Become(t, [f EXCEPT !.failed = failed, !.at = at])
  <2> DEFINE failed == ~ (~ f.failed /\ volume[f.dir].exists /\ IsEmpty(f.dir))
             at == IF (~ f.failed /\ volume[f.dir].exists /\ IsEmpty(f.dir)) \/ f.failed THEN "unlock" ELSE "restore"
  <2>1. failed \in BOOLEAN /\ at \in {"unlock", "restore"}
    OBVIOUS
  <2>2. Become(t, [f EXCEPT !.failed = failed, !.at = at])
    BY DEF MoveRest
  <2>. QED
    BY <2>1, <2>2
<1>4. f \in Frames /\ MoveFits(f)
  BY <1>1, MoveTop
<1> DEFINE g == [f EXCEPT !.failed = failed, !.at = at]
<1>6. /\ g \in Frames /\ g.op = f.op /\ g.at = at /\ g.on = f.on /\ g.dir = f.dir /\ g.x = f.x
      /\ g.holds = f.holds
  BY <1>4 DEF Frames, Places
<1>7. Become(t, g)
  BY <1>3
<1> HIDE DEF f, g
<1>8. f.holds = {}
  BY <1>1, <1>4 DEF MoveFits
<1>9. Locks(f) = {f.dir, f.x} /\ Locks(g) = {f.dir, f.x} /\ Tested(g) = {}
  BY <1>1, <1>6, <1>8 DEF Locks, Tested
<1>10. SameSets(d)
  BY <1>1, <1>6, <1>7, <1>9, BecomeQuiet DEF f
<1>11. SameCounts(entry'[d], d)
  BY <1>1 DEF SameCounts
<1>. QED
  BY <1>1, <1>10, <1>11, QuietTable DEF EntryKept

LEMMA MoveRestoreTable ==
  ASSUME TypesFit, CallsFit, NEW t \in DirThreads, MoveRestore(t), NEW d \in Dirs, EntryKept(d), LockKept(d)
  PROVE  EntryKept(d)' /\ LockKept(d)'
<1> DEFINE f == Top(t)
<1>1. /\ stack[t] # <<>> /\ f.op = "move" /\ f.at = "restore"
      /\ Acquire(t, f.dir, entry, lpDirectoryList, "restored")
  BY DEF MoveRestore, In
<1>2. f \in Frames /\ MoveFits(f) /\ f.dir \in Dirs /\ "restored" \in Later
  BY <1>1, MoveTop DEF Later
<1> HIDE DEF f
<1>3. f.on = NoDir /\ f.holds = {} /\ f.dir \notin f.holds
  BY <1>1, <1>2 DEF MoveFits
<1>4. Locks(f) = {f.dir, f.x}
  BY <1>1 DEF Locks
<1>5. /\ Has(f, f.dir, "restored").op = "move" /\ Has(f, f.dir, "restored").at = "restored"
      /\ Has(f, f.dir, "restored").dir = f.dir /\ Has(f, f.dir, "restored").x = f.x
      /\ WaitsFor(f, f.dir, "restored").op = "move" /\ WaitsFor(f, f.dir, "restored").at = "wait"
      /\ WaitsFor(f, f.dir, "restored").then = "restored"
      /\ WaitsFor(f, f.dir, "restored").dir = f.dir /\ WaitsFor(f, f.dir, "restored").x = f.x
  BY <1>1, <1>2, HasIsFrame, WaitsIsFrame
<1>6. /\ Locks(Has(f, f.dir, "restored")) = {f.dir, f.x} /\ Locks(WaitsFor(f, f.dir, "restored")) = {f.dir, f.x}
      /\ Tested(Has(f, f.dir, "restored")) = {} /\ Tested(WaitsFor(f, f.dir, "restored")) = {}
  BY <1>5 DEF Locks, Tested
<1>7. SameCounts(entry[d], d) /\ Once(lpDirectoryList, d)
  BY DEF SameCounts, EntryKept
<1>8. d = f.dir => entry[d].cached
  <2>1. d = f.dir => TopOf(t) \in Lockers(d)
    BY <1>1, <1>4, TopIsIn DEF f
  <2>. QED
    BY <2>1, EntryMeans DEF LockKept
<1>9. entry \in [Dirs -> Entries] /\ lpDirectoryList \in Seq(Dirs)
  BY DEF TypesFit
<1>. QED
  BY <1>1, <1>2, <1>3, <1>4, <1>6, <1>7, <1>8, <1>9, AcquireTable DEF f

LEMMA MoveRestoredTable ==
  ASSUME TypesFit, CallsFit, NEW t \in DirThreads, MoveRestored(t), NEW d \in Dirs, EntryKept(d), LockKept(d)
  PROVE  EntryKept(d)' /\ LockKept(d)'
<1> DEFINE f == Top(t)
           b == f.dir
           g == [f EXCEPT !.at = "unlock", !.holds = {}]
<1>1. /\ stack[t] # <<>> /\ f.op = "move" /\ f.at = "restored"
      /\ Release(b, Marked(entry[b]), FALSE) /\ Become(t, g)
  BY DEF MoveRestored, In, Marked
<1>2. f \in Frames /\ MoveFits(f) /\ b \in Dirs /\ entry[b] \in Entries
  BY <1>1, MoveTop
<1>3. /\ g \in Frames /\ g.op = f.op /\ g.at = "unlock" /\ g.on = f.on /\ g.dir = f.dir /\ g.x = f.x
      /\ g.holds = {}
  BY <1>2 DEF Frames, Places
<1>4. Marked(entry[b]) \in Entries /\ SameCounts(Marked(entry[b]), b)
  BY <1>2, MarkedIsEntry DEF SameCounts
<1> HIDE DEF f, g
<1>5. f.on = NoDir /\ f.holds = {b} /\ b \in f.holds /\ g.holds = f.holds \ {b}
  BY <1>1, <1>2, <1>3 DEF MoveFits
<1>6. Locks(f) = {f.dir, f.x} /\ Locks(g) = {f.dir, f.x} /\ Tested(g) = {}
  BY <1>1, <1>3 DEF Locks, Tested
<1>7. PICK delete \in BOOLEAN : delete = FALSE
  OBVIOUS
<1>8. Release2(b, Marked(entry[b]), 1, delete) /\ (delete => ~ Marked(entry[b]).bLocked)
  BY <1>1, <1>7 DEF Release
<1> HIDE DEF b
<1>. QED
  BY <1>1, <1>2, <1>3, <1>4, <1>5, <1>6, <1>8, BecomeReleaseTable DEF f

LEMMA MoveUnlockTable ==
  ASSUME TypesFit, CallsFit, NEW t \in DirThreads, MoveUnlock(t), NEW d \in Dirs, EntryKept(d), LockKept(d),
         d \notin intruded'
  PROVE  EntryKept(d)' /\ LockKept(d)'
<1> DEFINE f == Top(t)
           g == Parted(f)
           b == Leaving(f)
<1>1. /\ stack[t] # <<>> /\ f.op = "move" /\ f.at \in {"unlock", "unlock target"}
      /\ f \in Frames /\ MoveFits(f) /\ b \in Dirs /\ entry[b] \in Entries
      /\ g \in Frames /\ g.op = f.op /\ g.on = NoDir /\ g.dir = f.dir /\ g.x = f.x
      /\ g.holds = f.holds \ {b} /\ g.at \in {"unlock target", "mark parent"}
      /\ Become(t, g)
  BY MoveUnlockStep
<1>2. g.at = "unlock target" => f.at = "unlock" /\ (f.x \notin f.holds => b \notin f.holds)
  BY MoveUnlockStep
<1>3. IF b \in f.holds
      THEN Release(b, Marked(entry[b]), FALSE)
      ELSE Release2(b, Unlocked(b), 0, f.at = "unlock" /\ ~ f.failed)
  BY MoveUnlockStep
<1>4. b \notin f.holds /\ Holders(b) # {} /\ entry'[b].hEvent = "set" => b \in intruded'
  BY MoveUnlockStep
<1>5. b = IF f.at = "unlock" THEN f.dir ELSE f.x
  BY DEF Leaving
<1> HIDE DEF f, g, b
<1>6. f.on = NoDir /\ f.dir # f.x
  BY <1>1 DEF MoveFits
<1>7. Tested(g) = {} /\ Tested(f) = {}
  BY <1>1 DEF Tested
<1>8. CASE b \in f.holds
  <2>1. Locks(g) = {}
    <3>1. CASE g.at = "mark parent"
      BY <3>1 DEF Locks
    <3>2. CASE g.at = "unlock target"
      <4>1. f.x \in f.holds /\ b = f.dir
        BY <1>2, <1>5, <1>8, <3>2
      <4>2. g.x \in g.holds
        BY <1>1, <1>6, <4>1
      <4>. QED
        BY <3>2, <4>2 DEF Locks
    <3>. QED
      BY <1>1, <3>1, <3>2
  <2>2. Marked(entry[b]) \in Entries /\ SameCounts(Marked(entry[b]), b)
    BY <1>1, MarkedIsEntry DEF SameCounts
  <2>3. PICK delete \in BOOLEAN : delete = FALSE
    OBVIOUS
  <2>4. Release2(b, Marked(entry[b]), 1, delete) /\ (delete => ~ Marked(entry[b]).bLocked)
    BY <1>3, <1>8, <2>3 DEF Release
  <2>. QED
    BY <1>1, <1>6, <1>7, <1>8, <2>1, <2>2, <2>4, BecomeReleaseTable DEF f
<1>9. CASE b \notin f.holds
  <2>1. f.holds = {} /\ g.holds = f.holds /\ g.on = f.on
    BY <1>1, <1>5, <1>6, <1>9 DEF MoveFits
  <2>2. b \in Locks(f) /\ Locks(g) \subseteq Locks(f) \ {b}
    <3>1. CASE f.at = "unlock"
      <4>1. Locks(f) = {f.dir, f.x} /\ Locks(g) \subseteq {f.x} /\ b = f.dir
        BY <1>1, <1>5, <2>1, <3>1 DEF Locks
      <4>. QED
        BY <1>6, <4>1
    <3>2. CASE f.at = "unlock target"
      <4>1. Locks(f) = {f.x} /\ b = f.x
        BY <1>1, <1>5, <2>1, <3>2 DEF Locks
      <4>2. g.at = "mark parent"
        BY <1>1, <1>2, <3>2
      <4>3. Locks(g) = {}
        BY <4>2 DEF Locks
      <4>. QED
        BY <4>1, <4>3
    <3>. QED
      BY <1>1, <3>1, <3>2
  <2>3. SameSets(d)
    BY <1>1, <1>7, <2>1, <2>2, BecomeQuiet DEF f
  <2>4. PICK delete \in BOOLEAN : delete = (f.at = "unlock" /\ ~ f.failed)
    OBVIOUS
  <2>5. Unlocked(b) \in Entries /\ Release2(b, Unlocked(b), 0, delete) /\ 0 \in Int
    <3>1. Release2(b, Unlocked(b), 0, f.at = "unlock" /\ ~ f.failed)
      BY <1>3, <1>9
    <3>2. Release2(b, Unlocked(b), 0, delete)
      BY <2>4, <3>1 DEF Release2
    <3>3. 0 \in Int
      OBVIOUS
    <3>4. Unlocked(b) \in Entries
      BY <1>1, UnlockedIsEntry
    <3>. QED
      BY <3>2, <3>3, <3>4
  <2>6. /\ \A e \in Dirs \ {b} : entry'[e] = entry[e]
        /\ \/ HandedOver(b, Unlocked(b), Unlocked(b).lReferenceCount - 0)
           \/ delete /\ Forgotten(b, Unlocked(b), Unlocked(b).lReferenceCount - 0)
           \/ ~ delete /\ Unused(b, Unlocked(b), Unlocked(b).lReferenceCount - 0)
    BY <1>1, <2>5, ReleaseMeans
  <2>7. CASE d # b
    <3>1. lpDirectoryList' = lpDirectoryList \/ lpDirectoryList' = <<b>> \o lpDirectoryList
      BY <2>6 DEF HandedOver, Forgotten, Unused
    <3>2. SameCounts(entry'[d], d)
      BY <2>6, <2>7 DEF SameCounts
    <3>3. Once(lpDirectoryList', d) /\ (Listed(lpDirectoryList', d) <=> Listed(lpDirectoryList, d))
      <4>1. Once(lpDirectoryList, d) /\ lpDirectoryList \in Seq(Dirs)
        BY DEF EntryKept, TypesFit
      <4>2. /\ Once(<<b>> \o lpDirectoryList, d) <=> Once(lpDirectoryList, d)
            /\ Listed(<<b>> \o lpDirectoryList, d) <=> Listed(lpDirectoryList, d)
        BY <1>1, <2>7, <4>1, PrependMeans
      <4>. QED
        BY <3>1, <4>1, <4>2
    <3>. QED
      BY <2>3, <3>2, <3>3, QuietTable
  <2>8. CASE d = b
    <3>1. TopOf(t) \in Lockers(d)
      BY <1>1, <2>2, <2>8, TopIsIn DEF f
    <3>2. entry[d].bLocked
      BY <3>1 DEF LockKept
    <3>3. Holders(d) = {} \/ entry'[d].hEvent # "set"
      BY <1>4, <1>9, <2>8
    <3>4. Holders(d)' = Holders(d) /\ Waiters(d)' = Waiters(d)
      BY <2>3 DEF SameSets
    <3>5. /\ Unlocked(d).cached = entry[d].cached /\ Unlocked(d).lReferenceCount = entry[d].lReferenceCount
          /\ Unlocked(d).hEvent = entry[d].hEvent /\ ~ Unlocked(d).bLocked
      BY UnlockedIsEntry
    <3>6. EntryKept(d)' /\ ~ entry'[d].bLocked
      BY <2>6, <2>8, <3>2, <3>3, <3>4, <3>5, UnlockKept
    <3>7. Lockers(d)' = {}
      <4>1. Lockers(d)' = (Lockers(d) \ {TopOf(t)}) \cup (IF d \in Locks(g) THEN {TopOf(t)} ELSE {})
        BY <1>1, BecomeSets DEF f
      <4>. QED
        BY <2>2, <2>8, <3>1, <4>1 DEF LockKept
    <3>. QED
      BY <3>6, <3>7 DEF LockKept
  <2>. QED
    BY <2>7, <2>8
<1>. QED
  BY <1>8, <1>9

LEMMA IntrudedGrows ==
  ASSUME TypesFit, CallsFit, DirNext
  PROVE  intruded \subseteq intruded'
<1>1. PICK t \in DirThreads : OpenStep(t) \/ UpdateStep(t) \/ CommandStep(t) \/ MoveStep(t)
  BY DEF DirNext
<1>2. CASE OpenStep(t)
  BY <1>2 DEF OpenStep, AcquireDirectory, Wake, Exchange, LookAtDisk, ListDirectory, OpenBelow, ReadPermissions,
     FinishOpen, dirghosts
<1>3. CASE UpdateStep(t)
  BY <1>3 DEF UpdateStep, CallUpdate, SaveOwner, MarkParentOf, EndMark, dirghosts
<1>4. CASE CommandStep(t)
  BY <1>4 DEF CommandStep, Begin, MarkDir, CreateFile, WriteFile, DeleteFile, MakeDirectory, Returned, StatDirectory,
     DeletePermissions, RemoveDirectory, dirghosts
<1>5. CASE MoveStep(t)
  <2>1. CASE MoveUnlock(t)
    BY <2>1, MoveUnlockStep
  <2>2. CASE ~ MoveUnlock(t)
    BY <1>5, <2>2, Zenon DEF MoveStep, MoveBegins, MoveSource, MoveTarget, MoveRelease, MoveFile, MoveRest, MoveRestore,
       MoveRestored, dirghosts
  <2>. QED
    BY <2>1, <2>2
<1>. QED
  BY <1>1, <1>2, <1>3, <1>4, <1>5

LEMMA StepTable ==
  ASSUME TypesFit, CallsFit, TableKept, DirNext
  PROVE  TableKept'
<1> SUFFICES ASSUME NEW d \in Dirs \ intruded' PROVE EntryKept(d)' /\ LockKept(d)'
  BY DEF TableKept
<1>0. TypesFit' /\ d \in Dirs /\ EntryKept(d) /\ LockKept(d)
  BY StepFits, IntrudedGrows DEF TableKept
<1>1. PICK t \in DirThreads : OpenStep(t) \/ UpdateStep(t) \/ CommandStep(t) \/ MoveStep(t)
  BY DEF DirNext
<1>2. CASE OpenStep(t)
  BY <1>0, <1>2, AcquireDirectoryTable, WakeTable, ExchangeTable, LookAtDiskTable, ListDirectoryTable, OpenBelowTable,
     ReadPermissionsTable, FinishOpenTable DEF OpenStep
<1>3. CASE UpdateStep(t)
  BY <1>0, <1>3, CallUpdateTable, SaveOwnerTable, MarkParentOfTable, EndMarkTable DEF UpdateStep
<1>4. CASE CommandStep(t)
  <2>1. CASE Begin(t) \/ MarkDir(t)
    BY <1>0, <2>1, BeginTable, MarkDirTable
  <2>2. CASE ~ (Begin(t) \/ MarkDir(t))
    <3>1. Returned(t) => Top(t).op \in {"upload", "delete", "mkdir", "rmdir"}
      BY DoneIsCommand DEF Returned
    <3>2. \/ CreateFile(t) \/ WriteFile(t) \/ DeleteFile(t) \/ MakeDirectory(t) \/ StatDirectory(t)
          \/ DeletePermissions(t) \/ RemoveDirectory(t)
          \/ Returned(t) /\ Top(t).op \in {"upload", "delete", "mkdir", "rmdir"}
      BY <1>4, <2>2, <3>1 DEF CommandStep
    <3>3. CommandStays(t)
      BY <3>2, CommandsStay
    <3>. QED
      BY <1>0, <3>3, CommandTable DEF CommandStays
  <2>. QED
    BY <2>1, <2>2
<1>5. CASE MoveStep(t)
  BY <1>0, <1>5, MoveBeginsTable, MoveSourceTable, MoveTargetTable, MoveReleaseTable, MoveFileTable, MoveRestTable,
     MoveRestoreTable, MoveRestoredTable, MoveUnlockTable DEF MoveStep
<1>. QED
  BY <1>1, <1>2, <1>3, <1>4, <1>5

-------------------------------------------------------------------------------
(* What was promised: an entry that is behind what an open must see now is *)
(* marked, or whoever has the directory reads it again.  Who has read the  *)
(* directory and who has opened it for an update use what they have read.  *)
Matters(f) ==
  (f.op = "open" /\ f.at \in {"look", "list", "below", "finish"}) \/ (f.op = "update" /\ f.at = "held")
Uses(f, d) == f.dir = d /\ d \in f.holds /\ Matters(f)
Busy(f)    == f.dir \in f.holds /\ Matters(f)
Users(d)   == {c \in Calls : Uses(CallAt(c), d)}

Reading(f) ==
  /\ f.op = "open"
  /\ (f.at = "look" /\ ~ f.check) \/ f.at \in {"list", "below"} \/ (f.at = "finish" /\ f.missing)
Behind(e, p)  == e.cached /\ e.info # NoInfo /\ e.info.stamp < p /\ ~ e.lForceUpdate
Sees(e, due)  == e.info = NoInfo \/ e.info.stamp >= due
SeesNow(f, e) ==
  f.op = "open" =>
    /\ (f.at = "look" /\ f.check) => Sees(e, f.due)
    /\ f.at = "finish" => f.failed \/ Sees(e, f.due)
HasRead(f, e, p) ==
  /\ (f.op = "open" /\ f.at = "below") => (f.list.stamp >= f.due /\ (f.list.stamp >= p \/ e.lForceUpdate))
  /\ f.op = "update" => e.info # NoInfo

Promised(d) ==
  /\ \A c \in Users(d) : HasRead(CallAt(c), entry[d], promised[d])
  /\ d \notin overlooked =>
       /\ Behind(entry[d], promised[d]) => \E c \in Users(d) : Reading(CallAt(c))
       /\ \A c \in Users(d) : SeesNow(CallAt(c), entry[d])

Due(f)     == f.op = "open" => f.due <= promised[f.dir]
DuesKept   == \A c \in Calls : Due(CallAt(c))
StampsKept == \A d \in Dirs : promised[d] <= volume[d].stamp

PromisesKept == StampsKept /\ DuesKept /\ \A d \in Dirs \ intruded : Promised(d)

\* Calls that are as far, for what was promised.
Alike(f, g) ==
  /\ f.op = g.op /\ f.at = g.at /\ f.check = g.check /\ f.missing = g.missing /\ f.due = g.due /\ f.list = g.list
  /\ f.dir = g.dir /\ f.holds = g.holds
  /\ (f.op = "open" /\ f.at = "finish") => f.failed = g.failed

SameUsers(d) == Users(d)' = Users(d) /\ \A c \in Users(d) : Alike(CallAt(c)', CallAt(c))
DuesCome     == \A c \in Calls' : Due(CallAt(c)')
StackStays   == DuesCome /\ \A d \in Dirs : SameUsers(d)

LEMMA AlikeIsSame ==
  ASSUME NEW f, NEW g, Alike(f, g)
  PROVE  /\ \A d : Uses(f, d) <=> Uses(g, d)
         /\ Reading(f) <=> Reading(g)
         /\ \A e : SeesNow(f, e) <=> SeesNow(g, e)
         /\ \A e, p : HasRead(f, e, p) <=> HasRead(g, e, p)
         /\ Due(f) <=> Due(g)
<1>1. \A d : Uses(f, d) <=> Uses(g, d)
  BY DEF Alike, Uses, Matters
<1>2. Reading(f) <=> Reading(g)
  BY DEF Alike, Reading
<1>3. \A e : SeesNow(f, e) <=> SeesNow(g, e)
  BY DEF Alike, SeesNow
<1>4. \A e, p : HasRead(f, e, p) <=> HasRead(g, e, p)
  BY DEF Alike, HasRead
<1>5. Due(f) <=> Due(g)
  BY DEF Alike, Due
<1>. QED
  BY <1>1, <1>2, <1>3, <1>4, <1>5

LEMMA SelfAlike ==
  ASSUME NEW f
  PROVE  Alike(f, f)
BY DEF Alike

LEMMA UsersHold ==
  ASSUME NEW d
  PROVE  Users(d) \subseteq Holders(d)
BY DEF Users, Holders, Uses

LEMMA TopUses ==
  ASSUME TypesFit, NEW t \in DirThreads, stack[t] # <<>>, NEW d
  PROVE  TopOf(t) \in Users(d) <=> Uses(Top(t), d)
BY TopIsCall DEF Users

LEMMA UsersNext ==
  ASSUME NEW d
  PROVE  Users(d)' = {c \in Calls' : Uses(CallAt(c)', d)}
BY DEF Users, Uses, Matters

LEMMA PromisedNext ==
  ASSUME NEW d,
         \A c \in Users(d)' : HasRead(CallAt(c)', entry'[d], promised'[d]),
         d \notin overlooked' =>
           /\ Behind(entry'[d], promised'[d]) => \E c \in Users(d)' : Reading(CallAt(c)')
           /\ \A c \in Users(d)' : SeesNow(CallAt(c)', entry'[d])
  PROVE  Promised(d)'
BY DEF Promised, HasRead, Behind, Sees, SeesNow, Reading

LEMMA BecomeUsers ==
  ASSUME TypesFit, NEW t \in DirThreads, stack[t] # <<>>, NEW f \in Frames, Become(t, f), NEW d
  PROVE  /\ Users(d)' = (Users(d) \ {TopOf(t)}) \cup (IF Uses(f, d) THEN {TopOf(t)} ELSE {})
         /\ \A c \in Users(d) \ {TopOf(t)} : CallAt(c)' = CallAt(c)
         /\ \A c \in {TopOf(t)} : CallAt(c)' = f
<1>1. Calls' = Calls /\ \A c \in Calls : CallAt(c)' = IF c = TopOf(t) THEN f ELSE CallAt(c)
  BY BecomeCalls
<1>2. TopOf(t) \in Calls
  BY TopIsCall
<1>3. Users(d)' = {c \in Calls' : Uses(CallAt(c)', d)}
  BY UsersNext
<1>4. Users(d)' = (Users(d) \ {TopOf(t)}) \cup (IF Uses(f, d) THEN {TopOf(t)} ELSE {})
  BY <1>1, <1>2, <1>3 DEF Users
<1>5. \A c \in Users(d) \ {TopOf(t)} : CallAt(c)' = CallAt(c)
  BY <1>1 DEF Users
<1>. QED
  BY <1>1, <1>2, <1>4, <1>5

LEMMA BecomeDues ==
  ASSUME TypesFit, DuesKept, NEW t \in DirThreads, stack[t] # <<>>, NEW f \in Frames, Become(t, f), Due(f)
  PROVE  DuesCome
<1>1. Calls' = Calls /\ \A c \in Calls : CallAt(c)' = IF c = TopOf(t) THEN f ELSE CallAt(c)
  BY BecomeCalls
<1>. QED
  BY <1>1 DEF DuesKept, DuesCome

LEMMA TopDue ==
  ASSUME TypesFit, DuesKept, NEW t \in DirThreads, stack[t] # <<>>
  PROVE  Due(Top(t))
BY TopIsCall DEF DuesKept

\* A call that does not use what has been read goes on.
LEMMA BecomeStays ==
  ASSUME TypesFit, DuesKept, NEW t \in DirThreads, stack[t] # <<>>, NEW f \in Frames, Become(t, f),
         ~ Busy(Top(t)), ~ Busy(f), Due(f)
  PROVE  StackStays
<1>1. DuesCome
  BY BecomeDues
<1>2. ASSUME NEW d \in Dirs PROVE SameUsers(d)
  <2>1. /\ Users(d)' = (Users(d) \ {TopOf(t)}) \cup (IF Uses(f, d) THEN {TopOf(t)} ELSE {})
        /\ \A c \in Users(d) \ {TopOf(t)} : CallAt(c)' = CallAt(c)
    BY BecomeUsers
  <2>2. TopOf(t) \notin Users(d) /\ ~ Uses(f, d)
    BY TopUses DEF Uses, Busy
  <2>. QED
    BY <2>1, <2>2, SelfAlike DEF SameUsers
<1>. QED
  BY <1>1, <1>2 DEF StackStays

\* A call that is as far as it was makes another.
LEMMA EnterStays ==
  ASSUME TypesFit, DuesKept, NEW t \in DirThreads, stack[t] # <<>>, NEW g \in Frames, NEW f \in Frames, Enter(t, g, f),
         f.holds = {}, Due(f), Alike(g, Top(t)) \/ (~ Busy(Top(t)) /\ ~ Busy(g) /\ Due(g))
  PROVE  StackStays
<1>1. /\ Calls' = Calls \cup {<<t, Len(stack[t]) + 1>>}
      /\ \A c \in Calls : CallAt(c)' = IF c = TopOf(t) THEN g ELSE CallAt(c)
      /\ \A c \in Calls' \ Calls : CallAt(c)' = f
  BY EnterCalls
<1>2. CallAt(TopOf(t)) = Top(t) /\ TopOf(t) \in Calls
  BY TopIsCall
<1>3. Due(g)
  BY TopDue, AlikeIsSame
<1>4. DuesCome
  BY <1>1, <1>3 DEF DuesCome, DuesKept
<1>5. ASSUME NEW d \in Dirs PROVE SameUsers(d)
  <2>1. Users(d)' = {c \in Calls' : Uses(CallAt(c)', d)}
    BY UsersNext
  <2>2. ~ Uses(f, d) /\ (Uses(g, d) <=> Uses(Top(t), d))
    <3>1. ~ Uses(f, d)
      BY DEF Uses
    <3>2. CASE Alike(g, Top(t))
      BY <3>1, <3>2, AlikeIsSame
    <3>3. CASE ~ Busy(Top(t)) /\ ~ Busy(g)
      BY <3>1, <3>3 DEF Uses, Busy
    <3>. QED
      BY <3>2, <3>3
  <2>3. Users(d)' = Users(d)
    BY <1>1, <1>2, <2>1, <2>2 DEF Users
  <2>4. ASSUME NEW c \in Users(d) PROVE Alike(CallAt(c)', CallAt(c))
    <3>1. c \in Calls /\ Uses(CallAt(c), d)
      BY DEF Users
    <3>2. CASE c = TopOf(t)
      <4>1. Busy(Top(t))
        BY <1>2, <3>1, <3>2 DEF Uses, Busy
      <4>2. Alike(g, Top(t))
        BY <4>1
      <4>3. CallAt(c)' = g /\ CallAt(c) = Top(t)
        BY <1>1, <1>2, <3>2
      <4>. QED
        BY <4>2, <4>3
    <3>3. CASE c # TopOf(t)
      <4>1. CallAt(c)' = CallAt(c)
        BY <1>1, <3>1, <3>3
      <4>. QED
        BY <4>1, SelfAlike
    <3>. QED
      BY <3>2, <3>3
  <2>. QED
    BY <2>3, <2>4 DEF SameUsers
<1>. QED
  BY <1>4, <1>5 DEF StackStays

LEMMA ReturnStays ==
  ASSUME TypesFit, DuesKept, NEW t \in DirThreads, stack[t] # <<>>, Return(t), ~ Busy(Top(t))
  PROVE  StackStays
<1>1. Calls' = Calls \ {TopOf(t)} /\ \A c \in Calls' : CallAt(c)' = CallAt(c)
  BY ReturnCalls
<1>2. DuesCome
  BY <1>1 DEF DuesCome, DuesKept
<1>3. ASSUME NEW d \in Dirs PROVE SameUsers(d)
  <2>1. Users(d)' = {c \in Calls' : Uses(CallAt(c)', d)}
    BY UsersNext
  <2>2. TopOf(t) \notin Users(d)
    BY TopUses DEF Uses, Busy
  <2>3. Users(d)' = Users(d) /\ \A c \in Users(d) : CallAt(c)' = CallAt(c)
    BY <1>1, <2>1, <2>2 DEF Users
  <2>. QED
    BY <2>3, SelfAlike DEF SameUsers
<1>. QED
  BY <1>2, <1>3 DEF StackStays

\* Whoever is told that a call has ended is as far as before, unless it keeps something.
LEMMA ToldIsAlike ==
  ASSUME TypesFit, CallsFit, NEW t \in DirThreads, stack[t] # <<>>, NEW ok \in BOOLEAN, NEW kept \in SUBSET Dirs,
         <<t, Len(stack[t]) - 1>> \in Calls, NEW g, g = CallAt(<<t, Len(stack[t]) - 1>>)
  PROVE  /\ Told(t, g, ok, kept).holds = g.holds \cup kept /\ Told(t, g, ok, kept).dir = g.dir
         /\ Told(t, g, ok, kept).op = g.op /\ Told(t, g, ok, kept).at = g.at
         /\ kept = {} => Alike(Told(t, g, ok, kept), g)
         /\ Due(Told(t, g, ok, kept)) <=> Due(g)
         /\ g.op = "update" => Top(t).keep /\ g.dir = Top(t).dir
<1>1. g \in Frames /\ Calling(g, Top(t))
  BY CallerIs
<1> DEFINE h == Told(t, g, ok, kept)
<1>2. /\ h.op = g.op /\ h.at = g.at /\ h.check = g.check /\ h.missing = g.missing /\ h.due = g.due /\ h.list = g.list
      /\ h.dir = g.dir /\ h.holds = g.holds \cup kept
  BY <1>1 DEF Frames, Told
<1> HIDE DEF h
<1>3. ~ (g.op = "open" /\ g.at = "finish") /\ (g.op = "update" => Top(t).keep /\ g.dir = Top(t).dir)
  BY <1>1 DEF Calling
<1>4. kept = {} => Alike(h, g)
  BY <1>2, <1>3 DEF Alike
<1>5. Due(h) <=> Due(g)
  BY <1>2 DEF Due
<1>. QED
  BY <1>2, <1>3, <1>4, <1>5 DEF h

LEMMA ReturnToDues ==
  ASSUME TypesFit, CallsFit, DuesKept, NEW t \in DirThreads, stack[t] # <<>>, NEW ok \in BOOLEAN,
         NEW kept \in SUBSET Dirs, ReturnTo(t, ok, kept)
  PROVE  DuesCome
<1> DEFINE b == <<t, Len(stack[t]) - 1>>
           h(g) == Told(t, g, ok, kept)
<1>1. Calls' = Calls \ {TopOf(t)} /\ \A c \in Calls' : IF c = b THEN CallAt(c)' = h(CallAt(c)) ELSE CallAt(c)' = CallAt(c)
  BY ReturnToCalls
<1>2. b \in Calls => (Due(h(CallAt(b))) <=> Due(CallAt(b)))
  BY ToldIsAlike
<1> HIDE DEF h, b
<1>. QED
  BY <1>1, <1>2 DEF DuesCome, DuesKept

LEMMA ReturnToUsers ==
  ASSUME TypesFit, CallsFit, NEW t \in DirThreads, stack[t] # <<>>, NEW ok \in BOOLEAN, ReturnTo(t, ok, {}), NEW d
  PROVE  /\ Users(d)' = Users(d) \ {TopOf(t)}
         /\ \A c \in Users(d)' : Alike(CallAt(c)', CallAt(c))
<1> DEFINE b == <<t, Len(stack[t]) - 1>>
           h(g) == Told(t, g, ok, {})
<1>0. {} \in SUBSET Dirs
  OBVIOUS
<1>1. Calls' = Calls \ {TopOf(t)} /\ \A c \in Calls' : IF c = b THEN CallAt(c)' = h(CallAt(c)) ELSE CallAt(c)' = CallAt(c)
  BY <1>0, ReturnToCalls
<1>2. b \in Calls => Alike(h(CallAt(b)), CallAt(b))
  BY <1>0, ToldIsAlike
<1> HIDE DEF h, b
<1>3. ASSUME NEW c \in Calls' PROVE Alike(CallAt(c)', CallAt(c)) /\ (Uses(CallAt(c)', d) <=> Uses(CallAt(c), d))
  <2>1. Alike(CallAt(c)', CallAt(c))
    BY <1>1, <1>2, SelfAlike
  <2>. QED
    BY <2>1, AlikeIsSame
<1>4. Users(d)' = {c \in Calls' : Uses(CallAt(c)', d)}
  BY UsersNext
<1>. QED
  BY <1>1, <1>3, <1>4 DEF Users

LEMMA ReturnToStays ==
  ASSUME TypesFit, CallsFit, DuesKept, NEW t \in DirThreads, stack[t] # <<>>, ~ Busy(Top(t)),
         ReturnTo(t, TRUE, {}) \/ ReturnTo(t, FALSE, {})
  PROVE  StackStays
<1>1. PICK ok \in BOOLEAN : ReturnTo(t, ok, {})
  OBVIOUS
<1>2. {} \in SUBSET Dirs
  OBVIOUS
<1>3. DuesCome
  BY <1>1, <1>2, ReturnToDues
<1>4. ASSUME NEW d \in Dirs PROVE SameUsers(d)
  <2>1. Users(d)' = Users(d) \ {TopOf(t)} /\ \A c \in Users(d)' : Alike(CallAt(c)', CallAt(c))
    BY <1>1, ReturnToUsers
  <2>2. TopOf(t) \notin Users(d)
    BY TopUses DEF Uses, Busy
  <2>. QED
    BY <2>1, <2>2 DEF SameUsers
<1>. QED
  BY <1>3, <1>4 DEF StackStays

\* An entry, as far as what was promised goes, stays or is of no use to anybody.
EntryStays(d) ==
  /\ entry'[d].info = entry[d].info /\ (entry'[d].cached => entry[d].cached)
  /\ entry[d].lForceUpdate => entry'[d].lForceUpdate
EntryGoes(d) ==
  \/ EntryStays(d) /\ (promised'[d] = promised[d] \/ entry'[d].lForceUpdate)
  \/ Users(d) = {} /\ ~ Behind(entry'[d], promised'[d])
PromisesStay == DuesCome /\ \A d \in Dirs : EntryKept(d) /\ Promised(d) => Promised(d)'

LEMMA EmptyPromised ==
  ASSUME NEW d, Users(d)' = {}, ~ Behind(entry'[d], promised'[d])
  PROVE  Promised(d)'
BY PromisedNext

LEMMA QuietPromised ==
  ASSUME NEW d \in Dirs, Promised(d), SameUsers(d), EntryGoes(d), d \in overlooked => d \in overlooked'
  PROVE  Promised(d)'
<1>1. CASE EntryStays(d) /\ (promised'[d] = promised[d] \/ entry'[d].lForceUpdate)
  <2>1. ASSUME NEW c \in Users(d)'
        PROVE  /\ HasRead(CallAt(c)', entry'[d], promised'[d])
               /\ d \notin overlooked' => SeesNow(CallAt(c)', entry'[d])
               /\ c \in Users(d) /\ (Reading(CallAt(c)') <=> Reading(CallAt(c)))
    <3>1. c \in Users(d) /\ Alike(CallAt(c)', CallAt(c))
      BY DEF SameUsers
    <3>2. HasRead(CallAt(c), entry[d], promised[d]) /\ (d \notin overlooked => SeesNow(CallAt(c), entry[d]))
      BY <3>1 DEF Promised
    <3>3. HasRead(CallAt(c), entry'[d], promised'[d])
      BY <1>1, <3>2 DEF HasRead, EntryStays
    <3>4. d \notin overlooked' => SeesNow(CallAt(c), entry'[d])
      BY <1>1, <3>2 DEF SeesNow, Sees, EntryStays
    <3>. QED
      BY <3>1, <3>3, <3>4, AlikeIsSame
  <2>2. ASSUME d \notin overlooked', Behind(entry'[d], promised'[d])
        PROVE  \E c \in Users(d)' : Reading(CallAt(c)')
    <3>1. Behind(entry[d], promised[d]) /\ d \notin overlooked
      BY <1>1, <2>2 DEF Behind, EntryStays
    <3>2. PICK c \in Users(d) : Reading(CallAt(c))
      BY <3>1 DEF Promised
    <3>3. c \in Users(d)'
      BY DEF SameUsers
    <3>. QED
      BY <2>1, <3>2, <3>3
  <2>. QED
    BY <2>1, <2>2, PromisedNext
<1>2. CASE Users(d) = {} /\ ~ Behind(entry'[d], promised'[d])
  BY <1>2, EmptyPromised DEF SameUsers
<1>. QED
  BY <1>1, <1>2 DEF EntryGoes

LEMMA QuietPromises ==
  ASSUME StackStays, overlooked \subseteq overlooked', \A d \in Dirs : EntryKept(d) => EntryGoes(d)
  PROVE  PromisesStay
BY QuietPromised DEF StackStays, PromisesStay

LEMMA AcquireGoes ==
  ASSUME NEW t, NEW b \in Dirs, NEW tab \in [Dirs -> Entries], NEW list \in Seq(Dirs), NEW then \in Later,
         Acquire(t, b, tab, list, then), NEW d \in Dirs,
         tab[d].info = entry[d].info, tab[d].cached = entry[d].cached, entry[d].lForceUpdate => tab[d].lForceUpdate
  PROVE  EntryStays(d) /\ (tab[d].lForceUpdate => entry'[d].lForceUpdate)
<1>1. Acquired(b, tab)
  BY AcquireMeans
<1>. QED
  BY <1>1 DEF Acquired, Stays, EntryStays

LEMMA InsertGoes ==
  ASSUME TypesFit, NEW t, NEW b \in Dirs, NEW then \in Later, InsertAndAcquire(t, b, then), UNCHANGED promised,
         NEW d \in Dirs, EntryKept(d)
  PROVE  EntryGoes(d)
<1>1. /\ Gone \in Dirs => Listed(lpDirectoryList, Gone)
      /\ Left \in [Dirs -> Entries] /\ Without(lpDirectoryList, Gone) \in Seq(Dirs)
      /\ \A e \in Dirs : Left[e] = IF e = Gone THEN NoEntry ELSE entry[e]
  BY GoneMeans
<1>2. d = Gone => Users(d) = {}
  BY <1>1, EntryMeans, UsersHold
<1>3. ~ entry[d].cached => Users(d) = {}
  BY EntryMeans, UsersHold
<1>4. ~ NoEntry.cached /\ NewEntry.info = NoInfo
  BY NoEntryIsEntry
<1>5. CASE ~ Left[b].cached /\ entry' = [Left EXCEPT ![b] = NewEntry]
  <2>1. CASE d = b
    <3>1. entry'[d] = NewEntry
      BY <1>1, <1>5, <2>1
    <3>2. Users(d) = {}
      BY <1>1, <1>2, <1>3, <1>5, <2>1
    <3>. QED
      BY <1>4, <3>1, <3>2 DEF EntryGoes, Behind
  <2>2. CASE d # b
    <3>1. entry'[d] = IF d = Gone THEN NoEntry ELSE entry[d]
      BY <1>1, <1>5, <2>2
    <3>. QED
      BY <1>2, <1>4, <3>1 DEF EntryGoes, EntryStays, Behind
  <2>. QED
    BY <2>1, <2>2
<1>6. CASE Left[b].cached /\ Acquire(t, b, Left, Without(lpDirectoryList, Gone), then)
  <2>1. Acquired(b, Left)
    BY <1>1, <1>6, AcquireMeans
  <2>2. CASE d = Gone
    <3>1. d # b
      BY <1>1, <1>4, <1>6, <2>2
    <3>2. entry'[d] = NoEntry
      BY <1>1, <2>1, <2>2, <3>1 DEF Acquired
    <3>. QED
      BY <1>2, <1>4, <2>2, <3>2 DEF EntryGoes, Behind
  <2>3. CASE d # Gone
    <3>1. Left[d] = entry[d]
      BY <1>1, <2>3
    <3>2. EntryStays(d)
      BY <1>1, <1>6, <3>1, AcquireGoes
    <3>. QED
      BY <3>2 DEF EntryGoes
  <2>. QED
    BY <2>2, <2>3
<1>. QED
  BY <1>5, <1>6, InsertMeans

\* A directory that is released and stays in the table.
LEMMA ReleaseStays ==
  ASSUME TypesFit, NEW b \in Dirs, NEW e \in Entries, Release(b, e, FALSE), NEW d \in Dirs,
         e.info = entry[b].info, e.cached = entry[b].cached, entry[b].lForceUpdate => e.lForceUpdate
  PROVE  EntryStays(d) /\ (d = b => (e.lForceUpdate => entry'[d].lForceUpdate))
<1>1. PICK delete \in BOOLEAN : delete = FALSE
  OBVIOUS
<1>2. 1 \in Int
  OBVIOUS
<1>3. Release2(b, e, 1, delete)
  BY <1>1 DEF Release
<1>4. /\ \A c \in Dirs \ {b} : entry'[c] = entry[c]
      /\ \/ HandedOver(b, e, e.lReferenceCount - 1)
         \/ delete /\ Forgotten(b, e, e.lReferenceCount - 1)
         \/ ~ delete /\ Unused(b, e, e.lReferenceCount - 1)
  BY <1>2, <1>3, ReleaseMeans
<1>5. Stays(entry'[b], e)
  BY <1>1, <1>4 DEF HandedOver, Unused
<1>. QED
  BY <1>4, <1>5 DEF Stays, EntryStays

-------------------------------------------------------------------------------
(* The steps that leave alone what was promised.                           *)
LEMMA OtherStays ==
  ASSUME TypesFit, TypesFit', DuesKept, NEW t \in DirThreads, stack[t] # <<>>, NEW f, Become(t, f),
         f.op = Top(t).op, Top(t).op \notin {"open", "update"}
  PROVE  StackStays
<1>1. f \in Frames
  BY BecomeIsFrame
<1>2. ~ Busy(Top(t)) /\ ~ Busy(f) /\ Due(f)
  BY DEF Busy, Matters, Due
<1>. QED
  BY <1>1, <1>2, BecomeStays

LEMMA GetsStays ==
  ASSUME TypesFit, DuesKept, NEW t \in DirThreads, stack[t] # <<>>, ~ Busy(Top(t)),
         NEW d \in Dirs, NEW then \in Later,
         Become(t, Has(Top(t), d, then)) \/ Become(t, WaitsFor(Top(t), d, then))
  PROVE  StackStays
<1>1. PICK f : (f = Has(Top(t), d, then) \/ f = WaitsFor(Top(t), d, then)) /\ Become(t, f)
  OBVIOUS
<1>2. Top(t) \in Frames /\ Due(Top(t))
  BY TopIsCall, TopDue
<1>3. f \in Frames /\ f.op = Top(t).op /\ f.at \in Later \cup {"wait"} /\ f.dir = Top(t).dir /\ f.due = Top(t).due
  BY <1>1, <1>2, HasIsFrame, WaitsIsFrame
<1>4. ~ Busy(f)
  BY <1>3 DEF Busy, Matters, Later
<1>5. Due(f)
  BY <1>2, <1>3 DEF Due
<1>. QED
  BY <1>1, <1>3, <1>4, <1>5, BecomeStays

LEMMA InsertPromises ==
  ASSUME TypesFit, DuesKept, NEW t \in DirThreads, stack[t] # <<>>, ~ Busy(Top(t)),
         NEW d \in Dirs, NEW then \in Later, InsertAndAcquire(t, d, then), UNCHANGED <<promised, overlooked>>
  PROVE  PromisesStay
<1>1. Become(t, Has(Top(t), d, then)) \/ Become(t, WaitsFor(Top(t), d, then))
  BY InsertMeans DEF Acquire
<1>2. StackStays
  BY <1>1, GetsStays
<1>3. \A e \in Dirs : EntryKept(e) => EntryGoes(e)
  BY InsertGoes
<1>. QED
  BY <1>2, <1>3, QuietPromises

LEMMA UnchangedGoes ==
  ASSUME UNCHANGED <<entry, promised>>, NEW d
  PROVE  EntryGoes(d)
BY DEF EntryGoes, EntryStays

LEMMA SamePromises ==
  ASSUME StackStays, UNCHANGED <<entry, promised, overlooked>>
  PROVE  PromisesStay
BY UnchangedGoes, QuietPromises

\* A directory is released by a call that does not use what was read.
LEMMA ReleasePromises ==
  ASSUME TypesFit, StackStays, NEW b \in Dirs, NEW e \in Entries, Release(b, e, FALSE),
         e.info = entry[b].info, e.cached = entry[b].cached, entry[b].lForceUpdate => e.lForceUpdate,
         UNCHANGED <<promised, overlooked>>
  PROVE  PromisesStay
<1>1. ASSUME NEW d \in Dirs PROVE EntryGoes(d)
  BY ReleaseStays DEF EntryGoes
<1>. QED
  BY <1>1, QuietPromises

LEMMA AcquireDirectoryPromises ==
  ASSUME TypesFit, DuesKept, NEW t \in DirThreads, AcquireDirectory(t)
  PROVE  PromisesStay
<1>1. stack[t] # <<>> /\ Top(t).op = "open" /\ Top(t).at = "acquire" /\ InsertAndAcquire(t, Top(t).dir, "opened")
      /\ UNCHANGED <<promised, overlooked>>
  BY DEF AcquireDirectory, In, dirghosts
<1>2. Top(t).dir \in Dirs /\ "opened" \in Later
  BY <1>1, TopIsCall DEF Frames, Later
<1>3. ~ Busy(Top(t))
  BY <1>1 DEF Busy, Matters
<1>. QED
  BY <1>1, <1>2, <1>3, InsertPromises

LEMMA OpenBelowPromises ==
  ASSUME TypesFit, CallsFit, DuesKept, NEW t \in DirThreads, OpenBelow(t)
  PROVE  PromisesStay
<1>1. stack[t] # <<>> /\ Top(t).op = "open" /\ Top(t).at = "below" /\ UNCHANGED <<entry, promised, overlooked>>
  BY DEF OpenBelow, In, cache, dirghosts
<1>2. Top(t) \in Frames /\ Top(t).todo \subseteq Dirs
  BY <1>1, TopIsCall, TopFits DEF Fits, OpenFits
<1>3. PICK c \in Top(t).todo : Enter(t, [Top(t) EXCEPT !.todo = @ \ {c}], Open(c, FALSE, FALSE))
  BY DEF OpenBelow
<1> DEFINE g == [Top(t) EXCEPT !.todo = @ \ {c}]
<1>4. g \in Frames /\ Alike(g, Top(t))
  BY <1>2 DEF Frames, Alike
<1>5. PICK no \in BOOLEAN : no = FALSE
  OBVIOUS
<1>6. Open(c, no, no) \in Frames /\ Open(c, no, no).holds = {} /\ Open(c, no, no).due = promised[c]
      /\ Open(c, no, no).dir = c
  BY <1>2, <1>3, OpenIsFrame
<1>6a. promised[c] \in Int
  BY <1>2, <1>3 DEF TypesFit
<1>7. Due(Open(c, no, no))
  BY <1>6, <1>6a DEF Due
<1> HIDE DEF g
<1>8. Enter(t, g, Open(c, no, no))
  BY <1>3, <1>5 DEF g
<1>9. StackStays
  BY <1>1, <1>4, <1>6, <1>7, <1>8, EnterStays
<1>. QED
  BY <1>1, <1>9, SamePromises

LEMMA WakePromises ==
  ASSUME TypesFit, TypesFit', CallsFit, DuesKept, NEW t \in DirThreads, Wake(t)
  PROVE  PromisesStay
<1> DEFINE f == Top(t)
           g == [f EXCEPT !.at = f.then, !.then = "", !.on = NoDir,
                          !.check = entry[f.on].lForceUpdate, !.holds = @ \cup {f.on}]
<1>1. stack[t] # <<>> /\ f.at = "wait" /\ Become(t, g) /\ entry' = [entry EXCEPT ![f.on].hEvent = "reset"]
      /\ UNCHANGED <<promised, overlooked>>
  BY DEF Wake, dirghosts
<1>2. f \in Frames /\ Fits(f) /\ g \in Frames /\ Due(f)
  BY <1>1, TopIsCall, TopFits, TopDue, BecomeIsFrame
<1>3. g.op = f.op /\ g.at = f.then /\ g.dir = f.dir /\ g.due = f.due
  BY <1>2 DEF Frames
<1> HIDE DEF g, f
<1>4. f.then \in {"opened", "marking", "source", "target", "restored"}
  BY <1>1, <1>2 DEF Fits, OpenFits, UpdateFits, CommandFits, MoveFits
<1>5. ~ Busy(f) /\ ~ Busy(g) /\ Due(g)
  BY <1>1, <1>2, <1>3, <1>4 DEF Busy, Matters, Due
<1>6. StackStays
  BY <1>1, <1>2, <1>5, BecomeStays DEF f
<1>7. ASSUME NEW d \in Dirs PROVE EntryGoes(d)
  <2>1. entry'[d].info = entry[d].info /\ entry'[d].cached = entry[d].cached
        /\ entry'[d].lForceUpdate = entry[d].lForceUpdate
    BY <1>1 DEF TypesFit, Entries
  <2>. QED
    BY <1>1, <2>1 DEF EntryGoes, EntryStays
<1>. QED
  BY <1>1, <1>6, <1>7, QuietPromises

LEMMA CallUpdatePromises ==
  ASSUME TypesFit, CallsFit, DuesKept, NEW t \in DirThreads, CallUpdate(t)
  PROVE  PromisesStay
<1> DEFINE f == Top(t)
<1>1. stack[t] # <<>> /\ f.op = "update" /\ f.at = "call" /\ UNCHANGED <<entry, promised, overlooked>>
  BY DEF CallUpdate, In, dirghosts, cache
<1>2. f \in Frames /\ Fits(f) /\ f.dir \in Dirs
  BY <1>1, TopIsCall, TopFits DEF Frames
<1>3. Enter(t, At(f, "held"), Open(f.dir, FALSE, TRUE)) \/ ReturnTo(t, FALSE, {})
  BY DEF CallUpdate, Call, At
<1> HIDE DEF f
<1>4. f.holds = {} /\ ~ Busy(f)
  BY <1>1, <1>2 DEF Fits, UpdateFits, Busy
<1>5. ASSUME Enter(t, At(f, "held"), Open(f.dir, FALSE, TRUE)) PROVE StackStays
  <2>0. PICK r \in BOOLEAN, k \in BOOLEAN : ~ r /\ k
    OBVIOUS
  <2> DEFINE g == At(f, "held")
             h == Open(f.dir, r, k)
  <2>1. "held" \in Places /\ promised[f.dir] \in Int
    BY <1>2 DEF Places, TypesFit
  <2>2. g \in Frames /\ g.op = f.op /\ g.holds = f.holds
    BY <1>2, <2>1, AtIsFrame
  <2> HIDE DEF g
  <2>3. ~ Busy(g) /\ Due(g)
    BY <1>1, <1>4, <2>2 DEF Busy, Due
  <2>4. h \in Frames /\ h.op = "open" /\ h.dir = f.dir /\ h.holds = {} /\ h.due = promised[f.dir]
    BY <1>2, OpenIsFrame
  <2>5. Enter(t, g, h)
    <3>1. r = FALSE /\ k = TRUE
      BY <2>0
    <3>. QED
      BY <1>5, <3>1 DEF g
  <2> HIDE DEF h
  <2>6. Due(h)
    BY <2>1, <2>4 DEF Due
  <2>. QED
    BY <1>1, <1>4, <2>2, <2>3, <2>4, <2>5, <2>6, EnterStays DEF f
<1>6. StackStays
  BY <1>1, <1>3, <1>4, <1>5, ReturnToStays DEF f
<1>. QED
  BY <1>1, <1>6, SamePromises

LEMMA EndMarkPromises ==
  ASSUME TypesFit, CallsFit, DuesKept, NEW t \in DirThreads, EndMark(t)
  PROVE  PromisesStay
<1> DEFINE f == Top(t)
           p == ParentDir[f.dir]
<1>1. /\ stack[t] # <<>> /\ f.op = "update" /\ f.at = "marking" /\ UNCHANGED <<promised, overlooked>>
      /\ Release(p, Marked(entry[p]), FALSE) /\ ReturnTo(t, TRUE, {})
  BY DEF EndMark, In, dirghosts, Marked
<1>2. f \in Frames /\ Fits(f) /\ f.dir \in Dirs
  BY <1>1, TopIsCall, TopFits DEF Frames
<1>3. ~ Busy(f)
  BY <1>1 DEF Busy, Matters
<1> HIDE DEF f
<1>4. f.dir \in Made
  BY <1>1, <1>2 DEF Fits, UpdateFits
<1>5. p \in Dirs /\ entry[p] \in Entries
  BY <1>4, DirectoryAssumption DEF Made, TypesFit
<1>6. StackStays
  BY <1>1, <1>3, ReturnToStays DEF f
<1>7. /\ Marked(entry[p]) \in Entries /\ Marked(entry[p]).info = entry[p].info
      /\ Marked(entry[p]).cached = entry[p].cached /\ Marked(entry[p]).lForceUpdate
  BY <1>5, MarkedIsEntry
<1>. QED
  BY <1>1, <1>5, <1>6, <1>7, ReleasePromises

LEMMA MarkParentOfPromises ==
  ASSUME TypesFit, CallsFit, DuesKept, NEW t \in DirThreads, MarkParentOf(t)
  PROVE  PromisesStay
<1> DEFINE f == Top(t)
           p == ParentDir[f.dir]
           tab == [entry EXCEPT ![p].lForceUpdate = TRUE]
<1>1. /\ stack[t] # <<>> /\ f.op = "update" /\ f.at = "mark" /\ UNCHANGED overlooked
      /\ promised' = [promised EXCEPT ![p] = volume[p].stamp]
  BY DEF MarkParentOf, In
<1>2. f \in Frames /\ Fits(f) /\ f.dir \in Dirs
  BY <1>1, TopIsCall, TopFits DEF Frames
<1>3. \/ Acquire(t, p, tab, lpDirectoryList, "marking")
      \/ ~ entry[p].cached /\ ReturnTo(t, TRUE, {}) /\ UNCHANGED entry
  BY DEF MarkParentOf, cache
<1>4. ~ Busy(f)
  BY <1>1 DEF Busy, Matters
<1> HIDE DEF f
<1>5. f.dir \in Made
  BY <1>1, <1>2 DEF Fits, UpdateFits
<1>6. p \in Dirs /\ entry[p] \in Entries
  BY <1>5, DirectoryAssumption DEF Made, TypesFit
<1>7. \A d \in Dirs \ {p} : promised'[d] = promised[d]
  BY <1>1, <1>6 DEF TypesFit
<1>8. CASE Acquire(t, p, tab, lpDirectoryList, "marking")
  <2>1. tab = [entry EXCEPT ![p] = Marked(entry[p])]
    BY <1>6 DEF TypesFit, Marked
  <2> HIDE DEF tab, p
  <2>2. tab \in [Dirs -> Entries] /\ tab[p] = Marked(entry[p]) /\ \A d \in Dirs \ {p} : tab[d] = entry[d]
    BY <1>6, <2>1, MarkedIsEntry DEF TypesFit
  <2>3. tab[p].lForceUpdate /\ tab[p].info = entry[p].info /\ tab[p].cached = entry[p].cached
    BY <1>6, <2>2, MarkedIsEntry
  <2>4. "marking" \in Later /\ lpDirectoryList \in Seq(Dirs)
    BY DEF Later, TypesFit
  <2>5. Become(t, Has(f, p, "marking")) \/ Become(t, WaitsFor(f, p, "marking"))
    BY <1>8 DEF Acquire, f
  <2>6. StackStays
    BY <1>1, <1>4, <1>6, <2>4, <2>5, GetsStays DEF f
  <2>7. ASSUME NEW d \in Dirs PROVE EntryGoes(d)
    <3>1. tab[d].info = entry[d].info /\ tab[d].cached = entry[d].cached
          /\ (entry[d].lForceUpdate => tab[d].lForceUpdate)
      BY <2>2, <2>3
    <3>2. EntryStays(d) /\ (tab[d].lForceUpdate => entry'[d].lForceUpdate)
      BY <1>6, <1>8, <2>2, <2>4, <3>1, AcquireGoes
    <3>. QED
      BY <1>7, <2>3, <3>2 DEF EntryGoes
  <2>. QED
    BY <1>1, <2>6, <2>7, QuietPromises
<1>9. CASE ~ entry[p].cached /\ ReturnTo(t, TRUE, {}) /\ UNCHANGED entry
  <2>1. StackStays
    BY <1>1, <1>4, <1>9, ReturnToStays DEF f
  <2> HIDE DEF p
  <2>2. ASSUME NEW d \in Dirs, EntryKept(d) PROVE EntryGoes(d)
    <3>1. CASE d = p
      <4>1. Users(d) = {}
        BY <1>9, <2>2, <3>1, EntryMeans, UsersHold
      <4>. QED
        BY <1>9, <3>1, <4>1 DEF EntryGoes, Behind
    <3>2. CASE d # p
      BY <1>7, <1>9, <3>2 DEF EntryGoes, EntryStays
    <3>. QED
      BY <3>1, <3>2
  <2>. QED
    BY <1>1, <2>1, <2>2, QuietPromises
<1>. QED
  BY <1>3, <1>8, <1>9

LEMMA BeginPromises ==
  ASSUME TypesFit, CallsFit, DuesKept, NEW t \in DirThreads, Begin(t)
  PROVE  PromisesStay
<1>1. PICK j \in plan[t] : stack' = [stack EXCEPT ![t] = <<Started(j)>>]
  BY DEF Begin
<1>2. stack[t] = <<>> /\ UNCHANGED <<entry, promised, overlooked>>
  BY DEF Begin, cache, dirghosts
<1>3. j \in Asked
  BY <1>1, DirectoryAssumption DEF TypesFit
<1> DEFINE f == Started(j)
<1>4. /\ f.holds = {} /\ f.dir \in Dirs
      /\ f.op = "open" => f.due = promised[f.dir]
  BY <1>3, StartedIsFrame
<1>5. /\ Calls' = Calls \cup {<<t, 1>>} /\ <<t, 1>> \notin Calls
      /\ \A c \in Calls : CallAt(c)' = CallAt(c)
      /\ CallAt(<<t, 1>>)' = f
  BY <1>1, <1>2, BeginCalls
<1> HIDE DEF f
<1>6. Due(f) /\ \A d : ~ Uses(f, d)
  BY <1>4 DEF Due, Uses, TypesFit
<1>7. DuesCome
  BY <1>5, <1>6 DEF DuesCome, DuesKept
<1>8. ASSUME NEW d \in Dirs PROVE SameUsers(d)
  <2>1. Users(d)' = {c \in Calls' : Uses(CallAt(c)', d)}
    BY UsersNext
  <2>2. Users(d)' = Users(d) /\ \A c \in Users(d) : CallAt(c)' = CallAt(c)
    BY <1>5, <1>6, <2>1 DEF Users
  <2>. QED
    BY <2>2, SelfAlike DEF SameUsers
<1>9. StackStays
  BY <1>7, <1>8 DEF StackStays
<1>. QED
  BY <1>2, <1>9, SamePromises

LEMMA CommandPromises ==
  ASSUME TypesFit, CallsFit, DuesKept, NEW t \in DirThreads, CommandStays(t)
  PROVE  PromisesStay
<1>1. /\ stack[t] # <<>> /\ Top(t).op \in {"upload", "delete", "mkdir", "rmdir"} /\ CommandGoesOn(t)
      /\ UNCHANGED <<entry, promised, overlooked>>
  BY DEF CommandStays
<1>2. Top(t) \in Frames /\ ~ Busy(Top(t))
  BY <1>1, TopIsCall DEF Busy, Matters
<1>3. ASSUME NEW at \in Places PROVE At(Top(t), at) \in Frames /\ ~ Busy(At(Top(t), at)) /\ Due(At(Top(t), at))
  <2>1. At(Top(t), at).op = Top(t).op /\ At(Top(t), at) \in Frames
    BY <1>2, AtIsFrame
  <2>. QED
    BY <1>1, <2>1 DEF Busy, Matters, Due
<1>4. ASSUME Return(t) PROVE StackStays
  BY <1>1, <1>2, <1>4, ReturnStays
<1>5. ASSUME NEW at \in Places, GoOn(t, at) PROVE StackStays
  <2>1. Become(t, At(Top(t), at))
    BY <1>5 DEF GoOn, At
  <2>. QED
    BY <1>1, <1>2, <1>3, <2>1, BecomeStays
<1>6. ASSUME NEW at \in Places, NEW h \in Frames, Call(t, at, h), h.holds = {}, h.op = "open" => h.due = promised[h.dir]
      PROVE  StackStays
  <2>1. Enter(t, At(Top(t), at), h)
    BY <1>6 DEF Call, At
  <2>2. promised[h.dir] \in Int
    BY DEF Frames, TypesFit
  <2>3. Due(h)
    BY <1>6, <2>2 DEF Due
  <2>. QED
    BY <1>1, <1>2, <1>3, <1>6, <2>1, <2>3, EnterStays
<1>7. StackStays
  <2>1. CASE \E at \in Places : GoOn(t, at)
    BY <1>5, <2>1
  <2>2. ASSUME NEW at \in Places, NEW h \in Frames,
               /\ Call(t, at, h) /\ h.holds = {} /\ h.on = NoDir /\ Locks(h) = {} /\ Tested(h) = {}
               /\ h.op = "open" => h.due = promised[h.dir]
        PROVE  StackStays
    BY <1>6, <2>2
  <2>. QED
    BY <1>1, <1>4, <2>1, <2>2 DEF CommandGoesOn
<1>. QED
  BY <1>1, <1>7, SamePromises

LEMMA MarkDirPromises ==
  ASSUME TypesFit, TypesFit', CallsFit, DuesKept, NEW t \in DirThreads, MarkDir(t)
  PROVE  PromisesStay
<1> DEFINE f == Top(t)
<1>1. /\ stack[t] # <<>> /\ f.op \in {"upload", "delete", "rmdir", "move"} /\ UNCHANGED overlooked
      /\ \/ GoOn(t, "mark parent")
         \/ Return(t)
  BY DEF MarkDir
<1>2. ~ Busy(f) /\ f \in Frames
  BY <1>1, TopIsCall DEF Busy, Matters
<1>3. StackStays
  <2>1. CASE GoOn(t, "mark parent")
    <3>1. Become(t, At(f, "mark parent")) /\ "mark parent" \in Places
      BY <2>1 DEF GoOn, At, Places
    <3>2. At(f, "mark parent").op = f.op
      BY <1>2, <3>1, AtIsFrame
    <3>. QED
      BY <1>1, <3>1, <3>2, OtherStays
  <2>. QED
    BY <1>1, <1>2, <2>1, ReturnStays
<1>4. PICK D : Mark(D)
  BY DEF MarkDir
<1>5. ASSUME NEW d \in Dirs, EntryKept(d) PROVE EntryGoes(d)
  <2>1. /\ entry'[d] = IF d \in D /\ entry[d].cached THEN Marked(entry[d]) ELSE entry[d]
        /\ promised'[d] = IF d \in D THEN volume[d].stamp ELSE promised[d]
    BY <1>4, MarkStays
  <2>2. entry[d] \in Entries
    BY DEF TypesFit
  <2>3. CASE d \in D /\ entry[d].cached
    BY <2>1, <2>2, <2>3, MarkedIsEntry DEF EntryGoes, EntryStays
  <2>4. CASE d \in D /\ ~ entry[d].cached
    <3>1. Users(d) = {}
      BY <1>5, <2>4, EntryMeans, UsersHold
    <3>. QED
      BY <2>1, <2>4, <3>1 DEF EntryGoes, Behind
  <2>5. CASE d \notin D
    BY <2>1, <2>5 DEF EntryGoes, EntryStays
  <2>. QED
    BY <2>3, <2>4, <2>5
<1>. QED
  BY <1>1, <1>3, <1>5, QuietPromises

LEMMA MoveBeginsPromises ==
  ASSUME TypesFit, CallsFit, DuesKept, NEW t \in DirThreads, MoveBegins(t)
  PROVE  PromisesStay
<1>1. /\ stack[t] # <<>> /\ Top(t).op = "move" /\ UNCHANGED <<promised, overlooked>>
      /\ \/ Return(t) /\ UNCHANGED entry
         \/ InsertAndAcquire(t, Top(t).dir, "source")
  BY DEF MoveBegins, In, cache, dirghosts
<1>2. Top(t).dir \in Dirs /\ "source" \in Later /\ ~ Busy(Top(t))
  BY <1>1, MoveTop DEF Later, Busy, Matters
<1>. QED
  BY <1>1, <1>2, ReturnStays, SamePromises, InsertPromises

LEMMA MoveSourcePromises ==
  ASSUME TypesFit, TypesFit', CallsFit, DuesKept, NEW t \in DirThreads, MoveSource(t)
  PROVE  PromisesStay
<1> DEFINE g == [Top(t) EXCEPT !.at = "unlock", !.failed = TRUE]
<1>1. /\ stack[t] # <<>> /\ Top(t).op = "move" /\ UNCHANGED <<promised, overlooked>>
      /\ \/ Become(t, g) /\ UNCHANGED entry
         \/ InsertAndAcquire(t, Top(t).x, "target")
  BY DEF MoveSource, In, cache, dirghosts
<1>2. Top(t) \in Frames /\ Top(t).x \in Dirs /\ "target" \in Later /\ ~ Busy(Top(t))
  BY <1>1, MoveTop DEF Later, Busy, Matters
<1>3. g.op = Top(t).op
  BY <1>2, ChangeKeeps
<1> HIDE DEF g
<1>. QED
  BY <1>1, <1>2, <1>3, OtherStays, SamePromises, InsertPromises

LEMMA MoveTargetPromises ==
  ASSUME TypesFit, TypesFit', CallsFit, DuesKept, StampsKept, NEW t \in DirThreads, MoveTarget(t)
  PROVE  PromisesStay
<1> DEFINE f == Top(t)
           list == [NoInfo EXCEPT !.stamp = volume[f.dir].stamp, !.files = volume[f.dir].files]
           owned == Owned(f.dir, list)
           info == [list EXCEPT !.owned = owned]
           g == [f EXCEPT !.at = "release", !.got = owned]
           h == [f EXCEPT !.at = "unlock", !.failed = TRUE]
           moves == entry' = [entry EXCEPT ![f.dir].info = info, ![f.dir].ftCacheTime = volume[f.dir].mtime,
                                          ![f.dir].bLocked = TRUE, ![f.x].bLocked = TRUE]
<1>1. /\ stack[t] # <<>> /\ f.op = "move" /\ f.at = "target" /\ UNCHANGED <<promised, overlooked>>
      /\ (moves /\ Become(t, g)) \/ (Become(t, h) /\ entry' = entry)
  BY DEF MoveTarget, In, cache, dirghosts
<1> HIDE DEF list, owned, info, moves
<1>2. f \in Frames /\ MoveFits(f) /\ f.dir \in Dirs /\ f.x \in Dirs
      /\ entry[f.dir] \in Entries /\ entry[f.x] \in Entries /\ volume[f.dir] \in Volumes
  BY <1>1, MoveTop
<1>3. f.holds = {f.dir, f.x} /\ f.dir # f.x
  <2> HIDE DEF f
  <2>. QED
    BY <1>1, <1>2, Zenon DEF MoveFits
<1>4. g.op = f.op /\ h.op = f.op
  BY <1>2 DEF Frames
<1>5. info.stamp = volume[f.dir].stamp
  <2>1. list.stamp = volume[f.dir].stamp /\ list \in Infos
    <3>1. volume[f.dir].stamp \in Int /\ volume[f.dir].files \in SUBSET Files
      BY <1>2 DEF Volumes
    <3>. QED
      BY <3>1, NoEntryIsEntry DEF Infos, list
  <2>. QED
    BY <2>1 DEF Infos, info
<1> HIDE DEF g, h, f
<1>6. StackStays
  BY <1>1, <1>4, OtherStays DEF f
<1>7. CASE entry' = entry
  BY <1>1, <1>6, <1>7, SamePromises
<1>8. CASE moves
  <2>1. entry \in [Dirs -> Entries]
    BY DEF TypesFit
  <2>2. /\ entry'[f.dir].info = info
        /\ \A d \in Dirs \ {f.dir} : /\ entry'[d].info = entry[d].info /\ entry'[d].cached = entry[d].cached
                                     /\ entry'[d].lForceUpdate = entry[d].lForceUpdate
    BY <1>2, <1>3, <1>8, <2>1 DEF Entries, moves
  <2>3. ASSUME NEW d \in Dirs, EntryKept(d) PROVE EntryGoes(d)
    <3>1. CASE d = f.dir
      <4>1. TopOf(t) \in Holders(d)
        BY <1>1, <1>3, <3>1, TopIsIn DEF f
      <4>2. TopOf(t) \notin Users(d)
        BY <1>1, TopUses DEF Uses, Matters, f
      <4>3. Users(d) = {}
        BY <2>3, <4>1, <4>2, OneHolder, UsersHold
      <4>4. promised'[d] = promised[d] /\ promised[d] <= volume[d].stamp
            /\ promised[d] \in Int /\ volume[d].stamp \in Int
        BY <1>1, <1>2, <3>1 DEF StampsKept, TypesFit, Volumes
      <4>5. ~ Behind(entry'[d], promised'[d])
        BY <1>5, <2>2, <3>1, <4>4 DEF Behind
      <4>. QED
        BY <4>3, <4>5 DEF EntryGoes
    <3>2. CASE d # f.dir
      BY <1>1, <2>2, <3>2 DEF EntryGoes, EntryStays
    <3>. QED
      BY <3>1, <3>2
  <2>. QED
    BY <1>1, <1>6, <2>3, QuietPromises
<1>. QED
  BY <1>1, <1>7, <1>8

LEMMA MoveReleasePromises ==
  ASSUME TypesFit, TypesFit', CallsFit, DuesKept, NEW t \in DirThreads, MoveRelease(t)
  PROVE  PromisesStay
<1> DEFINE f == Top(t)
           b == IF f.dir \in f.holds THEN f.dir ELSE f.x
           g == [f EXCEPT !.holds = @ \ {b}, !.at = IF b = f.dir THEN "release" ELSE "files"]
<1>1. /\ stack[t] # <<>> /\ f.op = "move" /\ UNCHANGED <<promised, overlooked>>
      /\ Release(b, entry[b], FALSE) /\ Become(t, g)
  BY DEF MoveRelease, In, dirghosts
<1>2. f \in Frames /\ f.dir \in Dirs /\ f.x \in Dirs
  BY <1>1, MoveTop
<1>3. b \in Dirs /\ entry[b] \in Entries
  BY <1>2 DEF TypesFit
<1>4. g.op = f.op
  <2> HIDE DEF b
  <2>. QED
    BY <1>2 DEF Frames
<1> HIDE DEF g, b
<1>5. StackStays
  BY <1>1, <1>4, OtherStays
<1>. QED
  BY <1>1, <1>3, <1>5, ReleasePromises

LEMMA SameStack ==
  ASSUME DuesKept, UNCHANGED stack
  PROVE  StackStays
<1>1. Calls' = Calls /\ \A c : CallAt(c)' = CallAt(c)
  BY DEF Calls, CallAt
<1>2. DuesCome
  BY <1>1 DEF DuesCome, DuesKept
<1>3. ASSUME NEW d \in Dirs PROVE SameUsers(d)
  <2>1. Users(d)' = {c \in Calls' : Uses(CallAt(c)', d)}
    BY UsersNext
  <2>. QED
    BY <1>1, <2>1, SelfAlike DEF SameUsers, Users
<1>. QED
  BY <1>2, <1>3 DEF StackStays

LEMMA MoveFilePromises ==
  ASSUME TypesFit, TypesFit', CallsFit, DuesKept, NEW t \in DirThreads, MoveFile(t)
  PROVE  PromisesStay
<1> DEFINE f == Top(t)
<1>1. /\ stack[t] # <<>> /\ f.op = "move" /\ UNCHANGED <<entry, promised, overlooked>>
  BY DEF MoveFile, In, cache
<1>2. PICK x \in volume[f.dir].files \ f.todo :
        Become(t, [f EXCEPT !.failed = TRUE, !.todo = @ \cup {x}]) \/ stack' = stack
  BY Zenon DEF MoveFile
<1>3. f \in Frames
  BY <1>1, MoveTop
<1> DEFINE g == [f EXCEPT !.failed = TRUE, !.todo = @ \cup {x}]
<1>4. g.op = f.op
  BY <1>3 DEF Frames
<1>5. Become(t, g) \/ stack' = stack
  BY <1>2
<1> HIDE DEF g
<1>6. StackStays
  BY <1>1, <1>4, <1>5, OtherStays, SameStack
<1>. QED
  BY <1>1, <1>6, SamePromises

LEMMA MoveRestPromises ==
  ASSUME TypesFit, TypesFit', CallsFit, DuesKept, NEW t \in DirThreads, MoveRest(t)
  PROVE  PromisesStay
<1> DEFINE f == Top(t)
<1>1. /\ stack[t] # <<>> /\ f.op = "move" /\ UNCHANGED <<entry, promised, overlooked>>
  BY DEF MoveRest, In, cache
<1>2. PICK failed, at : Become(t, [f EXCEPT !.failed = failed, !.at = at])
  BY DEF MoveRest
<1> DEFINE g == [f EXCEPT !.failed = failed, !.at = at]
<1>3. g.op = f.op
  BY <1>1, MoveTop DEF Frames
<1>4. Become(t, g)
  BY <1>2
<1> HIDE DEF g
<1>5. StackStays
  BY <1>1, <1>3, <1>4, OtherStays
<1>. QED
  BY <1>1, <1>5, SamePromises

LEMMA MoveRestorePromises ==
  ASSUME TypesFit, CallsFit, DuesKept, NEW t \in DirThreads, MoveRestore(t)
  PROVE  PromisesStay
<1> DEFINE f == Top(t)
<1>1. /\ stack[t] # <<>> /\ f.op = "move" /\ UNCHANGED <<promised, overlooked>>
      /\ Acquire(t, f.dir, entry, lpDirectoryList, "restored")
  BY DEF MoveRestore, In, dirghosts
<1>2. f.dir \in Dirs /\ "restored" \in Later /\ ~ Busy(f)
      /\ entry \in [Dirs -> Entries] /\ lpDirectoryList \in Seq(Dirs)
  BY <1>1, MoveTop DEF Later, Busy, Matters, TypesFit
<1>3. Become(t, Has(f, f.dir, "restored")) \/ Become(t, WaitsFor(f, f.dir, "restored"))
  BY <1>1 DEF Acquire
<1>4. StackStays
  BY <1>1, <1>2, <1>3, GetsStays
<1>5. ASSUME NEW d \in Dirs PROVE EntryGoes(d)
  BY <1>1, <1>2, AcquireGoes DEF EntryGoes
<1>. QED
  BY <1>1, <1>4, <1>5, QuietPromises

LEMMA MoveRestoredPromises ==
  ASSUME TypesFit, TypesFit', CallsFit, DuesKept, NEW t \in DirThreads, MoveRestored(t)
  PROVE  PromisesStay
<1> DEFINE f == Top(t)
           b == f.dir
           g == [f EXCEPT !.at = "unlock", !.holds = {}]
<1>1. /\ stack[t] # <<>> /\ f.op = "move" /\ UNCHANGED <<promised, overlooked>>
      /\ Release(b, Marked(entry[b]), FALSE) /\ Become(t, g)
  BY DEF MoveRestored, In, Marked, dirghosts
<1>2. f \in Frames /\ b \in Dirs /\ entry[b] \in Entries
  BY <1>1, MoveTop
<1>3. g.op = f.op
  BY <1>2 DEF Frames
<1>4. /\ Marked(entry[b]) \in Entries /\ Marked(entry[b]).info = entry[b].info
      /\ Marked(entry[b]).cached = entry[b].cached /\ Marked(entry[b]).lForceUpdate
  BY <1>2, MarkedIsEntry
<1> HIDE DEF g, b
<1>5. StackStays
  BY <1>1, <1>3, OtherStays
<1>. QED
  BY <1>1, <1>2, <1>4, <1>5, ReleasePromises

LEMMA MoveUnlockPromises ==
  ASSUME TypesFit, CallsFit, TypesFit', DuesKept, NEW t \in DirThreads, MoveUnlock(t)
  PROVE  PromisesStay
<1> DEFINE f == Top(t)
           g == Parted(f)
           b == Leaving(f)
<1>1. /\ stack[t] # <<>> /\ f.op = "move" /\ UNCHANGED <<promised, overlooked>>
      /\ b \in Dirs /\ entry[b] \in Entries
      /\ g \in Frames /\ g.op = f.op /\ Become(t, g)
  BY MoveUnlockStep
<1>2. IF b \in f.holds
      THEN Release(b, Marked(entry[b]), FALSE)
      ELSE Release2(b, Unlocked(b), 0, f.at = "unlock" /\ ~ f.failed)
  BY MoveUnlockStep
<1> HIDE DEF g, b
<1>3. StackStays
  BY <1>1, OtherStays
<1>4. CASE b \in f.holds
  <2>1. /\ Marked(entry[b]) \in Entries /\ Marked(entry[b]).info = entry[b].info
        /\ Marked(entry[b]).cached = entry[b].cached /\ Marked(entry[b]).lForceUpdate
    BY <1>1, MarkedIsEntry
  <2>. QED
    BY <1>1, <1>2, <1>3, <1>4, <2>1, ReleasePromises
<1>5. CASE b \notin f.holds
  <2>1. PICK delete \in BOOLEAN : delete = (f.at = "unlock" /\ ~ f.failed)
    OBVIOUS
  <2>2. Release2(b, Unlocked(b), 0, delete)
    BY <1>2, <1>5, <2>1 DEF Release2
  <2>3. 0 \in Int
    OBVIOUS
  <2>4. Unlocked(b) \in Entries /\ Unlocked(b).lReferenceCount = entry[b].lReferenceCount
        /\ Unlocked(b).cached = entry[b].cached /\ Unlocked(b).info = entry[b].info /\ Unlocked(b).lForceUpdate
    BY <1>1, UnlockedIsEntry
  <2>5. /\ \A e \in Dirs \ {b} : entry'[e] = entry[e]
        /\ \/ HandedOver(b, Unlocked(b), Unlocked(b).lReferenceCount - 0)
           \/ delete /\ Forgotten(b, Unlocked(b), Unlocked(b).lReferenceCount - 0)
           \/ ~ delete /\ Unused(b, Unlocked(b), Unlocked(b).lReferenceCount - 0)
    BY <1>1, <2>2, <2>3, <2>4, ReleaseMeans
  <2>6. ASSUME NEW d \in Dirs, EntryKept(d) PROVE EntryGoes(d)
    <3>1. CASE d # b
      BY <1>1, <2>5, <3>1 DEF EntryGoes, EntryStays
    <3>2. CASE d = b /\ Forgotten(b, Unlocked(b), Unlocked(b).lReferenceCount - 0)
      <4>1. entry'[d] = NoEntry /\ ~ (entry[d].lReferenceCount > 1) /\ entry[d].lReferenceCount \in Int
        BY <1>1, <2>4, <3>2 DEF Forgotten, Entries
      <4>2. Users(d) = {}
        BY <2>6, <4>1, EntryMeans, UsersHold
      <4>. QED
        BY <4>1, <4>2, NoEntryIsEntry DEF EntryGoes, Behind
    <3>3. CASE d = b /\ ~ Forgotten(b, Unlocked(b), Unlocked(b).lReferenceCount - 0)
      <4>1. Stays(entry'[b], Unlocked(b))
        BY <2>5, <3>3 DEF HandedOver, Unused
      <4>. QED
        BY <1>1, <2>4, <3>3, <4>1 DEF EntryGoes, EntryStays, Stays
    <3>. QED
      BY <3>1, <3>2, <3>3
  <2>. QED
    BY <1>1, <1>3, <2>6, QuietPromises
<1>. QED
  BY <1>4, <1>5

-------------------------------------------------------------------------------
(* The steps of an open and of an update, which use what was read.         *)

\* What the call that has a directory knows of it.
Knows(f, e, p, over) ==
  /\ Matters(f) => HasRead(f, e, p)
  /\ ~ over =>
       /\ Behind(e, p) => Matters(f) /\ Reading(f)
       /\ Matters(f) => SeesNow(f, e)
KnowsNow(t) == Knows(Top(t), entry[Top(t).dir], promised[Top(t).dir], Top(t).dir \in overlooked)

LEMMA TopKnows ==
  ASSUME TypesFit, NEW t \in DirThreads, stack[t] # <<>>, Top(t).dir \in Top(t).holds,
         EntryKept(Top(t).dir), Promised(Top(t).dir)
  PROVE  KnowsNow(t) /\ Users(Top(t).dir) \subseteq {TopOf(t)}
<1> DEFINE d == Top(t).dir
<1>1. d \in Dirs /\ TopOf(t) \in Holders(d) /\ CallAt(TopOf(t)) = Top(t)
  BY TopIsCall, TopIsIn DEF Frames
<1>2. Users(d) \subseteq {TopOf(t)}
  BY <1>1, OneHolder, UsersHold
<1>3. TopOf(t) \in Users(d) <=> Matters(Top(t))
  BY TopUses DEF Uses
<1>4. Knows(Top(t), entry[d], promised[d], d \in overlooked)
  BY <1>1, <1>2, <1>3 DEF Promised, Knows
<1>. QED
  BY <1>2, <1>4 DEF KnowsNow

LEMMA OpenPromises ==
  ASSUME TypesFit, TypesFit', DuesKept, NEW t \in DirThreads, stack[t] # <<>>, NEW f, Become(t, f),
         Top(t).dir \in Top(t).holds, f.op = "open", f.dir = Top(t).dir, f.holds = Top(t).holds,
         Matters(f), Due(f), UNCHANGED promised,
         \A d \in Dirs \ {f.dir} : entry'[d] = entry[d] /\ (d \in overlooked => d \in overlooked'),
         EntryKept(f.dir) /\ KnowsNow(t) => Knows(f, entry'[f.dir], promised[f.dir], f.dir \in overlooked')
  PROVE  PromisesStay
<1>1. f \in Frames
  BY BecomeIsFrame
<1>2. DuesCome
  BY <1>1, BecomeDues
<1>3. ASSUME NEW d \in Dirs, EntryKept(d), Promised(d) PROVE Promised(d)'
  <2>1. /\ Users(d)' = (Users(d) \ {TopOf(t)}) \cup (IF Uses(f, d) THEN {TopOf(t)} ELSE {})
        /\ \A c \in Users(d) \ {TopOf(t)} : CallAt(c)' = CallAt(c)
        /\ \A c \in {TopOf(t)} : CallAt(c)' = f
    BY <1>1, BecomeUsers
  <2>2. CASE d = f.dir
    <3>1. KnowsNow(t) /\ Users(d) \subseteq {TopOf(t)}
      BY <1>3, <2>2, TopKnows
    <3>2. Users(d)' = {TopOf(t)} /\ \A c \in Users(d)' : CallAt(c)' = f
      BY <2>1, <2>2, <3>1 DEF Uses
    <3>3. Knows(f, entry'[d], promised'[d], d \in overlooked')
      BY <1>3, <2>2, <3>1
    <3>4. \A c \in Users(d)' : HasRead(CallAt(c)', entry'[d], promised'[d])
      BY <3>2, <3>3 DEF Knows
    <3>5. d \notin overlooked' => /\ Behind(entry'[d], promised'[d]) => \E c \in Users(d)' : Reading(CallAt(c)')
                                  /\ \A c \in Users(d)' : SeesNow(CallAt(c)', entry'[d])
      BY <3>2, <3>3 DEF Knows
    <3>. QED
      BY <3>4, <3>5, PromisedNext
  <2>3. CASE d # f.dir
    <3>1. ~ Uses(f, d) /\ TopOf(t) \notin Users(d)
      BY <2>3, TopUses DEF Uses
    <3>2. SameUsers(d)
      BY <2>1, <3>1, SelfAlike DEF SameUsers
    <3>3. EntryGoes(d)
      BY <2>3 DEF EntryGoes, EntryStays
    <3>. QED
      BY <1>3, <2>3, <3>2, <3>3, QuietPromised
  <2>. QED
    BY <2>2, <2>3
<1>. QED
  BY <1>2, <1>3 DEF PromisesStay

\* An open after it has been given the directory.
LEMMA OpenTop ==
  ASSUME TypesFit, CallsFit, DuesKept, StampsKept, NEW t \in DirThreads, stack[t] # <<>>, Top(t).op = "open",
         Top(t).at \in {"opened", "look", "list", "below", "finish"}
  PROVE  /\ Top(t) \in Frames /\ Top(t).dir \in Dirs /\ Top(t).dir \in Top(t).holds
         /\ Top(t).missing => Top(t).at = "finish" /\ Top(t).failed
         /\ entry[Top(t).dir] \in Entries /\ volume[Top(t).dir] \in Volumes
         /\ Top(t).due <= promised[Top(t).dir] /\ promised[Top(t).dir] <= volume[Top(t).dir].stamp
         /\ promised[Top(t).dir] \in Int /\ Top(t).due \in Int /\ volume[Top(t).dir].stamp \in Int
         /\ EntryKept(Top(t).dir) => entry[Top(t).dir].cached
<1>1. Top(t) \in Frames /\ Fits(Top(t)) /\ Due(Top(t))
  BY TopIsCall, TopFits, TopDue
<1> DEFINE f == Top(t)
<1>2. f.dir \in Dirs /\ f.due \in Int
  BY <1>1 DEF Frames
<1>3. f.dir \in f.holds /\ (f.missing => f.at = "finish" /\ f.failed) /\ f.due <= promised[f.dir]
  BY <1>1 DEF Fits, OpenFits, Due
<1>4. entry[f.dir] \in Entries /\ volume[f.dir] \in Volumes /\ promised[f.dir] \in Int
  BY <1>2 DEF TypesFit
<1>5. volume[f.dir].stamp \in Int /\ promised[f.dir] <= volume[f.dir].stamp
  BY <1>2, <1>4 DEF Volumes, StampsKept
<1>6. TopOf(t) \in Holders(f.dir)
  BY <1>3, TopIsIn
<1>7. EntryKept(f.dir) => entry[f.dir].cached
  BY <1>2, <1>6, EntryMeans
<1>. QED
  BY <1>1, <1>2, <1>3, <1>4, <1>5, <1>7

LEMMA ExchangePromises ==
  ASSUME TypesFit, TypesFit', CallsFit, DuesKept, StampsKept, NEW t \in DirThreads, Exchange(t)
  PROVE  PromisesStay
<1> DEFINE b == Top(t).dir
<1>1. stack[t] # <<>> /\ Top(t).op = "open" /\ Top(t).at = "opened" /\ UNCHANGED <<promised, overlooked>>
      /\ entry' = [entry EXCEPT ![b].lForceUpdate = FALSE]
  BY DEF Exchange, In, dirghosts
<1>2. /\ Top(t) \in Frames /\ b \in Dirs /\ b \in Top(t).holds /\ ~ Top(t).missing
      /\ entry[b] \in Entries /\ Top(t).due <= promised[b] /\ promised[b] \in Int /\ Top(t).due \in Int
      /\ EntryKept(b) => entry[b].cached
  BY <1>1, OpenTop
<1>3. PICK populated \in BOOLEAN :
        Become(t, [Top(t) EXCEPT !.at = IF (entry[b].lForceUpdate \/ ~ populated) \/ Top(t).check
                                        THEN "look" ELSE "finish",
                                 !.check = ~ (entry[b].lForceUpdate \/ ~ populated)])
  <2>1. PICK populated \in IF Top(t).recursive /\ entry[b].info # NoInfo THEN BOOLEAN ELSE {TRUE} :
        Become(t, [Top(t) EXCEPT !.at = IF (entry[b].lForceUpdate \/ ~ populated) \/ Top(t).check
                                        THEN "look" ELSE "finish",
                                 !.check = ~ (entry[b].lForceUpdate \/ ~ populated)])
    BY DEF Exchange
  <2>2. populated \in BOOLEAN
    OBVIOUS
  <2>. QED
    BY <2>1, <2>2
<1>4. PICK again \in BOOLEAN : again = (entry[b].lForceUpdate \/ ~ populated)
  OBVIOUS
<1>5. PICK check \in BOOLEAN : check = ~ again
  OBVIOUS
<1>6. PICK at \in {"look", "finish"} : at = IF again \/ Top(t).check THEN "look" ELSE "finish"
  OBVIOUS
<1> DEFINE f == [Top(t) EXCEPT !.at = at, !.check = check]
<1>7. Become(t, f)
  BY <1>3, <1>4, <1>5, <1>6
<1>8. /\ f.op = "open" /\ f.at = at /\ f.check = check /\ f.dir = b /\ f.holds = Top(t).holds /\ f.due = Top(t).due
      /\ f.missing = Top(t).missing
  BY <1>1, <1>2 DEF Frames
<1>9. /\ \A d \in Dirs \ {b} : entry'[d] = entry[d]
      /\ entry'[b].info = entry[b].info /\ entry'[b].cached = entry[b].cached /\ ~ entry'[b].lForceUpdate
  BY <1>1, <1>2 DEF TypesFit, Entries
<1> HIDE DEF f
<1>10. Matters(f) /\ Due(f) /\ ~ Matters(Top(t))
  BY <1>1, <1>2, <1>8 DEF Matters, Due
<1>11. ASSUME EntryKept(b), KnowsNow(t) PROVE Knows(f, entry'[b], promised[b], b \in overlooked')
  <2>1. HasRead(f, entry'[b], promised[b])
    BY <1>8 DEF HasRead
  <2>2. CASE again
    <3>1. Reading(f) /\ SeesNow(f, entry'[b])
      BY <1>5, <1>6, <1>8, <2>2 DEF Reading, SeesNow
    <3>. QED
      BY <1>10, <2>1, <3>1 DEF Knows
  <2>3. CASE ~ again
    <3>1. ~ entry[b].lForceUpdate
      BY <1>4, <2>3
    <3>2. b \notin overlooked => ~ Behind(entry[b], promised[b])
      BY <1>10, <1>11 DEF Knows, KnowsNow
    <3>3. b \notin overlooked => entry[b].info = NoInfo \/ entry[b].info.stamp >= promised[b]
      <4>1. entry[b].info.stamp \in Int
        BY <1>2 DEF Entries, Infos
      <4>. QED
        BY <1>2, <1>11, <3>1, <3>2, <4>1 DEF Behind
    <3>4. b \notin overlooked => ~ Behind(entry'[b], promised[b]) /\ Sees(entry'[b], f.due)
      <4>1. entry[b].info.stamp \in Int
        BY <1>2 DEF Entries, Infos
      <4>. QED
        BY <1>2, <1>8, <1>9, <3>3, <4>1 DEF Behind, Sees
    <3>5. b \notin overlooked => SeesNow(f, entry'[b])
      BY <3>4 DEF SeesNow
    <3>. QED
      BY <1>1, <2>1, <3>4, <3>5 DEF Knows
  <2>. QED
    BY <2>2, <2>3
<1>12. \A d \in Dirs \ {f.dir} : entry'[d] = entry[d] /\ (d \in overlooked => d \in overlooked')
  BY <1>1, <1>8, <1>9
<1>. QED
  BY <1>1, <1>2, <1>7, <1>8, <1>10, <1>11, <1>12, OpenPromises

LEMMA LookAtDiskPromises ==
  ASSUME TypesFit, TypesFit', CallsFit, DuesKept, StampsKept, NEW t \in DirThreads, LookAtDisk(t)
  PROVE  PromisesStay
<1> DEFINE b == Top(t).dir
           missing == [Top(t) EXCEPT !.at = "finish", !.missing = TRUE, !.failed = TRUE]
           fresh == [Top(t) EXCEPT !.at = "finish"]
           old == [Top(t) EXCEPT !.at = "list", !.seen = volume[b].mtime]
<1>1. stack[t] # <<>> /\ Top(t).op = "open" /\ Top(t).at = "look" /\ UNCHANGED <<entry, promised, overlooked>>
  BY DEF LookAtDisk, In, dirghosts, cache
<1>2. /\ Top(t) \in Frames /\ b \in Dirs /\ b \in Top(t).holds /\ ~ Top(t).missing
      /\ entry[b] \in Entries /\ Top(t).due <= promised[b]
  BY <1>1, OpenTop
<1>3. Become(t, missing) \/ (Top(t).check /\ Become(t, fresh)) \/ Become(t, old)
  BY DEF LookAtDisk
<1>4. PICK f \in {missing, fresh, old} : Become(t, f) /\ (f = fresh => f = missing \/ f = old \/ Top(t).check)
  BY <1>3
<1>5. /\ f.op = "open" /\ f.dir = b /\ f.holds = Top(t).holds /\ f.due = Top(t).due
      /\ \/ f.at = "finish" /\ f.missing /\ f.failed
         \/ f.at = "finish" /\ Top(t).check
         \/ f.at = "list"
  <2>1. CASE f = missing
    BY <1>1, <1>2, <2>1 DEF Frames
  <2>2. CASE f = old
    BY <1>1, <1>2, <2>2 DEF Frames
  <2>3. CASE f = fresh /\ f # missing /\ f # old
    <3>1. Top(t).check
      BY <1>4, <2>3
    <3>. QED
      BY <1>1, <1>2, <2>3, <3>1 DEF Frames
  <2>. QED
    BY <2>1, <2>2, <2>3
<1>6. Become(t, f)
  BY <1>4
<1> HIDE DEF missing, fresh, old
<1>7. Matters(f) /\ Due(f)
  BY <1>2, <1>5 DEF Matters, Due
<1>8. ASSUME EntryKept(b), KnowsNow(t) PROVE Knows(f, entry'[b], promised[b], b \in overlooked')
  <2>1. HasRead(f, entry'[b], promised[b])
    BY <1>5 DEF HasRead
  <2>2. CASE (f.at = "finish" /\ f.missing /\ f.failed) \/ f.at = "list"
    <3>1. Reading(f) /\ SeesNow(f, entry'[b])
      BY <1>5, <2>2 DEF Reading, SeesNow
    <3>. QED
      BY <1>7, <2>1, <3>1 DEF Knows
  <2>3. CASE f.at = "finish" /\ Top(t).check
    <3>1. Matters(Top(t)) /\ ~ Reading(Top(t))
      BY <1>1, <2>3 DEF Matters, Reading
    <3>2. b \notin overlooked => ~ Behind(entry[b], promised[b]) /\ SeesNow(Top(t), entry[b])
      BY <1>8, <3>1 DEF KnowsNow, Knows
    <3>3. b \notin overlooked => Sees(entry[b], f.due)
      BY <1>1, <1>5, <2>3, <3>2 DEF SeesNow
    <3>4. b \notin overlooked => SeesNow(f, entry'[b])
      BY <1>1, <2>3, <3>3 DEF SeesNow
    <3>. QED
      BY <1>1, <2>1, <3>2, <3>4 DEF Knows
  <2>. QED
    BY <1>5, <2>2, <2>3
<1>9. \A d \in Dirs \ {f.dir} : entry'[d] = entry[d] /\ (d \in overlooked => d \in overlooked')
  BY <1>1
<1>. QED
  BY <1>1, <1>2, <1>5, <1>6, <1>7, <1>8, <1>9, OpenPromises

LEMMA ListDirectoryPromises ==
  ASSUME TypesFit, TypesFit', CallsFit, DuesKept, StampsKept, NEW t \in DirThreads, ListDirectory(t)
  PROVE  PromisesStay
<1> DEFINE b == Top(t).dir
           list == [NoInfo EXCEPT !.stamp = volume[b].stamp, !.files = volume[b].files]
<1>1. stack[t] # <<>> /\ Top(t).op = "open" /\ Top(t).at = "list" /\ UNCHANGED <<promised, overlooked>>
  BY DEF ListDirectory, In, dirghosts
<1>2. /\ Top(t) \in Frames /\ b \in Dirs /\ b \in Top(t).holds /\ ~ Top(t).missing
      /\ entry[b] \in Entries /\ volume[b] \in Volumes /\ Top(t).due <= promised[b] /\ promised[b] <= volume[b].stamp
      /\ promised[b] \in Int /\ Top(t).due \in Int /\ volume[b].stamp \in Int
  BY <1>1, OpenTop
<1>3. entry \in [Dirs -> Entries]
  BY DEF TypesFit
<1>4. CASE /\ entry' = [entry EXCEPT ![b].info = NoInfo]
           /\ Become(t, [Top(t) EXCEPT !.at = "finish", !.failed = TRUE])
  <2> DEFINE f == [Top(t) EXCEPT !.at = "finish", !.failed = TRUE]
  <2>1. f.op = "open" /\ f.at = "finish" /\ f.failed /\ f.dir = b /\ f.holds = Top(t).holds /\ f.due = Top(t).due
    BY <1>1, <1>2 DEF Frames
  <2>2. Become(t, f)
    BY <1>4
  <2> HIDE DEF f
  <2>3. /\ \A d \in Dirs \ {f.dir} : entry'[d] = entry[d] /\ (d \in overlooked => d \in overlooked')
        /\ entry'[b].info = NoInfo
    BY <1>1, <1>2, <1>3, <1>4, <2>1 DEF Entries
  <2>4. Matters(f) /\ Due(f)
    BY <1>2, <2>1 DEF Matters, Due
  <2>5. Knows(f, entry'[b], promised[b], b \in overlooked')
    BY <2>1, <2>3 DEF Knows, HasRead, Behind, SeesNow
  <2>. QED
    BY <1>1, <1>2, <2>1, <2>2, <2>3, <2>4, <2>5, OpenPromises
<1>5. ASSUME NEW todo \in SUBSET Dirs, NEW again \in BOOLEAN,
             Become(t, [Top(t) EXCEPT !.at = "below", !.todo = todo, !.list = list]),
             entry' = [entry EXCEPT ![b].lForceUpdate = @ \/ again]
      PROVE  PromisesStay
  <2> DEFINE f == [Top(t) EXCEPT !.at = "below", !.todo = todo, !.list = list]
  <2>1. list.stamp = volume[b].stamp
    BY NoEntryIsEntry DEF Infos
  <2> HIDE DEF list
  <2>2. /\ f.op = "open" /\ f.at = "below" /\ f.dir = b /\ f.holds = Top(t).holds /\ f.due = Top(t).due
        /\ f.list = list
    BY <1>1, <1>2 DEF Frames
  <2>3. Become(t, f)
    BY <1>5
  <2> HIDE DEF f
  <2>4. \A d \in Dirs \ {f.dir} : entry'[d] = entry[d] /\ (d \in overlooked => d \in overlooked')
    BY <1>1, <1>2, <1>3, <1>5, <2>2
  <2>5. Matters(f) /\ Due(f) /\ Reading(f)
    BY <1>2, <2>2 DEF Matters, Due, Reading
  <2>6. HasRead(f, entry'[b], promised[b]) /\ SeesNow(f, entry'[b])
    BY <1>2, <2>1, <2>2 DEF HasRead, SeesNow
  <2>7. Knows(f, entry'[b], promised[b], b \in overlooked')
    BY <2>5, <2>6 DEF Knows
  <2>. QED
    BY <1>1, <1>2, <2>2, <2>3, <2>4, <2>5, <2>7, OpenPromises
<1>6. \/ /\ entry' = [entry EXCEPT ![b].info = NoInfo]
         /\ Become(t, [Top(t) EXCEPT !.at = "finish", !.failed = TRUE])
      \/ \E todo \in SUBSET Dirs : \E again \in BOOLEAN :
           /\ Become(t, [Top(t) EXCEPT !.at = "below", !.todo = todo, !.list = list])
           /\ entry' = [entry EXCEPT ![b].lForceUpdate = @ \/ again]
  <2>1. \/ /\ entry' = [entry EXCEPT ![b].info = NoInfo]
           /\ Become(t, [Top(t) EXCEPT !.at = "finish", !.failed = TRUE])
        \/ /\ \E todo \in IF Top(t).recursive THEN SUBSET Children(b) ELSE {{}} :
                Become(t, [Top(t) EXCEPT !.at = "below", !.todo = todo, !.list = list])
           /\ \E again \in IF ~ Top(t).recursive /\ Children(b) # {} THEN BOOLEAN ELSE {FALSE} :
                entry' = [entry EXCEPT ![b].lForceUpdate = @ \/ again]
    BY Zenon DEF ListDirectory
  <2>2. Children(b) \subseteq Dirs
    BY DEF Children
  <2>. QED
    BY <2>1, <2>2
<1>. QED
  BY <1>4, <1>5, <1>6

LEMMA ReadPermissionsPromises ==
  ASSUME TypesFit, TypesFit', CallsFit, DuesKept, StampsKept, NEW t \in DirThreads, ReadPermissions(t)
  PROVE  PromisesStay
<1> DEFINE b == Top(t).dir
           list == Top(t).list
<1>1. stack[t] # <<>> /\ Top(t).op = "open" /\ Top(t).at = "below" /\ UNCHANGED promised
      /\ overlooked' = overlooked \ {b}
  BY DEF ReadPermissions, In
<1>2. /\ Top(t) \in Frames /\ b \in Dirs /\ b \in Top(t).holds
      /\ entry[b] \in Entries /\ Top(t).due <= promised[b] /\ promised[b] \in Int /\ Top(t).due \in Int
  BY <1>1, OpenTop
<1>3. entry \in [Dirs -> Entries] /\ list \in Infos /\ list.stamp \in Int
  BY <1>2 DEF TypesFit, Frames, Infos
<1>4. PICK failed \in BOOLEAN : Become(t, [Top(t) EXCEPT !.at = "finish", !.failed = failed])
  BY DEF ReadPermissions
<1> DEFINE f == [Top(t) EXCEPT !.at = "finish", !.failed = failed]
<1>5. f.op = "open" /\ f.at = "finish" /\ f.dir = b /\ f.holds = Top(t).holds /\ f.due = Top(t).due
  BY <1>1, <1>2 DEF Frames
<1>6. Become(t, f)
  BY <1>4
<1> HIDE DEF f
<1>7. \/ \E o, n : entry' = [entry EXCEPT ![b].info = [list EXCEPT !.owned = o], ![b].ftCacheTime = n]
      \/ \E o : entry' = [entry EXCEPT ![b].info = [list EXCEPT !.owned = o]]
  BY DEF ReadPermissions
<1>8. /\ \A d \in Dirs \ {b} : entry'[d] = entry[d]
      /\ entry'[b].info.stamp = list.stamp /\ entry'[b].lForceUpdate = entry[b].lForceUpdate
  <2> HIDE DEF list, b
  <2>0. \A o : [list EXCEPT !.owned = o].stamp = list.stamp
    BY <1>3 DEF Infos
  <2>1. ASSUME NEW o, NEW n, entry' = [entry EXCEPT ![b].info = [list EXCEPT !.owned = o], ![b].ftCacheTime = n]
        PROVE  /\ \A d \in Dirs \ {b} : entry'[d] = entry[d]
               /\ entry'[b].info.stamp = list.stamp /\ entry'[b].lForceUpdate = entry[b].lForceUpdate
    BY <1>2, <1>3, <2>0, <2>1 DEF Entries
  <2>2. ASSUME NEW o, entry' = [entry EXCEPT ![b].info = [list EXCEPT !.owned = o]]
        PROVE  /\ \A d \in Dirs \ {b} : entry'[d] = entry[d]
               /\ entry'[b].info.stamp = list.stamp /\ entry'[b].lForceUpdate = entry[b].lForceUpdate
    BY <1>2, <1>3, <2>0, <2>2 DEF Entries
  <2>. QED
    BY <1>7, <2>1, <2>2
<1>9. Matters(f) /\ Due(f)
  BY <1>2, <1>5 DEF Matters, Due
<1>10. ASSUME KnowsNow(t) PROVE Knows(f, entry'[b], promised[b], b \in overlooked')
  <2>1. list.stamp >= Top(t).due /\ (list.stamp >= promised[b] \/ entry[b].lForceUpdate)
    BY <1>1, <1>10 DEF KnowsNow, Knows, Matters, HasRead
  <2>2. HasRead(f, entry'[b], promised[b])
    BY <1>5 DEF HasRead
  <2>3. ~ Behind(entry'[b], promised[b])
    BY <1>2, <1>3, <1>8, <2>1 DEF Behind
  <2>4. SeesNow(f, entry'[b])
    BY <1>5, <1>8, <2>1 DEF SeesNow, Sees
  <2>. QED
    BY <2>2, <2>3, <2>4 DEF Knows
<1>11. \A d \in Dirs \ {f.dir} : entry'[d] = entry[d] /\ (d \in overlooked => d \in overlooked')
  BY <1>1, <1>5, <1>8
<1>. QED
  BY <1>1, <1>2, <1>5, <1>6, <1>9, <1>10, <1>11, OpenPromises

\* The call leaves the directory, and nobody else uses what was read of it.
TopLeaves(t) ==
  DuesCome /\ \A d \in Dirs : /\ Users(d)' = Users(d) \ {TopOf(t)}
                              /\ \A c \in Users(d)' : Alike(CallAt(c)', CallAt(c))

LEMMA ReturnLeaves ==
  ASSUME TypesFit, CallsFit, DuesKept, NEW t \in DirThreads, stack[t] # <<>>, NEW ok \in BOOLEAN, ReturnTo(t, ok, {})
  PROVE  TopLeaves(t)
<1>1. {} \in SUBSET Dirs
  OBVIOUS
<1>2. DuesCome
  BY <1>1, ReturnToDues
<1>. QED
  BY <1>2, ReturnToUsers DEF TopLeaves

LEMMA BecomeLeaves ==
  ASSUME TypesFit, DuesKept, NEW t \in DirThreads, stack[t] # <<>>, NEW f \in Frames, Become(t, f), ~ Busy(f), Due(f)
  PROVE  TopLeaves(t)
<1>1. DuesCome
  BY BecomeDues
<1>2. ASSUME NEW d \in Dirs
      PROVE  Users(d)' = Users(d) \ {TopOf(t)} /\ \A c \in Users(d)' : Alike(CallAt(c)', CallAt(c))
  <2>1. /\ Users(d)' = (Users(d) \ {TopOf(t)}) \cup (IF Uses(f, d) THEN {TopOf(t)} ELSE {})
        /\ \A c \in Users(d) \ {TopOf(t)} : CallAt(c)' = CallAt(c)
    BY BecomeUsers
  <2>2. ~ Uses(f, d)
    BY DEF Uses, Busy
  <2>. QED
    BY <2>1, <2>2, SelfAlike
<1>. QED
  BY <1>1, <1>2 DEF TopLeaves

LEMMA LeavePromises ==
  ASSUME TypesFit, NEW t \in DirThreads, stack[t] # <<>>, TopLeaves(t), NEW b \in Dirs,
         b = Top(t).dir, b \in Top(t).holds, UNCHANGED promised,
         \A d \in Dirs \ {b} : entry'[d] = entry[d] /\ (d \in overlooked => d \in overlooked'),
         EntryKept(b) /\ KnowsNow(t) /\ b \notin overlooked' => ~ Behind(entry'[b], promised[b])
  PROVE  PromisesStay
<1>1. ASSUME NEW d \in Dirs, EntryKept(d), Promised(d) PROVE Promised(d)'
  <2>1. Users(d)' = Users(d) \ {TopOf(t)} /\ \A c \in Users(d)' : Alike(CallAt(c)', CallAt(c))
    BY DEF TopLeaves
  <2>2. CASE d = b
    <3>1. KnowsNow(t) /\ Users(d) \subseteq {TopOf(t)}
      BY <1>1, <2>2, TopKnows
    <3>2. Users(d)' = {} /\ (d \notin overlooked' => ~ Behind(entry'[d], promised'[d]))
      BY <1>1, <2>1, <2>2, <3>1
    <3>. QED
      BY <3>2, PromisedNext
  <2>3. CASE d # b
    <3>1. TopOf(t) \notin Users(d)
      BY <2>3, TopUses DEF Uses
    <3>2. SameUsers(d)
      BY <2>1, <3>1 DEF SameUsers
    <3>3. EntryGoes(d)
      BY <2>3 DEF EntryGoes, EntryStays
    <3>. QED
      BY <1>1, <2>3, <3>2, <3>3, QuietPromised
  <2>. QED
    BY <2>2, <2>3
<1>. QED
  BY <1>1 DEF PromisesStay, TopLeaves

LEMMA SaveOwnerPromises ==
  ASSUME TypesFit, TypesFit', CallsFit, DuesKept, NEW t \in DirThreads, SaveOwner(t)
  PROVE  PromisesStay
<1> DEFINE f == Top(t)
           b == f.dir
           e == entry[b]
           owned == e.info.owned \cup {f.x}
           h == [e EXCEPT !.info.owned = owned]
           g == [f EXCEPT !.at = "mark", !.holds = {}]
<1>1. stack[t] # <<>> /\ f.op = "update" /\ f.at = "held" /\ UNCHANGED <<promised, overlooked>>
  BY DEF SaveOwner, In
<1>2. f \in Frames /\ Fits(f) /\ Settled(f) /\ b \in Dirs /\ e \in Entries
  BY <1>1, TopIsCall, TopFits DEF Frames, TypesFit
<1>3. f.x \in Owners /\ (f.failed => f.holds = {}) /\ (~ f.failed => f.holds = {f.dir})
  <2> HIDE DEF f
  <2>. QED
    BY <1>1, <1>2 DEF Fits, UpdateFits, Settled
<1>4. \/ ~ f.failed /\ Release(b, h, FALSE) /\ (Become(t, g) \/ ReturnTo(t, TRUE, {}))
      \/ ~ f.failed /\ Release(b, e, FALSE) /\ ReturnTo(t, FALSE, {})
      \/ f.failed /\ ReturnTo(t, FALSE, {}) /\ UNCHANGED entry
  BY DEF SaveOwner, cache
<1>5. /\ h \in Entries /\ h.cached = e.cached /\ h.lForceUpdate = e.lForceUpdate /\ h.info.stamp = e.info.stamp
  <2>1. owned \in SUBSET Owners /\ e.info \in Infos
    BY <1>2, <1>3 DEF Entries, Infos
  <2>2. [e.info EXCEPT !.owned = owned] \in Infos /\ [e.info EXCEPT !.owned = owned].stamp = e.info.stamp
    BY <2>1 DEF Infos
  <2>. QED
    BY <1>2, <2>2 DEF Entries
<1>6. g \in Frames /\ g.op = f.op /\ g.holds = {}
  BY <1>2 DEF Frames, Places
<1> HIDE DEF g, h, owned
<1>7. ~ Busy(g) /\ Due(g)
  BY <1>1, <1>6 DEF Busy, Due
<1>8. ASSUME ~ f.failed, NEW n \in Entries, Release(b, n, FALSE), n.cached = e.cached, n.lForceUpdate = e.lForceUpdate,
             n.info.stamp = e.info.stamp, TopLeaves(t)
      PROVE  PromisesStay
  <2>1. PICK delete \in BOOLEAN : delete = FALSE
    OBVIOUS
  <2>2. 1 \in Int
    OBVIOUS
  <2>3. Release2(b, n, 1, delete)
    BY <1>8, <2>1 DEF Release
  <2>4. /\ \A d \in Dirs \ {b} : entry'[d] = entry[d]
        /\ Stays(entry'[b], n)
    <3>1. /\ \A d \in Dirs \ {b} : entry'[d] = entry[d]
          /\ \/ HandedOver(b, n, n.lReferenceCount - 1)
             \/ delete /\ Forgotten(b, n, n.lReferenceCount - 1)
             \/ ~ delete /\ Unused(b, n, n.lReferenceCount - 1)
      BY <1>2, <2>2, <2>3, ReleaseMeans
    <3>. QED
      BY <2>1, <3>1 DEF HandedOver, Unused
  <2>5. ASSUME KnowsNow(t), b \notin overlooked' PROVE ~ Behind(entry'[b], promised[b])
    <3>1. Matters(f) /\ ~ Reading(f)
      BY <1>1 DEF Matters, Reading
    <3>2. e.info # NoInfo /\ ~ Behind(e, promised[b])
      BY <1>1, <2>5, <3>1 DEF KnowsNow, Knows, HasRead
    <3>. QED
      BY <1>8, <2>4, <3>2 DEF Behind, Stays
  <2>6. b \in f.holds
    BY <1>3, <1>8
  <2>. QED
    BY <1>1, <1>2, <1>8, <2>4, <2>5, <2>6, LeavePromises
<1>9. CASE ~ f.failed /\ Release(b, h, FALSE) /\ (Become(t, g) \/ ReturnTo(t, TRUE, {}))
  <2>1. PICK ok \in BOOLEAN : ok = TRUE
    OBVIOUS
  <2>2. TopLeaves(t)
    BY <1>1, <1>6, <1>7, <1>9, <2>1, BecomeLeaves, ReturnLeaves
  <2>. QED
    BY <1>5, <1>8, <1>9, <2>2
<1>10. CASE ~ f.failed /\ Release(b, e, FALSE) /\ ReturnTo(t, FALSE, {})
  <2>1. PICK ok \in BOOLEAN : ok = FALSE
    OBVIOUS
  <2>2. TopLeaves(t)
    BY <1>1, <1>10, <2>1, ReturnLeaves
  <2>. QED
    BY <1>2, <1>8, <1>10, <2>2
<1>11. CASE f.failed /\ ReturnTo(t, FALSE, {}) /\ UNCHANGED entry
  <2>1. ~ Busy(f)
    BY <1>3, <1>11 DEF Busy
  <2>. QED
    BY <1>1, <1>11, <2>1, ReturnToStays, SamePromises
<1>. QED
  BY <1>4, <1>9, <1>10, <1>11

LEMMA FinishOpenPromises ==
  ASSUME TypesFit, TypesFit', CallsFit, DuesKept, StampsKept, NEW t \in DirThreads, FinishOpen(t)
  PROVE  PromisesStay
<1> DEFINE b == Top(t).dir
           c0 == <<t, Len(stack[t]) - 1>>
<1>1. stack[t] # <<>> /\ Top(t).op = "open" /\ Top(t).at = "finish" /\ UNCHANGED promised
      /\ overlooked' = IF Top(t).missing /\ entry'[b].cached THEN overlooked \cup {b} ELSE overlooked
  BY DEF FinishOpen, In
<1>2. /\ Top(t) \in Frames /\ b \in Dirs /\ b \in Top(t).holds /\ (Top(t).missing => Top(t).failed)
      /\ entry[b] \in Entries /\ (EntryKept(b) => entry[b].cached)
  BY <1>1, OpenTop
<1>3. ASSUME KnowsNow(t), b \notin overlooked, ~ Top(t).missing PROVE ~ Behind(entry[b], promised[b])
  <2>1. ~ Reading(Top(t))
    BY <1>1, <1>3 DEF Reading
  <2>. QED
    BY <1>3, <2>1 DEF KnowsNow, Knows
<1>4. CASE Succeeds(t) /\ Top(t).keep
  <2>1. PICK ok \in BOOLEAN : ok = TRUE
    OBVIOUS
  <2>2. ReturnTo(t, ok, {b}) /\ UNCHANGED entry
    BY <1>4, <2>1 DEF FinishOpen, cache
  <2>3. ~ Top(t).missing /\ entry[b].info # NoInfo /\ overlooked' = overlooked
    BY <1>1, <1>2, <1>4 DEF Succeeds
  <2>4. {b} \in SUBSET Dirs
    BY <1>2
  <2>5. DuesCome
    BY <1>1, <2>2, <2>4, ReturnToDues
  <2>6. Calls' = Calls \ {TopOf(t)}
        /\ \A c \in Calls' : IF c = c0 THEN CallAt(c)' = Told(t, CallAt(c), ok, {b}) ELSE CallAt(c)' = CallAt(c)
    BY <1>1, <2>2, <2>4, ReturnToCalls
  <2>7. c0 \in Calls => /\ CallAt(c0).op = "update" /\ CallAt(c0).dir = b
                        /\ Told(t, CallAt(c0), ok, {b}).op = "update" /\ Told(t, CallAt(c0), ok, {b}).dir = b
    <3>1. c0 \in Calls => Calling(CallAt(c0), Top(t))
      BY <1>1, CallerIs
    <3>2. c0 \in Calls => CallAt(c0).op = "update" /\ CallAt(c0).dir = b
      BY <1>1, <1>4, <3>1 DEF Calling
    <3>3. c0 \in Calls => /\ Told(t, CallAt(c0), ok, {b}).dir = CallAt(c0).dir
                          /\ Told(t, CallAt(c0), ok, {b}).op = CallAt(c0).op
      BY <1>1, <2>4, ToldIsAlike
    <3>. QED
      BY <3>2, <3>3
  <2> HIDE DEF c0
  <2>8. ASSUME NEW d \in Dirs, EntryKept(d), Promised(d) PROVE Promised(d)'
    <3>1. Users(d)' = {c \in Calls' : Uses(CallAt(c)', d)}
      BY UsersNext
    <3>2. CASE d = b
      <4>1. KnowsNow(t) /\ Users(d) \subseteq {TopOf(t)}
        BY <1>1, <1>2, <2>8, <3>2, TopKnows
      <4>2. ASSUME NEW c \in Users(d)' PROVE c = c0 /\ (CallAt(c)').op = "update"
        <5>1. c \in Calls /\ c # TopOf(t) /\ Uses(CallAt(c)', d)
          BY <2>6, <3>1
        <5>2. c \notin Users(d)
          BY <4>1, <5>1
        <5>3. c = c0
          BY <2>6, <5>1, <5>2 DEF Users
        <5>. QED
          BY <2>6, <2>7, <5>1, <5>3
      <4>3. \A c \in Users(d)' : HasRead(CallAt(c)', entry'[d], promised'[d]) /\ SeesNow(CallAt(c)', entry'[d])
        BY <2>2, <2>3, <3>2, <4>2 DEF HasRead, SeesNow
      <4>4. d \notin overlooked' => ~ Behind(entry'[d], promised'[d])
        BY <1>1, <1>3, <2>2, <2>3, <3>2, <4>1
      <4>. QED
        BY <4>3, <4>4, PromisedNext
    <3>3. CASE d # b
      <4>1. TopOf(t) \notin Users(d)
        BY <1>1, <3>3, TopUses DEF Uses
      <4>2. c0 \notin Users(d) /\ (c0 \in Calls => ~ Uses(Told(t, CallAt(c0), ok, {b}), d))
        BY <2>7, <3>3 DEF Users, Uses
      <4>3. Users(d)' = Users(d) /\ \A c \in Users(d) : CallAt(c)' = CallAt(c)
        BY <2>6, <3>1, <4>1, <4>2 DEF Users
      <4>4. SameUsers(d)
        BY <4>3, SelfAlike DEF SameUsers
      <4>5. EntryGoes(d)
        BY <1>1, <2>2 DEF EntryGoes, EntryStays
      <4>. QED
        BY <2>3, <2>8, <4>4, <4>5, QuietPromised
    <3>. QED
      BY <3>2, <3>3
  <2>. QED
    BY <2>5, <2>8 DEF PromisesStay
<1>5. CASE ~ (Succeeds(t) /\ Top(t).keep)
  <2>1. PICK delete \in BOOLEAN : delete = (Top(t).missing /\ ~ entry[b].bLocked)
    OBVIOUS
  <2>2. Release2(b, entry[b], 1, delete)
    BY <1>5, <2>1 DEF FinishOpen, Release
  <2>3. PICK ok \in BOOLEAN : ok = Succeeds(t)
    BY DEF Succeeds
  <2>4. ReturnTo(t, ok, {})
    BY <1>5, <2>3 DEF FinishOpen
  <2>5. TopLeaves(t)
    BY <1>1, <2>4, ReturnLeaves
  <2>6. 1 \in Int
    OBVIOUS
  <2>7. /\ \A d \in Dirs \ {b} : entry'[d] = entry[d]
        /\ entry'[b] = NoEntry \/ Stays(entry'[b], entry[b])
    <3>1. /\ \A d \in Dirs \ {b} : entry'[d] = entry[d]
          /\ \/ HandedOver(b, entry[b], entry[b].lReferenceCount - 1)
             \/ delete /\ Forgotten(b, entry[b], entry[b].lReferenceCount - 1)
             \/ ~ delete /\ Unused(b, entry[b], entry[b].lReferenceCount - 1)
      BY <1>2, <2>2, <2>6, ReleaseMeans
    <3>. QED
      BY <3>1 DEF HandedOver, Unused, Forgotten
  <2>8. ASSUME EntryKept(b), KnowsNow(t), b \notin overlooked' PROVE ~ Behind(entry'[b], promised[b])
    <3>1. CASE entry'[b] = NoEntry
      BY <3>1, NoEntryIsEntry DEF Behind
    <3>2. CASE Stays(entry'[b], entry[b])
      <4>1. entry'[b].cached
        BY <1>2, <2>8, <3>2 DEF Stays
      <4>2. ~ Top(t).missing /\ b \notin overlooked
        BY <1>1, <2>8, <4>1
      <4>3. ~ Behind(entry[b], promised[b])
        BY <1>3, <2>8, <4>2
      <4>. QED
        BY <3>2, <4>3 DEF Behind, Stays
    <3>. QED
      BY <2>7, <3>1, <3>2
  <2>9. \A d \in Dirs \ {b} : entry'[d] = entry[d] /\ (d \in overlooked => d \in overlooked')
    BY <1>1, <2>7
  <2>. QED
    BY <1>1, <1>2, <2>5, <2>8, <2>9, LeavePromises
<1>. QED
  BY <1>4, <1>5


-------------------------------------------------------------------------------
(* The steps together.                                                     *)

\* What is promised of a directory stays, or is what the disk has now.
PromisesGrow == \A d \in Dirs : promised'[d] = promised[d] \/ promised'[d] = volume[d].stamp

LEMMA StepPromised ==
  ASSUME TypesFit, CallsFit, DirNext
  PROVE  PromisesGrow
<1>1. PICK t \in DirThreads : OpenStep(t) \/ UpdateStep(t) \/ CommandStep(t) \/ MoveStep(t)
  BY DEF DirNext
<1>2. CASE OpenStep(t)
  BY <1>2, Zenon DEF OpenStep, AcquireDirectory, Wake, Exchange, LookAtDisk, ListDirectory, OpenBelow, ReadPermissions,
     FinishOpen, dirghosts, PromisesGrow
<1>3. CASE MarkParentOf(t)
  <2>1. promised' = [promised EXCEPT ![ParentDir[Top(t).dir]] = volume[ParentDir[Top(t).dir]].stamp]
    BY <1>3 DEF MarkParentOf
  <2>. QED
    BY <2>1 DEF PromisesGrow, TypesFit
<1>4. CASE UpdateStep(t) /\ ~ MarkParentOf(t)
  BY <1>4 DEF UpdateStep, CallUpdate, SaveOwner, EndMark, dirghosts, PromisesGrow
<1>5. CASE MarkDir(t)
  <2>1. PICK D : Mark(D)
    BY <1>5 DEF MarkDir
  <2>. QED
    BY <2>1, MarkStays DEF PromisesGrow
<1>6. CASE CommandStep(t) /\ ~ MarkDir(t)
  BY <1>6 DEF CommandStep, Begin, CreateFile, WriteFile, DeleteFile, MakeDirectory, Returned, StatDirectory,
     DeletePermissions, RemoveDirectory, dirghosts, PromisesGrow
<1>7. CASE MoveStep(t)
  BY <1>7, Zenon DEF MoveStep, MoveBegins, MoveSource, MoveTarget, MoveRelease, MoveFile, MoveRest, MoveRestore,
     MoveRestored, MoveUnlock, dirghosts, PromisesGrow
<1>. QED
  BY <1>1, <1>2, <1>3, <1>4, <1>5, <1>6, <1>7

LEMMA StepStays ==
  ASSUME TypesFit, TypesFit', CallsFit, DuesKept, StampsKept, DirNext
  PROVE  PromisesStay
<1>1. PICK t \in DirThreads : OpenStep(t) \/ UpdateStep(t) \/ CommandStep(t) \/ MoveStep(t)
  BY DEF DirNext
<1>2. CASE OpenStep(t)
  BY <1>2, AcquireDirectoryPromises, WakePromises, ExchangePromises, LookAtDiskPromises, ListDirectoryPromises,
     OpenBelowPromises, ReadPermissionsPromises, FinishOpenPromises DEF OpenStep
<1>3. CASE UpdateStep(t)
  BY <1>3, CallUpdatePromises, SaveOwnerPromises, MarkParentOfPromises, EndMarkPromises DEF UpdateStep
<1>4. CASE CommandStep(t)
  <2>1. CASE Begin(t) \/ MarkDir(t)
    BY <2>1, BeginPromises, MarkDirPromises
  <2>2. CASE ~ (Begin(t) \/ MarkDir(t))
    <3>1. Returned(t) => Top(t).op \in {"upload", "delete", "mkdir", "rmdir"}
      BY DoneIsCommand DEF Returned
    <3>2. \/ CreateFile(t) \/ WriteFile(t) \/ DeleteFile(t) \/ MakeDirectory(t) \/ StatDirectory(t)
          \/ DeletePermissions(t) \/ RemoveDirectory(t)
          \/ Returned(t) /\ Top(t).op \in {"upload", "delete", "mkdir", "rmdir"}
      BY <1>4, <2>2, <3>1 DEF CommandStep
    <3>3. CommandStays(t)
      BY <3>2, CommandsStay
    <3>. QED
      BY <3>3, CommandPromises
  <2>. QED
    BY <2>1, <2>2
<1>5. CASE MoveStep(t)
  BY <1>5, MoveBeginsPromises, MoveSourcePromises, MoveTargetPromises, MoveReleasePromises, MoveFilePromises,
     MoveRestPromises, MoveRestorePromises, MoveRestoredPromises, MoveUnlockPromises DEF MoveStep
<1>. QED
  BY <1>1, <1>2, <1>3, <1>4, <1>5

LEMMA StepPromises ==
  ASSUME TypesFit, CallsFit, TableKept, PromisesKept, DirNext
  PROVE  PromisesKept'
<1>1. TypesFit' /\ Grown(volume')
  BY StepFits
<1>2. PromisesGrow
  BY StepPromised
<1>3. StampsKept /\ DuesKept
  BY DEF PromisesKept
<1>4. PromisesStay
  BY <1>1, <1>3, StepStays
<1>5. ASSUME NEW d \in Dirs
      PROVE  /\ promised'[d] <= volume'[d].stamp /\ promised[d] <= promised'[d]
             /\ promised[d] \in Int /\ promised'[d] \in Int
  <2>1. volume[d] \in Volumes /\ volume'[d] \in Volumes /\ promised[d] \in Int /\ promised'[d] \in Int
    BY <1>1 DEF TypesFit
  <2>2. volume[d].stamp \in Int /\ volume'[d].stamp \in Int
    BY <2>1 DEF Volumes
  <2>3. volume[d].stamp <= volume'[d].stamp
    BY <1>1 DEF Grown
  <2>4. promised[d] <= volume[d].stamp
    BY <1>3 DEF StampsKept
  <2>5. promised'[d] = promised[d] \/ promised'[d] = volume[d].stamp
    BY <1>2 DEF PromisesGrow
  <2>. QED
    BY <2>1, <2>2, <2>3, <2>4, <2>5
<1>6. StampsKept'
  BY <1>5 DEF StampsKept
<1>7. DuesKept'
  <2>1. ASSUME NEW c \in Calls' PROVE Due(CallAt(c))'
    <3>1. PICK t \in DirThreads : \E n \in 1..Len(stack'[t]) : c = <<t, n>>
      BY <2>1, IsCallNext
    <3>2. PICK n \in 1..Len(stack'[t]) : c = <<t, n>>
      BY <3>1
    <3>3. stack'[t] \in Seq(Frames)
      BY <1>1 DEF TypesFit
    <3>4. CallAt(c)' = stack'[t][n] /\ stack'[t][n] \in Frames
      BY <3>2, <3>3 DEF CallAt
    <3> DEFINE f == CallAt(c)'
    <3>5. f.dir \in Dirs /\ f.due \in Int
      BY <3>4 DEF Frames
    <3>6. Due(f)
      BY <1>4 DEF PromisesStay, DuesCome
    <3> HIDE DEF f
    <3>7. promised[f.dir] <= promised'[f.dir] /\ promised[f.dir] \in Int /\ promised'[f.dir] \in Int
      BY <1>5, <3>5
    <3>8. f.op = "open" => f.due <= promised'[f.dir]
      BY <3>5, <3>6, <3>7 DEF Due
    <3>. QED
      BY <3>8 DEF Due, f
  <2>. QED
    BY <2>1 DEF DuesKept
<1>8. ASSUME NEW d \in Dirs \ intruded' PROVE Promised(d)'
  <2>1. d \in Dirs \ intruded
    BY IntrudedGrows
  <2>2. EntryKept(d) /\ Promised(d)
    BY <2>1 DEF TableKept, PromisesKept
  <2>. QED
    BY <1>4, <2>1, <2>2 DEF PromisesStay
<1>. QED
  BY <1>6, <1>7, <1>8 DEF PromisesKept

LEMMA InitKept ==
  ASSUME DirInit
  PROVE  TableKept /\ PromisesKept
<1>1. Calls = {}
  BY InitFits
<1>2. \A d : Holders(d) = {} /\ Waiters(d) = {} /\ Lockers(d) = {} /\ Testers(d) = {} /\ Users(d) = {}
  BY <1>1 DEF Holders, Waiters, Lockers, Testers, Users
<1>3. IsFiniteSet({}) /\ Cardinality({}) = 0
  BY FS_EmptySet
<1>4. ASSUME NEW d \in Dirs
      PROVE  /\ ~ entry[d].cached /\ entry[d].lReferenceCount = 0 /\ ~ entry[d].bLocked /\ entry[d].hEvent = "none"
             /\ promised[d] = 0 /\ volume[d].stamp = 0
  BY DEF DirInit, NoEntry
<1>5. lpDirectoryList = <<>> /\ Len(lpDirectoryList) = 0
  BY DEF DirInit
<1>6. TableKept
  <2>1. ASSUME NEW d \in Dirs PROVE EntryKept(d)
    <3>1. Once(lpDirectoryList, d) /\ ~ Listed(lpDirectoryList, d)
      BY <1>5 DEF Once, Listed
    <3>2. /\ IsFiniteSet(Holders(d)) /\ IsFiniteSet(Waiters(d))
          /\ Cardinality(Holders(d)) = 0 /\ Cardinality(Waiters(d)) = 0
      BY <1>2, <1>3
    <3>3. /\ entry[d].lReferenceCount
              = (IF entry[d].cached THEN 1 ELSE 0) + Cardinality(Holders(d)) + Cardinality(Waiters(d))
          /\ Cardinality(Holders(d)) <= 1 /\ entry[d].lReferenceCount # 1
      BY <1>4, <3>2
    <3>. QED
      BY <1>2, <1>4, <3>1, <3>2, <3>3 DEF EntryKept
  <2>2. ASSUME NEW d \in Dirs PROVE LockKept(d)
    BY <1>2 DEF LockKept
  <2>. QED
    BY <2>1, <2>2 DEF TableKept
<1>7. PromisesKept
  <2>1. StampsKept
    BY <1>4 DEF StampsKept
  <2>2. DuesKept
    BY <1>1 DEF DuesKept
  <2>3. ASSUME NEW d \in Dirs PROVE Promised(d)
    BY <1>2, <1>4 DEF Promised, Behind
  <2>. QED
    BY <2>1, <2>2, <2>3 DEF PromisesKept
<1>. QED
  BY <1>6, <1>7

-------------------------------------------------------------------------------
(* What the invariant says.                                                *)
DirInv == TypesFit /\ CallsFit /\ TableKept /\ PromisesKept

LEMMA InvHoldersExclude ==
  ASSUME DirInv
  PROVE  HoldersExclude
<1>1. TypesFit /\ lpDirectoryList \in Seq(Dirs)
  BY DEF DirInv, TypesFit
<1>2. ListedAreUnused
  <2> SUFFICES ASSUME NEW d \in Dirs \ intruded
               PROVE  /\ \A i, j \in DOMAIN lpDirectoryList : lpDirectoryList[i] = d /\ lpDirectoryList[j] = d => i = j
                      /\ d \in ToSet(lpDirectoryList) <=> entry[d].lReferenceCount = 1 /\ ~ entry[d].bLocked
    BY DEF ListedAreUnused
  <2>1. EntryKept(d)
    BY DEF DirInv, TableKept
  <2>2. DOMAIN lpDirectoryList = 1..Len(lpDirectoryList)
    BY <1>1
  <2>3. d \in ToSet(lpDirectoryList) <=> Listed(lpDirectoryList, d)
    BY <2>2 DEF ToSet, Listed
  <2>4. Once(lpDirectoryList, d)
    BY <2>1 DEF EntryKept
  <2>5. Listed(lpDirectoryList, d) <=> entry[d].lReferenceCount = 1 /\ ~ entry[d].bLocked
    BY <2>1 DEF EntryKept
  <2>6. \A i, j \in DOMAIN lpDirectoryList : lpDirectoryList[i] = d /\ lpDirectoryList[j] = d => i = j
    BY <2>2, <2>4 DEF Once
  <2>. QED
    BY <2>3, <2>5, <2>6
<1>3. WaitersAreTold
  BY DEF DirInv, TableKept, EntryKept, WaitersAreTold
<1>4. ASSUME NEW d \in Dirs \ intruded
      PROVE  /\ Cardinality(Holders(d)) <= 1
             /\ entry[d].lReferenceCount
                   = (IF entry[d].cached THEN 1 ELSE 0) + Cardinality(Holders(d)) + Cardinality(Waiters(d))
  BY DEF DirInv, TableKept, EntryKept
<1>. QED
  BY <1>2, <1>3, <1>4 DEF HoldersExclude

LEMMA InvMarkedIsSeen ==
  ASSUME DirInv
  PROVE  MarkedIsSeen
<1> SUFFICES ASSUME NEW t \in DirThreads, In(t, "open", "finish"), Succeeds(t),
                    Top(t).dir \notin intruded \cup overlooked
             PROVE  entry[Top(t).dir].info.stamp >= Top(t).due
  BY DEF MarkedIsSeen
<1> DEFINE f == Top(t)
<1>1. TypesFit /\ CallsFit /\ DuesKept /\ StampsKept
  BY DEF DirInv, PromisesKept
<1>2. stack[t] # <<>> /\ f.op = "open" /\ f.at = "finish" /\ ~ f.failed /\ entry[f.dir].info # NoInfo
  BY DEF In, Succeeds
<1>3. f.dir \in Dirs /\ f.dir \in f.holds
  BY <1>1, <1>2, OpenTop
<1>4. Promised(f.dir) /\ f.dir \notin overlooked
  BY <1>3 DEF DirInv, PromisesKept
<1>5. TopOf(t) \in Users(f.dir) /\ CallAt(TopOf(t)) = f
  BY <1>1, <1>2, <1>3, TopUses, TopIsCall DEF Uses, Matters
<1>6. SeesNow(f, entry[f.dir])
  BY <1>4, <1>5 DEF Promised
<1>. QED
  BY <1>2, <1>6 DEF SeesNow, Sees

LEMMA StutterKeeps ==
  ASSUME DirInv, UNCHANGED dirvars
  PROVE  DirInv'
<1>1. UNCHANGED <<volume, entry, lpDirectoryList, dwAllocated, stack, plan, promised, intruded, overlooked>>
  BY DEF dirvars, cache, asked, dirghosts
<1>2. Calls' = Calls /\ \A c : CallAt(c)' = CallAt(c)
  BY <1>1 DEF Calls, CallAt
<1>3. TypesFit'
  BY <1>1 DEF DirInv, TypesFit
<1>4. CallsFit'
  BY <1>1 DEF DirInv, CallsFit
<1>5. \A d : Holders(d)' = Holders(d) /\ Waiters(d)' = Waiters(d) /\ Lockers(d)' = Lockers(d) /\ Testers(d)' = Testers(d)
             /\ Users(d)' = Users(d)
  <2>1. \A d : Holders(d)' = Holders(d) /\ Waiters(d)' = Waiters(d)
    BY <1>2 DEF Holders, Waiters
  <2>2. \A d : Lockers(d)' = Lockers(d)
    BY <1>2 DEF Lockers, Locks
  <2>3. \A d : Testers(d)' = Testers(d)
    BY <1>2 DEF Testers, Tested
  <2>4. \A d : Users(d)' = Users(d)
    BY <1>2 DEF Users, Uses, Matters
  <2>. QED
    BY <2>1, <2>2, <2>3, <2>4
<1>6. TableKept'
  BY <1>1, <1>5 DEF DirInv, TableKept, EntryKept, LockKept
<1>7. PromisesKept'
  <2>1. StampsKept'
    BY <1>1 DEF DirInv, PromisesKept, StampsKept
  <2>2. DuesKept'
    BY <1>1, <1>2 DEF DirInv, PromisesKept, DuesKept, Due
  <2>3. ASSUME NEW d \in Dirs \ intruded' PROVE Promised(d)'
    <3>1. Promised(d)
      BY <1>1 DEF DirInv, PromisesKept
    <3>. QED
      BY <1>1, <1>2, <1>5, <3>1, PromisedNext DEF Promised
  <2>. QED
    BY <2>1, <2>2, <2>3 DEF PromisesKept
<1>. QED
  BY <1>3, <1>4, <1>6, <1>7 DEF DirInv

\* Whatever the threads do, for any number of them and any tree of
\* directories: one call at a time has a directory, the entry counts who has
\* it and who waits, nobody waits for a directory without being told, only
\* entries nobody uses may go from the table (AcquireDirCacheLock,
\* ReleaseDirCacheLock2), and an open that succeeds has seen every change that
\* was marked before it began (OpenDirectory, MarkDirectory); except for a
\* directory that IoMoveDirectory has unlocked while another thread had it,
\* and, until it is read again, one whose old contents stayed in the table.
THEOREM DirectoryKept == DirSpec => []DirectoryInv
<1>1. DirInit => DirInv
  BY InitFits, InitKept DEF DirInv
<1>2. DirInv /\ [DirNext]_dirvars => DirInv'
  <2> SUFFICES ASSUME DirInv, [DirNext]_dirvars PROVE DirInv'
    OBVIOUS
  <2>1. CASE DirNext
    BY <2>1, StepFits, StepTable, StepPromises DEF DirInv
  <2>2. CASE UNCHANGED dirvars
    BY <2>2, StutterKeeps
  <2>. QED
    BY <2>1, <2>2
<1>3. DirInv => DirectoryInv
  BY InvHoldersExclude, InvMarkedIsSeen DEF DirectoryInv
<1>. QED
  BY <1>1, <1>2, <1>3, PTL DEF DirSpec
=============================================================================
