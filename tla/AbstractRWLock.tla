---------------------------- MODULE AbstractRWLock ----------------------------
(***************************************************************************)
(* What LOCKOBJECT promises its callers (DirectoryCache, UserNew,          *)
(* GroupNew, Services, MessageHandler ...): at any time the lock is held   *)
(* by one thread exclusively, or by any number of threads in shared mode,  *)
(* or by nobody, and it changes hands one thread at a time.                *)
(***************************************************************************)
CONSTANT Threads

VARIABLES
  readers,  \* the threads that hold the lock in shared mode
  writers   \* the threads that hold it exclusively: none or one

Init == readers = {} /\ writers = {}

GrantShared(t) ==
  /\ writers = {} /\ t \notin readers
  /\ readers' = readers \cup {t}
  /\ UNCHANGED writers

GrantExclusive(t) ==
  /\ writers = {} /\ readers = {}
  /\ writers' = {t}
  /\ UNCHANGED readers

ReturnShared(t) ==
  /\ t \in readers
  /\ readers' = readers \ {t}
  /\ UNCHANGED writers

ReturnExclusive(t) ==
  /\ t \in writers
  /\ writers' = {}
  /\ UNCHANGED readers

Next == \E t \in Threads :
  GrantShared(t) \/ GrantExclusive(t) \/ ReturnShared(t) \/ ReturnExclusive(t)

Spec == Init /\ [][Next]_<<readers, writers>>
===============================================================================
