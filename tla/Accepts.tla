------------------------------- MODULE Accepts -------------------------------
(***************************************************************************)
(* How a service listens (Services.c).  A listening socket has ten accepts *)
(* outstanding.  Each is begun by the thread of the main window, on a      *)
(* message that carries the index of the accept; when it completes, a      *)
(* thread of the completion port runs Service_AcceptClient, which posts    *)
(* the message for the one that replaces it.  Administrators (SITE         *)
(* SERVICE, SITE REHASH) shut the service down and start it; the main      *)
(* thread itself does so when the daemon ends.                             *)
(***************************************************************************)
EXTENDS Integers, Sequences, FiniteSets

CONSTANTS ACCEPTS,     \* the length of lpAcceptClients: 10 in the code
          News,        \* 1, 2, ...: memory for NEWCLIENT structures
          Admins,
          Nobody,
          MAX_STARTS,  \* bound on the listening sockets
          MAX_CONNECTS,\* bound on the connections that wait to be accepted
          MAX_FAILS    \* bound on the failures of OpenSocket and AcceptEx

ASSUME AcceptsAssumption ==
    /\ ACCEPTS \in Nat \ {0} /\ News \subseteq Nat \ {0} /\ Nobody \notin News \cup Admins
    /\ MAX_STARTS \in Nat /\ MAX_CONNECTS \in Nat /\ MAX_FAILS \in Nat

Indexes        == 0..ACCEPTS - 1
INVALID_SOCKET == 0
NoIndex == -1
None   == 0        \* as in the array
Failed == -1

VARIABLES
    dwDaemonStatus,  \* "active", "grace", "shutdown"
    bActive, listen, \* of the service: its flag; the number of its Socket
    listening,       \* listen() has been called on Socket
    lAcceptClients,
    lpAcceptClients, \* index -> News, None or Failed
    messages,        \* WM_ACCEPTEX posted to the main window
    window,          \* what the main thread does: [at, index, nc]
    nc,              \* each NEWCLIENT: [at, index, on, open, err]
    admin,           \* each admin, and Nobody for the main thread in Services_DeInit
    lockedBy,        \* who has loServiceList exclusively
    backlog,         \* connections the listening socket has not accepted
    starts, fails,
    lost,            \* indexes whose accept has failed since the last start
    overlapped       \* a shutdown has run while another thread started the service

acceptvars == <<dwDaemonStatus, bActive, listen, listening, lAcceptClients, lpAcceptClients,
                messages, window, nc, admin, lockedBy, backlog, starts, fails, lost, overlapped>>

NoWindow == [at |-> "idle", index |-> NoIndex, nc |-> None]
NoNew   == [at |-> "unused", index |-> NoIndex, on |-> INVALID_SOCKET, open |-> FALSE, err |-> FALSE]
AtRest   == [at |-> "idle", todo |-> {}, nc |-> None, then |-> "idle"]
Controls == Admins \cup {Nobody}

AcceptsInit ==
    /\ dwDaemonStatus = "active" /\ bActive = FALSE
    /\ listen = INVALID_SOCKET /\ listening = FALSE
    /\ lAcceptClients = 0 /\ lpAcceptClients = [i \in Indexes |-> None]
    /\ messages = <<>> /\ window = NoWindow
    /\ nc = [n \in News |-> NoNew]
    /\ admin = [a \in Controls |-> AtRest] /\ lockedBy = Nobody
    /\ backlog = 0 /\ starts = 0 /\ fails = 0 /\ lost = {} /\ overlapped = FALSE

service == <<bActive, listen, listening, starts, overlapped>>
ghosts  == <<fails, lost>>

-----------------------------------------------------------------------------
(* The window's thread: Service_AcceptEx.  A failure puts -1 in the array  *)
(* and nobody tries that index again.                                      *)
Fails(i) == /\ lpAcceptClients' = [lpAcceptClients EXCEPT ![i] = Failed]
            /\ window' = NoWindow

WindowTakes ==
    /\ window.at = "idle" /\ messages # <<>>
    /\ messages' = Tail(messages)
    /\ LET i == Head(messages) IN
       \/ /\ dwDaemonStatus = "active" /\ ~bActive
          /\ Fails(i) /\ UNCHANGED <<nc, ghosts>>
       \/ /\ dwDaemonStatus = "active" /\ bActive /\ fails < MAX_FAILS
          /\ Fails(i) /\ fails' = fails + 1 /\ lost' = lost \cup {i} /\ UNCHANGED nc
       \/ /\ dwDaemonStatus = "active" /\ bActive
          /\ \E n \in News :
               /\ nc[n].at = "unused"
               /\ nc' = [nc EXCEPT ![n] = [NoNew EXCEPT !.at = "new", !.index = i, !.open = TRUE]]
               /\ window' = [at |-> "accept", index |-> i, nc |-> n]
          /\ UNCHANGED <<lpAcceptClients, ghosts>>
       \/ /\ dwDaemonStatus # "active"
          /\ UNCHANGED <<lpAcceptClients, window, nc, ghosts>>
    /\ UNCHANGED <<dwDaemonStatus, service, lAcceptClients, admin, lockedBy, backlog>>

CallAccept ==
    /\ window.at = "accept"
    /\ IF listening
       THEN /\ nc' = [nc EXCEPT ![window.nc].at = "waiting", ![window.nc].on = listen]
            /\ window' = [window EXCEPT !.at = "store"]
            /\ UNCHANGED <<lpAcceptClients, lost>>
       ELSE /\ nc' = [nc EXCEPT ![window.nc] = NoNew]
            /\ Fails(window.index) /\ lost' = lost \cup {window.index}
    /\ UNCHANGED <<dwDaemonStatus, service, lAcceptClients, messages, admin, lockedBy, backlog, fails>>

(* The accept may have completed by now: the pointer is stored anyway.     *)
StoreAccept ==
    /\ window.at = "store"
    /\ lpAcceptClients' = [lpAcceptClients EXCEPT ![window.index] = window.nc]
    /\ window' = [window EXCEPT !.at = "count"]
    /\ UNCHANGED <<dwDaemonStatus, service, lAcceptClients, messages, nc, admin, lockedBy, backlog, ghosts>>

CountAccept ==
    /\ window.at = "count"
    /\ lAcceptClients' = lAcceptClients + 1
    /\ window' = NoWindow
    /\ UNCHANGED <<dwDaemonStatus, service, lpAcceptClients, messages, nc, admin, lockedBy, backlog, ghosts>>

-----------------------------------------------------------------------------
(* The system completes an accept: with a connection, with one that has    *)
(* gone again, or aborted since one of the two sockets has been closed.    *)
Completes(n) ==
    /\ nc[n].at = "waiting"
    /\ \/ /\ nc[n].on = listen /\ listening /\ nc[n].open /\ backlog > 0
          /\ backlog' = backlog - 1
          /\ \E e \in BOOLEAN : nc' = [nc EXCEPT ![n].at = "done", ![n].err = e]
       \/ /\ nc[n].on # listen \/ ~nc[n].open
          /\ nc' = [nc EXCEPT ![n].at = "done", ![n].err = TRUE]
          /\ UNCHANGED backlog
    /\ UNCHANGED <<dwDaemonStatus, service, lAcceptClients, lpAcceptClients, messages, window, admin, lockedBy, ghosts>>

(* Service_AcceptClient.                                                   *)
ForgetAccept(n) ==
    /\ nc[n].at = "done"
    /\ IF dwDaemonStatus # "shutdown"
       THEN /\ lpAcceptClients' = [lpAcceptClients EXCEPT ![nc[n].index] = None]
            /\ nc' = [nc EXCEPT ![n].at = "uncount"]
       ELSE /\ nc' = [nc EXCEPT ![n].at = "test"] /\ UNCHANGED lpAcceptClients
    /\ UNCHANGED <<dwDaemonStatus, service, lAcceptClients, messages, window, admin, lockedBy, backlog, ghosts>>

UncountAccept(n) ==
    /\ nc[n].at = "uncount"
    /\ lAcceptClients' = lAcceptClients - 1
    /\ nc' = [nc EXCEPT ![n].at = "test"]
    /\ UNCHANGED <<dwDaemonStatus, service, lpAcceptClients, messages, window, admin, lockedBy, backlog, ghosts>>

(* The message for the next accept; then the connection is closed and its  *)
(* memory freed, or it is handed to IdentifyClient (HostTable goes on).    *)
\* Mutant: an accept that has failed is not replaced.
ReplacedIfTaken(n) == bActive /\ ~nc[n].err
Replaced(n) == bActive

Replace(n) ==
    /\ nc[n].at = "test"
    /\ messages' = IF dwDaemonStatus = "active" /\ nc[n].open /\ Replaced(n)
                   THEN Append(messages, nc[n].index) ELSE messages
    /\ nc' = [nc EXCEPT ![n] = NoNew]
    /\ UNCHANGED <<dwDaemonStatus, service, lAcceptClients, lpAcceptClients, window, admin, lockedBy, backlog, ghosts>>

Service_AcceptClient(n) == ForgetAccept(n) \/ UncountAccept(n) \/ Replace(n)

-----------------------------------------------------------------------------
(* Service_Shutdown, by a thread that goes on at `then`.                   *)
Shutdown(a, then) ==
    admin' = [admin EXCEPT ![a] = [AtRest EXCEPT !.at = "inactive", !.then = then]]

Starting(a) == admin[a].at \in {"open", "bind"} \/ admin[a].then # "idle"
Shutting(a) == admin[a].at \in {"inactive", "close", "take", "closeOne", "wait"}
Overlap     == \E a, b \in Controls : a # b /\ Shutting(a) /\ (Shutting(b) \/ Starting(b))

SetInactive(a) ==
    /\ admin[a].at = "inactive"
    /\ bActive' = FALSE
    /\ admin' = [admin EXCEPT ![a].at = "close"]
    /\ UNCHANGED <<dwDaemonStatus, listen, listening, starts, lAcceptClients, lpAcceptClients, messages, window, nc, lockedBy, backlog, ghosts>>

CloseListen(a) ==
    /\ admin[a].at = "close"
    /\ listen' = INVALID_SOCKET /\ listening' = FALSE /\ backlog' = 0
    /\ admin' = [admin EXCEPT ![a].at = "take", ![a].todo = Indexes]
    /\ UNCHANGED <<dwDaemonStatus, bActive, starts, lAcceptClients, lpAcceptClients, messages, window, nc, lockedBy, ghosts>>

After(left) == IF left = {} THEN "wait" ELSE "take"

(* The pointer is taken from the array, and the socket in the structure    *)
(* closed; nothing keeps the structure from being freed in between, or     *)
(* from having been freed.                                                 *)
TakeAccept(a) ==
    /\ admin[a].at = "take"
    /\ LET i == CHOOSE j \in admin[a].todo : \A k \in admin[a].todo : j <= k
           n == lpAcceptClients[i] IN
       /\ lpAcceptClients' = [lpAcceptClients EXCEPT ![i] = None]
       /\ admin' = [admin EXCEPT ![a] =
              [at   |-> IF n \in News THEN "closeOne" ELSE After(admin[a].todo \ {i}),
               todo |-> admin[a].todo \ {i}, nc |-> IF n \in News THEN n ELSE None,
               then |-> admin[a].then]]
    /\ UNCHANGED <<dwDaemonStatus, bActive, listen, listening, starts, lAcceptClients, messages, window, nc, lockedBy, backlog, ghosts>>

CloseAccept(a) ==
    /\ admin[a].at = "closeOne"
    /\ nc' = [nc EXCEPT ![admin[a].nc].open = FALSE]
    /\ admin' = [admin EXCEPT ![a].at = After(admin[a].todo), ![a].nc = None]
    /\ UNCHANGED <<dwDaemonStatus, bActive, listen, listening, starts, lAcceptClients, lpAcceptClients, messages, window, lockedBy, backlog, ghosts>>

(* Until no accept is left, or for 2.5 s.                                  *)
EndWait(a) ==
    /\ admin[a].at = "wait"
    /\ admin' = [admin EXCEPT ![a] = [AtRest EXCEPT !.at = admin[a].then]]
    /\ lockedBy' = IF admin[a].then = "idle" /\ lockedBy = a THEN Nobody ELSE lockedBy
    /\ dwDaemonStatus' = IF a = Nobody THEN "shutdown" ELSE dwDaemonStatus
    /\ UNCHANGED <<bActive, listen, listening, starts, lAcceptClients, lpAcceptClients, messages, window, nc, backlog, ghosts>>

Service_Shutdown(a) ==
    \/ SetInactive(a) \/ CloseListen(a) \/ TakeAccept(a) \/ CloseAccept(a) \/ EndWait(a)

-----------------------------------------------------------------------------
(* SITE SERVICE DISABLE: without the lock of the list.                     *)
Admin_Disable(a) ==
    /\ admin[a].at = "idle" /\ bActive /\ dwDaemonStatus = "active"
    /\ Shutdown(a, "idle")
    /\ UNCHANGED <<dwDaemonStatus, bActive, listen, listening, starts, lAcceptClients, lpAcceptClients, messages, window, nc, lockedBy, backlog, ghosts>>

(* Start: of a service that is not active, or whose address in the *)
(* configuration has changed; without an active device it is shut down.    *)
Start(a) ==
    /\ admin[a].at = "idle" /\ dwDaemonStatus = "active" /\ lockedBy = Nobody /\ starts < MAX_STARTS
    /\ lockedBy' = a
    /\ starts' = starts + 1
    /\ \E then \in {"open", "idle"} : Shutdown(a, then)
    /\ UNCHANGED <<dwDaemonStatus, bActive, listen, listening, lAcceptClients, lpAcceptClients, messages, window, nc, backlog, ghosts>>

OpenListen(a) ==
    /\ admin[a].at = "open"
    /\ listen' = starts
    /\ admin' = [admin EXCEPT ![a].at = "bind"]
    /\ UNCHANGED <<dwDaemonStatus, bActive, listening, starts, lAcceptClients, lpAcceptClients, messages, window, nc, lockedBy, backlog, ghosts>>

InOrder == [k \in 1..ACCEPTS |-> k - 1]

(* Bind and listen, and ten messages; or they fail and it is shut down.    *)
Activate(a) ==
    /\ admin[a].at = "bind"
    /\ \/ /\ listen # INVALID_SOCKET
          /\ listening' = TRUE /\ bActive' = TRUE
          /\ messages' = messages \o InOrder
          /\ lost' = {}
          /\ admin' = [admin EXCEPT ![a] = AtRest] /\ lockedBy' = Nobody
       \/ /\ Shutdown(a, "idle")
          /\ UNCHANGED <<listening, bActive, messages, lost, lockedBy>>
    /\ UNCHANGED <<dwDaemonStatus, listen, starts, lAcceptClients, lpAcceptClients, window, nc, backlog, fails>>

Connects ==
    /\ listening /\ backlog < MAX_CONNECTS
    /\ backlog' = backlog + 1
    /\ UNCHANGED <<dwDaemonStatus, bActive, listen, listening, starts, lAcceptClients, lpAcceptClients, messages, window, nc, admin, lockedBy, ghosts>>

(* The daemon ends: messages are no longer obeyed, the main thread leaves  *)
(* its loop and shuts the service down.                                    *)
Grace ==
    /\ dwDaemonStatus = "active" /\ dwDaemonStatus' = "grace"
    /\ UNCHANGED <<bActive, listen, listening, starts, lAcceptClients, lpAcceptClients, messages, window, nc, admin, lockedBy, backlog, ghosts>>

Services_DeInit ==
    /\ dwDaemonStatus = "grace" /\ window.at = "idle" /\ lockedBy = Nobody /\ admin[Nobody].at = "idle"
    /\ Shutdown(Nobody, "idle")
    /\ UNCHANGED <<dwDaemonStatus, bActive, listen, listening, starts, lAcceptClients, lpAcceptClients, messages, window, nc, lockedBy, backlog, ghosts>>

Window  == WindowTakes \/ CallAccept \/ StoreAccept \/ CountAccept
Control == \/ \E a \in Controls : Service_Shutdown(a)
           \/ \E a \in Admins : Admin_Disable(a) \/ Start(a) \/ OpenListen(a) \/ Activate(a)
           \/ Grace \/ Services_DeInit

AcceptsNext ==
    \/ Window
    \/ (\E n \in News : Completes(n) \/ Service_AcceptClient(n))
    \/ Connects /\ UNCHANGED overlapped
    \/ Control /\ overlapped' = (overlapped \/ Overlap')

AcceptsSpec == AcceptsInit /\ [][AcceptsNext]_acceptvars

-----------------------------------------------------------------------------
(* The counter that Service_Shutdown waits for, and that Services_Test     *)
(* takes for a sign of life, is the number of accepts that have been begun *)
(* and not been looked after, but for the one the window is counting.      *)
Outstanding    == {n \in News : nc[n].at \in {"waiting", "done", "uncount"}}
AcceptsCounted ==
    dwDaemonStatus # "shutdown" =>
        lAcceptClients = Cardinality(Outstanding) - (IF window.at \in {"store", "count"} THEN 1 ELSE 0)

(* While the service listens, each index has an accept, or one that is     *)
(* about to replace it: no order of completions, messages and restarts     *)
(* loses one.  Excepted are indexes whose accept has failed (nobody tries  *)
(* them again) and a start that a shutdown by another thread overlaps: the *)
(* late shutdown closes accepts of the new socket.                         *)
Served(i) ==
    \/ window.index = i
    \/ \E k \in DOMAIN messages : messages[k] = i
    \/ \E n \in News : /\ nc[n].index = i /\ nc[n].on = listen
                       /\ nc[n].at \in {"waiting", "done", "uncount", "test"}
Undisturbed == /\ dwDaemonStatus = "active" /\ listening /\ ~overlapped
               /\ \A a \in Controls : admin[a] = AtRest
KeepsListening == Undisturbed => \A i \in Indexes \ lost : Served(i)

(* Both of the above.                                                      *)
AcceptsInv == AcceptsCounted /\ KeepsListening

(* Who connects to a service that listens is taken, while an index is left *)
(* whose accept has not failed.  The window's thread and those of the      *)
(* completion port run.                                                    *)
ConnectionsTaken == []<>(backlog = 0 \/ ~Undisturbed \/ lost = Indexes)
=============================================================================
