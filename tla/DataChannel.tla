---------------------------- MODULE DataChannel ----------------------------
(***************************************************************************)
(* The data connection of one FTP session: PORT and PASV open a socket and *)
(* wait for its event with a time-out (Socket.c), RETR, STOR and LIST      *)
(* begin a transfer on it (FtpDataChannel.c), ABOR and a kill cut it off.  *)
(* The threads that meet are the command thread, the window thread that    *)
(* gets the socket events, the timer threads, the workers that run what    *)
(* was queued, the completion of the transmission, and whoever kills the   *)
(* client; they share the select object, the data channel, the jobs 201    *)
(* (the transfer) and 203 (its end) and three locks:                       *)
(*    csLock    of the data socket, a recursive critical section           *)
(*    jobLock   lJobLock of the client, held while jobs are cancelled      *)
(*    dataLock  lDataLock of the client, held by whoever looks at it       *)
(* csSelectList is held together with csLock, so each section under both   *)
(* is one step; AsyncSelectProc takes them in the other order and gives    *)
(* up when csLock is taken.                                                *)
(***************************************************************************)
EXTENDS Integers, FiniteSets

CONSTANTS
    MAX_COMMANDS,   \* bound on the commands of the client
    MAX_SELECTS,    \* bound on the select objects: PORT, PASV and retries
    HANDLES         \* socket handles the system gives out, and reuses

ASSUME BoundsAssumption ==
    MAX_COMMANDS \in Nat /\ MAX_SELECTS \in Nat \ {0} /\ HANDLES \in Nat \ {0}

INVALID_SOCKET == 0
NoSelect == 0
Selects  == 1..MAX_SELECTS
Threads  == {"cmd", "start", "cancel", "io", "window", "timer", "killer",
             "complete", "closer"}

VARIABLES
    pc, ret,        \* where a thread is; where it goes on after Cancel and Close
    own,            \* the select object a thread took over, to free it
    Socket,         \* ioSocket.Socket, a handle or INVALID_SOCKET
    armed,          \* WSAAsyncSelect will post an event of Socket
    messages,       \* the handles whose event is in the window's queue
    lpSelectEvent, sel, timer,
    started,        \* select objects made so far
    kind,           \* the command that runs, or began the transfer
    chan,           \* the data channel: bInitialized, bActive, dwLastError ...
    procs,          \* procs that wait in the job queue
    jobs,           \* job 201 active; job 203 "none", "pending", "active"
    filter, logoff, closed,
    csLock, jobLock, dataLock,
    file,           \* the file of the transfer is open, its path locked
    counts,         \* lUploads and lDownloads of the user, as this session did
    commands

sock == <<Socket, armed, messages, lpSelectEvent, sel, timer, started>>
locks == <<csLock, jobLock, dataLock>>
life == <<filter, logoff, closed, commands>>
vars == <<pc, ret, own, sock, kind, chan, procs, jobs, life, locks, file, counts>>

Init ==
    /\ pc = [t \in Threads |-> "idle"] /\ ret = [t \in Threads |-> "idle"]
    /\ own = [t \in Threads |-> NoSelect]
    /\ Socket = INVALID_SOCKET /\ armed = FALSE /\ messages = {}
    /\ lpSelectEvent = NoSelect /\ started = 0
    /\ sel = [i \in Selects |-> [state |-> "none", listed |-> FALSE,
                 set |-> FALSE, continue |-> FALSE, result |-> "ok"]]
    /\ timer = [i \in Selects |-> "none"]
    /\ kind = "none"
    /\ chan = [bInitialized |-> FALSE, bActive |-> FALSE, bAbort |-> FALSE,
               dwLastError |-> "ok", passive |-> FALSE]
    /\ procs = {} /\ jobs = [transfer |-> FALSE, complete |-> "none"]
    /\ filter = FALSE /\ logoff = FALSE /\ closed = FALSE /\ commands = 0
    /\ csLock = "none" /\ jobLock = "none" /\ dataLock = "none"
    /\ file = FALSE /\ counts = [RETR |-> 0, STOR |-> 0, LIST |-> 0]

At(t, label)   == pc[t] = label
Goto(t, label) == pc' = [pc EXCEPT ![t] = label]

-----------------------------------------------------------------------------
(* The select object *)

\* Mutant: the object stays where the timer and the window find it.
UnlinkKeepsEvent(i, s) ==
    /\ sel' = [sel EXCEPT ![i] = [s EXCEPT !.listed = FALSE]]
    /\ lpSelectEvent' = lpSelectEvent

(* WSAAsyncSelectRemove and lpSelectEvent = NULL: whoever does it owns the *)
(* object (in the state s) from then on.                                   *)
Unlink(i, s) ==
    /\ sel' = [sel EXCEPT ![i] = [s EXCEPT !.listed = FALSE]]
    /\ lpSelectEvent' = NoSelect

(* StopIoTimer waits for a proc that is running, and frees the timer.      *)
Stopped(i) == timer[i] \notin {"active", "answering"}

(* WSAAsyncSelectCancel and CloseSocket of the thread t, which continues   *)
(* at ret[t].  CloseSocket holds csLock all along, WSAAsyncSelectCancel    *)
(* alone only while it takes the object; some callers hold it before and   *)
(* after.  ABOR and FTP_CancelData note whether there was an event.        *)
CancelsOnly == {"again", "add203"}
Keeps == {"aborted", "notAborted", "cancelled", "notCancelled", "completed"}
Noted(r) == CASE r = "notAborted" -> "aborted"
              [] r = "notCancelled" -> "cancelled"
              [] OTHER -> r
Shut(t) == IF ret[t] \in CancelsOnly THEN ret[t] ELSE "shut"

CallClose(t, label) ==
    /\ Goto(t, "close") /\ ret' = [ret EXCEPT ![t] = label]

Close(t) ==
    /\ At(t, "close") /\ csLock \in {"none", t}
    /\ csLock' = IF ret[t] \in CancelsOnly THEN "none" ELSE t
    /\ own' = [own EXCEPT ![t] = lpSelectEvent]
    /\ IF lpSelectEvent # NoSelect
         THEN /\ Unlink(lpSelectEvent, sel[lpSelectEvent])
              /\ armed' = (armed /\ ~sel[lpSelectEvent].listed)
              /\ ret' = [ret EXCEPT ![t] = Noted(@)]
              /\ Goto(t, "stop")
         ELSE UNCHANGED <<sel, armed, lpSelectEvent, ret>> /\ Goto(t, Shut(t))
    /\ UNCHANGED <<Socket, messages, timer, started, kind, chan, procs, jobs,
                   life, jobLock, dataLock, file, counts>>

StopTimer(t) ==
    /\ At(t, "stop") /\ Stopped(own[t])
    /\ timer' = [timer EXCEPT ![own[t]] = "freed"]
    /\ sel' = [sel EXCEPT ![own[t]].state = "freed"]
    /\ own' = [own EXCEPT ![t] = NoSelect]
    /\ Goto(t, Shut(t))
    /\ UNCHANGED <<ret, Socket, armed, messages, lpSelectEvent, started, kind,
                   chan, procs, jobs, life, locks, file, counts>>

CloseHandle(t) ==
    /\ At(t, "shut")
    /\ Socket' = INVALID_SOCKET /\ armed' = FALSE
    /\ csLock' = IF ret[t] \in Keeps THEN t ELSE "none"
    /\ Goto(t, ret[t])
    /\ UNCHANGED <<ret, own, messages, lpSelectEvent, sel, timer, started, kind,
                   chan, procs, jobs, life, jobLock, dataLock, file, counts>>

(* The object of the thread t is answered: its timer stopped, the result   *)
(* stored, FTP_Data_Start queued.                                          *)
Answer(t, next) ==
    /\ At(t, "answer") /\ Stopped(own[t])
    /\ timer' = [timer EXCEPT ![own[t]] = "freed"]
    /\ sel' = [sel EXCEPT ![own[t]].state = "freed"]
    /\ chan' = [chan EXCEPT !.dwLastError = sel[own[t]].result]
    /\ procs' = procs \cup {"start"}
    /\ own' = [own EXCEPT ![t] = NoSelect]
    /\ Goto(t, next)
    /\ UNCHANGED <<ret, Socket, armed, messages, lpSelectEvent, started, kind,
                   jobs, life, locks, file, counts>>

-----------------------------------------------------------------------------
(* The events of the socket, and time *)

(* The peer connects, or refuses: the system posts the event.              *)
PeerEvent ==
    /\ armed /\ Socket # INVALID_SOCKET
    /\ messages' = messages \cup {Socket} /\ armed' = FALSE
    /\ UNCHANGED <<pc, ret, own, Socket, lpSelectEvent, sel, timer, started, kind,
                   chan, procs, jobs, life, locks, file, counts>>

Match(h) == {i \in Selects : sel[i].listed /\ Socket = h}

(* An event or a time-out has come to the object i.  If the transfer waits *)
(* for it, the thread takes the object over, to answer; otherwise the      *)
(* result stays until WSAAsyncSelectContinue asks for it.                  *)
Signal(i, s) ==
    IF s.continue THEN Unlink(i, s)
    ELSE /\ sel' = [sel EXCEPT ![i] = [s EXCEPT !.listed = FALSE]]
         /\ UNCHANGED lpSelectEvent

AsyncSelectProc(h) ==
    /\ At("window", "idle") /\ h \in messages
    /\ messages' = messages \ {h}
    /\ \/ \E i \in Match(h) :
            /\ csLock = "none" /\ i = lpSelectEvent
            /\ Signal(i, [sel[i] EXCEPT !.set = TRUE, !.result = "ok"])
            /\ IF sel[i].continue
                 THEN own' = [own EXCEPT !["window"] = i] /\ Goto("window", "answer")
                 ELSE UNCHANGED <<own, pc>>
       \/ \* no object, or its csLock is taken: the event is lost
          /\ Match(h) = {} \/ csLock # "none" \/ lpSelectEvent \notin Match(h)
          /\ UNCHANGED <<own, pc, sel, lpSelectEvent>>
    /\ UNCHANGED <<ret, Socket, armed, timer, started, kind, chan, procs, jobs, life,
                   locks, file, counts>>

Expire(i) ==
    /\ timer[i] = "wait"
    /\ timer' = [timer EXCEPT ![i] = "active"]
    /\ UNCHANGED <<pc, ret, own, Socket, armed, messages, lpSelectEvent, sel,
                   started, kind, chan, procs, jobs, life, locks, file, counts>>

(* It signals whatever object it finds, and returns 0 or INFINITE.         *)
TimerProc(i) ==
    /\ timer[i] = "active" /\ csLock = "none" /\ At("timer", "idle")
    /\ LET p == lpSelectEvent IN
       IF p = NoSelect
         THEN /\ timer' = [timer EXCEPT ![i] = "inactive"]
              /\ UNCHANGED <<pc, own, sel, armed, lpSelectEvent>>
         ELSE /\ Signal(p, [sel[p] EXCEPT !.set = TRUE, !.result = "timeout"])
              /\ armed' = (armed /\ ~sel[p].listed)
              /\ IF sel[p].continue
                   THEN /\ timer' = [timer EXCEPT ![i] = "answering"]
                        /\ own' = [own EXCEPT !["timer"] = p] /\ Goto("timer", "answer")
                   ELSE /\ timer' = [timer EXCEPT ![i] = "inactive"]
                        /\ UNCHANGED <<own, pc>>
    /\ UNCHANGED <<ret, Socket, messages, started, kind, chan, procs, jobs, life,
                   locks, file, counts>>

TimerAnswers(i) ==
    /\ timer[i] = "answering"
    /\ timer' = [timer EXCEPT ![i] = "freed"]
    /\ sel' = [sel EXCEPT ![own["timer"]].state = "freed"]
    /\ chan' = [chan EXCEPT !.dwLastError = sel[own["timer"]].result]
    /\ procs' = procs \cup {"start"}
    /\ own' = [own EXCEPT !["timer"] = NoSelect] /\ Goto("timer", "idle")
    /\ UNCHANGED <<ret, Socket, armed, messages, lpSelectEvent, started, kind,
                   jobs, life, locks, file, counts>>

-----------------------------------------------------------------------------
(* PORT and PASV *)

(* FTP_Command runs as job 5: not while 203 runs, not once the client was  *)
(* killed or has quit.                                                     *)
Takes ==
    /\ At("cmd", "idle") /\ commands < MAX_COMMANDS
    /\ ~filter /\ ~logoff /\ ~closed /\ jobs.complete # "active"
    /\ commands' = commands + 1
    /\ UNCHANGED <<own, procs, jobs, filter, closed, jobLock, dataLock>>

Command(k) ==
    /\ Takes /\ kind' = k
    /\ UNCHANGED <<sock, chan, logoff, csLock, file, counts>>

(* Only ABOR (and NOOP) are taken while a transfer is active.              *)
Connection(k) ==
    /\ Command(k) /\ ~chan.bActive /\ started < MAX_SELECTS
    /\ IF chan.bInitialized THEN CallClose("cmd", "open")
                            ELSE Goto("cmd", "open") /\ UNCHANGED ret

TransferActive == Connection("PORT")
TransferPassive == Connection("PASV")

OpenSocket ==
    /\ At("cmd", "open")
    /\ chan' = [chan EXCEPT !.bInitialized = FALSE]
    /\ \/ \E h \in 1..HANDLES : Socket' = h /\ Goto("cmd", "arm") /\ UNCHANGED ret
       \/ CallClose("cmd", "failed") /\ UNCHANGED Socket
    /\ UNCHANGED <<own, armed, messages, lpSelectEvent, sel, timer, started, kind,
                   procs, jobs, life, locks, file, counts>>

(* WSAAsyncSelectWithTimeout starts the timer before the object is known.  *)
StartTimer ==
    /\ At("cmd", "arm") /\ started < MAX_SELECTS
    /\ started' = started + 1
    /\ sel' = [sel EXCEPT ![started'].state = "live"]
    /\ timer' = [timer EXCEPT ![started'] = "wait"]
    /\ Goto("cmd", "register")
    /\ UNCHANGED <<ret, own, Socket, armed, messages, lpSelectEvent, kind, chan,
                   procs, jobs, life, locks, file, counts>>

Register ==
    /\ At("cmd", "register") /\ csLock = "none"
    /\ lpSelectEvent' = started
    /\ sel' = [sel EXCEPT ![started].listed = ~sel[started].set]
    /\ armed' = ~sel[started].set
    /\ IF kind = "PORT" THEN Goto("cmd", "connect") /\ UNCHANGED chan
       ELSE /\ chan' = [chan EXCEPT !.bInitialized = TRUE, !.passive = TRUE]
            /\ Goto("cmd", "idle")
    /\ UNCHANGED <<ret, own, Socket, messages, timer, started, kind, procs, jobs,
                   life, locks, file, counts>>

(* WSAConnect is under way; or the address is in use, and it tries again   *)
(* (at most five times); or it fails.                                      *)
Connect ==
    /\ At("cmd", "connect")
    /\ \/ /\ chan' = [chan EXCEPT !.bInitialized = TRUE, !.passive = FALSE]
          /\ Goto("cmd", "idle") /\ UNCHANGED ret
       \/ /\ IF started < MAX_SELECTS THEN CallClose("cmd", "again")
                                      ELSE CallClose("cmd", "failed")
          /\ UNCHANGED chan
       \/ CallClose("cmd", "failed") /\ UNCHANGED chan
    /\ UNCHANGED <<own, sock, kind, procs, jobs, life, locks, file, counts>>

ConnectAgain ==
    /\ At("cmd", "again") /\ Goto("cmd", "arm")
    /\ UNCHANGED <<ret, own, sock, kind, chan, procs, jobs, life, locks, file, counts>>

ConnectionFailed ==
    /\ At("cmd", "failed")
    /\ chan' = [chan EXCEPT !.bInitialized = FALSE, !.dwLastError = "error"]
    /\ Goto("cmd", "idle")
    /\ UNCHANGED <<ret, own, sock, kind, procs, jobs, life, locks, file, counts>>

-----------------------------------------------------------------------------
(* RETR, STOR and LIST *)

Counted(k, n) == IF k = "LIST" THEN counts ELSE [counts EXCEPT ![k] = @ + n]

(* The file is not opened (no such file, no access, limit reached): what   *)
(* was counted is given back.                                              *)
TransferRefused(k) ==
    /\ k # "LIST" /\ Command(k) /\ ~chan.bActive
    /\ CallClose("cmd", "refused")

Refused ==
    /\ At("cmd", "refused")
    /\ chan' = [chan EXCEPT !.bInitialized = FALSE, !.dwLastError = "error"]
    /\ Goto("cmd", "idle")
    /\ UNCHANGED <<ret, own, sock, kind, procs, jobs, life, locks, file, counts>>

(* FTPData_InitializeTransfer: without a data connection it fails at once, *)
(* later (offset, credits) when the transfer is active already.            *)
TransferBegins(k) ==
    /\ Takes /\ kind' = k /\ ~chan.bActive
    /\ counts' = Counted(k, 1) /\ file' = (k # "LIST")
    /\ IF chan.bInitialized
         THEN /\ chan' = [chan EXCEPT !.bActive = TRUE, !.bAbort = FALSE,
                                      !.dwLastError = "ok"]
              /\ \/ Goto("cmd", "begin") /\ UNCHANGED ret
                 \/ CallClose("cmd", "notBegun")
         ELSE chan' = [chan EXCEPT !.dwLastError = "error"] /\ CallClose("cmd", "notBegun")
    /\ UNCHANGED <<sock, logoff, csLock>>

(* FTP_Data_Close gives the count back if the transfer was active, and     *)
(* STOR gives it back once more.                                           *)
NotBegun ==
    /\ At("cmd", "notBegun") /\ dataLock = "none"
    /\ file' = FALSE
    /\ counts' = Counted(kind, -((IF chan.bActive THEN 1 ELSE 0)
                               + (IF kind = "STOR" THEN 1 ELSE 0)))
    /\ chan' = [chan EXCEPT !.bActive = FALSE, !.bInitialized = FALSE]
    /\ Goto("cmd", "idle")
    /\ UNCHANGED <<ret, own, sock, kind, procs, jobs, life, locks>>

(* FTP_Data_Begin_Transfer: job 201, unless the client was killed.         *)
BeginTransfer ==
    /\ At("cmd", "begin") /\ jobLock = "none"
    /\ IF filter THEN CallClose("cmd", "add203") /\ UNCHANGED jobs
       ELSE /\ jobs' = [jobs EXCEPT !.transfer = TRUE]
            /\ Goto("cmd", "continue") /\ UNCHANGED ret
    /\ UNCHANGED <<own, sock, kind, chan, procs, life, locks, file, counts>>

(* WSAAsyncSelectContinue.                                                 *)
ContinueSelect ==
    /\ At("cmd", "continue") /\ csLock = "none"
    /\ LET i == lpSelectEvent IN
       CASE i = NoSelect ->
              Goto("cmd", "add203") /\ UNCHANGED <<own, sel, lpSelectEvent>>
         [] i # NoSelect /\ sel[i].set ->
              /\ Unlink(i, sel[i])
              /\ own' = [own EXCEPT !["cmd"] = i] /\ Goto("cmd", "answer")
         [] OTHER ->
              /\ sel' = [sel EXCEPT ![i].continue = TRUE]
              /\ Goto("cmd", "add203") /\ UNCHANGED <<own, lpSelectEvent>>
    /\ UNCHANGED <<ret, Socket, armed, messages, timer, started, kind, chan, procs,
                   jobs, life, locks, file, counts>>

AddComplete ==
    /\ At("cmd", "add203") /\ jobLock = "none"
    /\ jobs' = [jobs EXCEPT !.complete = "pending"]
    /\ Goto("cmd", "idle")
    /\ UNCHANGED <<ret, own, sock, kind, chan, procs, life, locks, file, counts>>

(* A worker runs a queued FTP_Data_Start or FTP_CancelSocketJob.           *)
RunProc(t) ==
    /\ t \in procs /\ At(t, "idle")
    /\ procs' = procs \ {t}
    /\ Goto(t, IF t = "start" THEN "dataStart" ELSE "end201")
    /\ UNCHANGED <<ret, own, sock, kind, chan, jobs, life, locks, file, counts>>

(* FTP_Data_Start, on a worker or in ABOR: an error, found or new, ends    *)
(* the transfer; otherwise it tells the client table under csLock (as      *)
(* UpdateClientData locks the client) and transmits.                       *)
DataStart(t) ==
    /\ At(t, "dataStart") /\ csLock = "none"
    /\ \/ /\ \E h \in {Socket, INVALID_SOCKET} : Socket' = h
          /\ Socket' # Socket => chan.passive /\ chan.dwLastError = "ok"
          /\ chan' = [chan EXCEPT !.dwLastError = IF @ = "ok" THEN "error" ELSE @]
          /\ Goto(t, "end201") /\ UNCHANGED csLock
       \/ /\ chan.dwLastError = "ok"
          /\ IF chan.passive
               THEN Socket # INVALID_SOCKET /\ \E h \in 1..HANDLES : Socket' = h
               ELSE UNCHANGED Socket
          /\ csLock' = t /\ Goto(t, "transmit") /\ UNCHANGED chan
    /\ UNCHANGED <<ret, own, armed, messages, lpSelectEvent, sel, timer, started,
                   kind, procs, jobs, life, jobLock, dataLock, file, counts>>

Transmit(t) ==
    /\ At(t, "transmit") /\ dataLock = "none"
    /\ csLock' = "none"
    /\ pc' = [pc EXCEPT ![t] = "idle", !["io"] = "sending"]
    /\ UNCHANGED <<ret, own, sock, kind, chan, procs, jobs, life, jobLock,
                   dataLock, file, counts>>

(* FTP_TransferComplete: all was sent, or an error or a time-out ended it. *)
Transmitted ==
    /\ At("io", "sending")
    /\ \E e \in {"ok", "error"} :
          /\ Socket = INVALID_SOCKET => e = "error"
          /\ chan' = [chan EXCEPT !.dwLastError = e]
    /\ Goto("io", "end201")
    /\ UNCHANGED <<ret, own, sock, kind, procs, jobs, life, locks, file, counts>>

EndTransferJob(t) ==
    /\ At(t, "end201") /\ jobLock = "none"
    /\ jobs' = [jobs EXCEPT !.transfer = FALSE]
    /\ Goto(t, "idle")
    /\ UNCHANGED <<ret, own, sock, kind, chan, procs, life, locks, file, counts>>

(* Job 203 keeps commands out, and starts once 201 has ended; it enters    *)
(* csLock and closes the transfer under it.                                *)
TransferComplete ==
    /\ jobs.complete = "pending" /\ ~jobs.transfer
    /\ At("cmd", "idle") /\ At("complete", "idle") /\ jobLock = "none"
    /\ jobs' = [jobs EXCEPT !.complete = "active"]
    /\ CallClose("complete", "completed")
    /\ UNCHANGED <<own, sock, kind, chan, procs, life, locks, file, counts>>

DataClose ==
    /\ At("complete", "completed") /\ dataLock = "none"
    /\ csLock' = "none"
    /\ file' = FALSE
    /\ counts' = Counted(kind, IF chan.bActive THEN -1 ELSE 0)
    /\ chan' = [chan EXCEPT !.bActive = FALSE, !.bInitialized = FALSE, !.bAbort = FALSE]
    /\ Goto("complete", "end203")
    /\ UNCHANGED <<ret, own, sock, kind, procs, jobs, life, jobLock, dataLock>>

EndCompleteJob ==
    /\ At("complete", "end203") /\ jobLock = "none"
    /\ jobs' = [jobs EXCEPT !.complete = "none"]
    /\ Goto("complete", "idle")
    /\ UNCHANGED <<ret, own, sock, kind, chan, procs, life, locks, file, counts>>

-----------------------------------------------------------------------------
(* ABOR, QUIT, a kill, and the end of the connection *)

(* Mutant: the abort tests for an event but leaves it to others to answer. *)
AbortLeavesAnswer ==
    /\ pc["cmd"] \in {"aborted", "notAborted"}
    /\ csLock' = "none"
    /\ Goto("cmd", "idle")
    /\ UNCHANGED <<ret, own, sock, kind, chan, procs, jobs, life, jobLock,
                   dataLock, file, counts>>

TransferAbort ==
    /\ Takes /\ csLock = "none" /\ chan.bActive
    /\ csLock' = "cmd" /\ chan' = [chan EXCEPT !.bAbort = TRUE]
    /\ CallClose("cmd", "notAborted")
    /\ UNCHANGED <<sock, kind, logoff, file, counts>>

(* If it took the event, nobody else will answer: it does so itself.       *)
Aborted ==
    /\ pc["cmd"] \in {"aborted", "notAborted"}
    /\ csLock' = "none"
    /\ IF At("cmd", "aborted")
         THEN /\ chan' = [chan EXCEPT !.dwLastError = IF @ = "ok" THEN "error" ELSE @]
              /\ Goto("cmd", "dataStart")
         ELSE UNCHANGED chan /\ Goto("cmd", "idle")
    /\ UNCHANGED <<ret, own, sock, kind, procs, jobs, life, jobLock, dataLock,
                   file, counts>>

Quit ==
    /\ Takes /\ ~chan.bActive
    /\ logoff' = TRUE
    /\ UNCHANGED <<pc, ret, sock, kind, chan, csLock, file, counts>>

(* KillUser: LockClient, SetJobFilter, UnlockClient.                       *)
KillUser ==
    /\ At("killer", "idle") /\ ~closed /\ dataLock = "none"
    /\ dataLock' = "killer" /\ Goto("killer", "filter")
    /\ UNCHANGED <<ret, own, sock, kind, chan, procs, jobs, life, csLock, jobLock,
                   file, counts>>

\* Mutant: the jobs that wait are dropped, exclusive or not.
FilterDropsAll ==
    /\ filter' = TRUE
    /\ jobs' = [jobs EXCEPT !.complete = IF @ = "pending" THEN "none" ELSE @]

(* Its jobs are cancelled; job 203, EXCLUSIVE, still runs.                 *)
Filter == filter' = TRUE /\ UNCHANGED jobs

SetJobFilter ==
    /\ At("killer", "filter") /\ jobLock = "none"
    /\ IF jobs.transfer
         THEN /\ jobLock' = "killer" /\ CallClose("killer", "notCancelled")
              /\ UNCHANGED <<filter, jobs>>
         ELSE Filter /\ Goto("killer", "unlock") /\ UNCHANGED <<ret, jobLock>>
    /\ UNCHANGED <<own, sock, kind, chan, procs, logoff, closed, commands, csLock,
                   dataLock, file, counts>>

\* Mutant: the cancelled job is left to end by itself.
CancelDataOnly(taken) == UNCHANGED <<chan, procs>>

(* FTP_CancelData closed the socket: if it took the event, nobody else     *)
(* will end the job, so it queues a proc that does.                        *)
CancelData(taken) ==
    IF taken
      THEN /\ chan' = [chan EXCEPT !.dwLastError = "error"]
           /\ procs' = procs \cup {"cancel"}
      ELSE UNCHANGED <<chan, procs>>

Cancelled ==
    /\ pc["killer"] \in {"cancelled", "notCancelled"}
    /\ csLock' = "none" /\ jobLock' = "none"
    /\ CancelData(At("killer", "cancelled"))
    /\ Filter
    /\ Goto("killer", "unlock")
    /\ UNCHANGED <<ret, own, sock, kind, logoff, closed, commands, dataLock, file,
                   counts>>

UnlockClient ==
    /\ At("killer", "unlock")
    /\ dataLock' = "none" /\ Goto("killer", "done")
    /\ UNCHANGED <<ret, own, sock, kind, chan, procs, jobs, life, csLock, jobLock,
                   file, counts>>

(* FTP_Close_Connection, once no job is left.                              *)
CloseConnection ==
    /\ (filter \/ logoff) /\ ~closed
    /\ ~jobs.transfer /\ jobs.complete = "none"
    /\ At("cmd", "idle") /\ At("closer", "idle") /\ dataLock = "none"
    /\ CallClose("closer", "deleted")
    /\ UNCHANGED <<own, sock, kind, chan, procs, jobs, life, locks, file, counts>>

Deleted ==
    /\ At("closer", "deleted")
    /\ closed' = TRUE /\ Goto("closer", "done")
    /\ UNCHANGED <<ret, own, sock, kind, chan, procs, jobs, filter, logoff,
                   commands, locks, file, counts>>

-----------------------------------------------------------------------------
Kinds == {"RETR", "STOR", "LIST"}

(* What a thread does once it has begun.                                   *)
Step(t) == Close(t) \/ StopTimer(t) \/ CloseHandle(t)
CommandStep ==
    \/ Step("cmd") \/ Answer("cmd", "add203")
    \/ OpenSocket \/ StartTimer \/ Register \/ Connect \/ ConnectAgain
    \/ ConnectionFailed \/ Refused \/ NotBegun \/ BeginTransfer \/ ContinueSelect
    \/ AddComplete \/ Aborted
    \/ DataStart("cmd") \/ Transmit("cmd") \/ EndTransferJob("cmd")
WorkerStep(t) == RunProc(t) \/ DataStart(t) \/ Transmit(t) \/ EndTransferJob(t)
CompleteStep == TransferComplete \/ Step("complete") \/ DataClose \/ EndCompleteJob
KillerStep == SetJobFilter \/ Step("killer") \/ Cancelled \/ UnlockClient
CloserStep == CloseConnection \/ Step("closer") \/ Deleted
TimerStep(i) == Expire(i) \/ TimerProc(i) \/ TimerAnswers(i)
WindowStep == Answer("window", "idle") \/ \E h \in 1..HANDLES : AsyncSelectProc(h)

Commands ==
    \/ TransferActive \/ TransferPassive \/ TransferAbort \/ Quit
    \/ \E k \in Kinds : TransferRefused(k) \/ TransferBegins(k)

Next ==
    \/ Commands \/ KillUser \/ PeerEvent
    \/ CommandStep \/ CompleteStep \/ KillerStep \/ CloserStep \/ WindowStep
    \/ \E t \in {"start", "cancel"} : WorkerStep(t)
    \/ Transmitted \/ EndTransferJob("io")
    \/ \E i \in Selects : TimerStep(i)

(* Threads run, timers expire, and a transmission ends, if only by its     *)
(* TIMER_PER_TRANSMIT time-out; commands, kills and peers may never come.  *)
Fairness ==
    /\ WF_vars(CommandStep) /\ WF_vars(CompleteStep) /\ WF_vars(KillerStep)
    /\ WF_vars(CloserStep) /\ WF_vars(WindowStep)
    /\ \A t \in {"start", "cancel"} : WF_vars(WorkerStep(t))
    /\ WF_vars(Transmitted) /\ WF_vars(EndTransferJob("io"))
    /\ \A i \in Selects : WF_vars(TimerStep(i))

Spec == Init /\ [][Next]_vars /\ Fairness

-----------------------------------------------------------------------------
(* A select object has one owner - the socket, or the thread that took it  *)
(* to answer or cancel it - and is never reached once freed: the event,    *)
(* the time-out, the cancellation and the transfer race for it.            *)
OneOwner ==
    /\ lpSelectEvent # NoSelect => sel[lpSelectEvent].state = "live"
    /\ \A i \in Selects : sel[i].listed => i = lpSelectEvent
    /\ \A t \in Threads : own[t] # NoSelect =>
         /\ sel[own[t]].state = "live" /\ own[t] # lpSelectEvent
         /\ \A u \in Threads \ {t} : own[u] # own[t]

(* Who will see to it that job 201 ends.                                   *)
Enders ==
    (IF lpSelectEvent # NoSelect THEN {"event"} ELSE {})
    \cup procs
    \cup {t \in {"start", "cancel", "io"} : pc[t] # "idle"}
    \cup {t \in {"window", "timer"} : pc[t] = "answer"}
    \cup {t \in {"cmd"} : pc[t] \in {"answer", "aborted", "dataStart", "transmit", "end201"}
                          \/ (ret[t] = "aborted" /\ pc[t] \in {"stop", "shut"})}
    \cup {t \in {"killer"} : pc[t] = "cancelled"
                          \/ (ret[t] = "cancelled" /\ pc[t] \in {"stop", "shut"})}

(* However the event, the time-out, ABOR and a kill meet, exactly one of   *)
(* them starts or ends a transfer: nothing else would end its job, and     *)
(* nothing is left to do so once it has ended.                             *)
AnsweredOnce ==
    /\ jobs.transfer => Cardinality(Enders) = 1
    /\ ~jobs.transfer => Enders \subseteq {"event"}

(* Nobody else touches what a thread has taken, and each transfer is       *)
(* answered by one of those that race for it.                              *)
TransferHasOneOwner == OneOwner /\ AnsweredOnce

(* The file, its lock and the transfer are released before another command *)
(* runs, and before the client is freed: FTP_Close_Connection itself       *)
(* releases none of them.                                                  *)
Released ==
    /\ (file \/ chan.bActive) =>
         jobs.transfer \/ jobs.complete # "none" \/ pc["cmd"] # "idle"
    /\ closed => ~file /\ ~chan.bActive /\ Enders = {}

(* Two ways to wait for ever: the canceller of an event holds csLock and   *)
(* waits for its timer's proc, which waits for csLock; FTP_Data_Start      *)
(* holds csLock and waits for lDataLock, whose holder kills the client and *)
(* waits for csLock.                                                       *)
TimerEmbrace == \E t \in Threads :
    csLock = t /\ At(t, "stop") /\ timer[own[t]] = "active"
LockEmbrace ==
    /\ dataLock = "killer" /\ At("killer", "close")
    /\ \E t \in {"start", "cmd"} : csLock = t /\ At(t, "transmit")
Embraced == TimerEmbrace \/ LockEmbrace

(* The time-out came before the select object was registered: the peer     *)
(* alone can end the wait.                                                 *)
Untimed ==
    lpSelectEvent # NoSelect /\ timer[lpSelectEvent] = "inactive"
        /\ ~sel[lpSelectEvent].set

(* A transfer ends although events may be lost, come late or never come.   *)
TransferEnds == chan.bActive ~> (~chan.bActive \/ Embraced \/ Untimed)

(* A client that is killed is closed, whatever its transfer was doing.     *)
KilledCloses == filter ~> (closed \/ Embraced)
=============================================================================
