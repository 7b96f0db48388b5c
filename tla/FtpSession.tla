----------------------------- MODULE FtpSession -----------------------------
(***************************************************************************)
(* One FTP control connection: the procs and callbacks that FtpServer.c,   *)
(* FtpBaseCommands.c and FtpDataChannel.c run as jobs of a client, over    *)
(* the job table of ClientJobs.  A connection is read, answered and timed  *)
(* by different threads at once, and all they share is what the classes of *)
(* their jobs keep apart:                                                  *)
(*                                                                         *)
(*    10005  accept     TERTIARY              greets, starts reading       *)
(*        1  input      PRIMARY, INSTANT      a ReceiveLine is out         *)
(*        2  reply      SECONDARY, INSTANT    a send is out                *)
(*        5  command    PRIMARY, SECONDARY    runs one command             *)
(*       25  timeout    SECONDARY             sends 421                    *)
(*      201  transfer   TERTIARY, INSTANT     the data channel is busy     *)
(*      203  complete   SECONDARY, TERTIARY   closes a transfer, EXCLUSIVE *)
(*                                                                         *)
(* Each thread below is one proc or callback; a job's proc never runs      *)
(* twice at a time, so one thread name each is enough.                     *)
(***************************************************************************)
EXTENDS ClientJobs

CONSTANT MAX_COMMANDS   \* bound on the lines the client sends

Job(id, classes, exclusive, instant, proc) ==
    [id |-> id, classes |-> classes, exclusive |-> exclusive,
     instant |-> instant, proc |-> proc]

Accept   == Job("10005", {"TERTIARY"}, FALSE, FALSE, TRUE)
Input    == Job("1", {"PRIMARY"}, FALSE, TRUE, FALSE)
Reply    == Job("2", {"SECONDARY"}, FALSE, TRUE, FALSE)
Secure   == Job("2", {"PRIMARY", "SECONDARY"}, FALSE, TRUE, FALSE)
Command  == Job("5", {"PRIMARY", "SECONDARY"}, FALSE, FALSE, TRUE)
TimedOut == Job("25", {"SECONDARY"}, FALSE, FALSE, TRUE)
Transfer == Job("201", {"TERTIARY"}, FALSE, TRUE, FALSE)
\* Mutant: the end of a transfer does not keep commands out.
CompleteTertiary == Job("203", {"TERTIARY"}, TRUE, FALSE, TRUE)
Complete == Job("203", {"SECONDARY", "TERTIARY"}, TRUE, FALSE, TRUE)

SessionJobs ==
    {Accept, Input, Reply, Secure, Command, TimedOut, Transfer, Complete}

Timers  == {"timer1", "timer2"}     \* of the input job, and of its predecessor
Workers == {"accept", "command", "complete", "timedOut"}
SessionThreads == Workers \cup Timers \cup {"receive", "sent", "data", "killer"}

(* The job table is that of a control connection.                          *)
ASSUME SessionAssumption ==
    /\ Threads = SessionThreads
    /\ JobKinds = SessionJobs
    /\ FirstJob = Accept
    /\ MAX_COMMANDS \in Nat

VARIABLES
    pc,            \* where each thread is
    socket,        \* CommandChannel.Socket: "open" or "closed"
    receiving,     \* a ReceiveLine is out
    sending,       \* what TransmitPackages is sending, or "none"
    data,          \* the data channel, see below
    bActive,       \* DataChannel.bActive: a transfer is active
    logoff,        \* U_LOGOFF
    timers,        \* "free", armed for "idle" or "kill", "firing", "fired"
    inputTimer,    \* lpTimer of the input job, or "none"
    commands,      \* lines received so far
    dataLock,      \* lDataLock, held from LockClient to UnlockClient
    closed,        \* FTP_Close_Connection has freed the client
    stray          \* a timer's proc ran on a client that was over, see below

io       == <<socket, receiving, sending, data, bActive>>
clock    == <<timers, inputTimer>>
life     == <<logoff, commands, dataLock, closed>>
allvars  == <<cjvars, pc, io, clock, life, stray>>

(* data: "none"; "select" once the event of the data socket exists,        *)
(* "waiting" once FTP_Data_Begin_Transfer asked to continue with it,       *)
(* "sending" when FTP_Data_Start began to transmit, "cancelled" when       *)
(* FTP_CancelData took the event and left the end to FTP_CancelSocketJob,  *)
(* "ended" when a callback is about to end the transfer job.               *)

SessionInit ==
    /\ Init
    /\ pc = [t \in SessionThreads |-> "idle"]
    /\ socket = "open" /\ receiving = FALSE /\ sending = "none"
    /\ data = "none" /\ bActive = FALSE
    /\ timers = [i \in Timers |-> "free"] /\ inputTimer = "none"
    /\ logoff = FALSE /\ commands = 0 /\ dataLock = FALSE /\ closed = FALSE
    /\ stray = FALSE

At(t, label) == pc[t] = label /\ Free(t)
Goto(t, label) == pc' = [pc EXCEPT ![t] = label]

(* A worker takes the proc of an active job. *)
Take(t, k) ==
    /\ At(t, "idle")
    /\ k \in queued /\ queued' = queued \ {k}
    /\ Goto(t, "run")
    /\ UNCHANGED <<table, closes, todo, call, job, io, clock, life>>

(* AddClientJob or AddExclusiveClientJob (op), then on to `ok` or `fail`.  *)
(* Blocked by an extension, a thread goes on at `ok` when it is released.  *)
Adding(t, op, from, k, ok, fail) ==
    /\ pc[t] = from
    /\ \/ Free(t) /\ Refused(k) /\ Goto(t, fail) /\ UNCHANGED cjvars
       \/ TestFilter(t, k, op) /\ UNCHANGED pc
       \/ /\ Calls(t, op) /\ call[t].kind = k
          /\ IF op = "add" THEN AddClientJob(t, <<>>) ELSE AddExclusiveClientJob(t)
          /\ Goto(t, IF Refused(k) THEN fail ELSE ok)
    /\ UNCHANGED <<io, clock, life>>

(* EndClientJob of a job without a timer. *)
Ending(t, from, id, next) ==
    /\ At(t, from)
    /\ EndClientJob(t, id, <<>>)
    /\ Goto(t, next)
    /\ UNCHANGED <<job, io, clock, life>>

(* TransmitPackages on the control connection. *)
Sending(t, from, what, next) ==
    /\ At(t, from)
    /\ sending' = what
    /\ Goto(t, next)
    /\ UNCHANGED <<cjvars, socket, receiving, data, bActive, clock, life>>

\* Mutant: FTP_CancelSocketJob is not queued.
CancelLosesTransfer ==
    /\ socket' = IF Ids(active) \cap {"1", "2"} # {} THEN "closed" ELSE socket
    /\ data' = IF "201" \in Ids(active) /\ data \in {"select", "waiting"}
                 THEN "none" ELSE data

(* SetJobFilter: under the lock the active jobs are cancelled - FTP_Cancel *)
(* closes the control connection, FTP_CancelData the data socket.          *)
Cancel ==
    /\ socket' = IF Ids(active) \cap {"1", "2"} # {} THEN "closed" ELSE socket
    /\ data' = IF "201" \in Ids(active) /\ data \in {"select", "waiting"}
                 THEN "cancelled" ELSE data

Filtering(t, from, next) ==
    /\ At(t, from)
    /\ \/ filter = ALL /\ UNCHANGED <<table, io>>
       \/ SetJobFilter /\ Cancel /\ UNCHANGED <<receiving, sending, bActive>>
    /\ Goto(t, next)
    /\ UNCHANGED <<queued, closes, todo, call, job, clock, life>>

-----------------------------------------------------------------------------
(* The timer of the input job runs from before the job is listed; there is *)
(* none while a transfer is active.                                        *)
StartTimer ==
    \E i \in Timers :
        /\ timers[i] = "free"
        /\ timers' = [timers EXCEPT ![i] = "idle"]
        /\ inputTimer' = i

Stop(i) == IF i = "none" THEN <<>> ELSE <<[id |-> "stop", timer |-> i]>>

(* FTP_AcceptInput, and FTP_New_Client's copy of it. *)
AcceptInput(t, from, ok, fail) ==
    /\ pc[t] \in {from, "recv"} /\ todo[t] = <<>>
    /\ \/ /\ At(t, from)
          /\ logoff \/ Refused(Input)
          /\ Goto(t, fail)
          /\ UNCHANGED <<cjvars, receiving, clock>>
       \/ /\ At(t, from)
          /\ ~ logoff
          /\ TestFilter(t, Input, "add")
          /\ IF bActive THEN inputTimer' = "none" /\ UNCHANGED timers
                        ELSE StartTimer
          /\ UNCHANGED <<pc, receiving>>
       \/ /\ pc[t] = from
          /\ AddClientJob(t, Stop(inputTimer))
          /\ Goto(t, IF Refused(Input) THEN fail ELSE "recv")
          /\ UNCHANGED <<receiving, clock>>
       \/ /\ At(t, "recv")
          /\ receiving' = TRUE
          /\ Goto(t, ok)
          /\ UNCHANGED <<cjvars, clock>>
    /\ UNCHANGED <<socket, sending, data, bActive, life>>

(* What a thread does after lJobLock: StopIoTimer, which waits for a proc  *)
(* of the timer that is running, and the QueueJobs.                        *)
StopTimer(t) ==
    /\ todo[t] # <<>> /\ Head(todo[t]).id = "stop"
    /\ LET i == Head(todo[t]).timer IN
         /\ timers[i] # "firing"
         /\ timers' = [timers EXCEPT ![i] = "free"]
    /\ todo' = [todo EXCEPT ![t] = Tail(@)]
    /\ UNCHANGED <<table, queued, closes, call, job, pc, io, inputTimer, life>>

QueueNext(t) ==
    /\ todo[t] # <<>> /\ Head(todo[t]).id # "stop"
    /\ QueueProc(t)
    /\ UNCHANGED <<pc, io, clock, life>>

(* FTP_TimerProc: the login or idle time is over.  The timer stays armed,  *)
(* now with FTP_Kill, which closes the connection.                         *)
FTP_TimerProc(i) ==
    \/ /\ At(i, "idle") /\ timers[i] = "idle"
       /\ timers' = [timers EXCEPT ![i] = "firing"]
       /\ Goto(i, "run")
       /\ UNCHANGED <<cjvars, io, inputTimer, life>>
    \/ Adding(i, "add", "run", TimedOut, "return", "return")
    \/ /\ At(i, "return")
       /\ timers' = [timers EXCEPT ![i] = "kill"]
       /\ Goto(i, "idle")
       /\ UNCHANGED <<cjvars, io, inputTimer, life>>

FTP_Kill(i) ==
    /\ At(i, "idle") /\ timers[i] = "kill"
    /\ timers' = [timers EXCEPT ![i] = "fired"]
    /\ socket' = "closed"
    /\ UNCHANGED <<cjvars, pc, receiving, sending, data, bActive, inputTimer, life>>

-----------------------------------------------------------------------------
(* FTP_New_Client: plain, or on a service with implicit encryption.  Where *)
(* a job is refused the client is killed and the accept job stays.         *)
FTP_New_Client ==
    \/ Take("accept", Accept)
    \/ Adding("accept", "add", "run", Reply, "greet", "failed")
    \/ Sending("accept", "greet", "reply", "input")
    \/ AcceptInput("accept", "input", "end", "failed")
    \/ Adding("accept", "add", "run", Secure, "handshake", "failed")
    \/ Sending("accept", "handshake", "secure", "end")
    \/ Ending("accept", "end", "10005", "done")
    \/ Filtering("accept", "failed", "stuck")

(* FTP_ReceiveLine: the line the client sent, or none because the          *)
(* connection was lost.                                                    *)
LineArrives ==
    /\ At("receive", "idle") /\ receiving
    /\ receiving' = FALSE
    /\ \/ /\ socket = "open" /\ commands < MAX_COMMANDS
          /\ commands' = commands + 1
          /\ Goto("receive", "line")
       \/ Goto("receive", "lost") /\ UNCHANGED commands
    /\ UNCHANGED <<cjvars, socket, sending, data, bActive, clock, logoff,
                   dataLock, closed>>

EndInput ==
    /\ At("receive", "end")
    /\ EndClientJob("receive", "1", Stop(inputTimer))
    /\ inputTimer' = "none"
    /\ Goto("receive", "idle")
    /\ UNCHANGED <<job, io, timers, life>>

FTP_ReceiveLine ==
    \/ LineArrives
    \/ Adding("receive", "add", "line", Command, "end", "end")
    \/ Filtering("receive", "lost", "end")
    \/ EndInput

(* The callbacks of TransmitPackages: FTP_SendReply, FTP_SSLAccept and     *)
(* FTP_SendShutdown.                                                       *)
SendCompletes ==
    /\ At("sent", "idle") /\ sending # "none"
    /\ \/ /\ socket = "open"
          /\ Goto("sent", IF sending = "secure" THEN "secure" ELSE "end")
          /\ UNCHANGED socket
       \/ /\ Goto("sent", IF sending = "shutdown" THEN "end" ELSE "lost")
          /\ socket' = IF sending = "shutdown" THEN "closed" ELSE socket
    /\ sending' = "none"
    /\ UNCHANGED <<cjvars, receiving, data, bActive, clock, life>>

FTP_Sent ==
    \/ SendCompletes
    \/ AcceptInput("sent", "secure", "end", "end")
    \/ Filtering("sent", "lost", "end")
    \/ Ending("sent", "end", "2", "idle")

(* FTP_Command.  What the command does is one of: answer, log off (QUIT),  *)
(* AUTH TLS, start a transfer, abort one.  ABOR of an active transfer has  *)
(* no reply of its own: a transfer still waiting for its connection is     *)
(* ended here, any other by the socket that was closed.                    *)
RunCommand ==
    /\ At("command", "run")
    /\ \/ Goto("command", "reply") /\ UNCHANGED <<data, bActive, logoff>>
       \/ Goto("command", "reply") /\ logoff' = TRUE /\ UNCHANGED <<data, bActive>>
       \/ Goto("command", "secure") /\ UNCHANGED <<data, bActive, logoff>>
       \/ /\ ~ bActive
          /\ bActive' = TRUE /\ data' = "select"
          /\ Goto("command", "begin")
          /\ UNCHANGED logoff
       \/ /\ bActive
          /\ IF data \in {"select", "waiting"}
               THEN data' = "none" /\ Goto("command", "abort")
               ELSE UNCHANGED data /\ Goto("command", "input")
          /\ UNCHANGED <<bActive, logoff>>
    /\ UNCHANGED <<cjvars, socket, receiving, sending, clock, commands, dataLock, closed>>

(* WSAAsyncSelectContinue does nothing when the event was cancelled in     *)
(* between.                                                                *)
ContinueData ==
    /\ At("command", "continue")
    /\ data' = IF data = "select" THEN "waiting" ELSE data
    /\ Goto("command", "complete")
    /\ UNCHANGED <<cjvars, socket, receiving, sending, bActive, clock, life>>

CancelSelect ==
    /\ At("command", "refused")
    /\ data' = "none"
    /\ Goto("command", "complete")
    /\ UNCHANGED <<cjvars, socket, receiving, sending, bActive, clock, life>>

FTP_Data_Begin_Transfer ==
    \/ Adding("command", "add", "begin", Transfer, "continue", "refused")
    \/ ContinueData
    \/ CancelSelect
    \/ Adding("command", "add", "complete", Complete, "reply", "reply")

FTP_Command ==
    \/ Take("command", Command)
    \/ RunCommand
    \/ FTP_Data_Begin_Transfer
    \/ Ending("command", "abort", "201", "input")
    \/ Adding("command", "addExclusive", "reply", Reply, "send", "input")
    \/ Sending("command", "send", "reply", "input")
    \/ AcceptInput("command", "input", "end", "end")
    \/ Adding("command", "addExclusive", "secure", Secure, "handshake", "end")
    \/ Sending("command", "handshake", "secure", "end")
    \/ Ending("command", "end", "5", "idle")

(* FTP_TimedOut. *)
LogOff ==
    /\ At("timedOut", "run")
    /\ logoff' = TRUE
    /\ Goto("timedOut", "reply")
    /\ UNCHANGED <<cjvars, io, clock, commands, dataLock, closed>>

FTP_TimedOut ==
    \/ Take("timedOut", TimedOut)
    \/ LogOff
    \/ Adding("timedOut", "addExclusive", "reply", Reply, "send", "end")
    \/ Sending("timedOut", "send", "shutdown", "end")
    \/ Ending("timedOut", "end", "25", "idle")

(* The data channel: the event or its timeout starts FTP_Data_Start, which *)
(* transmits or gives up, and FTP_TransferComplete, FTP_Data_Start or      *)
(* FTP_CancelSocketJob ends the transfer job.                              *)
DataMoves ==
    /\ \/ data = "waiting" /\ data' \in {"sending", "ended"}
       \/ data \in {"sending", "cancelled"} /\ data' = "ended"
    /\ UNCHANGED <<cjvars, pc, socket, receiving, sending, bActive, clock, life>>

FTP_TransferComplete ==
    /\ At("data", "idle") /\ data = "ended"
    /\ EndClientJob("data", "201", <<>>)
    /\ data' = "none"
    /\ UNCHANGED <<job, pc, socket, receiving, sending, bActive, clock, life>>

(* FTPData_TransferComplete, with AddClientJobTimer. *)
CloseTransfer ==
    /\ At("complete", "run")
    /\ bActive' = FALSE
    /\ Goto("complete", "timer")
    /\ UNCHANGED <<cjvars, socket, receiving, sending, data, clock, life>>

\* Mutant: the input job stays without a timer after a transfer.
AddClientJobTimerForgotten ==
    /\ At("complete", "timer")
    /\ Goto("complete", "reply")
    /\ UNCHANGED <<cjvars, io, clock, life>>

AddClientJobTimer ==
    /\ At("complete", "timer")
    /\ IF "1" \in Ids(active) /\ inputTimer = "none"
         THEN StartTimer
         ELSE UNCHANGED clock
    /\ Goto("complete", "reply")
    /\ UNCHANGED <<cjvars, io, life>>

FTPData_TransferComplete ==
    \/ Take("complete", Complete)
    \/ CloseTransfer
    \/ AddClientJobTimer
    \/ Adding("complete", "addExclusive", "reply", Reply, "send", "end")
    \/ Sending("complete", "send", "reply", "end")
    \/ Ending("complete", "end", "203", "idle")

(* KillUser, from another client's command or from a service that stops:   *)
(* only a client that is still there can be locked.                        *)
LockClient ==
    /\ At("killer", "idle") /\ ~ closed /\ ~ dataLock
    /\ dataLock' = TRUE
    /\ Goto("killer", "locked")
    /\ UNCHANGED <<cjvars, io, clock, logoff, commands, closed>>

UnlockClient ==
    /\ At("killer", "unlock")
    /\ dataLock' = FALSE
    /\ Goto("killer", "done")
    /\ UNCHANGED <<cjvars, io, clock, logoff, commands, closed>>

KillUser == LockClient \/ Filtering("killer", "locked", "unlock") \/ UnlockClient

\* Mutant: UnregisterClient does not wait for lDataLock.
CloseWithoutLock ==
    /\ closes > 0 /\ ~ closed
    /\ closed' = TRUE
    /\ socket' = "closed"
    /\ UNCHANGED <<cjvars, pc, receiving, sending, data, bActive, clock, logoff,
                   commands, dataLock>>

(* FTP_Close_Connection, the lpCloseProc: UnregisterClient waits for a     *)
(* thread that has locked the client, then everything is freed.            *)
FTP_Close_Connection ==
    /\ closes > 0 /\ ~ closed /\ ~ dataLock
    /\ closed' = TRUE
    /\ socket' = "closed"
    /\ UNCHANGED <<cjvars, pc, receiving, sending, data, bActive, clock, logoff,
                   commands, dataLock>>

-----------------------------------------------------------------------------
(* EndClientJob takes the input job off the table and stops its timer only *)
(* after it has left the lock (MessageHandler.c 1723-1728), so the proc of *)
(* that timer may run when the last job of the client has ended too.  It   *)
(* is a stray then, if no filter keeps its job out of the emptied table or *)
(* the client is freed already: the code goes on with memory that is gone  *)
(* or about to go, and what it does from there is not followed.            *)
Closing == closes > 0 \/ \E t \in SessionThreads : Close \in ToSet(todo[t])
Over    == closed \/ (Closing /\ filter # ALL)

TimerRuns(i) ==
    /\ timers[i] # "free"
    /\ FTP_TimerProc(i) \/ FTP_Kill(i)
    /\ stray' = (stray \/ Over)

AfterLock(t) == todo[t] # <<>> /\ (StopTimer(t) \/ QueueNext(t))

SessionNext ==
    \/ /\ \/ FTP_New_Client \/ FTP_ReceiveLine \/ FTP_Sent \/ FTP_Command \/ FTP_TimedOut
          \/ DataMoves \/ FTP_TransferComplete \/ FTPData_TransferComplete
          \/ KillUser \/ FTP_Close_Connection
          \/ \E t \in SessionThreads : AfterLock(t)
       /\ UNCHANGED stray
    \/ \E i \in Timers : TimerRuns(i)

(* Threads run, armed timers fire (IoTimer), sends and transfers end       *)
(* because they are timed, and a closed socket ends what was asked of it.  *)
(* Nothing makes the client send a line or the killer come.  No sequence   *)
(* of these steps goes on for ever, so one fairness condition for all of   *)
(* them is as much as one for each.                                        *)
OnItsOwn ==
    \/ /\ \/ FTP_New_Client \/ FTP_Sent \/ FTP_Command \/ FTP_TimedOut
          \/ DataMoves \/ FTP_TransferComplete \/ FTPData_TransferComplete
          \/ (receiving => socket = "closed") /\ FTP_ReceiveLine
          \/ dataLock /\ KillUser
          \/ FTP_Close_Connection
          \/ \E t \in SessionThreads : AfterLock(t)
       /\ UNCHANGED stray
    \/ \E i \in Timers : TimerRuns(i)

SessionSpec == SessionInit /\ [][SessionNext]_allvars /\ WF_allvars(OnItsOwn)

-----------------------------------------------------------------------------
(* Types, and where every timer is: it belongs to the input job, or some   *)
(* thread is about to stop it (EndClientJob unlists the job first,         *)
(* MessageHandler.c 1723-1728).                                            *)
SessionInv ==
    /\ socket \in {"open", "closed"} /\ sending \in {"none", "reply", "secure", "shutdown"}
    /\ data \in {"none", "select", "waiting", "sending", "cancelled", "ended"}
    /\ timers \in [Timers -> {"free", "idle", "firing", "kill", "fired"}]
    /\ inputTimer \in Timers \cup {"none"}
    /\ \A i \in Timers : timers[i] # "free" =>
          \/ inputTimer = i
          \/ \E t \in SessionThreads : Stop(i)[1] \in ToSet(todo[t])

(* Who is writing into CommandChannel.Out, between taking the proc and     *)
(* handing the buffer to TransmitPackages.                                 *)
Formatting(t) ==
    \/ t = "accept" /\ pc[t] \in {"run", "greet", "handshake"}
    \/ t = "command" /\ pc[t] \in {"run", "begin", "continue", "refused", "complete",
                                   "abort", "reply", "send", "secure", "handshake"}
    \/ t = "timedOut" /\ pc[t] \in {"run", "reply", "send"}
    \/ t = "complete" /\ pc[t] \in {"run", "timer", "reply", "send"}

(* A reply never finds another reply in the table, so no worker blocks in  *)
(* AddExclusiveClientJob and no job without a proc is queued: "otherwise   *)
(* we can end up blocking lots of threads" (FtpBaseCommands.c 2708).       *)
ReplyNeverWaits ==
    /\ \A t \in SessionThreads : call[t].id # "blocked"
    /\ \A k \in queued : k.proc

(* One buffer holds the output of the connection and no lock guards it:    *)
(* whoever formats into it is alone, and no send is still reading it.      *)
OutBufferOwned ==
    /\ ReplyNeverWaits
    /\ \A t \in Workers : Formatting(t) =>
         /\ sending = "none" /\ pc["sent"] \notin {"lost", "end", "secure", "recv"}
         /\ \A u \in Workers \ {t} : ~ Formatting(u)

(* At most one line is asked for at a time, and nobody is silent for ever: *)
(* with no transfer active the input job has a timer, armed from           *)
(* AcceptInput or, after a transfer, from AddClientJobTimer.               *)
InputTimed ==
    /\ SessionInv
    /\ Cardinality({i \in DOMAIN active : active[i].kind.id = "1"}) <= 1
    /\ ("1" \in Ids(active) /\ ~ bActive /\ pc["complete"] # "timer")
         => inputTimer # "none"

(* FTP_Close_Connection frees the client when no proc, callback, send,     *)
(* receive or transfer of it is left.  A timer may be left armed, but only *)
(* one that a thread which ended the input job is just about to stop.      *)
ClosedIsQuiet ==
    closed =>
        /\ ~ receiving /\ sending = "none" /\ data = "none"
        /\ \A t \in Workers \cup {"receive", "sent", "data"} : pc[t] \in {"idle", "done"}
        /\ \A t \in Workers \cup {"receive", "sent", "data"} : call[t] = None
        /\ queued = {} /\ ~ dataLock
        /\ \A i \in Timers : timers[i] # "free" =>
             \E t \in SessionThreads : Stop(i)[1] \in ToSet(todo[t])

(* A session whose accept proc is over and that is killed (KillUser,       *)
(* MessageHandler.c 302) or logged off, by QUIT or by its timeout, is      *)
(* closed and freed: nothing more is read, and FTP_Kill takes what the     *)
(* client leaves open.                                                     *)
EndedSessionCloses ==
    ((filter = ALL \/ logoff) /\ "10005" \notin Ids(active)) ~> closed

(* What a connection may count on while its procs, callbacks and timers    *)
(* interleave, and what is left of them when it is freed - as long as no   *)
(* timer fires in the window after the client's last job has ended in      *)
(* which a thread has yet to stop it (stray: it would add a job to the     *)
(* table of a client whose close proc is queued, or work on a freed one).  *)
ConnectionInv == stray \/ (OutBufferOwned /\ InputTimed /\ ClosedIsQuiet)
=============================================================================
