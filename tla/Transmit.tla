------------------------------ MODULE Transmit ------------------------------
(***************************************************************************)
(* A transfer (SocketAPI.c): a list of packages, worked off one after the  *)
(* other on one socket by the threads of the completion port (IoThreadEx   *)
(* of Threads.c).  A package is a buffer or a listing to send, a file to   *)
(* send or to receive, a TLS handshake or a shutdown.  At most one         *)
(* operation of a transfer is under way, on the socket or on the file; its *)
(* completion calls the procedure of that socket direction or file, which  *)
(* begins the next operation, goes on to the next package or completes the *)
(* transfer.  A timer closes the socket when a package takes too long, and *)
(* ABOR, KICK and the like close it at any time.                           *)
(*                                                                         *)
(* An action is one function of the code, up to the operation or function  *)
(* it ends with.  What matters of data is how many units of it are where;  *)
(* OpenSSL, Winsock and the file system answer what they may answer.       *)
(***************************************************************************)
EXTENDS Integers, Sequences

CONSTANTS Transfers,   \* the lists of packages
          SIZE,        \* units in a transfer buffer
          UNITS,       \* bound on the units of a file, a listing or an upload
          MAX_ROUNDS   \* bound on the rounds of a handshake

Sends    == {"BUFFER_SEND", "LIST_BUFFER_SEND", "FILE_SEND"}
Packages == Sends \cup {"FILE_RECEIVE", "SSL_ACCEPT", "SHUTDOWN"}

ASSUME TransmitAssumption ==
    /\ Transfers \subseteq Seq(Packages) \ {<<>>}
    /\ SIZE \in Nat \ {0} /\ UNITS \in Nat /\ MAX_ROUNDS \in Nat

VARIABLES
    left,       \* the packages not done, the current one first
    transfer,   \* lpTransfer and its current buffer
    socket,     \* lpSocket, its security and its two procedures
    io,         \* the operation under way
    run,        \* the call the thread that completed it is about to make
    timer,      \* "none", "armed", "closing" (runs, about to close), "over"
    source,     \* units still to come: from the file, the listing or the client
    moved,      \* units received, written to the file, sent, given to send
    rounds,
    callbacks   \* calls of lpCallBack that were queued

transmitvars == <<left, transfer, socket, io, run, timer, source, moved, rounds, callbacks>>

NoError == "none"
START   == -1     \* the number of bytes that says "begin"

Nothing      == [op |-> "none", n |-> 0]
Op(op, n)    == [op |-> op, n |-> n]
Idle         == [f |-> "none", n |-> 0, err |-> NoError]
Call(f, n)   == run' = [f |-> f, n |-> n, err |-> NoError]
Fails(e)     == run' = [f |-> "TransmitPackages_Error", n |-> 0, err |-> e]
Package      == Head(left)
IsHandshake  == Package = "SSL_ACCEPT"
ToFill       == SIZE - transfer.offset
ToSend       == transfer.len - transfer.offset

(* TransmitPackages: the control connection sends a buffer, the data       *)
(* connection has what FTP_Data_Start puts together.  TransmitPackages     *)
(* itself ends in TransmitPackages_Update, called by a worker: the first   *)
(* operation is posted to the threads of the completion port.              *)
TransmitInit ==
    /\ left \in Transfers
    /\ transfer = [bProcessed |-> FALSE, lpContinueProc |-> "none", bClosed |-> FALSE,
                   dwLastError |-> NoError, offset |-> 0, len |-> 0]
    /\ socket = [open |-> TRUE, receive |-> "ReadSocket", send |-> "WriteSocket",
                 lpSecure |-> "SSL_ACCEPT" \in {left[i] : i \in DOMAIN left},
                 bCommunicating |-> FALSE, bSending |-> FALSE, bReceiving |-> FALSE,
                 bio |-> 0]
    /\ io = Nothing /\ run = [Idle EXCEPT !.f = "TransmitPackages_Begin"]
    /\ timer = "none" /\ rounds = 0 /\ callbacks = 0
    /\ source \in 0..UNITS
    /\ moved = [received |-> 0, written |-> 0, sent |-> 0, given |-> 0]

Begins(f) == run.f = f
Quiet     == UNCHANGED <<left, io, timer, source, rounds, callbacks>>

-----------------------------------------------------------------------------
\* TransmitPackages_Continue and, with bClosed set, TransmitPackages_Closed.
Continue == Call(IF transfer.lpContinueProc # "none" THEN transfer.lpContinueProc
                                                     ELSE "TransmitPackages_Update", START)

TransmitPackages_Closed ==
    /\ Begins("TransmitPackages_Closed")
    /\ transfer' = [transfer EXCEPT !.bClosed = TRUE]
    /\ Continue /\ Quiet /\ UNCHANGED <<socket, moved>>

TransmitPackages_Error ==
    /\ Begins("TransmitPackages_Error")
    /\ transfer' = [transfer EXCEPT !.dwLastError = run.err]
    /\ Call("TransmitPackages_Complete", 0) /\ Quiet /\ UNCHANGED <<socket, moved>>

\* Mutant: the timer is left running.
CompleteKeepsTimer == timer' = timer
\* StopIoTimer waits for a procedure that runs.
StopTimer == timer # "closing" /\ timer' = "none"

TransmitPackages_Complete ==
    /\ Begins("TransmitPackages_Complete")
    /\ StopTimer
    /\ callbacks' = callbacks + 1 /\ run' = Idle
    /\ UNCHANGED <<left, transfer, socket, io, source, moved, rounds>>

(* The next package: its procedures, its buffer, the timer if there is     *)
(* none yet.  A package with a timer keeps the one that runs.              *)
ContinueProc(p) == CASE p = "LIST_BUFFER_SEND" -> "SendListBuffer"
                     [] p = "FILE_SEND"        -> "ReadFile"
                     [] p = "FILE_RECEIVE"     -> "WriteFile"
                     [] OTHER                  -> "none"
Procs(p) == CASE p = "SSL_ACCEPT" ->
                   [socket EXCEPT !.receive = "SecureHandshake", !.send = "SecureHandshake"]
              [] p = "SHUTDOWN" ->
                   [socket EXCEPT !.receive = "Shutdown", !.send = "Shutdown"]
              [] OTHER -> socket
FirstCall(p) == CASE p = "FILE_SEND" -> "ReadFile"
              [] p \in {"BUFFER_SEND", "LIST_BUFFER_SEND"} -> socket.send
              [] p = "FILE_RECEIVE" -> socket.receive
              [] p = "SSL_ACCEPT" -> "SecureHandshake"
              [] p = "SHUTDOWN" -> "Shutdown"
(* The buffer the caller filled: a reply or the first part of a listing.   *)
Filled(p) == CASE p = "BUFFER_SEND"      -> 0..SIZE
               [] p = "LIST_BUFFER_SEND" -> 1..SIZE
               [] OTHER                  -> {SIZE}
\* Mutant: the shutdown has no timer.
TimerForTransmit(p) == IF p = "SHUTDOWN" THEN "none" ELSE "armed"
TimerFor(p) == IF timer = "none" THEN "armed" ELSE timer

Prepare(packages, begin) ==
    LET p == Head(packages)
    IN \E n \in Filled(p) :
        /\ left' = packages
        /\ transfer' = [transfer EXCEPT !.bProcessed = TRUE, !.offset = 0, !.len = n,
                                        !.lpContinueProc = ContinueProc(p)]
        /\ socket' = Procs(p)
        /\ timer' = TimerFor(p)
        /\ moved' = IF p \in {"BUFFER_SEND", "LIST_BUFFER_SEND"}
                    THEN [moved EXCEPT !.given = @ + n] ELSE moved
        /\ begin
        /\ UNCHANGED <<source, rounds, callbacks>>

NoneLeft == Len(left) = 1     \* ! --dwBuffer

TransmitPackages_Update ==
    /\ Begins("TransmitPackages_Update") /\ transfer.bProcessed
    /\ IF NoneLeft
       THEN /\ Call("TransmitPackages_Complete", 0)
            /\ UNCHANGED <<left, transfer, socket, io, timer, source, moved, rounds, callbacks>>
       ELSE Prepare(Tail(left), Call(FirstCall(left[2]), START) /\ io' = io)

\* The call of the worker that starts the transfer.
TransmitPackages_Begin ==
    /\ Begins("TransmitPackages_Begin")
    /\ Prepare(left, run' = Idle /\ io' = Op("post", START))

-----------------------------------------------------------------------------
(* ReceiveOverlapped and SendOverlapped: the socket is looked at under its *)
(* lock, and the operation is begun there.                                 *)
Receive(n) == run' = [f |-> "ReceiveOverlapped", n |-> n, err |-> NoError]
Send(n)    == run' = [f |-> "SendOverlapped", n |-> n, err |-> NoError]

Starts(op, e) ==
    /\ run' = IF e = NoError THEN Idle ELSE [f |-> "TransmitPackages_Error", n |-> 0, err |-> e]
    /\ io' = IF e = NoError THEN op ELSE io
    /\ UNCHANGED <<left, transfer, socket, timer, source, moved, rounds, callbacks>>

SendOverlapped ==
    /\ Begins("SendOverlapped")
    /\ IF socket.open THEN \E e \in {NoError, "failed"} : Starts(Op("send", run.n), e)
                      ELSE Starts(Nothing, "ERROR_CLOSED_SOCKET")

(* A connection that the client has reset ends like one he has closed,     *)
(* except in a handshake and in a TLS shutdown.                            *)
Reset == CASE socket.receive \in {"ReadSocket", "ReadSecure"} -> "TransmitPackages_Closed"
           [] socket.receive = "Shutdown" /\ ~socket.lpSecure -> "TransmitPackages_Complete"
           [] OTHER -> "none"

ReceiveOverlapped ==
    /\ Begins("ReceiveOverlapped")
    /\ \/ /\ socket.open
          /\ \E e \in {NoError, "failed", "WSAECONNRESET"} :
                IF e = "WSAECONNRESET" /\ Reset # "none"
                THEN /\ Call(Reset, 0)
                     /\ UNCHANGED <<left, transfer, socket, io, timer, source, moved, rounds, callbacks>>
                ELSE Starts(Op("receive", run.n), e)
       \/ ~socket.open /\ Starts(Nothing, "ERROR_CLOSED_SOCKET")

-----------------------------------------------------------------------------
\* Bytes that were received or sent without TLS count for the buffer.
TransmitPackage_ReadSocket ==
    /\ Begins("ReadSocket")
    /\ Quiet /\ UNCHANGED socket
    /\ CASE run.err # NoError -> Fails(run.err) /\ UNCHANGED <<transfer, moved>>
         [] run.err = NoError /\ run.n = 0 ->
              Call("TransmitPackages_Closed", 0) /\ UNCHANGED <<transfer, moved>>
         [] run.err = NoError /\ run.n = START -> Receive(ToFill) /\ UNCHANGED <<transfer, moved>>
         [] OTHER -> /\ transfer' = [transfer EXCEPT !.offset = @ + run.n]
                     /\ moved' = [moved EXCEPT !.received = @ + run.n]
                     /\ Continue

TransmitPackage_WriteSocket ==
    /\ Begins("WriteSocket")
    /\ Quiet /\ UNCHANGED <<socket, moved>>
    /\ LET offset == transfer.offset + run.n
       IN CASE run.err # NoError -> Fails(run.err) /\ UNCHANGED transfer
            [] run.err = NoError /\ run.n = 0 ->
                 Call("TransmitPackages_Closed", 0) /\ UNCHANGED transfer
            [] run.err = NoError /\ run.n = START -> Send(ToSend) /\ UNCHANGED transfer
            [] OTHER -> /\ transfer' = [transfer EXCEPT !.offset = offset]
                        /\ IF offset = transfer.len THEN Continue
                                                    ELSE Send(transfer.len - offset)

(* What was received goes through OpenSSL, which may keep part of it until *)
(* a record is complete: got units come out of it into the buffer.         *)
TransmitPackage_ReadSecure ==
    /\ Begins("ReadSecure")
    /\ Quiet
    /\ LET bio == socket.bio + (IF run.n = START THEN 0 ELSE run.n)
       IN IF run.err # NoError
          THEN Fails(run.err) /\ UNCHANGED <<transfer, socket, moved>>
          ELSE \E got \in 0..IF bio < ToFill THEN bio ELSE ToFill, e \in {"want", "notify", "error"} :
                 LET full == got = ToFill
                     closed == transfer.bClosed \/ run.n = 0
                               \/ (~full /\ e = "notify")
                 IN /\ full => e = "want"
                    \* a close notification comes behind all data
                    /\ e = "notify" => got = bio /\ source = 0
                    /\ socket' = [socket EXCEPT !.bio = bio - got]
                    /\ transfer' = [transfer EXCEPT !.offset = @ + got, !.bClosed = closed]
                    /\ moved' = [moved EXCEPT !.received = @ + got]
                    /\ CASE full \/ (closed /\ e # "error") -> Continue
                         [] e = "error" -> Fails("IO_SSL_FAIL")
                         [] OTHER       -> Receive(SIZE)

(* SSL_write takes the whole buffer; the network BIO then says what is to  *)
(* be sent, until nothing is.                                              *)
TransmitPackage_WriteSecure ==
    /\ Begins("WriteSecure")
    /\ Quiet /\ UNCHANGED moved
    /\ LET bio == socket.bio - (IF run.n = START THEN 0 ELSE run.n)
       IN CASE run.err # NoError -> Fails(run.err) /\ UNCHANGED <<transfer, socket>>
            [] run.err = NoError /\ run.n = 0 ->
                 Call("TransmitPackages_Closed", 0) /\ UNCHANGED <<transfer, socket>>
            [] run.err = NoError /\ run.n # 0 /\ ToSend > 0 ->
                 \/ Fails("IO_SSL_FAIL") /\ UNCHANGED <<transfer, socket>>
                 \/ /\ transfer' = [transfer EXCEPT !.offset = transfer.len]
                    /\ socket' = [socket EXCEPT !.bio = bio + ToSend]
                    /\ Send(bio + ToSend)
            [] OTHER ->
                 /\ socket' = [socket EXCEPT !.bio = bio] /\ UNCHANGED transfer
                 /\ IF bio = 0 THEN Continue ELSE Send(bio)

-----------------------------------------------------------------------------
(* The next part of a listing; when the listing has ended, nothing calls   *)
(* SendListBuffer again.  With bClosed set the code would call             *)
(* TransmitPackages_Update and then, for want of a return, this as well;   *)
(* ListsAreOpen says that it never is.                                     *)
TransmitPackage_SendListBuffer ==
    /\ Begins("SendListBuffer")
    /\ \E n \in 0..IF source < SIZE THEN source ELSE SIZE, last \in BOOLEAN :
        /\ last => source = n
        /\ source' = source - n
        /\ moved' = [moved EXCEPT !.given = @ + n]
        /\ transfer' = [transfer EXCEPT !.offset = 0, !.len = n,
                           !.lpContinueProc = IF last /\ n > 0 THEN "none" ELSE @]
        /\ n > 0 \/ source = 0
        /\ IF n = 0 THEN Call("TransmitPackages_Update", START) ELSE Call(socket.send, START)
    /\ UNCHANGED <<left, socket, io, timer, rounds, callbacks>>

TransmitPackage_ReadFile ==
    /\ Begins("ReadFile")
    /\ UNCHANGED <<left, socket, timer, source, rounds, callbacks>>
    /\ CASE run.err = "ERROR_HANDLE_EOF" ->
              Call("TransmitPackages_Update", START) /\ UNCHANGED <<transfer, io, moved>>
         [] run.err \notin {NoError, "ERROR_HANDLE_EOF"} ->
              Fails(run.err) /\ UNCHANGED <<transfer, io, moved>>
         [] run.err = NoError /\ transfer.bClosed ->
              Call("TransmitPackages_Update", START) /\ UNCHANGED <<transfer, io, moved>>
         [] run.err = NoError /\ ~transfer.bClosed /\ run.n # START ->
              /\ transfer' = [transfer EXCEPT !.len = run.n, !.offset = 0]
              /\ moved' = [moved EXCEPT !.given = @ + run.n]
              /\ Call(socket.send, START) /\ UNCHANGED io
         [] OTHER -> io' = Op("read", SIZE) /\ run' = Idle /\ UNCHANGED <<transfer, moved>>

\* Mutant: a partial write counts as a whole one.
WroteAny(n) == n > 0
WroteAll(n) == n = ToSend

(* What was received is written, all of it, before more is received; when  *)
(* the connection has been closed the rest of the buffer is.               *)
TransmitPackage_WriteFile ==
    /\ Begins("WriteFile")
    /\ UNCHANGED <<left, socket, timer, source, moved, rounds, callbacks>>
    /\ CASE run.err # NoError -> Fails(run.err) /\ UNCHANGED <<transfer, io>>
         [] run.err = NoError /\ run.n = START ->
              IF transfer.offset > 0
              THEN /\ transfer' = [transfer EXCEPT !.len = transfer.offset, !.offset = 0]
                   /\ io' = Op("write", transfer.offset) /\ run' = Idle
              ELSE Call("TransmitPackages_Update", START) /\ UNCHANGED <<transfer, io>>
         [] run.err = NoError /\ run.n # START /\ WroteAll(run.n) ->
              /\ io' = io
              /\ IF transfer.bClosed
                 THEN Call("TransmitPackages_Update", START) /\ UNCHANGED transfer
                 ELSE /\ transfer' = [transfer EXCEPT !.len = SIZE, !.offset = 0]
                      /\ Call(socket.receive, START)
         [] OTHER -> /\ transfer' = [transfer EXCEPT !.offset = @ + run.n]
                     /\ io' = Op("write", ToSend - run.n) /\ run' = Idle

-----------------------------------------------------------------------------
(* SSL_do_handshake has ended, or wants to read; either way it may have    *)
(* left something to send, which goes first.                               *)
Handshake(s) ==
    \E answer \in {"done", "read", "fail"}, pending \in BOOLEAN :
        LET sending == s.bSending \/ pending
        IN /\ (answer = "read" \/ pending) => rounds < MAX_ROUNDS
           /\ rounds' = IF answer = "read" \/ pending THEN rounds + 1 ELSE rounds
           /\ CASE answer = "done" /\ ~sending ->
                     /\ socket' = [s EXCEPT !.bReceiving = FALSE,
                                     !.receive = "ReadSecure", !.send = "WriteSecure"]
                     /\ Call("TransmitPackages_Update", START)
                [] answer = "fail" -> Fails("IO_SSL_FAIL") /\ socket' = s
                [] OTHER ->
                     /\ socket' = [s EXCEPT !.bCommunicating = TRUE, !.bSending = sending,
                                            !.bReceiving = @ \/ answer = "read"]
                     /\ IF sending THEN Send(1) ELSE Receive(1)

TransmitPackage_SecureHandshake ==
    /\ Begins("SecureHandshake")
    /\ UNCHANGED <<left, io, timer, source, moved, callbacks>>
    /\ IF run.err # NoError
       THEN Fails(run.err) /\ UNCHANGED <<transfer, socket, rounds>>
       ELSE IF run.n = 0
       THEN /\ transfer' = [transfer EXCEPT !.bClosed = TRUE]
            /\ Call("TransmitPackages_Update", START) /\ UNCHANGED <<socket, rounds>>
       ELSE /\ UNCHANGED transfer
            /\ IF socket.bCommunicating
               THEN IF socket.bSending /\ socket.bReceiving
                    THEN /\ socket' = [socket EXCEPT !.bSending = FALSE]
                         /\ Receive(1) /\ UNCHANGED rounds
                    ELSE Handshake([socket EXCEPT !.bSending = FALSE, !.bReceiving = FALSE,
                                                  !.bCommunicating = FALSE])
               ELSE Handshake(socket)

(* Without TLS: no more is sent, and the client's end is waited for.  With *)
(* TLS: the close notification is sent, and the client's waited for only   *)
(* if there is none to send.                                               *)
TransmitPackage_Shutdown ==
    /\ Begins("Shutdown")
    /\ Quiet /\ UNCHANGED moved
    /\ CASE run.err = "ERROR_NETNAME_DELETED" \/ (run.err = NoError /\ run.n = 0) ->
              /\ transfer' = [transfer EXCEPT !.bClosed = TRUE]
              /\ Call("TransmitPackages_Complete", 0) /\ UNCHANGED socket
         [] run.err \notin {NoError, "ERROR_NETNAME_DELETED"} ->
              Fails(run.err) /\ UNCHANGED <<transfer, socket>>
         [] run.err = NoError /\ run.n # 0 /\ run.n # START ->
              Call("TransmitPackages_Complete", 0) /\ UNCHANGED <<transfer, socket>>
         [] OTHER ->
              /\ UNCHANGED transfer
              /\ IF ~socket.lpSecure
                 THEN Receive(1) /\ UNCHANGED socket
                 ELSE IF socket.bCommunicating
                 THEN Fails("IO_SSL_FAIL2") /\ UNCHANGED socket
                 ELSE \E notify \in BOOLEAN, e \in {NoError, "IO_SSL_FAIL"} :
                        /\ socket' = [socket EXCEPT !.bCommunicating = TRUE, !.bSending = notify]
                        /\ CASE e # NoError -> Fails(e)
                             [] e = NoError /\ notify -> Send(1)
                             [] OTHER -> IF transfer.bClosed
                                         THEN Call("TransmitPackages_Complete", 0)
                                         ELSE Receive(1)

-----------------------------------------------------------------------------
(* IoThreadEx takes the completion of the operation and calls the          *)
(* procedure of its direction.                                             *)
Completes(proc, n, e) ==
    /\ run' = [f |-> proc, n |-> n, err |-> e] /\ io' = Nothing
    /\ UNCHANGED <<left, transfer, socket, timer, rounds, callbacks>>

PostCompletes ==
    /\ io.op = "post" /\ Completes(FirstCall(Package), START, NoError)
    /\ UNCHANGED <<source, moved>>

\* A closed socket gives back what was pending.
Aborted == {"aborted", "ERROR_NETNAME_DELETED"}

SendCompletes ==
    /\ io.op = "send" /\ UNCHANGED source
    /\ \/ /\ socket.open
          /\ \E n \in 0..io.n : /\ (n = 0) = (io.n = 0)
                                /\ Completes(socket.send, n, NoError)
                                /\ moved' = IF Package \in Sends THEN [moved EXCEPT !.sent = @ + n]
                                                                 ELSE moved
       \/ \E e \in Aborted : Completes(socket.send, 0, e) /\ UNCHANGED moved

FromClient == IF Package = "FILE_RECEIVE" THEN source ELSE 1
ReceiveCompletes ==
    /\ io.op = "receive" /\ UNCHANGED moved
    /\ \/ /\ socket.open
          /\ \E n \in 0..io.n : /\ n <= FromClient
                                /\ Completes(socket.receive, n, NoError)
                                /\ source' = IF Package = "FILE_RECEIVE" THEN source - n ELSE source
       \/ \E e \in Aborted : Completes(socket.receive, 0, e) /\ UNCHANGED source

FileCompletes ==
    \/ /\ io.op = "read" /\ UNCHANGED moved
       /\ \/ \E n \in 1..io.n : n <= source /\ source' = source - n /\ Completes("ReadFile", n, NoError)
          \/ source = 0 /\ UNCHANGED source /\ Completes("ReadFile", 0, "ERROR_HANDLE_EOF")
          \/ UNCHANGED source /\ Completes("ReadFile", 0, "failed")
    \/ /\ io.op = "write" /\ UNCHANGED source
       /\ \/ \E n \in 1..io.n : /\ Completes("WriteFile", n, NoError)
                                /\ moved' = [moved EXCEPT !.written = @ + n]
          \/ Completes("WriteFile", 0, "failed") /\ UNCHANGED moved

(* The timer finds that the package has taken too long, and closes the     *)
(* socket; it ends when it has done so.                                    *)
TransmitPackage_Timer ==
    /\ timer = "armed" /\ timer' = "closing"
    /\ transfer' = IF Package = "SHUTDOWN" THEN transfer
                   ELSE [transfer EXCEPT !.dwLastError = "WSAETIMEDOUT"]
    /\ UNCHANGED <<left, socket, io, run, source, moved, rounds, callbacks>>
TimerCloses ==
    /\ timer = "closing" /\ timer' = "over"
    /\ socket' = [socket EXCEPT !.open = FALSE]
    /\ UNCHANGED <<left, transfer, io, run, source, moved, rounds, callbacks>>

\* FTP_CancelData or FTP_TransferAbort.
CloseSocket ==
    /\ socket.open /\ callbacks = 0 /\ run.f # "TransmitPackages_Begin"
    /\ socket' = [socket EXCEPT !.open = FALSE]
    /\ UNCHANGED <<left, transfer, io, run, timer, source, moved, rounds, callbacks>>

Procedure ==
    \/ TransmitPackages_Begin \/ TransmitPackages_Update \/ TransmitPackages_Closed
    \/ TransmitPackages_Error \/ TransmitPackages_Complete
    \/ SendOverlapped \/ ReceiveOverlapped
    \/ TransmitPackage_ReadSocket \/ TransmitPackage_WriteSocket
    \/ TransmitPackage_ReadSecure \/ TransmitPackage_WriteSecure
    \/ TransmitPackage_SendListBuffer \/ TransmitPackage_ReadFile \/ TransmitPackage_WriteFile
    \/ TransmitPackage_SecureHandshake \/ TransmitPackage_Shutdown
Completion == PostCompletes \/ SendCompletes \/ ReceiveCompletes \/ FileCompletes
TransmitNext == Procedure \/ Completion \/ TransmitPackage_Timer \/ TimerCloses \/ CloseSocket

(* The threads of the completion port run, timers run out, and a file or a *)
(* closed socket answers.  That a client sends or takes anything is not    *)
(* assumed.                                                                *)
Fairness ==
    /\ WF_transmitvars(Procedure) /\ WF_transmitvars(PostCompletes \/ FileCompletes)
    /\ WF_transmitvars(TransmitPackage_Timer) /\ WF_transmitvars(TimerCloses)
    /\ WF_transmitvars(~socket.open /\ Completion)
TransmitSpec == TransmitInit /\ [][TransmitNext]_transmitvars /\ Fairness

-----------------------------------------------------------------------------
(* The callback is made once, and when it is nothing of the transfer is    *)
(* left: no operation under way, no call to come, no timer (the callback   *)
(* frees the transfer).                                                    *)
CalledOnce ==
    /\ callbacks <= 1
    /\ callbacks = 1 => io = Nothing /\ run = Idle /\ timer = "none"

(* One operation at a time: a completion finds no procedure running.       *)
OneOperation == io = Nothing \/ run = Idle

(* Nothing is written that was not received or sent that was not to be;    *)
(* and a transfer that reports no error has written all it received, and   *)
(* has sent all it was given unless the client closed the connection.      *)
Ended == callbacks = 1 /\ transfer.dwLastError = NoError
NothingLost ==
    /\ moved.written <= moved.received /\ moved.sent <= moved.given
    /\ Ended => /\ moved.written = moved.received
                /\ ~transfer.bClosed => moved.sent = moved.given

(* No listing is continued on a connection found closed: two operations    *)
(* of one transfer would begin.                                            *)
ListsAreOpen == Begins("SendListBuffer") => ~transfer.bClosed

TransferInv == CalledOnce /\ OneOperation /\ NothingLost /\ ListsAreOpen

(* However the client behaves, the transfer ends: its timer, or whoever    *)
(* closes the socket, sees to that.                                        *)
TransferCompletes == <>(callbacks = 1)
=============================================================================
