---------------------------- MODULE MCTransfers ----------------------------
(* The parts of a transfer share no state: a behaviour looks at one of     *)
(* them.                                                                   *)
EXTENDS Transmit, LineBuffer, IoDelays

VARIABLE focus

MCTransfers == {<<"BUFFER_SEND">>, <<"BUFFER_SEND", "SSL_ACCEPT">>,
               <<"FILE_RECEIVE">>, <<"SSL_ACCEPT", "FILE_RECEIVE">>,
               <<"FILE_SEND", "SHUTDOWN">>, <<"SSL_ACCEPT", "FILE_SEND", "SHUTDOWN">>,
               <<"LIST_BUFFER_SEND", "SHUTDOWN">>,
               <<"SSL_ACCEPT", "LIST_BUFFER_SEND", "SHUTDOWN">>}

allvars == <<transmitvars, linevars, delayvars, requestvars, focus>>

MCInit ==
    /\ focus \in {"packages", "lines", "bandwidth", "requests"}
    /\ LineInit /\ DelayInit /\ RequestInit
    /\ TransmitInit
    /\ focus # "packages" => left = <<"BUFFER_SEND">> /\ source = 0
    /\ focus # "bandwidth" => unitsLeft = 0

MCNext ==
    /\ UNCHANGED focus
    /\ \/ focus = "packages" /\ TransmitNext /\ UNCHANGED <<linevars, delayvars, requestvars>>
       \/ focus = "lines" /\ LineNext /\ UNCHANGED <<transmitvars, delayvars, requestvars>>
       \/ focus = "bandwidth" /\ DelayNext /\ UNCHANGED <<transmitvars, linevars, requestvars>>
       \/ focus = "requests" /\ RequestNext /\ UNCHANGED <<transmitvars, linevars, delayvars>>

(* The threads of the completion port and the scheduler thread run, timers *)
(* expire; the client may do nothing.                                      *)
MCSpec ==
    /\ MCInit /\ [][MCNext]_allvars
    /\ WF_transmitvars(focus = "packages" /\ Procedure)
    /\ WF_transmitvars(focus = "packages" /\ (PostCompletes \/ FileCompletes))
    /\ WF_transmitvars(focus = "packages" /\ TransmitPackage_Timer)
    /\ WF_transmitvars(focus = "packages" /\ TimerCloses)
    /\ WF_transmitvars(focus = "packages" /\ ~socket.open /\ Completion)
    /\ WF_delayvars(focus = "bandwidth" /\ Scheduler)

(* What is delayed gets its turn, and no queue of requests stands still.   *)
NothingStranded == DelayedAreQueued /\ RequestsServed

(* Each transfer completes once, lines arrive as sent until the rest is    *)
(* kept twice, and nobody is left in a queue.                              *)
TransfersInv == TransferInv /\ LinesUntilDoubled /\ NothingStranded

(* However the client behaves, a transfer ends.                            *)
TransferEnds == focus = "packages" => TransferCompletes
=============================================================================
