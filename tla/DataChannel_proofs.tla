-------------------------- MODULE DataChannel_proofs --------------------------
(***************************************************************************)
(* DataChannel for any numbers of commands, select objects and handles:    *)
(* who owns the select object, who ends the transfer, and what is released *)
(* when it has ended.  The invariant says for every place the command      *)
(* thread can be at how far the transfer is (Phases), and that the right   *)
(* to end the transfer is passed on like a token: from the event to the    *)
(* thread that took it, to the proc it queued, to the worker that runs it, *)
(* to the transmission (OneEnder).                                         *)
(***************************************************************************)
EXTENDS DataChannel, FiniteSetTheorems, TLAPS

-------------------------------------------------------------------------------
(* Where the threads are.                                                  *)

Closing == {"close", "stop", "shut"}
Closers == {"cmd", "killer", "complete", "closer"}

PlacesOK ==
  /\ DOMAIN pc = Threads /\ DOMAIN ret = Threads
  /\ pc["cmd"] \in Closing \cup
       {"idle", "open", "arm", "register", "connect", "again", "failed", "refused", "notBegun",
        "begin", "continue", "answer", "add203", "aborted", "notAborted", "dataStart",
        "transmit", "end201"}
  /\ pc["start"] \in {"idle", "dataStart", "transmit", "end201"}
  /\ pc["cancel"] \in {"idle", "end201"}
  /\ pc["io"] \in {"idle", "sending", "end201"}
  /\ pc["window"] \in {"idle", "answer"}
  /\ pc["timer"] \in {"idle", "answer"}
  /\ pc["killer"] \in Closing \cup {"idle", "filter", "notCancelled", "cancelled", "unlock", "done"}
  /\ pc["complete"] \in Closing \cup {"idle", "completed", "end203"}
  /\ pc["closer"] \in Closing \cup {"idle", "deleted", "done"}
  \* where those that close the socket go on
  /\ pc["cmd"] = "close" => ret["cmd"] \in
       {"open", "failed", "again", "refused", "notBegun", "add203", "notAborted"}
  /\ pc["cmd"] \in {"stop", "shut"} => ret["cmd"] \in
       {"open", "failed", "again", "refused", "notBegun", "add203", "notAborted", "aborted"}
  /\ pc["cmd"] = "shut" => ret["cmd"] \notin CancelsOnly
  /\ pc["killer"] = "close" => ret["killer"] = "notCancelled"
  /\ pc["killer"] \in {"stop", "shut"} => ret["killer"] \in {"notCancelled", "cancelled"}
  /\ pc["complete"] \in Closing => ret["complete"] = "completed"
  /\ pc["closer"] \in Closing => ret["closer"] = "deleted"

-------------------------------------------------------------------------------
(* The select objects.                                                     *)

Objects == [state : {"none", "live", "freed"}, listed : BOOLEAN, set : BOOLEAN,
            continue : BOOLEAN, result : {"ok", "timeout"}]

SelectsOK ==
  /\ started \in 0 .. MAX_SELECTS
  /\ sel \in [Selects -> Objects]
  /\ timer \in [Selects -> {"none", "wait", "active", "answering", "inactive", "freed"}]
  /\ lpSelectEvent \in Selects \cup {NoSelect}
  /\ own \in [Threads -> Selects \cup {NoSelect}]
  \* those to come
  /\ \A i \in Selects : i > started => sel[i].state = "none" /\ ~ sel[i].continue
  /\ pc["cmd"] = "register" =>
       /\ started \in Selects /\ sel[started].state = "live" /\ ~ sel[started].continue
       /\ \A t \in Threads : own[t] # started
  \* who has one
  /\ \A t \in Threads : own[t] # NoSelect <=> pc[t] \in {"stop", "answer"}
  /\ \A i \in Selects : timer[i] = "answering" =>
       /\ pc["timer"] = "answer"
       /\ \A j \in Selects \ {i} : timer[j] # "answering"

-------------------------------------------------------------------------------
(* How far the transfer is.                                                *)

Cmd(places, rets) ==
  \/ pc["cmd"] \in places
  \/ /\ pc["cmd"] \in Closing
     /\ ret["cmd"] \in rets

Connecting == Cmd({"open", "arm", "register", "connect", "again", "failed", "refused"},
                  {"open", "again", "failed", "refused"})
Unbegun    == Cmd({"notBegun"}, {"notBegun"})
Beginning  == Cmd({"begin"}, {"add203"})
Continuing == Cmd({"continue", "answer", "add203"}, {})
Aborting   == Cmd({"notAborted", "aborted", "dataStart", "transmit", "end201"}, {"notAborted", "aborted"})

Event   == lpSelectEvent # NoSelect
Running == jobs.transfer \/ jobs.complete # "none"

DataOK ==
  /\ jobs \in [transfer : BOOLEAN, complete : {"none", "pending", "active"}]
  /\ chan \in [bInitialized : BOOLEAN, bActive : BOOLEAN, bAbort : BOOLEAN,
               dwLastError : {"ok", "error", "timeout"}, passive : BOOLEAN]
  /\ file \in BOOLEAN

Phases ==
  /\ Connecting => ~ Running /\ ~ chan.bActive /\ ~ file
  /\ Unbegun    => ~ Running
  /\ Beginning  => ~ Running /\ chan.bActive
  /\ Continuing => jobs.complete = "none" /\ chan.bActive
  /\ Aborting   => jobs.complete = "pending" /\ chan.bActive
  /\ pc["cmd"] = "idle" =>
       /\ jobs.complete = "none" => ~ jobs.transfer /\ ~ chan.bActive /\ ~ file
       /\ jobs.complete = "pending" => chan.bActive
       /\ jobs.complete = "active" => ~ jobs.transfer
  /\ jobs.complete = "active" <=> pc["complete"] # "idle"
  /\ pc["complete"] = "end203" => ~ file /\ ~ chan.bActive /\ ~ chan.bInitialized

\* Where there is an event, and where there is none.
Events ==
  /\ (Event /\ ~ chan.bInitialized) =>
       \/ pc["cmd"] = "connect"
       \/ /\ pc["cmd"] = "close"
          /\ ret["cmd"] \in {"again", "failed"}
  /\ pc["cmd"] \in {"connect", "begin"} => Event
  /\ (/\ pc["cmd"] = "idle" /\ jobs.complete = "none" /\ chan.bInitialized
      /\ pc["closer"] \in {"idle", "close"}) => Event
  /\ pc["cmd"] \in {"open", "arm", "register", "again", "failed", "refused", "notBegun"} => ~ Event
  /\ \A t \in Closers : pc[t] \in {"stop", "shut"} => ~ Event
  /\ (pc["cmd"] \in {"continue", "add203"} \/ jobs.complete # "none") => (jobs.transfer \/ ~ Event)
  /\ (Event /\ sel[lpSelectEvent].continue) => jobs.transfer

\* The killer, who keeps the transfer's job, and the end of the client.
Killing ==
  /\ pc["killer"] \in Closing \cup {"notCancelled", "cancelled"} => jobLock = "killer" /\ jobs.transfer
  /\ pc["closer"] # "idle" => pc["cmd"] = "idle" /\ ~ Running /\ (filter \/ logoff)
  /\ pc["closer"] \in {"deleted", "done"} => ~ Event
  /\ closed => pc["closer"] = "done"

-------------------------------------------------------------------------------
(* Who will end the transfer.                                              *)

Roles == {"event", "queuedStart", "queuedCancel", "start", "cancel", "io", "window", "timer", "cmd", "killer"}

Ends(x) ==
  \/ x = "event" /\ Event
  \/ x = "queuedStart" /\ "start" \in procs
  \/ x = "queuedCancel" /\ "cancel" \in procs
  \/ x \in {"start", "cancel", "io"} /\ pc[x] # "idle"
  \/ x \in {"window", "timer"} /\ pc[x] = "answer"
  \/ /\ x = "cmd"
     /\ \/ pc["cmd"] \in {"answer", "aborted", "dataStart", "transmit", "end201"}
        \/ ret["cmd"] = "aborted" /\ pc["cmd"] \in {"stop", "shut"}
  \/ /\ x = "killer"
     /\ \/ pc["killer"] = "cancelled"
        \/ ret["killer"] = "cancelled" /\ pc["killer"] \in {"stop", "shut"}

OneEnder ==
  /\ procs \subseteq {"start", "cancel"}
  /\ jobs.transfer => \E x \in Roles : Ends(x) /\ \A y \in Roles \ {x} : ~ Ends(y)
  /\ ~ jobs.transfer => \A x \in Roles \ {"event"} : ~ Ends(x)

IInv == PlacesOK /\ SelectsOK /\ OneOwner /\ DataOK /\ Phases /\ Events /\ Killing /\ OneEnder

-------------------------------------------------------------------------------
(* The right to end the transfer stays where it is.                        *)
LEMMA EnderStays ==
  ASSUME OneEnder, jobs'.transfer = jobs.transfer, procs' = procs,
         \A x \in Roles : Ends(x)' <=> Ends(x)
  PROVE  OneEnder'
  BY DEF OneEnder

(* No transfer runs: whatever happens to the event, nobody else would end  *)
(* one.                                                                    *)
LEMMA NoneToEnd ==
  ASSUME OneEnder, ~ jobs.transfer, ~ jobs'.transfer, procs' = procs,
         \A x \in Roles \ {"event"} : Ends(x)' <=> Ends(x)
  PROVE  OneEnder'
  BY DEF OneEnder

(* The right to end the transfer passes from x to y.                       *)
LEMMA EnderPasses ==
  ASSUME OneEnder, jobs'.transfer = jobs.transfer, procs' \subseteq {"start", "cancel"},
         NEW x \in Roles, NEW y \in Roles, Ends(x), ~ Ends(x)', Ends(y)', x # y,
         x # "event" \/ jobs.transfer,
         \A z \in Roles \ {x, y} : Ends(z)' <=> Ends(z)
  PROVE  OneEnder'
  <1>1. jobs.transfer
    BY DEF OneEnder
  <1>2. PICK w \in Roles : Ends(w) /\ \A z \in Roles \ {w} : ~ Ends(z)
    BY <1>1 DEF OneEnder
  <1>3. w = x
    BY <1>2
  <1>4. \A z \in Roles \ {y} : ~ Ends(z)'
    BY <1>2, <1>3
  <1> QED
    BY <1>1, <1>4 DEF OneEnder

(* The place in the job queue of what the worker t runs.                   *)
Queued(t) == IF t = "start" THEN "queuedStart" ELSE "queuedCancel"

(* Whoever ends the transfer was the only one who could.                   *)
LEMMA OnlyEnder ==
  ASSUME OneEnder, NEW x \in Roles, Ends(x), x # "event"
  PROVE  jobs.transfer /\ \A y \in Roles \ {x} : ~ Ends(y)
  BY DEF OneEnder

-------------------------------------------------------------------------------
(* The thread w takes the object of the event over: it has an owner again, *)
(* and only one.                                                           *)
LEMMA Take ==
  ASSUME PlacesOK, SelectsOK, OneOwner, Event, pc["cmd"] = "register" => ~ Event,
         NEW w \in Threads, pc[w] \notin {"stop", "answer"},
         NEW p \in {"stop", "answer"}, pc' = [pc EXCEPT ![w] = p],
         NEW s \in Objects, s.state = sel[lpSelectEvent].state, ~ s.listed,
         sel' = [sel EXCEPT ![lpSelectEvent] = s], lpSelectEvent' = NoSelect,
         own' = [own EXCEPT ![w] = lpSelectEvent], started' = started,
         timer' \in [Selects -> {"none", "wait", "active", "answering", "inactive", "freed"}],
         \A i \in Selects : timer'[i] = "answering" =>
           /\ pc'["timer"] = "answer"
           /\ \A j \in Selects \ {i} : timer'[j] # "answering"
  PROVE  SelectsOK' /\ OneOwner'
  <1>1. /\ lpSelectEvent \in Selects /\ own[w] = NoSelect /\ sel[lpSelectEvent].state = "live"
        /\ pc["cmd"] # "register" /\ ~ (lpSelectEvent > started)
    BY DEF SelectsOK, OneOwner, Event
  <1>2. /\ sel' \in [Selects -> Objects] /\ sel'[lpSelectEvent] = s
        /\ \A j \in Selects \ {lpSelectEvent} : sel'[j] = sel[j]
    BY <1>1 DEF SelectsOK
  <1>3. /\ own' \in [Threads -> Selects \cup {NoSelect}] /\ own'[w] = lpSelectEvent
        /\ \A u \in Threads \ {w} : own'[u] = own[u]
    BY <1>1 DEF SelectsOK
  <1>4. /\ pc'["cmd"] # "register" /\ pc'[w] = p
        /\ \A u \in Threads \ {w} : pc'[u] = pc[u]
    BY <1>1 DEF PlacesOK, Threads
  <1>5. \A t \in Threads : own'[t] # NoSelect <=> pc'[t] \in {"stop", "answer"}
    BY <1>1, <1>3, <1>4 DEF SelectsOK, Event, NoSelect
  <1>6. \A i \in Selects : i > started' => sel'[i].state = "none" /\ ~ sel'[i].continue
    BY <1>1, <1>2 DEF SelectsOK
  <1>7. OneOwner'
    BY <1>1, <1>2, <1>3 DEF OneOwner
  <1> QED
    BY <1>2, <1>3, <1>4, <1>5, <1>6, <1>7 DEF SelectsOK

(* A mark on the object of the event disturbs nobody.                      *)
LEMMA Mark ==
  ASSUME PlacesOK, SelectsOK, OneOwner, Event, pc["cmd"] = "register" => ~ Event,
         pc'["cmd"] # "register" \/ pc' = pc,
         \A t \in Threads : pc'[t] \in {"stop", "answer"} <=> pc[t] \in {"stop", "answer"},
         NEW s \in Objects, s.state = sel[lpSelectEvent].state,
         sel' = [sel EXCEPT ![lpSelectEvent] = s], lpSelectEvent' = lpSelectEvent,
         own' = own, started' = started,
         timer' \in [Selects -> {"none", "wait", "active", "answering", "inactive", "freed"}],
         \A i \in Selects : timer'[i] = "answering" =>
           /\ pc'["timer"] = "answer"
           /\ \A j \in Selects \ {i} : timer'[j] # "answering"
  PROVE  SelectsOK' /\ OneOwner'
  <1>1. /\ lpSelectEvent \in Selects /\ sel[lpSelectEvent].state = "live"
        /\ pc["cmd"] # "register" /\ ~ (lpSelectEvent > started)
    BY DEF SelectsOK, OneOwner, Event
  <1>2. /\ sel' \in [Selects -> Objects] /\ sel'[lpSelectEvent] = s
        /\ \A j \in Selects \ {lpSelectEvent} : sel'[j] = sel[j]
    BY <1>1 DEF SelectsOK
  <1>3. OneOwner'
    BY <1>1, <1>2 DEF OneOwner, SelectsOK, NoSelect
  <1>4. \A i \in Selects : i > started' => sel'[i].state = "none" /\ ~ sel'[i].continue
    BY <1>1, <1>2 DEF SelectsOK
  <1> QED
    BY <1>1, <1>2, <1>3, <1>4 DEF SelectsOK

(* What becomes of the event that the thread w, the window or the timer,   *)
(* is told of: nothing; a mark; or w takes the object, if the transfer     *)
(* waits for it.                                                           *)
Marked(s) ==
  /\ s.state = sel[lpSelectEvent].state /\ ~ s.listed /\ s.continue = sel[lpSelectEvent].continue
  /\ sel' = [sel EXCEPT ![lpSelectEvent] = s]

Told(w) ==
  \/ UNCHANGED <<pc, own, sel, lpSelectEvent>>
  \/ /\ Event /\ \E s \in Objects : Marked(s)
     /\ \/ UNCHANGED <<pc, own, lpSelectEvent>>
        \/ /\ sel[lpSelectEvent].continue /\ lpSelectEvent' = NoSelect
           /\ own' = [own EXCEPT ![w] = lpSelectEvent]
           /\ pc' = [pc EXCEPT ![w] = "answer"]

(* However it goes, the event still has one owner and the transfer one who *)
(* will end it.                                                            *)
LEMMA ToldKeeps ==
  ASSUME IInv, NEW w \in {"window", "timer"}, pc[w] = "idle", Told(w),
         UNCHANGED <<ret, started, chan, procs, jobs, filter, logoff, closed, jobLock, file>>,
         timer' \in [Selects -> {"none", "wait", "active", "answering", "inactive", "freed"}],
         \A i \in Selects : timer'[i] = "answering" =>
           /\ pc'["timer"] = "answer"
           /\ \A j \in Selects \ {i} : timer'[j] # "answering"
  PROVE  IInv'
  <1>1. CASE UNCHANGED <<pc, own, sel, lpSelectEvent>>
    <2>1. PlacesOK'
      BY <1>1 DEF IInv, PlacesOK
    <2>2. SelectsOK' /\ OneOwner'
      BY <1>1 DEF IInv, SelectsOK, OneOwner
    <2>3. DataOK' /\ Phases'
      BY <1>1 DEF IInv, DataOK, Phases, Connecting, Unbegun, Beginning, Continuing, Aborting, Cmd,
        Running
    <2>4. Events' /\ Killing'
      BY <1>1 DEF IInv, Events, Event, Killing, Running
    <2>5. OneEnder'
      BY <1>1 DEF IInv, OneEnder, Ends, Event
    <2> QED
      BY <2>1, <2>2, <2>3, <2>4, <2>5 DEF IInv
  <1>2. ASSUME Event, NEW s \in Objects, Marked(s), UNCHANGED <<pc, own, lpSelectEvent>>
        PROVE  IInv'
    <2>1. PlacesOK'
      BY <1>2 DEF IInv, PlacesOK
    <2>2. SelectsOK' /\ OneOwner'
      BY <1>2, Mark DEF IInv, Events, Marked
    <2>3. DataOK' /\ Phases'
      BY <1>2 DEF IInv, DataOK, Phases, Connecting, Unbegun, Beginning, Continuing, Aborting, Cmd,
        Running
    <2>4. sel'[lpSelectEvent].continue = sel[lpSelectEvent].continue
      BY <1>2 DEF IInv, SelectsOK, Marked, Event
    <2>5. Events' /\ Killing'
      BY <1>2, <2>4 DEF IInv, Events, Event, Killing, Running
    <2>6. OneEnder'
      BY <1>2 DEF IInv, OneEnder, Ends, Event
    <2> QED
      BY <2>1, <2>2, <2>3, <2>5, <2>6 DEF IInv
  <1>3. ASSUME Event, NEW s \in Objects, Marked(s), sel[lpSelectEvent].continue,
               lpSelectEvent' = NoSelect, own' = [own EXCEPT ![w] = lpSelectEvent],
               pc' = [pc EXCEPT ![w] = "answer"]
        PROVE  IInv'
    <2>1. /\ \A t \in Threads \ {w} : pc'[t] = pc[t]
          /\ pc'[w] = "answer" /\ w \in Threads /\ w \notin Closers
      BY <1>3 DEF IInv, PlacesOK, Threads, Closers
    <2>2. jobs.transfer
      BY <1>3 DEF IInv, Events
    <2>3. PlacesOK'
      BY <1>3 DEF IInv, PlacesOK, Threads
    <2>4. SelectsOK' /\ OneOwner'
      BY <1>3, <2>1, Take DEF IInv, Events, Marked
    <2>5. DataOK' /\ Phases'
      BY <2>1 DEF IInv, DataOK, Phases, Connecting, Unbegun, Beginning, Continuing, Aborting, Cmd,
        Running, Threads
    <2>6. Events'
      BY <1>3, <2>1, <2>2 DEF IInv, Phases, Connecting, Beginning, Cmd, Events, Running
    <2>7. Killing'
      BY <1>3, <2>1 DEF IInv, Killing, Running
    <2>8. /\ Ends("event") /\ ~ Ends("event")' /\ Ends(w)'
          /\ \A z \in Roles \ {"event", w} : Ends(z)' <=> Ends(z)
      BY <1>3, <2>1 DEF Roles, Ends, Event, Threads
    <2>9. OneEnder'
      BY <2>2, <2>8, EnderPasses DEF IInv, OneEnder, Roles
    <2> QED
      BY <2>3, <2>4, <2>5, <2>6, <2>7, <2>9 DEF IInv
  <1> QED
    BY <1>1, <1>2, <1>3 DEF Told

(* AsyncSelectProc: the event may be lost, or find its object.             *)
LEMMA AsyncSelectProcKeeps ==
  ASSUME IInv, NEW h \in 1 .. HANDLES, AsyncSelectProc(h)
  PROVE  IInv'
  <1>1. /\ pc["window"] = "idle" /\ timer' = timer
        /\ UNCHANGED <<ret, started, chan, procs, jobs, filter, logoff, closed, jobLock, file>>
    BY DEF AsyncSelectProc, At, life, locks
  <1>2. ASSUME UNCHANGED <<own, pc, sel, lpSelectEvent>>
        PROVE  Told("window")
    BY <1>2 DEF Told
  <1>3. ASSUME NEW i \in Match(h), i = lpSelectEvent,
               Signal(i, [sel[i] EXCEPT !.set = TRUE, !.result = "ok"]),
               IF sel[i].continue
                 THEN own' = [own EXCEPT !["window"] = i] /\ Goto("window", "answer")
                 ELSE UNCHANGED <<own, pc>>
        PROVE  Told("window")
    <2>1. i \in Selects /\ Event /\ sel[i] \in Objects
      BY <1>3 DEF IInv, SelectsOK, Match, Event, NoSelect, Selects
    <2> DEFINE s == [[sel[i] EXCEPT !.set = TRUE, !.result = "ok"] EXCEPT !.listed = FALSE]
    <2>2. /\ s \in Objects /\ s.state = sel[i].state /\ ~ s.listed /\ s.continue = sel[i].continue
          /\ [sel[i] EXCEPT !.set = TRUE, !.result = "ok"].continue = sel[i].continue
      BY <2>1 DEF Objects
    <2>3. /\ sel' = [sel EXCEPT ![i] = s]
          /\ lpSelectEvent' = IF sel[i].continue THEN NoSelect ELSE lpSelectEvent
      BY <1>3, <2>2 DEF Signal, Unlink
    <2>4. Marked(s)
      BY <1>3, <2>2, <2>3 DEF Marked
    <2> HIDE DEF s
    <2> QED
      BY <1>3, <2>1, <2>2, <2>3, <2>4 DEF Told, Goto
  <1>4. Told("window")
    BY <1>2, <1>3 DEF AsyncSelectProc, Told
  <1>5. pc'["timer"] = pc["timer"]
    BY <1>4 DEF IInv, Told, PlacesOK, Threads
  <1> QED
    BY <1>1, <1>4, <1>5, ToldKeeps DEF IInv, SelectsOK

(* TimerProc: the time-out finds the event of its object or of another, or *)
(* none.                                                                   *)
LEMMA TimerProcKeeps ==
  ASSUME IInv, NEW i \in Selects, TimerProc(i)
  PROVE  IInv'
  <1>1. /\ pc["timer"] = "idle" /\ timer[i] = "active"
        /\ UNCHANGED <<ret, started, chan, procs, jobs, filter, logoff, closed, jobLock, file>>
    BY DEF TimerProc, At, life, locks
  <1>2. CASE lpSelectEvent = NoSelect
    <2>1. UNCHANGED <<pc, own, sel, lpSelectEvent>> /\ timer' = [timer EXCEPT ![i] = "inactive"]
      BY <1>2 DEF TimerProc
    <2> QED
      BY <2>1, <1>1, ToldKeeps DEF IInv, SelectsOK, Told
  <1>3. CASE Event
    <2>1. PICK p : p = lpSelectEvent
      OBVIOUS
    <2>2. p \in Selects /\ sel[p] \in Objects
      BY <1>3, <2>1 DEF IInv, SelectsOK, Event
    <2>3. /\ Signal(p, [sel[p] EXCEPT !.set = TRUE, !.result = "timeout"])
          /\ IF sel[p].continue
               THEN /\ timer' = [timer EXCEPT ![i] = "answering"]
                    /\ own' = [own EXCEPT !["timer"] = p] /\ Goto("timer", "answer")
               ELSE /\ timer' = [timer EXCEPT ![i] = "inactive"]
                    /\ UNCHANGED <<own, pc>>
      BY <1>3, <2>1 DEF TimerProc, Event
    <2> DEFINE s == [[sel[p] EXCEPT !.set = TRUE, !.result = "timeout"] EXCEPT !.listed = FALSE]
    <2>4. /\ s \in Objects /\ s.state = sel[p].state /\ ~ s.listed /\ s.continue = sel[p].continue
          /\ [sel[p] EXCEPT !.set = TRUE, !.result = "timeout"].continue = sel[p].continue
      BY <2>2 DEF Objects
    <2>5. /\ sel' = [sel EXCEPT ![p] = s]
          /\ lpSelectEvent' = IF sel[p].continue THEN NoSelect ELSE lpSelectEvent
      BY <2>3, <2>4 DEF Signal, Unlink
    <2>6. Marked(s)
      BY <2>1, <2>4, <2>5 DEF Marked
    <2> HIDE DEF s
    <2>7. Told("timer")
      BY <1>3, <2>1, <2>3, <2>4, <2>5, <2>6 DEF Told, Goto
    <2>8. /\ timer' \in [Selects -> {"none", "wait", "active", "answering", "inactive", "freed"}]
          /\ \A j \in Selects \ {i} : timer'[j] # "answering"
          /\ timer'[i] = "answering" => pc'["timer"] = "answer"
      BY <1>1, <2>3 DEF IInv, PlacesOK, SelectsOK, Threads, Goto
    <2> QED
      BY <1>1, <2>7, <2>8, ToldKeeps
  <1> QED
    BY <1>2, <1>3 DEF Event

-------------------------------------------------------------------------------
(* PORT and PASV.                                                          *)

(* A command that opens a data connection starts with no transfer.         *)
LEMMA ConnectionKeeps ==
  ASSUME IInv, NEW k \in {"PORT", "PASV"}, Connection(k)
  PROVE  IInv'
  <1>1. PlacesOK'
    BY DEF IInv, PlacesOK, Threads, Closing, Connection, CallClose, Goto
  <1>2. SelectsOK'
    BY DEF IInv, PlacesOK, SelectsOK, Threads, Connection, Command, CallClose, Goto, Takes, sock,
      At
  <1>3. OneOwner'
    BY DEF IInv, PlacesOK, SelectsOK, OneOwner, Connection, Command, Takes, sock
  <1>4. DataOK'
    BY DEF IInv, DataOK, Closers, Connection, Command, Takes
  <1>5. Phases'
    BY DEF IInv, PlacesOK, DataOK, Phases, Beginning, Continuing, Aborting, Cmd, Running, Closing,
      Threads, Connection, Command, CallClose, Goto, Takes, sock, At
  <1>6. Events'
    BY DEF IInv, PlacesOK, Events, Event, CancelsOnly, Closers, Threads, NoSelect, Connection,
      Command, CallClose, Goto, Takes, sock, At
  <1>7. Killing'
    BY DEF IInv, PlacesOK, Killing, Threads, Connection, Command, CallClose, Goto, Takes
  <1>8. \A x \in Roles : Ends(x)' <=> Ends(x)
    BY DEF IInv, PlacesOK, Ends, Event, Threads, Connection, Command, CallClose, Goto, Takes,
      sock, At
  <1>9. OneEnder'
    BY <1>8, EnderStays DEF IInv, Connection, Command, Takes
  <1> QED
    BY <1>1, <1>2, <1>3, <1>4, <1>5, <1>6, <1>7, <1>9 DEF IInv

(* A new socket has no event yet.                                          *)
LEMMA OpenSocketKeeps ==
  ASSUME IInv, OpenSocket
  PROVE  IInv'
  <1>1. PlacesOK'
    BY DEF IInv, PlacesOK, Threads, Closing, OpenSocket, Goto, CallClose
  <1>2. SelectsOK'
    BY DEF IInv, PlacesOK, SelectsOK, Threads, OpenSocket, At, Goto, CallClose
  <1>3. OneOwner'
    BY DEF IInv, PlacesOK, OneOwner, OpenSocket
  <1>4. DataOK'
    BY DEF IInv, DataOK, PlacesOK, Threads, Closers, OpenSocket, At, Goto, CallClose, life, locks
  <1>5. Phases'
    BY DEF IInv, PlacesOK, Phases, Connecting, Beginning, Continuing, Aborting, Cmd, Running,
      Closing, Threads, OpenSocket, At, Goto, CallClose, life
  <1>6. Events'
    BY DEF IInv, PlacesOK, Events, Event, Threads, OpenSocket, At, Goto, CallClose
  <1>7. Killing'
    BY DEF IInv, PlacesOK, Killing, Threads, OpenSocket, At, Goto, CallClose, life, locks
  <1>8. \A x \in Roles : Ends(x)' <=> Ends(x)
    BY DEF IInv, PlacesOK, Ends, Event, Threads, OpenSocket, At, Goto, CallClose
  <1>9. OneEnder'
    BY <1>8, EnderStays DEF IInv, OpenSocket
  <1> QED
    BY <1>1, <1>2, <1>3, <1>4, <1>5, <1>6, <1>7, <1>9 DEF IInv

(* A new select object belongs to nobody.                                  *)
LEMMA StartTimerKeeps ==
  ASSUME IInv, StartTimer
  PROVE  IInv'
  <1>1. PlacesOK'
    BY DEF IInv, PlacesOK, StartTimer, Goto
  <1>2. SelectsOK'
    <2> DEFINE n == started + 1
    <2>1. /\ n \in Selects /\ started \in 0 .. MAX_SELECTS /\ started < n /\ started' = n
          /\ \A i \in Selects : i > n => i > started
      BY BoundsAssumption DEF IInv, SelectsOK, Selects, StartTimer
    <2>2. sel[n].state = "none" /\ ~ sel[n].continue /\ sel[n] \in Objects
      BY <2>1 DEF IInv, SelectsOK
    <2> HIDE DEF n
    <2>3. /\ sel' \in [Selects -> Objects] /\ sel'[n].state = "live" /\ ~ sel'[n].continue
          /\ \A j \in Selects \ {n} : sel'[j] = sel[j]
      BY <2>1, <2>2 DEF IInv, SelectsOK, Objects, StartTimer
    <2>4. /\ timer' \in [Selects -> {"none", "wait", "active", "answering", "inactive", "freed"}]
          /\ timer'[n] = "wait" /\ \A j \in Selects \ {n} : timer'[j] = timer[j]
      BY <2>1 DEF IInv, SelectsOK, StartTimer
    <2>5. /\ pc' = [pc EXCEPT !["cmd"] = "register"] /\ pc["cmd"] = "arm"
          /\ own' = own /\ lpSelectEvent' = lpSelectEvent
      BY DEF StartTimer, At, Goto
    <2>6. \A t \in Threads : own[t] # n
      BY <2>1, <2>2 DEF IInv, OneOwner, NoSelect
    <2>7. n \in 0 .. MAX_SELECTS
      BY <2>1 DEF Selects
    <2>8. \A t \in Threads : own'[t] # NoSelect <=> pc'[t] \in {"stop", "answer"}
      BY <2>5 DEF IInv, PlacesOK, SelectsOK
    <2>9. \A i \in Selects : i > started' => sel'[i].state = "none" /\ ~ sel'[i].continue
      <3> SUFFICES ASSUME NEW i \in Selects, i > n
                   PROVE  sel'[i].state = "none" /\ ~ sel'[i].continue
        BY <2>1
      <3>1. i # n
        BY <2>1 DEF Selects
      <3> QED
        BY <3>1, <2>1, <2>3 DEF IInv, SelectsOK
    <2>10. \A i \in Selects : timer'[i] = "answering" =>
             /\ pc'["timer"] = "answer"
             /\ \A j \in Selects \ {i} : timer'[j] # "answering"
      BY <2>4, <2>5 DEF IInv, PlacesOK, SelectsOK, Threads
    <2> QED
      BY <2>1, <2>3, <2>4, <2>5, <2>6, <2>7, <2>8, <2>9, <2>10 DEF IInv, SelectsOK
  <1>3. OneOwner'
    BY DEF IInv, PlacesOK, OneOwner, StartTimer
  <1>4. DataOK'
    BY DEF IInv, DataOK, StartTimer
  <1>5. Phases'
    BY DEF IInv, Phases, Connecting, Beginning, Continuing, Aborting, Cmd, Running, Closing,
      StartTimer, At, Goto
  <1>6. Events'
    BY DEF IInv, Events, Event, StartTimer, At, Goto
  <1>7. Killing'
    BY DEF IInv, Killing, StartTimer, At, Goto, life, locks
  <1>8. \A x \in Roles : Ends(x)' <=> Ends(x)
    BY DEF Roles, Ends, Event, StartTimer, At, Goto
  <1>9. OneEnder'
    BY <1>8, EnderStays DEF IInv, StartTimer
  <1> QED
    BY <1>1, <1>2, <1>3, <1>4, <1>5, <1>6, <1>7, <1>9 DEF IInv

(* The object becomes the event of the socket, while no job runs.          *)
LEMMA RegisterKeeps ==
  ASSUME IInv, Register
  PROVE  IInv'
  <1>0. /\ pc["cmd"] = "register" /\ lpSelectEvent = NoSelect
        /\ lpSelectEvent' = started /\ started \in Selects /\ sel[started].state = "live"
        /\ ~ sel[started].continue
        /\ sel' \in [Selects -> Objects] /\ sel'[started].state = "live" /\ ~ sel'[started].continue
        /\ \A j \in Selects \ {started} : sel'[j] = sel[j]
        /\ \/ pc' = [pc EXCEPT !["cmd"] = "connect"] /\ chan' = chan
           \/ /\ pc' = [pc EXCEPT !["cmd"] = "idle"]
              /\ chan'.bInitialized /\ chan'.bActive = chan.bActive
        /\ ret' = ret /\ own' = own /\ timer' = timer /\ started' = started /\ jobs' = jobs
        /\ file' = file
    <2>1. PICK b \in BOOLEAN : b = ~ sel[started].set
      OBVIOUS
    <2>2. sel' = [sel EXCEPT ![started].listed = b]
      BY <2>1, Zenon DEF Register
    <2>3. pc["cmd"] = "register" /\ started \in Selects /\ sel \in [Selects -> Objects]
      BY DEF IInv, SelectsOK, Register, At
    <2>4. sel' \in [Selects -> Objects] /\ \A j \in Selects \ {started} : sel'[j] = sel[j]
      BY <2>2, <2>3 DEF Objects
    <2>5. sel'[started].state = sel[started].state /\ sel'[started].continue = sel[started].continue
      BY <2>2, <2>3 DEF Objects
    <2>6. sel[started].state = "live" /\ ~ sel[started].continue /\ lpSelectEvent = NoSelect
      BY <2>3 DEF IInv, SelectsOK, Events, Event
    <2>7. /\ lpSelectEvent' = started
          /\ ret' = ret /\ own' = own /\ timer' = timer /\ started' = started /\ jobs' = jobs
          /\ file' = file
          /\ \/ pc' = [pc EXCEPT !["cmd"] = "connect"] /\ chan' = chan
             \/ /\ pc' = [pc EXCEPT !["cmd"] = "idle"]
                /\ chan' = [chan EXCEPT !.bInitialized = TRUE, !.passive = TRUE]
      BY DEF Register, Goto
    <2>8. \/ pc' = [pc EXCEPT !["cmd"] = "connect"] /\ chan' = chan
          \/ /\ pc' = [pc EXCEPT !["cmd"] = "idle"]
             /\ chan'.bInitialized /\ chan'.bActive = chan.bActive
      BY <2>7 DEF IInv, DataOK
    <2> QED
      BY <2>3, <2>4, <2>5, <2>6, <2>7, <2>8
  <1>1. PlacesOK'
    BY DEF IInv, PlacesOK, Threads, Register, Goto
  <1>2. SelectsOK'
    BY <1>0 DEF IInv, PlacesOK, SelectsOK, Threads
  <1>3. OneOwner'
    BY <1>0 DEF IInv, PlacesOK, SelectsOK, OneOwner, Selects, NoSelect
  <1>4. DataOK'
    BY DEF IInv, DataOK, PlacesOK, Threads, Closers, Register, At, Goto, life, locks
  <1>5. Phases'
    BY <1>0 DEF IInv, PlacesOK, Phases, Connecting, Beginning, Continuing, Aborting, Cmd, Running,
      Closing, Threads
  <1>6. Events'
    BY <1>0 DEF IInv, PlacesOK, Phases, Events, Event, Killing, Connecting, Cmd, Running, Closers,
      Threads, NoSelect, Selects
  <1>7. Killing'
    BY DEF IInv, PlacesOK, Killing, Threads, Register, At, Goto, life, locks
  <1>8. ~ jobs.transfer /\ jobs' = jobs /\ procs' = procs
        /\ \A x \in Roles \ {"event"} : Ends(x)' <=> Ends(x)
    BY DEF IInv, PlacesOK, Ends, Threads, Phases, Connecting, Cmd, Running, Register, At, Goto
  <1>9. OneEnder'
    BY <1>8, NoneToEnd DEF IInv
  <1> QED
    BY <1>1, <1>2, <1>3, <1>4, <1>5, <1>6, <1>7, <1>9 DEF IInv

(* FTP_Data_Connect: the connection is under way, tried again or given up. *)
LEMMA ConnectKeeps ==
  ASSUME IInv, Connect
  PROVE  IInv'
  <1>0. /\ pc["cmd"] = "connect" /\ jobs' = jobs /\ file' = file /\ lpSelectEvent' = lpSelectEvent
        /\ sel' = sel
        /\ \/ /\ pc' = [pc EXCEPT !["cmd"] = "idle"] /\ ret' = ret
              /\ chan'.bInitialized /\ chan'.bActive = chan.bActive
           \/ /\ pc' = [pc EXCEPT !["cmd"] = "close"] /\ chan' = chan
              /\ \E r \in {"again", "failed"} : ret' = [ret EXCEPT !["cmd"] = r]
    BY DEF IInv, DataOK, Connect, CallClose, At, Goto, sock
  <1>1. PlacesOK'
    BY DEF IInv, PlacesOK, Threads, Closing, Connect, Goto, CallClose
  <1>2. SelectsOK'
    BY DEF IInv, PlacesOK, SelectsOK, Threads, Connect, At, Goto, CallClose, sock
  <1>3. OneOwner'
    BY DEF IInv, PlacesOK, SelectsOK, OneOwner, Connect, sock
  <1>4. DataOK'
    BY DEF IInv, DataOK, PlacesOK, Threads, Closers, Connect, At, Goto, CallClose, sock, life,
      locks
  <1>5. Phases'
    BY <1>0 DEF IInv, PlacesOK, Phases, Connecting, Beginning, Continuing, Aborting, Cmd, Running,
      Closing, Threads
  <1>6. Events'
    BY <1>0 DEF IInv, PlacesOK, Events, Event, Closers, Threads
  <1>7. Killing'
    BY DEF IInv, PlacesOK, Killing, Threads, Connect, At, Goto, CallClose, life, locks
  <1>8. \A x \in Roles : Ends(x)' <=> Ends(x)
    BY DEF IInv, PlacesOK, Ends, Event, Threads, Connect, At, Goto, CallClose, sock
  <1>9. OneEnder'
    BY <1>8, EnderStays DEF IInv, Connect
  <1> QED
    BY <1>1, <1>2, <1>3, <1>4, <1>5, <1>6, <1>7, <1>9 DEF IInv

(* The socket is tried again without an event.                             *)
LEMMA ConnectAgainKeeps ==
  ASSUME IInv, ConnectAgain
  PROVE  IInv'
  <1>1. PlacesOK'
    BY DEF IInv, PlacesOK, ConnectAgain, Goto
  <1>2. SelectsOK'
    BY DEF IInv, PlacesOK, SelectsOK, ConnectAgain, At, Goto, sock
  <1>3. OneOwner'
    BY DEF IInv, PlacesOK, SelectsOK, OneOwner, ConnectAgain, sock
  <1>4. DataOK'
    BY DEF IInv, DataOK, ConnectAgain
  <1>5. Phases'
    BY DEF IInv, Phases, Connecting, Beginning, Continuing, Aborting, Cmd, Running, Closing,
      ConnectAgain, At, Goto
  <1>6. Events'
    BY DEF IInv, Events, Event, ConnectAgain, At, Goto, sock
  <1>7. Killing'
    BY DEF IInv, Killing, ConnectAgain, At, Goto, life, locks
  <1>8. \A x \in Roles : Ends(x)' <=> Ends(x)
    BY DEF Ends, Event, ConnectAgain, At, Goto, sock
  <1>9. OneEnder'
    BY <1>8, EnderStays DEF IInv, ConnectAgain
  <1> QED
    BY <1>1, <1>2, <1>3, <1>4, <1>5, <1>6, <1>7, <1>9 DEF IInv

(* A connection that failed leaves no event.                               *)
LEMMA ConnectionFailedKeeps ==
  ASSUME IInv, ConnectionFailed
  PROVE  IInv'
  <1>1. PlacesOK'
    BY DEF IInv, PlacesOK, ConnectionFailed, Goto
  <1>2. SelectsOK'
    BY DEF IInv, PlacesOK, SelectsOK, ConnectionFailed, At, Goto, sock
  <1>3. OneOwner'
    BY DEF IInv, PlacesOK, SelectsOK, OneOwner, ConnectionFailed, sock
  <1>4. DataOK'
    BY DEF IInv, DataOK, PlacesOK, Threads, Closers, ConnectionFailed, At, Goto, sock, life, locks
  <1>5. Phases'
    BY DEF IInv, Phases, Connecting, Beginning, Continuing, Aborting, Cmd, Running, Closing,
      ConnectionFailed, At, Goto
  <1>6. Events'
    BY DEF IInv, Events, Event, ConnectionFailed, At, Goto, sock
  <1>7. Killing'
    BY DEF IInv, Killing, ConnectionFailed, At, Goto, life, locks
  <1>8. \A x \in Roles : Ends(x)' <=> Ends(x)
    BY DEF Ends, Event, ConnectionFailed, At, Goto, sock
  <1>9. OneEnder'
    BY <1>8, EnderStays DEF IInv, ConnectionFailed
  <1> QED
    BY <1>1, <1>2, <1>3, <1>4, <1>5, <1>6, <1>7, <1>9 DEF IInv

-------------------------------------------------------------------------------
(* RETR, STOR and LIST.                                                    *)

(* A transfer that is refused closes the connection.                       *)
LEMMA TransferRefusedKeeps ==
  ASSUME IInv, NEW k \in Kinds, TransferRefused(k)
  PROVE  IInv'
  <1>1. PlacesOK'
    BY DEF IInv, PlacesOK, Closing, TransferRefused, CallClose, Goto
  <1>2. SelectsOK'
    BY DEF IInv, SelectsOK, TransferRefused, Command, CallClose, Takes, sock, Goto, At
  <1>3. OneOwner'
    BY DEF IInv, OneOwner, TransferRefused, Command, Takes, sock
  <1>4. DataOK'
    BY DEF IInv, DataOK, TransferRefused, Command, Takes
  <1>5. Phases'
    BY DEF IInv, PlacesOK, DataOK, Phases, Beginning, Continuing, Aborting, Cmd, Running, Closing,
      TransferRefused, Command, CallClose, Takes, sock, Goto, At
  <1>6. Events'
    BY DEF IInv, Events, Event, TransferRefused, Command, CallClose, Takes, sock, Goto, At
  <1>7. Killing'
    BY DEF IInv, Killing, TransferRefused, Command, CallClose, Takes, Goto
  <1>8. \A x \in Roles : Ends(x)' <=> Ends(x)
    BY DEF Ends, Event, TransferRefused, Command, CallClose, Takes, sock, Goto, At
  <1>9. OneEnder'
    BY <1>8, EnderStays DEF IInv, TransferRefused, Command, Takes
  <1> QED
    BY <1>1, <1>2, <1>3, <1>4, <1>5, <1>6, <1>7, <1>9 DEF IInv

(* A command whose transfer was refused ends with no event left.           *)
LEMMA RefusedKeeps ==
  ASSUME IInv, Refused
  PROVE  IInv'
  <1>1. PlacesOK'
    BY DEF IInv, PlacesOK, Refused, Goto
  <1>2. SelectsOK'
    BY DEF IInv, PlacesOK, SelectsOK, Refused, At, Goto, sock
  <1>3. OneOwner'
    BY DEF IInv, PlacesOK, SelectsOK, OneOwner, Refused, sock
  <1>4. DataOK'
    BY DEF IInv, DataOK, PlacesOK, Threads, Closers, Refused, At, Goto, sock, life, locks
  <1>5. Phases'
    BY DEF IInv, Phases, Connecting, Beginning, Continuing, Aborting, Cmd, Running, Closing,
      Refused, At, Goto
  <1>6. Events'
    BY DEF IInv, Events, Event, Refused, At, Goto, sock
  <1>7. Killing'
    BY DEF IInv, Killing, Refused, At, Goto, life, locks
  <1>8. \A x \in Roles : Ends(x)' <=> Ends(x)
    BY DEF Ends, Event, Refused, At, Goto, sock
  <1>9. OneEnder'
    BY <1>8, EnderStays DEF IInv, Refused
  <1> QED
    BY <1>1, <1>2, <1>3, <1>4, <1>5, <1>6, <1>7, <1>9 DEF IInv

(* A transfer that begins on a connection has its event to answer it.      *)
LEMMA TransferBeginsKeeps ==
  ASSUME IInv, NEW k \in Kinds, TransferBegins(k)
  PROVE  IInv'
  <1>0. /\ pc["cmd"] = "idle" /\ jobs' = jobs /\ file' \in BOOLEAN /\ lpSelectEvent' = lpSelectEvent
        /\ sel' = sel /\ jobs.complete # "active" /\ ~ chan.bActive /\ ~ filter /\ ~ logoff
        /\ \/ /\ chan.bInitialized /\ chan'.bActive /\ chan'.bInitialized
              /\ \/ pc' = [pc EXCEPT !["cmd"] = "begin"] /\ ret' = ret
                 \/ /\ pc' = [pc EXCEPT !["cmd"] = "close"]
                    /\ ret' = [ret EXCEPT !["cmd"] = "notBegun"]
           \/ /\ ~ chan.bInitialized /\ chan'.bActive = chan.bActive
              /\ chan'.bInitialized = chan.bInitialized
              /\ pc' = [pc EXCEPT !["cmd"] = "close"]
              /\ ret' = [ret EXCEPT !["cmd"] = "notBegun"]
        /\ chan' \in [bInitialized : BOOLEAN, bActive : BOOLEAN, bAbort : BOOLEAN,
                     dwLastError : {"ok", "error", "timeout"}, passive : BOOLEAN]
    <2>1. file' \in BOOLEAN
      BY Zenon DEF TransferBegins
    <2>2. /\ pc["cmd"] = "idle" /\ jobs' = jobs /\ lpSelectEvent' = lpSelectEvent
          /\ sel' = sel /\ jobs.complete # "active" /\ ~ chan.bActive /\ ~ filter /\ ~ logoff
          /\ \/ /\ chan.bInitialized
                /\ chan' = [chan EXCEPT !.bActive = TRUE, !.bAbort = FALSE, !.dwLastError = "ok"]
                /\ \/ pc' = [pc EXCEPT !["cmd"] = "begin"] /\ ret' = ret
                   \/ /\ pc' = [pc EXCEPT !["cmd"] = "close"]
                      /\ ret' = [ret EXCEPT !["cmd"] = "notBegun"]
             \/ /\ ~ chan.bInitialized /\ chan' = [chan EXCEPT !.dwLastError = "error"]
                /\ pc' = [pc EXCEPT !["cmd"] = "close"]
                /\ ret' = [ret EXCEPT !["cmd"] = "notBegun"]
      BY DEF TransferBegins, Takes, CallClose, At, Goto, sock
    <2> QED
      BY <2>1, <2>2 DEF IInv, DataOK
  <1>1. PlacesOK'
    BY DEF IInv, PlacesOK, Threads, Closing, TransferBegins, Goto, CallClose
  <1>2. SelectsOK'
    BY DEF IInv, PlacesOK, SelectsOK, Threads, TransferBegins, Takes, Goto, CallClose, sock, At
  <1>3. OneOwner'
    BY DEF IInv, PlacesOK, SelectsOK, OneOwner, TransferBegins, Takes, sock
  <1>4. DataOK'
    BY <1>0 DEF IInv, DataOK
  <1>5. Phases'
    BY <1>0 DEF IInv, PlacesOK, DataOK, Phases, Connecting, Beginning, Continuing, Aborting, Cmd,
      Running, Closing, Threads
  <1>6. Events'
    BY <1>0 DEF IInv, PlacesOK, DataOK, Phases, Events, Event, Killing, Closers, Threads
  <1>7. Killing'
    BY DEF IInv, PlacesOK, Killing, Threads, TransferBegins, Takes, Goto, CallClose
  <1>8. \A x \in Roles : Ends(x)' <=> Ends(x)
    BY DEF IInv, PlacesOK, Ends, Event, Threads, TransferBegins, Takes, Goto, CallClose, sock, At
  <1>9. OneEnder'
    BY <1>8, EnderStays DEF IInv, TransferBegins, Takes
  <1> QED
    BY <1>1, <1>2, <1>3, <1>4, <1>5, <1>6, <1>7, <1>9 DEF IInv

(* A transfer that cannot begin releases what it took.                     *)
LEMMA NotBegunKeeps ==
  ASSUME IInv, NotBegun
  PROVE  IInv'
  <1>1. PlacesOK'
    BY DEF IInv, PlacesOK, NotBegun, Goto
  <1>2. SelectsOK'
    BY DEF IInv, SelectsOK, NotBegun, At, Goto, sock
  <1>3. OneOwner'
    BY DEF IInv, PlacesOK, SelectsOK, OneOwner, NotBegun, sock
  <1>4. DataOK'
    BY DEF IInv, DataOK, PlacesOK, Threads, Closers, NotBegun, At, Counted, Goto, sock, life,
      locks
  <1>5. Phases'
    BY DEF IInv, PlacesOK, DataOK, Phases, Connecting, Unbegun, Beginning, Continuing, Aborting,
      Cmd, Running, Closing, NotBegun, At, Goto
  <1>6. Events'
    BY DEF IInv, Events, Event, NotBegun, At, Goto, sock
  <1>7. Killing'
    BY DEF IInv, Killing, NotBegun, At, Goto, life, locks
  <1>8. \A x \in Roles : Ends(x)' <=> Ends(x)
    BY DEF Ends, Event, NotBegun, At, Goto, sock
  <1>9. OneEnder'
    BY <1>8, EnderStays DEF IInv, NotBegun
  <1> QED
    BY <1>1, <1>2, <1>3, <1>4, <1>5, <1>6, <1>7, <1>9 DEF IInv

(* Job 201 is added: the event is the one that will end it.                *)
LEMMA BeginTransferKeeps ==
  ASSUME IInv, BeginTransfer
  PROVE  IInv'
  <1>1. PlacesOK'
    BY DEF IInv, PlacesOK, Threads, Closing, BeginTransfer, CallClose, Goto
  <1>2. SelectsOK'
    BY DEF IInv, PlacesOK, SelectsOK, Threads, BeginTransfer, At, CallClose, Goto, sock
  <1>3. OneOwner'
    BY DEF IInv, PlacesOK, SelectsOK, OneOwner, BeginTransfer, sock
  <1>4. DataOK'
    BY DEF IInv, DataOK, PlacesOK, Threads, Closers, BeginTransfer, At, CallClose, Goto, sock,
      life, locks
  <1>5. Phases'
    BY DEF IInv, PlacesOK, DataOK, Phases, Connecting, Unbegun, Beginning, Continuing, Aborting,
      Cmd, Running, Closing, Threads, BeginTransfer, At, CallClose, Goto, sock
  <1>6. Events'
    BY DEF IInv, PlacesOK, SelectsOK, DataOK, Events, Closers, Threads, BeginTransfer, At,
      CallClose, Goto, sock
  <1>7. Killing'
    BY DEF IInv, PlacesOK, Killing, Threads, BeginTransfer, At, CallClose, Goto, life
  <1>9. OneEnder'
    <2>1. CASE filter
      <3>1. jobs' = jobs /\ \A x \in Roles : Ends(x)' <=> Ends(x)
        BY <2>1 DEF IInv, PlacesOK, Ends, Event, Threads, BeginTransfer, At, Goto, CallClose, sock
      <3> QED
        BY <3>1, EnderStays DEF IInv, BeginTransfer
    <2>2. CASE ~ filter
      <3>1. /\ jobs'.transfer /\ ~ jobs.transfer /\ procs' = procs /\ Event
            /\ \A x \in Roles : Ends(x)' <=> Ends(x)
        BY <2>2 DEF IInv, PlacesOK, DataOK, Phases, Events, Beginning, Cmd, Running, Ends, Event,
          Threads, BeginTransfer, At, Goto, sock
      <3>2. Ends("event")' /\ \A y \in Roles \ {"event"} : ~ Ends(y)'
        BY <3>1 DEF IInv, OneEnder, Ends, Roles
      <3> QED
        BY <3>1, <3>2 DEF IInv, OneEnder, Roles
    <2> QED
      BY <2>1, <2>2
  <1> QED
    BY <1>1, <1>2, <1>3, <1>4, <1>5, <1>6, <1>7, <1>9 DEF IInv

(* The command asks for the event: it takes the object if it was signalled, *)
(* or leaves it to whoever signals it.                                     *)
LEMMA ContinueSelectKeeps ==
  ASSUME IInv, ContinueSelect
  PROVE  IInv'
  <1>0. SelectsOK' /\ OneOwner'
    <2>1. pc["cmd"] = "continue" /\ started' = started /\ timer' = timer
      BY DEF ContinueSelect, At
    <2>2. pc'["timer"] = pc["timer"] /\ "cmd" \in Threads
      BY DEF IInv, PlacesOK, Threads, ContinueSelect, Goto
    <2>3. CASE ~ Event
      BY <2>3 DEF IInv, PlacesOK, SelectsOK, OneOwner, Event, Threads, ContinueSelect, At, Goto
    <2>4. CASE Event /\ sel[lpSelectEvent].set
      <3>1. PICK i \in Selects : i = lpSelectEvent
        BY <2>4 DEF IInv, SelectsOK, Event
      <3>2. PICK s : s = [sel[i] EXCEPT !.listed = FALSE]
        OBVIOUS
      <3>3. s \in Objects /\ s.state = sel[i].state /\ ~ s.listed
        BY <3>2 DEF IInv, SelectsOK, Objects
      <3>4. /\ sel' = [sel EXCEPT ![i] = s] /\ lpSelectEvent' = NoSelect
            /\ own' = [own EXCEPT !["cmd"] = i] /\ pc' = [pc EXCEPT !["cmd"] = "answer"]
        BY <2>4, <3>1, <3>2 DEF ContinueSelect, Unlink, Goto, Event
      <3> QED
        BY <2>1, <2>2, <2>4, <3>1, <3>3, <3>4, Take DEF IInv, SelectsOK
    <2>5. CASE Event /\ ~ sel[lpSelectEvent].set
      <3>1. PICK i \in Selects : i = lpSelectEvent
        BY <2>5 DEF IInv, SelectsOK, Event
      <3>2. PICK s : s = [sel[i] EXCEPT !.continue = TRUE]
        OBVIOUS
      <3>3. s \in Objects /\ s.state = sel[i].state
        BY <3>2 DEF IInv, SelectsOK, Objects
      <3>4. /\ sel' = [sel EXCEPT ![i].continue = TRUE] /\ lpSelectEvent' = lpSelectEvent
            /\ own' = own /\ pc' = [pc EXCEPT !["cmd"] = "add203"]
        BY <2>5, <3>1 DEF ContinueSelect, Goto, Event
      <3>5. sel' = [sel EXCEPT ![i] = s]
        BY <3>2, <3>4 DEF IInv, SelectsOK
      <3>6. /\ pc'["cmd"] # "register"
            /\ \A t \in Threads : pc'[t] \in {"stop", "answer"} <=> pc[t] \in {"stop", "answer"}
        BY <2>1, <3>4 DEF IInv, PlacesOK, Threads
      <3>7. /\ timer' \in [Selects -> {"none", "wait", "active", "answering", "inactive", "freed"}]
            /\ \A j \in Selects : timer'[j] = "answering" =>
                 /\ pc'["timer"] = "answer"
                 /\ \A k \in Selects \ {j} : timer'[k] # "answering"
        BY <2>1, <2>2 DEF IInv, SelectsOK
      <3>8. pc["cmd"] = "register" => ~ Event
        BY <2>1
      <3> QED
        BY <2>1, <2>5, <3>1, <3>3, <3>4, <3>5, <3>6, <3>7, <3>8, Mark DEF IInv
    <2> QED
      BY <2>3, <2>4, <2>5
  <1>1. PlacesOK'
    BY DEF IInv, PlacesOK, Threads, Closing, ContinueSelect, Goto
  <1>2. SelectsOK'
    BY <1>0
  <1>3. OneOwner'
    BY <1>0
  <1>4. DataOK'
    BY DEF IInv, DataOK, ContinueSelect
  <1>5. Phases'
    BY DEF IInv, PlacesOK, Phases, Connecting, Unbegun, Beginning, Continuing, Aborting, Cmd,
      Running, Closing, Threads, ContinueSelect, At, NoSelect, Goto, Unlink
  <1>6. Events'
    BY DEF IInv, PlacesOK, Events, Event, Closers, Threads, ContinueSelect, At, Goto
  <1>7. Killing'
    BY DEF IInv, PlacesOK, Killing, Threads, ContinueSelect, At, Goto, life, locks
  <1>9. OneEnder'
    <2>1. CASE Event /\ sel[lpSelectEvent].set
      <3>1. /\ Ends("event") /\ ~ Ends("event")' /\ Ends("cmd")'
            /\ \A z \in Roles \ {"event", "cmd"} : Ends(z)' <=> Ends(z)
        BY <2>1 DEF IInv, PlacesOK, Ends, Event, Threads, ContinueSelect, Goto, Unlink
      <3>2. /\ jobs'.transfer = jobs.transfer /\ procs' \subseteq {"start", "cancel"} /\ jobs.transfer
        BY <2>1 DEF IInv, Events, OneEnder, ContinueSelect, At
      <3> QED
        BY <3>1, <3>2, EnderPasses DEF IInv, Roles
    <2>2. CASE ~ (Event /\ sel[lpSelectEvent].set)
      <3>1. \A x \in Roles : Ends(x)' <=> Ends(x)
        BY <2>2 DEF IInv, PlacesOK, Ends, Event, Threads, ContinueSelect, At, Goto
      <3> QED
        BY <3>1, EnderStays DEF IInv, ContinueSelect
    <2> QED
      BY <2>1, <2>2
  <1> QED
    BY <1>1, <1>2, <1>3, <1>4, <1>5, <1>6, <1>7, <1>9 DEF IInv

(* Job 203 is added after job 201.                                         *)
LEMMA AddCompleteKeeps ==
  ASSUME IInv, AddComplete
  PROVE  IInv'
  <1>1. PlacesOK'
    BY DEF IInv, PlacesOK, AddComplete, Goto
  <1>2. SelectsOK'
    BY DEF IInv, PlacesOK, SelectsOK, AddComplete, At, Goto, sock
  <1>3. OneOwner'
    BY DEF IInv, PlacesOK, SelectsOK, OneOwner, AddComplete, sock
  <1>4. DataOK'
    BY DEF IInv, DataOK, AddComplete
  <1>5. Phases'
    BY DEF IInv, PlacesOK, DataOK, Phases, Connecting, Unbegun, Beginning, Continuing, Cmd,
      Closing, Threads, AddComplete, At, Goto
  <1>6. Events'
    BY DEF IInv, Events, Event, AddComplete, At, Goto, sock
  <1>7. Killing'
    BY DEF IInv, Killing, AddComplete, At, Goto, life
  <1>8. \A x \in Roles : Ends(x)' <=> Ends(x)
    BY DEF Ends, Event, AddComplete, At, Goto, sock
  <1>9. OneEnder'
    BY <1>8, EnderStays DEF IInv, AddComplete
  <1> QED
    BY <1>1, <1>2, <1>3, <1>4, <1>5, <1>6, <1>7, <1>9 DEF IInv

-------------------------------------------------------------------------------
(* The transfer.                                                           *)

(* A worker takes over from the proc that was queued.                      *)
LEMMA RunProcKeeps ==
  ASSUME IInv, NEW t \in {"start", "cancel"}, RunProc(t)
  PROVE  IInv'
  <1>1. PlacesOK'
    BY DEF IInv, PlacesOK, RunProc, Goto
  <1>2. SelectsOK'
    BY DEF IInv, PlacesOK, SelectsOK, RunProc, Goto, sock
  <1>3. OneOwner'
    BY DEF IInv, PlacesOK, SelectsOK, OneOwner, RunProc, sock
  <1>4. DataOK'
    BY DEF IInv, DataOK, RunProc
  <1>5. Phases'
    BY DEF IInv, Phases, Connecting, Unbegun, Beginning, Continuing, Aborting, Cmd, Running,
      RunProc, Goto
  <1>6. Events'
    BY DEF IInv, Events, Event, RunProc, Goto, sock
  <1>7. Killing'
    BY DEF IInv, Killing, Running, Event, RunProc, Goto, sock, life, locks
  <1>8. /\ Ends(Queued(t)) /\ ~ Ends(Queued(t))' /\ Ends(t)'
        /\ \A z \in Roles \ {Queued(t), t} : Ends(z)' <=> Ends(z)
    BY DEF IInv, PlacesOK, Ends, Event, Threads, Queued, RunProc, Goto, sock
  <1>9. OneEnder'
    <2>1. jobs'.transfer = jobs.transfer /\ procs' \subseteq {"start", "cancel"}
      BY DEF IInv, OneEnder, RunProc
    <2>2. Queued(t) \in Roles /\ t \in Roles /\ Queued(t) # t /\ Queued(t) # "event"
      BY DEF Roles, Queued
    <2> QED
      BY <1>8, <2>1, <2>2, EnderPasses DEF IInv
  <1> QED
    BY <1>1, <1>2, <1>3, <1>4, <1>5, <1>6, <1>7, <1>9 DEF IInv

(* The transfer starts, or fails, in the thread that was to start it.      *)
LEMMA DataStartKeeps ==
  ASSUME IInv, NEW t \in {"cmd", "start", "cancel"}, DataStart(t)
  PROVE  IInv'
  <1>1. PlacesOK'
    BY DEF IInv, PlacesOK, Threads, DataStart, At, Goto
  <1>2. SelectsOK'
    BY DEF IInv, PlacesOK, SelectsOK, Threads, DataStart, At, Goto
  <1>3. OneOwner'
    BY DEF IInv, PlacesOK, OneOwner, DataStart
  <1>4. DataOK'
    BY DEF IInv, DataOK, DataStart
  <1>5. Phases'
    BY DEF IInv, PlacesOK, DataOK, Phases, Connecting, Unbegun, Beginning, Continuing, Aborting,
      Cmd, Running, Closing, Threads, DataStart, At, INVALID_SOCKET, Goto, life
  <1>6. Events'
    BY DEF IInv, PlacesOK, SelectsOK, DataOK, Events, Event, Closers, Threads, DataStart, At, Goto
  <1>7. Killing'
    BY DEF IInv, PlacesOK, Killing, Running, Event, Threads, DataStart, At, Goto, life
  <1>8. \A x \in Roles : Ends(x)' <=> Ends(x)
    BY DEF IInv, PlacesOK, Ends, Event, Threads, DataStart, At, Goto
  <1>9. OneEnder'
    BY <1>8, EnderStays DEF IInv, DataStart
  <1> QED
    BY <1>1, <1>2, <1>3, <1>4, <1>5, <1>6, <1>7, <1>9 DEF IInv

(* FTP_Data_Start leaves the rest of the transfer to its transmission.     *)
LEMMA TransmitKeeps ==
  ASSUME IInv, NEW t \in {"cmd", "start", "cancel"}, Transmit(t)
  PROVE  IInv'
  <1>1. PlacesOK'
    BY DEF IInv, PlacesOK, Threads, Transmit
  <1>2. SelectsOK'
    BY DEF IInv, PlacesOK, SelectsOK, Threads, Transmit, At, sock
  <1>3. OneOwner'
    BY DEF IInv, PlacesOK, SelectsOK, OneOwner, Transmit, sock
  <1>4. DataOK'
    BY DEF IInv, DataOK, Transmit
  <1>5. Phases'
    BY DEF IInv, PlacesOK, DataOK, Phases, Connecting, Unbegun, Beginning, Continuing, Aborting,
      Cmd, Running, Closing, Threads, Transmit, At
  <1>6. Events'
    BY DEF IInv, PlacesOK, Phases, Events, Event, Killing, Aborting, Unbegun, Beginning, Cmd,
      CancelsOnly, Closers, Threads, NoSelect, Transmit, At, sock, life
  <1>7. Killing'
    BY DEF IInv, PlacesOK, Killing, Running, Event, Threads, Transmit, sock, life
  <1>8. /\ Ends(t) /\ ~ Ends(t)' /\ Ends("io")'
        /\ \A z \in Roles \ {t, "io"} : Ends(z)' <=> Ends(z)
    BY DEF IInv, PlacesOK, Ends, Event, Threads, Transmit, At, sock
  <1>9. OneEnder'
    <2>1. jobs'.transfer = jobs.transfer /\ procs' \subseteq {"start", "cancel"}
      BY DEF IInv, OneEnder, Transmit
    <2>2. t \in Roles /\ "io" \in Roles /\ t # "io" /\ t # "event"
      BY DEF Roles
    <2> QED
      BY <1>8, <2>1, <2>2, EnderPasses DEF IInv
  <1> QED
    BY <1>1, <1>2, <1>3, <1>4, <1>5, <1>6, <1>7, <1>9 DEF IInv

(* The transmission ends.                                                  *)
LEMMA TransmittedKeeps ==
  ASSUME IInv, Transmitted
  PROVE  IInv'
  <1>1. PlacesOK'
    BY DEF IInv, PlacesOK, Transmitted, Goto
  <1>2. SelectsOK'
    BY DEF IInv, SelectsOK, Transmitted, At, Goto, sock
  <1>3. OneOwner'
    BY DEF IInv, PlacesOK, SelectsOK, OneOwner, Transmitted, sock
  <1>4. DataOK'
    BY DEF IInv, DataOK, Transmitted
  <1>5. Phases'
    BY DEF IInv, PlacesOK, DataOK, Phases, Connecting, Unbegun, Beginning, Continuing, Aborting,
      Cmd, Running, Transmitted, Goto
  <1>6. Events'
    BY DEF IInv, Events, Event, Transmitted, Goto, sock
  <1>7. Killing'
    BY DEF IInv, Killing, Running, Event, Transmitted, Goto, sock, life, locks
  <1>8. \A x \in Roles : Ends(x)' <=> Ends(x)
    BY DEF Ends, Event, Transmitted, At, Goto, sock
  <1>9. OneEnder'
    BY <1>8, EnderStays DEF IInv, Transmitted
  <1> QED
    BY <1>1, <1>2, <1>3, <1>4, <1>5, <1>6, <1>7, <1>9 DEF IInv

(* Job 201 ends: nobody is left who would end it.                          *)
LEMMA EndTransferJobKeeps ==
  ASSUME IInv, NEW t \in {"cmd", "start", "cancel", "io"}, EndTransferJob(t)
  PROVE  IInv'
  <1>0. /\ ~ Event /\ pc' = [pc EXCEPT ![t] = "idle"] /\ pc[t] = "end201"
        /\ UNCHANGED <<ret, chan, lpSelectEvent, sel>> /\ jobs'.complete = jobs.complete
    <2>1. t \in Roles /\ t # "event" /\ Ends(t)
      BY DEF Roles, Ends, EndTransferJob, At
    <2>2. ~ Ends("event")
      BY <2>1, OnlyEnder DEF IInv, Roles
    <2> QED
      BY <2>2 DEF Ends, EndTransferJob, At, Goto, sock
  <1>1. PlacesOK'
    BY DEF IInv, PlacesOK, EndTransferJob, Goto
  <1>2. SelectsOK'
    BY DEF IInv, PlacesOK, SelectsOK, EndTransferJob, At, Goto, sock
  <1>3. OneOwner'
    BY DEF IInv, PlacesOK, SelectsOK, OneOwner, EndTransferJob, sock
  <1>4. DataOK'
    BY DEF IInv, DataOK, PlacesOK, Threads, Closers, EndTransferJob, At, Goto, sock, life, locks
  <1>5. Phases'
    BY DEF IInv, Phases, Connecting, Unbegun, Beginning, Continuing, Aborting, Cmd, Running,
      Closing, EndTransferJob, At, Goto
  <1>6. Events'
    BY <1>0 DEF IInv, Phases, Events, Event, Aborting, Cmd
  <1>7. Killing'
    BY DEF IInv, Killing, Running, Event, EndTransferJob, Goto, sock, life
  <1>9. OneEnder'
    <2>1. t \in Roles /\ t # "event" /\ Ends(t)
      BY DEF Roles, Ends, EndTransferJob, At
    <2>2. \A y \in Roles \ {t} : ~ Ends(y)
      BY <2>1, OnlyEnder DEF IInv
    <2>3. \A y \in Roles : ~ Ends(y)'
      BY <2>1, <2>2 DEF IInv, PlacesOK, Ends, Event, Threads, EndTransferJob, Goto, sock
    <2>4. ~ jobs'.transfer /\ procs' \subseteq {"start", "cancel"}
      BY DEF IInv, DataOK, OneEnder, EndTransferJob
    <2> QED
      BY <2>3, <2>4 DEF OneEnder
  <1> QED
    BY <1>1, <1>2, <1>3, <1>4, <1>5, <1>6, <1>7, <1>9 DEF IInv

(* Job 203 starts once job 201 has ended.                                  *)
LEMMA TransferCompleteKeeps ==
  ASSUME IInv, TransferComplete
  PROVE  IInv'
  <1>1. PlacesOK'
    BY DEF IInv, PlacesOK, Closing, TransferComplete, CallClose, Goto
  <1>2. SelectsOK'
    BY DEF IInv, SelectsOK, TransferComplete, At, CallClose, sock, Goto
  <1>3. OneOwner'
    BY DEF IInv, PlacesOK, SelectsOK, OneOwner, TransferComplete, sock
  <1>4. DataOK'
    BY DEF IInv, DataOK, TransferComplete
  <1>5. Phases'
    BY DEF IInv, PlacesOK, Phases, Connecting, Unbegun, Beginning, Continuing, Aborting, Cmd,
      Running, Closing, Threads, TransferComplete, At, CallClose, Goto
  <1>6. Events'
    BY DEF IInv, Events, Event, TransferComplete, CallClose, sock, Goto
  <1>7. Killing'
    BY DEF IInv, Killing, Running, TransferComplete, CallClose, life, Goto
  <1>8. \A x \in Roles : Ends(x)' <=> Ends(x)
    BY DEF Ends, Event, TransferComplete, CallClose, sock, Goto
  <1>9. OneEnder'
    BY <1>8, EnderStays DEF IInv, TransferComplete
  <1> QED
    BY <1>1, <1>2, <1>3, <1>4, <1>5, <1>6, <1>7, <1>9 DEF IInv

(* The proc of job 203 releases the file and the transfer.                 *)
LEMMA DataCloseKeeps ==
  ASSUME IInv, DataClose
  PROVE  IInv'
  <1>1. PlacesOK'
    BY DEF IInv, PlacesOK, Threads, Closing, DataClose, Goto
  <1>2. SelectsOK'
    BY DEF IInv, PlacesOK, SelectsOK, DataClose, At, Goto, sock
  <1>3. OneOwner'
    BY DEF IInv, PlacesOK, SelectsOK, OneOwner, DataClose, sock
  <1>4. DataOK'
    BY DEF IInv, DataOK, PlacesOK, Threads, Closers, DataClose, At, Counted, Goto, sock, life
  <1>5. Phases'
    BY DEF IInv, PlacesOK, DataOK, Phases, Connecting, Unbegun, Beginning, Continuing, Aborting,
      Cmd, Running, DataClose, At, Goto
  <1>6. Events'
    BY DEF IInv, PlacesOK, Phases, Events, Event, Killing, Connecting, Continuing, Aborting,
      Unbegun, Beginning, Cmd, Running, Closing, DataClose, At, Counted, Goto, sock, life
  <1>7. Killing'
    BY DEF IInv, Phases, Killing, Running, DataClose, At, Goto, life
  <1>8. \A x \in Roles : Ends(x)' <=> Ends(x)
    BY DEF Roles, Ends, Event, Closing, DataClose, Goto, sock
  <1>9. OneEnder'
    BY <1>8, EnderStays DEF IInv, DataClose
  <1> QED
    BY <1>1, <1>2, <1>3, <1>4, <1>5, <1>6, <1>7, <1>9 DEF IInv

(* Job 203 ends with the connection closed.                                *)
LEMMA EndCompleteJobKeeps ==
  ASSUME IInv, EndCompleteJob
  PROVE  IInv'
  <1>1. PlacesOK'
    BY DEF IInv, PlacesOK, Closing, EndCompleteJob, Goto
  <1>2. SelectsOK'
    BY DEF IInv, PlacesOK, SelectsOK, EndCompleteJob, At, Goto, sock
  <1>3. OneOwner'
    BY DEF IInv, PlacesOK, SelectsOK, OneOwner, EndCompleteJob, sock
  <1>4. DataOK'
    BY DEF IInv, DataOK, EndCompleteJob
  <1>5. Phases'
    BY DEF IInv, PlacesOK, DataOK, Phases, Connecting, Unbegun, Beginning, Continuing, Aborting,
      Cmd, Running, Threads, EndCompleteJob, At, Goto
  <1>6. Events'
    BY DEF IInv, Phases, Events, Event, EndCompleteJob, At, Goto, sock
  <1>7. Killing'
    BY DEF IInv, Phases, Killing, Running, EndCompleteJob, At, Goto, life
  <1>8. \A x \in Roles : Ends(x)' <=> Ends(x)
    BY DEF Ends, Event, EndCompleteJob, Goto, sock
  <1>9. OneEnder'
    BY <1>8, EnderStays DEF IInv, EndCompleteJob
  <1> QED
    BY <1>1, <1>2, <1>3, <1>4, <1>5, <1>6, <1>7, <1>9 DEF IInv

-------------------------------------------------------------------------------
(* ABOR, QUIT, a kill and the end of the client.                           *)

(* ABOR finds the transfer active, with job 203 waiting.                   *)
LEMMA TransferAbortKeeps ==
  ASSUME IInv, TransferAbort
  PROVE  IInv'
  <1>1. PlacesOK'
    BY DEF IInv, PlacesOK, Closing, TransferAbort, CallClose, Goto
  <1>2. SelectsOK'
    BY DEF IInv, SelectsOK, TransferAbort, Takes, CallClose, sock, At, Goto
  <1>3. OneOwner'
    BY DEF IInv, PlacesOK, SelectsOK, OneOwner, TransferAbort, Takes, sock
  <1>4. DataOK'
    BY DEF IInv, DataOK, PlacesOK, Threads, Closers, TransferAbort, Takes, CallClose, sock, At,
      Goto
  <1>5. Phases'
    BY DEF IInv, PlacesOK, DataOK, Phases, Connecting, Unbegun, Beginning, Continuing, Cmd,
      Running, Closing, TransferAbort, Takes, CallClose, sock, At, Goto
  <1>6. Events'
    BY DEF IInv, Events, Event, TransferAbort, Takes, CallClose, sock, At, Goto
  <1>7. Killing'
    BY DEF IInv, Killing, TransferAbort, Takes, CallClose, Goto
  <1>8. \A x \in Roles : Ends(x)' <=> Ends(x)
    BY DEF Ends, Event, TransferAbort, Takes, CallClose, sock, At, Goto
  <1>9. OneEnder'
    BY <1>8, EnderStays DEF IInv, TransferAbort, Takes
  <1> QED
    BY <1>1, <1>2, <1>3, <1>4, <1>5, <1>6, <1>7, <1>9 DEF IInv

(* If ABOR took the event, it answers it itself.                           *)
LEMMA AbortedKeeps ==
  ASSUME IInv, Aborted
  PROVE  IInv'
  <1>1. PlacesOK'
    BY DEF IInv, PlacesOK, Threads, Aborted, Goto
  <1>2. SelectsOK'
    BY DEF IInv, PlacesOK, SelectsOK, Threads, Aborted, Goto, sock
  <1>3. OneOwner'
    BY DEF IInv, PlacesOK, SelectsOK, OneOwner, Aborted, sock
  <1>4. DataOK'
    BY DEF IInv, DataOK, Aborted
  <1>5. Phases'
    BY DEF IInv, PlacesOK, DataOK, Phases, Connecting, Unbegun, Beginning, Continuing, Aborting,
      Cmd, Closing, Threads, Aborted, Goto
  <1>6. Events'
    BY DEF IInv, PlacesOK, DataOK, Phases, Events, Event, Killing, Aborting, Unbegun, Beginning,
      Cmd, CancelsOnly, Closers, Threads, NoSelect, Aborted, At, Goto, sock
  <1>7. Killing'
    BY DEF IInv, PlacesOK, Killing, Threads, Aborted, Goto, life
  <1>8. \A x \in Roles : Ends(x)' <=> Ends(x)
    BY DEF IInv, PlacesOK, Ends, Event, Threads, Aborted, At, Goto, sock
  <1>9. OneEnder'
    BY <1>8, EnderStays DEF IInv, Aborted
  <1> QED
    BY <1>1, <1>2, <1>3, <1>4, <1>5, <1>6, <1>7, <1>9 DEF IInv

(* QUIT leaves the transfer alone.                                         *)
LEMMA QuitKeeps ==
  ASSUME IInv, Quit
  PROVE  IInv'
  <1>1. PlacesOK'
    BY DEF IInv, PlacesOK, Quit
  <1>2. SelectsOK'
    BY DEF IInv, SelectsOK, Quit, Takes, sock
  <1>3. OneOwner'
    BY DEF IInv, PlacesOK, SelectsOK, OneOwner, Quit, Takes, sock
  <1>4. DataOK'
    BY DEF IInv, DataOK, Quit, Takes
  <1>5. Phases'
    BY DEF IInv, Phases, Connecting, Unbegun, Beginning, Continuing, Aborting, Cmd, Running, Quit,
      Takes
  <1>6. Events'
    BY DEF IInv, Events, Event, Quit, Takes, sock
  <1>7. Killing'
    BY DEF IInv, Killing, Quit, Takes
  <1>8. \A x \in Roles : Ends(x)' <=> Ends(x)
    BY DEF Roles, Ends, Event, Quit, Takes, sock
  <1>9. OneEnder'
    BY <1>8, EnderStays DEF IInv, Quit, Takes
  <1> QED
    BY <1>1, <1>2, <1>3, <1>4, <1>5, <1>6, <1>7, <1>9 DEF IInv

(* A kill begins with the lock of the client.                              *)
LEMMA KillUserKeeps ==
  ASSUME IInv, KillUser
  PROVE  IInv'
  <1>1. PlacesOK'
    BY DEF IInv, PlacesOK, KillUser, Goto
  <1>2. SelectsOK'
    BY DEF IInv, PlacesOK, SelectsOK, Closers, KillUser, At, Goto, sock
  <1>3. OneOwner'
    BY DEF IInv, PlacesOK, SelectsOK, OneOwner, KillUser, sock
  <1>4. DataOK'
    BY DEF IInv, DataOK, KillUser
  <1>5. Phases'
    BY DEF IInv, Phases, Connecting, Unbegun, Beginning, Continuing, Aborting, Cmd, Running,
      KillUser, Goto
  <1>6. Events'
    BY DEF IInv, Events, Event, KillUser, Goto, sock
  <1>7. Killing'
    BY DEF IInv, Killing, Running, Event, Closing, KillUser, Goto, sock, life
  <1>8. \A x \in Roles : Ends(x)' <=> Ends(x)
    BY DEF Ends, Event, KillUser, At, Goto, sock
  <1>9. OneEnder'
    BY <1>8, EnderStays DEF IInv, KillUser
  <1> QED
    BY <1>1, <1>2, <1>3, <1>4, <1>5, <1>6, <1>7, <1>9 DEF IInv

(* KillUser keeps job 201 while it closes the socket.                      *)
LEMMA SetJobFilterKeeps ==
  ASSUME IInv, SetJobFilter
  PROVE  IInv'
  <1>1. PlacesOK'
    BY DEF IInv, PlacesOK, Threads, Closing, SetJobFilter, CallClose, Goto
  <1>2. SelectsOK'
    BY DEF IInv, PlacesOK, SelectsOK, Threads, SetJobFilter, At, CallClose, Goto, sock
  <1>3. OneOwner'
    BY DEF IInv, PlacesOK, SelectsOK, OneOwner, SetJobFilter, sock
  <1>4. DataOK'
    BY DEF IInv, DataOK, SetJobFilter, Filter
  <1>5. Phases'
    BY DEF IInv, PlacesOK, Phases, Connecting, Unbegun, Beginning, Continuing, Aborting, Cmd,
      Running, Closing, Threads, SetJobFilter, At, CallClose, Filter, Goto
  <1>6. Events'
    BY DEF IInv, PlacesOK, Events, Event, Closers, Threads, SetJobFilter, CallClose, Filter, Goto,
      sock
  <1>7. Killing'
    BY DEF IInv, PlacesOK, Killing, Running, Event, Closing, Threads, SetJobFilter, CallClose,
      Filter, Goto, sock
  <1>8. \A x \in Roles : Ends(x)' <=> Ends(x)
    BY DEF IInv, PlacesOK, Ends, Event, Threads, SetJobFilter, At, CallClose, Goto, sock
  <1>9. OneEnder'
    BY <1>8, EnderStays DEF IInv, SetJobFilter, Filter
  <1> QED
    BY <1>1, <1>2, <1>3, <1>4, <1>5, <1>6, <1>7, <1>9 DEF IInv

(* If KillUser took the event, it queues the proc that ends the job.       *)
LEMMA CancelledKeeps ==
  ASSUME IInv, Cancelled
  PROVE  IInv'
  <1>1. PlacesOK'
    BY DEF IInv, PlacesOK, Cancelled, Goto
  <1>2. SelectsOK'
    BY DEF IInv, PlacesOK, SelectsOK, Cancelled, Goto, sock
  <1>3. OneOwner'
    BY DEF IInv, PlacesOK, SelectsOK, OneOwner, Cancelled, sock
  <1>4. DataOK'
    BY DEF IInv, DataOK, Cancelled, CancelData, Filter
  <1>5. Phases'
    BY DEF IInv, DataOK, Phases, Connecting, Unbegun, Beginning, Continuing, Aborting, Cmd,
      Running, Closing, Cancelled, CancelData, At, Filter, Goto, sock
  <1>6. Events'
    BY DEF IInv, DataOK, Events, Event, Cancelled, CancelData, Filter, Goto, sock
  <1>7. Killing'
    BY DEF IInv, PlacesOK, Killing, Running, Closing, Threads, Cancelled, Goto
  <1>9. OneEnder'
    <2>1. CASE At("killer", "cancelled")
      <3>1. /\ Ends("killer") /\ ~ Ends("killer")' /\ Ends("queuedCancel")'
            /\ \A z \in Roles \ {"killer", "queuedCancel"} : Ends(z)' <=> Ends(z)
        BY <2>1 DEF IInv, PlacesOK, Ends, Event, Threads, Cancelled, CancelData, At, Goto, sock
      <3>2. /\ jobs'.transfer = jobs.transfer /\ procs' \subseteq {"start", "cancel"}
        BY <2>1 DEF IInv, OneEnder, Cancelled, CancelData, Filter
      <3> QED
        BY <3>1, <3>2, EnderPasses DEF IInv, Roles
    <2>2. CASE ~ At("killer", "cancelled")
      <3>1. jobs' = jobs /\ procs' = procs /\ \A x \in Roles : Ends(x)' <=> Ends(x)
        BY <2>2 DEF Ends, Event, Cancelled, CancelData, Filter, At, Goto, sock
      <3> QED
        BY <3>1, EnderStays DEF IInv
    <2> QED
      BY <2>1, <2>2
  <1> QED
    BY <1>1, <1>2, <1>3, <1>4, <1>5, <1>6, <1>7, <1>9 DEF IInv

(* The killer releases the lock of the client and is done.                 *)
LEMMA UnlockClientKeeps ==
  ASSUME IInv, UnlockClient
  PROVE  IInv'
  <1>1. PlacesOK'
    BY DEF IInv, PlacesOK, UnlockClient, Goto
  <1>2. SelectsOK'
    BY DEF IInv, PlacesOK, SelectsOK, Closers, UnlockClient, At, Goto, sock
  <1>3. OneOwner'
    BY DEF IInv, PlacesOK, SelectsOK, OneOwner, UnlockClient, sock
  <1>4. DataOK'
    BY DEF IInv, DataOK, UnlockClient
  <1>5. Phases'
    BY DEF IInv, Phases, Connecting, Unbegun, Beginning, Continuing, Aborting, Cmd, Running,
      UnlockClient, Goto
  <1>6. Events'
    BY DEF IInv, Events, Event, UnlockClient, Goto, sock
  <1>7. Killing'
    BY DEF IInv, Killing, Running, Event, Closing, UnlockClient, Goto, sock, life
  <1>8. \A x \in Roles : Ends(x)' <=> Ends(x)
    BY DEF Ends, Event, UnlockClient, At, Goto, sock
  <1>9. OneEnder'
    BY <1>8, EnderStays DEF IInv, UnlockClient
  <1> QED
    BY <1>1, <1>2, <1>3, <1>4, <1>5, <1>6, <1>7, <1>9 DEF IInv

(* The client is closed once no job is left.                               *)
LEMMA CloseConnectionKeeps ==
  ASSUME IInv, CloseConnection
  PROVE  IInv'
  <1>1. PlacesOK'
    BY DEF IInv, PlacesOK, Closing, CloseConnection, CallClose, Goto
  <1>2. SelectsOK'
    BY DEF IInv, SelectsOK, CloseConnection, At, CallClose, sock, Goto
  <1>3. OneOwner'
    BY DEF IInv, PlacesOK, SelectsOK, OneOwner, CloseConnection, sock
  <1>4. DataOK'
    BY DEF IInv, DataOK, CloseConnection
  <1>5. Phases'
    BY DEF IInv, Phases, Beginning, Continuing, Aborting, Cmd, Running, CloseConnection, At,
      CallClose, Goto
  <1>6. Events'
    BY DEF IInv, Events, Event, CloseConnection, At, CallClose, sock, Goto
  <1>7. Killing'
    BY DEF IInv, Killing, Running, CloseConnection, At, CallClose, life, Goto
  <1>8. \A x \in Roles : Ends(x)' <=> Ends(x)
    BY DEF Ends, Event, CloseConnection, CallClose, sock, Goto
  <1>9. OneEnder'
    BY <1>8, EnderStays DEF IInv, CloseConnection
  <1> QED
    BY <1>1, <1>2, <1>3, <1>4, <1>5, <1>6, <1>7, <1>9 DEF IInv

(* A client is deleted with no event left.                                 *)
LEMMA DeletedKeeps ==
  ASSUME IInv, Deleted
  PROVE  IInv'
  <1>1. PlacesOK'
    BY DEF IInv, PlacesOK, Closing, Deleted, Goto
  <1>2. SelectsOK'
    BY DEF IInv, PlacesOK, SelectsOK, Closers, Deleted, At, Goto, sock
  <1>3. OneOwner'
    BY DEF IInv, PlacesOK, SelectsOK, OneOwner, Deleted, sock
  <1>4. DataOK'
    BY DEF IInv, DataOK, Deleted
  <1>5. Phases'
    BY DEF IInv, Phases, Connecting, Unbegun, Beginning, Continuing, Aborting, Cmd, Running,
      Deleted, Goto
  <1>6. Events'
    BY DEF IInv, Events, Event, Deleted, Goto, sock
  <1>7. Killing'
    BY DEF IInv, PlacesOK, Killing, Running, Event, Threads, Deleted, At, Goto, sock
  <1>8. \A x \in Roles : Ends(x)' <=> Ends(x)
    BY DEF Ends, Event, Deleted, Goto, sock
  <1>9. OneEnder'
    BY <1>8, EnderStays DEF IInv, Deleted
  <1> QED
    BY <1>1, <1>2, <1>3, <1>4, <1>5, <1>6, <1>7, <1>9 DEF IInv

-------------------------------------------------------------------------------
(* The sections that cancel and close, and the events.                     *)

(* Whoever closes the socket takes the event, and with it the end of the   *)
(* transfer if there is one.                                               *)
LEMMA CloseKeeps ==
  ASSUME IInv, NEW t \in Closers, Close(t)
  PROVE  IInv'
  <1>0. SelectsOK' /\ OneOwner'
    <2>1. /\ pc[t] = "close" /\ started' = started /\ timer' = timer /\ t \in Threads
          /\ own' = [own EXCEPT ![t] = lpSelectEvent]
      BY DEF Close, At, Closers, Threads
    <2>2. CASE ~ Event
      <3>1. own[t] = NoSelect
        BY <2>1 DEF IInv, SelectsOK
      <3>2. own' = own
        BY <2>1, <2>2, <3>1 DEF IInv, SelectsOK, Event
      <3>3. sel' = sel /\ lpSelectEvent' = lpSelectEvent /\ pc' = [pc EXCEPT ![t] = Shut(t)]
        BY <2>2 DEF Close, Event, Goto
      <3>4. Shut(t) \in {"again", "add203", "shut"}
        BY DEF Shut, CancelsOnly
      <3>5. \A u \in Threads : pc'[u] \in {"stop", "answer"} <=> pc[u] \in {"stop", "answer"}
        BY <2>1, <3>3, <3>4 DEF IInv, PlacesOK, Threads
      <3>6. pc'["timer"] = pc["timer"] /\ (pc'["cmd"] = "register" => pc["cmd"] = "register")
        BY <2>1, <3>3, <3>4 DEF IInv, PlacesOK, Threads, Closers
      <3> QED
        BY <2>1, <3>2, <3>3, <3>5, <3>6 DEF IInv, SelectsOK, OneOwner
    <2>3. CASE Event
      <3>1. PICK i \in Selects : i = lpSelectEvent
        BY <2>3 DEF IInv, SelectsOK, Event
      <3>2. PICK s : s = [sel[i] EXCEPT !.listed = FALSE]
        OBVIOUS
      <3>3. s \in Objects /\ s.state = sel[i].state /\ ~ s.listed
        BY <3>2 DEF IInv, SelectsOK, Objects
      <3>4. /\ sel' = [sel EXCEPT ![i] = s] /\ lpSelectEvent' = NoSelect
            /\ pc' = [pc EXCEPT ![t] = "stop"]
        BY <2>3, <3>1, <3>2 DEF Close, Unlink, Goto, Event
      <3>5. pc'["timer"] = pc["timer"]
        BY <3>4 DEF IInv, PlacesOK, Threads, Closers
      <3>6. pc["cmd"] = "register" => ~ Event
        BY DEF IInv, Events
      <3> QED
        BY <2>1, <2>3, <3>1, <3>3, <3>4, <3>5, <3>6, Take DEF IInv, SelectsOK
    <2> QED
      BY <2>2, <2>3
  <1>1. PlacesOK'
    BY DEF IInv, PlacesOK, Threads, Closing, Close, At, Noted, Goto, Shut
  <1>2. SelectsOK'
    BY <1>0
  <1>3. OneOwner'
    BY <1>0
  <1>4. DataOK'
    BY DEF IInv, DataOK, Close
  <1>5. Phases'
    BY DEF IInv, PlacesOK, Phases, Connecting, Unbegun, Beginning, Continuing, Aborting, Cmd,
      Running, Closing, Threads, Close, At, NoSelect, Unlink, Noted, Goto, Shut
  <1>6. Events'
    BY DEF IInv, PlacesOK, Phases, Events, Event, Killing, Connecting, Continuing, Beginning, Cmd,
      Running, Closing, CancelsOnly, Closers, Threads, NoSelect, Close, At, Unlink, Noted, Goto,
      Shut
  <1>7. Killing'
    BY DEF IInv, PlacesOK, Killing, Running, Event, Threads, Close, At, Goto, life
  <1>9. OneEnder'
    <2>1. CASE ~ Event
      <3>1. \A x \in Roles : Ends(x)' <=> Ends(x)
        BY <2>1 DEF IInv, PlacesOK, Ends, Event, Threads, Close, At, Goto, Shut
      <3> QED
        BY <3>1, EnderStays DEF IInv, Close
    <2>2. CASE Event /\ ret[t] \in {"notAborted", "notCancelled"}
      <3>1. /\ t \in {"cmd", "killer"} /\ Ends("event") /\ ~ Ends("event")' /\ Ends(t)'
            /\ \A z \in Roles \ {"event", t} : Ends(z)' <=> Ends(z)
        BY <2>2 DEF IInv, PlacesOK, Ends, Event, Threads, Closers, Close, At, Goto, Unlink, Noted
      <3>2. jobs.transfer
        BY <2>2, <3>1 DEF IInv, PlacesOK, Events, Killing, Phases, Aborting, Cmd, Close, At
      <3>3. procs' = procs /\ jobs' = jobs /\ procs \subseteq {"start", "cancel"}
        BY DEF IInv, OneEnder, Close
      <3> QED
        BY <3>1, <3>2, <3>3, EnderPasses DEF IInv, Roles
    <2>3. CASE Event /\ ret[t] \notin {"notAborted", "notCancelled"}
      <3>1. \A x \in Roles \ {"event"} : Ends(x)' <=> Ends(x)
        BY <2>3 DEF IInv, PlacesOK, Ends, Event, Threads, Close, At, Goto, Noted
      <3>2. ~ jobs.transfer
        BY <2>3 DEF IInv, PlacesOK, Killing, Phases, Connecting, Unbegun, Beginning, Continuing,
          Aborting, Running, Cmd, Closing, Closers, Close, At
      <3> QED
        BY <3>1, <3>2, NoneToEnd DEF IInv, Close
    <2> QED
      BY <2>1, <2>2, <2>3
  <1> QED
    BY <1>1, <1>2, <1>3, <1>4, <1>5, <1>6, <1>7, <1>9 DEF IInv

(* Only the owner of an object frees it.                                   *)
LEMMA StopTimerKeeps ==
  ASSUME IInv, NEW t \in Closers, StopTimer(t)
  PROVE  IInv'
  <1>1. PlacesOK'
    BY DEF IInv, PlacesOK, Threads, Closing, StopTimer, At, Goto, Shut
  <1>2. SelectsOK'
    BY DEF IInv, PlacesOK, SelectsOK, OneOwner, Objects, Threads, Selects, NoSelect, Closing,
      CancelsOnly, Closers, StopTimer, At, Stopped, Goto, Shut, life, locks
  <1>3. OneOwner'
    BY DEF IInv, PlacesOK, SelectsOK, OneOwner, Threads, Closers, StopTimer
  <1>4. DataOK'
    BY DEF IInv, DataOK, StopTimer
  <1>5. Phases'
    BY DEF IInv, PlacesOK, DataOK, Phases, Connecting, Unbegun, Beginning, Continuing, Aborting,
      Cmd, Running, StopTimer, At, Goto, Shut
  <1>6. Events'
    BY DEF IInv, Events, Event, CancelsOnly, StopTimer, At, Goto, Shut
  <1>7. Killing'
    BY DEF IInv, PlacesOK, Killing, Running, Event, CancelsOnly, Closers, Threads, StopTimer, At,
      Stopped, NoSelect, Goto, Shut, life, locks
  <1>8. \A x \in Roles : Ends(x)' <=> Ends(x)
    BY DEF Ends, Event, CancelsOnly, StopTimer, At, Goto, Shut
  <1>9. OneEnder'
    BY <1>8, EnderStays DEF IInv, StopTimer
  <1> QED
    BY <1>1, <1>2, <1>3, <1>4, <1>5, <1>6, <1>7, <1>9 DEF IInv

(* The socket is closed after its event was taken.                         *)
LEMMA CloseHandleKeeps ==
  ASSUME IInv, NEW t \in Closers, CloseHandle(t)
  PROVE  IInv'
  <1>1. PlacesOK'
    BY DEF IInv, PlacesOK, Threads, CloseHandle, At, Goto
  <1>2. SelectsOK'
    BY DEF IInv, PlacesOK, SelectsOK, Closers, CloseHandle, At, Goto
  <1>3. OneOwner'
    BY DEF IInv, PlacesOK, OneOwner, CloseHandle
  <1>4. DataOK'
    BY DEF IInv, DataOK, CloseHandle
  <1>5. Phases'
    BY DEF IInv, PlacesOK, DataOK, Phases, Connecting, Unbegun, Beginning, Continuing, Aborting,
      Cmd, Running, CloseHandle, At, Goto
  <1>6. Events'
    BY DEF IInv, PlacesOK, Events, Event, CloseHandle, At, Goto
  <1>7. Killing'
    BY DEF IInv, Killing, Running, Event, Events, Closing, CloseHandle, At, Goto, life
  <1>8. \A x \in Roles : Ends(x)' <=> Ends(x)
    BY DEF IInv, PlacesOK, Ends, Event, CloseHandle, At, Goto
  <1>9. OneEnder'
    BY <1>8, EnderStays DEF IInv, CloseHandle
  <1> QED
    BY <1>1, <1>2, <1>3, <1>4, <1>5, <1>6, <1>7, <1>9 DEF IInv

(* The command that took the object to answer it queues FTP_Data_Start.    *)
LEMMA CommandAnswersKeeps ==
  ASSUME IInv, Answer("cmd", "add203")
  PROVE  IInv'
  <1>0. /\ own["cmd"] \in Selects /\ pc["cmd"] = "answer"
        /\ chan' \in [bInitialized : BOOLEAN, bActive : BOOLEAN, bAbort : BOOLEAN,
                     dwLastError : {"ok", "error", "timeout"}, passive : BOOLEAN]
        /\ chan'.bInitialized = chan.bInitialized /\ chan'.bActive = chan.bActive
        /\ jobs' = jobs /\ file' = file /\ ret' = ret /\ procs' = procs \cup {"start"}
        /\ pc' = [pc EXCEPT !["cmd"] = "add203"] /\ lpSelectEvent' = lpSelectEvent
        /\ \A i \in Selects : sel'[i].continue = sel[i].continue
    <2>1. own["cmd"] \in Selects /\ pc["cmd"] = "answer"
      BY DEF IInv, SelectsOK, Threads, Answer, At
    <2>2. sel[own["cmd"]].result \in {"ok", "timeout"}
      BY <2>1 DEF IInv, SelectsOK, Objects
    <2>3. /\ chan' = [chan EXCEPT !.dwLastError = sel[own["cmd"]].result] /\ jobs' = jobs
          /\ file' = file /\ ret' = ret /\ procs' = procs \cup {"start"}
          /\ pc' = [pc EXCEPT !["cmd"] = "add203"]
          /\ lpSelectEvent' = lpSelectEvent /\ sel' = [sel EXCEPT ![own["cmd"]].state = "freed"]
      BY DEF Answer, At, Goto
    <2>4. \A i \in Selects : sel'[i].continue = sel[i].continue
      BY <2>1, <2>3 DEF IInv, SelectsOK, Objects
    <2> QED
      BY <2>1, <2>2, <2>3, <2>4 DEF IInv, DataOK
  <1>1. PlacesOK'
    BY DEF IInv, PlacesOK, Answer, Goto
  <1>2. SelectsOK'
    BY DEF IInv, PlacesOK, SelectsOK, OneOwner, Objects, Threads, Answer, At, Goto
  <1>3. OneOwner'
    BY DEF IInv, PlacesOK, SelectsOK, OneOwner, Threads, Answer
  <1>4. DataOK'
    BY <1>0 DEF IInv, DataOK
  <1>5. Phases'
    BY <1>0 DEF IInv, Phases, Connecting, Unbegun, Beginning, Continuing, Aborting, Cmd, Closing
  <1>6. Events'
    <2>1. jobs.transfer
      BY <1>0, OnlyEnder DEF IInv, Roles, Ends
    <2> QED
      BY <1>0, <2>1 DEF IInv, PlacesOK, Events, Event
  <1>7. Killing'
    BY DEF IInv, Killing, Answer, At, Goto, life, locks
  <1>8. /\ Ends("cmd") /\ ~ Ends("cmd")' /\ Ends("queuedStart")'
        /\ \A z \in Roles \ {"cmd", "queuedStart"} : Ends(z)' <=> Ends(z)
    BY <1>0 DEF IInv, PlacesOK, Roles, Ends, Event, Threads
  <1>9. OneEnder'
    <2>1. jobs'.transfer = jobs.transfer /\ procs' \subseteq {"start", "cancel"}
      BY DEF IInv, OneEnder, Answer
    <2>2. "cmd" \in Roles /\ "queuedStart" \in Roles /\ "cmd" # "queuedStart" /\ "cmd" # "event"
      BY DEF Roles
    <2> QED
      BY <1>8, <2>1, <2>2, EnderPasses DEF IInv
  <1> QED
    BY <1>1, <1>2, <1>3, <1>4, <1>5, <1>6, <1>7, <1>9 DEF IInv

(* The window that took the object to answer it queues FTP_Data_Start.     *)
LEMMA WindowAnswersKeeps ==
  ASSUME IInv, Answer("window", "idle")
  PROVE  IInv'
  <1>0. /\ own["window"] \in Selects /\ pc["window"] = "answer"
        /\ chan' \in [bInitialized : BOOLEAN, bActive : BOOLEAN, bAbort : BOOLEAN,
                     dwLastError : {"ok", "error", "timeout"}, passive : BOOLEAN]
        /\ chan'.bInitialized = chan.bInitialized /\ chan'.bActive = chan.bActive
        /\ jobs' = jobs /\ file' = file /\ ret' = ret /\ procs' = procs \cup {"start"}
        /\ pc' = [pc EXCEPT !["window"] = "idle"] /\ lpSelectEvent' = lpSelectEvent
        /\ \A i \in Selects : sel'[i].continue = sel[i].continue
    <2>1. own["window"] \in Selects /\ pc["window"] = "answer"
      BY DEF IInv, SelectsOK, Threads, Answer, At
    <2>2. sel[own["window"]].result \in {"ok", "timeout"}
      BY <2>1 DEF IInv, SelectsOK, Objects
    <2>3. /\ chan' = [chan EXCEPT !.dwLastError = sel[own["window"]].result] /\ jobs' = jobs
          /\ file' = file /\ ret' = ret /\ procs' = procs \cup {"start"}
          /\ pc' = [pc EXCEPT !["window"] = "idle"]
          /\ lpSelectEvent' = lpSelectEvent /\ sel' = [sel EXCEPT ![own["window"]].state = "freed"]
      BY DEF Answer, At, Goto
    <2>4. \A i \in Selects : sel'[i].continue = sel[i].continue
      BY <2>1, <2>3 DEF IInv, SelectsOK, Objects
    <2> QED
      BY <2>1, <2>2, <2>3, <2>4 DEF IInv, DataOK
  <1>1. PlacesOK'
    BY DEF IInv, PlacesOK, Answer, Goto
  <1>2. SelectsOK'
    BY DEF IInv, PlacesOK, SelectsOK, OneOwner, Objects, Threads, Answer, At, Goto
  <1>3. OneOwner'
    BY DEF IInv, PlacesOK, SelectsOK, OneOwner, Threads, Answer
  <1>4. DataOK'
    BY <1>0 DEF IInv, DataOK
  <1>5. Phases'
    BY <1>0 DEF IInv, Phases, Connecting, Unbegun, Beginning, Continuing, Aborting, Cmd, Running
  <1>6. Events'
    BY <1>0 DEF IInv, PlacesOK, SelectsOK, DataOK, Events, Event
  <1>7. Killing'
    BY DEF IInv, Killing, Running, Event, Answer, Goto, life, locks
  <1>8. /\ Ends("window") /\ ~ Ends("window")' /\ Ends("queuedStart")'
        /\ \A z \in Roles \ {"window", "queuedStart"} : Ends(z)' <=> Ends(z)
    BY <1>0 DEF IInv, PlacesOK, Roles, Ends, Event, Threads
  <1>9. OneEnder'
    <2>1. jobs'.transfer = jobs.transfer /\ procs' \subseteq {"start", "cancel"}
      BY DEF IInv, OneEnder, Answer
    <2>2. "window" \in Roles /\ "queuedStart" \in Roles /\ "window" # "queuedStart" /\ "window" # "event"
      BY DEF Roles
    <2> QED
      BY <1>8, <2>1, <2>2, EnderPasses DEF IInv
  <1> QED
    BY <1>1, <1>2, <1>3, <1>4, <1>5, <1>6, <1>7, <1>9 DEF IInv

(* The timer that took the object to answer it queues FTP_Data_Start.      *)
LEMMA TimerAnswersKeeps ==
  ASSUME IInv, NEW i \in Selects, TimerAnswers(i)
  PROVE  IInv'
  <1>0. /\ own["timer"] \in Selects /\ pc["timer"] = "answer"
        /\ chan' \in [bInitialized : BOOLEAN, bActive : BOOLEAN, bAbort : BOOLEAN,
                     dwLastError : {"ok", "error", "timeout"}, passive : BOOLEAN]
        /\ chan'.bInitialized = chan.bInitialized /\ chan'.bActive = chan.bActive
        /\ jobs' = jobs /\ file' = file /\ ret' = ret /\ procs' = procs \cup {"start"}
        /\ pc' = [pc EXCEPT !["timer"] = "idle"] /\ lpSelectEvent' = lpSelectEvent
        /\ \A j \in Selects : sel'[j].continue = sel[j].continue
    <2>1. own["timer"] \in Selects /\ pc["timer"] = "answer"
      BY DEF IInv, SelectsOK, Threads, TimerAnswers
    <2>2. sel[own["timer"]].result \in {"ok", "timeout"}
      BY <2>1 DEF IInv, SelectsOK, Objects
    <2>3. /\ chan' = [chan EXCEPT !.dwLastError = sel[own["timer"]].result] /\ jobs' = jobs
          /\ file' = file /\ ret' = ret /\ procs' = procs \cup {"start"}
          /\ pc' = [pc EXCEPT !["timer"] = "idle"]
          /\ lpSelectEvent' = lpSelectEvent /\ sel' = [sel EXCEPT ![own["timer"]].state = "freed"]
      BY DEF TimerAnswers, Goto
    <2>4. \A j \in Selects : sel'[j].continue = sel[j].continue
      BY <2>1, <2>3 DEF IInv, SelectsOK, Objects
    <2> QED
      BY <2>1, <2>2, <2>3, <2>4 DEF IInv, DataOK
  <1>1. PlacesOK'
    BY DEF IInv, PlacesOK, TimerAnswers, Goto
  <1>2. SelectsOK'
    BY DEF IInv, PlacesOK, SelectsOK, OneOwner, Objects, Threads, Selects, NoSelect, Closing,
      CancelsOnly, Closers, TimerAnswers, Goto, life, locks
  <1>3. OneOwner'
    BY DEF IInv, PlacesOK, SelectsOK, OneOwner, Threads, TimerAnswers
  <1>4. DataOK'
    BY <1>0 DEF IInv, DataOK
  <1>5. Phases'
    BY <1>0 DEF IInv, Phases, Connecting, Unbegun, Beginning, Continuing, Aborting, Cmd, Running
  <1>6. Events'
    BY <1>0 DEF IInv, PlacesOK, SelectsOK, DataOK, Events, Event
  <1>7. Killing'
    BY DEF IInv, Killing, Running, Event, TimerAnswers, Goto, life, locks
  <1>8. /\ Ends("timer") /\ ~ Ends("timer")' /\ Ends("queuedStart")'
        /\ \A z \in Roles \ {"timer", "queuedStart"} : Ends(z)' <=> Ends(z)
    BY <1>0 DEF IInv, PlacesOK, Roles, Ends, Event, Threads
  <1>9. OneEnder'
    <2>1. jobs'.transfer = jobs.transfer /\ procs' \subseteq {"start", "cancel"}
      BY DEF IInv, OneEnder, TimerAnswers
    <2>2. "timer" \in Roles /\ "queuedStart" \in Roles /\ "timer" # "queuedStart" /\ "timer" # "event"
      BY DEF Roles
    <2> QED
      BY <1>8, <2>1, <2>2, EnderPasses DEF IInv
  <1> QED
    BY <1>1, <1>2, <1>3, <1>4, <1>5, <1>6, <1>7, <1>9 DEF IInv

(* The system posts an event.                                              *)
LEMMA PeerEventKeeps ==
  ASSUME IInv, PeerEvent
  PROVE  IInv'
  <1>1. PlacesOK'
    BY DEF IInv, PlacesOK, PeerEvent
  <1>2. SelectsOK'
    BY DEF IInv, SelectsOK, PeerEvent
  <1>3. OneOwner'
    BY DEF IInv, PlacesOK, OneOwner, PeerEvent
  <1>4. DataOK'
    BY DEF IInv, DataOK, PeerEvent
  <1>5. Phases'
    BY DEF IInv, Phases, Connecting, Unbegun, Beginning, Continuing, Aborting, Cmd, Running,
      PeerEvent
  <1>6. Events'
    BY DEF IInv, PlacesOK, Phases, Events, Event, PeerEvent
  <1>7. Killing'
    BY DEF IInv, Killing, Running, Event, PeerEvent, life, locks
  <1>8. \A x \in Roles : Ends(x)' <=> Ends(x)
    BY DEF Roles, Ends, Event, PeerEvent
  <1>9. OneEnder'
    BY <1>8, EnderStays DEF IInv, PeerEvent
  <1> QED
    BY <1>1, <1>2, <1>3, <1>4, <1>5, <1>6, <1>7, <1>9 DEF IInv

(* A time-out begins.                                                      *)
LEMMA ExpireKeeps ==
  ASSUME IInv, NEW i \in Selects, Expire(i)
  PROVE  IInv'
  <1>1. PlacesOK'
    BY DEF IInv, PlacesOK, Expire
  <1>2. SelectsOK'
    BY DEF IInv, SelectsOK, Expire
  <1>3. OneOwner'
    BY DEF IInv, PlacesOK, OneOwner, Expire
  <1>4. DataOK'
    BY DEF IInv, DataOK, Expire
  <1>5. Phases'
    BY DEF IInv, Phases, Connecting, Unbegun, Beginning, Continuing, Aborting, Cmd, Running,
      Expire
  <1>6. Events'
    BY DEF IInv, PlacesOK, Phases, Events, Event, Expire
  <1>7. Killing'
    BY DEF IInv, Killing, Running, Event, Expire, life, locks
  <1>8. \A x \in Roles : Ends(x)' <=> Ends(x)
    BY DEF Ends, Event, Expire
  <1>9. OneEnder'
    BY <1>8, EnderStays DEF IInv, Expire, life, locks
  <1> QED
    BY <1>1, <1>2, <1>3, <1>4, <1>5, <1>6, <1>7, <1>9 DEF IInv
-------------------------------------------------------------------------------
(* The theorems.                                                           *)

(* At the start nobody owns an object, and there is no transfer to end.    *)
LEMMA InitIInv == Init => IInv
  <1> SUFFICES ASSUME Init PROVE IInv
    OBVIOUS
  <1>1. PlacesOK
    BY DEF Init, PlacesOK, Threads, Closing
  <1>2. SelectsOK /\ OneOwner
    BY BoundsAssumption DEF Init, SelectsOK, OneOwner, Objects, Threads
  <1>3. DataOK
    BY DEF Init, DataOK
  <1>4. Phases
    BY DEF Init, Phases, Beginning, Continuing, Aborting, Cmd, Running, Threads
  <1>5. Events /\ Killing
    BY DEF Init, Events, Event, Killing, Threads, Closing
  <1>6. OneEnder
    BY DEF Init, OneEnder, Ends, Threads
  <1> QED
    BY <1>1, <1>2, <1>3, <1>4, <1>5, <1>6 DEF IInv

(* Every step keeps the invariant.                                         *)
LEMMA NextIInv == IInv /\ [Next]_vars => IInv'
  <1> SUFFICES ASSUME IInv, [Next]_vars PROVE IInv'
    OBVIOUS
  <1>1. ASSUME Commands PROVE IInv'
    BY <1>1, ConnectionKeeps, TransferAbortKeeps, QuitKeeps, TransferRefusedKeeps, TransferBeginsKeeps
      DEF Commands, TransferActive, TransferPassive
  <1>2. ASSUME NEW t \in Closers, Step(t) PROVE IInv'
    BY <1>2, CloseKeeps, StopTimerKeeps, CloseHandleKeeps DEF Step
  <1>3. ASSUME CommandStep PROVE IInv'
    BY <1>2, <1>3, CommandAnswersKeeps, OpenSocketKeeps, StartTimerKeeps, RegisterKeeps, ConnectKeeps,
      ConnectAgainKeeps, ConnectionFailedKeeps, RefusedKeeps, NotBegunKeeps, BeginTransferKeeps,
      ContinueSelectKeeps, AddCompleteKeeps, AbortedKeeps, DataStartKeeps, TransmitKeeps,
      EndTransferJobKeeps DEF CommandStep, Closers
  <1>4. ASSUME NEW t \in {"start", "cancel"}, WorkerStep(t) PROVE IInv'
    BY <1>4, RunProcKeeps, DataStartKeeps, TransmitKeeps, EndTransferJobKeeps DEF WorkerStep
  <1>5. ASSUME CompleteStep PROVE IInv'
    BY <1>2, <1>5, TransferCompleteKeeps, DataCloseKeeps, EndCompleteJobKeeps DEF CompleteStep,
      Closers
  <1>6. ASSUME KillerStep PROVE IInv'
    BY <1>2, <1>6, SetJobFilterKeeps, CancelledKeeps, UnlockClientKeeps DEF KillerStep, Closers
  <1>7. ASSUME CloserStep PROVE IInv'
    BY <1>2, <1>7, CloseConnectionKeeps, DeletedKeeps DEF CloserStep, Closers
  <1>8. ASSUME WindowStep PROVE IInv'
    BY <1>8, WindowAnswersKeeps, AsyncSelectProcKeeps DEF WindowStep
  <1>9. ASSUME NEW i \in Selects, TimerStep(i) PROVE IInv'
    BY <1>9, ExpireKeeps, TimerProcKeeps, TimerAnswersKeeps DEF TimerStep
  <1>10. CASE UNCHANGED vars
    <2>1. PlacesOK' /\ DataOK' /\ Phases'
      BY <1>10 DEF IInv, PlacesOK, DataOK, Phases, Connecting, Unbegun, Beginning, Continuing,
        Aborting, Cmd, Running, vars
    <2>2. SelectsOK' /\ OneOwner'
      BY <1>10 DEF IInv, SelectsOK, OneOwner, vars, sock
    <2>3. Events' /\ Killing'
      BY <1>10 DEF IInv, Events, Event, Killing, Running, vars, sock, life, locks
    <2>4. OneEnder'
      BY <1>10 DEF IInv, OneEnder, Ends, Event, vars, sock
    <2> QED
      BY <2>1, <2>2, <2>3, <2>4 DEF IInv
  <1> QED
    BY <1>1, <1>3, <1>4, <1>5, <1>6, <1>7, <1>8, <1>9, <1>10, KillUserKeeps, PeerEventKeeps,
      TransmittedKeeps, EndTransferJobKeeps DEF Next

(* The invariant holds in every reachable state.                           *)
LEMMA IInvKept == Spec => []IInv
  BY InitIInv, NextIInv, PTL DEF Spec

(* The role under which a thread or a queued proc stands among Enders.     *)
Name(x) == CASE x = "queuedStart" -> "start" [] x = "queuedCancel" -> "cancel" [] OTHER -> x

(* Enders are those that may end the transfer, by name.                    *)
LEMMA EndersAreRoles ==
  ASSUME PlacesOK, procs \subseteq {"start", "cancel"}
  PROVE  Enders = {Name(x) : x \in {y \in Roles : Ends(y)}}
  <1>1. ASSUME NEW e \in Enders
        PROVE  \E x \in Roles : Ends(x) /\ Name(x) = e
    <2>1. CASE e = "event" /\ Event
      BY <2>1 DEF Roles, Ends, Name
    <2>2. CASE e \in procs
      BY <2>2 DEF Roles, Ends, Name
    <2>3. CASE e \in {"start", "cancel", "io"} /\ pc[e] # "idle"
      BY <2>3 DEF Roles, Ends, Name
    <2>4. CASE e \in {"window", "timer"} /\ pc[e] = "answer"
      BY <2>4 DEF Roles, Ends, Name
    <2>5. CASE e \in {"cmd", "killer"} /\ Ends(e)
      BY <2>5 DEF Roles, Name
    <2> QED
      BY <1>1, <2>1, <2>2, <2>3, <2>4, <2>5 DEF Enders, Ends, Event
  <1>2. ASSUME NEW x \in Roles, Ends(x)
        PROVE  Name(x) \in Enders
    BY <1>2 DEF Ends, Name, Enders, Event
  <1> QED
    BY <1>1, <1>2

(* One ender by role is one in Enders.                                     *)
LEMMA AnsweredByOne ==
  ASSUME IInv PROVE AnsweredOnce
  <1>1. Enders = {Name(x) : x \in {y \in Roles : Ends(y)}}
    BY EndersAreRoles DEF IInv, OneEnder
  <1>2. ASSUME jobs.transfer
        PROVE  Cardinality(Enders) = 1
    <2>1. PICK x \in Roles : Ends(x) /\ \A y \in Roles \ {x} : ~ Ends(y)
      BY <1>2 DEF IInv, OneEnder
    <2>2. Enders = {Name(x)}
      BY <1>1, <2>1
    <2> QED
      BY <2>2, FS_Singleton
  <1>3. ASSUME ~ jobs.transfer
        PROVE  Enders \subseteq {"event"}
    BY <1>1, <1>3 DEF IInv, OneEnder, Name
  <1> QED
    BY <1>2, <1>3 DEF AnsweredOnce

(* However the event, its time-out, ABOR, a kill and the transfer meet,    *)
(* a select object has one owner and is never reached once freed, and      *)
(* exactly one of them starts or ends the transfer.                        *)
THEOREM TransferOwned == Spec => []TransferHasOneOwner
  <1>1. IInv => TransferHasOneOwner
    BY AnsweredByOne DEF IInv, TransferHasOneOwner
  <1> QED
    BY <1>1, IInvKept, PTL

(* The file, its lock and the transfer are released before another command *)
(* runs and before the client is freed.                                    *)
THEOREM TransferReleased == Spec => []Released
  <1>1. ASSUME IInv PROVE Released
    <2>1. (file \/ chan.bActive) =>
            jobs.transfer \/ jobs.complete # "none" \/ pc["cmd"] # "idle"
      BY <1>1 DEF IInv, Phases
    <2>2. ASSUME closed
          PROVE  ~ file /\ ~ chan.bActive /\ Enders = {}
      <3>1. pc["cmd"] = "idle" /\ ~ Running /\ ~ Event
        BY <1>1, <2>2 DEF IInv, Killing
      <3>2. ~ file /\ ~ chan.bActive
        BY <1>1, <3>1 DEF IInv, Phases, Running
      <3>4. \A x \in Roles : ~ Ends(x)
        BY <1>1, <3>1 DEF IInv, OneEnder, Running, Ends
      <3>5. Enders = {Name(x) : x \in {y \in Roles : Ends(y)}}
        BY <1>1, EndersAreRoles DEF IInv, OneEnder
      <3> QED
        BY <3>2, <3>4, <3>5
    <2> QED
      BY <2>1, <2>2 DEF Released
  <1> QED
    BY <1>1, IInvKept, PTL
===============================================================================
