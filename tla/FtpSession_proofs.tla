------------------------- MODULE FtpSession_proofs -------------------------
(***************************************************************************)
(* FtpSession for any number of commands: one buffer, one input job and    *)
(* one timer suffice (ConnectionInv).  No lock says who may format a       *)
(* reply or ask for a line; the right to do so is handed on, from proc to  *)
(* send to callback to proc, and stands for an active job.  The invariant  *)
(* says for every job who holds its right, and which rights the classes    *)
(* keep apart.                                                             *)
(***************************************************************************)
EXTENDS FtpSession, ClientJobs_proofs

-------------------------------------------------------------------------------
(* The inductive invariant.                                                *)

Active  == KindsOf(active)
Waiting == KindsOf(pending)

\* The jobs that may have to wait, and what a thread may have left to do.
Waiters   == {Command, TimedOut, Complete}
StopOf(i) == [id |-> "stop", timer |-> i]
Stops     == {StopOf(i) : i \in Timers}
Errands   == Waiters \cup {Close} \cup Stops

(* The table.  No job extends another; a timeout may wait twice, once for  *)
(* either timer.                                                           *)
TableFits ==
  /\ active \in Seq(Entry) /\ pending \in Seq(Entry)
  /\ Distinct(active)
  /\ \A i \in DOMAIN pending : OneKindOnly(pending[i])
  /\ \A i, j \in DOMAIN pending :
       pending[i].kind = pending[j].kind /\ i # j => pending[i].kind = TimedOut
  /\ Waiting \subseteq Waiters
  /\ activeFlags = UNION {k.classes : k \in Active}
  /\ filter \in {{}, ALL}

(* Where the threads are.                                                  *)
PlaceOf(t, l) ==
  \/ t = "accept"   /\ l \in {"idle", "run", "greet", "input", "recv", "handshake", "end", "done",
                              "failed", "stuck"}
  \/ t = "receive"  /\ l \in {"idle", "line", "lost", "end"}
  \/ t = "sent"     /\ l \in {"idle", "secure", "recv", "lost", "end"}
  \/ t = "command"  /\ l \in {"idle", "run", "begin", "continue", "refused", "complete", "abort",
                              "reply", "send", "input", "recv", "secure", "handshake", "end"}
  \/ t = "timedOut" /\ l \in {"idle", "run", "reply", "send", "end"}
  \/ t = "complete" /\ l \in {"idle", "run", "timer", "reply", "send", "end"}
  \/ t = "data"     /\ l = "idle"
  \/ t \in Timers \cup {"killer"}

PlacesFit ==
  /\ pc = [t \in SessionThreads |-> pc[t]]
  /\ \A t \in SessionThreads : PlaceOf(t, pc[t])

(* What a thread may be adding between the two tests of the filter.        *)
Asks(t, place, op, k) == pc[t] = place /\ call[t].id = op /\ call[t].kind = k

MayAsk(t) ==
  \/ t = "accept" /\ (Asks(t, "run", "add", Reply) \/ Asks(t, "run", "add", Secure)
                        \/ Asks(t, "input", "add", Input))
  \/ t = "receive" /\ Asks(t, "line", "add", Command)
  \/ t = "sent" /\ Asks(t, "secure", "add", Input)
  \/ t = "command" /\ (Asks(t, "begin", "add", Transfer) \/ Asks(t, "complete", "add", Complete)
                         \/ Asks(t, "reply", "addExclusive", Reply)
                         \/ Asks(t, "input", "add", Input)
                         \/ Asks(t, "secure", "addExclusive", Secure))
  \/ t \in {"timedOut", "complete"} /\ Asks(t, "reply", "addExclusive", Reply)
  \/ t \in Timers /\ Asks(t, "run", "add", TimedOut)

CallsFit ==
  /\ call \in [SessionThreads -> {None} \cup [id : {"add", "addExclusive"}, kind : SessionJobs]]
  /\ \A t \in SessionThreads : call[t] # None => MayAsk(t)

TodoFits ==
  /\ todo \in [SessionThreads -> Seq(Errands)]
  /\ \A t \in SessionThreads : \A i, j \in DOMAIN todo[t] : todo[t][i] = todo[t][j] => i = j
  /\ queued \subseteq Waiters \cup {Accept}

ChannelsFit ==
  /\ socket \in {"open", "closed"} /\ sending \in {"none", "reply", "secure", "shutdown"}
  /\ data \in {"none", "select", "waiting", "sending", "cancelled", "ended"}
  /\ receiving \in BOOLEAN /\ bActive \in BOOLEAN /\ logoff \in BOOLEAN

(* The proc of an active job is queued, about to be queued, or runs.       *)
Runs(w) == pc[w] \notin {"idle", "done"}

InHand(k) == \E t \in SessionThreads : InTodo(k, t)

OneHolder(k, w) ==
  /\ k \in Active <=> k \in queued \/ InHand(k) \/ Runs(w)
  /\ k \in queued => ~ Runs(w) /\ ~ InHand(k)
  /\ \A t \in SessionThreads : InTodo(k, t) =>
       ~ Runs(w) /\ \A u \in SessionThreads \ {t} : ~ InTodo(k, u)

ProcsHeld ==
  /\ OneHolder(Accept, "accept") /\ OneHolder(Command, "command")
  /\ OneHolder(TimedOut, "timedOut") /\ OneHolder(Complete, "complete")

(* The right to receive: with a thread about to ask for a line, with the   *)
(* line that was asked for, with the callback.                             *)
Receivers == {"accept", "sent", "command", "wire", "receive"}

Receives(t) ==
  \/ t \in {"accept", "sent", "command"} /\ pc[t] = "recv"
  \/ t = "wire" /\ receiving
  \/ t = "receive" /\ pc[t] # "idle"

InputHeld ==
  /\ Input \in Active <=> \E t \in Receivers : Receives(t)
  /\ \A t, u \in Receivers : Receives(t) /\ Receives(u) => t = u

(* The right to send, likewise.                                            *)
Senders == {"accept", "command", "timedOut", "complete", "wire", "sent"}

Sends(t) ==
  \/ t \in {"accept", "command"} /\ pc[t] \in {"greet", "send", "handshake"}
  \/ t \in {"timedOut", "complete"} /\ pc[t] = "send"
  \/ t = "wire" /\ sending # "none"
  \/ t = "sent" /\ pc[t] # "idle"

Replying == Reply \in Active \/ Secure \in Active

SendHeld ==
  /\ Replying <=> \E t \in Senders : Sends(t)
  /\ \A t, u \in Senders : Sends(t) /\ Sends(u) => t = u
  /\ (pc["accept"] = "handshake" \/ pc["command"] = "handshake" \/ sending = "secure"
        \/ pc["sent"] \in {"secure", "recv"}) => Secure \in Active

(* The transfer job, from the command that begins it to the proc that      *)
(* completes it.                                                           *)
Beginning == pc["command"] \in {"begin", "refused"}

TransferHeld ==
  /\ Beginning => Transfer \notin Active /\ data = "select"
  /\ pc["command"] = "abort" => Transfer \in Active /\ data = "none"
  /\ ~ Beginning /\ pc["command"] # "abort" => (Transfer \in Active <=> data # "none")
  /\ Beginning \/ pc["command"] \in {"continue", "complete"} => Complete \notin Waiting
  /\ ~ bActive =>
       /\ data = "none" /\ Complete \notin Waiting
       /\ ~ Beginning /\ pc["command"] \notin {"continue", "complete", "abort"}
       /\ Complete \in Active => pc["complete"] \notin {"idle", "run"}
  /\ Complete \in Active => Complete \notin Waiting /\ Transfer \notin Active

(* What the classes keep apart.                                            *)
Apart ==
  /\ Command \in Active => TimedOut \notin Active /\ Complete \notin Active
  /\ TimedOut \in Active => Complete \notin Active
  /\ Accept \in Active => Complete \notin Active
  /\ Secure \in Active => TimedOut \notin Active /\ Complete \notin Active

(* Before a proc has added its reply there is none.                        *)
Unspoken ==
  /\ Command \in Active /\ pc["command"] \notin {"send", "handshake", "input", "recv", "end"}
       => ~ Replying
  /\ TimedOut \in Active /\ pc["timedOut"] \notin {"send", "end"} => ~ Replying
  /\ Complete \in Active /\ pc["complete"] \notin {"send", "end"} => ~ Replying

(* While the client is greeted nothing else happens.                       *)
Greeting == Accept \in queued \/ pc["accept"] \in {"run", "greet", "handshake"}

GreetsAlone ==
  Greeting =>
    /\ Active \subseteq {Accept, Reply, Secure} /\ Waiting = {}
    /\ Replying => pc["accept"] \in {"greet", "handshake"}
    /\ inputTimer = "none" /\ \A i \in Timers : timers[i] = "free"

(* Who is to ask for the next line: the greeting, the end of a handshake   *)
(* or a command, and one of them only.                                     *)
GreetingReads  == Greeting \/ pc["accept"] = "input"
HandshakeReads == sending = "secure" \/ pc["sent"] = "secure"
CommandReads   == Command \in Active /\ pc["command"] \notin {"recv", "end"}

ReadsOnce ==
  /\ GreetingReads => ~ HandshakeReads /\ Input \notin Active /\ ~ CommandReads /\ Command \notin Waiting
  /\ HandshakeReads => Input \notin Active /\ ~ CommandReads /\ Command \notin Waiting
  /\ Input \in Active => ~ CommandReads /\ (Command \in Waiting => pc["receive"] = "end")
  /\ CommandReads => Command \notin Waiting
  /\ pc["receive"] = "end" => Command \in Waiting \/ filter = ALL

(* The timer of the input job, from before it is listed.                   *)
AsksInput(t) == call[t] # None /\ call[t].kind = Input
Listens == Input \in Active \/ \E t \in {"accept", "sent", "command"} : AsksInput(t)

TimersFit ==
  /\ timers \in [Timers -> {"free", "idle", "firing", "kill", "fired"}]
  /\ inputTimer \in Timers \cup {"none"}
  /\ inputTimer # "none" => Listens \/ filter = ALL
  /\ \A i \in Timers : timers[i] # "free" => (inputTimer = i /\ Listens) \/ InHand(StopOf(i))
  /\ Listens /\ ~ bActive /\ pc["complete"] # "timer" => inputTimer # "none"

(* The close of the client, after its last job.                            *)
ClosesLast ==
  /\ closes \in Nat
  /\ \A t \in SessionThreads : InTodo(Close, t) =>
       Active = {} /\ Waiting = {} /\ (Head(todo[t]) = Close \/ filter = ALL)
  /\ closes > 0 => Active = {} /\ Waiting = {}
  /\ closed => closes > 0 /\ ~ dataLock
  /\ dataLock <=> pc["killer"] \in {"locked", "unlock"}

ConnectionIInv ==
  /\ TableFits /\ PlacesFit /\ CallsFit /\ TodoFits /\ ChannelsFit
  /\ ProcsHeld /\ InputHeld /\ SendHeld /\ TransferHeld
  /\ Apart /\ Unspoken /\ GreetsAlone /\ ReadsOnce /\ TimersFit /\ ClosesLast

-------------------------------------------------------------------------------
(* The jobs of a session.                                                  *)

(* The jobs are told apart by their ids, the two replies by their classes. *)
LEMMA KindsDiffer ==
  /\ JobKinds = SessionJobs /\ Threads = SessionThreads
  /\ SessionJobs = {Accept, Input, Reply, Secure, Command, TimedOut, Transfer, Complete}
  /\ Accept # Input /\ Accept # Reply /\ Accept # Secure /\ Accept # Command
  /\ Accept # TimedOut /\ Accept # Transfer /\ Accept # Complete
  /\ Input # Reply /\ Input # Secure /\ Input # Command /\ Input # TimedOut
  /\ Input # Transfer /\ Input # Complete
  /\ Reply # Secure /\ Reply # Command /\ Reply # TimedOut /\ Reply # Transfer
  /\ Reply # Complete
  /\ Secure # Command /\ Secure # TimedOut /\ Secure # Transfer /\ Secure # Complete
  /\ Command # TimedOut /\ Command # Transfer /\ Command # Complete
  /\ TimedOut # Transfer /\ TimedOut # Complete /\ Transfer # Complete
  <1>1. /\ Accept.id = "10005" /\ Input.id = "1" /\ Reply.id = "2" /\ Secure.id = "2"
        /\ Command.id = "5" /\ TimedOut.id = "25" /\ Transfer.id = "201" /\ Complete.id = "203"
        /\ "PRIMARY" \notin Reply.classes /\ "PRIMARY" \in Secure.classes
    BY DEF Job, Accept, Input, Reply, Secure, Command, TimedOut, Transfer, Complete
  <1>2. Reply # Secure
    BY <1>1
  <1> QED
    BY <1>1, <1>2, SessionAssumption DEF SessionJobs

(* What SetJobFilter and the two tests see of a job.                       *)
LEMMA KindsAre ==
  /\ Accept.id = "10005" /\ Input.id = "1" /\ Reply.id = "2" /\ Secure.id = "2"
  /\ Command.id = "5" /\ TimedOut.id = "25" /\ Transfer.id = "201" /\ Complete.id = "203"
  /\ Input.instant /\ Reply.instant /\ Secure.instant /\ Transfer.instant
  /\ ~ Command.instant /\ ~ TimedOut.instant /\ ~ Complete.instant
  /\ ~ Input.proc /\ ~ Reply.proc /\ ~ Secure.proc /\ ~ Transfer.proc
  /\ Command.proc /\ TimedOut.proc /\ Complete.proc
  BY DEF Job, Accept, Input, Reply, Secure, Command, TimedOut, Transfer, Complete

LEMMA KindsRefused ==
  ASSUME NEW k \in SessionJobs
  PROVE  /\ k.classes \subseteq ALL /\ k.classes # {}
         /\ k.exclusive <=> k = Complete
         /\ ~ Extends(k)
  <1>1. CASE k = Complete
    BY <1>1 DEF Job, Complete, Extends, ALL
  <1>2. CASE k \in SessionJobs \ {Complete}
    <2>1. k.classes \subseteq ALL /\ k.classes # {} /\ ~ k.exclusive /\ ~ Extends(k)
      BY <1>2 DEF Job, Accept, Input, Reply, Secure, Command, TimedOut, Transfer, SessionJobs,
                  Extends, ALL
    <2> QED
      BY <1>2, <2>1
  <1> QED
    BY <1>1, <1>2

(* Jobs that share a class.                                                *)
LEMMA KindsShare ==
  ASSUME NEW k \in Waiters
  PROVE  /\ k.classes \cap Reply.classes # {} /\ k.classes \cap Secure.classes # {}
         /\ \A l \in Waiters : k.classes \cap l.classes # {}
         /\ k = Command => k.classes \cap Input.classes # {}
         /\ k = Complete => /\ k.classes \cap Transfer.classes # {}
                            /\ k.classes \cap Accept.classes # {}
  <1>1. /\ Accept.classes = {"TERTIARY"} /\ Input.classes = {"PRIMARY"} /\ Transfer.classes = {"TERTIARY"}
        /\ Complete.classes = {"SECONDARY", "TERTIARY"} /\ Command.classes = {"PRIMARY", "SECONDARY"}
    BY DEF Job, Accept, Input, Transfer, Complete, Command
  <1>2. /\ "SECONDARY" \in Reply.classes /\ "SECONDARY" \in Secure.classes
        /\ \A l \in Waiters : "SECONDARY" \in l.classes
    BY DEF Job, Reply, Secure, Command, TimedOut, Complete, Waiters
  <1> QED
    BY <1>1, <1>2

(* The marks among what a thread has to do are not jobs.                   *)
LEMMA MarksDiffer ==
  /\ Close \notin SessionJobs /\ None \notin SessionJobs /\ Close.id = "close" /\ Close # None
  /\ \A i \in Timers : /\ StopOf(i) \notin SessionJobs /\ StopOf(i) # Close
                       /\ StopOf(i).id = "stop" /\ StopOf(i).timer = i
  /\ \A i, j \in Timers : StopOf(i) = StopOf(j) => i = j
  /\ \A k \in SessionJobs : k.id # "stop" /\ k.id # "close"
  /\ \A c \in [id : {"add", "addExclusive"}, kind : SessionJobs] : c # None
  <1>1. \A k \in SessionJobs : k.id # "stop" /\ k.id # "close" /\ k.id # "none"
    BY KindsAre DEF SessionJobs
  <1>2. Close.id = "close" /\ None.id = "none" /\ \A i \in Timers : StopOf(i).id = "stop" /\ StopOf(i).timer = i
    BY DEF Close, None, StopOf
  <1>3. \A c \in [id : {"add", "addExclusive"}, kind : SessionJobs] : c # None
    BY <1>2
  <1> QED
    BY <1>1, <1>2, <1>3

(* The jobs that are active and those that wait.                           *)
LEMMA TableJobs ==
  ASSUME TableFits
  PROVE  /\ Active \subseteq SessionJobs /\ Waiting \subseteq Waiters
         /\ \A k, l \in Active : k.id = l.id => k = l
         /\ ~ (Reply \in Active /\ Secure \in Active)
  <1>1. Active \subseteq SessionJobs /\ Waiting \subseteq Waiters
    BY NoKinds, KindsDiffer DEF TableFits, Active
  <1>2. \A k, l \in Active : k.id = l.id => k = l
    BY DEF TableFits, Active, KindsOf, Distinct
  <1> QED
    BY <1>1, <1>2, KindsAre, KindsDiffer

(* A job is refused when the filter is set, unless it is exclusive.        *)
LEMMA RefusedMeans ==
  ASSUME filter \in {{}, ALL}, NEW k \in SessionJobs
  PROVE  Refused(k) <=> filter = ALL /\ k # Complete
  <1>1. k.classes \cap ALL # {}
    BY KindsRefused
  <1>2. ALL # {} /\ k.classes \cap {} = {}
    BY DEF ALL
  <1> QED
    BY <1>1, <1>2, KindsRefused DEF Refused

(* A job may start when it is INSTANT or shares no class with an active    *)
(* one.                                                                    *)
LEMMA MayStartMeans ==
  ASSUME TableFits, NEW k
  PROVE  MayStart(k) <=> k.instant \/ \A m \in Active : k.classes \cap m.classes = {}
  <1>1. k.classes \cap activeFlags = {} <=> \A m \in Active : k.classes \cap m.classes = {}
    BY DEF TableFits
  <1> QED
    BY <1>1 DEF MayStart

-------------------------------------------------------------------------------
(* Adding a job: it is refused, starts or waits.                           *)

Refuses(t, k, undo) ==
  /\ filter = ALL /\ k # Complete
  /\ todo' = [todo EXCEPT ![t] = undo]
  /\ Active' = Active /\ Waiting' = Waiting

Starts(t, k) ==
  /\ filter = {} \/ k = Complete
  /\ k \notin Active /\ Active' = Active \cup {k} /\ Waiting' = Waiting
  /\ k.instant \/ \A m \in Active : k.classes \cap m.classes = {}
  /\ todo' = [todo EXCEPT ![t] = IF k.proc THEN <<k>> ELSE <<>>]

Postpones(k) ==
  /\ filter = {} \/ k = Complete
  /\ ~ k.instant /\ \E m \in Active : k.classes \cap m.classes # {}
  /\ Active' = Active /\ Waiting' = Waiting \cup {k}
  /\ todo' = todo

LEMMA ActivateEffect ==
  ASSUME TableFits, NEW t \in SessionThreads, NEW k \in SessionJobs, call[t].kind = k,
         k.instant => \A m \in Active : m.id # k.id, k \in Waiters \/ k.instant,
         filter = {} \/ k = Complete, Activate(t)
  PROVE  TableFits' /\ filter' = filter /\ Starts(t, k)
  <1> DEFINE e == <<[kind |-> k, extended |-> <<>>]>>
  <1>1. /\ active' = e \o active /\ activeFlags' = activeFlags \cup k.classes
        /\ todo' = [todo EXCEPT ![t] = IF k.proc THEN <<k>> ELSE <<>>]
        /\ MayStart(k) /\ UNCHANGED <<pending, filter>>
    BY DEF Activate
  <1>2. k.instant \/ \A m \in Active : k.classes \cap m.classes = {}
    BY <1>1, MayStartMeans
  <1>3. \A m \in Active : m.id # k.id
    <2>1. CASE ~ k.instant
      <3> SUFFICES ASSUME NEW m \in Active, m.id = k.id PROVE FALSE
        OBVIOUS
      <3>1. m \in SessionJobs /\ k \in Waiters
        BY <2>1, TableJobs
      <3>2. m = k
        BY <3>1, KindsAre, KindsDiffer DEF Waiters
      <3> QED
        BY <1>2, <2>1, <3>1, <3>2, KindsShare
    <2> QED
      BY <2>1
  <1>4. e \in Seq(Entry) /\ Distinct(e) /\ KindsOf(e) = {k}
    BY OneKind, KindsDiffer
  <1> HIDE DEF e
  <1>5. active' \in Seq(Entry) /\ Distinct(active') /\ KindsOf(active') = {k} \cup KindsOf(active)
    <2>1. active \in Seq(Entry) /\ Distinct(active) /\ \A l \in KindsOf(e), m \in KindsOf(active) : l.id # m.id
      BY <1>3, <1>4 DEF TableFits, Active
    <2> QED
      BY <1>1, <1>4, <2>1, ConcatKinds
  <1>6. Active' = Active \cup {k} /\ Waiting' = Waiting
    BY <1>1, <1>5 DEF Active, Waiting
  <1>7. TableFits'
    <2>1. activeFlags' = UNION {l.classes : l \in Active'}
      <3>1. activeFlags = UNION {l.classes : l \in Active}
        BY DEF TableFits
      <3>2. \A c : c \in activeFlags' <=> c \in k.classes \/ \E l \in Active : c \in l.classes
        BY <1>1, <3>1
      <3>3. \A c : c \in activeFlags' <=> \E l \in Active' : c \in l.classes
        BY <1>6, <3>2
      <3> QED
        BY <3>3
    <2> QED
      BY <1>1, <1>5, <1>6, <2>1 DEF TableFits
  <1> QED
    BY <1>1, <1>2, <1>3, <1>6, <1>7 DEF Starts

LEMMA PostponeEffect ==
  ASSUME TableFits, NEW t \in SessionThreads, NEW k \in Waiters, call[t].kind = k,
         k \in Waiting => k = TimedOut,
         filter = {} \/ k = Complete, Postpone(t)
  PROVE  TableFits' /\ filter' = filter /\ Postpones(k)
  <1>1. PICK e : e = [kind |-> k, extended |-> <<>>]
    OBVIOUS
  <1>2. /\ pending' = Append(pending, e) /\ ~ MayStart(k)
        /\ UNCHANGED <<active, activeFlags, filter, todo>>
    BY <1>1 DEF Postpone
  <1>3. e \in Entry /\ e.kind = k /\ OneKindOnly(e)
    <2>1. k \in JobKinds
      BY KindsDiffer DEF Waiters
    <2> QED
      BY <1>1, <2>1 DEF Entry, OneKindOnly
  <1>4. /\ pending \in Seq(Entry) /\ pending' \in Seq(Entry) /\ DOMAIN pending' = DOMAIN pending \cup {Len(pending) + 1}
        /\ Len(pending) + 1 \notin DOMAIN pending
        /\ \A i \in DOMAIN pending : pending'[i] = pending[i]
        /\ pending'[Len(pending) + 1] = e
    <2>1. pending \in Seq(Entry)
      BY DEF TableFits
    <2> QED
      BY <1>2, <1>3, <2>1
  <1>5. Active' = Active /\ Waiting' = Waiting \cup {k}
    <2>1. \A i \in DOMAIN pending' : pending'[i].kind \in Waiting \cup {k}
      BY <1>3, <1>4 DEF Waiting, KindsOf
    <2>2. \A i \in DOMAIN pending : pending[i].kind \in Waiting'
      BY <1>4 DEF Waiting, KindsOf
    <2>3. k \in Waiting'
      BY <1>3, <1>4 DEF Waiting, KindsOf
    <2> QED
      BY <1>2, <2>1, <2>2, <2>3 DEF Active, Waiting, KindsOf
  <1>6. /\ \A i \in DOMAIN pending' : OneKindOnly(pending'[i])
        /\ \A i, j \in DOMAIN pending' :
             pending'[i].kind = pending'[j].kind /\ i # j => pending'[i].kind = TimedOut
    <2>1. \A i \in DOMAIN pending' : OneKindOnly(pending'[i])
      BY <1>3, <1>4 DEF TableFits
    <2>2. \A i \in DOMAIN pending : pending[i].kind = k => k = TimedOut
      BY DEF Waiting, KindsOf
    <2>3. \A i, j \in DOMAIN pending :
             pending[i].kind = pending[j].kind /\ i # j => pending[i].kind = TimedOut
      BY DEF TableFits
    <2> QED
      BY <1>3, <1>4, <2>1, <2>2, <2>3
  <1>7. ~ k.instant /\ \E m \in Active : k.classes \cap m.classes # {}
    BY <1>2, MayStartMeans
  <1>8. TableFits'
    <2>1. Waiting' \subseteq Waiters
      BY <1>5 DEF TableFits
    <2> QED
      BY <1>2, <1>4, <1>5, <1>6, <2>1 DEF TableFits
  <1> QED
    BY <1>2, <1>5, <1>7, <1>8 DEF Postpones

LEMMA EnterEffect ==
  ASSUME TableFits, NEW t \in SessionThreads, NEW k \in SessionJobs, call[t].kind = k,
         k.instant => \A m \in Active : m.id # k.id,
         k \in Waiters \/ k.instant, k \in Waiting => k = TimedOut,
         NEW undo, Enter(t, undo)
  PROVE  /\ TableFits' /\ filter' = filter
         /\ Refuses(t, k, undo) \/ Starts(t, k) \/ Postpones(k)
  <1>1. Refused(k) <=> filter = ALL /\ k # Complete
    BY RefusedMeans DEF TableFits
  <1>2. CASE Refused(k)
    <2>1. todo' = [todo EXCEPT ![t] = undo] /\ UNCHANGED <<active, pending, activeFlags, filter>>
      BY <1>2 DEF Enter, table
    <2> QED
      BY <1>1, <1>2, <2>1 DEF TableFits, Refuses, Active, Waiting
  <1>3. CASE ~ Refused(k) /\ Activate(t)
    <2>1. filter = {} \/ k = Complete
      BY <1>1, <1>3 DEF TableFits
    <2> QED
      BY <1>3, <2>1, ActivateEffect
  <1>4. CASE ~ Refused(k) /\ Postpone(t)
    <2>1. filter = {} \/ k = Complete
      BY <1>1, <1>4 DEF TableFits
    <2>2. k \in Waiters
      BY <1>4, MayStartMeans DEF Postpone
    <2> QED
      BY <1>4, <2>1, <2>2, PostponeEffect
  <1> QED
    BY <1>2, <1>3, <1>4 DEF Enter

-------------------------------------------------------------------------------
(* Ending a job: those that can start now do.                              *)

(* Jobs picked from those that wait.                                       *)
LEMMA PickedJobs ==
  ASSUME TableFits, NEW I \in SUBSET DOMAIN pending, NEW s, s = Sub(pending, I)
  PROVE  /\ s \in Seq(Entry) /\ KindsOf(s) = {pending[i].kind : i \in I}
         /\ \A n \in DOMAIN s : OneKindOnly(s[n])
         /\ \A m, n \in DOMAIN s : s[m].kind = s[n].kind /\ m # n => s[m].kind = TimedOut
         /\ (\A i, j \in I : pending[i].kind = pending[j].kind => i = j) => Distinct(s)
  <1>1. pending \in Seq(Entry)
    BY DEF TableFits
  <1>2. PICK f \in [1..Len(s) -> I] :
          /\ s \in Seq(Entry) /\ \A n \in 1..Len(s) : s[n] = pending[f[n]]
          /\ \A m, n \in 1..Len(s) : f[m] = f[n] => m = n
          /\ \A i \in I : \E n \in 1..Len(s) : f[n] = i
    BY <1>1, SubIsSelection
  <1>3. DOMAIN s = 1..Len(s) /\ \A n \in DOMAIN s : s[n] = pending[f[n]] /\ f[n] \in DOMAIN pending /\ f[n] \in I
    BY <1>2
  <1>4. KindsOf(s) = {pending[i].kind : i \in I}
    <2>1. \A n \in DOMAIN s : s[n].kind \in {pending[i].kind : i \in I}
      BY <1>3
    <2>2. \A i \in I : \E n \in DOMAIN s : s[n].kind = pending[i].kind
      BY <1>2, <1>3
    <2> QED
      BY <2>1, <2>2 DEF KindsOf
  <1>5. \A n \in DOMAIN s : OneKindOnly(s[n])
    BY <1>3 DEF TableFits
  <1>6. \A m, n \in DOMAIN s : s[m].kind = s[n].kind /\ m # n => s[m].kind = TimedOut
    <2> SUFFICES ASSUME NEW m \in DOMAIN s, NEW n \in DOMAIN s, s[m].kind = s[n].kind, m # n
                 PROVE  s[m].kind = TimedOut
      OBVIOUS
    <2>1. f[m] # f[n]
      BY <1>2, <1>3
    <2> QED
      BY <1>3, <2>1 DEF TableFits
  <1>7. ASSUME \A i, j \in I : pending[i].kind = pending[j].kind => i = j
        PROVE  Distinct(s)
    <2>1. \A n \in DOMAIN s : s[n].kind \in Waiters
      BY <1>3 DEF TableFits, Waiting, KindsOf
    <2>2. \A k, l \in Waiters : k.id = l.id => k = l
      BY KindsAre DEF Waiters
    <2>3. \A m, n \in DOMAIN s : s[m].kind.id = s[n].kind.id => m = n
      <3> SUFFICES ASSUME NEW m \in DOMAIN s, NEW n \in DOMAIN s, s[m].kind.id = s[n].kind.id
                   PROVE  m = n
        OBVIOUS
      <3>1. s[m].kind = s[n].kind
        BY <2>1, <2>2
      <3>2. f[m] = f[n]
        BY <1>3, <1>7, <3>1
      <3> QED
        BY <1>2, <1>3, <3>2
    <2> QED
      BY <1>5, <2>3 DEF Distinct
  <1> QED
    BY <1>2, <1>4, <1>5, <1>6, <1>7

\* The job k ends and the jobs of G start.
Ends(k, G) ==
  /\ G \subseteq Waiting /\ Active' = G \cup (Active \ {k})
  /\ Waiting' \subseteq Waiting /\ Waiting \subseteq Waiting' \cup G /\ G \cap Waiting' \subseteq {TimedOut}
  /\ \A l \in G : l \notin Active \ {k} /\ \A m \in Active' \ {l} : l.classes \cap m.classes = {}
  /\ Active' = {} => Waiting = {}

(* The places that Startable picks: no two of one kind, and the kinds fit  *)
(* each other and what is active.                                          *)
LEMMA StartableFits ==
  ASSUME TableFits, NEW S \in SUBSET DOMAIN pending, NEW flags, Startable(S, flags)
  PROVE  /\ \A i \in S : pending[i].kind.classes \cap flags = {}
         /\ \A i, j \in S : i # j => pending[i].kind.classes \cap pending[j].kind.classes = {}
         /\ \A i, j \in S : pending[i].kind = pending[j].kind => i = j
         /\ flags = {} /\ pending # <<>> => S # {}
  <1>1. pending \in Seq(Entry) /\ \A i \in DOMAIN pending : pending[i].kind \in Waiters
    BY DEF TableFits, Waiting, KindsOf
  <1>2. \A i \in DOMAIN pending :
           i \in S <=> pending[i].kind.classes \cap
                         (flags \cup UNION {pending[n].kind.classes : n \in {n \in S : n < i}}) = {}
    BY DEF Startable
  <1>3. \A i \in S : pending[i].kind.classes \cap flags = {}
    BY <1>2
  <1>4. \A i, j \in S : j < i => pending[i].kind.classes \cap pending[j].kind.classes = {}
    BY <1>2
  <1>5. \A i, j \in S : i # j => pending[i].kind.classes \cap pending[j].kind.classes = {}
    <2>1. \A i, j \in S : i # j => i < j \/ j < i
      BY <1>1
    <2> QED
      BY <1>4, <2>1
  <1>6. \A i, j \in S : pending[i].kind = pending[j].kind => i = j
    BY <1>1, <1>5, KindsShare
  <1>7. flags = {} /\ pending # <<>> => S # {}
    <2> SUFFICES ASSUME flags = {}, pending # <<>>, S = {} PROVE FALSE
      OBVIOUS
    <2>1. 1 \in DOMAIN pending
      BY <1>1
    <2> QED
      BY <1>2, <2>1
  <1> QED
    BY <1>3, <1>5, <1>6, <1>7

(* The table after an entry has gone.                                      *)
LEMMA RemoveEntryTable ==
  ASSUME TableFits, NEW t \in SessionThreads, NEW i \in DOMAIN active, NEW k, k = active[i].kind,
         NEW before, RemoveEntry(t, i, before)
  PROVE  /\ TableFits' /\ UNCHANGED <<filter, call>>
         /\ \E go \in Seq(Entry) :
              /\ Distinct(go) /\ Ends(k, KindsOf(go))
              /\ todo' = [todo EXCEPT ![t] = before \o (IF Active' = {} THEN <<Close>> ELSE <<>>)
                                                    \o Reverse(Kinds(go))]
  <1>1. /\ active \in Seq(Entry) /\ Distinct(active) /\ pending \in Seq(Entry)
        /\ Active = KindsOf(active) /\ Waiting = KindsOf(pending)
    BY DEF TableFits, Active, Waiting
  <1>2. PICK rest, S : /\ rest = RemoveAt(active, i) /\ S \in SUBSET DOMAIN pending
                       /\ Startable(S, Classes(rest))
                       /\ active' = Reverse(Sub(pending, S)) \o rest
                       /\ activeFlags' = Classes(rest) \cup Classes(Sub(pending, S))
                       /\ todo' = [todo EXCEPT ![t] =
                            before \o (IF rest = <<>> /\ pending = <<>> THEN <<Close>> ELSE <<>>)
                                   \o Reverse(Kinds(Sub(pending, S)))]
                       /\ pending' = Sub(pending, DOMAIN pending \ S)
                       /\ UNCHANGED <<filter, call>>
    BY DEF RemoveEntry
  <1>3. PICK G, go, stay : /\ G = {pending[j].kind : j \in S}
                           /\ go = Sub(pending, S) /\ stay = Sub(pending, DOMAIN pending \ S)
    OBVIOUS
  <1>4. rest \in Seq(Entry) /\ Distinct(rest) /\ KindsOf(rest) = Active \ {k}
    BY <1>1, <1>2, RemoveAtKinds
  <1>5. /\ \A m \in S : pending[m].kind.classes \cap Classes(rest) = {}
        /\ \A m, n \in S : m # n => pending[m].kind.classes \cap pending[n].kind.classes = {}
        /\ \A m, n \in S : pending[m].kind = pending[n].kind => m = n
        /\ Classes(rest) = {} /\ pending # <<>> => S # {}
    BY <1>2, StartableFits
  <1>6. go \in Seq(Entry) /\ Distinct(go) /\ KindsOf(go) = G
    BY <1>2, <1>3, <1>5, PickedJobs
  <1>7. /\ stay \in Seq(Entry) /\ KindsOf(stay) = {pending[j].kind : j \in DOMAIN pending \ S}
        /\ \A n \in DOMAIN stay : OneKindOnly(stay[n])
        /\ \A m, n \in DOMAIN stay : stay[m].kind = stay[n].kind /\ m # n => stay[m].kind = TimedOut
    <2>1. PICK R : R = DOMAIN pending \ S /\ R \in SUBSET DOMAIN pending
      OBVIOUS
    <2>2. /\ Sub(pending, R) \in Seq(Entry)
          /\ KindsOf(Sub(pending, R)) = {pending[j].kind : j \in R}
          /\ \A n \in DOMAIN Sub(pending, R) : OneKindOnly(Sub(pending, R)[n])
          /\ \A m, n \in DOMAIN Sub(pending, R) :
               Sub(pending, R)[m].kind = Sub(pending, R)[n].kind /\ m # n
                 => Sub(pending, R)[m].kind = TimedOut
      BY <2>1, PickedJobs
    <2> QED
      BY <1>3, <2>1, <2>2
  <1>8. /\ G \subseteq Waiting /\ KindsOf(stay) \subseteq Waiting /\ Waiting \subseteq KindsOf(stay) \cup G
        /\ G \cap KindsOf(stay) \subseteq {TimedOut}
    <2>1. \A m \in S, n \in DOMAIN pending \ S : pending[m].kind = pending[n].kind => pending[m].kind = TimedOut
      BY <1>2 DEF TableFits
    <2> QED
      BY <1>2, <1>3, <1>7, <2>1 DEF Waiting, KindsOf
  <1>9. \A l \in G : \A m \in KindsOf(rest) : l.classes \cap m.classes = {}
    <2>1. Classes(rest) = UNION {m.classes : m \in KindsOf(rest)}
      BY TableKinds
    <2> QED
      BY <1>3, <1>5, <2>1
  <1>10. \A l \in G, m \in KindsOf(rest) : l # m /\ l.id # m.id
    <2>1. G \subseteq Waiters /\ KindsOf(rest) \subseteq SessionJobs
      BY <1>4, <1>8, TableJobs
    <2>2. \A l \in Waiters : l.classes # {}
      BY KindsRefused, KindsDiffer DEF Waiters
    <2>3. \A l \in Waiters, m \in SessionJobs : l.id = m.id => l = m
      BY KindsAre, KindsDiffer DEF Waiters
    <2>4. \A l \in G, m \in KindsOf(rest) : l # m
      BY <1>9, <2>1, <2>2
    <2> QED
      BY <2>1, <2>3, <2>4
  <1>11. active' \in Seq(Entry) /\ Distinct(active') /\ Active' = G \cup (Active \ {k})
    <2>1. Reverse(go) \in Seq(Entry) /\ Distinct(Reverse(go)) /\ KindsOf(Reverse(go)) = G
      BY <1>6, ReverseKinds
    <2>2. active' = Reverse(go) \o rest
      BY <1>2, <1>3
    <2>3. active' \in Seq(Entry) /\ Distinct(active') /\ KindsOf(active') = G \cup (Active \ {k})
      BY <1>4, <1>10, <2>1, <2>2, ConcatKinds
    <2> QED
      BY <2>3 DEF Active
  <1>12. activeFlags' = UNION {l.classes : l \in Active'}
    <2>1. activeFlags' = Classes(rest) \cup Classes(go)
      BY <1>2, <1>3
    <2>2. \A c : c \in activeFlags' <=> \E l \in Active' : c \in l.classes
      BY <1>4, <1>6, <1>11, <2>1, ClassesOf
    <2>3. \A c : c \in UNION {l.classes : l \in Active'} <=> \E l \in Active' : c \in l.classes
      OBVIOUS
    <2> QED
      BY <2>2, <2>3
  <1>13. \A l \in G : l \notin Active \ {k} /\ \A m \in Active' \ {l} : l.classes \cap m.classes = {}
    <2>1. \A l, m \in G : l # m => l.classes \cap m.classes = {}
      BY <1>3, <1>5
    <2> QED
      BY <1>4, <1>9, <1>10, <1>11, <2>1
  <1>14. Active' = {} => Waiting = {}
    <2> SUFFICES ASSUME Active' = {}, pending # <<>> PROVE FALSE
      BY <1>1, NoKinds
    <2>0. G = {} /\ Active \ {k} = {}
      BY <1>11
    <2>1. KindsOf(rest) = {} /\ S = {}
      BY <1>3, <1>4, <2>0
    <2>2. Classes(rest) = UNION {m.classes : m \in KindsOf(rest)}
      BY TableKinds
    <2>3. Classes(rest) = {}
      BY <2>1, <2>2
    <2> QED
      BY <1>5, <2>1, <2>3
  <1>15. (rest = <<>> /\ pending = <<>>) <=> Active' = {}
    <2>1. (rest = <<>> <=> KindsOf(rest) = {}) /\ (pending = <<>> <=> Waiting = {})
      BY <1>1, <1>4, NoKinds
    <2> QED
      BY <1>4, <1>8, <1>11, <1>14, <2>1
  <1>16. todo' = [todo EXCEPT ![t] = before \o (IF Active' = {} THEN <<Close>> ELSE <<>>)
                                            \o Reverse(Kinds(go))]
    BY <1>2, <1>3, <1>15
  <1>17. Waiting' = KindsOf(stay) /\ pending' = stay
    BY <1>2, <1>3 DEF Waiting
  <1>18. TableFits'
    <2>1. Waiting' \subseteq Waiters
      BY <1>8, <1>17, TableJobs
    <2>2. filter' \in {{}, ALL}
      BY <1>2 DEF TableFits
    <2> QED
      BY <1>7, <1>11, <1>12, <1>17, <2>1, <2>2 DEF TableFits
  <1>19. Ends(k, KindsOf(go))
    BY <1>6, <1>8, <1>11, <1>13, <1>14, <1>17 DEF Ends
  <1> QED
    BY <1>2, <1>6, <1>16, <1>18, <1>19

(* What the thread has to do then: to stop the timer, to close the client  *)
(* if that was the last job, and to start those of G.                      *)
Given(t, before, G) ==
  /\ todo' \in [SessionThreads -> Seq(Errands)]
  /\ \A u \in SessionThreads \ {t} : todo'[u] = todo[u]
  /\ \A i, j \in DOMAIN todo'[t] : todo'[t][i] = todo'[t][j] => i = j
  /\ ToSet(todo'[t]) = ToSet(before) \cup G \cup (IF Active' = {} THEN {Close} ELSE {})
  /\ before = <<>> /\ Active' = {} => Head(todo'[t]) = Close

LEMMA EndGives ==
  ASSUME TodoFits, NEW t \in SessionThreads, NEW before,
         before = <<>> \/ \E i \in Timers : before = <<StopOf(i)>>,
         NEW go \in Seq(Entry), Distinct(go), KindsOf(go) \subseteq Waiters,
         todo' = [todo EXCEPT ![t] = before \o (IF Active' = {} THEN <<Close>> ELSE <<>>)
                                            \o Reverse(Kinds(go))]
  PROVE  Given(t, before, KindsOf(go))
  <1> DEFINE r == Reverse(Kinds(go))
             G == KindsOf(go)
  <1>1. /\ r \in Seq({k \in JobKinds : k.proc} \cup {Close}) /\ ToSet(r) = G
        /\ \A i, j \in DOMAIN r : r[i] = r[j] => i = j
    <2>1. \A k \in KindsOf(go) : k.proc
      BY KindsAre DEF Waiters
    <2> QED
      BY <2>1, StartOrder
  <1> HIDE DEF r
  <1>2. /\ r \in Seq(Errands)
        /\ \A i \in DOMAIN r : r[i] \in G
    <2>1. \A i \in DOMAIN r : r[i] \in G
      BY <1>1 DEF ToSet
    <2>2. \A i \in DOMAIN r : r[i] \in Errands
      BY <2>1 DEF Errands
    <2>3. r = [i \in 1..Len(r) |-> r[i]] /\ Len(r) \in Nat /\ DOMAIN r = 1..Len(r)
      BY <1>1
    <2> QED
      BY <2>1, <2>2, <2>3
  <1>3. PICK c : c = IF Active' = {} THEN <<Close>> ELSE <<>>
    OBVIOUS
  <1>4. PICK p : p = before \o c
    OBVIOUS
  <1>5. /\ Close \in Errands /\ \A i \in Timers : StopOf(i) \in Errands
        /\ \A k \in G : k # Close /\ \A i \in Timers : k # StopOf(i)
        /\ \A i \in Timers : StopOf(i) # Close
    BY MarksDiffer, KindsDiffer DEF Errands, Stops, Waiters
  <1> HIDE DEF G
  <1>6. /\ p \in Seq(Errands)
        /\ \A i, j \in DOMAIN p : p[i] = p[j] => i = j
        /\ \A i \in DOMAIN p : p[i] \notin G
        /\ ToSet(p) = ToSet(before) \cup (IF Active' = {} THEN {Close} ELSE {})
        /\ before = <<>> /\ Active' = {} => p = <<Close>>
    <2>0. ToSet(<<>>) = {} /\ \A x : ToSet(<<x>>) = {x}
      BY DEF ToSet
    <2>1. CASE before = <<>>
      <3>1. p = c
        BY <1>3, <1>4, <2>1
      <3> QED
        BY <1>3, <1>5, <2>0, <2>1, <3>1
    <2>2. CASE \E i \in Timers : before = <<StopOf(i)>>
      <3>1. PICK i \in Timers : before = <<StopOf(i)>>
        BY <2>2
      <3>2. CASE Active' = {}
        <4>0. PICK u, v : u = <<StopOf(i)>> /\ v = <<Close>> /\ p = u \o v
          BY <1>3, <1>4, <3>1, <3>2
        <4>1. /\ u \in Seq(Errands) /\ v \in Seq(Errands) /\ Len(u) = 1 /\ Len(v) = 1
              /\ u[1] = StopOf(i) /\ v[1] = Close
          BY <1>5, <4>0
        <4>2. /\ p \in Seq(Errands) /\ Len(p) = 2 /\ DOMAIN p = {1, 2}
              /\ p[1] = StopOf(i) /\ p[2] = Close
          <5>1. p \in Seq(Errands) /\ Len(p) = Len(u) + Len(v)
            BY <4>0, <4>1
          <5>2. p[1] = u[1] /\ p[2] = v[1]
            BY <4>0, <4>1, ConcatProperties
          <5> QED
            BY <4>1, <5>1, <5>2
        <4>4. ToSet(p) = {StopOf(i), Close}
          BY <4>2 DEF ToSet
        <4>3. ToSet(before) = {StopOf(i)}
          BY <2>0, <3>1
        <4> QED
          BY <1>5, <3>1, <3>2, <4>2, <4>3, <4>4
      <3>3. CASE Active' # {}
        <4>0. \A x : <<x>> \o <<>> = <<x>>
          OBVIOUS
        <4>1. p = <<StopOf(i)>>
          BY <1>3, <1>4, <3>1, <3>3, <4>0
        <4> QED
          BY <1>5, <2>0, <3>1, <3>3, <4>1
      <3> QED
        BY <3>2, <3>3
    <2> QED
      BY <2>1, <2>2
  <1>7. PICK q : q = p \o r
    OBVIOUS
  <1>8. /\ q \in Seq(Errands) /\ Len(q) = Len(p) + Len(r)
        /\ Len(p) \in Nat /\ Len(r) \in Nat
        /\ DOMAIN q = 1..Len(q) /\ DOMAIN p = 1..Len(p) /\ DOMAIN r = 1..Len(r)
        /\ \A i \in DOMAIN p : i \in DOMAIN q /\ q[i] = p[i]
        /\ \A i \in DOMAIN r : Len(p) + i \in DOMAIN q /\ q[Len(p) + i] = r[i]
        /\ \A i \in DOMAIN q : i \in DOMAIN p \/ (i - Len(p) \in DOMAIN r /\ i = Len(p) + (i - Len(p)))
    BY <1>2, <1>6, <1>7
  <1>9. \A i, j \in DOMAIN q : q[i] = q[j] => i = j
    <2> SUFFICES ASSUME NEW i \in DOMAIN q, NEW j \in DOMAIN q, q[i] = q[j]
                 PROVE  i = j
      OBVIOUS
    <2>1. CASE i \in DOMAIN p /\ j \in DOMAIN p
      BY <1>6, <1>8, <2>1
    <2>2. CASE i \in DOMAIN p /\ j - Len(p) \in DOMAIN r /\ j = Len(p) + (j - Len(p))
      BY <1>2, <1>6, <1>8, <2>2
    <2>3. CASE j \in DOMAIN p /\ i - Len(p) \in DOMAIN r /\ i = Len(p) + (i - Len(p))
      BY <1>2, <1>6, <1>8, <2>3
    <2>4. CASE /\ i - Len(p) \in DOMAIN r /\ i = Len(p) + (i - Len(p))
               /\ j - Len(p) \in DOMAIN r /\ j = Len(p) + (j - Len(p))
      <3>1. q[i] = r[i - Len(p)] /\ q[j] = r[j - Len(p)]
        BY <1>8, <2>4
      <3>2. i - Len(p) = j - Len(p)
        BY <1>1, <2>4, <3>1
      <3> QED
        BY <2>4, <3>2
    <2>5. /\ i \in DOMAIN p \/ (i - Len(p) \in DOMAIN r /\ i = Len(p) + (i - Len(p)))
          /\ j \in DOMAIN p \/ (j - Len(p) \in DOMAIN r /\ j = Len(p) + (j - Len(p)))
      BY <1>8
    <2> QED
      BY <2>1, <2>2, <2>3, <2>4, <2>5
  <1>10. ToSet(q) = ToSet(p) \cup G
    <2>1. /\ ToSet(p) = {p[i] : i \in DOMAIN p} /\ ToSet(q) = {q[i] : i \in DOMAIN q}
          /\ G = {r[i] : i \in DOMAIN r}
      BY <1>1 DEF ToSet, G
    <2>2. \A e \in ToSet(p) \cup G : e \in ToSet(q)
      BY <1>8, <2>1
    <2>3. \A e \in ToSet(q) : e \in ToSet(p) \cup G
      <3> SUFFICES ASSUME NEW i \in DOMAIN q PROVE q[i] \in ToSet(p) \cup G
        BY <2>1
      <3>1. CASE i \in DOMAIN p
        BY <1>8, <2>1, <3>1
      <3>2. CASE i - Len(p) \in DOMAIN r /\ i = Len(p) + (i - Len(p))
        BY <1>8, <2>1, <3>2
      <3> QED
        BY <1>8, <3>1, <3>2
    <2> QED
      BY <2>2, <2>3
  <1>11. before = <<>> /\ Active' = {} => Head(q) = Close
    <2> SUFFICES ASSUME before = <<>>, Active' = {} PROVE Head(q) = Close
      OBVIOUS
    <2>1. p = <<Close>>
      BY <1>6
    <2> QED
      BY <1>2, <1>7, <2>1
  <1>12. todo' = [todo EXCEPT ![t] = q]
    BY <1>3, <1>4, <1>7 DEF r
  <1>13. todo \in [SessionThreads -> Seq(Errands)]
    BY DEF TodoFits
  <1>14. /\ todo' \in [SessionThreads -> Seq(Errands)] /\ todo'[t] = q
         /\ \A u \in SessionThreads \ {t} : todo'[u] = todo[u]
    BY <1>8, <1>12, <1>13
  <1> QED
    BY <1>6, <1>9, <1>10, <1>11, <1>14 DEF Given, G

(* EndClientJob of a job that is active.                                   *)
LEMMA EndEffect ==
  ASSUME TableFits, TodoFits, NEW t \in SessionThreads, NEW k \in Active, NEW id, id = k.id,
         NEW before, before = <<>> \/ \E i \in Timers : before = <<StopOf(i)>>,
         EndClientJob(t, id, before)
  PROVE  /\ TableFits' /\ UNCHANGED <<filter, call, queued, closes>>
         /\ call[t] = None /\ todo[t] = <<>>
         /\ \E G \in SUBSET Waiting : Ends(k, G) /\ Given(t, before, G)
  <1>1. call[t] = None /\ todo[t] = <<>> /\ UNCHANGED <<queued, closes>>
    BY DEF EndClientJob, Free
  <1>2. PICK i \in DOMAIN active : /\ First(active, i, id)
                                   /\ TakeOver(t, i, before) \/ RemoveEntry(t, i, before)
    <2>1. id \in Ids(active)
      BY DEF Active, KindsOf, Ids
    <2> QED
      BY <2>1 DEF EndClientJob
  <1>3. active[i].kind = k
    <2>1. active[i].kind \in Active /\ active[i].kind.id = k.id
      BY <1>2 DEF Active, KindsOf, First
    <2> QED
      BY <2>1, TableJobs
  <1>4. ~ TakeOver(t, i, before)
    <2>1. OneKindOnly(active[i]) /\ ~ Extends(k)
      BY TableJobs, KindsRefused DEF TableFits, Distinct
    <2>2. active[i].extended \in Seq([kind : JobKinds, by : Threads])
      <3>1. active[i] \in Entry
        BY DEF TableFits
      <3> QED
        BY <3>1 DEF Entry
    <2>3. DOMAIN active[i].extended = {}
      BY <1>3, <2>1 DEF OneKindOnly
    <2>4. active[i].extended = <<>>
      <3>1. \A S : \A s \in Seq(S) : DOMAIN s = {} => s = <<>>
        OBVIOUS
      <3> QED
        BY <2>2, <2>3, <3>1
    <2> QED
      BY <2>4 DEF TakeOver
  <1>5. /\ TableFits' /\ UNCHANGED <<filter, call>>
        /\ \E go \in Seq(Entry) :
              /\ Distinct(go) /\ Ends(k, KindsOf(go))
              /\ todo' = [todo EXCEPT ![t] = before \o (IF Active' = {} THEN <<Close>> ELSE <<>>)
                                                    \o Reverse(Kinds(go))]
    BY <1>2, <1>3, <1>4, RemoveEntryTable
  <1>6. PICK go \in Seq(Entry) :
              /\ Distinct(go) /\ Ends(k, KindsOf(go))
              /\ todo' = [todo EXCEPT ![t] = before \o (IF Active' = {} THEN <<Close>> ELSE <<>>)
                                                    \o Reverse(Kinds(go))]
    BY <1>5
  <1>7. KindsOf(go) \subseteq Waiting /\ KindsOf(go) \subseteq Waiters
    BY <1>6, TableJobs DEF Ends
  <1>8. Given(t, before, KindsOf(go))
    BY <1>6, <1>7, EndGives
  <1> QED
    BY <1>1, <1>5, <1>6, <1>7, <1>8

(* SetJobFilter: what is exclusive goes on waiting.                        *)
LEMMA FilterEffect ==
  ASSUME TableFits, SetJobFilter
  PROVE  /\ TableFits' /\ filter' = ALL
         /\ Active' = Active /\ Waiting' = Waiting \cap {Complete}
  <1> DEFINE Kept(e) == e.kind.exclusive \/ e.kind.classes \cap ALL = {}
             I == {i \in DOMAIN pending : Kept(pending[i])}
  <1>1. /\ pending' = Sub(pending, I) /\ filter' = ALL /\ UNCHANGED <<active, activeFlags>>
    BY DEF SetJobFilter
  <1>2. \A i \in DOMAIN pending : i \in I <=> pending[i].kind = Complete
    <2> SUFFICES ASSUME NEW i \in DOMAIN pending PROVE Kept(pending[i]) <=> pending[i].kind = Complete
      OBVIOUS
    <2>1. pending[i].kind \in SessionJobs
      BY KindsDiffer DEF TableFits, Waiting, KindsOf, Waiters
    <2>2. pending[i].kind.classes \cap ALL # {}
      BY <2>1, KindsRefused
    <2> QED
      BY <2>1, <2>2, KindsRefused
  <1>3. I \in SUBSET DOMAIN pending
    OBVIOUS
  <1> HIDE DEF I
  <1>4. PICK s : s = Sub(pending, I)
    OBVIOUS
  <1>5. /\ s \in Seq(Entry) /\ KindsOf(s) = {pending[i].kind : i \in I}
        /\ \A n \in DOMAIN s : OneKindOnly(s[n])
        /\ \A m, n \in DOMAIN s : s[m].kind = s[n].kind /\ m # n => s[m].kind = TimedOut
    BY <1>3, <1>4, PickedJobs
  <1>6. Active' = Active /\ Waiting' = Waiting \cap {Complete}
    <2>1. KindsOf(s) = Waiting \cap {Complete}
      BY <1>2, <1>3, <1>5 DEF Waiting, KindsOf
    <2> QED
      BY <1>1, <1>4, <2>1 DEF Active, Waiting, KindsOf
  <1>7. TableFits'
    <2>1. Waiting' \subseteq Waiters
      BY <1>6, TableJobs
    <2> QED
      BY <1>1, <1>4, <1>5, <1>6, <2>1 DEF TableFits
  <1> QED
    BY <1>1, <1>6, <1>7

-------------------------------------------------------------------------------
(* Threads move.                                                           *)

Elsewhere(t) == \A u \in SessionThreads \ {t} : pc'[u] = pc[u]

Moves(t, l) ==
  pc' = [u \in SessionThreads |-> pc'[u]] /\ pc'[t] = l /\ Elsewhere(t)

LEMMA ThreadNames ==
  /\ \A t \in {"accept", "command", "complete", "timedOut", "receive", "sent", "data", "killer"} :
       t \in SessionThreads /\ t \notin Timers
  /\ Timers \subseteq SessionThreads
  BY DEF SessionThreads, Workers, Timers

LEMMA GotoMoves ==
  ASSUME PlacesFit, NEW t \in SessionThreads, NEW l, Goto(t, l)
  PROVE  Moves(t, l)
  BY DEF PlacesFit, Goto, Moves, Elsewhere

LEMMA PlacesMove ==
  ASSUME PlacesFit, NEW t \in SessionThreads, NEW l, Moves(t, l), PlaceOf(t, l)
  PROVE  PlacesFit'
  BY DEF PlacesFit, Moves, Elsewhere

(* A thread that is not adding a job may move.                             *)
LEMMA CallsStay ==
  ASSUME CallsFit, NEW t \in SessionThreads, Elsewhere(t),
         call' = call \/ call' = [call EXCEPT ![t] = None], call'[t] = None
  PROVE  CallsFit'
  <1>1. /\ call' \in [SessionThreads -> {None} \cup [id : {"add", "addExclusive"}, kind : SessionJobs]]
        /\ \A u \in SessionThreads \ {t} : call'[u] = call[u]
    BY DEF CallsFit
  <1>2. ASSUME NEW u \in SessionThreads, call'[u] # None PROVE MayAsk(u)'
    <2>1. u # t /\ call'[u] = call[u] /\ pc'[u] = pc[u] /\ MayAsk(u)
      BY <1>1, <1>2 DEF CallsFit, Elsewhere
    <2> QED
      BY <2>1 DEF MayAsk, Asks
  <1> QED
    BY <1>1, <1>2 DEF CallsFit

-------------------------------------------------------------------------------
(* Steps that leave the table alone.                                       *)

(* A worker takes a proc: the right to run it was in the queue.            *)
LEMMA TakeKeeps ==
  ASSUME ConnectionIInv, NEW w, NEW k,
         \/ w = "accept" /\ k = Accept
         \/ w = "command" /\ k = Command
         \/ w = "timedOut" /\ k = TimedOut
         \/ w = "complete" /\ k = Complete,
         Take(w, k)
  PROVE  ConnectionIInv'
  <1> USE DEF ConnectionIInv
  <1>1. /\ pc[w] = "idle" /\ call[w] = None
        /\ k \in queued /\ queued' = queued \ {k} /\ Goto(w, "run")
        /\ UNCHANGED <<active, pending, activeFlags, filter, closes, todo, call, job,
                       socket, receiving, sending, data, bActive, timers, inputTimer,
                       logoff, commands, dataLock, closed>>
    BY DEF Take, At, Free, table, io, clock, life
  <1>2. Moves(w, "run")
    BY <1>1, ThreadNames, GotoMoves
  <1> USE DEF SessionThreads, Workers, Timers, Moves, Elsewhere
  <1>3. Active' = Active /\ Waiting' = Waiting
    BY <1>1 DEF Active, Waiting
  <1>4. CallsFit'
    BY <1>1, <1>2, CallsStay
  <1>5. PlacesFit'
    <2>1. PlaceOf(w, pc'[w]) /\ w \in SessionThreads
      BY <1>2, ThreadNames DEF PlaceOf
    <2> QED
      BY <1>2, <2>1, PlacesMove
  <1>6. TableFits' /\ TodoFits' /\ ChannelsFit'
    BY <1>1, <1>3 DEF TableFits, TodoFits, ChannelsFit
  <1>7. ClosesLast'
    BY <1>1, <1>2, <1>3 DEF ClosesLast, InTodo
  <1>8. ProcsHeld'
    BY <1>1, <1>2, <1>3, KindsDiffer DEF ProcsHeld, OneHolder, Runs, InHand, InTodo
  <1>9. InputHeld' /\ SendHeld'
    BY <1>1, <1>2, <1>3 DEF InputHeld, Receives, Receivers, SendHeld, Sends, Senders, Replying
  <1>10. TransferHeld' /\ Apart' /\ Unspoken'
    BY <1>1, <1>2, <1>3 DEF TransferHeld, Beginning, Apart, Unspoken, Replying
  <1>11. GreetsAlone' /\ ReadsOnce'
    BY <1>1, <1>2, <1>3, KindsDiffer DEF GreetsAlone, ReadsOnce, GreetingReads, HandshakeReads, CommandReads,
                            Greeting, Replying
  <1>12. TimersFit'
    BY <1>1, <1>2, <1>3 DEF TimersFit, Listens, AsksInput, InHand, InTodo
  <1> QED
    BY <1>4, <1>5, <1>6, <1>7, <1>8, <1>9, <1>10, <1>11, <1>12

(* The buffer is handed to TransmitPackages: the right to send goes from   *)
(* the thread to the send.                                                 *)
LEMMA SendingKeeps ==
  ASSUME ConnectionIInv, NEW w, NEW from, NEW what, NEW next,
         \/ w = "accept" /\ from = "greet" /\ what = "reply" /\ next = "input"
         \/ w = "accept" /\ from = "handshake" /\ what = "secure" /\ next = "end"
         \/ w = "command" /\ from = "send" /\ what = "reply" /\ next = "input"
         \/ w = "command" /\ from = "handshake" /\ what = "secure" /\ next = "end"
         \/ w = "timedOut" /\ from = "send" /\ what = "shutdown" /\ next = "end"
         \/ w = "complete" /\ from = "send" /\ what = "reply" /\ next = "end",
         Sending(w, from, what, next)
  PROVE  ConnectionIInv'
  <1> USE DEF ConnectionIInv
  <1>1. /\ pc[w] = from /\ call[w] = None /\ sending' = what /\ Goto(w, next)
        /\ UNCHANGED <<active, pending, activeFlags, filter, queued, closes, todo, call, job,
                       socket, receiving, data, bActive, timers, inputTimer,
                       logoff, commands, dataLock, closed>>
    BY DEF Sending, At, Free, cjvars, clock, life
  <1>2. Moves(w, next)
    BY <1>1, ThreadNames, GotoMoves
  <1> USE DEF SessionThreads, Workers, Timers, Moves, Elsewhere
  <1>3. Active' = Active /\ Waiting' = Waiting
    BY <1>1 DEF Active, Waiting
  <1>4. CallsFit'
    BY <1>1, <1>2, CallsStay
  <1>5. PlacesFit'
    <2>1. PlaceOf(w, pc'[w]) /\ w \in SessionThreads
      BY <1>2, ThreadNames DEF PlaceOf
    <2> QED
      BY <1>2, <2>1, PlacesMove
  <1>6. TableFits' /\ TodoFits' /\ ChannelsFit'
    BY <1>1, <1>3 DEF TableFits, TodoFits, ChannelsFit
  <1>7. ClosesLast'
    BY <1>1, <1>2, <1>3 DEF ClosesLast, InTodo
  <1>8. ProcsHeld'
    BY <1>1, <1>2, <1>3 DEF ProcsHeld, OneHolder, Runs, InHand, InTodo
  <1>9. InputHeld'
    BY <1>1, <1>2, <1>3 DEF InputHeld, Receives, Receivers
  <1>10. SendHeld'
    BY <1>1, <1>2, <1>3 DEF SendHeld, Sends, Senders, Replying
  <1>11. TransferHeld' /\ Apart' /\ Unspoken'
    BY <1>1, <1>2, <1>3 DEF TransferHeld, Beginning, Apart, Unspoken, Replying
  <1>12. GreetsAlone' /\ ReadsOnce'
    BY <1>1, <1>2, <1>3 DEF GreetsAlone, ReadsOnce, GreetingReads, HandshakeReads, CommandReads,
                            Greeting, Replying, ProcsHeld, OneHolder, Runs, SendHeld, Sends, Senders
  <1>13. TimersFit'
    BY <1>1, <1>2, <1>3 DEF TimersFit, Listens, AsksInput, InHand, InTodo
  <1> QED
    BY <1>4, <1>5, <1>6, <1>7, <1>8, <1>9, <1>10, <1>11, <1>12, <1>13

-------------------------------------------------------------------------------
(* Adding jobs.                                                            *)

\* Who adds which job, where, and where he goes on.
Adder(t, op, from, k, ok, fail) ==
  \/ t = "accept" /\ op = "add" /\ from = "run" /\ k = Reply /\ ok = "greet" /\ fail = "failed"
  \/ t = "accept" /\ op = "add" /\ from = "run" /\ k = Secure /\ ok = "handshake" /\ fail = "failed"
  \/ t = "command" /\ op = "addExclusive" /\ from = "reply" /\ k = Reply /\ ok = "send" /\ fail = "input"
  \/ t = "command" /\ op = "addExclusive" /\ from = "secure" /\ k = Secure /\ ok = "handshake" /\ fail = "end"
  \/ t = "timedOut" /\ op = "addExclusive" /\ from = "reply" /\ k = Reply /\ ok = "send" /\ fail = "end"
  \/ t = "complete" /\ op = "addExclusive" /\ from = "reply" /\ k = Reply /\ ok = "send" /\ fail = "end"
  \/ t = "command" /\ op = "add" /\ from = "begin" /\ k = Transfer /\ ok = "continue" /\ fail = "refused"
  \/ t = "command" /\ op = "add" /\ from = "complete" /\ k = Complete /\ ok = "reply" /\ fail = "reply"
  \/ t = "receive" /\ op = "add" /\ from = "line" /\ k = Command /\ ok = "end" /\ fail = "end"
  \/ t \in Timers /\ op = "add" /\ from = "run" /\ k = TimedOut /\ ok = "return" /\ fail = "return"

(* Between the two tests nothing has happened but the first.               *)
LEMMA TestedKeeps ==
  ASSUME ConnectionIInv, NEW t, NEW op, NEW from, NEW k, NEW ok, NEW fail,
         Adder(t, op, from, k, ok, fail),
         pc[t] = from, TestFilter(t, k, op), UNCHANGED <<pc, io, clock, life>>
  PROVE  ConnectionIInv'
  <1> USE DEF ConnectionIInv
  <1>1. t \in SessionThreads /\ k \in SessionJobs /\ op \in {"add", "addExclusive"} /\ k # Input
    BY ThreadNames, KindsDiffer DEF Adder
  <1>2. /\ call[t] = None /\ call' = [call EXCEPT ![t] = [id |-> op, kind |-> k]]
        /\ UNCHANGED <<active, pending, activeFlags, filter, queued, closes, todo, job,
                       pc, socket, receiving, sending, data, bActive, timers, inputTimer,
                       logoff, commands, dataLock, closed>>
    BY DEF TestFilter, Free, table, io, clock, life
  <1>3. Active' = Active /\ Waiting' = Waiting
    BY <1>2 DEF Active, Waiting
  <1>4. /\ call' \in [SessionThreads -> {None} \cup [id : {"add", "addExclusive"}, kind : SessionJobs]]
        /\ call'[t] = [id |-> op, kind |-> k]
        /\ \A u \in SessionThreads \ {t} : call'[u] = call[u]
    BY <1>1, <1>2 DEF CallsFit
  <1>5. CallsFit'
    <2>1. MayAsk(t)'
      BY <1>2, <1>4 DEF Adder, MayAsk, Asks
    <2>2. ASSUME NEW u \in SessionThreads \ {t}, call'[u] # None PROVE MayAsk(u)'
      BY <1>2, <1>4, <2>2 DEF CallsFit, MayAsk, Asks
    <2> QED
      BY <1>4, <2>1, <2>2 DEF CallsFit
  <1>6. TableFits' /\ PlacesFit' /\ TodoFits' /\ ChannelsFit' /\ ClosesLast'
    BY <1>2, <1>3 DEF TableFits, PlacesFit, TodoFits, ChannelsFit, ClosesLast, InTodo
  <1>7. ProcsHeld' /\ InputHeld' /\ SendHeld' /\ TransferHeld'
    BY <1>2, <1>3 DEF ProcsHeld, OneHolder, Runs, InHand, InTodo, InputHeld, Receives, SendHeld, Sends,
                      Replying, TransferHeld, Beginning
  <1>8. Apart' /\ Unspoken' /\ GreetsAlone' /\ ReadsOnce'
    BY <1>2, <1>3 DEF Apart, Unspoken, Replying, GreetsAlone, Greeting, ReadsOnce, GreetingReads,
                      HandshakeReads, CommandReads
  <1>9. TimersFit'
    <2>1. \A u \in {"accept", "sent", "command"} : AsksInput(u)' <=> AsksInput(u)
      BY <1>1, <1>2, <1>4, ThreadNames DEF AsksInput
    <2>2. Listens' <=> Listens
      BY <1>3, <2>1 DEF Listens
    <2> QED
      BY <1>2, <2>2 DEF TimersFit, InHand, InTodo
  <1> QED
    BY <1>5, <1>6, <1>7, <1>8, <1>9

\* What adding a job leaves alone.
AddLeaves(t) ==
  /\ call[t] # None => call' = [call EXCEPT ![t] = None]
  /\ call[t] = None => call' = call
  /\ todo[t] = <<>> /\ TableFits'
  /\ UNCHANGED <<filter, queued, closes, job, socket, receiving, sending, data, bActive,
                 timers, inputTimer, logoff, commands, dataLock, closed>>

(* A job is refused, before or after the lock is taken.                    *)
LEMMA RefusedKeeps ==
  ASSUME ConnectionIInv, NEW t, NEW op, NEW from, NEW k, NEW ok, NEW fail,
         Adder(t, op, from, k, ok, fail),
         pc[t] = from, Goto(t, fail), AddLeaves(t), Refuses(t, k, <<>>)
  PROVE  ConnectionIInv'
  <1> USE DEF ConnectionIInv
  <1>1. t \in SessionThreads
    BY ThreadNames DEF Adder
  <1>2. Moves(t, fail)
    BY <1>1, GotoMoves
  <1>3. /\ filter = ALL /\ k # Complete /\ Active' = Active /\ Waiting' = Waiting
        /\ call' = call \/ call' = [call EXCEPT ![t] = None]
        /\ call'[t] = None /\ todo' = todo
        /\ UNCHANGED <<filter, queued, closes, socket, receiving, sending, data, bActive, timers, inputTimer,
                       logoff, commands, dataLock, closed>>
    BY <1>1 DEF Refuses, AddLeaves, TodoFits, CallsFit
  <1>4. CallsFit'
    BY <1>1, <1>2, <1>3, CallsStay DEF Moves
  <1> USE DEF Adder
  <1>5. PlacesFit'
    <2>1. PlaceOf(t, fail)
      BY ThreadNames DEF PlaceOf
    <2> QED
      BY <1>1, <1>2, <2>1, PlacesMove
  <1> USE DEF SessionThreads, Workers, Timers, Moves, Elsewhere
  <1>6. TableFits' /\ TodoFits' /\ ChannelsFit'
    BY <1>3 DEF AddLeaves, TodoFits, ChannelsFit
  <1>7. ClosesLast'
    BY <1>2, <1>3 DEF ClosesLast, InTodo
  <1>8. ProcsHeld'
    BY <1>2, <1>3 DEF ProcsHeld, OneHolder, Runs, InHand, InTodo
  <1>9. InputHeld'
    BY <1>2, <1>3 DEF InputHeld, Receives, Receivers
  <1>10. SendHeld'
    BY <1>2, <1>3 DEF SendHeld, Sends, Senders, Replying
  <1>11. TransferHeld' /\ Apart'
    BY <1>2, <1>3 DEF TransferHeld, Beginning, Apart
  <1>12. Unspoken'
    BY <1>2, <1>3 DEF Unspoken, Replying
  <1>13. GreetsAlone' /\ ReadsOnce'
    BY <1>2, <1>3 DEF GreetsAlone, ReadsOnce, GreetingReads, HandshakeReads, CommandReads, Greeting, Replying
  <1>14. TimersFit'
    <2>1. \A u \in {"accept", "sent", "command"} : AsksInput(u)' <=> AsksInput(u)
      BY <1>1, <1>3, KindsDiffer DEF AsksInput, CallsFit, MayAsk, Asks
    <2>3. pc'["complete"] = "timer" <=> pc["complete"] = "timer"
      BY <1>2
    <2>4. Listens' <=> Listens
      BY <1>3, <2>1 DEF Listens
    <2> QED
      BY <1>3, <2>3, <2>4 DEF TimersFit, InHand, InTodo
  <1> QED
    BY <1>4, <1>5, <1>6, <1>7, <1>8, <1>9, <1>10, <1>11, <1>12,
       <1>13, <1>14

(* A reply starts: its thread has the right to send.                       *)
LEMMA ReplyStartsKeeps ==
  ASSUME ConnectionIInv, NEW t, NEW op, NEW from, NEW k, NEW ok, NEW fail,
         Adder(t, op, from, k, ok, fail), k \in {Reply, Secure}, ~ Replying,
         pc[t] = from, Goto(t, ok), AddLeaves(t), Starts(t, k)
  PROVE  ConnectionIInv'
  <1> USE DEF ConnectionIInv
  <1>1. t \in SessionThreads /\ t \in {"accept", "command", "timedOut", "complete"}
    BY ThreadNames, KindsDiffer DEF Adder
  <1>2. Moves(t, ok)
    BY <1>1, GotoMoves
  <1>3. /\ Active' = Active \cup {k} /\ Waiting' = Waiting
        /\ call' = call \/ call' = [call EXCEPT ![t] = None]
        /\ call'[t] = None /\ todo' = todo
        /\ UNCHANGED <<filter, queued, closes, socket, receiving, sending, data, bActive, timers, inputTimer,
                       logoff, commands, dataLock, closed>>
    BY <1>1, KindsAre DEF Starts, AddLeaves, TodoFits, CallsFit
  <1>4. CallsFit'
    BY <1>1, <1>2, <1>3, CallsStay DEF Moves
  <1>5. /\ t = "accept" => from = "run" /\ (k = Reply => ok = "greet") /\ (k = Secure => ok = "handshake")
        /\ t = "command" => \/ from = "reply" /\ k = Reply /\ ok = "send"
                            \/ from = "secure" /\ k = Secure /\ ok = "handshake"
        /\ t \in {"timedOut", "complete"} => from = "reply" /\ ok = "send" /\ k = Reply
    BY <1>1, KindsDiffer DEF Adder, Timers
  <1>6. PlacesFit'
    <2>1. PlaceOf(t, ok)
      BY <1>1, <1>5 DEF PlaceOf
    <2> QED
      BY <1>1, <1>2, <2>1, PlacesMove
  <1> USE DEF SessionThreads, Workers, Timers, Moves, Elsewhere
  <1>7. TableFits' /\ TodoFits' /\ ChannelsFit'
    BY <1>3 DEF AddLeaves, TodoFits, ChannelsFit
  <1>8. Active # {}
    BY <1>1, <1>5 DEF ProcsHeld, OneHolder, Runs
  <1>9. ClosesLast'
    BY <1>1, <1>2, <1>3, <1>8 DEF ClosesLast, InTodo
  <1>10. ProcsHeld'
    BY <1>1, <1>2, <1>3, <1>5, KindsDiffer DEF ProcsHeld, OneHolder, Runs, InHand, InTodo
  <1>11. InputHeld'
    BY <1>1, <1>2, <1>3, <1>5, KindsDiffer DEF InputHeld, Receives, Receivers
  <1>12. SendHeld'
    BY <1>1, <1>2, <1>3, <1>5, KindsDiffer DEF SendHeld, Sends, Senders, Replying
  <1>13. TransferHeld'
    BY <1>1, <1>2, <1>3, <1>5, KindsDiffer DEF TransferHeld, Beginning
  <1>14. Apart'
    BY <1>1, <1>2, <1>3, <1>5, KindsDiffer DEF Apart, ProcsHeld, OneHolder, Runs, GreetsAlone, Greeting
  <1>15. Unspoken'
    BY <1>1, <1>2, <1>3, <1>5, KindsDiffer DEF Unspoken, Replying, Apart, ProcsHeld, OneHolder, Runs, GreetsAlone,
        Greeting
  <1>16. GreetsAlone'
    BY <1>1, <1>2, <1>3, <1>5, KindsDiffer DEF GreetsAlone, Greeting, Replying, ProcsHeld, OneHolder, Runs
  <1>17. ReadsOnce'
    BY <1>1, <1>2, <1>3, <1>5, KindsDiffer DEF ReadsOnce, GreetingReads, HandshakeReads, CommandReads, Greeting
  <1>18. TimersFit'
    <2>1. \A u \in {"accept", "sent", "command"} : AsksInput(u)' <=> AsksInput(u)
      BY <1>1, <1>2, <1>3, <1>5, KindsDiffer DEF AsksInput, CallsFit, MayAsk, Asks
    <2>2. Listens' <=> Listens
      BY <1>1, <1>2, <1>3, <2>1, KindsDiffer DEF Listens
    <2>3. pc'["complete"] = "timer" <=> pc["complete"] = "timer"
      BY <1>1, <1>2, <1>5
    <2> QED
      BY <1>3, <2>2, <2>3 DEF TimersFit, InHand, InTodo
  <1> QED
    BY <1>4, <1>6, <1>7, <1>9, <1>10, <1>11, <1>12, <1>13, <1>14, <1>15,
       <1>16, <1>17, <1>18

(* A transfer starts.                                                      *)
LEMMA TransferStartsKeeps ==
  ASSUME ConnectionIInv,
         pc["command"] = "begin", Goto("command", "continue"), AddLeaves("command"), Starts("command", Transfer)
  PROVE  ConnectionIInv'
  <1> USE DEF ConnectionIInv
  <1>1. Moves("command", "continue")
    BY ThreadNames, GotoMoves
  <1>2. /\ Active' = Active \cup {Transfer} /\ Waiting' = Waiting
        /\ call' = call \/ call' = [call EXCEPT !["command"] = None]
        /\ call'["command"] = None /\ todo' = todo
        /\ UNCHANGED <<filter, queued, closes, socket, receiving, sending, data, bActive, timers, inputTimer,
                       logoff, commands, dataLock, closed>>
    BY ThreadNames, KindsAre DEF Starts, AddLeaves, TodoFits, CallsFit
  <1>3. CallsFit'
    BY <1>1, <1>2, ThreadNames, CallsStay DEF Moves
  <1>4. PlacesFit'
    BY <1>1, ThreadNames, PlacesMove DEF PlaceOf
  <1> USE DEF SessionThreads, Workers, Timers, Moves, Elsewhere
  <1>5. TableFits' /\ TodoFits' /\ ChannelsFit'
    BY <1>2 DEF AddLeaves, TodoFits, ChannelsFit
  <1>6. Command \in Active /\ Complete \notin Active /\ Accept \notin queued
    BY <1>2, KindsDiffer DEF ProcsHeld, OneHolder, Runs, Apart, GreetsAlone, Greeting
  <1>7. ClosesLast'
    BY <1>1, <1>2, <1>6 DEF ClosesLast, InTodo
  <1>8. ProcsHeld'
    BY <1>1, <1>2, KindsDiffer DEF ProcsHeld, OneHolder, Runs, InHand, InTodo
  <1>9. InputHeld' /\ SendHeld'
    BY <1>1, <1>2, KindsDiffer DEF InputHeld, Receives, Receivers, SendHeld, Sends, Senders, Replying
  <1>10. TransferHeld'
    BY <1>1, <1>2, <1>6, KindsDiffer DEF TransferHeld, Beginning
  <1>11. Apart' /\ Unspoken'
    BY <1>1, <1>2, KindsDiffer DEF Apart, Unspoken, Replying
  <1>12. GreetsAlone'
    BY <1>1, <1>2, <1>6, KindsDiffer DEF GreetsAlone, Greeting, Replying
  <1>13. ReadsOnce'
    BY <1>1, <1>2, KindsDiffer DEF ReadsOnce, GreetingReads, HandshakeReads, CommandReads, Greeting
  <1>14. TimersFit'
    <2>1. \A u \in {"accept", "sent", "command"} : AsksInput(u)' <=> AsksInput(u)
      BY <1>1, <1>2, KindsDiffer DEF AsksInput, CallsFit, MayAsk, Asks
    <2>2. Listens' <=> Listens
      BY <1>2, <2>1, KindsDiffer DEF Listens
    <2> QED
      BY <1>1, <1>2, <2>2 DEF TimersFit, InHand, InTodo
  <1> QED
    BY <1>3, <1>4, <1>5, <1>7, <1>8, <1>9, <1>10, <1>11,
       <1>12, <1>13, <1>14

(* A timeout starts at once: the thread of the timer has its proc to       *)
(* queue.  The client is not being closed, or the timer would not run.     *)
LEMMA TimedOutStartsKeeps ==
  ASSUME ConnectionIInv, NEW i \in Timers, timers[i] # "free", ~ Over,
         pc[i] = "run", Goto(i, "return"), AddLeaves(i), Starts(i, TimedOut)
  PROVE  ConnectionIInv'
  <1> USE DEF ConnectionIInv
  <1>1. i \in SessionThreads
    BY ThreadNames
  <1>2. Moves(i, "return")
    BY <1>1, GotoMoves
  <1>3. /\ filter = {} /\ Active' = Active \cup {TimedOut} /\ Waiting' = Waiting
        /\ TimedOut \notin Active /\ \A k \in Active : TimedOut.classes \cap k.classes = {}
        /\ call' = call \/ call' = [call EXCEPT ![i] = None]
        /\ call'[i] = None /\ todo[i] = <<>> /\ todo' = [todo EXCEPT ![i] = <<TimedOut>>]
        /\ UNCHANGED <<filter, queued, closes, socket, receiving, sending, data, bActive, timers, inputTimer,
                       logoff, commands, dataLock, closed>>
    BY <1>1, KindsAre, KindsDiffer DEF Starts, AddLeaves, CallsFit
  <1>4. CallsFit'
    BY <1>1, <1>2, <1>3, CallsStay DEF Moves
  <1>5. PlacesFit'
    BY <1>1, <1>2, PlacesMove DEF PlaceOf
  <1>6. todo'[i] = <<TimedOut>> /\ \A u \in SessionThreads \ {i} : todo'[u] = todo[u]
    BY <1>1, <1>3 DEF TodoFits
  <1>7. /\ \A x : InTodo(x, i)' <=> x = TimedOut
        /\ \A x : ~ InTodo(x, i)
        /\ \A x : \A u \in SessionThreads \ {i} : InTodo(x, u)' <=> InTodo(x, u)
    BY <1>3, <1>6 DEF InTodo, ToSet
  <1>8. TableFits' /\ ChannelsFit'
    BY <1>3 DEF AddLeaves, ChannelsFit
  <1>9. TodoFits'
    <2>1. TimedOut \in Errands
      BY DEF Errands, Waiters
    <2>2. \A u \in SessionThreads : \A m, n \in DOMAIN todo'[u] : todo'[u][m] = todo'[u][n] => m = n
      BY <1>6 DEF TodoFits
    <2> QED
      BY <1>1, <1>3, <2>1, <2>2 DEF TodoFits
  <1>10. /\ TimedOut \in Waiters /\ Reply \notin Active /\ Secure \notin Active /\ Command \notin Active
         /\ Complete \notin Active
    <2>1. TimedOut \in Waiters /\ Command \in Waiters /\ Complete \in Waiters
      BY DEF Waiters
    <2> QED
      BY <1>3, <2>1, KindsShare
  <1>11. closes = 0 /\ \A u \in SessionThreads : ~ InTodo(Close, u)
    <2>1. filter # ALL
      BY <1>3 DEF ALL
    <2> QED
      BY <2>1 DEF Over, Closing, ClosesLast, InTodo
  <1>12. ~ Greeting
    BY DEF GreetsAlone
  <1> USE DEF SessionThreads, Workers, Timers, Moves, Elsewhere
  <1>13. ClosesLast'
    BY <1>2, <1>3, <1>6, <1>7, <1>11, MarksDiffer, KindsDiffer DEF ClosesLast
  <1>14. ProcsHeld'
    <2> HIDE DEF SessionThreads, Workers, Timers
    <2>1. InHand(TimedOut)' /\ \A x : x # TimedOut => (InHand(x)' <=> InHand(x))
      BY <1>1, <1>7 DEF InHand
    <2>2. OneHolder(TimedOut, "timedOut")'
      BY <1>1, <1>2, <1>3, <1>7, <2>1, ThreadNames DEF ProcsHeld, OneHolder, Runs, InHand
    <2>3. OneHolder(Accept, "accept")' /\ OneHolder(Command, "command")' /\ OneHolder(Complete, "complete")'
      BY <1>1, <1>2, <1>3, <1>7, <2>1, ThreadNames, KindsDiffer DEF ProcsHeld, OneHolder, Runs
    <2> QED
      BY <2>2, <2>3 DEF ProcsHeld
  <1>15. InputHeld' /\ SendHeld'
    BY <1>2, <1>3, KindsDiffer DEF InputHeld, Receives, Receivers, SendHeld, Sends, Senders, Replying
  <1>16. TransferHeld'
    BY <1>2, <1>3, KindsDiffer DEF TransferHeld, Beginning
  <1>17. Apart' /\ Unspoken'
    BY <1>2, <1>3, <1>10, KindsDiffer DEF Apart, Unspoken, Replying
  <1>18. GreetsAlone'
    BY <1>2, <1>3, <1>12 DEF GreetsAlone, Greeting
  <1>19. ReadsOnce'
    BY <1>2, <1>3, <1>12, KindsDiffer DEF ReadsOnce, GreetingReads, HandshakeReads, CommandReads, Greeting
  <1>20. TimersFit'
    <2>1. \A u \in {"accept", "sent", "command"} : AsksInput(u)' <=> AsksInput(u)
      BY <1>2, <1>3 DEF AsksInput, CallsFit
    <2>2. Listens' <=> Listens
      BY <1>3, <2>1, KindsDiffer DEF Listens
    <2>3. \A j \in Timers : InHand(StopOf(j))' <=> InHand(StopOf(j))
      BY <1>1, <1>7, MarksDiffer, KindsDiffer DEF InHand
    <2> QED
      BY <1>2, <1>3, <2>2, <2>3 DEF TimersFit
  <1> QED
    BY <1>4, <1>5, <1>8, <1>9, <1>13, <1>14, <1>15, <1>16, <1>17,
       <1>18, <1>19, <1>20

(* A job has to wait: a command for the input job to end, a complete for   *)
(* the command.                                                            *)
LEMMA PostponedKeeps ==
  ASSUME ConnectionIInv, NEW t, NEW op, NEW from, NEW k, NEW ok, NEW fail,
         Adder(t, op, from, k, ok, fail), k \in Waiters, t \in Timers => timers[t] # "free",
         pc[t] = from, Goto(t, ok), AddLeaves(t), Postpones(k)
  PROVE  ConnectionIInv'
  <1> USE DEF ConnectionIInv
  <1>1. \/ t = "command" /\ from = "complete" /\ k = Complete /\ ok = "reply"
        \/ t = "receive" /\ from = "line" /\ k = Command /\ ok = "end"
        \/ t \in Timers /\ from = "run" /\ k = TimedOut /\ ok = "return"
    BY KindsDiffer DEF Adder, Waiters
  <1>2. t \in SessionThreads
    BY <1>1, ThreadNames
  <1>3. Moves(t, ok)
    BY <1>2, GotoMoves
  <1>4. /\ Active' = Active /\ Waiting' = Waiting \cup {k} /\ Active # {}
        /\ call' = call \/ call' = [call EXCEPT ![t] = None]
        /\ call'[t] = None /\ todo' = todo
        /\ UNCHANGED <<filter, queued, closes, socket, receiving, sending, data, bActive, timers, inputTimer,
                       logoff, commands, dataLock, closed>>
    BY <1>2 DEF Postpones, AddLeaves, CallsFit
  <1>5. CallsFit'
    BY <1>2, <1>3, <1>4, CallsStay DEF Moves
  <1>6. PlacesFit'
    BY <1>1, <1>2, <1>3, PlacesMove DEF PlaceOf
  <1>7. ~ Greeting
    BY <1>1, <1>2, ThreadNames, KindsDiffer
    DEF GreetsAlone, Greeting, ProcsHeld, OneHolder, Runs, InputHeld, Receives, Receivers
  <1> USE DEF SessionThreads, Workers, Timers, Moves, Elsewhere
  <1>8. TableFits' /\ TodoFits' /\ ChannelsFit'
    BY <1>4 DEF AddLeaves, TodoFits, ChannelsFit
  <1>9. ClosesLast'
    BY <1>1, <1>3, <1>4 DEF ClosesLast, InTodo
  <1>10. ProcsHeld'
    BY <1>1, <1>3, <1>4 DEF ProcsHeld, OneHolder, Runs, InHand, InTodo
  <1>11. InputHeld' /\ SendHeld'
    BY <1>1, <1>3, <1>4 DEF InputHeld, Receives, Receivers, SendHeld, Sends, Senders, Replying
  <1>12. TransferHeld'
    BY <1>1, <1>3, <1>4, KindsDiffer DEF TransferHeld, Beginning, ProcsHeld, OneHolder, Runs, Apart
  <1>13. Apart' /\ Unspoken'
    BY <1>1, <1>3, <1>4 DEF Apart, Unspoken, Replying
  <1>14. GreetsAlone'
    BY <1>1, <1>3, <1>4, <1>7 DEF GreetsAlone, Greeting
  <1>15. ReadsOnce'
    BY <1>1, <1>3, <1>4, <1>7, KindsDiffer
    DEF ReadsOnce, GreetingReads, HandshakeReads, CommandReads, Greeting, InputHeld, Receives, Receivers
  <1>16. TimersFit'
    <2>1. \A u \in {"accept", "sent", "command"} : AsksInput(u)' <=> AsksInput(u)
      BY <1>1, <1>3, <1>4, KindsDiffer DEF AsksInput, CallsFit, MayAsk, Asks
    <2>2. Listens' <=> Listens
      BY <1>4, <2>1 DEF Listens
    <2> QED
      BY <1>1, <1>3, <1>4, <2>2 DEF TimersFit, InHand, InTodo
  <1> QED
    BY <1>5, <1>6, <1>8, <1>9, <1>10, <1>11, <1>12, <1>13,
       <1>14, <1>15, <1>16

(* What a thread finds when it adds a job under the lock: the job is not   *)
(* in the table, and can wait if it has to.                                *)
LEMMA AdderFinds ==
  ASSUME ConnectionIInv, NEW t, NEW op, NEW from, NEW k, NEW ok, NEW fail,
         Adder(t, op, from, k, ok, fail), pc[t] = from
  PROVE  /\ t \in SessionThreads /\ k \in SessionJobs
         /\ k \in {Reply, Secure} => ~ Replying
         /\ k \in {Reply, Secure, Transfer} => \A m \in Active : m.id # k.id
         /\ k \in {Reply, Secure, Transfer} \/ k \in Waiters
         /\ k \in Waiting => k = TimedOut
         /\ k \in {Command, Complete} => \E m \in Active : k.classes \cap m.classes # {}
  <1> USE DEF ConnectionIInv
  <1>1. t \in SessionThreads /\ k \in SessionJobs
    BY ThreadNames, KindsDiffer DEF Adder
  <1>2. k \in {Reply, Secure} => ~ Replying
    <2>1. CASE t = "accept"
      BY <2>1 DEF Adder, Timers, GreetsAlone, Greeting
    <2>2. CASE t \in {"command", "timedOut", "complete"}
      BY <2>2, KindsDiffer DEF Adder, Timers, Unspoken, ProcsHeld, OneHolder, Runs
    <2> QED
      BY <2>1, <2>2, KindsDiffer DEF Adder
  <1>3. k \in {Reply, Secure, Transfer} \/ k \in Waiters
    BY DEF Adder, Waiters
  <1>4. k \in {Reply, Secure, Transfer} => \A m \in Active : m.id # k.id
    <2> SUFFICES ASSUME k \in {Reply, Secure, Transfer}, NEW m \in Active, m.id = k.id PROVE FALSE
      OBVIOUS
    <2>1. m \in SessionJobs
      BY TableJobs
    <2>2. CASE k \in {Reply, Secure}
      BY <1>2, <2>1, <2>2, KindsAre, KindsDiffer DEF Replying
    <2>3. CASE k = Transfer
      <3>1. m = Transfer
        BY <2>1, <2>3, KindsAre, KindsDiffer
      <3>2. pc["command"] = "begin"
        BY <2>3, KindsDiffer DEF Adder
      <3> QED
        BY <3>1, <3>2 DEF TransferHeld, Beginning
    <2> QED
      BY <2>2, <2>3
  <1>5. k = Command => Input \in Active /\ k \notin Waiting
    <2> SUFFICES ASSUME k = Command PROVE Input \in Active /\ k \notin Waiting
      OBVIOUS
    <2>1. pc["receive"] = "line"
      BY KindsDiffer DEF Adder
    <2> QED
      BY <2>1 DEF InputHeld, Receives, Receivers, ReadsOnce
  <1>6. k = Complete => Command \in Active /\ k \notin Waiting
    <2> SUFFICES ASSUME k = Complete PROVE Command \in Active /\ k \notin Waiting
      OBVIOUS
    <2>1. pc["command"] = "complete"
      BY KindsDiffer DEF Adder
    <2> QED
      BY <2>1 DEF ProcsHeld, OneHolder, Runs, TransferHeld
  <1>7. k \in Waiting => k = TimedOut
    <2>1. k \in Waiting => k \in Waiters
      BY TableJobs
    <2> QED
      BY <1>5, <1>6, <2>1 DEF Waiters
  <1>8. k \in {Command, Complete} => \E m \in Active : k.classes \cap m.classes # {}
    BY <1>5, <1>6, KindsShare DEF Waiters
  <1> QED
    BY <1>1, <1>2, <1>3, <1>4, <1>7, <1>8

(* So nobody blocks in AddExclusiveClientJob.                              *)
LEMMA AddsEffect ==
  ASSUME ConnectionIInv, NEW t, NEW op, NEW from, NEW k, NEW ok, NEW fail,
         Adder(t, op, from, k, ok, fail), pc[t] = from,
         Calls(t, op), call[t].kind = k,
         IF op = "add" THEN AddClientJob(t, <<>>) ELSE AddExclusiveClientJob(t)
  PROVE  /\ Enter(t, <<>>) /\ call' = Returned(t) /\ todo[t] = <<>>
         /\ UNCHANGED <<queued, closes, job>>
  <1>1. CASE op = "add"
    BY <1>1 DEF AddClientJob, Calls
  <1>2. CASE op # "add"
    <2>1. k \in {Reply, Secure} /\ k.id = "2"
      BY <1>2, KindsAre DEF Adder
    <2>2. Ids(active) = {m.id : m \in Active} /\ Ids(pending) = {m.id : m \in Waiting}
      BY TableKinds DEF Active, Waiting
    <2>3. \A m \in Active : m.id # k.id
      <3>1. /\ ConnectionIInv /\ Adder(t, op, from, k, ok, fail) /\ pc[t] = from
        OBVIOUS
      <3>2. k \in {Reply, Secure, Transfer} => \A m \in Active : m.id # k.id
        BY ONLY <3>1, AdderFinds
      <3> QED
        BY <2>1, <3>2
    <2>4. \A m \in Waiting : m.id # k.id
      BY <2>1, TableJobs, KindsAre DEF ConnectionIInv, Waiters
    <2>5. k.id \notin Ids(active) \cup Ids(pending)
      BY <2>2, <2>3, <2>4
    <2> QED
      BY <1>2, <2>5 DEF AddExclusiveClientJob, Calls
  <1> QED
    BY <1>1, <1>2

LEMMA AddingKeeps ==
  ASSUME ConnectionIInv, NEW t, NEW op, NEW from, NEW k, NEW ok, NEW fail,
         Adder(t, op, from, k, ok, fail),
         t \in Timers => timers[t] # "free" /\ ~ Over,
         Adding(t, op, from, k, ok, fail)
  PROVE  ConnectionIInv'
  <1>1. /\ t \in SessionThreads /\ k \in SessionJobs /\ pc[t] = from
        /\ k \in {Reply, Secure} => ~ Replying
        /\ k \in {Reply, Secure, Transfer} => \A m \in Active : m.id # k.id
        /\ k \in {Reply, Secure, Transfer} \/ k \in Waiters
        /\ k \in Waiting => k = TimedOut
        /\ k \in {Command, Complete} => \E m \in Active : k.classes \cap m.classes # {}
    BY AdderFinds DEF Adding
  <1>2. UNCHANGED <<io, clock, life>>
    BY DEF Adding
  <1>3. TableFits /\ CallsFit /\ TodoFits /\ filter \in {{}, ALL}
    BY DEF ConnectionIInv, TableFits
  <1>4. Refused(k) <=> filter = ALL /\ k # Complete
    BY <1>1, <1>3, RefusedMeans
  <1>5. CASE TestFilter(t, k, op) /\ UNCHANGED pc
    BY <1>1, <1>2, <1>5, TestedKeeps
  <1>6. CASE Free(t) /\ Refused(k) /\ Goto(t, fail) /\ UNCHANGED cjvars
    <2>1. Active' = Active /\ Waiting' = Waiting /\ todo' = [todo EXCEPT ![t] = <<>>] /\ todo[t] = <<>>
      BY <1>1, <1>3, <1>6 DEF cjvars, Active, Waiting, Free, TodoFits
    <2>2. TableFits'
      BY <1>3, <1>6, <2>1 DEF cjvars, TableFits
    <2>3. AddLeaves(t)
      BY <1>2, <1>6, <2>1, <2>2 DEF AddLeaves, cjvars, Free, io, clock, life
    <2>4. Refuses(t, k, <<>>)
      BY <1>4, <1>6, <2>1 DEF Refuses
    <2> QED
      BY <1>1, <1>6, <2>3, <2>4, RefusedKeeps
  <1>7. CASE /\ Calls(t, op) /\ call[t].kind = k
             /\ IF op = "add" THEN AddClientJob(t, <<>>) ELSE AddExclusiveClientJob(t)
             /\ Goto(t, IF Refused(k) THEN fail ELSE ok)
    <2>1. /\ Enter(t, <<>>) /\ call' = Returned(t) /\ todo[t] = <<>>
          /\ UNCHANGED <<queued, closes, job>>
      BY <1>1, <1>7, AddsEffect
    <2>2. /\ TableFits' /\ filter' = filter
          /\ Refuses(t, k, <<>>) \/ Starts(t, k) \/ Postpones(k)
      <3>1. k \in Waiters => ~ k.instant
        BY KindsAre DEF Waiters
      <3>2. k.instant => \A m \in Active : m.id # k.id
        BY <1>1, <3>1
      <3>3. k \in Waiters \/ k.instant
        BY <1>1, KindsAre
      <3> QED
        BY <1>1, <1>3, <1>7, <2>1, <3>2, <3>3, EnterEffect
    <2>3. AddLeaves(t)
      <3>1. call[t] # None
        <4>1. call[t].id \in {"add", "addExclusive"} /\ None.id = "none"
          BY <1>7 DEF Calls, Adder, None
        <4> QED
          BY <4>1
      <3> QED
        BY <1>2, <2>1, <2>2, <3>1 DEF AddLeaves, Returned, io, clock, life
    <2>4. CASE Refuses(t, k, <<>>)
      BY <1>1, <1>4, <1>7, <2>3, <2>4, RefusedKeeps DEF Refuses
    <2>5. CASE Starts(t, k)
      <3>1. Goto(t, ok)
        BY <1>4, <1>7, <2>5 DEF Starts, ALL
      <3>2. k \notin {Command, Complete}
        <4>1. ~ Command.instant /\ ~ Complete.instant
          BY KindsAre
        <4> QED
          BY <1>1, <2>5, <4>1 DEF Starts
      <3>3. CASE k \in {Reply, Secure}
        BY <1>1, <2>3, <2>5, <3>1, <3>3, ReplyStartsKeeps
      <3>4. CASE k = Transfer
        BY <1>1, <2>3, <2>5, <3>1, <3>4, TransferStartsKeeps, KindsDiffer DEF Adder
      <3>5. CASE k = TimedOut
        BY <1>1, <2>3, <2>5, <3>1, <3>5, TimedOutStartsKeeps, KindsDiffer DEF Adder
      <3> QED
        BY <1>1, <3>2, <3>3, <3>4, <3>5 DEF Waiters
    <2>6. CASE Postpones(k)
      <3>1. Goto(t, ok)
        BY <1>4, <1>7, <2>6 DEF Postpones, ALL
      <3>2. k \in Waiters
        BY <1>1, <2>6, KindsAre DEF Postpones
      <3> QED
        BY <1>1, <2>3, <2>6, <3>1, <3>2, PostponedKeeps
    <2> QED
      BY <2>2, <2>4, <2>5, <2>6
  <1> QED
    BY <1>5, <1>6, <1>7 DEF Adding

-------------------------------------------------------------------------------
(* Asking for the next line.                                               *)

Reader(t, from, ok, fail) ==
  \/ t = "accept" /\ from = "input" /\ ok = "end" /\ fail = "failed"
  \/ t = "sent" /\ from = "secure" /\ ok = "end" /\ fail = "end"
  \/ t = "command" /\ from = "input" /\ ok = "end" /\ fail = "end"

(* Who is to ask for the next line is alone: nobody asks, nobody listens.  *)
LEMMA ReadersAlone ==
  ASSUME ConnectionIInv, NEW t, NEW from, NEW ok, NEW fail,
         Reader(t, from, ok, fail), pc[t] = from
  PROVE  /\ t \in SessionThreads /\ t \in {"accept", "sent", "command"}
         /\ Input \notin Active /\ Command \notin Waiting /\ Active # {}
         /\ \A u \in {"accept", "sent", "command"} \ {t} : ~ AsksInput(u)
         /\ call[t] # None => call[t].id = "add" /\ call[t].kind = Input
         /\ ~ Greeting
         /\ t # "accept" => pc["accept"] # "input"
         /\ t # "sent" => ~ HandshakeReads
         /\ t # "command" => ~ CommandReads
         /\ t = "command" => Command \in Active
         /\ t = "sent" => Secure \in Active /\ sending # "secure"
  <1> USE DEF ConnectionIInv
  <1>1. t \in SessionThreads /\ t \in {"accept", "sent", "command"}
    BY ThreadNames DEF Reader
  <1>2. call[t] # None => call[t].id = "add" /\ call[t].kind = Input
    BY <1>1 DEF Reader, CallsFit, MayAsk, Asks, Timers
  <1>3. /\ t = "accept" => Accept \in Active
        /\ t = "command" => Command \in Active
        /\ t = "sent" => Secure \in Active /\ sending # "secure"
    BY DEF Reader, ProcsHeld, OneHolder, Runs, SendHeld, Sends, Senders
  <1>4. ~ Greeting
    <2>1. t = "accept" => ~ Greeting
      BY DEF Reader, Greeting, ProcsHeld, OneHolder, Runs
    <2>2. t = "command" => ~ Greeting
      BY <1>3, KindsDiffer DEF GreetsAlone
    <2>3. t = "sent" => ~ Greeting
      BY DEF Reader, ReadsOnce, GreetingReads, HandshakeReads
    <2> QED
      BY <1>1, <2>1, <2>2, <2>3
  <1>5. /\ Input \notin Active /\ Command \notin Waiting
        /\ t # "accept" => pc["accept"] # "input"
        /\ t # "sent" => ~ HandshakeReads
        /\ t # "command" => ~ CommandReads
    BY <1>1, <1>3 DEF Reader, ReadsOnce, GreetingReads, HandshakeReads, CommandReads
  <1>6. ASSUME NEW u \in {"accept", "sent", "command"} \ {t}, AsksInput(u) PROVE FALSE
    <2>1. u \in SessionThreads /\ u \notin Timers
      BY ThreadNames
    <2>2. \/ u = "accept" /\ pc[u] = "input"
          \/ u = "sent" /\ pc[u] = "secure"
          \/ u = "command" /\ pc[u] = "input"
      BY <1>6, <2>1, KindsDiffer DEF AsksInput, CallsFit, MayAsk, Asks
    <2>3. u = "command" => Command \in Active
      BY <2>2 DEF ProcsHeld, OneHolder, Runs
    <2> QED
      BY <1>5, <1>6, <2>2, <2>3 DEF HandshakeReads, CommandReads
  <1> QED
    BY <1>1, <1>2, <1>3, <1>4, <1>5, <1>6

(* Nothing is asked for: the client is logged off, or the filter is set.   *)
LEMMA NotAskedKeeps ==
  ASSUME ConnectionIInv, NEW t, NEW from, NEW ok, NEW fail, Reader(t, from, ok, fail),
         At(t, from), Goto(t, fail), logoff \/ Refused(Input),
         UNCHANGED <<cjvars, receiving, clock>>, UNCHANGED <<socket, sending, data, bActive, life>>
  PROVE  ConnectionIInv'
  <1> USE DEF ConnectionIInv
  <1>1. t \in SessionThreads
    BY ReadersAlone DEF At
  <1>2. Moves(t, fail) /\ pc[t] = from /\ call[t] = None
    BY <1>1, GotoMoves DEF At, Free
  <1>3. UNCHANGED <<active, pending, activeFlags, filter, queued, closes, todo, call, job,
                    socket, receiving, sending, data, bActive, timers, inputTimer,
                    logoff, commands, dataLock, closed>>
    BY DEF cjvars, clock, life
  <1>4. Active' = Active /\ Waiting' = Waiting
    BY <1>3 DEF Active, Waiting
  <1>5. CallsFit'
    BY <1>1, <1>2, <1>3, CallsStay DEF Moves
  <1>6. PlacesFit'
    <2>1. PlaceOf(t, fail)
      BY DEF Reader, PlaceOf
    <2> QED
      BY <1>1, <1>2, <2>1, PlacesMove
  <1>7. ~ Greeting
    BY <1>2, ReadersAlone
  <1> USE DEF Reader, SessionThreads, Workers, Timers, Moves, Elsewhere
  <1>8. TableFits' /\ TodoFits' /\ ChannelsFit'
    BY <1>3, <1>4 DEF TableFits, TodoFits, ChannelsFit
  <1>9. ClosesLast'
    BY <1>2, <1>3, <1>4 DEF ClosesLast, InTodo
  <1>10. ProcsHeld'
    BY <1>2, <1>3, <1>4 DEF ProcsHeld, OneHolder, Runs, InHand, InTodo
  <1>11. InputHeld' /\ SendHeld'
    BY <1>2, <1>3, <1>4 DEF InputHeld, Receives, Receivers, SendHeld, Sends, Senders, Replying
  <1>12. TransferHeld' /\ Apart' /\ Unspoken'
    BY <1>2, <1>3, <1>4 DEF TransferHeld, Beginning, Apart, Unspoken, Replying
  <1>13. GreetsAlone'
    BY <1>2, <1>3, <1>7 DEF GreetsAlone, Greeting
  <1>14. ReadsOnce'
    BY <1>2, <1>3, <1>4, <1>7 DEF ReadsOnce, GreetingReads, HandshakeReads, CommandReads, Greeting
  <1>15. TimersFit'
    BY <1>2, <1>3, <1>4 DEF TimersFit, Listens, AsksInput, InHand, InTodo
  <1> QED
    BY <1>5, <1>6, <1>8, <1>9, <1>10, <1>11, <1>12,
       <1>13, <1>14, <1>15

(* The timer is armed, unless a transfer is active: nobody else has it.    *)
LEMMA TimerArmedKeeps ==
  ASSUME ConnectionIInv, NEW t, NEW from, NEW ok, NEW fail, Reader(t, from, ok, fail),
         At(t, from), TestFilter(t, Input, "add"),
         IF bActive THEN inputTimer' = "none" /\ UNCHANGED timers ELSE StartTimer,
         UNCHANGED <<pc, receiving>>, UNCHANGED <<socket, sending, data, bActive, life>>
  PROVE  ConnectionIInv'
  <1> USE DEF ConnectionIInv
  <1>1. /\ t \in SessionThreads /\ t \in {"accept", "sent", "command"}
        /\ Input \notin Active
        /\ \A u \in {"accept", "sent", "command"} \ {t} : ~ AsksInput(u)
        /\ ~ Greeting
    BY ReadersAlone DEF At
  <1>2. /\ pc[t] = from /\ call[t] = None /\ call' = [call EXCEPT ![t] = [id |-> "add", kind |-> Input]]
        /\ ~ Refused(Input)
        /\ UNCHANGED <<active, pending, activeFlags, filter, queued, closes, todo, job,
                       pc, socket, receiving, sending, data, bActive,
                       logoff, commands, dataLock, closed>>
    BY DEF At, TestFilter, Free, table, life
  <1>3. Active' = Active /\ Waiting' = Waiting
    BY <1>2 DEF Active, Waiting
  <1>4. /\ call' \in [SessionThreads -> {None} \cup [id : {"add", "addExclusive"}, kind : SessionJobs]]
        /\ call'[t] = [id |-> "add", kind |-> Input] /\ call'[t] # None
        /\ \A u \in SessionThreads \ {t} : call'[u] = call[u]
    BY <1>1, <1>2, KindsDiffer, MarksDiffer DEF CallsFit
  <1>5. CallsFit'
    <2>1. MayAsk(t)'
      BY <1>2, <1>4 DEF Reader, MayAsk, Asks
    <2>2. ASSUME NEW u \in SessionThreads \ {t}, call'[u] # None PROVE MayAsk(u)'
      BY <1>2, <1>4, <2>2 DEF CallsFit, MayAsk, Asks
    <2> QED
      BY <1>4, <2>1, <2>2 DEF CallsFit
  <1>6. TableFits' /\ PlacesFit' /\ TodoFits' /\ ChannelsFit' /\ ClosesLast'
    BY <1>2, <1>3 DEF TableFits, PlacesFit, TodoFits, ChannelsFit, ClosesLast, InTodo
  <1>7. ProcsHeld' /\ InputHeld' /\ SendHeld' /\ TransferHeld'
    BY <1>2, <1>3 DEF ProcsHeld, OneHolder, Runs, InHand, InTodo, InputHeld, Receives, SendHeld, Sends,
                      Replying, TransferHeld, Beginning
  <1>8. Apart' /\ Unspoken' /\ ReadsOnce'
    BY <1>2, <1>3 DEF Apart, Unspoken, Replying, Greeting, ReadsOnce, GreetingReads,
                      HandshakeReads, CommandReads
  <1>9. GreetsAlone'
    BY <1>1, <1>2 DEF GreetsAlone, Greeting
  <1>10. TimersFit'
    <2>1. inputTimer = "none"
      <3>1. filter # ALL
        BY <1>2, KindsDiffer, RefusedMeans DEF TableFits
      <3>2. ~ AsksInput(t)
        BY <1>2 DEF AsksInput
      <3> QED
        BY <1>1, <3>1, <3>2 DEF TimersFit, Listens
    <2>2. AsksInput(t)'
      BY <1>4 DEF AsksInput
    <2>3. CASE bActive
      BY <1>1, <1>2, <2>1, <2>2, <2>3 DEF TimersFit, Listens, InHand, InTodo
    <2>4. CASE ~ bActive
      <3>1. PICK i \in Timers : timers[i] = "free" /\ timers' = [timers EXCEPT ![i] = "idle"] /\ inputTimer' = i
        BY <2>4 DEF StartTimer
      <3>2. "none" \notin Timers
        BY DEF Timers
      <3>3. timers' \in [Timers -> {"free", "idle", "firing", "kill", "fired"}]
            /\ \A j \in Timers \ {i} : timers'[j] = timers[j]
        BY <3>1 DEF TimersFit
      <3>4. Listens'
        BY <1>1, <2>2 DEF Listens
      <3>5. \A j \in Timers \ {i} : timers[j] # "free" => InHand(StopOf(j))'
        BY <1>2, <2>1, <3>2 DEF TimersFit, InHand, InTodo
      <3> QED
        BY <3>1, <3>2, <3>3, <3>4, <3>5 DEF TimersFit
    <2> QED
      BY <2>3, <2>4
  <1> QED
    BY <1>5, <1>6, <1>7, <1>8, <1>9, <1>10

(* The input job starts: its thread has the right to receive.              *)
LEMMA InputStartsKeeps ==
  ASSUME ConnectionIInv, NEW t, NEW from, NEW ok, NEW fail, Reader(t, from, ok, fail),
         pc[t] = from, call[t] # None, Goto(t, "recv"), AddLeaves(t), Starts(t, Input)
  PROVE  ConnectionIInv'
  <1> USE DEF ConnectionIInv
  <1>1. /\ t \in SessionThreads /\ t \in {"accept", "sent", "command"}
        /\ Input \notin Active /\ Command \notin Waiting /\ Active # {}
        /\ \A u \in {"accept", "sent", "command"} \ {t} : ~ AsksInput(u)
        /\ ~ Greeting
        /\ t # "accept" => pc["accept"] # "input"
        /\ t # "sent" => ~ HandshakeReads
        /\ t # "command" => ~ CommandReads
        /\ t = "sent" => Secure \in Active /\ sending # "secure"
    BY ReadersAlone
  <1>2. Moves(t, "recv")
    BY <1>1, GotoMoves
  <1>3. /\ Active' = Active \cup {Input} /\ Waiting' = Waiting
        /\ call' = call \/ call' = [call EXCEPT ![t] = None]
        /\ call'[t] = None /\ todo' = todo
        /\ UNCHANGED <<filter, queued, closes, socket, receiving, sending, data, bActive, timers, inputTimer,
                       logoff, commands, dataLock, closed>>
    BY <1>1, KindsAre DEF Starts, AddLeaves, TodoFits, CallsFit
  <1>4. CallsFit'
    BY <1>1, <1>2, <1>3, CallsStay DEF Moves
  <1>5. PlacesFit'
    <2>1. PlaceOf(t, "recv")
      BY <1>1 DEF PlaceOf
    <2> QED
      BY <1>1, <1>2, <2>1, PlacesMove
  <1> USE DEF Reader, SessionThreads, Workers, Timers, Moves, Elsewhere
  <1>6. TableFits' /\ TodoFits' /\ ChannelsFit'
    BY <1>3 DEF AddLeaves, TodoFits, ChannelsFit
  <1>7. ClosesLast'
    BY <1>1, <1>2, <1>3 DEF ClosesLast, InTodo
  <1>8. ProcsHeld'
    BY <1>2, <1>3, KindsDiffer DEF ProcsHeld, OneHolder, Runs, InHand, InTodo
  <1>9. InputHeld'
    BY <1>1, <1>2, <1>3 DEF InputHeld, Receives, Receivers
  <1>10. SendHeld'
    BY <1>1, <1>2, <1>3, KindsDiffer DEF SendHeld, Sends, Senders, Replying
  <1>11. TransferHeld' /\ Apart'
    BY <1>2, <1>3, KindsDiffer DEF TransferHeld, Beginning, Apart
  <1>12. Unspoken'
    BY <1>2, <1>3, KindsDiffer DEF Unspoken, Replying
  <1>13. GreetsAlone'
    BY <1>1, <1>2, <1>3 DEF GreetsAlone, Greeting
  <1>14. ReadsOnce'
    BY <1>1, <1>2, <1>3, KindsDiffer DEF ReadsOnce, GreetingReads, HandshakeReads, CommandReads, Greeting
  <1>15. TimersFit'
    <2>1. inputTimer # "none" \/ bActive \/ pc["complete"] = "timer"
      BY <1>1, ReadersAlone DEF TimersFit, Listens, AsksInput
    <2>2. Listens'
      BY <1>3 DEF Listens
    <2> QED
      BY <1>1, <1>2, <1>3, <2>1, <2>2 DEF TimersFit, InHand, InTodo
  <1> QED
    BY <1>4, <1>5, <1>6, <1>7, <1>8, <1>9, <1>10, <1>11, <1>12,
       <1>13, <1>14, <1>15

(* The input job is refused after its timer was armed: the thread has the  *)
(* timer to stop.                                                          *)
LEMMA InputRefusedKeeps ==
  ASSUME ConnectionIInv, NEW t, NEW from, NEW ok, NEW fail, Reader(t, from, ok, fail),
         pc[t] = from, call[t] # None, Goto(t, fail), AddLeaves(t), Refuses(t, Input, Stop(inputTimer))
  PROVE  ConnectionIInv'
  <1> USE DEF ConnectionIInv
  <1>1. /\ t \in SessionThreads /\ t \in {"accept", "sent", "command"} /\ Active # {}
        /\ \A u \in {"accept", "sent", "command"} \ {t} : ~ AsksInput(u)
        /\ Input \notin Active /\ ~ Greeting
    BY ReadersAlone
  <1>2. Moves(t, fail)
    BY <1>1, GotoMoves
  <1>3. /\ filter = ALL /\ Active' = Active /\ Waiting' = Waiting
        /\ call' = [call EXCEPT ![t] = None] /\ call'[t] = None
        /\ todo[t] = <<>> /\ todo' = [todo EXCEPT ![t] = Stop(inputTimer)]
        /\ UNCHANGED <<filter, queued, closes, socket, receiving, sending, data, bActive, timers, inputTimer,
                       logoff, commands, dataLock, closed>>
    BY <1>1 DEF Refuses, AddLeaves, CallsFit
  <1>4. todo'[t] = Stop(inputTimer) /\ \A u \in SessionThreads \ {t} : todo'[u] = todo[u]
    BY <1>1, <1>3 DEF TodoFits
  <1>5. \/ inputTimer = "none" /\ Stop(inputTimer) = <<>>
        \/ inputTimer \in Timers /\ Stop(inputTimer) = <<StopOf(inputTimer)>>
    <2>1. "none" \notin Timers
      BY DEF Timers
    <2> QED
      BY <2>1 DEF TimersFit, Stop, StopOf
  <1>6. /\ \A x : InTodo(x, t)' => x \in Stops
        /\ \A x : ~ InTodo(x, t)
        /\ \A x : \A u \in SessionThreads \ {t} : InTodo(x, u)' <=> InTodo(x, u)
    <2>1. ToSet(<<>>) = {} /\ \A x : ToSet(<<x>>) = {x}
      BY DEF ToSet
    <2>2. \A x : InTodo(x, t)' => x \in Stops
      BY <1>4, <1>5, <2>1 DEF InTodo, Stops
    <2> QED
      BY <1>3, <1>4, <2>1, <2>2 DEF InTodo
  <1>7. \A x : x \notin Stops => (InHand(x)' <=> InHand(x)) /\ \A u \in SessionThreads : InTodo(x, u)' <=> InTodo(x, u)
    BY <1>1, <1>6 DEF InHand
  <1>8. CallsFit'
    BY <1>1, <1>2, <1>3, CallsStay DEF Moves
  <1>9. PlacesFit'
    <2>1. PlaceOf(t, fail)
      BY DEF Reader, PlaceOf
    <2> QED
      BY <1>1, <1>2, <2>1, PlacesMove
  <1>10. TableFits' /\ ChannelsFit'
    BY <1>3 DEF AddLeaves, ChannelsFit
  <1>11. TodoFits'
    <2>1. /\ Stop(inputTimer) \in Seq(Errands)
          /\ \A m, n \in DOMAIN Stop(inputTimer) : Stop(inputTimer)[m] = Stop(inputTimer)[n] => m = n
      <3>1. CASE Stop(inputTimer) = <<>>
        <4>1. <<>> \in Seq(Errands) /\ DOMAIN <<>> = {}
          OBVIOUS
        <4> QED
          BY <3>1, <4>1
      <3>2. CASE inputTimer \in Timers /\ Stop(inputTimer) = <<StopOf(inputTimer)>>
        <4>0. PICK x : x = StopOf(inputTimer)
          OBVIOUS
        <4>1. x \in Errands
          BY <3>2, <4>0 DEF Errands, Stops
        <4>2. <<x>> \in Seq(Errands) /\ DOMAIN <<x>> = {1}
          BY <4>1
        <4> QED
          BY <3>2, <4>0, <4>2
      <3> QED
        BY <1>5, <3>1, <3>2
    <2>2. \A u \in SessionThreads : \A m, n \in DOMAIN todo'[u] : todo'[u][m] = todo'[u][n] => m = n
      BY <1>1, <1>4, <2>1 DEF TodoFits
    <2>3. todo' \in [SessionThreads -> Seq(Errands)]
      BY <1>1, <1>3, <2>1 DEF TodoFits
    <2> QED
      BY <1>3, <2>2, <2>3 DEF TodoFits
  <1>12. ClosesLast'
    <2>1. Close \notin Stops
      BY MarksDiffer DEF Stops
    <2>2. \A u \in SessionThreads : InTodo(Close, u)' => InTodo(Close, u) /\ u # t
      BY <1>1, <1>6, <2>1
    <2>3. pc'["killer"] = pc["killer"]
      BY <1>1, <1>2, ThreadNames DEF Moves, Elsewhere
    <2> QED
      BY <1>3, <1>4, <2>2, <2>3 DEF ClosesLast
  <1>13. ProcsHeld'
    <2>1. {Accept, Command, TimedOut, Complete} \cap Stops = {}
      BY MarksDiffer, KindsDiffer DEF Stops
    <2>2. \A w \in {"accept", "command", "timedOut", "complete"} : Runs(w)' <=> Runs(w)
      BY <1>1, <1>2, ThreadNames DEF Reader, Runs, Moves, Elsewhere
    <2>3. \A k \in {Accept, Command, TimedOut, Complete} : \A u \in SessionThreads : InTodo(k, u)' <=> InTodo(k, u)
      BY <1>7, <2>1
    <2>4. \A k \in {Accept, Command, TimedOut, Complete} : InHand(k)' <=> InHand(k)
      BY <1>7, <2>1
    <2> QED
      BY <1>3, <2>2, <2>3, <2>4 DEF ProcsHeld, OneHolder
  <1> USE DEF Reader, SessionThreads, Workers, Timers, Moves, Elsewhere
  <1>14. InputHeld' /\ SendHeld'
    BY <1>2, <1>3 DEF InputHeld, Receives, Receivers, SendHeld, Sends, Senders, Replying
  <1>15. TransferHeld' /\ Apart' /\ Unspoken'
    BY <1>2, <1>3 DEF TransferHeld, Beginning, Apart, Unspoken, Replying
  <1>16. GreetsAlone'
    BY <1>1, <1>2, <1>3 DEF GreetsAlone, Greeting
  <1>17. ReadsOnce'
    BY <1>1, <1>2, <1>3 DEF ReadsOnce, GreetingReads, HandshakeReads, CommandReads, Greeting
  <1>18. TimersFit'
    <2>1. ~ Listens'
      BY <1>1, <1>3 DEF Listens, AsksInput, CallsFit
    <2>2. ASSUME NEW i \in Timers, timers[i] # "free" PROVE InHand(StopOf(i))'
      <3>1. CASE inputTimer = i
        <4>1. todo'[t] = <<StopOf(i)>>
          BY <1>4, <1>5, <3>1 DEF Timers
        <4>2. StopOf(i) \in ToSet(todo'[t])
          BY <4>1 DEF ToSet
        <4> QED
          BY <1>1, <4>2 DEF InHand, InTodo
      <3>2. CASE inputTimer # i
        BY <1>1, <1>6, <2>2, <3>2 DEF TimersFit, InHand
      <3> QED
        BY <3>1, <3>2
    <2> QED
      BY <1>3, <2>1, <2>2 DEF TimersFit
  <1> QED
    BY <1>8, <1>9, <1>10, <1>11, <1>12, <1>13, <1>14, <1>15,
       <1>16, <1>17, <1>18

(* The line is asked for: the right to receive goes to the ReceiveLine.    *)
LEMMA AskedKeeps ==
  ASSUME ConnectionIInv, NEW t, NEW from, NEW ok, NEW fail, Reader(t, from, ok, fail),
         At(t, "recv"), receiving' = TRUE, Goto(t, ok),
         UNCHANGED <<cjvars, clock>>, UNCHANGED <<socket, sending, data, bActive, life>>
  PROVE  ConnectionIInv'
  <1> USE DEF ConnectionIInv
  <1>1. t \in SessionThreads /\ t \in {"accept", "sent", "command"}
    BY ThreadNames DEF Reader
  <1>2. Moves(t, ok) /\ pc[t] = "recv" /\ call[t] = None
    BY <1>1, GotoMoves DEF At, Free
  <1>3. UNCHANGED <<active, pending, activeFlags, filter, queued, closes, todo, call, job,
                    socket, sending, data, bActive, timers, inputTimer,
                    logoff, commands, dataLock, closed>>
    BY DEF cjvars, clock, life
  <1>4. Active' = Active /\ Waiting' = Waiting
    BY <1>3 DEF Active, Waiting
  <1>5. CallsFit'
    BY <1>1, <1>2, <1>3, CallsStay DEF Moves
  <1>6. PlacesFit'
    <2>1. PlaceOf(t, ok)
      BY DEF Reader, PlaceOf
    <2> QED
      BY <1>1, <1>2, <2>1, PlacesMove
  <1> USE DEF Reader, SessionThreads, Workers, Timers, Moves, Elsewhere
  <1>7. TableFits' /\ TodoFits' /\ ChannelsFit'
    BY <1>3, <1>4 DEF TableFits, TodoFits, ChannelsFit
  <1>8. ClosesLast'
    BY <1>2, <1>3, <1>4 DEF ClosesLast, InTodo
  <1>9. ProcsHeld'
    BY <1>2, <1>3, <1>4 DEF ProcsHeld, OneHolder, Runs, InHand, InTodo
  <1>10. InputHeld'
    BY <1>1, <1>2, <1>3, <1>4 DEF InputHeld, Receives, Receivers
  <1>11. SendHeld'
    BY <1>2, <1>3, <1>4 DEF SendHeld, Sends, Senders, Replying
  <1>12. TransferHeld' /\ Apart' /\ Unspoken'
    BY <1>2, <1>3, <1>4 DEF TransferHeld, Beginning, Apart, Unspoken, Replying
  <1>13. GreetsAlone' /\ ReadsOnce'
    BY <1>2, <1>3, <1>4 DEF GreetsAlone, Greeting, Replying, ReadsOnce, GreetingReads, HandshakeReads, CommandReads
  <1>14. TimersFit'
    BY <1>2, <1>3, <1>4 DEF TimersFit, Listens, AsksInput, InHand, InTodo
  <1> QED
    BY <1>5, <1>6, <1>7, <1>8, <1>9, <1>10, <1>11, <1>12,
       <1>13, <1>14

LEMMA AcceptInputKeeps ==
  ASSUME ConnectionIInv, NEW t, NEW from, NEW ok, NEW fail, Reader(t, from, ok, fail),
         AcceptInput(t, from, ok, fail)
  PROVE  ConnectionIInv'
  <1>1. UNCHANGED <<socket, sending, data, bActive, life>>
    BY DEF AcceptInput
  <1>2. CASE /\ At(t, from) /\ (logoff \/ Refused(Input))
             /\ Goto(t, fail) /\ UNCHANGED <<cjvars, receiving, clock>>
    BY <1>1, <1>2, NotAskedKeeps
  <1>3. CASE /\ At(t, from) /\ TestFilter(t, Input, "add")
             /\ IF bActive THEN inputTimer' = "none" /\ UNCHANGED timers ELSE StartTimer
             /\ UNCHANGED <<pc, receiving>>
    BY <1>1, <1>3, TimerArmedKeeps
  <1>4. CASE /\ pc[t] = from /\ AddClientJob(t, Stop(inputTimer))
             /\ Goto(t, IF Refused(Input) THEN fail ELSE "recv")
             /\ UNCHANGED <<receiving, clock>>
    <2>1. /\ t \in SessionThreads /\ Input \notin Active /\ Command \notin Waiting
          /\ call[t] # None => call[t].id = "add" /\ call[t].kind = Input
      BY <1>4, ReadersAlone
    <2>2. call[t] # None /\ todo[t] = <<>> /\ Enter(t, Stop(inputTimer))
          /\ call' = [call EXCEPT ![t] = None] /\ UNCHANGED <<queued, closes, job>>
      BY <1>4 DEF AddClientJob, Calls, Returned, None
    <2>3. TableFits /\ filter \in {{}, ALL} /\ Input \in SessionJobs
      BY KindsDiffer DEF ConnectionIInv, TableFits
    <2>4. \A m \in Active : m.id # Input.id
      BY <2>1, <2>3, TableJobs, KindsAre, KindsDiffer
    <2>5. /\ TableFits' /\ filter' = filter
          /\ Refuses(t, Input, Stop(inputTimer)) \/ Starts(t, Input) \/ Postpones(Input)
      <3>1. Input.instant /\ Input \notin Waiting
        BY <2>3, TableJobs, KindsAre, KindsDiffer DEF Waiters
      <3> QED
        BY <2>1, <2>2, <2>3, <2>4, <3>1, EnterEffect
    <2>6. AddLeaves(t)
      BY <1>1, <1>4, <2>2, <2>5 DEF AddLeaves, clock, life
    <2>7. Refused(Input) <=> filter = ALL
      BY <2>3, RefusedMeans, KindsDiffer
    <2>8. CASE Refuses(t, Input, Stop(inputTimer))
      <3>1. Goto(t, fail)
        BY <1>4, <2>7, <2>8 DEF Refuses
      <3> QED
        BY <1>4, <2>2, <2>6, <2>8, <3>1, InputRefusedKeeps
    <2>9. CASE Starts(t, Input)
      <3>1. Goto(t, "recv")
        BY <1>4, <2>7, <2>9, KindsDiffer DEF Starts, ALL
      <3> QED
        BY <1>4, <2>2, <2>6, <2>9, <3>1, InputStartsKeeps
    <2>10. ~ Postpones(Input)
      BY KindsAre DEF Postpones
    <2> QED
      BY <2>5, <2>8, <2>9, <2>10
  <1>5. CASE At(t, "recv") /\ receiving' = TRUE /\ Goto(t, ok) /\ UNCHANGED <<cjvars, clock>>
    BY <1>1, <1>5, AskedKeeps
  <1> QED
    BY <1>2, <1>3, <1>4, <1>5 DEF AcceptInput

-------------------------------------------------------------------------------
(* Ending jobs.                                                            *)

\* The thread t has ended the job k, and those of G have started.
Ended(t, k, before, G) ==
  /\ k \in Active /\ call[t] = None /\ todo[t] = <<>> /\ t \in SessionThreads
  /\ before = <<>> \/ \E i \in Timers : before = <<StopOf(i)>>
  /\ TableFits' /\ UNCHANGED <<filter, call, queued, closes>>
  /\ Ends(k, G) /\ Given(t, before, G)

(* What the threads have to do then.                                       *)
LEMMA EndedHands ==
  ASSUME ConnectionIInv, NEW t, NEW k, NEW before, NEW G, Ended(t, k, before, G)
  PROVE  /\ TodoFits'
         /\ \A x : ~ InTodo(x, t)
         /\ \A x : \A u \in SessionThreads \ {t} : InTodo(x, u)' <=> InTodo(x, u)
         /\ \A x \in SessionJobs : InTodo(x, t)' <=> x \in G
         /\ InTodo(Close, t)' <=> Active' = {}
         /\ \A i \in Timers : before = <<StopOf(i)>> => InTodo(StopOf(i), t)'
  <1>1. ToSet(<<>>) = {} /\ \A x : ToSet(<<x>>) = {x}
    BY DEF ToSet
  <1>2. /\ ToSet(todo'[t]) = ToSet(before) \cup G \cup (IF Active' = {} THEN {Close} ELSE {})
        /\ ToSet(before) \subseteq Stops
    BY <1>1 DEF Ended, Given, Stops
  <1>3. TodoFits'
    BY DEF ConnectionIInv, Ended, Given, TodoFits
  <1>4. \A x : ~ InTodo(x, t)
    BY <1>1 DEF Ended, InTodo
  <1>5. \A x : \A u \in SessionThreads \ {t} : InTodo(x, u)' <=> InTodo(x, u)
    BY DEF Ended, Given, InTodo
  <1>6. /\ \A x \in SessionJobs : x \notin Stops /\ x # Close
        /\ Close \notin Stops /\ Close \notin G
    BY MarksDiffer, KindsDiffer, TableJobs DEF Stops, Ended, Ends, ConnectionIInv, Waiters
  <1>7. \A x \in SessionJobs : InTodo(x, t)' <=> x \in G
    BY <1>2, <1>6 DEF InTodo
  <1>8. InTodo(Close, t)' <=> Active' = {}
    BY <1>2, <1>6 DEF InTodo
  <1>9. \A i \in Timers : before = <<StopOf(i)>> => InTodo(StopOf(i), t)'
    BY <1>1, <1>2 DEF InTodo
  <1> QED
    BY <1>3, <1>4, <1>5, <1>7, <1>8, <1>9

(* The jobs that started are in the hands of the thread, and its own is no *)
(* longer run.                                                             *)
LEMMA EndedHolders ==
  ASSUME ConnectionIInv, NEW t, NEW k, NEW before, NEW G, Ended(t, k, before, G),
         NEW l \in {Accept, Command, TimedOut, Complete}, NEW w, OneHolder(l, w),
         l = k => Runs(w) /\ ~ Runs(w)',
         l # k => (Runs(w)' <=> Runs(w))
  PROVE  OneHolder(l, w)'
  <1>1. l \in SessionJobs /\ t \in SessionThreads
    BY KindsDiffer DEF Ended
  <1>2. /\ ~ InTodo(l, t) /\ (InTodo(l, t)' <=> l \in G)
        /\ \A u \in SessionThreads \ {t} : InTodo(l, u)' <=> InTodo(l, u)
    BY <1>1, EndedHands
  <1>3. /\ queued' = queued /\ Active' = G \cup (Active \ {k}) /\ k \in Active
        /\ l \in G => l \notin Active \ {k}
    BY DEF Ended, Ends
  <1>4. InHand(l)' <=> InHand(l) \/ l \in G
    BY <1>1, <1>2 DEF InHand
  <1>5. InHand(l) <=> \E u \in SessionThreads : InTodo(l, u)
    BY DEF InHand
  <1>6. CASE l \in G
    <2>1. l \notin queued /\ ~ InHand(l) /\ ~ Runs(w)'
      <3>1. CASE l = k
        BY <1>5, <3>1 DEF OneHolder
      <3>2. CASE l # k
        BY <1>3, <1>6, <3>2 DEF OneHolder
      <3> QED
        BY <3>1, <3>2
    <2>2. \A u \in SessionThreads \ {t} : ~ InTodo(l, u)'
      BY <1>2, <1>5, <2>1
    <2> QED
      BY <1>1, <1>2, <1>3, <1>4, <1>6, <2>1, <2>2 DEF OneHolder
  <1>7. CASE l \notin G
    <2>1. InHand(l)' <=> InHand(l)
      BY <1>4, <1>7
    <2>2. \A u \in SessionThreads : InTodo(l, u)' <=> InTodo(l, u)
      BY <1>2, <1>7
    <2>3. CASE l = k
      BY <1>3, <1>5, <1>7, <2>1, <2>2, <2>3 DEF OneHolder
    <2>4. CASE l # k
      BY <1>3, <1>7, <2>1, <2>2, <2>4 DEF OneHolder
    <2> QED
      BY <2>3, <2>4
  <1> QED
    BY <1>6, <1>7

(* The client is closed by the thread that ended the last job.             *)
LEMMA EndedCloses ==
  ASSUME ConnectionIInv, NEW t, NEW k, NEW before, NEW G, Ended(t, k, before, G),
         before = <<>> \/ (Active' = {} => filter = ALL),
         pc'["killer"] = pc["killer"], UNCHANGED <<closed, dataLock>>
  PROVE  ClosesLast'
  <1>1. \A u \in SessionThreads : InTodo(Close, u)' => u = t /\ Active' = {}
    <2>1. \A u \in SessionThreads : ~ InTodo(Close, u)
      BY DEF ConnectionIInv, ClosesLast, Ended
    <2> QED
      BY <2>1, EndedHands
  <1>2. Active' = {} => Waiting' = {} /\ (Head(todo'[t]) = Close \/ filter = ALL)
    BY DEF Ended, Ends, Given
  <1>3. closes = 0 /\ closes' = 0 /\ ~ closed /\ ~ closed'
    BY DEF ConnectionIInv, ClosesLast, Ended
  <1>4. filter' = filter
    BY DEF Ended
  <1>5. dataLock' <=> pc'["killer"] \in {"locked", "unlock"}
    BY DEF ConnectionIInv, ClosesLast
  <1> QED
    BY <1>1, <1>2, <1>3, <1>4, <1>5 DEF ClosesLast

(* What starts shares no class with what is active.                        *)
LEMMA EndedApart ==
  ASSUME ConnectionIInv, NEW t, NEW k, NEW before, NEW G, Ended(t, k, before, G)
  PROVE  /\ Apart'
         /\ G \subseteq Waiters /\ Waiting' \subseteq Waiting
         /\ \A l \in G : Reply \notin Active' /\ Secure \notin Active' /\ G = {l}
         /\ Command \in G => Input \notin Active'
         /\ Complete \in G => Transfer \notin Active' /\ Complete \notin Waiting'
         /\ Command \in G => Command \notin Waiting'
  <1>1. G \subseteq Waiters /\ Waiting' \subseteq Waiting /\ G \cap Waiting' \subseteq {TimedOut}
    BY TableJobs DEF Ended, Ends, ConnectionIInv
  <1>2. \A l \in G : \A m \in Active' \ {l} : l.classes \cap m.classes = {}
    BY DEF Ended, Ends
  <1>3. Active' = G \cup (Active \ {k})
    BY DEF Ended, Ends
  <1>4. \A l \in G : Reply \notin Active' /\ Secure \notin Active'
    BY <1>1, <1>2, KindsShare, KindsDiffer DEF Waiters
  <1>5. \A l, m \in G : l = m
    BY <1>1, <1>2, <1>3, KindsShare
  <1>6. \A l \in G : \A m \in Waiters : m \in Active' => m = l
    BY <1>1, <1>2, KindsShare
  <1>7. Command \in G => Input \notin Active'
    BY <1>1, <1>2, KindsShare, KindsDiffer
  <1>8. Complete \in G => Transfer \notin Active' /\ Accept \notin Active'
    BY <1>1, <1>2, KindsShare, KindsDiffer
  <1>9. Apart'
    <2>1. CASE G = {}
      BY <1>3, <2>1 DEF ConnectionIInv, Apart
    <2>2. CASE G # {}
      <3>1. PICK l \in G : TRUE
        BY <2>2
      <3>2. /\ Command \in Active' => Command = l
            /\ TimedOut \in Active' => TimedOut = l
            /\ Complete \in Active' => Complete = l
        BY <1>6, <3>1 DEF Waiters
      <3> QED
        BY <1>4, <1>8, <3>1, <3>2, KindsDiffer DEF Apart
    <2> QED
      BY <2>1, <2>2
  <1> QED
    BY <1>1, <1>4, <1>5, <1>7, <1>8, <1>9, KindsDiffer

\* Who ends which job, where, and where he goes on.
Ender(t, from, k, next) ==
  \/ t = "accept" /\ from = "end" /\ k = Accept /\ next = "done"
  \/ t = "receive" /\ from = "end" /\ k = Input /\ next = "idle"
  \/ t = "sent" /\ from = "end" /\ k \in {Reply, Secure} /\ next = "idle"
  \/ t = "command" /\ from = "end" /\ k = Command /\ next = "idle"
  \/ t = "command" /\ from = "abort" /\ k = Transfer /\ next = "input"
  \/ t = "timedOut" /\ from = "end" /\ k = TimedOut /\ next = "idle"
  \/ t = "complete" /\ from = "end" /\ k = Complete /\ next = "idle"
  \/ t = "data" /\ from = "idle" /\ k = Transfer /\ next = "idle" /\ data = "ended"

(* The end of a job, but for the timer and the state of the transfer.      *)
LEMMA EndedKeepsMost ==
  ASSUME ConnectionIInv, NEW t, NEW from, NEW k, NEW next, Ender(t, from, k, next),
         NEW before, NEW G, Ended(t, k, before, G), before # <<>> => t = "receive",
         pc[t] = from, Moves(t, next),
         UNCHANGED <<socket, receiving, sending, bActive, timers, closed, dataLock>>,
         inputTimer' \in {inputTimer, "none"}
  PROVE  /\ PlacesFit' /\ CallsFit' /\ TodoFits' /\ ProcsHeld' /\ InputHeld' /\ SendHeld'
         /\ Apart' /\ Unspoken' /\ GreetsAlone' /\ ReadsOnce' /\ ClosesLast'
  <1> USE DEF ConnectionIInv
  <1>1. t \in SessionThreads /\ t \notin Timers /\ t # "killer"
    BY ThreadNames DEF Ender
  <1>2. /\ k \in Active /\ call[t] = None /\ call' = call /\ queued' = queued /\ filter' = filter
        /\ Active' = G \cup (Active \ {k}) /\ G \subseteq Waiting
        /\ Waiting \subseteq Waiting' \cup G
    BY DEF Ended, Ends
  <1>3. /\ Apart'
        /\ G \subseteq Waiters /\ Waiting' \subseteq Waiting
        /\ \A l \in G : Reply \notin Active' /\ Secure \notin Active' /\ G = {l}
        /\ Command \in G => Input \notin Active'
        /\ Command \in G => Command \notin Waiting'
    BY EndedApart
  <1>4. Input \notin G /\ Reply \notin G /\ Secure \notin G /\ Accept \notin G /\ Transfer \notin G
    BY <1>3, KindsDiffer DEF Waiters
  <1>5. CallsFit'
    BY <1>1, <1>2, CallsStay DEF Moves
  <1>6. PlacesFit'
    <2>1. PlaceOf(t, next)
      BY DEF Ender, PlaceOf
    <2> QED
      BY <1>1, <2>1, PlacesMove
  <1>7. TodoFits'
    BY EndedHands
  <1> USE DEF Moves, Elsewhere
  <1>8. \A w \in {"accept", "command", "timedOut", "complete", "receive", "sent", "killer"} :
           w # t => pc'[w] = pc[w]
    BY ThreadNames
  <1>9. ClosesLast'
    <2>1. t = "receive" => (Active' = {} => filter = ALL)
      BY <1>3 DEF Ended, Ends, Ender, ReadsOnce
    <2> QED
      BY <1>1, <1>8, <2>1, EndedCloses
  <1>10. ProcsHeld'
    <2>1. /\ Accept = k => Runs("accept") /\ ~ Runs("accept")'
          /\ Accept # k => (Runs("accept")' <=> Runs("accept"))
      BY <1>8, KindsDiffer DEF Ender, Runs
    <2>2. /\ Command = k => Runs("command") /\ ~ Runs("command")'
          /\ Command # k => (Runs("command")' <=> Runs("command"))
      BY <1>8, KindsDiffer DEF Ender, Runs
    <2>3. /\ TimedOut = k => Runs("timedOut") /\ ~ Runs("timedOut")'
          /\ TimedOut # k => (Runs("timedOut")' <=> Runs("timedOut"))
      BY <1>8, KindsDiffer DEF Ender, Runs
    <2>4. /\ Complete = k => Runs("complete") /\ ~ Runs("complete")'
          /\ Complete # k => (Runs("complete")' <=> Runs("complete"))
      BY <1>8, KindsDiffer DEF Ender, Runs
    <2>5. OneHolder(Accept, "accept")'
      BY <2>1, EndedHolders DEF ProcsHeld
    <2>6. OneHolder(Command, "command")'
      BY <2>2, EndedHolders DEF ProcsHeld
    <2>7. OneHolder(TimedOut, "timedOut")'
      BY <2>3, EndedHolders DEF ProcsHeld
    <2>8. OneHolder(Complete, "complete")'
      BY <2>4, EndedHolders DEF ProcsHeld
    <2> QED
      BY <2>5, <2>6, <2>7, <2>8 DEF ProcsHeld
  <1>11. InputHeld'
    <2>2. k = Input <=> t = "receive"
      BY KindsDiffer DEF Ender
    <2>1. \A u \in Receivers : Receives(u)' <=> Receives(u) /\ (u = t => t # "receive")
      <3>1. /\ pc'["accept"] = "recv" <=> pc["accept"] = "recv"
            /\ pc'["sent"] = "recv" <=> pc["sent"] = "recv"
            /\ pc'["command"] = "recv" <=> pc["command"] = "recv"
            /\ pc'["receive"] # "idle" <=> pc["receive"] # "idle" /\ t # "receive"
        BY <1>8 DEF Ender
      <3> QED
        BY <3>1 DEF Receivers, Receives
    <2>3. Input \in Active' <=> Input \in Active /\ k # Input
      BY <1>2, <1>4
    <2>4. k = Input => Receives(t) /\ t \in Receivers
      BY <2>2 DEF Ender, Receives, Receivers
    <2> QED
      BY <2>1, <2>2, <2>3, <2>4 DEF InputHeld
  <1>12. SendHeld'
    <2>1. \A u \in Senders : Sends(u)' <=> Sends(u) /\ (u = t => t # "sent")
      <3>1. /\ pc'["accept"] \in {"greet", "send", "handshake"} <=> pc["accept"] \in {"greet", "send", "handshake"}
            /\ pc'["command"] \in {"greet", "send", "handshake"} <=> pc["command"] \in {"greet", "send", "handshake"}
            /\ pc'["timedOut"] = "send" <=> pc["timedOut"] = "send"
            /\ pc'["complete"] = "send" <=> pc["complete"] = "send"
            /\ pc'["sent"] # "idle" <=> pc["sent"] # "idle" /\ t # "sent"
        BY <1>8 DEF Ender
      <3> QED
        BY <3>1 DEF Senders, Sends
    <2>2. k \in {Reply, Secure} <=> t = "sent"
      BY KindsDiffer DEF Ender
    <2>3. Replying' <=> Replying /\ t # "sent"
      BY <1>2, <1>4, <2>2, TableJobs, KindsDiffer DEF Replying
    <2>4. t = "sent" => Sends(t) /\ t \in Senders
      BY DEF Ender, Sends, Senders
    <2>5. Replying' <=> \E u \in Senders : Sends(u)'
      BY <2>1, <2>3, <2>4 DEF SendHeld
    <2>6. \A u, v \in Senders : Sends(u)' /\ Sends(v)' => u = v
      BY <2>1 DEF SendHeld
    <2>7. (pc["accept"] = "handshake" \/ pc["command"] = "handshake" \/ sending = "secure"
             \/ pc["sent"] \in {"secure", "recv"})' => Secure \in Active'
      <3>1. CASE t = "sent"
        <4>1. \A u \in Senders : ~ Sends(u)'
          BY <2>3, <2>5, <3>1
        <4> QED
          BY <4>1 DEF Senders, Sends
      <3>2. CASE t # "sent"
        BY <1>2, <1>8, <2>2, <3>2 DEF Ender, SendHeld
      <3> QED
        BY <3>1, <3>2
    <2> QED
      BY <2>5, <2>6, <2>7 DEF SendHeld
  <1>13. Unspoken'
    <2>1. Replying' => Replying /\ G = {}
      BY <1>2, <1>3, <1>4 DEF Replying
    <2> QED
      BY <1>2, <1>8, <2>1, KindsDiffer DEF Unspoken, Ender
  <1>14. GreetsAlone'
    <2>1. Greeting' => Greeting /\ pc'["accept"] = pc["accept"]
      <3>1. CASE t = "accept"
        <4>1. pc'["accept"] = "done" /\ Accept \notin queued
          BY <3>1, KindsDiffer DEF Ender, ProcsHeld, OneHolder, Runs
        <4> QED
          BY <1>2, <4>1 DEF Greeting
      <3>2. CASE t # "accept"
        BY <1>2, <1>8, <3>2 DEF Greeting
      <3> QED
        BY <3>1, <3>2
    <2>2. Replying' => Replying
      BY <1>2, <1>4 DEF Replying
    <2> QED
      BY <1>2, <1>3, <2>1, <2>2 DEF GreetsAlone
  <1>15. ReadsOnce'
    <2>1. GreetingReads' => GreetingReads
      BY <1>2, <1>8 DEF GreetingReads, Greeting, Ender
    <2>2. HandshakeReads' => HandshakeReads
      BY <1>8 DEF HandshakeReads, Ender
    <2>3. CommandReads' => CommandReads \/ Command \in G
      BY <1>2, <1>8, KindsDiffer DEF CommandReads, Ender
    <2>4. Input \in Active' <=> Input \in Active /\ k # Input
      BY <1>2, <1>4
    <2>5. k = Input <=> t = "receive"
      BY KindsDiffer DEF Ender
    <2>6. pc'["receive"] = "end" => pc["receive"] = "end" /\ Input \in Active'
      BY <1>8, <2>4, <2>5 DEF Ender, InputHeld, Receives, Receivers
    <2>7. Input \in Active' => pc'["receive"] = pc["receive"]
      BY <1>8, <2>4, <2>5
    <2>8. GreetingReads' => ~ HandshakeReads' /\ Input \notin Active' /\ ~ CommandReads' /\ Command \notin Waiting'
      BY <1>2, <1>3, <2>1, <2>2, <2>3, <2>4 DEF ReadsOnce
    <2>9. HandshakeReads' => Input \notin Active' /\ ~ CommandReads' /\ Command \notin Waiting'
      BY <1>2, <1>3, <2>2, <2>3, <2>4 DEF ReadsOnce
    <2>10. Input \in Active' => ~ CommandReads' /\ (Command \in Waiting' => pc'["receive"] = "end")
      BY <1>3, <2>3, <2>4, <2>7 DEF ReadsOnce
    <2>11. CommandReads' => Command \notin Waiting'
      BY <1>3, <2>3 DEF ReadsOnce
    <2>12. pc'["receive"] = "end" => Command \in Waiting' \/ filter' = ALL
      BY <1>2, <1>3, <2>6 DEF ReadsOnce
    <2> QED
      BY <2>8, <2>9, <2>10, <2>11, <2>12 DEF ReadsOnce
  <1> QED
    BY <1>3, <1>5, <1>6, <1>7, <1>9, <1>10, <1>11, <1>12, <1>13, <1>14, <1>15

(* The end of a job that has no timer.                                     *)
LEMMA EndingKeeps ==
  ASSUME ConnectionIInv, NEW t, NEW from, NEW k, NEW next, Ender(t, from, k, next),
         t \notin {"receive", "data"}, k \in Active, NEW id, id = k.id, Ending(t, from, id, next)
  PROVE  ConnectionIInv'
  <1> USE DEF ConnectionIInv
  <1>1. t \in SessionThreads
    BY ThreadNames DEF Ender
  <1>2. pc[t] = from /\ Moves(t, next)
    BY <1>1, GotoMoves DEF Ending, At
  <1>3. UNCHANGED <<job, socket, receiving, sending, data, bActive, timers, inputTimer,
                    logoff, commands, dataLock, closed>>
    BY DEF Ending, io, clock, life
  <1>4. PICK G : Ended(t, k, <<>>, G)
    <2>1. EndClientJob(t, id, <<>>)
      BY DEF Ending
    <2>2. /\ TableFits' /\ UNCHANGED <<filter, call, queued, closes>>
          /\ call[t] = None /\ todo[t] = <<>>
          /\ \E G \in SUBSET Waiting : Ends(k, G) /\ Given(t, <<>>, G)
      BY <1>1, <2>1, EndEffect
    <2> QED
      BY <1>1, <2>2 DEF Ended
  <1>5. /\ PlacesFit' /\ CallsFit' /\ TodoFits' /\ ProcsHeld' /\ InputHeld' /\ SendHeld'
        /\ Apart' /\ Unspoken' /\ GreetsAlone' /\ ReadsOnce' /\ ClosesLast'
    BY <1>2, <1>3, <1>4, EndedKeepsMost
  <1>6. /\ G \subseteq Waiters /\ Waiting' \subseteq Waiting
        /\ Complete \in G => Transfer \notin Active' /\ Complete \notin Waiting'
        /\ TableFits' /\ call' = call /\ call[t] = None /\ todo[t] = <<>> /\ filter' = filter
        /\ Active' = G \cup (Active \ {k}) /\ G \subseteq Waiting
    BY <1>4, EndedApart DEF Ended, Ends
  <1>7. TableFits' /\ ChannelsFit'
    BY <1>3, <1>6 DEF ChannelsFit
  <1>8. \A w \in {"accept", "command", "timedOut", "complete", "receive", "sent", "killer"} :
           w # t => pc'[w] = pc[w]
    BY <1>2, ThreadNames DEF Moves, Elsewhere
  <1>9. pc'[t] = next
    BY <1>2 DEF Moves
  <1>10. TransferHeld'
    <2>1. Transfer \in Active' <=> Transfer \in Active /\ k # Transfer
      BY <1>6, KindsDiffer DEF Waiters
    <2>2. pc["command"] = "abort" => t # "command" \/ k = Transfer
      BY <1>2 DEF Ender
    <2>3. k = Transfer <=> t = "command" /\ pc[t] = "abort"
      BY <1>2, KindsDiffer DEF Ender
    <2>4. \A l \in {"begin", "refused", "continue", "complete", "abort"} :
            pc'["command"] = l <=> pc["command"] = l /\ (l = "abort" => k # Transfer)
      BY <1>2, <1>8, <1>9, <2>2, <2>3 DEF Ender
    <2>5. Complete \in Active' => Complete \in G \/ (Complete \in Active /\ pc'["complete"] = pc["complete"])
      BY <1>2, <1>6, <1>8, KindsDiffer DEF Ender
    <2>6. Complete \in Waiting' => Complete \in Waiting
      BY <1>6
    <2>7. /\ Beginning' <=> Beginning
          /\ pc'["command"] = "abort" <=> pc["command"] = "abort" /\ k # Transfer
          /\ pc'["command"] \in {"continue", "complete"} <=> pc["command"] \in {"continue", "complete"}
      BY <2>4 DEF Beginning
    <2>8. k = Transfer => data = "none" /\ ~ Beginning
      BY <2>3 DEF TransferHeld, Beginning
    <2>9. ~ bActive => Complete \notin G
      BY <1>6 DEF TransferHeld
    <2>10. ~ Beginning' /\ pc'["command"] # "abort" => (Transfer \in Active' <=> data' # "none")
      BY <1>3, <2>1, <2>7, <2>8 DEF TransferHeld
    <2> QED
      BY <1>3, <1>6, <2>1, <2>5, <2>6, <2>7, <2>9, <2>10 DEF TransferHeld
  <1>11. TimersFit'
    <2>1. Input \in Active' <=> Input \in Active
      BY <1>2, <1>6, KindsDiffer DEF Ender, Waiters
    <2>2. Listens' <=> Listens
      BY <1>6, <2>1 DEF Listens, AsksInput
    <2>3. pc'["complete"] = "timer" <=> pc["complete"] = "timer"
      BY <1>2, <1>8, <1>9 DEF Ender
    <2>4. \A i \in Timers : InHand(StopOf(i)) => InHand(StopOf(i))'
      BY <1>4, EndedHands DEF InHand
    <2> QED
      BY <1>3, <1>6, <2>2, <2>3, <2>4 DEF TimersFit
  <1> QED
    BY <1>5, <1>7, <1>10, <1>11

(* The end of the input job: the thread has its timer to stop.             *)
LEMMA EndInputKeeps ==
  ASSUME ConnectionIInv, EndInput
  PROVE  ConnectionIInv'
  <1> USE DEF ConnectionIInv
  <1>1. "receive" \in SessionThreads /\ "receive" \notin Timers
    BY ThreadNames
  <1>2. pc["receive"] = "end" /\ Moves("receive", "idle")
    BY <1>1, GotoMoves DEF EndInput, At
  <1>3. /\ UNCHANGED <<job, socket, receiving, sending, data, bActive, timers,
                       logoff, commands, dataLock, closed>>
        /\ inputTimer' = "none"
    BY DEF EndInput, io, life
  <1>4. Input \in Active
    BY <1>2 DEF InputHeld, Receives, Receivers
  <1>5. \/ inputTimer = "none" /\ Stop(inputTimer) = <<>>
        \/ inputTimer \in Timers /\ Stop(inputTimer) = <<StopOf(inputTimer)>>
    <2>1. "none" \notin Timers
      BY DEF Timers
    <2> QED
      BY <2>1 DEF TimersFit, Stop, StopOf
  <1>6. PICK G : Ended("receive", Input, Stop(inputTimer), G)
    <2>0. Stop(inputTimer) = <<>> \/ \E i \in Timers : Stop(inputTimer) = <<StopOf(i)>>
      BY <1>5
    <2>1. EndClientJob("receive", "1", Stop(inputTimer)) /\ Input.id = "1"
      BY KindsAre DEF EndInput
    <2>2. /\ TableFits' /\ UNCHANGED <<filter, call, queued, closes>>
          /\ call["receive"] = None /\ todo["receive"] = <<>>
          /\ \E G \in SUBSET Waiting : Ends(Input, G) /\ Given("receive", Stop(inputTimer), G)
      BY <1>1, <1>4, <2>0, <2>1, EndEffect
    <2> QED
      BY <1>1, <1>4, <2>0, <2>2 DEF Ended
  <1>7. /\ PlacesFit' /\ CallsFit' /\ TodoFits' /\ ProcsHeld' /\ InputHeld' /\ SendHeld'
        /\ Apart' /\ Unspoken' /\ GreetsAlone' /\ ReadsOnce' /\ ClosesLast'
    <2>1. Ender("receive", "end", Input, "idle")
      BY DEF Ender
    <2> QED
      BY <1>2, <1>3, <1>6, <2>1, EndedKeepsMost
  <1>8. /\ G \subseteq Waiters /\ Waiting' \subseteq Waiting
        /\ Complete \in G => Transfer \notin Active' /\ Complete \notin Waiting'
        /\ TableFits' /\ call' = call /\ filter' = filter
        /\ Active' = G \cup (Active \ {Input}) /\ G \subseteq Waiting
    BY <1>6, EndedApart DEF Ended, Ends
  <1>9. TableFits' /\ ChannelsFit'
    BY <1>3, <1>8 DEF ChannelsFit
  <1>10. pc'["command"] = pc["command"] /\ pc'["complete"] = pc["complete"]
    BY <1>2, ThreadNames DEF Moves, Elsewhere
  <1>11. TransferHeld'
    <2>1. Transfer \in Active' <=> Transfer \in Active
      BY <1>8, KindsDiffer DEF Waiters
    <2>2. Complete \in Active' => Complete \in G \/ Complete \in Active
      BY <1>8
    <2>3. ~ bActive => Complete \notin G
      BY <1>8 DEF TransferHeld
    <2> QED
      BY <1>3, <1>8, <1>10, <2>1, <2>2, <2>3 DEF TransferHeld, Beginning
  <1>12. TimersFit'
    <2>1. \A u \in {"accept", "sent", "command"} : ~ AsksInput(u)
      <3> SUFFICES ASSUME NEW u \in {"accept", "sent", "command"}, AsksInput(u) PROVE FALSE
        OBVIOUS
      <3>1. \/ u = "accept" /\ pc[u] = "input"
            \/ u = "sent" /\ pc[u] = "secure"
            \/ u = "command" /\ pc[u] = "input"
        BY ThreadNames, KindsDiffer DEF AsksInput, CallsFit, MayAsk, Asks
      <3>2. u = "command" => Command \in Active
        BY <3>1 DEF ProcsHeld, OneHolder, Runs
      <3> QED
        BY <1>4, <3>1, <3>2 DEF ReadsOnce, GreetingReads, HandshakeReads, CommandReads
    <2>2. Input \notin Active'
      BY <1>8, KindsDiffer DEF Waiters
    <2>3. ~ Listens'
      BY <1>8, <2>1, <2>2 DEF Listens, AsksInput
    <2>4. \A i \in Timers : InHand(StopOf(i)) \/ inputTimer = i => InHand(StopOf(i))'
      <3>1. \A i \in Timers : inputTimer = i => Stop(inputTimer) = <<StopOf(i)>>
        BY <1>5 DEF Timers
      <3> QED
        BY <1>1, <1>6, <3>1, EndedHands DEF InHand
    <2> QED
      BY <1>3, <2>3, <2>4 DEF TimersFit
  <1> QED
    BY <1>7, <1>9, <1>11, <1>12

(* The end of a transfer.                                                  *)
LEMMA TransferCompleteKeeps ==
  ASSUME ConnectionIInv, FTP_TransferComplete
  PROVE  ConnectionIInv'
  <1> USE DEF ConnectionIInv
  <1>1. "data" \in SessionThreads /\ "data" \notin Timers
    BY ThreadNames
  <1>2. pc["data"] = "idle" /\ Moves("data", "idle") /\ pc' = pc /\ data = "ended"
    BY <1>1 DEF FTP_TransferComplete, At, PlacesFit, Moves, Elsewhere
  <1>3. /\ UNCHANGED <<job, socket, receiving, sending, bActive, timers, inputTimer,
                       logoff, commands, dataLock, closed>>
        /\ data' = "none"
    BY DEF FTP_TransferComplete, clock, life
  <1>4. Transfer \in Active /\ ~ Beginning /\ pc["command"] # "abort" /\ bActive
    BY <1>2 DEF TransferHeld
  <1>5. PICK G : Ended("data", Transfer, <<>>, G)
    <2>1. EndClientJob("data", "201", <<>>) /\ Transfer.id = "201"
      BY KindsAre DEF FTP_TransferComplete
    <2>2. /\ TableFits' /\ UNCHANGED <<filter, call, queued, closes>>
          /\ call["data"] = None /\ todo["data"] = <<>>
          /\ \E G \in SUBSET Waiting : Ends(Transfer, G) /\ Given("data", <<>>, G)
      BY <1>1, <1>4, <2>1, EndEffect
    <2> QED
      BY <1>1, <1>4, <2>2 DEF Ended
  <1>6. /\ PlacesFit' /\ CallsFit' /\ TodoFits' /\ ProcsHeld' /\ InputHeld' /\ SendHeld'
        /\ Apart' /\ Unspoken' /\ GreetsAlone' /\ ReadsOnce' /\ ClosesLast'
    <2>1. Ender("data", "idle", Transfer, "idle")
      BY <1>2 DEF Ender
    <2> QED
      BY <1>2, <1>3, <1>5, <2>1, EndedKeepsMost
  <1>7. /\ G \subseteq Waiters /\ Waiting' \subseteq Waiting
        /\ Complete \in G => Transfer \notin Active' /\ Complete \notin Waiting'
        /\ TableFits' /\ call' = call /\ filter' = filter
        /\ Active' = G \cup (Active \ {Transfer}) /\ G \subseteq Waiting
    BY <1>5, EndedApart DEF Ended, Ends
  <1>8. TableFits' /\ ChannelsFit'
    BY <1>3, <1>7 DEF ChannelsFit
  <1>9. TransferHeld'
    <2>1. Transfer \notin Active'
      BY <1>7, KindsDiffer DEF Waiters
    <2>2. Complete \in Active' => Complete \in G \/ Complete \in Active
      BY <1>7
    <2> QED
      BY <1>2, <1>3, <1>4, <1>7, <2>1, <2>2 DEF TransferHeld, Beginning
  <1>10. TimersFit'
    <2>1. Input \in Active' <=> Input \in Active
      BY <1>7, KindsDiffer DEF Waiters
    <2>2. Listens' <=> Listens
      BY <1>7, <2>1 DEF Listens, AsksInput
    <2>3. \A i \in Timers : InHand(StopOf(i)) => InHand(StopOf(i))'
      BY <1>5, EndedHands DEF InHand
    <2> QED
      BY <1>2, <1>3, <1>7, <2>2, <2>3 DEF TimersFit
  <1> QED
    BY <1>6, <1>8, <1>9, <1>10

-------------------------------------------------------------------------------
(* SetJobFilter: what is active stays, and its channels are closed.        *)
LEMMA FilteringKeeps ==
  ASSUME ConnectionIInv, NEW t, NEW from, NEW next,
         \/ t = "accept" /\ from = "failed" /\ next = "stuck"
         \/ t = "receive" /\ from = "lost" /\ next = "end"
         \/ t = "sent" /\ from = "lost" /\ next = "end"
         \/ t = "killer" /\ from = "locked" /\ next = "unlock",
         Filtering(t, from, next)
  PROVE  ConnectionIInv'
  <1> USE DEF ConnectionIInv
  <1>1. t \in SessionThreads /\ t \notin Timers
    BY ThreadNames
  <1>2. pc[t] = from /\ call[t] = None /\ Moves(t, next)
    BY <1>1, GotoMoves DEF Filtering, At, Free
  <1>3. UNCHANGED <<receiving, sending, bActive, queued, closes, todo, call, job, timers, inputTimer,
                    logoff, commands, dataLock, closed>>
    BY DEF Filtering, io, clock, life
  <1>4. /\ TableFits' /\ filter' = ALL /\ Active' = Active /\ Waiting' \subseteq Waiting
        /\ Complete \in Waiting' <=> Complete \in Waiting
        /\ socket' \in {"open", "closed"}
        /\ data' = data \/ (data' = "cancelled" /\ data \in {"select", "waiting"} /\ Transfer \in Active)
    <2>1. CASE filter = ALL /\ UNCHANGED <<table, io>>
      <3>1. UNCHANGED <<active, pending, activeFlags, filter, socket, data>>
        BY <2>1 DEF table, io
      <3>2. Active' = Active /\ Waiting' = Waiting
        BY <3>1 DEF Active, Waiting
      <3> QED
        BY <2>1, <3>1, <3>2 DEF TableFits, ChannelsFit
    <2>2. CASE SetJobFilter /\ Cancel
      <3>1. TableFits' /\ filter' = ALL /\ Active' = Active /\ Waiting' = Waiting \cap {Complete}
        BY <2>2, FilterEffect
      <3>2. "201" \in Ids(active) => Transfer \in Active
        <4>1. Ids(active) = {l.id : l \in Active}
          BY DEF Ids, Active, KindsOf
        <4>2. \A l \in SessionJobs : l.id = "201" => l = Transfer
          BY KindsAre DEF SessionJobs
        <4> QED
          BY <4>1, <4>2, TableJobs
      <3> QED
        BY <2>2, <3>1, <3>2 DEF Cancel, ChannelsFit
    <2> QED
      BY <2>1, <2>2 DEF Filtering
  <1>5. CallsFit'
    BY <1>1, <1>2, <1>3, CallsStay DEF Moves
  <1>6. PlacesFit'
    <2>1. PlaceOf(t, next)
      BY DEF PlaceOf
    <2> QED
      BY <1>1, <1>2, <2>1, PlacesMove
  <1> USE DEF SessionThreads, Workers, Timers, Moves, Elsewhere
  <1>7. TableFits' /\ TodoFits' /\ ChannelsFit'
    BY <1>3, <1>4 DEF TodoFits, ChannelsFit
  <1>8. ClosesLast'
    BY <1>2, <1>3, <1>4 DEF ClosesLast, InTodo
  <1>9. ProcsHeld'
    BY <1>2, <1>3, <1>4 DEF ProcsHeld, OneHolder, Runs, InHand, InTodo
  <1>10. InputHeld'
    BY <1>2, <1>3, <1>4 DEF InputHeld, Receives, Receivers
  <1>11. SendHeld'
    BY <1>2, <1>3, <1>4 DEF SendHeld, Sends, Senders, Replying
  <1>12. TransferHeld'
    BY <1>2, <1>3, <1>4 DEF TransferHeld, Beginning
  <1>13. Apart' /\ Unspoken'
    BY <1>2, <1>3, <1>4 DEF Apart, Unspoken, Replying
  <1>14. GreetsAlone'
    BY <1>2, <1>3, <1>4 DEF GreetsAlone, Greeting, Replying
  <1>15. ReadsOnce'
    BY <1>2, <1>3, <1>4 DEF ReadsOnce, GreetingReads, HandshakeReads, CommandReads, Greeting
  <1>16. TimersFit'
    BY <1>2, <1>3, <1>4 DEF TimersFit, Listens, AsksInput, InHand, InTodo
  <1> QED
    BY <1>5, <1>6, <1>7, <1>8, <1>9, <1>10, <1>11, <1>12, <1>13,
       <1>14, <1>15, <1>16

-------------------------------------------------------------------------------
(* What a thread does after the lock.                                      *)

\* The thread t has done the first of what it had to do.
DoesFirst(t) ==
  /\ todo' \in [SessionThreads -> Seq(Errands)]
  /\ todo[t] \in Seq(Errands) /\ todo[t] # <<>> /\ Head(todo[t]) \in Errands /\ InTodo(Head(todo[t]), t)
  /\ \A u \in SessionThreads \ {t} : todo'[u] = todo[u]
  /\ \A x : InTodo(x, t)' <=> InTodo(x, t) /\ x # Head(todo[t])
  /\ \A x : \A u \in SessionThreads \ {t} : InTodo(x, u)' <=> InTodo(x, u)
  /\ \A i, j \in DOMAIN todo'[t] : todo'[t][i] = todo'[t][j] => i = j

LEMMA FirstDone ==
  ASSUME TodoFits, NEW t \in SessionThreads, todo[t] # <<>>, todo' = [todo EXCEPT ![t] = Tail(@)]
  PROVE  DoesFirst(t)
  <1>1. todo[t] \in Seq(Errands) /\ \A i, j \in DOMAIN todo[t] : todo[t][i] = todo[t][j] => i = j
    BY DEF TodoFits
  <1>2. PICK s : s = todo[t]
    OBVIOUS
  <1>3. /\ Tail(s) \in Seq(Errands) /\ \A i, j \in DOMAIN Tail(s) : Tail(s)[i] = Tail(s)[j] => i = j
        /\ Head(s) \in Errands /\ Head(s) \in ToSet(s) /\ ToSet(Tail(s)) = ToSet(s) \ {Head(s)}
    BY <1>1, <1>2, TailSet
  <1>4. /\ todo' \in [SessionThreads -> Seq(Errands)] /\ todo'[t] = Tail(s)
        /\ \A u \in SessionThreads \ {t} : todo'[u] = todo[u]
    BY <1>2, <1>3 DEF TodoFits
  <1> QED
    BY <1>1, <1>2, <1>3, <1>4 DEF DoesFirst, InTodo

LEMMA StopTimerKeeps ==
  ASSUME ConnectionIInv, NEW t \in SessionThreads, StopTimer(t)
  PROVE  ConnectionIInv'
  <1> USE DEF ConnectionIInv
  <1>1. DoesFirst(t)
    BY FirstDone DEF StopTimer
  <1>2. UNCHANGED <<active, pending, activeFlags, filter, queued, closes, call, job, pc,
                    socket, receiving, sending, data, bActive, inputTimer,
                    logoff, commands, dataLock, closed>>
    BY DEF StopTimer, table, io, life
  <1>3. Active' = Active /\ Waiting' = Waiting
    BY <1>2 DEF Active, Waiting
  <1>4. PICK i \in Timers : Head(todo[t]) = StopOf(i)
    <2>1. Head(todo[t]).id = "stop" /\ Head(todo[t]) \in Errands
      BY <1>1 DEF StopTimer, DoesFirst
    <2>2. Waiters \subseteq SessionJobs
      BY KindsDiffer DEF Waiters
    <2> QED
      BY <2>1, <2>2, MarksDiffer DEF Errands, Stops
  <1>5. /\ timers' = [timers EXCEPT ![i] = "free"]
        /\ timers' \in [Timers -> {"free", "idle", "firing", "kill", "fired"}]
        /\ timers'[i] = "free" /\ \A j \in Timers \ {i} : timers'[j] = timers[j]
    <2>1. timers' = [timers EXCEPT ![i] = "free"]
      BY <1>4, MarksDiffer DEF StopTimer
    <2> QED
      BY <2>1 DEF TimersFit
  <1>6. /\ \A k \in {Accept, Command, TimedOut, Complete, Close} : k # StopOf(i)
        /\ \A j \in Timers \ {i} : StopOf(j) # StopOf(i)
    BY MarksDiffer, KindsDiffer
  <1>7. /\ \A k \in {Accept, Command, TimedOut, Complete, Close} :
             \A u \in SessionThreads : InTodo(k, u)' <=> InTodo(k, u)
        /\ \A j \in Timers \ {i} : \A u \in SessionThreads : InTodo(StopOf(j), u)' <=> InTodo(StopOf(j), u)
    BY <1>1, <1>4, <1>6 DEF DoesFirst
  <1>8. CallsFit' /\ PlacesFit' /\ TableFits' /\ ChannelsFit'
    BY <1>2, <1>3 DEF CallsFit, MayAsk, Asks, PlacesFit, TableFits, ChannelsFit
  <1>9. TodoFits'
    BY <1>1, <1>2 DEF TodoFits, DoesFirst
  <1>10. ClosesLast'
    <2>1. \A u \in SessionThreads : InTodo(Close, u)' =>
            Active' = {} /\ Waiting' = {} /\ (Head(todo'[u]) = Close \/ filter = ALL)
      <3>1. \A u \in SessionThreads \ {t} : todo'[u] = todo[u]
        BY <1>1 DEF DoesFirst
      <3>2. InTodo(Close, t) => filter = ALL
        BY <1>4, <1>6 DEF ClosesLast
      <3> QED
        BY <1>3, <1>7, <3>1, <3>2 DEF ClosesLast
    <2> QED
      BY <1>2, <1>3, <2>1 DEF ClosesLast
  <1>11. ProcsHeld'
    BY <1>2, <1>3, <1>7 DEF ProcsHeld, OneHolder, Runs, InHand
  <1>12. InputHeld' /\ SendHeld' /\ TransferHeld'
    BY <1>2, <1>3 DEF InputHeld, Receives, SendHeld, Sends, Replying, TransferHeld, Beginning
  <1>13. Apart' /\ Unspoken' /\ ReadsOnce'
    BY <1>2, <1>3 DEF Apart, Unspoken, Replying, ReadsOnce, GreetingReads, HandshakeReads, CommandReads, Greeting
  <1>14. GreetsAlone'
    BY <1>2, <1>3, <1>5 DEF GreetsAlone, Greeting, Replying
  <1>15. TimersFit'
    <2>1. Listens' <=> Listens
      BY <1>2, <1>3 DEF Listens, AsksInput
    <2>2. \A j \in Timers : timers'[j] # "free" => j # i /\ ((inputTimer = j /\ Listens) \/ InHand(StopOf(j))')
      BY <1>5, <1>7 DEF TimersFit, InHand
    <2> QED
      BY <1>2, <1>5, <2>1, <2>2 DEF TimersFit
  <1> QED
    BY <1>8, <1>9, <1>10, <1>11, <1>12, <1>13, <1>14, <1>15

(* QueueJob: the right to run a proc goes from the thread to the queue,    *)
(* and the last job's thread queues the close.                             *)
LEMMA QueueNextKeeps ==
  ASSUME ConnectionIInv, NEW t \in SessionThreads, QueueNext(t)
  PROVE  ConnectionIInv'
  <1> USE DEF ConnectionIInv
  <1>1. /\ todo[t] # <<>> /\ Head(todo[t]).id # "stop"
        /\ IF Head(todo[t]) = Close
             THEN closes' = closes + 1 /\ UNCHANGED queued
             ELSE queued' = queued \cup {Head(todo[t])} /\ UNCHANGED closes
        /\ todo' = [todo EXCEPT ![t] = Tail(@)]
        /\ UNCHANGED <<active, pending, activeFlags, filter, call, job, pc,
                    socket, receiving, sending, data, bActive, timers, inputTimer,
                    logoff, commands, dataLock, closed>>
    BY DEF QueueNext, QueueProc, table, io, clock, life
  <1>2. DoesFirst(t)
    BY <1>1, FirstDone
  <1>3. Active' = Active /\ Waiting' = Waiting
    BY <1>1 DEF Active, Waiting
  <1>4. PICK k : k = Head(todo[t])
    OBVIOUS
  <1>5. k \in Waiters \cup {Close}
    BY <1>1, <1>2, <1>4, MarksDiffer DEF DoesFirst, Errands, Stops
  <1>6. /\ \A i \in Timers : StopOf(i) # k
        /\ Accept # k /\ Close \notin Waiters /\ Accept \notin Waiters /\ Close # Accept
    BY <1>5, MarksDiffer, KindsDiffer DEF Waiters
  <1>7. /\ InTodo(k, t) /\ ~ InTodo(k, t)'
        /\ \A x : x # k => (InTodo(x, t)' <=> InTodo(x, t))
        /\ \A x : \A u \in SessionThreads \ {t} : InTodo(x, u)' <=> InTodo(x, u)
    BY <1>2, <1>4 DEF DoesFirst
  <1>8. \A x : x # k => (InHand(x)' <=> InHand(x)) /\ \A u \in SessionThreads : InTodo(x, u)' <=> InTodo(x, u)
    BY <1>7 DEF InHand
  <1>9. \/ k = Close /\ closes' = closes + 1 /\ queued' = queued
        \/ k \in Waiters /\ k # Close /\ closes' = closes /\ queued' = queued \cup {k}
    BY <1>1, <1>4, <1>5
  <1>10. CallsFit' /\ PlacesFit' /\ TableFits' /\ ChannelsFit'
    BY <1>1, <1>3 DEF CallsFit, MayAsk, Asks, PlacesFit, TableFits, ChannelsFit
  <1>11. TodoFits'
    BY <1>2, <1>9 DEF TodoFits, DoesFirst
  <1>12. ClosesLast'
    <2>1. \A u \in SessionThreads \ {t} : todo'[u] = todo[u]
      BY <1>2 DEF DoesFirst
    <2>2. ASSUME NEW u \in SessionThreads, InTodo(Close, u)'
          PROVE  Active' = {} /\ Waiting' = {} /\ (Head(todo'[u]) = Close \/ filter = ALL)
      <3>1. CASE u = t
        <4>1. k # Close /\ InTodo(Close, t)
          BY <1>7, <2>2, <3>1
        <4> QED
          BY <1>3, <1>4, <3>1, <4>1 DEF ClosesLast
      <3>2. CASE u # t
        BY <1>3, <1>7, <2>1, <2>2, <3>2 DEF ClosesLast
      <3> QED
        BY <3>1, <3>2
    <2>3. closes' \in Nat /\ (closes' > 0 => Active' = {} /\ Waiting' = {})
      BY <1>3, <1>7, <1>9 DEF ClosesLast
    <2>4. closes > 0 => closes' > 0
      BY <1>9 DEF ClosesLast
    <2> QED
      BY <1>1, <2>2, <2>3, <2>4 DEF ClosesLast
  <1>13. ProcsHeld'
    <2>1. \A w : Runs(w)' <=> Runs(w)
      BY <1>1 DEF Runs
    <2>2. ASSUME NEW l \in {Accept, Command, TimedOut, Complete}, NEW w, OneHolder(l, w)
          PROVE  OneHolder(l, w)'
      <3>1. CASE l = k
        <4>1. l \in queued' /\ ~ Runs(w) /\ l \in Active
          BY <1>6, <1>7, <1>9, <2>2, <3>1 DEF OneHolder, InHand, Waiters
        <4>2. \A u \in SessionThreads : ~ InTodo(l, u)'
          BY <1>7, <3>1, <2>2 DEF OneHolder
        <4> QED
          BY <1>3, <2>1, <4>1, <4>2 DEF OneHolder, InHand
      <3>2. CASE l # k
        <4>1. l \in queued' <=> l \in queued
          BY <1>9, <3>2
        <4> QED
          BY <1>3, <1>8, <2>1, <2>2, <3>2, <4>1 DEF OneHolder
      <3> QED
        BY <3>1, <3>2
    <2> QED
      BY <2>2 DEF ProcsHeld
  <1>14. InputHeld' /\ SendHeld' /\ TransferHeld'
    BY <1>1, <1>3 DEF InputHeld, Receives, SendHeld, Sends, Replying, TransferHeld, Beginning
  <1>15. Greeting' <=> Greeting
    BY <1>1, <1>6, <1>9 DEF Greeting
  <1>16. Apart' /\ Unspoken' /\ ReadsOnce' /\ GreetsAlone'
    BY <1>1, <1>3, <1>15 DEF Apart, Unspoken, Replying, ReadsOnce, GreetingReads, HandshakeReads,
                                   CommandReads, GreetsAlone
  <1>17. TimersFit'
    BY <1>1, <1>3, <1>6, <1>8 DEF TimersFit, Listens, AsksInput
  <1> QED
    BY <1>10, <1>11, <1>12, <1>13, <1>14, <1>16, <1>17

-------------------------------------------------------------------------------
(* Timers fire, the client answers, the transfer goes on.                  *)

(* A timer fires, or is armed again with FTP_Kill; in between the timeout  *)
(* is added (TimedOutStartsKeeps).                                         *)
LEMMA TimerProcKeeps ==
  ASSUME ConnectionIInv, NEW i \in Timers, FTP_TimerProc(i), timers[i] # "free", ~ Over
  PROVE  ConnectionIInv'
  <1> USE DEF ConnectionIInv
  <1>1. CASE Adding(i, "add", "run", TimedOut, "return", "return")
    <2>1. Adder(i, "add", "run", TimedOut, "return", "return")
      BY DEF Adder
    <2> QED
      BY <1>1, <2>1, AddingKeeps
  <1>2. CASE \/ At(i, "idle") /\ timers[i] = "idle" /\ timers' = [timers EXCEPT ![i] = "firing"] /\ Goto(i, "run")
                  /\ UNCHANGED <<cjvars, io, inputTimer, life>>
             \/ At(i, "return") /\ timers' = [timers EXCEPT ![i] = "kill"] /\ Goto(i, "idle")
                  /\ UNCHANGED <<cjvars, io, inputTimer, life>>
    <2>1. i \in SessionThreads
      BY ThreadNames
    <2>2. PICK l : Moves(i, l) /\ call[i] = None
      BY <1>2, <2>1, GotoMoves DEF At, Free
    <2>3. UNCHANGED <<active, pending, activeFlags, filter, queued, closes, todo, call, job,
                      socket, receiving, sending, data, bActive, inputTimer,
                      logoff, commands, dataLock, closed>>
      BY <1>2 DEF cjvars, io, life
    <2>4. Active' = Active /\ Waiting' = Waiting
      BY <2>3 DEF Active, Waiting
    <2>5. /\ timers' \in [Timers -> {"free", "idle", "firing", "kill", "fired"}]
          /\ \A j \in Timers : timers'[j] = "free" <=> timers[j] = "free"
      BY <1>2 DEF TimersFit
    <2>6. CallsFit'
      BY <2>1, <2>2, <2>3, CallsStay DEF Moves
    <2>7. PlacesFit'
      BY <2>1, <2>2, PlacesMove DEF PlaceOf
    <2>8. \A w \in {"accept", "command", "complete", "timedOut", "receive", "sent", "data", "killer"} :
             pc'[w] = pc[w]
      BY <2>2, ThreadNames DEF Moves, Elsewhere
    <2>9. TableFits' /\ TodoFits' /\ ChannelsFit'
      BY <2>3, <2>4 DEF TableFits, TodoFits, ChannelsFit
    <2>10. ClosesLast'
      BY <2>3, <2>4, <2>8 DEF ClosesLast, InTodo
    <2>11. ProcsHeld'
      BY <2>3, <2>4, <2>8 DEF ProcsHeld, OneHolder, Runs, InHand, InTodo
    <2>12. InputHeld' /\ SendHeld'
      BY <2>3, <2>4, <2>8 DEF InputHeld, Receives, Receivers, SendHeld, Sends, Senders, Replying
    <2>13. TransferHeld' /\ Apart' /\ Unspoken'
      BY <2>3, <2>4, <2>8 DEF TransferHeld, Beginning, Apart, Unspoken, Replying
    <2>14. GreetsAlone' /\ ReadsOnce'
      BY <2>3, <2>4, <2>5, <2>8 DEF GreetsAlone, Greeting, Replying, ReadsOnce, GreetingReads, HandshakeReads,
                                  CommandReads
    <2>15. TimersFit'
      BY <2>3, <2>4, <2>5, <2>8 DEF TimersFit, Listens, AsksInput, InHand, InTodo
    <2> QED
      BY <2>6, <2>7, <2>9, <2>10, <2>11, <2>12, <2>13, <2>14, <2>15
  <1> QED
    BY <1>1, <1>2 DEF FTP_TimerProc

LEMMA FTP_KillKeeps ==
  ASSUME ConnectionIInv, NEW i \in Timers, FTP_Kill(i)
  PROVE  ConnectionIInv'
  <1> USE DEF ConnectionIInv
  <1>1. /\ UNCHANGED <<active, pending, activeFlags, filter, queued, closes, todo, call, job, pc,
                       receiving, sending, data, bActive, inputTimer,
                       logoff, commands, dataLock, closed>>
        /\ socket' = "closed"
    BY DEF FTP_Kill, cjvars, life
  <1>2. Active' = Active /\ Waiting' = Waiting
    BY <1>1 DEF Active, Waiting
  <1>3. /\ timers' \in [Timers -> {"free", "idle", "firing", "kill", "fired"}]
        /\ \A j \in Timers : timers'[j] = "free" <=> timers[j] = "free"
    BY DEF TimersFit, FTP_Kill
  <1>4. CallsFit' /\ PlacesFit' /\ TableFits' /\ TodoFits' /\ ChannelsFit' /\ ClosesLast'
    BY <1>1, <1>2 DEF CallsFit, MayAsk, Asks, PlacesFit, TableFits, TodoFits, ChannelsFit, ClosesLast, InTodo
  <1>5. ProcsHeld' /\ InputHeld' /\ SendHeld' /\ TransferHeld'
    BY <1>1, <1>2 DEF ProcsHeld, OneHolder, Runs, InHand, InTodo, InputHeld, Receives, SendHeld, Sends,
                      Replying, TransferHeld, Beginning
  <1>6. Apart' /\ Unspoken' /\ GreetsAlone' /\ ReadsOnce'
    BY <1>1, <1>2, <1>3 DEF Apart, Unspoken, Replying, GreetsAlone, Greeting, ReadsOnce, GreetingReads,
                      HandshakeReads, CommandReads
  <1>7. TimersFit'
    BY <1>1, <1>2, <1>3 DEF TimersFit, Listens, AsksInput, InHand, InTodo
  <1> QED
    BY <1>4, <1>5, <1>6, <1>7

(* The line arrives, or the connection is lost: the right to receive goes  *)
(* to the callback.                                                        *)
LEMMA LineArrivesKeeps ==
  ASSUME ConnectionIInv, LineArrives
  PROVE  ConnectionIInv'
  <1> USE DEF ConnectionIInv
  <1>1. "receive" \in SessionThreads
    BY ThreadNames
  <1>2. PICK l : l \in {"line", "lost"} /\ Goto("receive", l)
    BY DEF LineArrives
  <1>3. Moves("receive", l) /\ pc["receive"] = "idle" /\ call["receive"] = None
    BY <1>1, <1>2, GotoMoves DEF LineArrives, At, Free
  <1>4. /\ UNCHANGED <<active, pending, activeFlags, filter, queued, closes, todo, call, job,
                       socket, sending, data, bActive, timers, inputTimer,
                       logoff, dataLock, closed>>
        /\ receiving /\ ~ receiving'
        /\ receiving' \in BOOLEAN
    BY DEF LineArrives, cjvars, clock
  <1>5. Active' = Active /\ Waiting' = Waiting
    BY <1>4 DEF Active, Waiting
  <1>6. CallsFit'
    BY <1>1, <1>3, <1>4, CallsStay DEF Moves
  <1>7. PlacesFit'
    BY <1>1, <1>2, <1>3, PlacesMove DEF PlaceOf
  <1> USE DEF SessionThreads, Workers, Timers, Moves, Elsewhere
  <1>8. TableFits' /\ TodoFits' /\ ChannelsFit'
    BY <1>4, <1>5 DEF TableFits, TodoFits, ChannelsFit
  <1>9. ClosesLast'
    BY <1>3, <1>4, <1>5 DEF ClosesLast, InTodo
  <1>10. ProcsHeld'
    BY <1>3, <1>4, <1>5 DEF ProcsHeld, OneHolder, Runs, InHand, InTodo
  <1>11. InputHeld'
    BY <1>2, <1>3, <1>4, <1>5 DEF InputHeld, Receives, Receivers
  <1>12. SendHeld'
    BY <1>3, <1>4, <1>5 DEF SendHeld, Sends, Senders, Replying
  <1>13. TransferHeld' /\ Apart' /\ Unspoken'
    BY <1>3, <1>4, <1>5 DEF TransferHeld, Beginning, Apart, Unspoken, Replying
  <1>14. GreetsAlone' /\ ReadsOnce'
    BY <1>2, <1>3, <1>4, <1>5 DEF GreetsAlone, Greeting, Replying, ReadsOnce, GreetingReads, HandshakeReads,
                                  CommandReads
  <1>15. TimersFit'
    BY <1>3, <1>4, <1>5 DEF TimersFit, Listens, AsksInput, InHand, InTodo
  <1> QED
    BY <1>6, <1>7, <1>8, <1>9, <1>10, <1>11, <1>12, <1>13, <1>14, <1>15

(* A send ends: the right to send goes to its callback.                    *)
LEMMA SendCompletesKeeps ==
  ASSUME ConnectionIInv, SendCompletes
  PROVE  ConnectionIInv'
  <1> USE DEF ConnectionIInv
  <1>1. "sent" \in SessionThreads
    BY ThreadNames
  <1>2. PICK l : /\ l \in {"secure", "end", "lost"} /\ Goto("sent", l)
                /\ (l = "secure" => sending = "secure")
    BY DEF SendCompletes
  <1>3. Moves("sent", l) /\ pc["sent"] = "idle" /\ call["sent"] = None
    BY <1>1, <1>2, GotoMoves DEF SendCompletes, At, Free
  <1>4. /\ UNCHANGED <<active, pending, activeFlags, filter, queued, closes, todo, call, job,
                       receiving, data, bActive, timers, inputTimer,
                       logoff, dataLock, closed>>
        /\ sending # "none" /\ sending' = "none" /\ socket' \in {"open", "closed"}
    BY DEF SendCompletes, cjvars, clock, life, ChannelsFit
  <1>5. Active' = Active /\ Waiting' = Waiting
    BY <1>4 DEF Active, Waiting
  <1>6. CallsFit'
    BY <1>1, <1>3, <1>4, CallsStay DEF Moves
  <1>7. PlacesFit'
    BY <1>1, <1>2, <1>3, PlacesMove DEF PlaceOf
  <1> USE DEF SessionThreads, Workers, Timers, Moves, Elsewhere
  <1>8. TableFits' /\ TodoFits' /\ ChannelsFit'
    BY <1>4, <1>5 DEF TableFits, TodoFits, ChannelsFit
  <1>9. ClosesLast'
    BY <1>3, <1>4, <1>5 DEF ClosesLast, InTodo
  <1>10. ProcsHeld'
    BY <1>3, <1>4, <1>5 DEF ProcsHeld, OneHolder, Runs, InHand, InTodo
  <1>11. InputHeld'
    BY <1>2, <1>3, <1>4, <1>5 DEF InputHeld, Receives, Receivers
  <1>12. SendHeld'
    BY <1>2, <1>3, <1>4, <1>5 DEF SendHeld, Sends, Senders, Replying
  <1>13. TransferHeld' /\ Apart' /\ Unspoken'
    BY <1>3, <1>4, <1>5 DEF TransferHeld, Beginning, Apart, Unspoken, Replying
  <1>14. GreetsAlone' /\ ReadsOnce'
    BY <1>2, <1>3, <1>4, <1>5 DEF GreetsAlone, Greeting, Replying, ReadsOnce, GreetingReads, HandshakeReads,
                                  CommandReads
  <1>15. TimersFit'
    BY <1>3, <1>4, <1>5 DEF TimersFit, Listens, AsksInput, InHand, InTodo
  <1> QED
    BY <1>6, <1>7, <1>8, <1>9, <1>10, <1>11, <1>12, <1>13, <1>14, <1>15

-------------------------------------------------------------------------------
(* What the procs do between their jobs.                                   *)

\* One proc has moved on, and the jobs are what they were.
Steps(t, from, l) ==
  /\ t \in SessionThreads /\ t \notin Timers
  /\ pc[t] = from /\ call[t] = None /\ Moves(t, l)
  /\ UNCHANGED <<active, pending, activeFlags, filter, queued, closes, todo, call, job,
                 socket, receiving, sending>>
  /\ Active' = Active /\ Waiting' = Waiting

\* Steps of a proc that is neither about to receive nor about to send.
Inner(t, from, l) ==
  \/ t = "command" /\ from = "run" /\ l \in {"reply", "secure", "begin", "abort", "input"}
  \/ t = "command" /\ from = "continue" /\ l = "complete"
  \/ t = "command" /\ from = "refused" /\ l = "complete"
  \/ t = "timedOut" /\ from = "run" /\ l = "reply"
  \/ t = "complete" /\ from = "run" /\ l = "timer"
  \/ t = "complete" /\ from = "timer" /\ l = "reply"
  \/ t = "killer" /\ from = "idle" /\ l = "locked"
  \/ t = "killer" /\ from = "unlock" /\ l = "done"

LEMMA StepsAre ==
  ASSUME PlacesFit, NEW t, NEW from, NEW l, Inner(t, from, l),
         At(t, from), Goto(t, l), UNCHANGED cjvars, UNCHANGED <<socket, receiving, sending>>
  PROVE  Steps(t, from, l)
  <1>1. t \in SessionThreads /\ t \notin Timers
    BY ThreadNames DEF Inner
  <1>2. Moves(t, l) /\ pc[t] = from /\ call[t] = None
    BY <1>1, GotoMoves DEF At, Free
  <1> QED
    BY <1>1, <1>2 DEF Steps, cjvars, Active, Waiting

(* Such a step disturbs at most the transfer, the timers and the lock.     *)
LEMMA InnerKeepsMost ==
  ASSUME ConnectionIInv, NEW t, NEW from, NEW l, Inner(t, from, l), Steps(t, from, l)
  PROVE  /\ TableFits' /\ PlacesFit' /\ CallsFit' /\ TodoFits' /\ ProcsHeld' /\ InputHeld' /\ SendHeld'
         /\ Apart' /\ Unspoken' /\ ReadsOnce'
         /\ \A w \in {"accept", "command", "timedOut", "complete", "receive", "sent", "killer"} :
               w # t => pc'[w] = pc[w]
         /\ pc'[t] = l /\ (Greeting' <=> Greeting)
         /\ Listens' <=> Listens
  <1> USE DEF ConnectionIInv
  <1>1. /\ t \in SessionThreads /\ t \notin Timers /\ pc[t] = from /\ call[t] = None /\ Moves(t, l)
        /\ UNCHANGED <<active, pending, activeFlags, filter, queued, closes, todo, call, job,
                       socket, receiving, sending>>
        /\ Active' = Active /\ Waiting' = Waiting
    BY DEF Steps
  <1>2. CallsFit'
    BY <1>1, CallsStay DEF Moves
  <1>3. PlacesFit'
    <2>1. PlaceOf(t, l)
      BY DEF Inner, PlaceOf
    <2> QED
      BY <1>1, <2>1, PlacesMove
  <1> USE DEF Inner, SessionThreads, Workers, Timers, Moves, Elsewhere
  <1>4. /\ \A w \in {"accept", "command", "timedOut", "complete", "receive", "sent", "killer"} :
              w # t => pc'[w] = pc[w]
        /\ pc'[t] = l
    BY <1>1
  <1>5. Greeting' <=> Greeting
    BY <1>1 DEF Greeting
  <1>6. Listens' <=> Listens
    BY <1>1 DEF Listens, AsksInput
  <1>7. TableFits' /\ TodoFits'
    BY <1>1 DEF TableFits, TodoFits
  <1>8. ProcsHeld'
    BY <1>1 DEF ProcsHeld, OneHolder, Runs, InHand, InTodo
  <1>9. InputHeld'
    BY <1>1 DEF InputHeld, Receives, Receivers
  <1>10. SendHeld'
    BY <1>1 DEF SendHeld, Sends, Senders, Replying
  <1>11. Apart' /\ Unspoken'
    BY <1>1 DEF Apart, Unspoken, Replying
  <1>12. ReadsOnce'
    BY <1>1 DEF ReadsOnce, GreetingReads, HandshakeReads, CommandReads, Greeting
  <1> QED
    BY <1>2, <1>3, <1>4, <1>5, <1>6, <1>7, <1>8, <1>9, <1>10,
       <1>11, <1>12

(* The rest, where nothing is done with timers and lock.                   *)
LEMMA InnerKeeps ==
  ASSUME ConnectionIInv, NEW t, NEW from, NEW l, Inner(t, from, l), Steps(t, from, l), t # "killer",
         UNCHANGED <<timers, inputTimer, dataLock, closed>>, ChannelsFit', TransferHeld',
         Listens /\ ~ bActive' /\ pc'["complete"] # "timer" => inputTimer # "none"
  PROVE  ConnectionIInv'
  <1> USE DEF ConnectionIInv
  <1>1. /\ TableFits' /\ PlacesFit' /\ CallsFit' /\ TodoFits' /\ ProcsHeld' /\ InputHeld' /\ SendHeld'
        /\ Apart' /\ Unspoken' /\ ReadsOnce'
        /\ \A w \in {"accept", "command", "timedOut", "complete", "receive", "sent", "killer"} :
              w # t => pc'[w] = pc[w]
        /\ pc'[t] = l /\ (Greeting' <=> Greeting)
        /\ Listens' <=> Listens
    BY InnerKeepsMost
  <1>2. /\ UNCHANGED <<filter, queued, closes, todo>>
        /\ Active' = Active /\ Waiting' = Waiting
    BY DEF Steps
  <1>3. ClosesLast'
    <2>1. pc'["killer"] = pc["killer"]
      BY <1>1
    <2> QED
      BY <1>2, <2>1 DEF ClosesLast, InTodo
  <1>4. GreetsAlone'
    <2>1. t = "accept" => FALSE
      BY DEF Inner
    <2>2. pc'["accept"] = pc["accept"]
      BY <1>1, <2>1
    <2> QED
      BY <1>1, <1>2, <2>2 DEF GreetsAlone, Replying
  <1>5. TimersFit'
    BY <1>1, <1>2 DEF TimersFit, InHand, InTodo
  <1> QED
    BY <1>1, <1>3, <1>4, <1>5

LEMMA RunCommandKeeps ==
  ASSUME ConnectionIInv, RunCommand
  PROVE  ConnectionIInv'
  <1> USE DEF ConnectionIInv
  <1>1. PICK l : /\ Goto("command", l)
                 /\ \/ l \in {"reply", "secure"} /\ UNCHANGED <<data, bActive>>
                    \/ l = "begin" /\ ~ bActive /\ bActive' = TRUE /\ data' = "select"
                    \/ l = "abort" /\ bActive /\ data \in {"select", "waiting"} /\ data' = "none" /\ bActive' = bActive
                    \/ l = "input" /\ bActive /\ UNCHANGED <<data, bActive>>
    BY DEF RunCommand
  <1>2. Inner("command", "run", l)
    BY <1>1 DEF Inner
  <1>3. Steps("command", "run", l)
    BY <1>1, <1>2, StepsAre DEF RunCommand
  <1>4. UNCHANGED <<socket, receiving, sending, timers, inputTimer, dataLock, closed>> /\ logoff' \in BOOLEAN
    BY DEF RunCommand, clock, ChannelsFit
  <1>5. pc["command"] = "run" /\ pc'["command"] = l /\ pc'["complete"] = pc["complete"]
    BY <1>3, ThreadNames DEF Steps, Moves, Elsewhere
  <1>6. Active' = Active /\ Waiting' = Waiting
    BY <1>3 DEF Steps
  <1>7. Command \in Active /\ Complete \notin Active
    BY <1>5 DEF ProcsHeld, OneHolder, Runs, Apart
  <1>8. ChannelsFit'
    BY <1>1, <1>4 DEF ChannelsFit
  <1>9. TransferHeld'
    BY <1>1, <1>5, <1>6, <1>7 DEF TransferHeld, Beginning
  <1>10. Listens /\ ~ bActive' /\ pc'["complete"] # "timer" => inputTimer # "none"
    BY <1>1, <1>5 DEF TimersFit
  <1> QED
    BY <1>2, <1>3, <1>4, <1>8, <1>9, <1>10, InnerKeeps

LEMMA ContinueDataKeeps ==
  ASSUME ConnectionIInv, ContinueData
  PROVE  ConnectionIInv'
  <1> USE DEF ConnectionIInv
  <1>1. /\ Goto("command", "complete") /\ (data' # "none" <=> data # "none")
        /\ UNCHANGED <<socket, receiving, sending, bActive, timers, inputTimer, logoff, dataLock, closed>>
        /\ ChannelsFit'
    BY DEF ContinueData, clock, life, ChannelsFit
  <1>2. Inner("command", "continue", "complete")
    BY DEF Inner
  <1>3. Steps("command", "continue", "complete")
    BY <1>1, <1>2, StepsAre DEF ContinueData
  <1>4. pc["command"] = "continue" /\ pc'["command"] = "complete" /\ pc'["complete"] = pc["complete"]
    BY <1>3, ThreadNames DEF Steps, Moves, Elsewhere
  <1>5. Active' = Active /\ Waiting' = Waiting
    BY <1>3 DEF Steps
  <1>6. TransferHeld'
    BY <1>1, <1>4, <1>5 DEF TransferHeld, Beginning
  <1>7. Listens /\ ~ bActive' /\ pc'["complete"] # "timer" => inputTimer # "none"
    BY <1>1, <1>4 DEF TimersFit
  <1> QED
    BY <1>1, <1>2, <1>3, <1>6, <1>7, InnerKeeps

LEMMA CancelSelectKeeps ==
  ASSUME ConnectionIInv, CancelSelect
  PROVE  ConnectionIInv'
  <1> USE DEF ConnectionIInv
  <1>1. /\ Goto("command", "complete") /\ data' = "none"
        /\ UNCHANGED <<socket, receiving, sending, bActive, timers, inputTimer, logoff, dataLock, closed>>
        /\ ChannelsFit'
    BY DEF CancelSelect, clock, life, ChannelsFit
  <1>2. Inner("command", "refused", "complete")
    BY DEF Inner
  <1>3. Steps("command", "refused", "complete")
    BY <1>1, <1>2, StepsAre DEF CancelSelect
  <1>4. pc["command"] = "refused" /\ pc'["command"] = "complete" /\ pc'["complete"] = pc["complete"]
    BY <1>3, ThreadNames DEF Steps, Moves, Elsewhere
  <1>5. Active' = Active /\ Waiting' = Waiting
    BY <1>3 DEF Steps
  <1>6. TransferHeld'
    BY <1>1, <1>4, <1>5 DEF TransferHeld, Beginning
  <1>7. Listens /\ ~ bActive' /\ pc'["complete"] # "timer" => inputTimer # "none"
    BY <1>1, <1>4 DEF TimersFit
  <1> QED
    BY <1>1, <1>2, <1>3, <1>6, <1>7, InnerKeeps

LEMMA LogOffKeeps ==
  ASSUME ConnectionIInv, LogOff
  PROVE  ConnectionIInv'
  <1> USE DEF ConnectionIInv
  <1>1. /\ Goto("timedOut", "reply")
        /\ UNCHANGED <<socket, receiving, sending, data, bActive, timers, inputTimer, dataLock, closed>>
        /\ ChannelsFit'
    BY DEF LogOff, clock, io, ChannelsFit
  <1>2. Inner("timedOut", "run", "reply")
    BY DEF Inner
  <1>3. Steps("timedOut", "run", "reply")
    BY <1>1, <1>2, StepsAre DEF LogOff
  <1>4. pc'["command"] = pc["command"] /\ pc'["complete"] = pc["complete"]
    BY <1>3, ThreadNames DEF Steps, Moves, Elsewhere
  <1>5. Active' = Active /\ Waiting' = Waiting
    BY <1>3 DEF Steps
  <1>6. TransferHeld'
    BY <1>1, <1>4, <1>5 DEF TransferHeld, Beginning
  <1>7. Listens /\ ~ bActive' /\ pc'["complete"] # "timer" => inputTimer # "none"
    BY <1>1, <1>4 DEF TimersFit
  <1> QED
    BY <1>1, <1>2, <1>3, <1>6, <1>7, InnerKeeps

(* The transfer is over: from here to AddClientJobTimer the input job may  *)
(* be without a timer.                                                     *)
LEMMA CloseTransferKeeps ==
  ASSUME ConnectionIInv, CloseTransfer
  PROVE  ConnectionIInv'
  <1> USE DEF ConnectionIInv
  <1>1. /\ Goto("complete", "timer") /\ bActive' = FALSE
        /\ UNCHANGED <<socket, receiving, sending, data, timers, inputTimer, logoff, dataLock, closed>>
        /\ ChannelsFit'
    BY DEF CloseTransfer, clock, life, ChannelsFit
  <1>2. Inner("complete", "run", "timer")
    BY DEF Inner
  <1>3. Steps("complete", "run", "timer")
    BY <1>1, <1>2, StepsAre DEF CloseTransfer
  <1>4. pc["complete"] = "run" /\ pc'["command"] = pc["command"] /\ pc'["complete"] = "timer"
    BY <1>3, ThreadNames DEF Steps, Moves, Elsewhere
  <1>5. Active' = Active /\ Waiting' = Waiting
    BY <1>3 DEF Steps
  <1>6. Complete \in Active /\ Command \notin Active /\ pc["command"] \in {"idle", "done"}
    BY <1>4 DEF ProcsHeld, OneHolder, Runs, Apart
  <1>7. TransferHeld'
    BY <1>1, <1>4, <1>5, <1>6 DEF TransferHeld, Beginning
  <1>8. Listens /\ ~ bActive' /\ pc'["complete"] # "timer" => inputTimer # "none"
    BY <1>4
  <1> QED
    BY <1>1, <1>2, <1>3, <1>7, <1>8, InnerKeeps

(* While a transfer is completed only the input job listens, and it is     *)
(* given its timer.                                                        *)
LEMMA AddClientJobTimerKeeps ==
  ASSUME ConnectionIInv, AddClientJobTimer
  PROVE  ConnectionIInv'
  <1> USE DEF ConnectionIInv
  <1>1. /\ Goto("complete", "reply")
        /\ UNCHANGED <<socket, receiving, sending, data, bActive, logoff, commands, dataLock, closed>>
        /\ ChannelsFit'
    BY DEF AddClientJobTimer, life, io, ChannelsFit
  <1>2. Inner("complete", "timer", "reply")
    BY DEF Inner
  <1>3. Steps("complete", "timer", "reply")
    BY <1>1, <1>2, StepsAre DEF AddClientJobTimer
  <1>4. /\ TableFits' /\ PlacesFit' /\ CallsFit' /\ TodoFits' /\ ProcsHeld' /\ InputHeld' /\ SendHeld'
        /\ Apart' /\ Unspoken' /\ ReadsOnce'
        /\ pc'["command"] = pc["command"] /\ pc'["killer"] = pc["killer"]
        /\ pc'["complete"] = "reply" /\ (Greeting' <=> Greeting)
        /\ Listens' <=> Listens
    BY <1>2, <1>3, InnerKeepsMost
  <1>5. /\ pc["complete"] = "timer" /\ Active' = Active /\ Waiting' = Waiting
        /\ UNCHANGED <<filter, queued, closes, todo>>
    BY <1>3 DEF Steps
  <1>6. /\ Complete \in Active /\ Command \notin Active /\ Accept \notin Active /\ Secure \notin Active
        /\ ~ Greeting
    <2>1. Complete \in Active
      BY <1>5 DEF ProcsHeld, OneHolder, Runs
    <2> QED
      BY <2>1, KindsDiffer DEF Apart, GreetsAlone
  <1>7. Listens => Input \in Active
    <2> SUFFICES ASSUME NEW u \in {"accept", "sent", "command"}, AsksInput(u) PROVE FALSE
      BY DEF Listens
    <2>1. \/ u = "accept" /\ pc[u] = "input"
          \/ u = "sent" /\ pc[u] = "secure"
          \/ u = "command" /\ pc[u] = "input"
      BY ThreadNames, KindsDiffer DEF AsksInput, CallsFit, MayAsk, Asks
    <2> QED
      BY <1>6, <2>1 DEF ProcsHeld, OneHolder, Runs, SendHeld
  <1>8. "1" \in Ids(active) <=> Input \in Active
    <2>1. Ids(active) = {l.id : l \in Active}
      BY DEF Ids, Active, KindsOf
    <2>2. Input.id = "1" /\ \A l \in SessionJobs : l.id = "1" => l = Input
      BY KindsAre DEF SessionJobs
    <2> QED
      BY <2>1, <2>2, TableJobs
  <1>9. TransferHeld'
    BY <1>1, <1>4, <1>5 DEF TransferHeld, Beginning
  <1>10. ClosesLast'
    BY <1>1, <1>4, <1>5 DEF ClosesLast, InTodo
  <1>11. GreetsAlone'
    BY <1>4, <1>6 DEF GreetsAlone
  <1>12. TimersFit'
    <2>1. CASE Input \in Active /\ inputTimer = "none"
      <3>1. PICK i \in Timers : timers[i] = "free" /\ timers' = [timers EXCEPT ![i] = "idle"] /\ inputTimer' = i
        BY <1>8, <2>1 DEF AddClientJobTimer, StartTimer
      <3>2. "none" \notin Timers
        BY DEF Timers
      <3>3. /\ timers' \in [Timers -> {"free", "idle", "firing", "kill", "fired"}]
            /\ \A j \in Timers \ {i} : timers'[j] = timers[j]
        BY <3>1 DEF TimersFit
      <3>4. Listens'
        BY <1>4, <2>1 DEF Listens
      <3>5. \A j \in Timers \ {i} : timers[j] # "free" => InHand(StopOf(j))'
        BY <1>5, <2>1, <3>2 DEF TimersFit, InHand, InTodo
      <3> QED
        BY <3>1, <3>2, <3>3, <3>4, <3>5 DEF TimersFit
    <2>2. CASE ~ (Input \in Active /\ inputTimer = "none")
      <3>1. UNCHANGED <<timers, inputTimer>>
        BY <1>8, <2>2 DEF AddClientJobTimer, clock
      <3> QED
        BY <1>4, <1>5, <1>7, <2>2, <3>1 DEF TimersFit, InHand, InTodo
    <2> QED
      BY <2>1, <2>2
  <1> QED
    BY <1>1, <1>4, <1>9, <1>10, <1>11, <1>12

(* KillUser finds a client that is still there, and it stays until the     *)
(* lock is released.                                                       *)
LEMMA LockKeeps ==
  ASSUME ConnectionIInv, LockClient \/ UnlockClient
  PROVE  ConnectionIInv'
  <1> USE DEF ConnectionIInv
  <1>1. PICK from, l : /\ \/ /\ from = "idle" /\ l = "locked" /\ ~ closed /\ dataLock' = TRUE
                          \/ /\ from = "unlock" /\ l = "done" /\ dataLock' = FALSE
                       /\ At("killer", from) /\ Goto("killer", l)
    BY DEF LockClient, UnlockClient
  <1>2. UNCHANGED cjvars /\ UNCHANGED <<socket, receiving, sending, data, bActive, timers, inputTimer, logoff, closed>>
    BY DEF LockClient, UnlockClient, io, clock
  <1>3. Inner("killer", from, l)
    BY <1>1 DEF Inner
  <1>4. Steps("killer", from, l)
    BY <1>1, <1>2, <1>3, StepsAre
  <1>5. /\ TableFits' /\ PlacesFit' /\ CallsFit' /\ TodoFits' /\ ProcsHeld' /\ InputHeld' /\ SendHeld'
        /\ Apart' /\ Unspoken' /\ ReadsOnce'
        /\ pc'["command"] = pc["command"] /\ pc'["complete"] = pc["complete"] /\ pc'["accept"] = pc["accept"]
        /\ pc'["killer"] = l /\ (Greeting' <=> Greeting)
        /\ Listens' <=> Listens
    BY <1>3, <1>4, InnerKeepsMost
  <1>6. /\ Active' = Active /\ Waiting' = Waiting
        /\ UNCHANGED <<filter, queued, closes, todo>>
    BY <1>4 DEF Steps
  <1>7. ChannelsFit' /\ TransferHeld' /\ GreetsAlone'
    BY <1>2, <1>5, <1>6 DEF ChannelsFit, TransferHeld, Beginning, GreetsAlone, Replying
  <1>8. ClosesLast'
    BY <1>1, <1>2, <1>5, <1>6 DEF ClosesLast, InTodo
  <1>9. TimersFit'
    BY <1>2, <1>5, <1>6 DEF TimersFit, InHand, InTodo
  <1> QED
    BY <1>5, <1>7, <1>8, <1>9

(* The transfer goes on, and the client is freed.                          *)
LEMMA DataMovesKeeps ==
  ASSUME ConnectionIInv, DataMoves
  PROVE  ConnectionIInv'
  <1> USE DEF ConnectionIInv
  <1>1. /\ UNCHANGED <<active, pending, activeFlags, filter, queued, closes, todo, call, job, pc,
                       socket, receiving, sending, bActive, timers, inputTimer,
                       logoff, commands, dataLock, closed>>
        /\ data \in {"waiting", "sending", "cancelled"} /\ data' \in {"sending", "ended"}
    BY DEF DataMoves, cjvars, clock, life
  <1>2. Active' = Active /\ Waiting' = Waiting
    BY <1>1 DEF Active, Waiting
  <1>3. CallsFit' /\ PlacesFit' /\ TableFits' /\ TodoFits' /\ ChannelsFit' /\ ClosesLast'
    BY <1>1, <1>2 DEF CallsFit, MayAsk, Asks, PlacesFit, TableFits, TodoFits, ChannelsFit, ClosesLast, InTodo
  <1>4. ProcsHeld' /\ InputHeld' /\ SendHeld'
    BY <1>1, <1>2 DEF ProcsHeld, OneHolder, Runs, InHand, InTodo, InputHeld, Receives, SendHeld, Sends, Replying
  <1>5. TransferHeld'
    BY <1>1, <1>2 DEF TransferHeld, Beginning
  <1>6. Apart' /\ Unspoken' /\ GreetsAlone' /\ ReadsOnce'
    BY <1>1, <1>2 DEF Apart, Unspoken, Replying, GreetsAlone, Greeting, ReadsOnce, GreetingReads,
                      HandshakeReads, CommandReads
  <1>7. TimersFit'
    BY <1>1, <1>2 DEF TimersFit, Listens, AsksInput, InHand, InTodo
  <1> QED
    BY <1>3, <1>4, <1>5, <1>6, <1>7

LEMMA CloseConnectionKeeps ==
  ASSUME ConnectionIInv, FTP_Close_Connection
  PROVE  ConnectionIInv'
  <1> USE DEF ConnectionIInv
  <1>1. /\ UNCHANGED <<active, pending, activeFlags, filter, queued, closes, todo, call, job, pc,
                       receiving, sending, data, bActive, timers, inputTimer,
                       logoff, commands, dataLock>>
        /\ closes > 0 /\ ~ dataLock /\ socket' = "closed"
    BY DEF FTP_Close_Connection, cjvars, clock
  <1>2. Active' = Active /\ Waiting' = Waiting
    BY <1>1 DEF Active, Waiting
  <1>3. CallsFit' /\ PlacesFit' /\ TableFits' /\ TodoFits' /\ ChannelsFit' /\ ClosesLast'
    BY <1>1, <1>2 DEF CallsFit, MayAsk, Asks, PlacesFit, TableFits, TodoFits, ChannelsFit, ClosesLast, InTodo
  <1>4. ProcsHeld' /\ InputHeld' /\ SendHeld' /\ TransferHeld'
    BY <1>1, <1>2 DEF ProcsHeld, OneHolder, Runs, InHand, InTodo, InputHeld, Receives, SendHeld, Sends,
                      Replying, TransferHeld, Beginning
  <1>5. Apart' /\ Unspoken' /\ GreetsAlone' /\ ReadsOnce'
    BY <1>1, <1>2 DEF Apart, Unspoken, Replying, GreetsAlone, Greeting, ReadsOnce, GreetingReads,
                      HandshakeReads, CommandReads
  <1>6. TimersFit'
    BY <1>1, <1>2 DEF TimersFit, Listens, AsksInput, InHand, InTodo
  <1> QED
    BY <1>3, <1>4, <1>5, <1>6

-------------------------------------------------------------------------------
(* The connection.                                                         *)

(* The accept job is active and queued, and nothing else is.               *)
LEMMA SessionInitFits == SessionInit => ConnectionIInv
  <1> SUFFICES ASSUME SessionInit PROVE ConnectionIInv
    OBVIOUS
  <1> DEFINE e == <<[kind |-> Accept, extended |-> <<>>]>>
  <1>1. /\ active = e /\ pending = <<>> /\ activeFlags = Accept.classes /\ filter = {}
        /\ queued = {Accept} /\ closes = 0
        /\ todo = [t \in SessionThreads |-> <<>>] /\ call = [t \in SessionThreads |-> None]
    BY SessionAssumption DEF SessionInit, Init
  <1>2. /\ pc = [t \in SessionThreads |-> "idle"]
        /\ socket = "open" /\ receiving = FALSE /\ sending = "none"
        /\ data = "none" /\ bActive = FALSE
        /\ timers = [i \in Timers |-> "free"] /\ inputTimer = "none"
        /\ logoff = FALSE /\ commands = 0 /\ dataLock = FALSE /\ closed = FALSE
    BY DEF SessionInit
  <1>3. e \in Seq(Entry) /\ Distinct(e) /\ KindsOf(e) = {Accept}
    BY OneKind, KindsDiffer
  <1> HIDE DEF e
  <1>4. Active = {Accept} /\ Waiting = {} /\ pending \in Seq(Entry)
    <2>1. <<>> \in Seq(Entry)
      OBVIOUS
    <2> QED
      BY <1>1, <1>3, <2>1, NoKinds DEF Active, Waiting
  <1>5. \A x : \A t \in SessionThreads : ~ InTodo(x, t)
    BY <1>1 DEF InTodo, ToSet
  <1>6. \A t \in SessionThreads : pc[t] = "idle" /\ call[t] = None
    BY <1>1, <1>2
  <1> USE ThreadNames DEF ConnectionIInv
  <1>7. TableFits
    <2>1. activeFlags = UNION {k.classes : k \in Active}
      BY <1>1, <1>4
    <2>2. DOMAIN pending = {}
      BY <1>1
    <2> QED
      BY <1>1, <1>3, <1>4, <2>1, <2>2 DEF TableFits
  <1>8. PlacesFit /\ CallsFit
    BY <1>1, <1>2, <1>6 DEF PlacesFit, PlaceOf, SessionThreads, Workers, CallsFit
  <1>9. TodoFits
    BY <1>1 DEF TodoFits
  <1>10. ChannelsFit
    BY <1>2 DEF ChannelsFit
  <1>11. ProcsHeld
    BY <1>1, <1>4, <1>5, <1>6, KindsDiffer DEF ProcsHeld, OneHolder, Runs, InHand
  <1>12. InputHeld /\ SendHeld
    BY <1>2, <1>4, <1>6, KindsDiffer DEF InputHeld, Receivers, Receives, SendHeld, Senders, Sends, Replying
  <1>13. TransferHeld
    BY <1>2, <1>4, <1>6, KindsDiffer DEF TransferHeld, Beginning
  <1>14. Apart /\ Unspoken
    BY <1>4, KindsDiffer DEF Apart, Unspoken
  <1>15. GreetsAlone
    BY <1>2, <1>4, KindsDiffer DEF GreetsAlone, Replying
  <1>16. ReadsOnce
    BY <1>2, <1>4, <1>6, KindsDiffer DEF ReadsOnce, GreetingReads, HandshakeReads, CommandReads
  <1>17. TimersFit
    <2>1. ~ Listens
      BY <1>4, <1>6, KindsDiffer DEF Listens, AsksInput
    <2> QED
      BY <1>2, <2>1 DEF TimersFit
  <1>18. ClosesLast
    BY <1>1, <1>2, <1>5, <1>6 DEF ClosesLast
  <1> QED
    BY <1>7, <1>8, <1>9, <1>10, <1>11, <1>12, <1>13, <1>14, <1>15,
       <1>16, <1>17, <1>18

(* Every step keeps the invariant.                                         *)
LEMMA SessionNextKeeps ==
  ASSUME ConnectionIInv, [SessionNext]_allvars, ~ stray'
  PROVE  ConnectionIInv'
  <1>1. CASE FTP_New_Client
    <2>1. CASE Take("accept", Accept)
      BY <2>1, TakeKeeps
    <2>2. CASE Adding("accept", "add", "run", Reply, "greet", "failed")
      <3>1. Adder("accept", "add", "run", Reply, "greet", "failed")
        BY DEF Adder
      <3> QED
        BY <2>2, <3>1, ThreadNames, AddingKeeps
    <2>3. CASE Sending("accept", "greet", "reply", "input")
      BY <2>3, SendingKeeps
    <2>4. CASE AcceptInput("accept", "input", "end", "failed")
      <3>1. Reader("accept", "input", "end", "failed")
        BY DEF Reader
      <3> QED
        BY <2>4, <3>1, AcceptInputKeeps
    <2>5. CASE Adding("accept", "add", "run", Secure, "handshake", "failed")
      <3>1. Adder("accept", "add", "run", Secure, "handshake", "failed")
        BY DEF Adder
      <3> QED
        BY <2>5, <3>1, ThreadNames, AddingKeeps
    <2>6. CASE Sending("accept", "handshake", "secure", "end")
      BY <2>6, SendingKeeps
    <2>7. CASE Ending("accept", "end", "10005", "done")
      <3>1. Ender("accept", "end", Accept, "done") /\ Accept.id = "10005"
        BY KindsAre DEF Ender
      <3>2. Accept \in Active
        BY <2>7 DEF Ending, At, ConnectionIInv, ProcsHeld, OneHolder, Runs
      <3> QED
        BY <2>7, <3>1, <3>2, EndingKeeps
    <2>8. CASE Filtering("accept", "failed", "stuck")
      BY <2>8, FilteringKeeps
    <2> QED
      BY <1>1, <2>1, <2>2, <2>3, <2>4, <2>5, <2>6, <2>7, <2>8 DEF FTP_New_Client
  <1>2. CASE FTP_ReceiveLine
    <2>1. CASE LineArrives
      BY <2>1, LineArrivesKeeps
    <2>2. CASE Adding("receive", "add", "line", Command, "end", "end")
      <3>1. Adder("receive", "add", "line", Command, "end", "end")
        BY DEF Adder
      <3> QED
        BY <2>2, <3>1, ThreadNames, AddingKeeps
    <2>3. CASE Filtering("receive", "lost", "end")
      BY <2>3, FilteringKeeps
    <2>4. CASE EndInput
      BY <2>4, EndInputKeeps
    <2> QED
      BY <1>2, <2>1, <2>2, <2>3, <2>4 DEF FTP_ReceiveLine
  <1>3. CASE FTP_Sent
    <2>1. CASE SendCompletes
      BY <2>1, SendCompletesKeeps
    <2>2. CASE AcceptInput("sent", "secure", "end", "end")
      <3>1. Reader("sent", "secure", "end", "end")
        BY DEF Reader
      <3> QED
        BY <2>2, <3>1, AcceptInputKeeps
    <2>3. CASE Filtering("sent", "lost", "end")
      BY <2>3, FilteringKeeps
    <2>4. CASE Ending("sent", "end", "2", "idle")
      <3>1. PICK k \in {Reply, Secure} : k \in Active
        BY <2>4 DEF Ending, At, ConnectionIInv, SendHeld, Sends, Senders, Replying
      <3>2. Ender("sent", "end", k, "idle") /\ k.id = "2"
        BY KindsAre DEF Ender
      <3> QED
        BY <2>4, <3>1, <3>2, EndingKeeps
    <2> QED
      BY <1>3, <2>1, <2>2, <2>3, <2>4 DEF FTP_Sent
  <1>4. CASE FTP_Command
    <2>1. CASE Take("command", Command)
      BY <2>1, TakeKeeps
    <2>2. CASE RunCommand
      BY <2>2, RunCommandKeeps
    <2>3. CASE FTP_Data_Begin_Transfer
      <3>1. Adder("command", "add", "begin", Transfer, "continue", "refused")
        BY DEF Adder
      <3>2. Adder("command", "add", "complete", Complete, "reply", "reply")
        BY DEF Adder
      <3>3. CASE Adding("command", "add", "begin", Transfer, "continue", "refused")
        BY <3>1, <3>3, ThreadNames, AddingKeeps
      <3>4. CASE Adding("command", "add", "complete", Complete, "reply", "reply")
        BY <3>2, <3>4, ThreadNames, AddingKeeps
      <3> QED
        BY <2>3, <3>3, <3>4, ContinueDataKeeps, CancelSelectKeeps DEF FTP_Data_Begin_Transfer
    <2>4. CASE Ending("command", "abort", "201", "input")
      <3>1. Ender("command", "abort", Transfer, "input") /\ Transfer.id = "201"
        BY KindsAre DEF Ender
      <3>2. Transfer \in Active
        BY <2>4 DEF Ending, At, ConnectionIInv, TransferHeld
      <3> QED
        BY <2>4, <3>1, <3>2, EndingKeeps
    <2>5. CASE Adding("command", "addExclusive", "reply", Reply, "send", "input")
      <3>1. Adder("command", "addExclusive", "reply", Reply, "send", "input")
        BY DEF Adder
      <3> QED
        BY <2>5, <3>1, ThreadNames, AddingKeeps
    <2>6. CASE Sending("command", "send", "reply", "input")
      BY <2>6, SendingKeeps
    <2>7. CASE AcceptInput("command", "input", "end", "end")
      <3>1. Reader("command", "input", "end", "end")
        BY DEF Reader
      <3> QED
        BY <2>7, <3>1, AcceptInputKeeps
    <2>8. CASE Adding("command", "addExclusive", "secure", Secure, "handshake", "end")
      <3>1. Adder("command", "addExclusive", "secure", Secure, "handshake", "end")
        BY DEF Adder
      <3> QED
        BY <2>8, <3>1, ThreadNames, AddingKeeps
    <2>9. CASE Sending("command", "handshake", "secure", "end")
      BY <2>9, SendingKeeps
    <2>10. CASE Ending("command", "end", "5", "idle")
      <3>1. Ender("command", "end", Command, "idle") /\ Command.id = "5"
        BY KindsAre DEF Ender
      <3>2. Command \in Active
        BY <2>10 DEF Ending, At, ConnectionIInv, ProcsHeld, OneHolder, Runs
      <3> QED
        BY <2>10, <3>1, <3>2, EndingKeeps
    <2> QED
      BY <1>4, <2>1, <2>2, <2>3, <2>4, <2>5, <2>6, <2>7, <2>8, <2>9, <2>10 DEF FTP_Command
  <1>5. CASE FTP_TimedOut
    <2>1. CASE Take("timedOut", TimedOut)
      BY <2>1, TakeKeeps
    <2>2. CASE Adding("timedOut", "addExclusive", "reply", Reply, "send", "end")
      <3>1. Adder("timedOut", "addExclusive", "reply", Reply, "send", "end")
        BY DEF Adder
      <3> QED
        BY <2>2, <3>1, ThreadNames, AddingKeeps
    <2>3. CASE Sending("timedOut", "send", "shutdown", "end")
      BY <2>3, SendingKeeps
    <2>4. CASE Ending("timedOut", "end", "25", "idle")
      <3>1. Ender("timedOut", "end", TimedOut, "idle") /\ TimedOut.id = "25"
        BY KindsAre DEF Ender
      <3>2. TimedOut \in Active
        BY <2>4 DEF Ending, At, ConnectionIInv, ProcsHeld, OneHolder, Runs
      <3> QED
        BY <2>4, <3>1, <3>2, EndingKeeps
    <2> QED
      BY <1>5, <2>1, <2>2, <2>3, <2>4, LogOffKeeps DEF FTP_TimedOut
  <1>6. CASE FTPData_TransferComplete
    <2>1. CASE Take("complete", Complete)
      BY <2>1, TakeKeeps
    <2>2. CASE Adding("complete", "addExclusive", "reply", Reply, "send", "end")
      <3>1. Adder("complete", "addExclusive", "reply", Reply, "send", "end")
        BY DEF Adder
      <3> QED
        BY <2>2, <3>1, ThreadNames, AddingKeeps
    <2>3. CASE Sending("complete", "send", "reply", "end")
      BY <2>3, SendingKeeps
    <2>4. CASE Ending("complete", "end", "203", "idle")
      <3>1. Ender("complete", "end", Complete, "idle") /\ Complete.id = "203"
        BY KindsAre DEF Ender
      <3>2. Complete \in Active
        BY <2>4 DEF Ending, At, ConnectionIInv, ProcsHeld, OneHolder, Runs
      <3> QED
        BY <2>4, <3>1, <3>2, EndingKeeps
    <2> QED
      BY <1>6, <2>1, <2>2, <2>3, <2>4, CloseTransferKeeps, AddClientJobTimerKeeps
      DEF FTPData_TransferComplete
  <1>7. CASE \E i \in Timers : TimerRuns(i)
    <2>1. PICK i \in Timers : TimerRuns(i)
      BY <1>7
    <2>2. timers[i] # "free" /\ ~ Over
      BY <2>1 DEF TimerRuns
    <2> QED
      BY <2>1, <2>2, TimerProcKeeps, FTP_KillKeeps DEF TimerRuns
  <1>8. CASE KillUser
    <2>1. CASE Filtering("killer", "locked", "unlock")
      BY <2>1, FilteringKeeps
    <2> QED
      BY <1>8, <2>1, LockKeeps DEF KillUser
  <1>9. CASE \E t \in SessionThreads : AfterLock(t)
    BY <1>9, StopTimerKeeps, QueueNextKeeps DEF AfterLock
  <1>10. CASE UNCHANGED allvars
    <2>1. UNCHANGED <<active, pending, activeFlags, filter, queued, closes, todo, call, job, pc,
                      socket, receiving, sending, data, bActive, timers, inputTimer,
                      logoff, commands, dataLock, closed>>
      BY <1>10 DEF allvars, cjvars, io, clock, life
    <2>2. Active' = Active /\ Waiting' = Waiting
      BY <2>1 DEF Active, Waiting
    <2>3. CallsFit' /\ PlacesFit' /\ TableFits' /\ TodoFits' /\ ChannelsFit' /\ ClosesLast'
      BY <2>1, <2>2 DEF ConnectionIInv, CallsFit, MayAsk, Asks, PlacesFit, TableFits, TodoFits, ChannelsFit,
                        ClosesLast, InTodo
    <2>4. ProcsHeld' /\ InputHeld' /\ SendHeld' /\ TransferHeld'
      BY <2>1, <2>2 DEF ConnectionIInv, ProcsHeld, OneHolder, Runs, InHand, InTodo, InputHeld, Receives,
                        SendHeld, Sends, Replying, TransferHeld, Beginning
    <2>5. Apart' /\ Unspoken' /\ GreetsAlone' /\ ReadsOnce'
      BY <2>1, <2>2 DEF ConnectionIInv, Apart, Unspoken, Replying, GreetsAlone, Greeting, ReadsOnce,
                        GreetingReads, HandshakeReads, CommandReads
    <2>6. TimersFit'
      BY <2>1, <2>2 DEF ConnectionIInv, TimersFit, Listens, AsksInput, InHand, InTodo
    <2> QED
      BY <2>3, <2>4, <2>5, <2>6 DEF ConnectionIInv
  <1> QED
    BY <1>1, <1>2, <1>3, <1>4, <1>5, <1>6, <1>7, <1>8, <1>9,
       <1>10, DataMovesKeeps, TransferCompleteKeeps, CloseConnectionKeeps DEF SessionNext

(* Nobody formats a reply while another does or one is still being sent.   *)
LEMMA BufferOwned ==
  ASSUME ConnectionIInv
  PROVE  OutBufferOwned
  <1> USE DEF ConnectionIInv
  <1>1. ReplyNeverWaits
    <2>1. \A t \in SessionThreads : call[t].id # "blocked"
      BY DEF CallsFit, None
    <2>2. Accept.proc /\ Command.proc /\ TimedOut.proc /\ Complete.proc
      BY DEF Job, Accept, Command, TimedOut, Complete
    <2> QED
      BY <2>1, <2>2 DEF ReplyNeverWaits, TodoFits, Waiters
  <1>2. ASSUME NEW t \in Workers, Formatting(t)
        PROVE  \A u \in Workers \ {t} : ~ Formatting(u)
    <2>1. /\ Formatting("accept") => Greeting /\ Accept \in Active
          /\ Formatting("command") => Command \in Active
          /\ Formatting("timedOut") => TimedOut \in Active
          /\ Formatting("complete") => Complete \in Active
      BY DEF Formatting, Greeting, ProcsHeld, OneHolder, Runs
    <2>2. Greeting => Command \notin Active /\ TimedOut \notin Active /\ Complete \notin Active
      BY KindsDiffer DEF GreetsAlone
    <2> QED
      BY <1>2, <2>1, <2>2 DEF Workers, Apart
  <1>3. ASSUME NEW t \in Workers, Formatting(t)
        PROVE  sending = "none" /\ pc["sent"] = "idle"
    <2>1. CASE t \in Senders /\ Sends(t)
      BY <2>1 DEF SendHeld, Senders, Sends, Workers
    <2>2. CASE ~ Sends(t)
      <3>1. ~ Replying
        <4>1. CASE t = "accept"
          BY <1>3, <2>2, <4>1 DEF Formatting, Sends, GreetsAlone, Greeting
        <4>2. CASE t = "command"
          BY <1>3, <2>2, <4>2 DEF Formatting, Sends, Unspoken, ProcsHeld, OneHolder, Runs
        <4>3. CASE t = "timedOut"
          BY <1>3, <2>2, <4>3 DEF Formatting, Sends, Unspoken, ProcsHeld, OneHolder, Runs
        <4>4. CASE t = "complete"
          BY <1>3, <2>2, <4>4 DEF Formatting, Sends, Unspoken, ProcsHeld, OneHolder, Runs
        <4> QED
          BY <4>1, <4>2, <4>3, <4>4 DEF Workers
      <3> QED
        BY <3>1 DEF SendHeld, Senders, Sends
    <2> QED
      BY <2>1, <2>2 DEF Workers, Senders
  <1> QED
    BY <1>1, <1>2, <1>3 DEF OutBufferOwned

(* One line is asked for at a time, and its timer runs.                    *)
LEMMA InputIsTimed ==
  ASSUME ConnectionIInv
  PROVE  InputTimed
  <1> USE DEF ConnectionIInv
  <1>1. SessionInv
    <2>1. \A i \in Timers : Stop(i)[1] = StopOf(i)
      BY DEF Stop, StopOf, Timers
    <2>2. \A i \in Timers : timers[i] # "free" =>
            inputTimer = i \/ \E t \in SessionThreads : Stop(i)[1] \in ToSet(todo[t])
      BY <2>1 DEF TimersFit, InHand, InTodo
    <2> QED
      BY <2>2 DEF SessionInv, ChannelsFit, TimersFit
  <1>2. Cardinality({i \in DOMAIN active : active[i].kind.id = "1"}) <= 1
    <2>1. PICK I : I = {i \in DOMAIN active : active[i].kind.id = "1"}
      OBVIOUS
    <2>2. \A i, j \in I : i = j
      BY <2>1 DEF TableFits, Distinct
    <2>3. Cardinality(I) <= 1
      <3>1. CASE I = {}
        BY <3>1, FS_EmptySet
      <3>2. CASE I # {}
        <4>1. PICK i \in I : TRUE
          BY <3>2
        <4>2. I = {i}
          BY <2>2, <4>1
        <4>3. Cardinality({i}) = 1
          BY FS_Singleton
        <4>4. Cardinality(I) = 1
          BY <4>2, <4>3
        <4> QED
          BY <4>4
      <3> QED
        BY <3>1, <3>2
    <2> QED
      BY <2>1, <2>3
  <1>3. "1" \in Ids(active) => Listens
    <2>1. Ids(active) = {l.id : l \in Active}
      BY DEF Ids, Active, KindsOf
    <2>2. \A l \in SessionJobs : l.id = "1" => l = Input
      BY KindsAre DEF SessionJobs
    <2> QED
      BY <2>1, <2>2, TableJobs DEF Listens
  <1> QED
    BY <1>1, <1>2, <1>3 DEF InputTimed, TimersFit

(* With no job active nobody holds a right: the client can be freed.       *)
LEMMA ClosedQuiet ==
  ASSUME ConnectionIInv
  PROVE  ClosedIsQuiet
  <1> USE DEF ConnectionIInv
  <1> SUFFICES ASSUME closed PROVE ClosedIsQuiet
    BY DEF ClosedIsQuiet
  <1>1. Active = {} /\ ~ dataLock
    BY DEF ClosesLast
  <1>2. /\ pc["accept"] \in {"idle", "done"} /\ pc["command"] \in {"idle", "done"}
        /\ pc["timedOut"] \in {"idle", "done"} /\ pc["complete"] \in {"idle", "done"}
    BY <1>1 DEF ProcsHeld, OneHolder, Runs
  <1>3. ~ receiving /\ pc["receive"] = "idle"
    BY <1>1 DEF InputHeld, Receivers, Receives
  <1>4. sending = "none" /\ pc["sent"] = "idle"
    BY <1>1 DEF SendHeld, Senders, Sends, Replying
  <1>5. data = "none" /\ pc["data"] = "idle"
    <2>1. PlaceOf("data", pc["data"])
      BY ThreadNames DEF PlacesFit
    <2>2. pc["data"] = "idle"
      BY <2>1, ThreadNames DEF PlaceOf
    <2> QED
      BY <1>1, <1>2, <2>2 DEF TransferHeld, Beginning
  <1>6. queued = {}
    BY <1>1 DEF TodoFits, Waiters, ProcsHeld, OneHolder
  <1>7. \A t \in Workers \cup {"receive", "sent", "data"} : call[t] = None
    BY <1>2, <1>3, <1>4, <1>5 DEF CallsFit, MayAsk, Asks, SessionThreads, Workers, Timers
  <1>8. \A i \in Timers : timers[i] # "free" =>
           \E t \in SessionThreads : Stop(i)[1] \in ToSet(todo[t])
    <2>1. \A i \in Timers : Stop(i)[1] = StopOf(i)
      BY DEF Stop, StopOf, Timers
    <2>2. ~ Listens
      <3>1. ~ AsksInput("sent") /\ ~ AsksInput("accept") /\ ~ AsksInput("command")
        BY <1>2, <1>4, <1>7 DEF AsksInput, Workers
      <3> QED
        BY <1>1, <3>1 DEF Listens
    <2> QED
      BY <2>1, <2>2 DEF TimersFit, InHand, InTodo
  <1> QED
    BY <1>1, <1>2, <1>3, <1>4, <1>5, <1>6, <1>7, <1>8 DEF ClosedIsQuiet, Workers

(* One buffer, one input job and one timer serve a connection, whatever    *)
(* its procs, callbacks and timers do in between and however many commands *)
(* it runs, and when it is freed nothing of it is under way but a timer    *)
(* that a thread is about to stop (FtpServer.c, FtpBaseCommands.c,         *)
(* FtpDataChannel.c over the job table of MessageHandler.c).  Beyond a     *)
(* timer that fires just then (stray) nothing is claimed.                  *)
THEOREM ConnectionKept == SessionSpec => []ConnectionInv
  <1> DEFINE Followed == stray \/ ConnectionIInv
  <1>1. SessionInit => Followed
    BY SessionInitFits
  <1>2. Followed /\ [SessionNext]_allvars => Followed'
    <2> SUFFICES ASSUME Followed, [SessionNext]_allvars, ~ stray' PROVE ConnectionIInv'
      OBVIOUS
    <2>1. ~ stray
      BY DEF SessionNext, TimerRuns, allvars
    <2> QED
      BY <2>1, SessionNextKeeps
  <1>3. Followed => ConnectionInv
    BY BufferOwned, InputIsTimed, ClosedQuiet DEF ConnectionInv
  <1> QED
    BY <1>1, <1>2, <1>3, PTL DEF SessionSpec

=============================================================================
