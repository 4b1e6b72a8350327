---------------------------- MODULE MtTransport ----------------------------
(***************************************************************************)
(* From a packet on a submit queue to the gateway of its passage and back: *)
(* SmsWaitSubmitListener.doTransport, SmsProviderService.doTransport,      *)
(* CmppProxySender.send and SmsProxyManageService.                         *)
(*                                                                         *)
(* Several consumers work for one passage.  A consumer cuts its packet     *)
(* into batches that the limiter takes at once and sends one after the     *)
(* other over the connection registered for the passage, reconnecting when *)
(* there is none or when the error counter has reached its limit.  From    *)
(* the answers it makes the submit records, and if anything up to there    *)
(* throws it reports every number of the packet as failed.  An exception   *)
(* while the records are pushed, or while the failures are reported, is    *)
(* logged and no more.  The message is acknowledged in any case.           *)
(* Terminated connections are removed by the gateway's thread, without the *)
(* lock that connecting takes.                                             *)
(*                                                                         *)
(* The limiter only delays and is left out.  What becomes of the records   *)
(* and of the failed numbers is MtReport.                                  *)
(***************************************************************************)
EXTENDS Integers, Sequences, FiniteSets

CONSTANTS
    Threads,        \* the queue's consumers
    Packets,        \* the packets, all for one passage
    Handled,        \* those a reviewer passed; the others were passed automatically
    Size,           \* numbers in a packet
    Fees,           \* how many messages the packets' contents may be billed as
    PacketsSize,    \* permits the passage takes per second
    ErrorLimit,     \* failures in a row after which a connection is suspect (3)
    Conns,          \* bound: connections in use at one time
    MaxFaults       \* bound: terminations of a connection, consumers that die, and
                    \* exceptions that are swallowed

ASSUME SizeAssumption == Size \in Nat \ {0}
ASSUME HandledAssumption == Handled \subseteq Packets
ASSUME FeesAssumption == Fees \subseteq [Packets -> Nat \ {0}] /\ PacketsSize \in Nat
ASSUME LimitsAssumption == ErrorLimit \in Nat \ {0} /\ MaxFaults \in Nat
ASSUME ConnsAssumption == Conns \subseteq Nat \ {0}
ASSUME NoneAssumption == "none" \notin Packets \cup Threads

VARIABLES
    fee,            \* messages a packet's content is billed as
    waiting,        \* packets on the submit queue, or delivered but not acknowledged
    thread,         \* what each consumer is doing
    registered,     \* GLOBAL_PROXIES of the passage: a connection or 0
    open,           \* connections that are open
    lock,           \* the thread inside initManageProxy or "none"
    errors,         \* GLOBAL_PROXIES_ERROR_COUNTER of the passage, no entry is 0
    remover,        \* whether the gateway's thread is between close and remove
    sent,           \* how often the gateway took each number (history)
    recorded,       \* statuses in the submit records of each number
    failed,         \* numbers on MQ_SMS_MT_PACKETS_EXCEPTION
    troubled,       \* packets with a refusal, a silence, an exception or a crash (history)
    lost,           \* packets acknowledged after a swallowed exception (history)
    notices, crashes \* so far (history)

connecting == <<registered, open, lock, remover, notices>>
results == <<sent, recorded, failed, troubled, lost, crashes>>
vars == <<fee, waiting, thread, errors, connecting, results>>

Numbers == Packets \X (1 .. Size)
NumbersOf(p) == {n \in Numbers : n[1] = p}

\* doLimitSpeedInSecond: numbers per batch, batches, and the numbers of batch i;
\* 0 numbers per batch make the code divide by zero
Group(p) == PacketsSize \div fee[p]
BatchCount(p) ==
    IF Size % Group(p) = 0 THEN Size \div Group(p) ELSE Size \div Group(p) + 1
\* Mutant of BatchNumbers: neighbouring batches overlap.
BatchNumbersOverlapping(p, i) ==
    {n \in NumbersOf(p) : (i - 1) * Group(p) <= n[2] /\ n[2] <= i * Group(p)}
BatchNumbers(p, i) ==
    {n \in NumbersOf(p) : (i - 1) * Group(p) < n[2] /\ n[2] <= i * Group(p)}
BatchOf(n) == (n[2] - 1) \div Group(n[1]) + 1

\* The consumer of a message may be busy with it, or the broker still holds it.
Idle == [at |-> "idle", packet |-> "none", answers |-> << >>, conn |-> 0, throws |-> FALSE, counter |-> 0]
Busy(p) == \E t \in Threads : thread[t].packet = p
Batch(t) == Len(thread[t].answers) + 1
At(t, place) == thread[t].at = place
\* The packet's next batch, or the records when it was the last.
Answered(x, answer) == LET as == Append(x.answers, answer) IN
    [x EXCEPT !.answers = as, !.conn = 0,
              !.at = IF Len(as) = BatchCount(x.packet) THEN "build" ELSE "ask"]
Go(t, x) == thread' = [thread EXCEPT ![t] = x]

Init ==
    /\ fee \in Fees
    /\ waiting = Packets
    /\ thread = [t \in Threads |-> Idle]
    /\ registered = 0 /\ open = {} /\ lock = "none" /\ remover = "idle"
    /\ errors = 0
    /\ sent = [n \in Numbers |-> 0]
    /\ recorded = [n \in Numbers |-> {}]
    /\ failed = {} /\ troubled = {} /\ lost = {}
    /\ notices = 0 /\ crashes = 0
-----------------------------------------------------------------------------
(* The connection of the passage.                                          *)

Faults == notices + crashes + Cardinality(lost)

Available == registered # 0 /\ errors < ErrorLimit
InUse == open \cup {registered} \cup {thread[t].conn : t \in Threads}

\* isProxyAvaiable, and from there to getManageProxy or to startProxy
Ask(t) ==
    /\ At(t, "ask")
    /\ Go(t, [thread[t] EXCEPT !.at = IF Available THEN "get" ELSE "start"])
    /\ UNCHANGED <<fee, waiting, errors, connecting, results>>

\* getManageProxy: without a connection send returns null and counts no error
Get(t) ==
    /\ At(t, "get")
    /\ IF registered # 0
       THEN Go(t, [thread[t] EXCEPT !.at = "submit", !.conn = registered]) /\ UNCHANGED troubled
       ELSE /\ Go(t, Answered(thread[t], "none"))
            /\ troubled' = troubled \cup {thread[t].packet}
    /\ UNCHANGED <<fee, waiting, errors, connecting, sent, recorded, failed, lost, crashes>>

\* Mutant of Close: initManageProxy is not synchronized.
CloseUnlocked(t) ==
    /\ At(t, "start")
    /\ lock' = t /\ Go(t, [thread[t] EXCEPT !.at = "connect"])
    /\ open' = open \ {registered} /\ registered' = 0
    /\ UNCHANGED <<fee, waiting, errors, remover, notices, results>>

\* initManageProxy takes the lock; loadCmppManageProxy closes what is registered
Close(t) ==
    /\ At(t, "start") /\ lock = "none"
    /\ lock' = t /\ Go(t, [thread[t] EXCEPT !.at = "connect"])
    /\ open' = open \ {registered} /\ registered' = 0
    /\ UNCHANGED <<fee, waiting, errors, remover, notices, results>>

\* A new connection is registered, or none can be made; startProxy says true
\* either way and leaves the error counter alone
Connect(t) ==
    /\ At(t, "connect")
    /\ lock' = "none" /\ Go(t, [thread[t] EXCEPT !.at = "get"])
    /\ \/ UNCHANGED <<registered, open>>
       \/ \E c \in Conns \ InUse :
            /\ \A d \in Conns \ InUse : c <= d
            /\ registered' = c /\ open' = open \cup {c}
    /\ UNCHANGED <<fee, waiting, errors, remover, notices, results>>

\* onTerminate, whose notice names the passage and may be about a connection
\* that was replaced since; stopProxy does the same when the proxy is available
Terminate ==
    /\ remover = "idle" /\ registered # 0 /\ Faults < MaxFaults
    /\ open' = open \ {registered}
    /\ remover' = "remove" /\ notices' = notices + 1
    /\ UNCHANGED <<fee, waiting, thread, errors, registered, lock, results>>

Remove ==
    /\ remover = "remove"
    /\ registered' = 0 /\ remover' = "idle"
    /\ UNCHANGED <<fee, waiting, thread, errors, open, lock, notices, results>>
-----------------------------------------------------------------------------
(* A packet.                                                               *)

\* Mutant of Take: the broker takes the delivery for an acknowledgement.
TakeAcknowledged(t) ==
    /\ At(t, "idle")
    /\ \E p \in waiting :
        /\ ~Busy(p)
        /\ Go(t, [Idle EXCEPT !.packet = p, !.at = IF Group(p) = 0 THEN "fail" ELSE "ask"])
        /\ waiting' = waiting \ {p}
    /\ UNCHANGED <<fee, errors, connecting, results>>

Take(t) ==
    /\ At(t, "idle")
    /\ \E p \in waiting :
        /\ ~Busy(p)
        /\ Go(t, [Idle EXCEPT !.packet = p, !.at = IF Group(p) = 0 THEN "fail" ELSE "ask"])
    /\ UNCHANGED <<fee, waiting, errors, connecting, results>>

\* Before anything is sent: the user's extension number or the passage cannot be read
PrepareThrows(t) ==
    /\ At(t, "ask") /\ thread[t].answers = << >>
    /\ Go(t, [thread[t] EXCEPT !.at = "fail"])
    /\ troubled' = troubled \cup {thread[t].packet}
    /\ UNCHANGED <<fee, waiting, errors, connecting, sent, recorded, failed, lost, crashes>>

Took(S) == [n \in Numbers |-> IF n \in S THEN sent[n] + 1 ELSE sent[n]]

\* The gateway takes or refuses the batch
SubmitAnswered(t) ==
    /\ At(t, "submit") /\ thread[t].conn \in open
    /\ \/ /\ sent' = Took(BatchNumbers(thread[t].packet, Batch(t)))
          /\ Go(t, [thread[t] EXCEPT !.at = "clear", !.conn = 0])
          /\ UNCHANGED troubled
       \/ /\ Go(t, Answered(thread[t], "refused"))
          /\ troubled' = troubled \cup {thread[t].packet}
          /\ UNCHANGED sent
    /\ UNCHANGED <<fee, waiting, errors, connecting, recorded, failed, lost, crashes>>

\* No answer, or an exception; over an open connection the gateway may have taken
\* the batch all the same
SubmitFails(t) ==
    /\ At(t, "submit")
    /\ \/ UNCHANGED sent
       \/ /\ thread[t].conn \in open
          /\ sent' = Took(BatchNumbers(thread[t].packet, Batch(t)))
    /\ \E throws \in BOOLEAN : Go(t, [thread[t] EXCEPT !.at = "read", !.conn = 0, !.throws = throws])
    /\ troubled' = troubled \cup {thread[t].packet}
    /\ UNCHANGED <<fee, waiting, errors, connecting, recorded, failed, lost, crashes>>

\* clearSendErrorTimes
Clear(t) ==
    /\ At(t, "clear")
    /\ errors' = 0
    /\ Go(t, Answered(thread[t], "accepted"))
    /\ UNCHANGED <<fee, waiting, connecting, results>>

\* plusSendErrorTimes reads the counter and writes it back, without the lock
ReadCounter(t) ==
    /\ At(t, "read")
    /\ Go(t, [thread[t] EXCEPT !.at = "write", !.counter = errors])
    /\ UNCHANGED <<fee, waiting, errors, connecting, results>>

WriteCounter(t) ==
    /\ At(t, "write")
    /\ errors' = thread[t].counter + 1
    /\ LET x == [thread[t] EXCEPT !.counter = 0, !.throws = FALSE]
       IN  Go(t, IF thread[t].throws THEN [x EXCEPT !.at = "fail"]
                 ELSE Answered(x, "none"))
    /\ UNCHANGED <<fee, waiting, connecting, results>>

\* buildSubmitMessage: an answer names the batch it is for, so it fits a number
\* only when the batch was that number.  A number without an answer has what the
\* last number with one left behind, or else the packet's own status, which
\* copyProperties copies: AUTO_COMPLETE and FAILED are both 1, HANDLING_COMPLETE is
\* neither a success nor a failure.
Heard(x) == \E b \in DOMAIN x : x[b] # "none"
Fitting(x, p, j) == {i \in 1 .. j :
    LET b == BatchOf(<<p, i>>) IN BatchNumbers(p, b) = {<<p, i>>} /\ x[b] # "none"}
LastFitting(x, p, j) == CHOOSE i \in Fitting(x, p, j) : \A k \in Fitting(x, p, j) : k <= i
Status(x, p, j) ==
    IF Fitting(x, p, j) # {} THEN x[BatchOf(<<p, LastFitting(x, p, j)>>)]
    ELSE IF p \in Handled THEN "other" ELSE "refused"

Records(p, x) == [n \in Numbers |->
    IF n[1] = p THEN recorded[n] \cup {Status(x, p, n[2])} ELSE recorded[n]]
Refusals(p, x) == {n \in NumbersOf(p) : Status(x, p, n[2]) = "refused"}

\* Mutants of Finish: accepted numbers are reported as failed; a number without
\* an answer is left out.
FinishInverted(t) ==
    /\ LET p == thread[t].packet  x == thread[t].answers
       IN  /\ At(t, "build") /\ Heard(x)
           /\ recorded' = Records(p, x)
           /\ failed' = failed \cup {n \in NumbersOf(p) : Status(x, p, n[2]) = "accepted"}
           /\ waiting' = waiting \ {p}
    /\ Go(t, Idle)
    /\ UNCHANGED <<fee, errors, connecting, sent, troubled, lost, crashes>>
FinishAnswered(t) ==
    /\ LET p == thread[t].packet  x == thread[t].answers
           own(n) == Fitting(x, p, n[2]) \ Fitting(x, p, n[2] - 1) # {}
       IN  /\ At(t, "build") /\ Heard(x)
           /\ recorded' = [n \in Numbers |-> IF n[1] = p /\ own(n)
                                THEN recorded[n] \cup {Status(x, p, n[2])} ELSE recorded[n]]
           /\ failed' = failed \cup {n \in Refusals(p, x) : own(n)}
           /\ waiting' = waiting \ {p}
    /\ Go(t, Idle)
    /\ UNCHANGED <<fee, errors, connecting, sent, troubled, lost, crashes>>

\* Those refused go to the exception queue one by one, then all the records to the
\* submit list
Finish(t) ==
    /\ LET p == thread[t].packet  x == thread[t].answers
       IN  /\ At(t, "build") /\ Heard(x)
           /\ recorded' = Records(p, x)
           /\ failed' = failed \cup Refusals(p, x)
           /\ waiting' = waiting \ {p}
    /\ Go(t, Idle)
    /\ UNCHANGED <<fee, errors, connecting, sent, troubled, lost, crashes>>

\* doSubmitFinished catches what its push throws and the message is acknowledged:
\* no record of the packet, and those accepted are told nothing
RecordsThrow(t) ==
    /\ At(t, "build") /\ Heard(thread[t].answers) /\ Faults < MaxFaults
    /\ LET p == thread[t].packet
       IN  /\ failed' = failed \cup Refusals(p, thread[t].answers)
           /\ waiting' = waiting \ {p}
           /\ lost' = lost \cup {p} /\ troubled' = troubled \cup {p}
    /\ Go(t, Idle)
    /\ UNCHANGED <<fee, errors, connecting, sent, recorded, crashes>>

\* Without any answer doTransport throws
HearNothing(t) ==
    /\ At(t, "build") /\ ~Heard(thread[t].answers)
    /\ Go(t, [thread[t] EXCEPT !.at = "fail"])
    /\ UNCHANGED <<fee, waiting, errors, connecting, results>>

\* buildSubmitMessage throws at number k, or earlier when k is 1: at the push
\* configuration, or when a refused number is put on the exception queue
BuildThrows(t) ==
    /\ At(t, "build") /\ Heard(thread[t].answers)
    /\ LET p == thread[t].packet
       IN  /\ \E k \in 1 .. Size :
                failed' = failed \cup {n \in Refusals(p, thread[t].answers) : n[2] < k}
           /\ troubled' = troubled \cup {p}
    /\ Go(t, [thread[t] EXCEPT !.at = "fail"])
    /\ UNCHANGED <<fee, waiting, errors, connecting, sent, recorded, lost, crashes>>

\* Mutant of Fail: the exception is thrown on and the message returned to the queue.
FailAndRequeue(t) ==
    /\ At(t, "fail")
    /\ Go(t, Idle)
    /\ UNCHANGED <<fee, waiting, errors, connecting, results>>

\* doSubmitMessageFailed for the whole packet
Fail(t) ==
    /\ At(t, "fail")
    /\ failed' = failed \cup NumbersOf(thread[t].packet)
    /\ waiting' = waiting \ {thread[t].packet}
    /\ Go(t, Idle)
    /\ UNCHANGED <<fee, errors, connecting, sent, recorded, troubled, lost, crashes>>

\* doSubmitMessageFailed throws in its turn, at the push configuration or at number
\* k; onMessage logs and acknowledges, and nobody reports the rest
FailThrows(t) ==
    /\ At(t, "fail") /\ Faults < MaxFaults
    /\ LET p == thread[t].packet
       IN  /\ \E k \in 1 .. Size :
                failed' = failed \cup {n \in NumbersOf(p) : n[2] < k}
           /\ waiting' = waiting \ {p}
           /\ lost' = lost \cup {p} /\ troubled' = troubled \cup {p}
    /\ Go(t, Idle)
    /\ UNCHANGED <<fee, errors, connecting, sent, recorded, crashes>>

\* The consumer's service dies before the acknowledgement, perhaps with its records
\* made (reports that it had only begun to make are left out: they add to failed for
\* a packet that is delivered again); the exchanger, another service, lets go of the
\* lock itself
Crash(t) ==
    /\ ~At(t, "idle") /\ lock # t /\ Faults < MaxFaults
    /\ LET p == thread[t].packet  x == thread[t].answers
       IN  /\ \/ UNCHANGED <<recorded, failed>>
              \/ /\ At(t, "build") /\ Heard(x)
                 /\ recorded' = Records(p, x) /\ failed' = failed \cup Refusals(p, x)
           /\ troubled' = troubled \cup {p}
    /\ crashes' = crashes + 1
    /\ Go(t, Idle)
    /\ UNCHANGED <<fee, waiting, errors, connecting, sent, lost>>

Step(t) ==
    \/ Take(t) \/ Ask(t) \/ Get(t) \/ Close(t) \/ Connect(t)
    \/ SubmitAnswered(t) \/ SubmitFails(t) \/ Clear(t) \/ ReadCounter(t) \/ WriteCounter(t)
    \/ Finish(t) \/ HearNothing(t) \/ Fail(t)

\* What throws outside the calls to the gateway, and what becomes of it
Throw(t) == PrepareThrows(t) \/ BuildThrows(t) \/ RecordsThrow(t) \/ FailThrows(t)

Next == \/ \E t \in Threads : Step(t) \/ Throw(t) \/ Crash(t)
        \/ Terminate \/ Remove

Spec == Init /\ [][Next]_vars

\* The consumers' threads run for ever.
FairSpec == Spec /\ \A t \in Threads : WF_vars(Step(t))
-----------------------------------------------------------------------------
Places == {"idle", "ask", "get", "start", "connect", "submit", "clear", "read", "write",
           "build", "fail"}
Work == [at : Places, packet : Packets \cup {"none"},
         answers : Seq({"none", "accepted", "refused"}),
         conn : Conns \cup {0}, throws : BOOLEAN, counter : Nat]

\* Every variable has its type; the lock is held exactly while connecting.
TypeOK ==
    /\ fee \in Fees
    /\ waiting \subseteq Packets
    /\ thread \in [Threads -> Work]
    /\ \A t \in Threads : lock = t <=> At(t, "connect")
    /\ registered \in Conns \cup {0} /\ open \subseteq Conns
    /\ lock \in Threads \cup {"none"} /\ remover \in {"idle", "remove"}
    /\ errors \in Nat
    /\ sent \in [Numbers -> Nat]
    /\ recorded \in [Numbers -> SUBSET {"accepted", "refused", "other"}]
    /\ failed \subseteq Numbers /\ troubled \subseteq Packets
    /\ lost \subseteq Packets /\ IsFiniteSet(lost)
    /\ notices \in 0 .. MaxFaults /\ crashes \in 0 .. MaxFaults

\* A packet that left the queue left a submit record or a failure report for each
\* of its numbers, whoever crashed and whatever threw, but for one thing: an
\* exception that hit the pushing of the records or the reporting of the failures,
\* after which the listener acknowledges and does no more.
EveryNumberAnswered ==
    \A n \in Numbers : n[1] \notin waiting \cup lost => recorded[n] # {} \/ n \in failed

\* The submit queue and its consumers implement the at-least-once store: a packet
\* is on the queue until each of its numbers has a record or a failure report, or
\* until such a swallowed exception takes it, a fault of its own for each packet;
\* and it never returns to the queue.
Told(p) == \A n \in NumbersOf(p) : recorded[n] # {} \/ n \in failed
Store == INSTANCE AtLeastOnceStore WITH
            Entries <- Packets, accepted <- Packets, pending <- waiting,
            settled <- {p \in Packets : Told(p)} \cup lost
ImplementsStore == Store!Spec

\* The gateway takes a number once, except after a crash: nothing but the broker
\* repeats a packet, and the batches of a packet share no number.
SentOnce == \A n \in Numbers : sent[n] <= 1 + crashes

\* However many consumers reconnect at a time, connections that nobody can close
\* any more come only from terminations, which overlap a reconnect.
ConnectionsBounded == Cardinality(open) <= 1 + notices

\* When every call was answered with a success and was for one number, and neither
\* the listener nor its consumer met an exception or a crash, every number has a
\* success record and no failure report, and was sent once.
SinglesToldRight ==
    \A n \in Numbers : n[1] \notin waiting \cup troubled /\ Group(n[1]) = 1 =>
        recorded[n] = {"accepted"} /\ n \notin failed /\ sent[n] = 1

\* A packet whose calls the gateway all answered with a success is not reported as
\* failed: send takes several numbers at a time (CmppProxySender, lines 223-224).
AcceptedNotToldFailed ==
    \A n \in Numbers : n[1] \notin troubled /\ sent[n] > 0 => n \notin failed

\* Every packet is answered in the end: no consumer waits for ever for the lock
\* or for a connection.
EveryPacketAnswered == <>[](waiting = {})
=============================================================================
