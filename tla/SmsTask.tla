------------------------------ MODULE SmsTask ------------------------------
(***************************************************************************)
(* The life of one downstream task (one sid) from the wait-process queue   *)
(* to the provider: SmsWaitPacketsListener splits it, the persistence      *)
(* worker stores it, reviewers pass, reject, switch or re-split it through *)
(* SmsMtTaskService, and SmsWaitSubmitListener transports what arrives on  *)
(* the submit queues.                                                      *)
(*                                                                         *)
(* A task may be split more than once (re-packeting, or redelivery of a    *)
(* message whose listener died), and every split makes its own database    *)
(* rows under the same sid, so rows are named by split and group:          *)
(*     <<n, g>>  the packet of group g made by the n-th split.             *)
(* Batch approval and task rejection read a snapshot and write later; the  *)
(* service's other operations decide on columns that never change (the     *)
(* action bits) or on what their own first update locked, so each of them  *)
(* is one step.                                                            *)
(***************************************************************************)
EXTENDS SmsPackets

CONSTANTS
    Reviewers,      \* concurrent requests from the administration site
    MaxSplits,      \* bound: how often the task is split
    MaxOps,         \* bound: reviewer operations
    MaxFaults       \* bound: lost splits, crashes, failed inserts, lost passages
                    \* and templates

ASSUME BoundsAssumption ==
    MaxSplits \in Nat \ {0} /\ MaxOps \in Nat /\ MaxFaults \in Nat

VARIABLES
    waitQ,          \* messages of this sid on MQ_SMS_MT_WAIT_PROCESS
    splits, split,  \* number of splits so far, and what each one found
    sending,        \* the split whose listener is between push and ack, or 0
    list,           \* splits in RED_DB_MESSAGE_TASK_LIST
    parked,         \* splits in the failed list
    task,           \* approve_status of the main row of each split
    row,            \* the packet rows
    submitQ,        \* packets on the submit queues
    session,        \* what each reviewer's request has read so far
    gone,           \* passages that can no longer be looked up
    ops, faults,    \* reviewer operations and faults so far
    \* history
    sent,           \* rows transported to a provider
    published,      \* rows put on a submit queue in a status that is transported
    unroutable,     \* rows passed although their passage or template is missing
    approved,       \* rows a reviewer passed
    reset,          \* rows a change of passage put back to WAITING
    reported,       \* groups whose submitter was told they were rejected
    dropped         \* a split failed and its message was acknowledged

store   == <<task, row>>
bounds  == <<ops, faults>>
history == <<sent, published, unroutable, approved, reset, reported, dropped>>
vars == <<waitQ, splits, split, sending, list, parked, task, row, submitQ,
          session, gone, ops, faults, sent, published, unroutable, approved,
          reset, reported, dropped>>

SplitNo == 1 .. MaxSplits
Rows    == SplitNo \X Groups
NoRow   == [status |-> "absent", passage |-> NoPassage]
RowType == [status : PacketStatus \cup {"absent"},
            passage : Passages \cup {NoPassage}]
NoSplit == [content |-> {}, route |-> NoRoute, empty |-> TRUE]

Passed  == {"AUTO", "HANDLING"}
Copies  == [row : Rows, status : PacketStatus]

SessionType == [op : {"idle", "approve", "reject", "force"}, task : 0 .. MaxSplits,
                snap : [Rows -> RowType]]
Idle == [op |-> "idle", task |-> 0, snap |-> [r \in Rows |-> NoRow]]

Present == {r \in Rows : row[r].status # "absent"}
Waiting == {r \in Rows : row[r].status = "WAITING"}
RowBits(r) == Bits(split[r[1]], r[2])

Resolves(p) == p # NoPassage /\ p \notin gone

\* Every queued message can still be split within the bound.
MaySplitAgain == splits + waitQ < MaxSplits

Init ==
    /\ waitQ = 1
    /\ splits = 0 /\ split = [n \in SplitNo |-> NoSplit]
    /\ sending = 0
    /\ list = {} /\ parked = {}
    /\ task = [n \in SplitNo |-> "absent"]
    /\ row = [r \in Rows |-> NoRow]
    /\ submitQ = {}
    /\ session = [v \in Reviewers |-> Idle]
    /\ gone = {}
    /\ ops = 0 /\ faults = 0
    /\ sent = {} /\ published = {} /\ unroutable = {} /\ approved = {}
    /\ reset = {} /\ reported = {} /\ dropped = FALSE

\* The packets of S as they are handed to sendToSubmitQueue.
Copied(S, status) == {[row |-> r, status |-> status] : r \in S}

\* sendToSubmitQueue: each packet goes to the queue of its passage.  Copies that
\* differ only in content the properties do not tell apart are one.
Publish(C) ==
    /\ submitQ' = submitQ \cup C
    /\ published' = published \cup {c.row : c \in {d \in C : d.status \in Passed}}

Fault == faults < MaxFaults /\ faults' = faults + 1 /\ UNCHANGED ops

NothingPublished == UNCHANGED <<submitQ, published>>
-----------------------------------------------------------------------------
(* SmsWaitPacketsListener and the persistence worker                       *)

StartStatus(r) == PacketStartStatus(split[r[1]], r[2])

\* The packets the listener sends itself: those of a task without error.
StartRows(n) ==
    IF TaskStartStatus(split[n]) = "AUTO" /\ ~split[n].empty
    THEN {r \in Rows : r[1] = n} ELSE {}

StartCopies(S) == {[row |-> r, status |-> StartStatus(r)] : r \in S}

\* onMessage up to the rightPush of the task in doPrepareTask
SplitTask ==
    /\ waitQ > 0 /\ sending = 0 /\ splits < MaxSplits
    /\ waitQ' = waitQ - 1
    /\ splits' = splits + 1
    /\ \E s \in Splits : split' = [split EXCEPT ![splits + 1] = s]
    /\ sending' = splits + 1
    /\ list' = list \cup {splits + 1}
    /\ UNCHANGED <<parked, store, submitQ, session, gone, bounds, history>>

\* No user configuration, no user passage group, or a Redis failure: an exception
\* onMessage logs before it acknowledges the message.
SplitFails ==
    /\ Fault
    /\ waitQ > 0 /\ sending = 0
    /\ waitQ' = waitQ - 1
    /\ dropped' = TRUE
    /\ UNCHANGED <<splits, split, sending, list, parked, store, submitQ, session,
                   gone, sent, published, unroutable, approved, reset, reported>>

\* The rest of doPrepareTask: send the packets of a task without error, ack.
FinishSplit ==
    /\ sending # 0
    /\ Publish(StartCopies(StartRows(sending)))
    /\ sending' = 0
    /\ UNCHANGED <<waitQ, splits, split, list, parked, store, session, gone, bounds,
                   sent, unroutable, approved, reset, reported, dropped>>

\* The listener dies before the ack, some packets already sent: the broker
\* delivers the message again.
CrashInSplit ==
    /\ Fault
    /\ sending # 0 /\ MaySplitAgain
    /\ \E S \in SUBSET StartRows(sending) : Publish(StartCopies(S))
    /\ sending' = 0
    /\ waitQ' = waitQ + 1
    /\ UNCHANGED <<splits, split, list, parked, store, session, gone, sent, unroutable, approved, reset, reported, dropped>>

\* batchSave of the task and its packets (RedisDrain has the worker's rounds)
Persist(n) ==
    /\ n \in list
    /\ list' = list \ {n}
    /\ task' = [task EXCEPT ![n] = TaskStartStatus(split[n])]
    /\ row' = [r \in Rows |->
                IF r[1] = n /\ ~split[n].empty
                THEN [status |-> StartStatus(r),
                      passage |-> AttachedPassage(split[n].route, r[2])]
                ELSE row[r]]
    /\ UNCHANGED <<waitQ, splits, split, sending, parked, submitQ, session, gone,
                   bounds, history>>

\* Mutant of Park: the entry is only logged.
ParkNowhere(n) ==
    /\ Fault
    /\ n \in list
    /\ list' = list \ {n}
    /\ UNCHANGED <<waitQ, splits, split, sending, parked, store, submitQ, session,
                   gone, history>>

\* batchSave throws: the entry goes to the failed list
Park(n) ==
    /\ Fault
    /\ n \in list
    /\ list' = list \ {n}
    /\ parked' = parked \cup {n}
    /\ UNCHANGED <<waitQ, splits, split, sending, store, submitQ, session, gone,
                   history>>

\* SmsWaitSubmitListener: packets that wait or were rejected are discarded.
Deliver(c) ==
    /\ c \in submitQ
    /\ submitQ' = submitQ \ {c}
    /\ sent' = IF c.status \in {"WAITING", "REJECT"} THEN sent ELSE sent \cup {c.row}
    /\ UNCHANGED <<waitQ, splits, split, sending, list, parked, store, session,
                   gone, bounds, published, unroutable, approved, reset, reported,
                   dropped>>
-----------------------------------------------------------------------------
(* SmsMtTaskService, one packet                                            *)

Operate == ops < MaxOps /\ ops' = ops + 1 /\ UNCHANGED faults

pipeline == <<waitQ, splits, split, sending, list, parked>>

\* updateTaskPacketsStatus(id, HANDLING): the main rows of the sid follow when no
\* packet waits any more.
PassChild(r) ==
    /\ Operate
    /\ r \in Present
    /\ row' = [row EXCEPT ![r].status = "HANDLING"]
    /\ task' = IF Waiting \subseteq {r}
               THEN [n \in SplitNo |->
                        IF task[n] = "absent" THEN "absent" ELSE "HANDLING"]
               ELSE task
    /\ approved' = approved \cup {r}
    /\ IF Resolves(row[r].passage)
       THEN Publish(Copied({r}, "HANDLING")) /\ UNCHANGED unroutable
       ELSE NothingPublished /\ unroutable' = unroutable \cup {r}
    /\ UNCHANGED <<pipeline, session, gone, sent, reset, reported, dropped>>

\* Mutant of RejectChild: no report for a packet that does not wait.
RejectChildQuietly(r) ==
    /\ Operate
    /\ r \in Present
    /\ reported' = IF r \in Waiting THEN reported \cup {r[2]} ELSE reported
    /\ row' = [row EXCEPT ![r].status = "REJECT"]
    /\ UNCHANGED <<pipeline, task, submitQ, session, gone, sent, published,
                   unroutable, approved, reset, dropped>>

\* doRejectInTaskPackets.  It reports the packet whatever its status, and its
\* update of the main row looks for a row whose id is the sid: there is none.
RejectChild(r) ==
    /\ Operate
    /\ r \in Present
    /\ reported' = reported \cup {r[2]}
    /\ row' = [row EXCEPT ![r].status = "REJECT"]
    /\ UNCHANGED <<pipeline, task, submitQ, session, gone, sent, published,
                   unroutable, approved, reset, dropped>>

StatusAfterSwitch(r) == IF OnlyPassageBroken(RowBits(r)) THEN "HANDLING" ELSE "WAITING"

Switched(r, p) == [status |-> StatusAfterSwitch(r), passage |-> p]

PutBack(S) == {r \in S : StatusAfterSwitch(r) = "WAITING"}

\* changeTaskPacketsPassage(packetsId, passageId)
SwitchChild(r, p) ==
    /\ Operate
    /\ r \in Present /\ Resolves(p)
    /\ row' = [row EXCEPT ![r] = Switched(r, p)]
    /\ IF StatusAfterSwitch(r) = "HANDLING"
       THEN Publish(Copied({r}, "HANDLING")) ELSE NothingPublished
    /\ reset' = reset \cup PutBack({r})
    /\ UNCHANGED <<pipeline, task, session, gone, sent, unroutable, approved,
                   reported, dropped>>
-----------------------------------------------------------------------------
(* SmsMtTaskService, whole task                                            *)

\* changeTaskPacketsPassage(taskIds, passageId): every packet of the sid, sent in
\* whatever status it got
SwitchTask(n, p) ==
    /\ Operate
    /\ task[n] # "absent" /\ Resolves(p)
    /\ row' = [r \in Rows |-> IF r \in Present THEN Switched(r, p) ELSE row[r]]
    /\ Publish({[row |-> r, status |-> StatusAfterSwitch(r)] : r \in Present})
    /\ reset' = reset \cup PutBack(Present)
    /\ UNCHANGED <<pipeline, task, session, gone, sent, unroutable, approved,
                   reported, dropped>>

\* doForcePass, doPassWithSameContent: no packet may lack a passage; the packets
\* are read once.
ReadToApprove(v, n) ==
    /\ Operate
    /\ session[v].op = "idle" /\ task[n] # "absent"
    /\ \A r \in Present : row[r].passage # NoPassage
    /\ session' = [session EXCEPT ![v] = [op |-> "approve", task |-> n, snap |-> row]]
    /\ UNCHANGED <<pipeline, store, submitQ, gone, history>>

\* What doTaskBatchApproved does not skip.
Pending(snap) == {r \in Rows : snap[r].status \notin Passed \cup {"absent"}}

Leave(v) == session' = [session EXCEPT ![v] = Idle]

PassRows(S) == row' = [r \in Rows |-> IF r \in S THEN [row[r] EXCEPT !.status = "HANDLING"]
                                                 ELSE row[r]]

\* Every packet still exists and has its passage.
Approve(v) ==
    LET todo == Pending(session[v].snap)
        n    == session[v].task
    IN  /\ session[v].op = "approve"
        /\ todo \subseteq Present
        /\ \A r \in todo : Resolves(session[v].snap[r].passage)
        /\ PassRows(todo)
        /\ approved' = approved \cup todo
        /\ Publish(Copied(todo, "HANDLING"))
        /\ task' = IF task[n] = "absent" THEN task ELSE [task EXCEPT ![n] = "HANDLING"]
        /\ Leave(v)
        /\ UNCHANGED <<pipeline, gone, bounds, sent, unroutable, reset, reported, dropped>>

\* A passage, or the template of a packet, cannot be looked up: the packet is
\* already marked, the ones before it are sent, and an error response is returned
\* without a rollback.
ApproveStops(v) ==
    LET snap == session[v].snap
        todo == Pending(snap)
    IN  /\ session[v].op = "approve"
        /\ todo \subseteq Present
        /\ \E bad \in todo : \E S \in SUBSET (todo \ {bad}) :
              /\ \/ ~Resolves(snap[bad].passage) /\ UNCHANGED bounds
                 \/ Fault
              /\ \A r \in S : Resolves(snap[r].passage)
              /\ PassRows(S \cup {bad})
              /\ approved' = approved \cup S \cup {bad}
              /\ unroutable' = unroutable \cup {bad}
              /\ Publish(Copied(S, "HANDLING"))
        /\ Leave(v)
        /\ UNCHANGED <<pipeline, task, gone, sent, reset, reported, dropped>>

\* The packets were deleted by a re-split meanwhile: the first update finds none.
ApproveFindsNothing(v) ==
    /\ session[v].op = "approve"
    /\ ~(Pending(session[v].snap) \subseteq Present)
    /\ Leave(v)
    /\ UNCHANGED <<pipeline, store, submitQ, gone, bounds, history>>

\* doRejectInTask reads the task and its packets ...
ReadToReject(v, n) ==
    /\ Operate
    /\ session[v].op = "idle" /\ task[n] # "absent"
    /\ session' = [session EXCEPT ![v] = [op |-> "reject", task |-> n, snap |-> row]]
    /\ UNCHANGED <<pipeline, store, submitQ, gone, history>>

\* ... reports every packet that was not rejected yet, and rejects those of the
\* sid that wait now.
Reject(v) ==
    LET snap == session[v].snap
        n    == session[v].task
        read == {r \in Rows : snap[r].status # "absent"}
    IN  /\ session[v].op = "reject"
        /\ reported' = reported \cup {r[2] : r \in {q \in read : snap[q].status # "REJECT"}}
        /\ task' = IF task[n] = "absent" THEN task ELSE [task EXCEPT ![n] = "REJECT"]
        /\ row' = IF task[n] = "absent" \/ read = {} THEN row
                  ELSE [r \in Rows |-> IF r \in Waiting
                                       THEN [row[r] EXCEPT !.status = "REJECT"]
                                       ELSE row[r]]
        /\ Leave(v)
        /\ UNCHANGED <<pipeline, submitQ, gone, bounds, sent, published, unroutable,
                       approved, reset, dropped>>

\* updateMainTaskByForcePass runs in no transaction: the waiting packets are passed ...
ForcePass(v) ==
    /\ Operate
    /\ session[v].op = "idle"
    /\ PassRows(Waiting)
    /\ approved' = approved \cup Waiting
    /\ session' = [session EXCEPT ![v] = [Idle EXCEPT !.op = "force"]]
    /\ UNCHANGED <<pipeline, task, submitQ, gone, sent, published, unroutable,
                   reset, reported, dropped>>

\* Mutant of ForceSend: it looks for the packets that still wait.
ForceSendWaiting(v) ==
    /\ session[v].op = "force"
    /\ Publish(Copied({r \in Waiting : Resolves(row[r].passage)}, "HANDLING"))
    /\ Leave(v)
    /\ UNCHANGED <<pipeline, store, gone, bounds, sent, unroutable, approved, reset,
                   reported, dropped>>

\* ... then all packets of the sid are read and sent as they are.
ForceSend(v) ==
    LET routable == {r \in Present : Resolves(row[r].passage)}
    IN  /\ session[v].op = "force"
        /\ Publish({[row |-> r, status |-> row[r].status] : r \in routable})
        /\ unroutable' = unroutable \cup (Present \ routable)
        /\ Leave(v)
        /\ UNCHANGED <<pipeline, store, gone, bounds, sent, approved, reset, reported,
                       dropped>>

\* Mutant of RePackets: the task is queued twice.
RePacketsTwice(n) ==
    /\ Operate
    /\ task[n] # "absent" /\ Present # {} /\ MaySplitAgain
    /\ row' = [r \in Rows |-> NoRow]
    /\ task' = [task EXCEPT ![n] = "absent"]
    /\ waitQ' = waitQ + 2
    /\ UNCHANGED <<splits, split, sending, list, parked, submitQ, session, gone,
                   history>>

\* doRePackets: one transaction deletes the packets of the sid and this main row
\* and queues the task again.
RePackets(n) ==
    /\ Operate
    /\ task[n] # "absent" /\ Present # {} /\ MaySplitAgain
    /\ row' = [r \in Rows |-> NoRow]
    /\ task' = [task EXCEPT ![n] = "absent"]
    /\ waitQ' = waitQ + 1
    /\ UNCHANGED <<splits, split, sending, list, parked, submitQ, session, gone,
                   history>>

\* A passage disappears from Redis and the database.
RemovePassage(p) ==
    /\ Fault
    /\ p \notin gone
    /\ gone' = gone \cup {p}
    /\ UNCHANGED <<pipeline, store, submitQ, session, history>>
-----------------------------------------------------------------------------
Listener == SplitTask \/ FinishSplit
Worker   == \E n \in SplitNo : Persist(n) \/ Park(n)
Submit   == \E c \in Copies : Deliver(c)

ReviewPacket ==
    \E r \in Rows : \/ PassChild(r)
                    \/ RejectChild(r)
                    \/ \E p \in Passages : SwitchChild(r, p)

ReviewTask ==
    \E n \in SplitNo : \/ RePackets(n)
                       \/ \E p \in Passages : SwitchTask(n, p)
                       \/ \E v \in Reviewers : ReadToApprove(v, n) \/ ReadToReject(v, n)

Request(v) ==
    \/ Approve(v) \/ ApproveStops(v) \/ ApproveFindsNothing(v)
    \/ Reject(v) \/ ForcePass(v) \/ ForceSend(v)

Next ==
    \/ Listener \/ SplitFails \/ CrashInSplit
    \/ Worker
    \/ Submit
    \/ ReviewPacket \/ ReviewTask
    \/ \E v \in Reviewers : Request(v)
    \/ \E p \in Passages : RemovePassage(p)

Spec == Init /\ [][Next]_vars

\* The listeners and the worker are loops of their own threads; reviewers owe
\* nothing.
FairSpec == /\ Spec
            /\ WF_vars(Listener)
            /\ WF_vars(Worker)
            /\ \A c \in Copies : WF_vars(Deliver(c))
-----------------------------------------------------------------------------
\* Every variable has its type; a message that is queued can still be split
\* within the bound.
TypeOK ==
    /\ waitQ \in Nat /\ splits + waitQ <= MaxSplits
    /\ splits \in 0 .. MaxSplits /\ split \in [SplitNo -> Splits]
    /\ sending \in 0 .. MaxSplits
    /\ list \subseteq SplitNo /\ parked \subseteq SplitNo
    /\ task \in [SplitNo -> PacketStatus \cup {"absent"}]
    /\ row \in [Rows -> RowType]
    /\ submitQ \subseteq Copies
    /\ session \in [Reviewers -> SessionType]
    /\ gone \subseteq Passages
    /\ ops \in 0 .. MaxOps /\ faults \in 0 .. MaxFaults
    /\ sent \subseteq Rows /\ published \subseteq Rows /\ unroutable \subseteq Rows
    /\ approved \subseteq Rows /\ reset \subseteq Rows
    /\ reported \subseteq Groups /\ dropped \in BOOLEAN

\* Content that no template covers or that holds a forbidden word goes to a
\* provider only after a reviewer passed that very packet: no change of passage,
\* re-split, redelivery or stale request sends it.
FlaggedNeedsApproval ==
    \A r \in sent : split[r[1]].content \cap Reviewable # {} => r \in approved

\* A packet marked as passed by hand has been put on a submit queue, or its passage
\* or template could not be looked up, or the request that marked it still runs.
HandlingPublished ==
    \A r \in Rows :
        row[r].status = "HANDLING" =>
            \/ r \in published
            \/ r \in unroutable
            \/ \E v \in Reviewers : session[v].op = "force"

\* A main task that left the reviewers' list hides no waiting packet, unless a
\* change of passage put that packet back.
ClosedTaskHidesNothing ==
    \A r \in Waiting : task[r[1]] = "WAITING" \/ r \in reset

\* The submitter of every number whose packet is rejected has been told so.
RejectedIsReported ==
    \A r \in Rows : row[r].status = "REJECT" => r[2] \in reported

\* The task is always somewhere: queued, in a Redis list or in the database.  Only
\* a split that failed forgets it.
NothingForgotten ==
    \/ waitQ > 0
    \/ list # {} \/ parked # {}
    \/ \E n \in SplitNo : task[n] # "absent"
    \/ dropped

\* For every number of a queued task something final happens without a reviewer:
\* it is sent, or the task waits for review, or failed visibly, or the whole
\* task had no usable number.
Decided(g) ==
    \/ dropped \/ parked # {}
    \/ \E n \in SplitNo : \/ <<n, g>> \in sent
                          \/ task[n] = "WAITING"
                          \/ task[n] # "absent" /\ split[n].empty
EveryNumberDecided == \A g \in Groups : waitQ > 0 ~> Decided(g)

\* AUTO_COMPLETE means passed automatically (TaskContext line 50): a task that was
\* passed has all its automatically passed packets on a submit queue.
PassedTaskPublishesAuto ==
    \A r \in Rows :
        row[r].status = "AUTO" /\ task[r[1]] = "HANDLING" /\ sending = 0
            => r \in published

\* The comment in doRejectInTaskPackets (line 643): when no packet waits any more,
\* the status of the main task is updated.
LastRejectClosesTask ==
    [][\A r \in Rows :
         (/\ row[r].status = "WAITING" /\ row'[r].status = "REJECT"
          /\ \A q \in Rows : row'[q].status # "WAITING")
            => \A n \in SplitNo : task'[n] # "WAITING"]_vars
=============================================================================
