------------------------------ MODULE MtReport ------------------------------
(***************************************************************************)
(* The status reports of the numbers a provider took, on their way to the  *)
(* customer's URL: SmsWaitSubmitListener, SmsWaitReceiptListener,          *)
(* SmsPacketsFailedListener, SmsMtDeliverService, SmsMtPushService and     *)
(* SmsMtPushOutDeliverTask.                                                *)
(*                                                                         *)
(* A report is matched with what was submitted, by message id and number:  *)
(* with the push configuration in a Redis hash, else with the submit row.  *)
(* The listener that submitted writes both after the provider's answer, so *)
(* a report may come first; it then goes round the compensation list until *)
(* the row is there.  A matched report goes to its user's queue, whose     *)
(* thread trims the queue and then posts the reports, URL by URL.          *)
(*                                                                         *)
(* Every call to the broker, to Redis or to the database is a step of its  *)
(* own.  The two lists are bags: that `range` then `trim size` removes     *)
(* what was read is RedisDrain's BatchIsHead, for one running instance.    *)
(* One user is modelled, his queue and its thread.                         *)
(***************************************************************************)
EXTENDS Naturals, FiniteSets

CONSTANTS
    Msgs,           \* message ids a provider gave
    Keys,           \* message id and number: what is submitted, reported and pushed
    msgOf,          \* the message id of a key
    Urls,           \* the user's addresses: one fixed, others sent with a task
    urlOf,          \* the address of a message's task
    Reports,        \* the reports that may come; a provider may repeat one
    keyOf,          \* the key a report is about
    Fakes,          \* reports made up for numbers the provider refused
    Bare,           \* reports that name no number
    Scenarios,      \* bound: which reports may come in one behaviour
    RetryTimes,     \* PUSH_RETRY_TIMES (3 in the code)
    MaxFaults       \* bound, per scenario: crashes and Redis calls that throw

ASSUME KeysAssumption == msgOf \in [Keys -> Msgs] /\ urlOf \in [Msgs -> Urls]
ASSUME ReportsAssumption ==
    /\ keyOf \in [Reports -> Keys]
    /\ Fakes \subseteq Reports /\ Bare \subseteq Reports \ Fakes
    /\ Scenarios \subseteq SUBSET Reports
ASSUME BoundsAssumption == RetryTimes \in Nat /\ MaxFaults \in [Scenarios -> Nat]

VARIABLES
    wanted,         \* messages whose task has a push URL
    step,           \* per key, the submitting listener: "sent", "set", "finished"
    record,         \* submit record per key: "none", "listed" in Redis, "stored"
    ready,          \* keys with a push configuration in Redis
    offered,        \* reports that come in this behaviour, sooner or later or never
    came,           \* reports that came so far (history)
    receipts,       \* MQ_SMS_MT_WAIT_RECEIPT and MQ_SMS_MT_PACKETS_EXCEPTION
    unmatched,      \* RED_MESSAGE_DELIVED_WAIT_PUSH_LIST
    hand,           \* what each caller of sendToWaitPushQueue is doing
    queue,          \* the user's push queue
    pusher,         \* what the user's SmsMtPushTask is doing
    pushRow,        \* push record per key: "none", "listed" in Redis, "stored"
    posts,          \* how often each report was posted (history)
    dropped,        \* reports found to need no push (history)
    aside,          \* RED_MESSAGE_STATUS_RECEIPT_EXCEPTION_LIST
    lost,           \* reports a fault took away (history)
    faults          \* faults so far (history)

vars == <<wanted, offered, step, record, ready, came, receipts, unmatched, hand, queue,
          pusher, pushRow, posts, dropped, aside, lost, faults>>
fixed == <<wanted, offered>>
submitting == <<wanted, offered, step, record>>
pushing == <<queue, pusher, pushRow, posts>>
outcome == <<dropped, aside, lost, faults>>

MsgOf(r) == msgOf[keyOf[r]]
KeysOf(m) == {k \in Keys : msgOf[k] = m}

Nothing == [r \in Reports |-> 0]
Once(S) == [r \in Reports |-> IF r \in S THEN 1 ELSE 0]
Join(b, c) == [r \in Reports |-> b[r] + c[r]]
Less(b, c) == [r \in Reports |-> b[r] - c[r]]
In(b) == {r \in Reports : b[r] > 0}
Restricted(b, S) == [r \in Reports |-> IF r \in S THEN b[r] ELSE 0]

\* The receipt listener, the listener of failed packets, the compensation task.
Listeners == {"receipt", "failed"}
Handlers == Listeners \cup {"task"}
Idle == [at |-> "idle", source |-> {}, took |-> Nothing, todo |-> Nothing,
         known |-> {}, waits |-> Nothing, out |-> Nothing]
Resting == [at |-> "read", todo |-> Nothing, group |-> Nothing, attempt |-> 0]

Fault == faults < MaxFaults[offered] /\ faults' = faults + 1

Init ==
    /\ offered \in Scenarios
    /\ wanted \in SUBSET {MsgOf(r) : r \in offered}
    /\ step = [k \in Keys |->
                   IF \E r \in offered : MsgOf(r) = msgOf[k] THEN "sent" ELSE "finished"]
    /\ record = [k \in Keys |-> "none"]
    /\ ready = {}
    /\ came = {}
    /\ receipts = {}
    /\ unmatched = Nothing
    /\ hand = [h \in Handlers |-> Idle]
    /\ queue = Nothing
    /\ pusher = Resting
    /\ pushRow = [k \in Keys |-> "none"]
    /\ posts = Nothing
    /\ dropped = {} /\ aside = {} /\ lost = {}
    /\ faults = 0
-----------------------------------------------------------------------------
(* SmsWaitSubmitListener after the provider's answer, and the worker that  *)
(* stores its records.                                                     *)

\* setReadyMtPushConfig for one number; its exception is swallowed
SetReady(k) ==
    /\ msgOf[k] \in wanted /\ step[k] = "sent"
    /\ step' = [step EXCEPT ![k] = "set"]
    /\ \/ ready' = ready \cup {k} /\ UNCHANGED faults
       \/ Fault /\ UNCHANGED ready
    /\ UNCHANGED <<fixed, record, came, receipts, unmatched, hand, pushing,
                   dropped, aside, lost>>

\* Listing or losing the records of a message, one entry of the list
FinishSubmit(m) ==
    /\ \A k \in KeysOf(m) : step[k] = IF m \in wanted THEN "set" ELSE "sent"
    /\ step' = [k \in Keys |-> IF msgOf[k] = m THEN "finished" ELSE step[k]]
    /\ UNCHANGED <<fixed, ready, came, receipts, unmatched, hand, pushing,
                   dropped, aside, lost>>

Recorded(S) ==
    [k \in Keys |-> IF k \in S /\ record[k] = "none" THEN "listed" ELSE record[k]]

ListSubmits(m) ==
    /\ FinishSubmit(m)
    /\ record' = Recorded(KeysOf(m))
    /\ UNCHANGED faults

\* rightPush throws and doSubmitFinished swallows it
ListSubmitsFails(m) == FinishSubmit(m) /\ Fault /\ UNCHANGED record

\* SmsWaitSubmitPersistenceWorker
StoreSubmits(k) ==
    /\ record[k] = "listed"
    /\ record' = [record EXCEPT ![k] = "stored"]
    /\ UNCHANGED <<fixed, step, ready, came, receipts, unmatched, hand, pushing, outcome>>

\* The hash of a message id expires.
Expire(m) ==
    /\ ready \cap KeysOf(m) # {}
    /\ ready' = ready \ KeysOf(m)
    /\ UNCHANGED <<submitting, came, receipts, unmatched, hand, pushing, outcome>>
-----------------------------------------------------------------------------
(* Reports on their way to sendToWaitPushQueue.                            *)

\* A provider's call with some reports, at any time once the numbers are sent;
\* a made-up report, published before its submit is finished.
Arrive(S) ==
    /\ S # {} /\ S \subseteq offered \ came
    /\ \/ S \cap Fakes = {}
       \/ \E f \in Fakes : S = {f} /\ step[keyOf[f]] = "sent"
    /\ came' = came \cup S
    /\ receipts' = receipts \cup {S}
    /\ UNCHANGED <<submitting, ready, unmatched, hand, pushing, outcome>>

\* fillMobileWhenMobileMissed finds no submit row for one of the reports
Unresolved(S) == \E r \in S \cap Bare : record[keyOf[r]] # "stored"

\* SmsWaitReceiptListener.onMessage: its catch puts the whole message aside
PutAside(S) ==
    /\ S \in receipts /\ hand["receipt"].at = "idle" /\ Unresolved(S)
    /\ receipts' = receipts \ {S}
    /\ aside' = aside \cup S
    /\ UNCHANGED <<submitting, ready, came, unmatched, hand, pushing, dropped, lost, faults>>

\* Mutant of TakeReceipt: the broker takes the delivery for an acknowledgement.
TakeReceiptAcknowledged(S) ==
    /\ S \in receipts /\ S \cap Fakes = {} /\ hand["receipt"].at = "idle" /\ ~Unresolved(S)
    /\ hand' = [hand EXCEPT !["receipt"] =
                    [Idle EXCEPT !.at = "match", !.source = S, !.todo = Once(S)]]
    /\ receipts' = receipts \ {S}
    /\ UNCHANGED <<submitting, ready, came, unmatched, pushing, outcome>>

TakeReceipt(S) ==
    /\ S \in receipts /\ S \cap Fakes = {} /\ hand["receipt"].at = "idle" /\ ~Unresolved(S)
    /\ hand' = [hand EXCEPT !["receipt"] =
                    [Idle EXCEPT !.at = "match", !.source = S, !.todo = Once(S)]]
    /\ UNCHANGED <<submitting, ready, came, receipts, unmatched, pushing, outcome>>

\* SmsPacketsFailedListener, doSmsException: the configuration (its exception is
\* swallowed), then the record, then the made-up report
TakeFake(f) ==
    /\ {f} \in receipts /\ f \in Fakes /\ hand["failed"].at = "idle"
    /\ hand' = [hand EXCEPT !["failed"] =
                    [Idle EXCEPT !.at = "record", !.source = {f}, !.todo = Once({f})]]
    /\ \/ /\ ready' = IF MsgOf(f) \in wanted THEN ready \cup {keyOf[f]} ELSE ready
          /\ UNCHANGED faults
       \/ MsgOf(f) \in wanted /\ Fault /\ UNCHANGED ready
    /\ UNCHANGED <<submitting, came, receipts, unmatched, pushing, dropped, aside, lost>>

ListFake ==
    /\ hand["failed"].at = "record"
    /\ record' = Recorded({keyOf[f] : f \in hand["failed"].source})
    /\ hand' = [hand EXCEPT !["failed"].at = "match"]
    /\ UNCHANGED <<fixed, step, ready, came, receipts, unmatched, pushing, outcome>>

\* rightPush throws out of doSmsException; the message is acknowledged
ListFakeFails ==
    /\ hand["failed"].at = "record" /\ Fault
    /\ receipts' = receipts \ {hand["failed"].source}
    /\ lost' = lost \cup hand["failed"].source
    /\ hand' = [hand EXCEPT !["failed"] = Idle]
    /\ UNCHANGED <<submitting, ready, came, unmatched, pushing, dropped, aside>>

\* SmsMtPushOutDeliverTask: range over fewer than 2000 entries
ReadUnmatched ==
    /\ hand["task"].at = "idle" /\ In(unmatched) # {}
    /\ hand' = [hand EXCEPT !["task"] =
                    [Idle EXCEPT !.at = "match", !.took = unmatched, !.todo = unmatched]]
    /\ UNCHANGED <<submitting, ready, came, receipts, unmatched, pushing, outcome>>
-----------------------------------------------------------------------------
(* sendToWaitPushQueue: one report after the other, then the two pushes.   *)

\* Mutant of Match: without the look into the database.
MatchWithoutRow(h, r) ==
    IF MsgOf(r) \in hand[h].known \/ keyOf[r] \in ready THEN "found" ELSE "missing"

\* What getWaitPushReport or pushMap says of a report: a configuration, pushed
\* already, or nothing so far
Match(h, r) ==
    IF MsgOf(r) \in hand[h].known \/ keyOf[r] \in ready THEN "found"
    ELSE IF pushRow[keyOf[r]] = "stored" THEN "pushed"
    ELSE IF record[keyOf[r]] = "stored" THEN "found"
    ELSE "missing"

\* After the loop: push what waits, then what is out; an empty push is none.
Turn(x) ==
    IF In(x.todo) # {} THEN x
    ELSE [x EXCEPT !.at = IF In(x.waits) # {} THEN "park"
                          ELSE IF In(x.out) # {} THEN "queue" ELSE "end"]
Parked(x) == [x EXCEPT !.at = IF In(x.out) # {} THEN "queue" ELSE "end"]

Done(h, r) == [hand[h] EXCEPT !.todo = Less(@, Once({r}))]
Matching(h, r) ==
    /\ hand[h].at = "match" /\ r \in In(hand[h].todo)
    /\ UNCHANGED <<submitting, came, receipts, unmatched, pushing, aside, lost, faults>>

Found(h, r) ==
    /\ Matching(h, r) /\ Match(h, r) = "found"
    /\ hand' = [hand EXCEPT ![h] = Turn([Done(h, r) EXCEPT
                    !.known = @ \cup {MsgOf(r)},
                    !.out = IF MsgOf(r) \in wanted THEN Join(@, Once({r})) ELSE @])]
    /\ ready' = ready \ {keyOf[r]}
    /\ dropped' = IF MsgOf(r) \in wanted THEN dropped ELSE dropped \cup {r}

\* getUserPushConfigFromDB throws IllegalStateException
FoundPushed(h, r) ==
    /\ Matching(h, r) /\ Match(h, r) = "pushed"
    /\ hand' = [hand EXCEPT ![h] = Turn(Done(h, r))]
    /\ dropped' = dropped \cup {r}
    /\ UNCHANGED ready

\* Nothing yet; or the configuration vanished between hasKey and get
NotFound(h, r) ==
    /\ Matching(h, r)
    /\ \/ Match(h, r) = "missing" /\ UNCHANGED ready
       \/ /\ MsgOf(r) \notin hand[h].known /\ keyOf[r] \in ready
          /\ ready' = ready \ KeysOf(MsgOf(r))
    /\ hand' = [hand EXCEPT ![h] = Turn([Done(h, r) EXCEPT !.waits = Join(@, Once({r}))])]
    /\ UNCHANGED dropped

\* sendToPushBeforeDeliverdFinished
Park(h) ==
    /\ hand[h].at = "park"
    /\ hand' = [hand EXCEPT ![h] = Parked(@)]
    /\ unmatched' = Join(unmatched, hand[h].waits)
    /\ UNCHANGED <<submitting, ready, came, receipts, pushing, outcome>>

\* its rightPush throws and is swallowed
ParkFails(h) ==
    /\ hand[h].at = "park" /\ Fault
    /\ hand' = [hand EXCEPT ![h] = Parked(@)]
    /\ lost' = lost \cup In(hand[h].waits)
    /\ UNCHANGED <<submitting, ready, came, receipts, unmatched, pushing, dropped, aside>>

QueueOut(h) ==
    /\ hand[h].at = "queue"
    /\ hand' = [hand EXCEPT ![h].at = "end"]
    /\ queue' = Join(queue, hand[h].out)
    /\ UNCHANGED <<submitting, ready, came, receipts, unmatched, pusher, pushRow, posts,
                   outcome>>

\* rightPush throws; sendToWaitPushQueue returns false, which no caller reads
QueueOutFails(h) ==
    /\ hand[h].at = "queue" /\ Fault
    /\ hand' = [hand EXCEPT ![h].at = "end"]
    /\ lost' = lost \cup In(hand[h].out)
    /\ UNCHANGED <<submitting, ready, came, receipts, unmatched, pushing, dropped, aside>>

\* Both listeners acknowledge their message, whatever happened; when the record
\* of the reports cannot be listed, the receipt listener puts the message aside
Acknowledge(h) ==
    /\ h \in Listeners /\ hand[h].at = "end"
    /\ receipts' = receipts \ {hand[h].source}
    /\ hand' = [hand EXCEPT ![h] = Idle]
    /\ \/ UNCHANGED <<aside, faults>>
       \/ h = "receipt" /\ Fault /\ aside' = aside \cup hand[h].source
    /\ UNCHANGED <<submitting, ready, came, unmatched, pushing, dropped, lost>>

\* Mutants of TrimUnmatched: the whole list is deleted; nothing is trimmed.
DeleteUnmatched ==
    /\ hand["task"].at = "end"
    /\ unmatched' = Nothing
    /\ hand' = [hand EXCEPT !["task"] = Idle]
    /\ UNCHANGED <<submitting, ready, came, receipts, pushing, outcome>>
KeepUnmatched ==
    /\ hand["task"].at = "end"
    /\ hand' = [hand EXCEPT !["task"] = Idle]
    /\ UNCHANGED <<submitting, ready, came, receipts, unmatched, pushing, outcome>>

\* trim list.size() -1
TrimUnmatched ==
    /\ hand["task"].at = "end"
    /\ unmatched' = Less(unmatched, hand["task"].took)
    /\ hand' = [hand EXCEPT !["task"] = Idle]
    /\ UNCHANGED <<submitting, ready, came, receipts, pushing, outcome>>

\* The service stops and starts again, or a Redis call throws out of the task:
\* the broker delivers an unacknowledged message again, the list is not trimmed
CrashHandler(h) ==
    /\ hand[h].at # "idle" /\ Fault
    /\ hand' = [hand EXCEPT ![h] = Idle]
    /\ UNCHANGED <<submitting, ready, came, receipts, unmatched, pushing, dropped, aside, lost>>
-----------------------------------------------------------------------------
(* pushReportToUser.                                                       *)

\* What the thread does when `left` remains of the batch: post to one more URL
NextGroup(left) ==
    IF In(left) = {} THEN {Resting}
    ELSE {[at |-> "post", todo |-> left, attempt |-> 1,
           group |-> Restricted(left, {r \in Reports : urlOf[MsgOf(r)] = urlOf[MsgOf(p)]})] :
              p \in In(left)}

Recording(b) == [k \in Keys |->
    IF pushRow[k] = "none" /\ \E r \in In(b) : keyOf[r] = k THEN "listed" ELSE pushRow[k]]

\* Mutant of TakeQueue: the push records are written before the post.
TakeQueueAndRecord ==
    /\ pusher.at = "read" /\ In(queue) # {}
    /\ queue' = Nothing
    /\ pusher' \in NextGroup(queue)
    /\ pushRow' = Recording(queue)
    /\ UNCHANGED <<submitting, ready, came, receipts, unmatched, hand, posts, outcome>>

\* range over fewer than 1000 entries and, before anything is posted, trim: one
\* step, because nobody else reads the queue
TakeQueue ==
    /\ pusher.at = "read" /\ In(queue) # {}
    /\ queue' = Nothing
    /\ pusher' \in NextGroup(queue)
    /\ UNCHANGED <<submitting, ready, came, receipts, unmatched, hand, pushRow, posts,
                   outcome>>

\* Mutant of Post: it retries for ever.
PostForEver ==
    /\ pusher.at = "post"
    /\ posts' = Join(posts, pusher.group)
    /\ pusher' \in {[pusher EXCEPT !.at = "record"], [pusher EXCEPT !.attempt = @ + 1]}
    /\ UNCHANGED <<submitting, ready, came, receipts, unmatched, hand, queue, pushRow,
                   outcome>>

\* post: any answer is a success; an exception is retried while
\* curretCount <= retryTimes
Post ==
    /\ pusher.at = "post"
    /\ posts' = Join(posts, pusher.group)
    /\ pusher' \in {[pusher EXCEPT !.at = "record"]} \cup
                   (IF pusher.attempt <= RetryTimes
                    THEN {[pusher EXCEPT !.attempt = @ + 1]} ELSE {})
    /\ UNCHANGED <<submitting, ready, came, receipts, unmatched, hand, queue, pushRow,
                   outcome>>

\* doPushPersistence, answered or given up: the hashes of the messages go, and
\* with them the configuration of their other numbers
Record ==
    /\ pusher.at = "record"
    /\ ready' = ready \ UNION {KeysOf(MsgOf(r)) : r \in In(pusher.group)}
    /\ pushRow' = Recording(pusher.group)
    /\ pusher' \in NextGroup(Less(pusher.todo, pusher.group))
    /\ UNCHANGED <<submitting, came, receipts, unmatched, hand, queue, posts, outcome>>

\* The thread's service stops, or doPushPersistence throws: the rest of the
\* batch is gone from the queue.
CrashPusher ==
    /\ pusher.at # "read" /\ Fault
    /\ lost' = lost \cup In(pusher.todo)
    /\ pusher' = Resting
    /\ UNCHANGED <<submitting, ready, came, receipts, unmatched, hand, queue, pushRow,
                   posts, dropped, aside>>

\* SmsWaitMtPushPersistenceWorker
StorePush(k) ==
    /\ pushRow[k] = "listed"
    /\ pushRow' = [pushRow EXCEPT ![k] = "stored"]
    /\ UNCHANGED <<submitting, ready, came, receipts, unmatched, hand, queue, pusher,
                   posts, outcome>>
-----------------------------------------------------------------------------
Submitter(m) == ListSubmits(m) \/ \E k \in KeysOf(m) : SetReady(k)
Workers == \E k \in Keys : StoreSubmits(k) \/ StorePush(k)
Receive(h) ==
    \/ h = "receipt" /\ \E S \in receipts : PutAside(S) \/ TakeReceipt(S)
    \/ h = "failed" /\ (ListFake \/ \E f \in Fakes : TakeFake(f))
    \/ h = "task" /\ ReadUnmatched
Handle(h) ==
    \/ Receive(h)
    \/ \E r \in Reports : Found(h, r) \/ FoundPushed(h, r) \/ NotFound(h, r)
    \/ Park(h) \/ QueueOut(h)
    \/ Acknowledge(h)
    \/ h = "task" /\ TrimUnmatched
Push == TakeQueue \/ Post \/ Record
Faults ==
    \/ \E m \in Msgs : ListSubmitsFails(m)
    \/ ListFakeFails
    \/ \E h \in Handlers : ParkFails(h) \/ QueueOutFails(h) \/ CrashHandler(h)
    \/ CrashPusher

Next ==
    \/ \E m \in Msgs : Submitter(m) \/ Expire(m)
    \/ \E S \in SUBSET (offered \ came) : Arrive(S)
    \/ \E h \in Handlers : Handle(h)
    \/ Workers \/ Push \/ Faults

Spec == Init /\ [][Next]_vars

\* Consumers, scheduled task, push thread and workers run for ever, each in a
\* thread of its own.  Nothing is assumed of the providers.
FairSpec ==
    /\ Spec
    /\ \A h \in Handlers : WF_vars(Handle(h))
    /\ WF_vars(Push)
    /\ WF_vars(Workers)
-----------------------------------------------------------------------------
Batch == [Reports -> Nat]
Hand == [at : {"idle", "record", "match", "park", "queue", "end"},
         source : SUBSET Reports, took : Batch, todo : Batch,
         known : SUBSET Msgs, waits : Batch, out : Batch]
Pusher == [at : {"read", "post", "record"}, todo : Batch, group : Batch,
           attempt : 0 .. RetryTimes + 1]

\* Every variable has its type; in particular nothing is trimmed from a list or a
\* batch that is not in it.
TypeOK ==
    /\ wanted \subseteq Msgs /\ offered \in Scenarios /\ came \subseteq offered
    /\ step \in [Keys -> {"sent", "set", "finished"}]
    /\ record \in [Keys -> {"none", "listed", "stored"}]
    /\ ready \subseteq Keys
    /\ receipts \subseteq SUBSET Reports
    /\ unmatched \in Batch /\ queue \in Batch /\ posts \in Batch
    /\ hand \in [Handlers -> Hand]
    /\ pusher \in Pusher
    /\ pushRow \in [Keys -> {"none", "listed", "stored"}]
    /\ dropped \subseteq Reports /\ aside \subseteq Reports /\ lost \subseteq Reports
    /\ faults \in 0 .. MaxFaults[offered]

\* Posted, found to need no push, put aside for an operator, or taken by a fault
Concluded(r) == posts[r] > 0 \/ r \in dropped \cup aside \cup lost
Underway(r) ==
    \/ \E S \in receipts : r \in S
    \/ r \in In(unmatched) \cup In(queue) \cup In(pusher.todo)

\* A report that came is in a queue or list that survives a crash, or in the
\* thread that trimmed it, or concluded: through early reports, compensation
\* rounds that overlap with new reports, redeliveries and swallowed exceptions.
ReportIsSomewhere == \A r \in came : Underway(r) \/ Concluded(r)

\* A report dropped although its customer wants reports was dropped because
\* another one on the same number was posted.
DroppedWasTold ==
    \A r \in dropped : MsgOf(r) \in wanted =>
        \E p \in Reports : keyOf[p] = keyOf[r] /\ posts[p] > 0

\* A report is posted only PUSH_RETRY_TIMES times after the first, unless a
\* fault had it handled again: each fault at most doubles it.
PostsNeedFaults == \A r \in Reports : posts[r] <= (RetryTimes + 1) * 2 ^ faults

\* A report about a number whose submit record reaches Redis is concluded in the
\* end, however early it came and whatever became of its configuration: again and
\* again there is nothing left of what came.
Unsettled == {r \in came : record[keyOf[r]] # "none" /\ ~Concluded(r)}
EveryReportConcluded == []<>(Unsettled = {})

\* The messages, the lists and the queue that a report passes through implement the
\* at-least-once store: whoever holds a copy of it, it is concluded before it leaves
\* the last of them, and having left it never comes back.
Store == INSTANCE AtLeastOnceStore WITH
            Entries <- Reports, accepted <- came,
            pending <- {r \in Reports : Underway(r)},
            settled <- {r \in Reports : Concluded(r)}
ImplementsStore == Store!Spec
=============================================================================
