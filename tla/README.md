# A verification of the hspaas SMS platform

hspaas sends SMS for its customers. A customer's API call is charged, queued,
split into packets per operator, province and passage (upstream channel), stored,
reviewed by people when something is wrong with it, transported to a provider, and
the provider's status reports are pushed back. These modules model that path: the
service where most of its logic lives, `hspaas/hssms`, the gateway connections of
`hs-exchanger`, and the balances and orders it is paid from (`hscommon`, `hs-bill`).
They state what the code must never do and what it must eventually do. TLC checks the models on small instances; TLAPS proves the
central theorems for every value of the constants.

Paths below are relative to `src/hspaas/`. `packets` is the code's word for one
sub-task: some numbers of one province that go to one passage together.

## 1. The system

| Part | Keeps | Operations | Interacts with |
|---|---|---|---|
| Developer API (`hs-developer`) | nothing | authenticate, check balance, deduct fee, publish the task | balance, queue `MQ_SMS_MT_WAIT_PROCESS` |
| Packet splitting (`SmsWaitPacketsListener`, `BasePacketsSupport`) | the task in hand: error report, action bits, packets | match template and words, drop black-listed numbers, route, cut into packets, decide who reviews, push to Redis, send | access rules, limits, black list, balance (refund), task list, submit queues |
| Point-to-point splitting (`SmsP2PWaitPacketsListener`) | the same | the same, one content per number | the same |
| Persistence lists and workers (`config/worker`, `SmsDbPersistenceRunner`) | six Redis lists with a failed list each | range, batch insert, park, trim | Redis, MySQL |
| Task review (`SmsMtTaskService`, `hsboss` record controller) | main rows and packet rows, with their approve status | pass, reject, switch passage, force pass, re-split; of a packet, a task or several tasks | MySQL, submit queues, exception queue, split queue |
| Submit and transport (`SmsMtSubmitService`, `SmsWaitSubmitListener`) | one queue per passage, submit records | route a packet to its passage's queue, transport it, record the answer, report failures | `hs-exchanger`, push configuration, submit list |
| Reports and push (`SmsMtDeliverService`, `SmsMtPushService`, tasks) | push configuration per message and number, compensation list, queue per user | match a report with its message, queue it, post it, retry | customers' URLs |
| Upstream messages (`SmsMoMessageService`) | MO records and push queue | match to a customer, push | the same |
| Balance (`hscommon`), orders (`hs-bill`) | balance rows and their log, orders | deduct, credit, deduct by hand, exchange, refund; save a customer's form with the balance it shows; complete an order once paid | everything that charges, `hsboss` forms |
| Gateway proxies (`hs-exchanger`) | proxies, limiters, error counters in HashMaps | start, stop, send in batches, count errors | providers |
| Limits, black list, words (`settings`) | counters in Redis, a set in memory, tables | check, add, remove, reload | splitting |
| Passages and access (`passage`) | passages, groups, access rows and their Redis copies | edit, route, refresh | splitting, review |
| `hs-listener`, `hs-monitor`, `hsweb`, `hsfs`, `hsvs` | little | callbacks, polling, pages, stubs | the above |

What is hard about it:

- Two servers and no common transaction. A listener pushes to Redis, publishes to
  RabbitMQ and then acknowledges; a worker reads Redis, writes MySQL and then trims.
  A crash may fall between any two of these.
- Reviewers' requests run concurrently on the same rows, decide on what they read
  earlier, publish inside a transaction, and may be overtaken by a re-split that
  deletes what they read.
- State outlives a loop iteration: the error report of a task grows while its packets
  are built, and a packet is a snapshot of it.
- Exceptions are swallowed: a message whose split failed is acknowledged all the same, and so
  is a transported packet whose records or failure reports could not be pushed.
- Several instances of the service run against one Redis.
- A provider's report may come before the record of what it reports on, and configuration
  in Redis expires while it is needed.
- A list is trimmed before its entries are posted, so what a thread holds dies with it.
- Balances are read and written back without a version; a failure between two of them
  is answered in different ways by different callers. An administrator's form keeps the
  balance it was opened with and writes it back when it is saved.
- Connections are closed and replaced under a lock by some threads and without it by others.

What makes the parts correct: every number of a task is in exactly one packet of a
split; nothing a template or the word list did not clear leaves without review;
what a reviewer passed is sent and what he rejected is reported; a task is never
forgotten; an entry of a list is kept at least once; a transported number has a record or
a failure report, unless an exception that the listener swallows takes its packet, and is
sent once; a report that came is posted, or concluded otherwise,
and is nowhere lost but by a fault; a balance is the sum of what was booked, unless two
writers had it in hand at once; an exchange moves money or does not; an order is credited once.

## 2. Modules

| Module | Models | State and actions |
|---|---|---|
| `SmsPackets` | the decisions of one split as closed forms | no state: routed passages, remark, action bits, packet status, task status |
| `SmsSplit` | the loops `generatePassagePackets`, `doTaskPackets`, `doPrepareTask` (first half) | one step per operator snapshot and per province; variables are the loop's own (`taskError`, `taskBits`, `message`, `action`, `access`, `packets`) |
| `RedisDrain` | a Redis list, its producers and workers | `Push`; `Scan`, `Save`, `SaveFails`, `SaveUnknown`, `Park`, `Trim` are the calls of one round; `Interrupt` is a Redis exception or a crash |
| `AtLeastOnceStore` | what a list or a queue promises to its producers | accepted, pending and settled entries: what stops being pending is settled, stays settled and does not come back |
| `SmsTask` | one task from the split queue to the provider | `SplitTask`, `SplitFails`, `FinishSplit`, `CrashInSplit` (listener); `Persist`, `Park` (worker); `Deliver` (transport); the reviewers' operations, one action per service method or, where the method works on what it read earlier, one per half |
| `MtTransport` | the packets of one passage, from its queue to the gateway and to records or failure reports | consumers: `Take` to `Finish`, `HearNothing` or `Fail`, one action per remote call, lock or access to shared state; `Terminate` and `Remove` are the gateway's thread; `Throw` is an exception outside the calls to the gateway and what becomes of it; `Crash` |
| `MtReport` | records, push configuration and reports, up to the customer's URL | the submitting listener (`SetReady`, `ListSubmits`), the receipt listener, the listener of failed packets and the compensation task (one `hand` each), the push thread (`TakeQueue`, `Post`, `Record`), the workers, expiry, faults |
| `UserBalance` | existing balance rows and one order | submissions, credits and deductions by hand, exchanges of either sign, payment notifications, one action per database call; the administrator's form of a customer (`OpenForm`, `SaveForm`); exceptions and crashes; `UserBalanceCheckTask`. Section 5 names the writers left out |
| `MC...` | their instances | |
| `..._proofs` | theorems about the module they extend (`SmsReview_proofs` about `SmsTask`) | |

`SmsTask` EXTENDS `SmsPackets`: the packets of a split are the closed forms. That
the loops of the code compute those closed forms is what `SmsSplit` is for
(`LoopMeetsClosedForm`). Three components implement `AtLeastOnceStore`, each with an
account of its own of what is pending and what settles it: a list with its worker
(`RedisDrain`: in the list; stored or parked), a submit queue with its consumers
(`MtTransport`: on the queue; each number has a record or a failure report) and the way
of a status report (`MtReport`: in any message, list, queue or push batch; posted, dropped,
put aside or taken by a counted fault). `SmsTask` and `MtReport` use the Redis lists at
that level of detail. `MtTransport` starts where `SmsTask`
delivers a copy of a packet, and ends where `MtReport` begins: with the records and the
made-up reports (`recorded`, `failed` there; `record`, `Fakes` here).

How `SmsTask` corresponds to the code:

- A task is one sid. Every split makes its own rows under that sid, so rows are named
  by split number and group, `<<n, g>>`. The SQL that selects by sid
  (`updateStatusBySid`, `deleteBySid`, `selectWaitingCount`) acts on the rows of every
  split; the SQL that selects by id acts on one.
- `row[r].status` and `passage` are the columns `status` and `final_passage_id`;
  `task[n]` is `approve_status` of the main row; "absent" is a row that does not exist.
- The action bits (`force_actions`) never change after a split, so they are computed
  from the split (`RowBits`).
- A copy on a submit queue carries the status the packet had when it was published,
  because that is what the transport listener looks at. Copies of one packet in one
  status are one element: duplicates are not counted.
- `session[v]` is what a request has read. `doForcePass` / `doPassWithSameContent`
  (`ReadToApprove`, then `Approve`, `ApproveStops` or `ApproveFindsNothing`),
  `doRejectInTask` (`ReadToReject`, `Reject`) and `updateMainTaskByForcePass`
  (`ForcePass`, `ForceSend`) are two steps. The service's single-packet operations
  and the switch of a whole task decide on columns that never change or on what their
  first update locked, and are one step.
- `ApproveStops` covers every error return of `doTaskBatchApproved` after its first
  update: a passage or a template that cannot be looked up. Nothing is rolled back there
  because a response is returned and no exception thrown.
- `sent`, `published`, `unroutable`, `approved`, `reset`, `reported`, `dropped` are
  history: they record what happened and guard nothing.

`RedisDrain` follows `SmsWaitTaskPersistenceWorker` and
`SmsWaitSubmitPersistenceWorker`. `watch` is left out: no MULTI follows it, so it
guards nothing.

How `MtTransport` corresponds to the code:

- `thread[t]` is one consumer's call of `SmsWaitSubmitListener.doTransport` with the calls
  below it; `at` is the next statement that touches something shared. `answers` is the
  list of `ProviderSendResponse` so far, by batch.
- `registered` is the passage's entry of `GLOBAL_PROXIES`, `open` the connections that are
  up, `lock` the lock of `initManageProxy`, `errors` the passage's error count.
  `isProxyAvaiable`, `getManageProxy`, `startProxy`, the read and the write of the
  counter are separate steps, because nothing holds them together.
- `Status` is `buildSubmitMessage`: the answer that fits a number, or what the last number
  with one left in the loop's variables, or the status copied from the packet.
- `Group`, `BatchCount`, `BatchNumbers` are `doLimitSpeedInSecond`; a group of 0 is its
  division by zero.
- What throws outside the calls to the gateway is `Throw`, and each case ends as its catch
  makes it end. `PrepareThrows` (extension number, passage parameters: nothing sent yet) and
  `BuildThrows` (`getPushUrl`, or a `convertAndSend` at number k, after the gateway answered)
  go to the failure report of the whole packet. `RecordsThrow`: `doSubmitFinished` catches what its
  loop or its `rightPush` throws, and there are no records. `FailThrows`: `doSubmitMessageFailed` throws at
  its first statements or at number k, and `onMessage` only logs it. In every case the message is
  acknowledged; `lost` keeps the packets of the last two.
- `fee`, the content's length in messages, is chosen at the start. `troubled`, `lost` and the
  counters are history.

How `MtReport` corresponds to the code:

- A key is a message id with one number: the granularity of submit rows, of the fields of
  the Redis hash and of push rows. `ready` is the hash, `record` and `pushRow` are rows,
  first in a list for the workers and then stored; a row is visible to a query only then.
- `receipts` are messages not acknowledged yet; a message is a set of reports.
- `hand[h]` is a call of `sendToWaitPushQueue` or of its caller: the reports `todo`, the
  messages whose configuration it has `known`, and what `waits` or goes `out`. `Found`,
  `FoundPushed`, `NotFound` are one turn of its loop, with all its queries; the two
  pushes at its end are steps of their own, each of which may throw and be swallowed.
- `pusher` is `SmsMtPushTask` of one user: the batch it trimmed, the URL it posts to, the
  attempt.
- Lists are bags: their order matters to nothing but the trim, and that the trim
  removes what was read is `BatchIsHead` of `RedisDrain`.

How `UserBalance` corresponds to the code:

- `row` is what is committed. `call[c]` is one caller: `seen` is what it read, `open` the
  accounts it will write from that. `deductBalance` and `updateBalance` are a read and a
  write; `exchange` writes its two rows at its commit and locks the first one before
  (`Locked`), and works on the snapshot of its transaction's first read.
- `Validate` and `Select` hold the lock of their process (`Exchanging`, `Notifying`).
- A row keeps its pay type with its balance. Every write but the form's writes back the pay type
  that was read; the form's (`updateByUserId`) sets it to `setting` and leaves the status alone.
  `Check` asks the balance only when the row it reads is pre-paid.
- A form is a call that has its account in hand from `OpenForm` to `SaveForm`, so its effect is 0
  and what was booked meanwhile is overwritten: `overlapped` says so. `FormThrows` covers the
  balance that cannot be parsed: FreeMarker shows 1000 as "1,000" in the hidden field, and
  `Double.valueOf` refuses the comma.
- An amount is what its caller passes, of either sign. The administrator's credit takes a negative
  one as a deduction (`user_balance/edit.ftl:89`) and asks nobody; `exchange.validate` refuses only 0
  and a balance below the amount, so a negative one always passes. `unasked` adds up what leaves an
  account that way, and what post-paid submissions take.
- A throw is what its caller makes of it: a submission answers failure and leaves what was
  deducted, a transaction is rolled back, the loop over an order's products ends
  and the notification goes on to answer success.
- `due`, `booked`, `unasked`, `told`, `overlapped`, `blurred` are history.

## 3. Runs

| Run | Instance | What it shows |
|---|---|---|
| `split` | groups CM, CM, CU; 2 passages; sizes 0 and 1 with default 2; up to 3 numbers | the loops meet the closed forms; every number is in exactly one packet and no packet is larger than its passage takes; the task's verdict covers its packets; only clean packets skip review |
| `split_stale_access` | same | violation: a province without access gets another province's passage |
| `drain` | 3 entries, batch of 2, 1 worker, 2 faults | nothing is lost; extra copies need a fault; the list implements the at-least-once store; every entry is kept in the end |
| `drain_two_instances` | 2 workers, no fault | violation: trim removes entries nobody handled |
| `task` | groups CM, CU; 1 passage; 2 reviewers; 2 splits, 2 review operations, 1 fault | the five safety properties below |
| `task_live` | 2 error kinds; 1 reviewer; 2 splits, 1 operation, 1 fault | every number is sent or comes before a reviewer |
| `task_auto_lost` | no content error; 3 operations | violation: packets passed automatically are lost when their task is passed by hand |
| `task_reject_open` | same | violation: rejecting the packets one by one leaves the task open |
| `transport` | 2 consumers; 2 packets of 2 numbers; 2 permits a second, messages billed 1 to 3 times; error limit 2; exceptions that end in a failure report; 1 fault (a termination, a crash or a swallowed exception) | every number is answered unless a swallowed exception took its packet; sent once but for crashes; connections left open need terminations; single-number batches that met no trouble are recorded as they were answered; the submit queue implements the at-least-once store; every packet is answered in the end |
| `transport_list_answer` | same, no fault | violation: a batch of several numbers that the gateway took is reported as failed |
| `report` | 2 messages of 2 and 1 numbers; 2 URLs; two reports per scenario; 1 retry; 1 fault where a made-up report races a real one | a report is somewhere; what is dropped was told; posts are bounded by retries and faults; the way of a report implements the at-least-once store; every recorded report is concluded in the end |
| `balance` | 2 accounts, one of them post-paid; 6 scenarios of 2 to 3 overlapping calls, a negative exchange, a deduction by hand and a form among them; an order of two products; 1 fault | balances are explained, overdrafts beyond what was let out unasked need an overlap, exchanges are whole, orders are credited once, answers match the books, low balances are warned of |

Safety properties of `task`: `FlaggedNeedsApproval` (flagged content is sent only after
a reviewer passed that packet), `HandlingPublished` (what is marked passed was put on a
submit queue, or could not be routed, or its request still runs),
`ClosedTaskHidesNothing` (a task that left the reviewers' list hides no waiting packet
that no switch put back), `RejectedIsReported` (the submitter of a rejected number was
told), `NothingForgotten` (a task is always queued, listed, parked or stored, unless a
split failed).

Some properties hold only up to what the code does not try to prevent, and name it.
`BalanceExplained`, `OverdraftNeedsOverlap` and `EveryLowAccountWarned` except accounts
that two callers had in hand at once, an open form being one of them: a lost update is
possible there (the run reaches it), and the properties show that nothing else goes wrong, no
matter which calls fail. `OverdraftNeedsOverlap` further allows an account below zero by `unasked`:
deductions by hand, exchanges of negative amounts and post-paid submissions, which the code lets
pass without looking at the balance. `EveryNumberAnswered` and `ImplementsStore` of `MtTransport`
except the packets in `lost`, each of which needs a swallowed exception of its own while its
records or its failure reports were pushed; `SinglesToldRight` excepts packets that met any
refusal, exception or crash, for an accepted number is told failed when building its record throws. `ConnectionsBounded` allows one stray connection for each termination,
`SentOnce` one more sending for each crash, `PostsNeedFaults` a doubling of posts for each
fault. `CompletedIsCredited` holds without faults only: a credit that throws is
swallowed and the order stays completed.

### Bounds

Two provinces of one operator and one of another show state
that leaks between provinces and between operators; three numbers with limits 1 and 2
give an exact cut, a remainder and a single packet. Three entries with a batch of two
give a full batch, a short one and a push during a round; two faults allow a
repeated round and an unknown outcome on the same entry. Two groups let one operator
fail and the other not; two splits allow one re-split or redelivery; two operations
are a pair of concurrent requests in every combination, the second of which may
overtake the first. `MaxSplits`, `MaxOps`, `MaxFaults` bound how often, never what. A
crash or a re-split is offered only while the queued message can still be split within
`MaxSplits`, so the bound never strands a task.

In `transport` the fees give one batch, several batches and the division by zero; two
consumers reconnect at once; `Conns` holds one number more than the connections that can
be in use at one time, so a connection can always be made. `ErrorLimit` is 2 where the
code has 3: two failures in a row reach it within two packets. In `report` the
`Scenarios` choose which two reports come: two numbers of one message, whose shared
hash the first push deletes; messages with different URLs; a made-up report and a
provider's report about the same number, with a fault at any step. `RetryTimes` is 1
where the code has 3: it gives a first post, a retry and the giving up. In `balance`
the scenarios pair every kind of call with another on the same account, and the
amounts are such that the account can pay one of two submissions; an exchange and a credit of
-1 take what nobody checks, and a form makes the account post-paid while a submission is
between its check and its deduction. In `transport` one fault is enough for each kind of
loss, since each alone takes a packet; exceptions that end in a failure report are not
bounded. The theorems of
section 4 cover the larger instances.

Deadlock is not checked: all the systems rest when the queues are empty and
reviewers, providers and callers do nothing.

### Fairness

The listeners, the workers, the consumers and the push thread are threads that loop
forever, and the compensation task and the balance check are scheduled again and
again, so the `FairSpec`s assume weak fairness of each of them (a thread's steps
together, not each step of it). A call that was begun goes on, except that an open form need never be saved
(`UserBalance`). Nothing is
assumed of reviewers, of providers, of inserts succeeding, of calls being made, of
expiry or of faults. Faults are bounded in number; without a bound a worker interrupted
in every round makes no progress, in the code too.

### Where the code departs from what its comments say

1. `SmsWaitPacketsListener.java:908`: the packet of a province without access carries
   the passage of an earlier province; the comment says empty data. The packet waits
   for review (`AutoPacketIsClean` proves that it does), but
   `selectPassageErrorCount` no longer sees that it lacks a passage.
2. `SmsWaitSubmitPersistenceWorker.java:61`: with two instances on one list, trim
   removes entries that were never handled.
3. `SmsMtTaskService.java:867`: passing a task skips its AUTO_COMPLETE packets, which
   the listener has not sent because another operator's passage was missing.
4. `SmsMtTaskService.java:646`: the last rejected packet does not close its task: the
   update is keyed by the sid instead of the id.
5. `SmsWaitSubmitListener.java:374`: `CmppProxySender.send` takes several numbers
   (comment at its line 223) and answers with their list as one mobile (line 265);
   the listener finds no answer for any of them and gives every number the packet's own
   status. `AUTO_COMPLETE` has the value of `FAILED`, so the numbers of a packet passed
   automatically are reported as failed although the gateway took them.

Without a run: `SmsMtPushService.java:375` says that only the answer "success" counts as
pushed, while `post` takes any answer for one; `Post` follows the code.

## 4. Proofs

TLAPS checks, for every value of the constants (groups, passages, numbers, size limits, reviewers, splits,
operations, entries, batch sizes, consumers, packets, connections, calls, amounts,
products, reports, retries, faults):

| Theorem | Statement |
|---|---|
| `SmsPackets_proofs!AutoPacketIsClean` | a packet that starts as passed has clean content and its own province's passage |
| `SmsPackets_proofs!AutoTaskHasOnlyAutoPackets` | a task that starts as passed has no waiting packet |
| `SmsSplit_proofs!TypeCorrect` | `Spec => []TypeOK` |
| `SmsSplit_proofs!LoopIsClosedForm` | `Spec => []LoopMeetsClosedForm` |
| `SmsSplit_proofs!VerdictIsRight` | `Spec => []VerdictCoversPackets` |
| `SmsSplit_proofs!EachNumberOnce` | `Spec => []NumbersCoveredOnce` |
| `SmsSplit_proofs!PacketsFit` | `Spec => []PacketFitsPassage` |
| `SmsSplit_proofs!AutoIsClean` | `Spec => []AutoOnlyWhenClean` |
| `SmsTask_proofs!TypeCorrect` | `Spec => []TypeOK` |
| `SmsTask_proofs!FlaggedContentIsReviewed` | `Spec => []FlaggedNeedsApproval` |
| `SmsReview_proofs!TaskIsSomewhere` | `Spec => []NothingForgotten` |
| `SmsReview_proofs!PassedIsPublished` | `Spec => []HandlingPublished` |
| `SmsReview_proofs!RejectionIsReported` | `Spec => []RejectedIsReported` |
| `SmsReview_proofs!ClosedTaskIsThrough` | `Spec => []ClosedTaskHidesNothing` |
| `RedisDrain_proofs!TypeCorrect` | `Spec => []TypeOK` |
| `RedisDrain_proofs!BatchStaysHead`, `NoLoss`, `CopiesCounted`, `DrainImplementsStore` | with one worker: `Spec => []BatchIsHead`, `[]NothingLost`, `[]CopiesNeedFaults`, `ImplementsStore` |
| `MtTransport_proofs!TypeCorrect` | `Spec => []TypeOK` |
| `MtTransport_proofs!NumbersAnswered` | `Spec => []EveryNumberAnswered` |
| `MtTransport_proofs!SentOnlyOnce` | `Spec => []SentOnce` |
| `MtTransport_proofs!ConnectionsLimited` | `Spec => []ConnectionsBounded` |
| `MtTransport_proofs!SinglesRight` | `Spec => []SinglesToldRight` |
| `MtTransport_proofs!TransportImplementsStore` | `Spec => ImplementsStore` |
| `MtReport_proofs!TypeCorrect` | `Spec => []TypeOK` |
| `MtReport_proofs!ReportsStaySomewhere` | `Spec => []ReportIsSomewhere` |
| `MtReport_proofs!DropsAreTold` | `Spec => []DroppedWasTold` |
| `MtReport_proofs!PostsCounted` | `Spec => []PostsNeedFaults` |
| `MtReport_proofs!ReportsImplementStore` | `Spec => ImplementsStore` |
| `UserBalance_proofs!TypeCorrect` | `Spec => []TypeOK` |
| `UserBalance_proofs!BalancesAddUp` | `Spec => []BalanceExplained` |
| `UserBalance_proofs!OverdraftsNeedOverlap` | `Spec => []OverdraftNeedsOverlap` |
| `UserBalance_proofs!ExchangesWhole` | `Spec => []ExchangeWhole` |
| `UserBalance_proofs!OrdersCreditedOnce` | `Spec => []OrderCreditedOnce` |
| `UserBalance_proofs!OrdersCreditedWhole` | `Spec => []CompletedIsCredited` |
| `UserBalance_proofs!AnswersTrue` | `Spec => []AnswersMatchBooks` |

Assumptions. The named assumptions of the modules (`GroupsAssumption`,
`BatchAssumption`, `SizeAssumption`, `KeysAssumption`, `CallsAssumption` and so on), which
TLC evaluates in every run, and for the second row of `RedisDrain_proofs` `OneWorker`.
The violation run `drain_two_instances` shows that `OneWorker` cannot be dropped.

The argument for the packet loops. `ReportOK` says what the task's report and bits hold when
an operator is entered: the errors of the operators up to it. Operators are entered in
order (`EnteredOK`), so no group lies between the last one and the next
(`SeenAtNext`), and the report is the one `HasRemark` and `Bits` read off the
route. `AccessOK` says the same of `access`, the last earlier group of the operator that
had one. `CarriedOnce` is `NumbersCoveredOnce` without cardinalities; it rests on
`ChunkFacts`, the arithmetic of `doSplitMobileByPacketsSize`: the parts are not empty, none
is larger than its size, and every number is in exactly one.

The argument for `FlaggedNeedsApproval`. The property speaks of packets already sent,
so it is not inductive. `OnlyClearedMove` adds that every row, and every copy on a submit
queue, whose status the transport listener lets through is cleared: a reviewer passed it
or its content was clean. The listener makes such rows only from splits without
error (`AutoPacketIsClean`); a switch of passage makes them only when no other bit is
broken (`isOnlyContainPassageError`); approval records them. `KnownSplits`
keeps a later split from changing what an earlier row says.

The argument for `RejectedIsReported`. `doRejectInTask` rejects the rows that wait when
it writes but reports those it read. It is right all the same: rows of a split come and
go together and the groups of every split are the same (`WholeSplits`), so a row that
was not read belongs to a number that was, and a row that the request did not
report because it was already rejected had been reported before (`SnapsReported`).

The argument for `ClosedTaskHidesNothing`. A request closes one main row.
`StoredSplits` says that a stored split is not in the list any more, so no new
rows of it can appear; `SnapsFollow` says that a row of it waiting now was waiting when
the request read it, or a switch put it back; what the request read as waiting it
passes or rejects.

The argument for the drain. Only the worker removes entries, so its batch stays the head
of the list while producers append; before it trims, the whole batch is stored or
parked (`TrimmedIsKept`). The refinement maps pending to the list's elements and settled to
stored or parked: `Save`, `SaveUnknown`, `Park` settle the batch, `Trim` is a Settle that
only ends pending, `Push` an Accept, everything else a stutter. For `CopiesNeedFaults`, `ListedOnce` says that
no entry is in the list twice: what is trimmed is out of the list, so it is never
stored again, and a batch stored or parked either goes on to `trim` (its entries
are handled now) or costs a fault.

The argument for `SentOnce`. The broker has a packet with one consumer at a time (`BusyOK`).
`SentOK` counts, for every number of a packet still to be handled, what it may have been sent
by now: once more than the crashes if its batch is answered already, else only as often
as there were crashes. A batch is submitted once by the consumer that holds the packet, and
`BatchesDisjoint` (division and multiplication of the cut) says that no number is in two
batches. The argument for `ConnectionsBounded`: an open connection that is not
registered is an orphan; `Connect` under the lock makes none, since `Close` before it
closed what was registered; only `Remove`, which forgets a connection made since its
`Terminate`, makes one, so the orphans never outnumber the notices. In the refinement of
the store only `Finish`, `Fail` and the two swallowed exceptions take a packet off the queue:
the first two settle it because each of its numbers is told, `RecordsThrow` and `FailThrows`
because they put it in `lost`. Records and failure reports only accumulate (`ToldStays`), and a
packet whose consumer died stays pending. Every packet in `lost` is a fault of its own
(`Faults` counts them), so at most `MaxFaults` packets are settled without an answer. For `SinglesToldRight`,
`BuildThrows`, whose packet the gateway may have accepted, puts it in `troubled` before its failures are reported.

The argument for `ReportIsSomewhere`. A report is safe once it is in the user's queue, in
the push thread's batch or concluded, and what is safe stays safe (`SafeStep`). The
difficulty is the compensation task, which trims by count what it read before. `HandsOK`
says of every report a handler took that it is still in its hands, or that the list holds
more of it than the task took, or that it is safe. A handler that has nothing in its hands
any more may therefore acknowledge its message, or trim what it took, though the other
listeners pushed to the list, or lost the same report, in between. `TakesOK` keeps the
bags from going negative. `DroppedWasTold` needs `RowsTold` (a push row means a post) and
`PusherOK` (the thread records what it posted).

The argument for `PostsNeedFaults` counts copies. `CopiesOf` adds up, for a report, the
delivery still to come, the message nobody has taken, the list beyond what the task took
from it, what the three handlers hold, the user's queue and the batch not yet grouped;
each copy is worth `RetryTimes + 1` posts, and `Posting` adds the posts made and the
attempts left of the group being posted. Only one step raises it: a handler
moves copies from one place to another and makes none (`HandCopies`), the arrival of a
message turns the delivery to come into a message (`ArriveCopies`), and the push thread
turns copies into attempts and attempts into posts (`PushPosting`), or loses them when it
dies. A handler that dies begins again with all it took, though part of it may have gone on
already: one message, or what the task read from the list. That is no more than
`2 ^ faults` copies, so the sum at most doubles, as the bound `Tries * 2 ^ faults` of
`PostsOK` does; its second half says so of what the task read. `MessagesOK` is needed because a report
must not be in two messages, nor a resting handler hold anything. That `2 ^ n` doubles
with `n` would be an induction; it is read off the cardinality of the power set instead.

The argument for the refinement of the store by the reports. A report that is no longer
underway is concluded (`ReportIsSomewhere` after the step), and what is concluded stays so
(`StaysConcluded`). That it never comes back is the hard part, for a handler may still
hold a copy: `HoldsOK` says that whatever a handler holds is in the message it has not
acknowledged or among what it took from the list and has not trimmed, so the report is
still underway and the copy's move to a list or queue brings nothing back
(`HoldingUnderway`, `NothingComesBack`). The same fact shows that only reports underway
are concluded (`NewlyConcluded`).

The argument for the balances. `PlacesOK` says what each call has in hand where it is, and
`BookedOK` what it has booked by then. `FreshOK`: what a call has in hand is as it read
it, unless a write of another call marked the account as overlapped; so a write adds
exactly its effect to the row, as it does to `due`; a form writes what it read, so its effect is 0.
`CoveredOK`: what a submission or an exchange found sufficient, or let out unasked, stays
covered by the balance and `unasked` while nobody else has the account in hand; `unasked` never shrinks
(`UnaskedGrows`), and what a write takes without a check it adds to `unasked` in the same step.
`LeftOK` and `OrderOK`: the products left are distinct and not yet credited, and only
one notification ever gets past the order's status. `CreditedOK`: without a fault, each product
of a completed order is credited or among the products left.

All inductive invariants were model-checked before they were proved.

Only model-checked: the liveness properties `EventuallyKept`, `EveryNumberDecided`,
`EveryPacketAnswered`, `EveryReportConcluded`, `EveryLowAccountWarned`, since the prover does
not do liveness under fairness. Every invariant and every refinement of the passing runs
is proved.
Results of recursive definitions over all inputs are beyond the prover, and none is
claimed.

## 5. What is not modelled

By component:

- Splitting: the send-frequency check and the black list. Template and word matching are
  inputs (`ContentErrors`): which error was found matters, how it was found does not. The
  refund of wrong numbers is a credit of `UserBalance`, not tied to its task.
- Review: the write skew of `selectWaitingCount` between two requests, edits of content and of
  action bits by hand. `doPassWithSameContent` runs without a transaction; its updates are
  one step here. Publishing never fails in `SmsTask`, although `sendToSubmitQueue` logs and
  skips a failed publish: every property would have to except every packet.
  `RePackets` is one step, so what its queueing inside the transaction lets others see early is
  not shown; and `HandlingPublished` says nothing of any row while a force pass runs, a crash
  inside it included.
  How many times a packet is published: the code may send a packet again (force pass,
  a switch of the whole task, a re-split of a task that was sent), which no comment
  promises it will not do.
- Lists and workers: an entry that a worker cannot parse makes every round fail, in the code
  and for ever; replaying the failed lists by hand.
- Transport: the limiter's delay and its double creation, a `close()` that throws, SGIP's
  idle time, torn reads of plain HashMaps, extension numbers and signatures. The SMGP and SGIP
  senders have the shape of the CMPP sender, except that SGIP's loader closes the old connection
  only when the proxy is available (`Close` is CMPP's); half-made failure reports of a consumer
  that dies add to `failed` for a packet that is delivered again; HTTP and SOAP resolvers have no state.
- Reports: a database exception in `getUserPushConfigFromDB` (`SmsMtPushService` 238-250) passes the
  catch of IllegalStateException at 124 and reaches the one at 182, which loses the batch with the
  reports already matched; a fault of the model takes only what `waits` or what goes `out`. The
  properties except what a fault took, so they say nothing of that exception. Further: a passage without call-back parameters, lists longer than one range, several users
  (each has a queue and a thread of his own), a Redis read that throws in
  `getWaitPushReport` and so goes on to the row.
- Balances: several instances of `hs-bill` (the locks are per process), new rows (`saveBalance`),
  a status or a threshold set by hand (`updateStatus`, `updateBalanceWarning`),
  `SmsMtTaskService.doSubmitTask` (deducts as a submission does and has no caller), the money account (`UserAccountService` works like a balance), invoices and fee
  arithmetic. `WxpayService`'s call of the completion is commented out. An exchange order is
  DEAL_FAILED although the balance moved when only the insert of the completed order
  throws; `AnswersMatchBooks` therefore says nothing of a failed answer after a fault.
- Point-to-point splitting: the decisions of `SmsWaitPacketsListener` with one content per number.
- Upstream messages (MO): the shape of `MtReport` without its compensation round.
- Frequency limits, black list, words: races on counters and caches are listed as hazards; nothing
  in the repository says which answers are acceptable while they race.
- Passage and access editing; `hs-listener`, `hs-monitor`'s passage monitor, `hsweb`, `hsboss`,
  `hsfs`, `hsvs`: parsing, I/O, forms and stubs. The scripts of the two web sites are vendored
  libraries and page glue, with no state that outlives a page.

## 6. Plan

Done, in this order: `SmsPackets`, `SmsSplit`, `AtLeastOnceStore`, `RedisDrain`,
`SmsTask` and their proofs; then `MtReport`, `MtTransport`, `UserBalance` and their proofs.

What would come next: a lossy publish that joins `SmsTask` and `MtTransport`.
