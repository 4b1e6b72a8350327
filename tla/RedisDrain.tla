----------------------------- MODULE RedisDrain -----------------------------
(***************************************************************************)
(* A Redis list that producers rightPush to and a persistence worker       *)
(* drains into MySQL: SmsWaitTaskPersistenceWorker, and in the same shape  *)
(* SmsWaitSubmitPersistenceWorker, SmsWaitReceiptPersistenceWorker and the *)
(* MO and push workers.  One round of a worker is                          *)
(*     range 0 .. SCAN_BATCH_SIZE-1  ->  batch insert  ->  trim            *)
(* with a push of the whole batch to a failed list when the insert throws. *)
(* The three calls go to two servers and nothing joins them, so the worker *)
(* may be interrupted between any two: a Redis call that throws ends the   *)
(* round (run catches everything and loops), a crash ends it too.  WATCH   *)
(* guards nothing because no MULTI follows it.                             *)
(*                                                                         *)
(* SmsDbPersistenceRunner starts one worker per list in every instance of  *)
(* the service; all instances share the list.                              *)
(***************************************************************************)
EXTENDS Naturals, Sequences, FiniteSets

CONSTANTS
    Entries,        \* what may be pushed, each once
    Workers,        \* one worker per running instance of hssms
    BatchSize,      \* SCAN_BATCH_SIZE (1000 in the code)
    MaxFaults       \* bound: interrupted rounds and inserts of unknown outcome

ASSUME BatchAssumption == BatchSize \in Nat \ {0}
ASSUME FaultsAssumption == MaxFaults \in Nat

VARIABLES
    list,           \* the Redis list
    pc,             \* where each worker is in its round
    batch,          \* the `list` a worker read in this round
    rows,           \* how many rows the database holds for each entry
    failed,         \* how often each entry stands in the failed list
    pushed,         \* entries pushed so far (history)
    faults          \* interruptions and unknown outcomes so far (history)

vars == <<list, pc, batch, rows, failed, pushed, faults>>

Elements(s) == {s[i] : i \in 1 .. Len(s)}

\* LRANGE 0 BatchSize-1
FirstOf(s) == SubSeq(s, 1, IF Len(s) <= BatchSize THEN Len(s) ELSE BatchSize)

\* LTRIM n -1
Drop(s, n) == SubSeq(s, n + 1, Len(s))

Kept == {e \in Entries : rows[e] > 0 \/ failed[e] > 0}

AddOne(count, s) ==
    [e \in Entries |-> IF e \in Elements(s) THEN count[e] + 1 ELSE count[e]]

Init ==
    /\ list = << >>
    /\ pc = [w \in Workers |-> "scan"]
    /\ batch = [w \in Workers |-> << >>]
    /\ rows = [e \in Entries |-> 0]
    /\ failed = [e \in Entries |-> 0]
    /\ pushed = {}
    /\ faults = 0

\* Mutant of Push: leftPush.
PushFront(e) ==
    /\ e \notin pushed
    /\ list' = <<e>> \o list
    /\ pushed' = pushed \cup {e}
    /\ UNCHANGED <<pc, batch, rows, failed, faults>>

\* doPrepareTask, doSubmitFinished, doSmsException, ...: rightPush of one entry
Push(e) ==
    /\ e \notin pushed
    /\ list' = Append(list, e)
    /\ pushed' = pushed \cup {e}
    /\ UNCHANGED <<pc, batch, rows, failed, faults>>

\* range; an empty result ends the round
Scan(w) ==
    /\ pc[w] = "scan" /\ list # << >>
    /\ batch' = [batch EXCEPT ![w] = FirstOf(list)]
    /\ pc' = [pc EXCEPT ![w] = "save"]
    /\ UNCHANGED <<list, rows, failed, pushed, faults>>

\* batchSave commits and returns
Save(w) ==
    /\ pc[w] = "save"
    /\ rows' = AddOne(rows, batch[w])
    /\ pc' = [pc EXCEPT ![w] = "trim"]
    /\ UNCHANGED <<list, batch, failed, pushed, faults>>

\* Mutants of SaveFails: the insert was not in a transaction; the round is retried.
SaveFailsHalfWay(w) ==
    /\ pc[w] = "save"
    /\ rows' = AddOne(rows, batch[w])
    /\ pc' = [pc EXCEPT ![w] = "park"]
    /\ UNCHANGED <<list, batch, failed, pushed, faults>>
SaveFailsAndRetries(w) ==
    /\ pc[w] = "save"
    /\ pc' = [pc EXCEPT ![w] = "scan"]
    /\ batch' = [batch EXCEPT ![w] = << >>]
    /\ UNCHANGED <<list, rows, failed, pushed, faults>>

\* batchSave throws and its transaction is rolled back
SaveFails(w) ==
    /\ pc[w] = "save"
    /\ pc' = [pc EXCEPT ![w] = "park"]
    /\ UNCHANGED <<list, batch, rows, failed, pushed, faults>>

\* batchSave throws although its transaction was committed
SaveUnknown(w) ==
    /\ pc[w] = "save" /\ faults < MaxFaults
    /\ rows' = AddOne(rows, batch[w])
    /\ pc' = [pc EXCEPT ![w] = "park"]
    /\ faults' = faults + 1
    /\ UNCHANGED <<list, batch, failed, pushed>>

\* Mutant of Park: the failed list is not written.
ParkNowhere(w) ==
    /\ pc[w] = "park"
    /\ pc' = [pc EXCEPT ![w] = "trim"]
    /\ UNCHANGED <<list, batch, rows, failed, pushed, faults>>

\* rightPushAll to the failed list
Park(w) ==
    /\ pc[w] = "park"
    /\ failed' = AddOne(failed, batch[w])
    /\ pc' = [pc EXCEPT ![w] = "trim"]
    /\ UNCHANGED <<list, batch, rows, pushed, faults>>

\* Mutants of Trim: SCAN_BATCH_SIZE entries are removed, whatever was read; the
\* batch is kept for the next round.
TrimBatchSize(w) ==
    /\ pc[w] = "trim"
    /\ list' = Drop(list, BatchSize)
    /\ pc' = [pc EXCEPT ![w] = "scan"]
    /\ batch' = [batch EXCEPT ![w] = << >>]
    /\ UNCHANGED <<rows, failed, pushed, faults>>
TrimKeepingBatch(w) ==
    /\ pc[w] = "trim"
    /\ list' = Drop(list, Len(batch[w]))
    /\ pc' = [pc EXCEPT ![w] = "scan"]
    /\ UNCHANGED <<batch, rows, failed, pushed, faults>>

\* trim list.size() -1
Trim(w) ==
    /\ pc[w] = "trim"
    /\ list' = Drop(list, Len(batch[w]))
    /\ pc' = [pc EXCEPT ![w] = "scan"]
    /\ batch' = [batch EXCEPT ![w] = << >>]
    /\ UNCHANGED <<rows, failed, pushed, faults>>

\* A Redis call throws out of the round, or the instance stops and starts again.
Interrupt(w) ==
    /\ pc[w] # "scan" /\ faults < MaxFaults
    /\ pc' = [pc EXCEPT ![w] = "scan"]
    /\ batch' = [batch EXCEPT ![w] = << >>]
    /\ faults' = faults + 1
    /\ UNCHANGED <<list, rows, failed, pushed>>

Step(w) == Scan(w) \/ Save(w) \/ SaveFails(w) \/ SaveUnknown(w) \/ Park(w) \/ Trim(w)

Next ==
    \/ \E e \in Entries : Push(e)
    \/ \E w \in Workers : Step(w) \/ Interrupt(w)

Spec == Init /\ [][Next]_vars

\* The worker thread runs `while (true)`: it takes every next step it can.
FairSpec == Spec /\ \A w \in Workers : WF_vars(Step(w))
-----------------------------------------------------------------------------
\* Every variable has its type, and a worker holds a batch only inside a round.
TypeOK ==
    /\ list \in Seq(Entries)
    /\ pc \in [Workers -> {"scan", "save", "park", "trim"}]
    /\ batch \in [Workers -> Seq(Entries)]
    /\ \A w \in Workers : pc[w] = "scan" <=> batch[w] = << >>
    /\ rows \in [Entries -> Nat]
    /\ failed \in [Entries -> Nat]
    /\ pushed \subseteq Entries
    /\ faults \in 0 .. MaxFaults

\* What a worker read is still the head of the list when it writes and trims,
\* although producers push meanwhile: nobody but the worker removes entries.
BatchIsHead ==
    \A w \in Workers :
        /\ Len(batch[w]) <= Len(list)
        /\ batch[w] = SubSeq(list, 1, Len(batch[w]))

\* An entry that was pushed is in the list, in the database or in the failed
\* list, through failed inserts, failed Redis calls and crashes.
NothingLost == pushed \subseteq Elements(list) \cup Kept

\* The entry is out of the list, or about to be trimmed from it.
Handled(e) ==
    \/ e \notin Elements(list)
    \/ \E w \in Workers : pc[w] = "trim" /\ e \in Elements(batch[w])

\* An entry is stored or parked more than once only as often as a round was
\* interrupted or an insert ended unknown: without such a fault it is stored or
\* parked exactly once.
CopiesNeedFaults ==
    \A e \in Entries :
        rows[e] + failed[e] <= faults + (IF Handled(e) THEN 1 ELSE 0)

\* The worker's comment: trim removes the entries handled this time (line 60 of
\* SmsWaitSubmitPersistenceWorker).  A step may shorten the list only by entries
\* that are in the database or in the failed list.
TrimRemovesOnlyHandled ==
    [][Elements(list) \ Elements(list') \subseteq Kept]_vars

\* The list and its worker implement the at-least-once store.
Store == INSTANCE AtLeastOnceStore WITH
            accepted <- pushed, pending <- Elements(list), settled <- Kept
ImplementsStore == Store!Spec

\* Whatever is pushed ends up in the database or in the failed list, and leaves
\* the list.
EventuallyKept ==
    \A e \in Entries :
        e \in pushed ~> (e \in Kept /\ e \notin Elements(list))
=============================================================================
