--------------------------- MODULE MtReport_proofs ---------------------------
(***************************************************************************)
(* Proofs about the reports, for any messages, numbers, URLs, reports,     *)
(* retries and number of faults.                                           *)
(*                                                                         *)
(* The inductive invariant says that the compensation task took no more    *)
(* than the list still holds (TakesOK), that every report a handler has    *)
(* taken is still in its hands, or went back to the list beyond what the   *)
(* task took, or is safe (HandsOK), that the push thread records only what *)
(* it posted (PusherOK), and that a push row means a post (RowsTold).      *)
(*                                                                         *)
(* Counting posts adds that the messages of the broker carry different     *)
(* reports and a resting handler holds nothing (MessagesOK), and that the  *)
(* posts made and still to be made of a report stay within what the faults *)
(* allow (PostsOK).  The refinement of the at-least-once store adds that   *)
(* what a handler holds is in its message or was read from the list        *)
(* (HoldsOK).                                                              *)
(***************************************************************************)
EXTENDS MtReport, FiniteSetTheorems, TLAPS

AtMost(b, c) == \A r \in Reports : b[r] <= c[r]

\* The report is still to be matched, or about to be pushed to one of the lists.
InHand(x, r) ==
    \/ x.at \in {"record", "match"} /\ r \in In(x.todo)
    \/ x.at \in {"match", "park"} /\ r \in In(x.waits)
    \/ x.at \in {"match", "park", "queue"} /\ r \in In(x.out)
Safe(r) == r \in In(queue) \/ r \in In(pusher.todo) \/ Concluded(r)
Covered(h, r) == InHand(hand[h], r) \/ unmatched[r] > hand[h].took[r] \/ Safe(r)

TakesOK ==
    /\ \A h \in Listeners : hand[h].took = Nothing
    /\ \A h \in Handlers : AtMost(hand[h].took, unmatched)
HandsOK ==
    \A h \in Handlers : \A r \in Reports :
        r \in hand[h].source \/ r \in In(hand[h].took) => Covered(h, r)
PusherOK ==
    /\ AtMost(pusher.group, pusher.todo)
    /\ pusher.at = "read" => In(pusher.todo) = {}
    /\ pusher.at = "record" => \A r \in In(pusher.group) : posts[r] > 0
RowsTold ==
    \A k \in Keys : pushRow[k] # "none" => \E p \in Reports : keyOf[p] = k /\ posts[p] > 0

IInv == TypeOK /\ TakesOK /\ PusherOK /\ HandsOK /\ ReportIsSomewhere /\ RowsTold /\ DroppedWasTold
-----------------------------------------------------------------------------
(* Bags                                                                    *)

LEMMA BagTypes ==
    ASSUME NEW b \in Batch, NEW c \in Batch, NEW S
    PROVE  /\ Nothing \in Batch /\ Once(S) \in Batch
           /\ Join(b, c) \in Batch /\ Restricted(b, S) \in Batch
           /\ AtMost(c, b) => Less(b, c) \in Batch
           /\ AtMost(Restricted(b, S), b) /\ AtMost(Nothing, b)
BY DEF Batch, Nothing, Once, Join, Restricted, Less, AtMost

LEMMA BagElements ==
    ASSUME NEW b \in Batch, NEW c \in Batch, NEW S, NEW r \in Reports
    PROVE  /\ r \notin In(Nothing)
           /\ r \in In(Once(S)) <=> r \in S
           /\ r \in In(b) <=> b[r] > 0
           /\ Join(b, c)[r] = b[r] + c[r] /\ Less(b, c)[r] = b[r] - c[r]
           /\ r \in In(Join(b, c)) <=> r \in In(b) \/ r \in In(c)
           /\ r \in In(b) => r \in In(Less(b, c)) \/ r \in In(c)
BY DEF Batch, Nothing, Once, Join, Less, In

\* Taking one report out of a bag leaves the others in it.
LEMMA OneLess ==
    ASSUME NEW b \in Batch, NEW r \in In(b)
    PROVE  /\ r \in Reports
           /\ Less(b, Once({r})) \in Batch
           /\ \A q \in In(b) : q = r \/ q \in In(Less(b, Once({r})))
<1>1. r \in Reports /\ b[r] > 0
  BY DEF In
<1>2. Once({r}) \in Batch /\ AtMost(Once({r}), b)
  BY <1>1 DEF Once, Batch, AtMost
<1>3. \A q \in In(b) : q \in In(Less(b, Once({r}))) \/ q \in In(Once({r}))
  BY <1>2, BagElements DEF In
<1>4. \A q \in In(Once({r})) : q = r
  BY <1>2, BagElements DEF In, Once
<1> QED
  BY <1>1, <1>2, <1>3, <1>4, BagTypes

LEMMA Bounded ==
    /\ offered \in Scenarios => offered \subseteq Reports
    /\ \A r \in Reports : keyOf[r] \in Keys /\ MsgOf(r) \in Msgs
BY KeysAssumption, ReportsAssumption DEF MsgOf
-----------------------------------------------------------------------------
(* The hands                                                               *)

LEMMA IdleType == Idle \in Hand
BY BagTypes DEF Idle, Hand, Nothing, Batch

LEMMA TurnFacts ==
    ASSUME NEW x \in Hand, x.at = "match"
    PROVE  /\ Turn(x) \in Hand
           /\ Turn(x).source = x.source /\ Turn(x).took = x.took
           /\ \A r \in Reports : InHand(x, r) => InHand(Turn(x), r)
<1>1. CASE In(x.todo) # {}
  BY <1>1 DEF Turn
<1>2. CASE In(x.todo) = {}
  <2> DEFINE place == IF In(x.waits) # {} THEN "park" ELSE IF In(x.out) # {} THEN "queue" ELSE "end"
  <2>1. Turn(x) = [x EXCEPT !.at = place]
    BY <1>2 DEF Turn
  <2>2. place \in {"park", "queue", "end"}
    OBVIOUS
  <2>3. /\ Turn(x) \in Hand /\ Turn(x).at = place
        /\ Turn(x).source = x.source /\ Turn(x).took = x.took
        /\ Turn(x).todo = x.todo /\ Turn(x).waits = x.waits /\ Turn(x).out = x.out
    <3> HIDE DEF place
    <3> QED
      BY <2>1, <2>2 DEF Hand
  <2>4. \A r \in Reports : InHand(x, r) => InHand(Turn(x), r)
    BY <1>2, <2>3 DEF InHand
  <2> QED
    BY <2>3, <2>4
<1> QED
  BY <1>1, <1>2

LEMMA ParkedFacts ==
    ASSUME NEW x \in Hand, x.at = "park"
    PROVE  /\ Parked(x) \in Hand
           /\ Parked(x).source = x.source /\ Parked(x).took = x.took
           /\ \A r \in Reports : InHand(x, r) => InHand(Parked(x), r) \/ r \in In(x.waits)
<1> DEFINE place == IF In(x.out) # {} THEN "queue" ELSE "end"
<1>1. place \in {"queue", "end"}
  OBVIOUS
<1>2. /\ Parked(x) \in Hand /\ Parked(x).at = place
      /\ Parked(x).source = x.source /\ Parked(x).took = x.took
      /\ Parked(x).out = x.out
  <2>1. Parked(x) = [x EXCEPT !.at = place]
    BY DEF Parked
  <2> HIDE DEF place
  <2> QED
    BY <1>1, <2>1 DEF Hand
<1> QED
  BY <1>2 DEF InHand

\* What is left after one turn of the loop: the report waits, goes out, or neither.
LEMMA LoopFacts ==
    ASSUME TypeOK, NEW h \in Handlers, NEW r \in Reports, Matching(h, r),
           NEW y \in Hand, y.at = "match",
           y.source = hand[h].source, y.took = hand[h].took,
           y.todo = Less(hand[h].todo, Once({r})),
           \A q \in Reports : q \in In(hand[h].waits) => q \in In(y.waits),
           \A q \in Reports : q \in In(hand[h].out) => q \in In(y.out)
    PROVE  /\ Turn(y) \in Hand
           /\ Turn(y).source = hand[h].source /\ Turn(y).took = hand[h].took
           /\ \A q \in Reports : InHand(hand[h], q) => q = r \/ InHand(Turn(y), q)
           /\ r \in In(y.waits) \/ r \in In(y.out) => InHand(Turn(y), r)
<1>1. hand[h] \in Hand /\ hand[h].at = "match" /\ r \in In(hand[h].todo)
  BY DEF TypeOK, Matching
<1>2. \A q \in In(hand[h].todo) : q = r \/ q \in In(y.todo)
  BY <1>1, OneLess DEF Hand
<1>3. \A q \in Reports : InHand(hand[h], q) => q = r \/ InHand(y, q)
  BY <1>1, <1>2 DEF InHand
<1>4. r \in In(y.waits) \/ r \in In(y.out) => InHand(y, r)
  BY DEF InHand
<1> QED
  BY <1>3, <1>4, TurnFacts
-----------------------------------------------------------------------------
(* What the steps of the handlers do                                       *)

OutsideStep ==
    \/ \E m \in Msgs : ListSubmits(m) \/ ListSubmitsFails(m) \/ Expire(m)
    \/ \E k \in Keys : SetReady(k) \/ StoreSubmits(k)
HandStep(h) ==
    \/ Handle(h)
    \/ h = "failed" /\ ListFakeFails
    \/ ParkFails(h) \/ QueueOutFails(h) \/ CrashHandler(h)
PushStep == Push \/ CrashPusher \/ \E k \in Keys : StorePush(k)

LEMMA Steps ==
    ASSUME Next
    PROVE  \/ OutsideStep \/ PushStep
           \/ \E S \in SUBSET (offered \ came) : Arrive(S)
           \/ \E h \in Handlers : HandStep(h)
<1>1. ASSUME NEW m \in Msgs, Submitter(m) \/ Expire(m) \/ ListSubmitsFails(m)
      PROVE  OutsideStep
  BY <1>1 DEF Submitter, OutsideStep, KeysOf
<1>2. CASE Workers
  BY <1>2 DEF Workers, OutsideStep, PushStep
<1>3. ASSUME NEW h \in Handlers, Handle(h) \/ ParkFails(h) \/ QueueOutFails(h) \/ CrashHandler(h)
      PROVE  HandStep(h)
  BY <1>3 DEF HandStep
<1>4. CASE ListFakeFails
  <2>1. "failed" \in Handlers /\ HandStep("failed")
    BY <1>4 DEF HandStep, Handlers, Listeners
  <2> QED
    BY <2>1
<1>5. CASE Push \/ CrashPusher
  BY <1>5 DEF PushStep
<1> QED
  BY <1>1, <1>2, <1>3, <1>4, <1>5 DEF Next, Faults

\* A handler begins with everything it took in its hands; goes on with what it
\* had, or parks some of it, or made it safe; or is idle again.
Begins(h, x) ==
    /\ \A r \in Reports : r \in x.source \/ r \in In(x.took) => InHand(x, r)
    /\ x.took = Nothing \/ (h = "task" /\ x.took = unmatched)
    /\ unmatched' = unmatched
Goes(h, x) ==
    /\ x.source = hand[h].source /\ x.took = hand[h].took
    /\ \A r \in Reports : InHand(hand[h], r) => InHand(x, r) \/ Safe(r)'
    /\ unmatched' = unmatched
Parks(h, x) ==
    /\ x.source = hand[h].source /\ x.took = hand[h].took
    /\ \A r \in Reports : InHand(hand[h], r) => InHand(x, r) \/ r \in In(hand[h].waits)
    /\ unmatched' = Join(unmatched, hand[h].waits)
Ends(h, x) ==
    /\ x = Idle
    /\ \/ unmatched' = unmatched
       \/ h = "task" /\ hand[h].at = "end" /\ unmatched' = Less(unmatched, hand[h].took)
Shape(h, x) ==
    /\ hand' = [hand EXCEPT ![h] = x] /\ x \in Hand
    /\ Begins(h, x) \/ Goes(h, x) \/ Parks(h, x) \/ Ends(h, x)

LEMMA HandTypes ==
    ASSUME TypeOK, NEW h \in Handlers
    PROVE  /\ hand[h] \in Hand
           /\ hand[h].todo \in Batch /\ hand[h].waits \in Batch /\ hand[h].out \in Batch
           /\ hand[h].took \in Batch /\ hand[h].source \in SUBSET Reports
           /\ hand[h].known \in SUBSET Msgs
           /\ unmatched \in Batch /\ queue \in Batch /\ posts \in Batch
BY DEF TypeOK, Hand

LEMMA BeginShape ==
    ASSUME TypeOK, NEW h \in Handlers, Receive(h), hand[h].at = "idle"
    PROVE  \E x : Shape(h, x) \/ (h = "receipt" /\ hand' = hand /\ unmatched' = unmatched)
<1>1. CASE \E S \in receipts : h = "receipt" /\ PutAside(S)
  BY <1>1 DEF PutAside, pushing
<1>2. ASSUME NEW S \in receipts, h = "receipt", TakeReceipt(S)
      PROVE  \E x : Shape(h, x)
  <2> DEFINE x == [Idle EXCEPT !.at = "match", !.source = S, !.todo = Once(S)]
  <2>1. S \in SUBSET Reports
    BY DEF TypeOK
  <2>2. x \in Hand /\ x.at = "match" /\ x.source = S /\ x.todo = Once(S) /\ x.took = Nothing
    BY <2>1, BagTypes, IdleType DEF Idle, Hand, Nothing, Batch
  <2>3. \A r \in Reports : r \notin In(Nothing) /\ (r \in S => r \in In(Once(S)))
    BY BagTypes, BagElements, HandTypes
  <2>4. hand' = [hand EXCEPT ![h] = x] /\ unmatched' = unmatched
    BY <1>2 DEF TakeReceipt
  <2> HIDE DEF x
  <2>5. Begins(h, x)
    <3>1. ASSUME NEW r \in Reports, r \in x.source \/ r \in In(x.took)
          PROVE  r \in In(x.todo)
      BY <2>2, <2>3, <3>1
    <3>2. \A r \in Reports : r \in x.source \/ r \in In(x.took) => InHand(x, r)
      BY <2>2, <3>1 DEF InHand
    <3> QED
      BY <2>2, <2>4, <3>2 DEF Begins
  <2> QED
    BY <2>2, <2>4, <2>5 DEF Shape
<1>3. ASSUME NEW f \in Fakes, h = "failed", TakeFake(f)
      PROVE  \E x : Shape(h, x)
  <2> DEFINE x == [Idle EXCEPT !.at = "record", !.source = {f}, !.todo = Once({f})]
  <2>1. f \in Reports
    BY ReportsAssumption
  <2>2. x \in Hand /\ x.at = "record" /\ x.source = {f} /\ x.todo = Once({f}) /\ x.took = Nothing
    BY <2>1, BagTypes, IdleType DEF Idle, Hand, Nothing, Batch
  <2>3. \A r \in Reports : r \notin In(Nothing) /\ (r \in {f} => r \in In(Once({f})))
    BY BagTypes, BagElements, HandTypes
  <2>4. hand' = [hand EXCEPT ![h] = x] /\ unmatched' = unmatched
    BY <1>3 DEF TakeFake
  <2> HIDE DEF x
  <2>5. Begins(h, x)
    <3>1. ASSUME NEW r \in Reports, r \in x.source \/ r \in In(x.took)
          PROVE  r \in In(x.todo)
      BY <2>2, <2>3, <3>1
    <3>2. \A r \in Reports : r \in x.source \/ r \in In(x.took) => InHand(x, r)
      BY <2>2, <3>1 DEF InHand
    <3> QED
      BY <2>2, <2>4, <3>2 DEF Begins
  <2> QED
    BY <2>2, <2>4, <2>5 DEF Shape
<1>4. ASSUME h = "task", ReadUnmatched
      PROVE  \E x : Shape(h, x)
  <2> DEFINE x == [Idle EXCEPT !.at = "match", !.took = unmatched, !.todo = unmatched]
  <2>2. x \in Hand /\ x.at = "match" /\ x.source = {} /\ x.todo = unmatched /\ x.took = unmatched
    BY HandTypes, BagTypes, IdleType DEF Idle, Hand, Nothing, Batch
  <2>4. Begins(h, x)
    BY <1>4, <2>2 DEF Begins, InHand, ReadUnmatched
  <2> QED
    BY <1>4, <2>2, <2>4 DEF Shape, ReadUnmatched
<1>5. h = "failed" => ~ListFake
  BY DEF ListFake
<1> QED
  BY <1>1, <1>2, <1>3, <1>4, <1>5 DEF Receive

\* One turn of the loop: the report waits, goes out, or needs no push.
LEMMA LoopShape ==
    ASSUME TypeOK, NEW h \in Handlers, NEW r \in Reports,
           Found(h, r) \/ FoundPushed(h, r) \/ NotFound(h, r)
    PROVE  \E x : Shape(h, x)
<1> DEFINE H == hand[h]
           more == Join(H.out, Once({r}))
           wait == Join(H.waits, Once({r}))
<1>0. /\ Matching(h, r) /\ unmatched' = unmatched
      /\ H \in Hand /\ H.at = "match" /\ MsgOf(r) \in Msgs /\ r \in In(H.todo)
      /\ H.known \in SUBSET Msgs /\ Less(H.todo, Once({r})) \in Batch
      /\ H.out \in Batch /\ H.waits \in Batch
      /\ posts' = posts
  <2>1. Matching(h, r) /\ r \in In(H.todo) /\ H.at = "match" /\ unmatched' = unmatched /\ posts' = posts
    BY DEF Found, FoundPushed, NotFound, Matching, pushing
  <2> QED
    BY <2>1, HandTypes, OneLess, Bounded
<1>1. /\ more \in Batch /\ wait \in Batch
      /\ r \in In(more) /\ r \in In(wait)
      /\ \A q \in Reports : (q \in In(H.out) => q \in In(more)) /\ (q \in In(H.waits) => q \in In(wait))
  <2>1. Once({r}) \in Batch /\ r \in In(Once({r}))
    BY <1>0, BagTypes, BagElements
  <2> QED
    BY <1>0, <2>1, BagTypes, BagElements
<1> HIDE DEF more, wait
<1>2. CASE Found(h, r)
  <2> DEFINE out == IF MsgOf(r) \in wanted THEN more ELSE H.out
             y == [Done(h, r) EXCEPT !.known = @ \cup {MsgOf(r)}, !.out = out]
  <2>1. hand' = [hand EXCEPT ![h] = Turn(y)]
    BY <1>2 DEF Found, Done, more
  <2>2. out \in Batch /\ (\A q \in Reports : q \in In(H.out) => q \in In(out))
    BY <1>0, <1>1
  <2>3. MsgOf(r) \in wanted => r \in In(out)
    BY <1>1
  <2>4. MsgOf(r) \notin wanted => r \in dropped'
    BY <1>2 DEF Found
  <2> HIDE DEF out
  <2>5. /\ y \in Hand /\ y.at = "match" /\ y.source = H.source /\ y.took = H.took
        /\ y.todo = Less(H.todo, Once({r})) /\ y.waits = H.waits /\ y.out = out
    BY <1>0, <2>2 DEF Done, Hand
  <2> HIDE DEF y
  <2>9. /\ \A q \in Reports : q \in In(H.waits) => q \in In(y.waits)
        /\ \A q \in Reports : q \in In(H.out) => q \in In(y.out)
    BY <2>2, <2>5
  <2>6. /\ Turn(y) \in Hand /\ Turn(y).source = H.source /\ Turn(y).took = H.took
        /\ \A q \in Reports : InHand(H, q) => q = r \/ InHand(Turn(y), q)
        /\ r \in In(y.waits) \/ r \in In(y.out) => InHand(Turn(y), r)
    BY <1>0, <2>5, <2>9, LoopFacts
  <2>7. InHand(Turn(y), r) \/ Safe(r)'
    BY <2>3, <2>4, <2>5, <2>6 DEF Safe, Concluded
  <2>8. Goes(h, Turn(y))
    BY <1>0, <2>6, <2>7 DEF Goes
  <2> QED
    BY <2>1, <2>6, <2>8 DEF Shape
<1>3. CASE FoundPushed(h, r)
  <2> DEFINE y == Done(h, r)
  <2>1. hand' = [hand EXCEPT ![h] = Turn(y)] /\ r \in dropped'
    BY <1>3 DEF FoundPushed
  <2>5. /\ y \in Hand /\ y.at = "match" /\ y.source = H.source /\ y.took = H.took
        /\ y.todo = Less(H.todo, Once({r})) /\ y.waits = H.waits /\ y.out = H.out
    BY <1>0 DEF Done, Hand
  <2> HIDE DEF y
  <2>9. /\ \A q \in Reports : q \in In(H.waits) => q \in In(y.waits)
        /\ \A q \in Reports : q \in In(H.out) => q \in In(y.out)
    BY <2>5
  <2>6. /\ Turn(y) \in Hand /\ Turn(y).source = H.source /\ Turn(y).took = H.took
        /\ \A q \in Reports : InHand(H, q) => q = r \/ InHand(Turn(y), q)
    BY <1>0, <2>5, <2>9, LoopFacts
  <2>7. Safe(r)'
    BY <2>1 DEF Safe, Concluded
  <2>8. Goes(h, Turn(y))
    BY <1>0, <2>6, <2>7 DEF Goes
  <2> QED
    BY <2>1, <2>6, <2>8 DEF Shape
<1>4. CASE NotFound(h, r)
  <2> DEFINE y == [Done(h, r) EXCEPT !.waits = wait]
  <2>1. hand' = [hand EXCEPT ![h] = Turn(y)]
    BY <1>4 DEF NotFound, Done, wait
  <2>5. /\ y \in Hand /\ y.at = "match" /\ y.source = H.source /\ y.took = H.took
        /\ y.todo = Less(H.todo, Once({r})) /\ y.waits = wait /\ y.out = H.out
    BY <1>0, <1>1 DEF Done, Hand
  <2> HIDE DEF y
  <2>9. /\ \A q \in Reports : q \in In(H.waits) => q \in In(y.waits)
        /\ \A q \in Reports : q \in In(H.out) => q \in In(y.out)
    BY <1>1, <2>5
  <2>6. /\ Turn(y) \in Hand /\ Turn(y).source = H.source /\ Turn(y).took = H.took
        /\ \A q \in Reports : InHand(H, q) => q = r \/ InHand(Turn(y), q)
        /\ r \in In(y.waits) \/ r \in In(y.out) => InHand(Turn(y), r)
    BY <1>0, <2>5, <2>9, LoopFacts
  <2>7. InHand(Turn(y), r)
    BY <1>1, <2>5, <2>6
  <2>8. Goes(h, Turn(y))
    BY <1>0, <2>6, <2>7 DEF Goes
  <2> QED
    BY <2>1, <2>6, <2>8 DEF Shape
<1> QED
  BY <1>2, <1>3, <1>4

LEMMA PushShape ==
    ASSUME TypeOK, NEW h \in Handlers,
           Park(h) \/ ParkFails(h) \/ QueueOut(h) \/ QueueOutFails(h)
    PROVE  \E x : Shape(h, x)
<1> DEFINE H == hand[h]
<1>0. H \in Hand /\ H.waits \in Batch /\ H.out \in Batch
  BY HandTypes
<1>1. CASE Park(h) \/ ParkFails(h)
  <2>1. H.at = "park" /\ hand' = [hand EXCEPT ![h] = Parked(H)]
    BY <1>1 DEF Park, ParkFails
  <2>2. /\ Parked(H) \in Hand /\ Parked(H).source = H.source /\ Parked(H).took = H.took
        /\ \A r \in Reports : InHand(H, r) => InHand(Parked(H), r) \/ r \in In(H.waits)
    BY <1>0, <2>1, ParkedFacts
  <2>3. CASE Park(h)
    BY <2>1, <2>2, <2>3 DEF Shape, Parks, Park
  <2>4. CASE ParkFails(h)
    <3>1. \A r \in In(H.waits) : Safe(r)'
      BY <2>4 DEF ParkFails, Safe, Concluded
    <3>2. Goes(h, Parked(H))
      BY <2>2, <2>4, <3>1 DEF Goes, ParkFails
    <3> QED
      BY <2>1, <2>2, <3>2 DEF Shape
  <2> QED
    BY <1>1, <2>3, <2>4
<1>2. CASE QueueOut(h) \/ QueueOutFails(h)
  <2> DEFINE x == [H EXCEPT !.at = "end"]
  <2>1. H.at = "queue" /\ hand' = [hand EXCEPT ![h] = x] /\ unmatched' = unmatched
    BY <1>2 DEF QueueOut, QueueOutFails
  <2>2. x \in Hand /\ x.source = H.source /\ x.took = H.took
    BY <1>0 DEF Hand
  <2> HIDE DEF x
  <2>3. \A r \in Reports : InHand(H, r) => r \in In(H.out)
    BY <2>1 DEF InHand
  <2>4. \A r \in In(H.out) : Safe(r)'
    <3>1. CASE QueueOut(h)
      <4>1. \A r \in In(H.out) : r \in In(Join(queue, H.out))
        BY <1>0, HandTypes, BagElements DEF In
      <4> QED
        BY <3>1, <4>1 DEF QueueOut, Safe
    <3>2. CASE QueueOutFails(h)
      BY <3>2 DEF QueueOutFails, Safe, Concluded
    <3> QED
      BY <1>2, <3>1, <3>2
  <2>5. Goes(h, x)
    BY <2>1, <2>2, <2>3, <2>4 DEF Goes
  <2> QED
    BY <2>1, <2>2, <2>5 DEF Shape
<1> QED
  BY <1>1, <1>2

LEMMA EndShape ==
    ASSUME TypeOK, NEW h \in Handlers,
           \/ Acknowledge(h) \/ CrashHandler(h)
           \/ h = "task" /\ TrimUnmatched
           \/ h = "failed" /\ ListFakeFails
    PROVE  \E x : Shape(h, x)
<1>1. hand' = [hand EXCEPT ![h] = Idle] /\ Ends(h, Idle)
  BY DEF Acknowledge, CrashHandler, TrimUnmatched, ListFakeFails, Ends
<1> QED
  BY <1>1, IdleType DEF Shape

LEMMA HandShape ==
    ASSUME TypeOK, NEW h \in Handlers, HandStep(h)
    PROVE  (\E x : Shape(h, x)) \/ (hand' = hand /\ unmatched' = unmatched)
<1>1. CASE h = "failed" /\ ListFake
  <2> DEFINE x == [hand[h] EXCEPT !.at = "match"]
  <2>1. hand[h].at = "record" /\ hand' = [hand EXCEPT ![h] = x] /\ unmatched' = unmatched
    BY <1>1 DEF ListFake
  <2>2. x \in Hand /\ x.source = hand[h].source /\ x.took = hand[h].took /\ x.at = "match"
        /\ x.todo = hand[h].todo
    BY HandTypes DEF Hand
  <2> HIDE DEF x
  <2>3. \A r \in Reports : InHand(hand[h], r) => InHand(x, r)
    BY <2>1, <2>2 DEF InHand
  <2> QED
    BY <2>1, <2>2, <2>3 DEF Shape, Goes
<1>2. CASE Receive(h) /\ ~(h = "failed" /\ ListFake)
  <2>1. hand[h].at = "idle"
    BY <1>2 DEF Receive, PutAside, TakeReceipt, TakeFake, ReadUnmatched
  <2> QED
    BY <1>2, <2>1, BeginShape
<1>3. CASE \E r \in Reports : Found(h, r) \/ FoundPushed(h, r) \/ NotFound(h, r)
  BY <1>3, LoopShape
<1>4. CASE Park(h) \/ ParkFails(h) \/ QueueOut(h) \/ QueueOutFails(h)
  BY <1>4, PushShape
<1>5. CASE \/ Acknowledge(h) \/ CrashHandler(h) \/ (h = "task" /\ TrimUnmatched)
           \/ (h = "failed" /\ ListFakeFails)
  BY <1>5, EndShape
<1> QED
  BY <1>1, <1>2, <1>3, <1>4, <1>5 DEF HandStep, Handle
-----------------------------------------------------------------------------
(* What the steps outside and of the push thread do                        *)

\* Neither reports nor what became of them are touched.
Quiet ==
    UNCHANGED <<wanted, offered, came, receipts, unmatched, hand, queue, pusher, pushRow, posts,
                dropped, aside, lost>>

LEMMA OutsideQuiet ==
    ASSUME OutsideStep
    PROVE  Quiet
<1>1. ASSUME NEW m \in Msgs, ListSubmits(m) \/ ListSubmitsFails(m) \/ Expire(m)
      PROVE  Quiet
  BY <1>1 DEF ListSubmits, ListSubmitsFails, FinishSubmit, Expire, Quiet, fixed, submitting,
              pushing, outcome
<1>2. ASSUME NEW k \in Keys, SetReady(k) \/ StoreSubmits(k)
      PROVE  Quiet
  BY <1>2 DEF SetReady, StoreSubmits, Quiet, fixed, pushing, outcome
<1> QED
  BY <1>1, <1>2 DEF OutsideStep

\* The next group is part of the batch that is left.
LEMMA GroupFacts ==
    ASSUME NEW left \in Batch, NEW x \in NextGroup(left)
    PROVE  /\ x \in Pusher /\ AtMost(x.group, x.todo)
           /\ x.at \in {"read", "post"}
           /\ x.at = "read" => In(x.todo) = {}
           /\ \A r \in Reports : r \in In(left) => r \in In(x.todo)
<1> USE BoundsAssumption
<1>1. CASE In(left) = {}
  <2>1. x = Resting /\ In(Nothing) = {}
    BY <1>1, BagTypes, BagElements DEF NextGroup, In
  <2> QED
    BY <1>1, <2>1, BagTypes DEF Resting, Pusher
<1>2. CASE In(left) # {}
  <2>1. PICK p \in In(left) :
            x = [at |-> "post", todo |-> left, attempt |-> 1,
                 group |-> Restricted(left, {r \in Reports : urlOf[MsgOf(r)] = urlOf[MsgOf(p)]})]
    BY <1>2 DEF NextGroup
  <2> DEFINE S == {r \in Reports : urlOf[MsgOf(r)] = urlOf[MsgOf(p)]}
  <2>2. x.at = "post" /\ x.todo = left /\ x.group = Restricted(left, S)
    BY <2>1
  <2>3. Restricted(left, S) \in Batch /\ AtMost(Restricted(left, S), left)
    BY BagTypes
  <2>4. x \in Pusher
    BY <2>1, <2>3 DEF Pusher
  <2> QED
    BY <2>2, <2>3, <2>4
<1> QED
  BY <1>1, <1>2

LEMMA PusherTypes ==
    ASSUME TypeOK, PusherOK
    PROVE  /\ pusher \in Pusher /\ pusher.todo \in Batch /\ pusher.group \in Batch
           /\ queue \in Batch /\ posts \in Batch
           /\ Less(pusher.todo, pusher.group) \in Batch
<1>1. /\ pusher \in Pusher /\ pusher.todo \in Batch /\ pusher.group \in Batch
      /\ queue \in Batch /\ posts \in Batch
  BY DEF TypeOK, Pusher
<1> QED
  BY <1>1, BagTypes DEF PusherOK

LEMMA PusherStep ==
    ASSUME TypeOK, PusherOK, Next
    PROVE  PusherOK' /\ pusher' \in Pusher /\ queue' \in Batch /\ posts' \in Batch
           /\ \A r \in Reports : posts[r] > 0 => posts'[r] > 0
<1>0. /\ pusher \in Pusher /\ pusher.todo \in Batch /\ pusher.group \in Batch
      /\ queue \in Batch /\ posts \in Batch
      /\ Less(pusher.todo, pusher.group) \in Batch
  BY PusherTypes
<1>1. CASE TakeQueue \/ Record
  <2>1. PICK left \in Batch : pusher' \in NextGroup(left)
    BY <1>0, <1>1 DEF TakeQueue, Record
  <2>2. /\ pusher' \in Pusher /\ AtMost(pusher'.group, pusher'.todo)
        /\ pusher'.at \in {"read", "post"} /\ (pusher'.at = "read" => In(pusher'.todo) = {})
    BY <2>1, GroupFacts
  <2>3. posts' = posts /\ queue' \in Batch
    BY <1>0, <1>1, BagTypes DEF TakeQueue, Record
  <2> QED
    BY <1>0, <2>2, <2>3 DEF PusherOK
<1>2. CASE Post
  <2>1. posts' \in Batch /\ queue' = queue
    BY <1>0, <1>2, BagTypes DEF Post
  <2>2. \A r \in Reports : posts'[r] = posts[r] + pusher.group[r]
    BY <1>0, <1>2, BagElements DEF Post
  <2>3. \A r \in In(pusher.group) : posts'[r] > 0
    BY <1>0, <2>2 DEF In, Batch
  <2>4. \A r \in Reports : posts[r] > 0 => posts'[r] > 0
    BY <1>0, <2>2 DEF Batch
  <2>5. /\ pusher' \in Pusher /\ pusher'.at \in {"record", "post"}
        /\ pusher'.todo = pusher.todo /\ pusher'.group = pusher.group
    <3>1. CASE pusher' = [pusher EXCEPT !.at = "record"]
      BY <1>0, <3>1 DEF Pusher
    <3>2. CASE pusher.attempt <= RetryTimes /\ pusher' = [pusher EXCEPT !.attempt = @ + 1]
      BY <1>0, <1>2, <3>2, BoundsAssumption DEF Pusher, Post
    <3> QED
      BY <1>2, <3>1, <3>2 DEF Post
  <2>6. AtMost(pusher.group, pusher.todo)
    BY DEF PusherOK
  <2> QED
    BY <1>0, <2>1, <2>3, <2>4, <2>5, <2>6 DEF PusherOK
<1>3. CASE CrashPusher
  <2>1. pusher' = Resting /\ queue' = queue /\ posts' = posts
    BY <1>3 DEF CrashPusher
  <2>2. Nothing \in Batch /\ In(Nothing) = {} /\ AtMost(Nothing, Nothing)
    BY DEF Nothing, Batch, In, AtMost
  <2>3. Resting \in Pusher
    BY <2>2, BoundsAssumption DEF Resting, Pusher
  <2> QED
    BY <1>0, <2>1, <2>2, <2>3 DEF PusherOK, Resting
<1>4. ASSUME NEW h \in Handlers, HandStep(h)
      PROVE  pusher' = pusher /\ posts' = posts /\ queue' \in Batch
  <2>1. CASE QueueOut(h)
    BY <1>0, <2>1, HandTypes, BagTypes DEF QueueOut
  <2>2. CASE ~QueueOut(h)
    BY <1>0, <1>4, <2>2
       DEF HandStep, Handle, Receive, PutAside, TakeReceipt, TakeFake, ReadUnmatched, ListFake,
           Found, FoundPushed, NotFound, Matching, Park, Acknowledge, TrimUnmatched,
           ListFakeFails, ParkFails, QueueOutFails, CrashHandler, pushing
  <2> QED
    BY <2>1, <2>2
<1>5. CASE Quiet \/ \E S \in SUBSET (offered \ came) : Arrive(S)
  <2>1. pusher' = pusher /\ posts' = posts /\ queue' = queue
    BY <1>5 DEF Quiet, Arrive, pushing
  <2> QED
    BY <1>0, <2>1 DEF PusherOK
<1>6. CASE \E k \in Keys : StorePush(k)
  <2>1. pusher' = pusher /\ posts' = posts /\ queue' = queue
    BY <1>6 DEF StorePush
  <2> QED
    BY <1>0, <2>1 DEF PusherOK
<1>7. ASSUME NEW h \in Handlers, HandStep(h)
      PROVE  PusherOK'
  BY <1>4, <1>7 DEF PusherOK
<1> QED
  BY <1>0, <1>1, <1>2, <1>3, <1>4, <1>5, <1>6, <1>7, Steps, OutsideQuiet DEF PushStep, Push

\* What is safe stays safe.
LEMMA SafeStep ==
    ASSUME TypeOK, PusherOK, Next, NEW r \in Reports, Safe(r)
    PROVE  Safe(r)'
<1>0. /\ pusher \in Pusher /\ pusher.todo \in Batch /\ pusher.group \in Batch
      /\ queue \in Batch /\ posts \in Batch
      /\ Less(pusher.todo, pusher.group) \in Batch
  BY PusherTypes
<1>1. CASE TakeQueue
  <2>1. r \in In(queue) => r \in In(pusher'.todo)
    BY <1>0, <1>1, GroupFacts DEF TakeQueue
  <2>2. In(pusher.todo) = {}
    BY <1>1 DEF TakeQueue, PusherOK
  <2> QED
    BY <1>1, <2>1, <2>2 DEF TakeQueue, Safe, Concluded, outcome
<1>2. CASE Post
  <2>1. pusher'.todo = pusher.todo
    BY <1>0, <1>2 DEF Post, Pusher
  <2>2. posts[r] > 0 => posts'[r] > 0
    BY PusherStep
  <2> QED
    BY <1>2, <2>1, <2>2 DEF Post, Safe, Concluded, outcome
<1>3. CASE Record
  <2>1. r \in In(Less(pusher.todo, pusher.group)) => r \in In(pusher'.todo)
    BY <1>0, <1>3, GroupFacts DEF Record
  <2>2. r \in In(pusher.todo) =>
            r \in In(Less(pusher.todo, pusher.group)) \/ r \in In(pusher.group)
    BY <1>0, BagElements
  <2>3. r \in In(pusher.group) => posts[r] > 0
    BY <1>3 DEF Record, PusherOK
  <2> QED
    BY <1>3, <2>1, <2>2, <2>3 DEF Record, Safe, Concluded, outcome
<1>4. CASE CrashPusher
  BY <1>4 DEF CrashPusher, Safe, Concluded
<1>5. ASSUME NEW h \in Handlers, HandStep(h)
      PROVE  Safe(r)'
  <2>1. CASE QueueOut(h)
    <3>1. r \in In(queue) => r \in In(queue')
      <4>1. hand[h].out \in Batch /\ queue' = Join(queue, hand[h].out)
        BY <2>1, HandTypes DEF QueueOut
      <4> QED
        BY <1>0, <4>1, BagElements
    <3> QED
      BY <2>1, <3>1 DEF QueueOut, Safe, Concluded, outcome
  <2>2. CASE ~QueueOut(h)
    BY <1>5, <2>2
       DEF HandStep, Handle, Receive, PutAside, TakeReceipt, TakeFake, ReadUnmatched, ListFake,
           Found, FoundPushed, NotFound, Matching, Park, Acknowledge, TrimUnmatched,
           ListFakeFails, ParkFails, QueueOutFails, CrashHandler, pushing, outcome, Safe, Concluded
  <2> QED
    BY <2>1, <2>2
<1>6. CASE Quiet \/ (\E S \in SUBSET (offered \ came) : Arrive(S)) \/ (\E k \in Keys : StorePush(k))
  BY <1>6 DEF Quiet, Arrive, StorePush, pushing, outcome, Safe, Concluded
<1> QED
  BY <1>1, <1>2, <1>3, <1>4, <1>5, <1>6, Steps, OutsideQuiet DEF PushStep, Push
-----------------------------------------------------------------------------
(* Types                                                                   *)

\* A step of no handler leaves the hands and the compensation list alone.
LEMMA HandOrFrame ==
    ASSUME TypeOK, Next
    PROVE  \/ \E h \in Handlers : HandStep(h) /\ \E x : Shape(h, x)
           \/ hand' = hand /\ unmatched' = unmatched
<1>1. CASE PushStep
  BY <1>1 DEF PushStep, Push, TakeQueue, Post, Record, CrashPusher, StorePush
<1>2. CASE OutsideStep
  BY <1>2, OutsideQuiet DEF Quiet
<1>3. CASE \E S \in SUBSET (offered \ came) : Arrive(S)
  BY <1>3 DEF Arrive
<1>4. ASSUME NEW h \in Handlers, HandStep(h)
      PROVE  (HandStep(h) /\ \E x : Shape(h, x)) \/ (hand' = hand /\ unmatched' = unmatched)
  BY <1>4, HandShape
<1> QED
  BY <1>1, <1>2, <1>3, <1>4, Steps

LEMMA ShapeTypes ==
    ASSUME TypeOK, TakesOK, NEW h \in Handlers, NEW x, Shape(h, x)
    PROVE  /\ hand' \in [Handlers -> Hand] /\ unmatched' \in Batch
           /\ \A g \in Handlers \ {h} : hand'[g] = hand[g]
           /\ hand'[h] = x
           /\ \A r \in Reports :
                  \/ unmatched'[r] >= unmatched[r]
                  \/ /\ h = "task" /\ hand[h].at = "end" /\ x = Idle
                     /\ unmatched'[r] = unmatched[r] - hand[h].took[r]
           /\ AtMost(x.took, unmatched')
<1>1. /\ hand \in [Handlers -> Hand] /\ unmatched \in Batch /\ hand[h] \in Hand
      /\ hand[h].took \in Batch /\ hand[h].waits \in Batch /\ AtMost(hand[h].took, unmatched)
  BY HandTypes DEF TypeOK, TakesOK
<1>2. /\ hand' \in [Handlers -> Hand]
      /\ \A g \in Handlers \ {h} : hand'[g] = hand[g]
      /\ hand'[h] = x
  BY <1>1 DEF Shape
<1>3. CASE Begins(h, x)
  BY <1>1, <1>2, <1>3 DEF Begins, Batch, AtMost, Nothing
<1>4. CASE Goes(h, x)
  BY <1>1, <1>2, <1>4 DEF Goes, Batch, AtMost
<1>5. CASE Parks(h, x)
  <2>1. unmatched' \in Batch /\ x.took = hand[h].took
    BY <1>1, <1>5, BagTypes DEF Parks
  <2>2. \A r \in Reports : unmatched'[r] = unmatched[r] + hand[h].waits[r]
    BY <1>1, <1>5, BagElements DEF Parks
  <2>3. \A r \in Reports : unmatched'[r] >= unmatched[r] /\ hand[h].took[r] <= unmatched'[r]
    BY <1>1, <2>2 DEF Batch, AtMost
  <2> QED
    BY <1>2, <2>1, <2>3 DEF AtMost
<1>6. CASE Ends(h, x)
  <2>1. x.took = Nothing
    BY <1>6 DEF Ends, Idle
  <2>2. unmatched' \in Batch
    BY <1>1, <1>6, BagTypes DEF Ends
  <2>3. AtMost(x.took, unmatched')
    BY <2>1, <2>2 DEF AtMost, Nothing, Batch
  <2>4. CASE unmatched' = unmatched
    BY <1>1, <1>2, <2>2, <2>3, <2>4 DEF Batch
  <2>5. CASE h = "task" /\ hand[h].at = "end" /\ unmatched' = Less(unmatched, hand[h].took)
    <3>1. \A r \in Reports : unmatched'[r] = unmatched[r] - hand[h].took[r]
      BY <1>1, <2>5, BagElements
    <3> QED
      BY <1>2, <1>6, <2>2, <2>3, <2>5, <3>1 DEF Ends
  <2> QED
    BY <1>6, <2>4, <2>5 DEF Ends
<1> QED
  BY <1>3, <1>4, <1>5, <1>6 DEF Shape

LEMMA TakesStep ==
    ASSUME TypeOK, TakesOK, Next
    PROVE  TakesOK'
<1>1. ASSUME NEW h \in Handlers, NEW x, Shape(h, x)
      PROVE  TakesOK'
  <2>1. unmatched' \in Batch /\ unmatched \in Batch
    BY <1>1, ShapeTypes, HandTypes
  <2>2. ASSUME NEW g \in Handlers, g # h
        PROVE  AtMost(hand'[g].took, unmatched')
    <3>1. hand'[g] = hand[g] /\ hand[g].took \in Batch /\ AtMost(hand[g].took, unmatched)
      BY <1>1, <2>2, ShapeTypes, HandTypes DEF TakesOK
    <3>2. CASE h = "task"
      <4>1. hand[g].took = Nothing
        BY <2>2, <3>2 DEF TakesOK, Handlers
      <4> QED
        BY <2>1, <3>1, <4>1 DEF AtMost, Nothing, Batch
    <3>3. CASE h # "task"
      <4>1. \A r \in Reports : unmatched'[r] >= unmatched[r]
        BY <1>1, <3>3, ShapeTypes
      <4> QED
        BY <2>1, <3>1, <4>1 DEF AtMost, Batch
    <3> QED
      BY <3>2, <3>3
  <2>3. AtMost(hand'[h].took, unmatched')
    BY <1>1, ShapeTypes
  <2>4. ASSUME NEW g \in Listeners
        PROVE  hand'[g].took = Nothing
    <3>1. g \in Handlers /\ g # "task" /\ hand[g].took = Nothing
      BY DEF Handlers, Listeners, TakesOK
    <3>2. CASE g = h
      <4>1. x.took = Nothing
        BY <1>1, <3>1, <3>2 DEF Shape, Begins, Goes, Parks, Ends, Idle
      <4> QED
        BY <1>1, <3>2, <4>1, ShapeTypes
    <3> QED
      BY <1>1, <3>1, <3>2, ShapeTypes
  <2> QED
    BY <2>2, <2>3, <2>4 DEF TakesOK
<1>2. CASE hand' = hand /\ unmatched' = unmatched
  BY <1>2 DEF TakesOK
<1> QED
  BY <1>1, <1>2, HandOrFrame

LEMMA FaultType ==
    ASSUME TypeOK, offered' = offered, Fault \/ faults' = faults
    PROVE  faults' \in 0 .. MaxFaults[offered']
BY BoundsAssumption DEF TypeOK, Fault

LEMMA RecordedType ==
    ASSUME TypeOK, NEW S
    PROVE  Recorded(S) \in [Keys -> {"none", "listed", "stored"}]
BY DEF TypeOK, Recorded

LEMMA HandRestType ==
    ASSUME TypeOK, NEW h \in Handlers, HandStep(h)
    PROVE  /\ UNCHANGED <<wanted, offered, came, step, pushRow>>
           /\ record' \in [Keys -> {"none", "listed", "stored"}]
           /\ ready' \subseteq Keys /\ receipts' \subseteq SUBSET Reports
           /\ dropped' \subseteq Reports /\ aside' \subseteq Reports /\ lost' \subseteq Reports
           /\ faults' \in 0 .. MaxFaults[offered']
<1>0. /\ hand[h].waits \in Batch /\ hand[h].out \in Batch /\ hand[h].source \in SUBSET Reports
      /\ record \in [Keys -> {"none", "listed", "stored"}]
      /\ ready \subseteq Keys /\ receipts \subseteq SUBSET Reports
      /\ dropped \subseteq Reports /\ aside \subseteq Reports /\ lost \subseteq Reports
      /\ \A b : In(b) \subseteq Reports
  BY HandTypes DEF TypeOK, In
<1>1. CASE \/ h = "task" /\ (ReadUnmatched \/ TrimUnmatched)
           \/ Park(h) \/ QueueOut(h) \/ CrashHandler(h)
  <2>1. /\ UNCHANGED <<wanted, offered, came, step, record, ready, receipts, pushRow, dropped, aside, lost>>
        /\ Fault \/ faults' = faults
    BY <1>1 DEF ReadUnmatched, TrimUnmatched, Park, QueueOut, CrashHandler, submitting, pushing, outcome
  <2> QED
    BY <1>0, <2>1, FaultType
<1>2. CASE ParkFails(h) \/ QueueOutFails(h)
  <2>1. /\ UNCHANGED <<wanted, offered, came, step, record, ready, receipts, pushRow, dropped, aside>>
        /\ Fault
        /\ lost' = lost \cup In(hand[h].waits) \/ lost' = lost \cup In(hand[h].out)
    BY <1>2 DEF ParkFails, QueueOutFails, submitting, pushing
  <2> QED
    BY <1>0, <2>1, FaultType
<1>3. ASSUME NEW r \in Reports, Found(h, r) \/ FoundPushed(h, r) \/ NotFound(h, r)
      PROVE  /\ UNCHANGED <<wanted, offered, came, step, record, receipts, pushRow, aside, lost, faults>>
             /\ ready' \subseteq Keys /\ dropped' \subseteq Reports
  BY <1>0, <1>3 DEF Found, FoundPushed, NotFound, Matching, submitting, pushing
<1>4. CASE Acknowledge(h)
  <2>1. /\ UNCHANGED <<wanted, offered, came, step, record, ready, pushRow, dropped, lost>>
        /\ Fault \/ faults' = faults
        /\ receipts' \subseteq SUBSET Reports /\ aside' \subseteq Reports
    BY <1>0, <1>4 DEF Acknowledge, submitting, pushing
  <2> QED
    BY <1>0, <2>1, FaultType
<1>5. ASSUME NEW S \in receipts, PutAside(S) \/ TakeReceipt(S)
      PROVE  /\ UNCHANGED <<wanted, offered, came, step, record, ready, pushRow, dropped, lost, faults>>
             /\ receipts' \subseteq SUBSET Reports /\ aside' \subseteq Reports
  BY <1>0, <1>5 DEF PutAside, TakeReceipt, submitting, pushing, outcome
<1>6. ASSUME NEW f \in Fakes, TakeFake(f)
      PROVE  /\ UNCHANGED <<wanted, offered, came, step, record, receipts, pushRow, dropped, aside, lost>>
             /\ ready' \subseteq Keys /\ (Fault \/ faults' = faults)
  <2>1. f \in Reports /\ keyOf[f] \in Keys
    BY ReportsAssumption
  <2> QED
    BY <1>0, <1>6, <2>1 DEF TakeFake, submitting, pushing
<1>7. CASE ListFake
  <2>1. /\ UNCHANGED <<wanted, offered, came, step, ready, receipts, pushRow, dropped, aside, lost, faults>>
        /\ record' \in [Keys -> {"none", "listed", "stored"}]
    BY <1>7, RecordedType DEF ListFake, fixed, pushing, outcome
  <2> QED
    BY <1>0, <2>1, FaultType
<1>8. CASE h = "failed" /\ ListFakeFails
  <2>1. /\ UNCHANGED <<wanted, offered, came, step, record, ready, pushRow, dropped, aside>>
        /\ Fault
        /\ receipts' \subseteq SUBSET Reports /\ lost' \subseteq Reports
    BY <1>0, <1>8 DEF ListFakeFails, submitting, pushing
  <2> QED
    BY <1>0, <2>1, FaultType
<1>9. CASE \E r \in Reports : Found(h, r) \/ FoundPushed(h, r) \/ NotFound(h, r)
  BY <1>0, <1>3, <1>9, FaultType
<1>10. CASE Receive(h)
  BY <1>0, <1>1, <1>5, <1>6, <1>7, <1>10, FaultType DEF Receive
<1> QED
  BY <1>1, <1>2, <1>4, <1>8, <1>9, <1>10 DEF HandStep, Handle

LEMMA OtherRestType ==
    ASSUME TypeOK,
           OutsideStep \/ PushStep \/ \E S \in SUBSET (offered \ came) : Arrive(S)
    PROVE  /\ UNCHANGED <<wanted, offered>> /\ came' \subseteq offered
           /\ step' \in [Keys -> {"sent", "set", "finished"}]
           /\ record' \in [Keys -> {"none", "listed", "stored"}]
           /\ ready' \subseteq Keys /\ receipts' \subseteq SUBSET Reports
           /\ pushRow' \in [Keys -> {"none", "listed", "stored"}]
           /\ dropped' \subseteq Reports /\ aside' \subseteq Reports /\ lost' \subseteq Reports
           /\ faults' \in 0 .. MaxFaults[offered']
<1>0. /\ came \subseteq offered /\ offered \subseteq Reports
      /\ step \in [Keys -> {"sent", "set", "finished"}]
      /\ record \in [Keys -> {"none", "listed", "stored"}]
      /\ ready \subseteq Keys /\ receipts \subseteq SUBSET Reports
      /\ pushRow \in [Keys -> {"none", "listed", "stored"}]
      /\ dropped \subseteq Reports /\ aside \subseteq Reports /\ lost \subseteq Reports
      /\ \A b : In(b) \subseteq Reports
  BY Bounded DEF TypeOK, In
<1>1. ASSUME NEW m \in Msgs, ListSubmits(m) \/ ListSubmitsFails(m)
      PROVE  /\ step' \in [Keys -> {"sent", "set", "finished"}]
             /\ record' \in [Keys -> {"none", "listed", "stored"}]
             /\ UNCHANGED ready /\ (Fault \/ faults' = faults)
  BY <1>0, <1>1, RecordedType DEF ListSubmits, ListSubmitsFails, FinishSubmit
<1>2. ASSUME NEW m \in Msgs, Expire(m)
      PROVE  UNCHANGED <<step, record, faults>> /\ ready' \subseteq Keys
  BY <1>0, <1>2 DEF Expire, submitting, outcome
<1>3. ASSUME NEW k \in Keys, SetReady(k) \/ StoreSubmits(k)
      PROVE  /\ step' \in [Keys -> {"sent", "set", "finished"}]
             /\ record' \in [Keys -> {"none", "listed", "stored"}]
             /\ ready' \subseteq Keys /\ (Fault \/ faults' = faults)
  BY <1>0, <1>3 DEF SetReady, StoreSubmits, outcome
<1>4. CASE OutsideStep
  <2>1. Quiet
    BY <1>4, OutsideQuiet
  <2>2. /\ step' \in [Keys -> {"sent", "set", "finished"}]
        /\ record' \in [Keys -> {"none", "listed", "stored"}]
        /\ ready' \subseteq Keys /\ (Fault \/ faults' = faults)
    BY <1>0, <1>1, <1>2, <1>3, <1>4 DEF OutsideStep
  <2> QED
    BY <1>0, <2>1, <2>2, FaultType DEF Quiet
<1>5. CASE \E S \in SUBSET (offered \ came) : Arrive(S)
  <2>1. PICK S \in SUBSET (offered \ came) : Arrive(S)
    BY <1>5
  <2>2. /\ UNCHANGED <<wanted, offered, step, record, ready, pushRow, dropped, aside, lost, faults>>
        /\ came' = came \cup S /\ receipts' = receipts \cup {S}
    BY <2>1 DEF Arrive, submitting, pushing, outcome
  <2> QED
    BY <1>0, <2>2, FaultType
<1>6. CASE PushStep
  <2>1. CASE TakeQueue \/ Post \/ CrashPusher
    <3>1. /\ UNCHANGED <<wanted, offered, came, step, record, ready, receipts, pushRow, dropped, aside>>
          /\ Fault \/ faults' = faults
          /\ lost' = lost \/ lost' = lost \cup In(pusher.todo)
      BY <2>1 DEF TakeQueue, Post, CrashPusher, submitting, outcome
    <3> QED
      BY <1>0, <3>1, FaultType
  <2>2. CASE Record
    <3>1. /\ UNCHANGED <<wanted, offered, came, step, record, receipts, dropped, aside, lost, faults>>
          /\ ready' \subseteq Keys
          /\ pushRow' = Recording(pusher.group)
      BY <1>0, <2>2 DEF Record, submitting, outcome
    <3>2. pushRow' \in [Keys -> {"none", "listed", "stored"}]
      BY <1>0, <3>1 DEF Recording
    <3> QED
      BY <1>0, <3>1, <3>2, FaultType
  <2>3. ASSUME NEW k \in Keys, StorePush(k)
        PROVE  /\ UNCHANGED <<wanted, offered, came, step, record, ready, receipts, dropped,
                              aside, lost, faults>>
               /\ pushRow' \in [Keys -> {"none", "listed", "stored"}]
    BY <1>0, <2>3 DEF StorePush, submitting, outcome
  <2> QED
    BY <1>0, <1>6, <2>1, <2>2, <2>3, FaultType DEF PushStep, Push
<1> QED
  BY <1>4, <1>5, <1>6

LEMMA TypeStep ==
    ASSUME TypeOK, TakesOK, PusherOK, Next
    PROVE  TypeOK'
<1>1. /\ wanted' \subseteq Msgs /\ offered' \in Scenarios /\ came' \subseteq offered'
      /\ step' \in [Keys -> {"sent", "set", "finished"}]
      /\ record' \in [Keys -> {"none", "listed", "stored"}]
      /\ ready' \subseteq Keys /\ receipts' \subseteq SUBSET Reports
      /\ pushRow' \in [Keys -> {"none", "listed", "stored"}]
      /\ dropped' \subseteq Reports /\ aside' \subseteq Reports /\ lost' \subseteq Reports
      /\ faults' \in 0 .. MaxFaults[offered']
  <2>1. CASE OutsideStep \/ PushStep \/ \E S \in SUBSET (offered \ came) : Arrive(S)
    BY <2>1, OtherRestType DEF TypeOK
  <2>2. CASE \E h \in Handlers : HandStep(h)
    BY <2>2, HandRestType DEF TypeOK
  <2> QED
    BY <2>1, <2>2, Steps
<1>2. hand' \in [Handlers -> Hand] /\ unmatched' \in Batch
  BY HandOrFrame, ShapeTypes DEF TypeOK
<1>3. pusher' \in Pusher /\ queue' \in Batch /\ posts' \in Batch
  BY PusherStep
<1> QED
  BY <1>1, <1>2, <1>3 DEF TypeOK
-----------------------------------------------------------------------------
(* Where the reports are                                                   *)

\* A report on the compensation list stays there or is safe: when the task has
\* trimmed what it took, nothing is left in its hands.
LEMMA UnmatchedStep ==
    ASSUME TypeOK, TakesOK, PusherOK, HandsOK, Next, NEW r \in Reports, r \in In(unmatched)
    PROVE  r \in In(unmatched') \/ Safe(r)'
<1>0. unmatched \in Batch /\ unmatched[r] > 0
  BY HandTypes DEF TypeOK, In
<1>1. ASSUME NEW h \in Handlers, NEW x, Shape(h, x)
      PROVE  r \in In(unmatched') \/ Safe(r)'
  <2>0. unmatched' \in Batch /\ hand[h].took \in Batch
    BY <1>1, ShapeTypes, HandTypes
  <2>1. CASE unmatched'[r] >= unmatched[r]
    BY <1>0, <2>0, <2>1 DEF In, Batch
  <2>2. CASE hand[h].at = "end" /\ unmatched'[r] = unmatched[r] - hand[h].took[r]
    <3>1. CASE hand[h].took[r] > 0
      <4>1. Covered(h, r)
        BY <3>1 DEF HandsOK, In
      <4>2. ~InHand(hand[h], r)
        BY <2>2 DEF InHand
      <4>3. CASE unmatched[r] > hand[h].took[r]
        BY <1>0, <2>0, <2>2, <4>3 DEF In, Batch
      <4>4. CASE Safe(r)
        BY <4>4, SafeStep
      <4> QED
        BY <4>1, <4>2, <4>3, <4>4 DEF Covered
    <3>2. CASE hand[h].took[r] = 0
      BY <1>0, <2>0, <2>2, <3>2 DEF In, Batch
    <3> QED
      BY <2>0, <3>1, <3>2 DEF Batch
  <2> QED
    BY <1>1, <2>1, <2>2, ShapeTypes
<1>2. CASE unmatched' = unmatched
  BY <1>2
<1> QED
  BY <1>1, <1>2, HandOrFrame

LEMMA HandsStep ==
    ASSUME TypeOK, TakesOK, PusherOK, HandsOK, Next
    PROVE  HandsOK'
<1>0. unmatched \in Batch
  BY HandTypes DEF TypeOK
<1>1. ASSUME NEW h \in Handlers, NEW x, Shape(h, x),
             NEW g \in Handlers, NEW r \in Reports,
             r \in hand'[g].source \/ r \in In(hand'[g].took)
      PROVE  Covered(g, r)'
  <2>0. unmatched' \in Batch /\ hand[g] \in Hand /\ hand[h] \in Hand
        /\ hand[g].took \in Batch /\ hand[h].took \in Batch /\ hand[h].waits \in Batch
    BY <1>1, ShapeTypes, HandTypes
  <2>1. CASE g # h
    <3>1. hand'[g] = hand[g] /\ Covered(g, r)
      BY <1>1, <2>1, ShapeTypes DEF HandsOK
    <3>2. CASE InHand(hand[g], r)
      BY <3>1, <3>2 DEF Covered
    <3>3. CASE Safe(r)
      BY <3>3, SafeStep DEF Covered
    <3>4. CASE unmatched[r] > hand[g].took[r] /\ unmatched'[r] >= unmatched[r]
      BY <1>0, <2>0, <3>1, <3>4 DEF Covered, Batch
    <3>5. CASE unmatched[r] > hand[g].took[r] /\ h = "task"
      <4>1. hand[g].took = Nothing
        BY <2>1, <3>5 DEF TakesOK, Handlers
      <4>2. hand[g].took[r] = 0
        BY <4>1 DEF Nothing
      <4>3. r \in In(unmatched') \/ Safe(r)'
        BY <3>5, <4>2, UnmatchedStep DEF In
      <4>4. r \in In(unmatched') => unmatched'[r] > hand'[g].took[r]
        BY <3>1, <4>2 DEF In
      <4> QED
        BY <4>3, <4>4 DEF Covered
    <3> QED
      BY <1>1, <3>1, <3>2, <3>3, <3>4, <3>5, ShapeTypes DEF Covered
  <2>2. CASE g = h
    <3>0. hand'[g] = x
      BY <1>1, <2>2, ShapeTypes
    <3>1. CASE Begins(h, x)
      BY <1>1, <3>0, <3>1 DEF Begins, Covered
    <3>2. CASE Goes(h, x) \/ Parks(h, x)
      <4>1. x.took = hand[h].took /\ Covered(h, r)
        BY <1>1, <3>0, <3>2 DEF Goes, Parks, HandsOK
      <4>2. CASE Safe(r)
        BY <4>2, SafeStep DEF Covered
      <4>3. CASE Goes(h, x) /\ ~Safe(r)
        BY <2>2, <3>0, <4>1, <4>3 DEF Goes, Covered
      <4>4. CASE Parks(h, x) /\ ~Safe(r)
        <5>1. unmatched'[r] = unmatched[r] + hand[h].waits[r]
          BY <1>0, <2>0, <4>4, BagElements DEF Parks
        <5>2. CASE InHand(hand[h], r)
          <6>1. InHand(x, r) \/ hand[h].waits[r] > 0
            BY <4>4, <5>2 DEF Parks, In
          <6>2. hand[h].took[r] <= unmatched[r]
            BY DEF TakesOK, AtMost
          <6>3. InHand(x, r) \/ unmatched'[r] > x.took[r]
            BY <1>0, <2>0, <4>1, <5>1, <6>1, <6>2 DEF Batch
          <6> QED
            BY <3>0, <6>3 DEF Covered
        <5>3. CASE unmatched[r] > hand[h].took[r]
          <6>1. unmatched'[r] > x.took[r]
            BY <1>0, <2>0, <4>1, <5>1, <5>3 DEF Batch
          <6> QED
            BY <3>0, <6>1 DEF Covered
        <5> QED
          BY <4>1, <4>4, <5>2, <5>3 DEF Covered
      <4> QED
        BY <3>2, <4>2, <4>3, <4>4
    <3>3. CASE Ends(h, x)
      <4>1. x.source = {} /\ x.took = Nothing
        BY <3>3 DEF Ends, Idle
      <4>2. r \notin In(Nothing)
        BY DEF In, Nothing
      <4> QED
        BY <1>1, <3>0, <4>1, <4>2
    <3> QED
      BY <1>1, <3>1, <3>2, <3>3 DEF Shape
  <2> QED
    BY <2>1, <2>2
<1>2. CASE hand' = hand /\ unmatched' = unmatched
  <2>1. ASSUME NEW g \in Handlers, NEW r \in Reports, Covered(g, r)
        PROVE  Covered(g, r)'
    BY <1>2, <2>1, SafeStep DEF Covered
  <2> QED
    BY <1>2, <2>1 DEF HandsOK
<1>3. CASE \E h \in Handlers : \E x : Shape(h, x)
  <2>0. PICK h \in Handlers : \E x : Shape(h, x)
    BY <1>3
  <2>1. PICK x : Shape(h, x)
    BY <2>0
  <2>2. ASSUME NEW g \in Handlers, NEW r \in Reports,
               r \in hand'[g].source \/ r \in In(hand'[g].took)
        PROVE  Covered(g, r)'
    BY <1>1, <2>1, <2>2
  <2> QED
    BY <2>2 DEF HandsOK
<1> QED
  BY <1>2, <1>3, HandOrFrame

\* A message that leaves the broker leaves its reports in the list, or safe.
LEMMA ReceiptsStep ==
    ASSUME TypeOK, TakesOK, PusherOK, HandsOK, Next,
           NEW S \in receipts, S \notin receipts', NEW r \in S
    PROVE  r \in In(unmatched') \/ Safe(r)'
<1>0. r \in Reports
  BY DEF TypeOK
<1>1. CASE OutsideStep \/ PushStep \/ \E T \in SUBSET (offered \ came) : Arrive(T)
  <2>1. receipts \subseteq receipts'
    BY <1>1, OutsideQuiet DEF Quiet, PushStep, Push, TakeQueue, Post, Record, CrashPusher,
                              StorePush, Arrive
  <2> QED
    BY <2>1
<1>2. ASSUME NEW h \in Handlers, HandStep(h)
      PROVE  r \in In(unmatched') \/ Safe(r)'
  <2>1. CASE PutAside(S) \/ (ListFakeFails /\ S = hand["failed"].source)
    BY <2>1 DEF PutAside, ListFakeFails, Safe, Concluded
  <2>2. CASE Acknowledge(h) /\ S = hand[h].source
    <3>1. Covered(h, r) /\ ~InHand(hand[h], r)
      BY <1>0, <2>2 DEF HandsOK, Acknowledge, InHand
    <3>2. unmatched[r] > hand[h].took[r] => r \in In(unmatched)
      BY <1>0, HandTypes DEF In, Batch
    <3> QED
      BY <1>0, <3>1, <3>2, UnmatchedStep, SafeStep DEF Covered
  <2>3. \/ PutAside(S) \/ (ListFakeFails /\ S = hand["failed"].source)
        \/ (Acknowledge(h) /\ S = hand[h].source)
    BY <1>2
       DEF HandStep, Handle, Receive, PutAside, TakeReceipt, TakeFake, ReadUnmatched, ListFake,
           Found, FoundPushed, NotFound, Matching, Park, QueueOut, Acknowledge, TrimUnmatched,
           ListFakeFails, ParkFails, QueueOutFails, CrashHandler
  <2> QED
    BY <2>1, <2>2, <2>3
<1> QED
  BY <1>1, <1>2, Steps

LEMMA SomewhereStep ==
    ASSUME TypeOK, TakesOK, PusherOK, HandsOK, ReportIsSomewhere, Next
    PROVE  ReportIsSomewhere'
<1> SUFFICES ASSUME NEW r \in came'
             PROVE  Underway(r)' \/ Concluded(r)'
  BY DEF ReportIsSomewhere
<1>1. CASE r \in came
  <2>0. r \in Reports
    BY <1>1, Bounded DEF TypeOK
  <2>1. \/ \E S \in receipts : r \in S
        \/ r \in In(unmatched) \/ Safe(r)
    BY <1>1 DEF ReportIsSomewhere, Underway, Safe
  <2>2. \/ \E S \in receipts' : r \in S
        \/ r \in In(unmatched') \/ Safe(r)'
    BY <2>0, <2>1, ReceiptsStep, UnmatchedStep, SafeStep
  <2> QED
    BY <2>2 DEF Underway, Safe
<1>2. CASE r \notin came
  <2>1. \E S \in SUBSET (offered \ came) : Arrive(S)
    <3>1. came' = came \/ \E S \in SUBSET (offered \ came) : Arrive(S)
      BY Steps, OutsideQuiet, HandRestType
         DEF Quiet, PushStep, Push, TakeQueue, Post, Record, CrashPusher, StorePush
    <3> QED
      BY <1>2, <3>1
  <2> QED
    BY <1>2, <2>1 DEF Arrive, Underway
<1> QED
  BY <1>1, <1>2

-----------------------------------------------------------------------------
(* What was told                                                           *)

LEMMA RowsStep ==
    ASSUME TypeOK, PusherOK, RowsTold, Next
    PROVE  RowsTold'
<1>1. ASSUME NEW k \in Keys, pushRow'[k] # "none"
      PROVE  pushRow[k] # "none" \/ \E p \in Reports : keyOf[p] = k /\ posts[p] > 0
  <2>1. CASE Record
    <3>1. pushRow[k] # "none" \/ \E r \in In(pusher.group) : keyOf[r] = k
      BY <1>1, <2>1 DEF Record, Recording
    <3>2. \A r \in In(pusher.group) : r \in Reports /\ posts[r] > 0
      BY <2>1 DEF Record, PusherOK, In
    <3> QED
      BY <3>1, <3>2
  <2>2. ASSUME NEW j \in Keys, StorePush(j)
        PROVE  pushRow[k] # "none"
    BY <1>1, <2>2 DEF StorePush, TypeOK
  <2>3. CASE pushRow' = pushRow
    BY <1>1, <2>3
  <2>4. Record \/ (\E j \in Keys : StorePush(j)) \/ pushRow' = pushRow
    BY Steps, OutsideQuiet, HandRestType
       DEF Quiet, PushStep, Push, TakeQueue, Post, CrashPusher, Arrive, pushing
  <2> QED
    BY <2>1, <2>2, <2>3, <2>4
<1>2. \A r \in Reports : posts[r] > 0 => posts'[r] > 0
  BY PusherStep
<1> QED
  BY <1>1, <1>2 DEF RowsTold

LEMMA DroppedStep ==
    ASSUME TypeOK, PusherOK, RowsTold, DroppedWasTold, Next
    PROVE  DroppedWasTold'
<1>0. wanted' = wanted /\ \A r \in Reports : posts[r] > 0 => posts'[r] > 0
  BY PusherStep, Steps, HandRestType, OtherRestType
<1>1. ASSUME NEW r \in dropped', r \notin dropped, MsgOf(r) \in wanted
      PROVE  \E p \in Reports : keyOf[p] = keyOf[r] /\ posts[p] > 0
  <2>1. \E h \in Handlers : \E q \in Reports : Found(h, q) \/ FoundPushed(h, q)
    <3>1. ASSUME NEW h \in Handlers, HandStep(h)
          PROVE  dropped' = dropped \/ \E q \in Reports : Found(h, q) \/ FoundPushed(h, q)
      BY <3>1
         DEF HandStep, Handle, Receive, PutAside, TakeReceipt, TakeFake, ReadUnmatched, ListFake,
             NotFound, Park, QueueOut, Acknowledge, TrimUnmatched,
             ListFakeFails, ParkFails, QueueOutFails, CrashHandler, outcome
    <3>2. ~(OutsideStep \/ PushStep \/ \E S \in SUBSET (offered \ came) : Arrive(S))
      BY <1>1, OutsideQuiet DEF Quiet, PushStep, Push, TakeQueue, Post, Record, CrashPusher,
                                StorePush, Arrive, outcome
    <3> QED
      BY <1>1, <3>1, <3>2, Steps
  <2>2. PICK h \in Handlers, q \in Reports : Found(h, q) \/ FoundPushed(h, q)
    BY <2>1
  <2>3. ~Found(h, q) /\ r = q
    BY <1>1, <2>2 DEF Found, FoundPushed
  <2>4. pushRow[keyOf[q]] = "stored"
    BY <2>2, <2>3 DEF FoundPushed, Match
  <2> QED
    BY <2>3, <2>4, Bounded DEF RowsTold
<1>2. \A r \in dropped' : r \in Reports
  BY Steps, HandRestType, OtherRestType
<1> QED
  BY <1>0, <1>1, <1>2 DEF DroppedWasTold

-----------------------------------------------------------------------------
(* The theorems                                                            *)

LEMMA Initially ==
    ASSUME Init
    PROVE  IInv
<1>1. /\ Nothing \in Batch /\ In(Nothing) = {} /\ AtMost(Nothing, Nothing)
      /\ \A r \in Reports : Nothing[r] = 0
  BY DEF Nothing, Batch, In, AtMost
<1>2. wanted \subseteq Msgs /\ offered \in Scenarios
  BY Bounded DEF Init
<1>3. Resting \in Pusher
  BY <1>1, BoundsAssumption DEF Resting, Pusher
<1>4. MaxFaults[offered] \in Nat
  BY <1>2, BoundsAssumption
<1>5. TypeOK
  BY <1>1, <1>2, <1>3, <1>4, IdleType DEF Init, TypeOK
<1>6. TakesOK /\ HandsOK
  BY <1>1 DEF Init, TakesOK, HandsOK, Idle, Handlers
<1>7. PusherOK
  BY <1>1 DEF Init, PusherOK, Resting
<1>8. ReportIsSomewhere /\ RowsTold /\ DroppedWasTold
  BY DEF Init, ReportIsSomewhere, RowsTold, DroppedWasTold
<1> QED
  BY <1>5, <1>6, <1>7, <1>8 DEF IInv

LEMMA Stutter ==
    ASSUME IInv, UNCHANGED vars
    PROVE  IInv'
BY DEF IInv, vars, TypeOK, TakesOK, PusherOK, HandsOK, Covered, Safe, ReportIsSomewhere, Underway,
       Concluded, RowsTold, DroppedWasTold

LEMMA Inductive ==
    ASSUME IInv, [Next]_vars
    PROVE  IInv'
<1>1. CASE Next
  BY <1>1, TypeStep, TakesStep, PusherStep, HandsStep, SomewhereStep, RowsStep, DroppedStep DEF IInv
<1>2. CASE UNCHANGED vars
  BY <1>2, Stutter
<1> QED
  BY <1>1, <1>2

\* The inductive invariant holds always.
THEOREM Invariance == Spec => []IInv
BY Initially, Inductive, PTL DEF Spec

\* Every variable has its type; nothing is trimmed that is not there.
THEOREM TypeCorrect == Spec => []TypeOK
<1>1. IInv => TypeOK
  BY DEF IInv
<1> QED
  BY <1>1, Invariance, PTL

\* A report that came is never nowhere, however the submitting listener, the receipt
\* listener, the compensation task, the push thread and the faults interleave.
THEOREM ReportsStaySomewhere == Spec => []ReportIsSomewhere
<1>1. IInv => ReportIsSomewhere
  BY DEF IInv
<1> QED
  BY <1>1, Invariance, PTL

\* A report that its customer wants is dropped only after a post on its number.
THEOREM DropsAreTold == Spec => []DroppedWasTold
<1>1. IInv => DroppedWasTold
  BY DEF IInv
<1> QED
  BY <1>1, Invariance, PTL
-----------------------------------------------------------------------------
(* Copies of a report                                                      *)

\* What a handler holds of a report: still to be matched, or about to be pushed to
\* one of the lists.
Held(x, r) ==
    (IF x.at \in {"record", "match"} THEN x.todo[r] ELSE 0)
    + (IF x.at \in {"record", "match", "park"} THEN x.waits[r] ELSE 0)
    + (IF x.at \in {"record", "match", "park", "queue"} THEN x.out[r] ELSE 0)
HeldByAll(r) == Held(hand["receipt"], r) + Held(hand["failed"], r) + Held(hand["task"], r)

\* The message that carries the report is in nobody's hands.
Untaken(r) == \E S \in receipts : r \in S /\ \A h \in Listeners : hand[h].source # S
OneIf(P) == IF P THEN 1 ELSE 0

\* The copies of a report that may still be posted, each RetryTimes + 1 times; what
\* the task took from the list counts in its hands only.
CopiesOf(r) ==
    OneIf(r \notin came) + OneIf(Untaken(r))
    + (unmatched[r] - hand["task"].took[r]) + HeldByAll(r)
    + queue[r] + (pusher.todo[r] - pusher.group[r])
Tries == RetryTimes + 1
TriesLeft(x, r) == IF x.at = "post" THEN x.group[r] * (Tries + 1 - x.attempt) ELSE 0
Posting(r) == posts[r] + TriesLeft(pusher, r) + Tries * CopiesOf(r)

\* Messages carry different reports, which came; a resting handler holds nothing,
\* and the listeners take different kinds of messages, which the broker keeps.
MessagesOK ==
    /\ \A S \in receipts : S \subseteq came
    /\ \A S, T \in receipts : S \cap T # {} => S = T
    /\ \A h \in Handlers : hand[h].at = "idle" => hand[h] = Idle
    /\ hand["receipt"].source \cap Fakes = {} /\ hand["failed"].source \subseteq Fakes
    /\ hand["task"].source = {}
    /\ \A h \in Listeners : hand[h].source # {} => hand[h].source \in receipts
\* A fault may have a handler begin again with all it took.
PostsOK ==
    \A r \in Reports :
        Posting(r) <= Tries * 2 ^ faults /\ hand["task"].took[r] <= 2 ^ faults

\* The kinds of steps of a handler.
Only(h, x) == hand' = [hand EXCEPT ![h] = x] /\ x \in Hand
Takes(h, x) ==
    /\ Only(h, x) /\ hand[h].at = "idle" /\ x.at # "idle"
    /\ UNCHANGED <<receipts, unmatched, queue>>
    /\ \/ /\ h \in Listeners /\ x.source \in receipts /\ x.took = Nothing
          /\ IF h = "failed" THEN x.source \subseteq Fakes ELSE x.source \cap Fakes = {}
          /\ \A r \in Reports : Held(x, r) = OneIf(r \in x.source)
       \/ /\ h = "task" /\ x.source = {} /\ x.took = unmatched
          /\ \A r \in Reports : Held(x, r) = unmatched[r]
Keeps(h, x) ==
    /\ Only(h, x) /\ x.at # "idle"
    /\ x.source = hand[h].source /\ x.took = hand[h].took
    /\ UNCHANGED receipts
    /\ \A r \in Reports :
           /\ Held(x, r) <= Held(hand[h], r)
           /\ Held(x, r) + unmatched'[r] + queue'[r] <= Held(hand[h], r) + unmatched[r] + queue[r]
Leaves(h) ==
    /\ Only(h, Idle) /\ UNCHANGED queue
    /\ \/ /\ h \in Listeners /\ UNCHANGED unmatched
          /\ receipts' = receipts \ {hand[h].source}
       \/ /\ h = "task" /\ UNCHANGED receipts
          /\ unmatched' = Less(unmatched, hand[h].took)
Refuses ==
    /\ hand["receipt"].at = "idle" /\ UNCHANGED <<hand, unmatched, queue>>
    /\ \E S \in receipts : receipts' = receipts \ {S} /\ S \cap Bare # {}

LEMMA HeldTypes ==
    ASSUME NEW x \in Hand, NEW r \in Reports
    PROVE  /\ Held(x, r) \in Nat
           /\ x.todo[r] \in Nat /\ x.waits[r] \in Nat /\ x.out[r] \in Nat /\ x.took[r] \in Nat
<1>1. x.todo[r] \in Nat /\ x.waits[r] \in Nat /\ x.out[r] \in Nat /\ x.took[r] \in Nat
  BY DEF Hand, Batch
<1> QED
  BY <1>1 DEF Held

LEMMA HeldIdle ==
    ASSUME NEW r \in Reports
    PROVE  Held(Idle, r) = 0
BY DEF Held, Idle

\* Turning to the next push drops nothing that is held, and holds nothing twice.
LEMMA TurnHeld ==
    ASSUME NEW x \in Hand, x.at = "match", NEW r \in Reports
    PROVE  Held(Turn(x), r) <= Held(x, r) /\ Turn(x).at # "idle"
<1>0. x.todo[r] \in Nat /\ x.waits[r] \in Nat /\ x.out[r] \in Nat /\ Held(x, r) \in Nat
  BY HeldTypes
<1>1. CASE In(x.todo) # {}
  BY <1>0, <1>1 DEF Turn
<1>2. CASE In(x.todo) = {}
  <2> DEFINE place == IF In(x.waits) # {} THEN "park" ELSE IF In(x.out) # {} THEN "queue" ELSE "end"
  <2>1. Turn(x) = [x EXCEPT !.at = place]
    BY <1>2 DEF Turn
  <2>2. place \in {"park", "queue", "end"}
    OBVIOUS
  <2>3. /\ Turn(x).at = place
        /\ Turn(x).todo = x.todo /\ Turn(x).waits = x.waits /\ Turn(x).out = x.out
    <3> HIDE DEF place
    <3> QED
      BY <2>1, <2>2 DEF Hand
  <2> HIDE DEF place
  <2>4. Held(x, r) = x.todo[r] + x.waits[r] + x.out[r]
    BY DEF Held
  <2>5. /\ place = "park" => Held(Turn(x), r) = 0 + x.waits[r] + x.out[r]
        /\ place = "queue" => Held(Turn(x), r) = 0 + 0 + x.out[r]
        /\ place = "end" => Held(Turn(x), r) = 0 + 0 + 0
    BY <2>3 DEF Held
  <2> QED
    BY <1>0, <2>2, <2>3, <2>4, <2>5
<1> QED
  BY <1>1, <1>2

LEMMA ParkedHeld ==
    ASSUME NEW x \in Hand, x.at = "park", NEW r \in Reports
    PROVE  /\ Held(x, r) = x.waits[r] + x.out[r]
           /\ Held(Parked(x), r) <= x.out[r] /\ Parked(x).at # "idle"
<1> DEFINE place == IF In(x.out) # {} THEN "queue" ELSE "end"
<1>0. x.waits[r] \in Nat /\ x.out[r] \in Nat
  BY HeldTypes
<1>1. place \in {"queue", "end"}
  OBVIOUS
<1>2. Parked(x).at = place /\ Parked(x).out = x.out
  <2>1. Parked(x) = [x EXCEPT !.at = place]
    BY DEF Parked
  <2> HIDE DEF place
  <2> QED
    BY <1>1, <2>1 DEF Hand
<1> HIDE DEF place
<1>3. Held(x, r) = 0 + x.waits[r] + x.out[r]
  BY DEF Held
<1>4. /\ place = "queue" => Held(Parked(x), r) = 0 + 0 + x.out[r]
      /\ place = "end" => Held(Parked(x), r) = 0 + 0 + 0
  BY <1>2 DEF Held
<1> QED
  BY <1>0, <1>1, <1>2, <1>3, <1>4

\* One turn of the loop: the report waits, goes out, or neither, and is held no more
\* often than before.
LEMMA LoopHeld ==
    ASSUME TypeOK, NEW h \in Handlers, NEW r \in Reports, Matching(h, r),
           NEW y \in Hand, y.at = "match",
           y.source = hand[h].source, y.took = hand[h].took,
           y.todo = Less(hand[h].todo, Once({r})),
           \/ y.waits = hand[h].waits /\ y.out = Join(hand[h].out, Once({r}))
           \/ y.waits = Join(hand[h].waits, Once({r})) /\ y.out = hand[h].out
           \/ y.waits = hand[h].waits /\ y.out = hand[h].out,
           hand' = [hand EXCEPT ![h] = Turn(y)]
    PROVE  Keeps(h, Turn(y))
<1>0. /\ hand[h] \in Hand /\ hand[h].at = "match" /\ r \in In(hand[h].todo)
      /\ UNCHANGED <<receipts, unmatched, queue>>
      /\ unmatched \in Batch /\ queue \in Batch
  BY DEF TypeOK, Matching, pushing
<1>1. /\ Turn(y) \in Hand /\ Turn(y).source = y.source /\ Turn(y).took = y.took
  BY TurnFacts
<1>2. Turn(y).at # "idle"
  BY <1>0, TurnHeld DEF In
<1>3. ASSUME NEW q \in Reports
      PROVE  Held(Turn(y), q) <= Held(hand[h], q)
  <2> DEFINE one == Once({r})[q]
             H == hand[h]
  <2>1. one \in Nat
    BY DEF Once
  <2>2. /\ H.todo[q] \in Nat /\ H.waits[q] \in Nat /\ H.out[q] \in Nat
        /\ y.todo[q] \in Nat /\ y.waits[q] \in Nat /\ y.out[q] \in Nat
    BY <1>0, HeldTypes
  <2>3. y.todo[q] = H.todo[q] - one
    BY DEF Less
  <2>4. \/ y.waits[q] = H.waits[q] /\ y.out[q] = H.out[q] + one
        \/ y.waits[q] = H.waits[q] + one /\ y.out[q] = H.out[q]
        \/ y.waits[q] = H.waits[q] /\ y.out[q] = H.out[q]
    BY DEF Join
  <2>5. /\ Held(H, q) = H.todo[q] + H.waits[q] + H.out[q]
        /\ Held(y, q) = y.todo[q] + y.waits[q] + y.out[q]
    BY <1>0 DEF Held
  <2>6. Held(Turn(y), q) <= Held(y, q) /\ Held(Turn(y), q) \in Nat
    BY <1>1, TurnHeld, HeldTypes
  <2> HIDE DEF one, H
  <2>7. Held(y, q) <= Held(H, q)
    BY <2>1, <2>2, <2>3, <2>4, <2>5
  <2>8. Held(Turn(y), q) <= Held(H, q)
    BY <2>2, <2>5, <2>6, <2>7
  <2> QED
    BY <2>8 DEF H
<1>4. ASSUME NEW q \in Reports
      PROVE  Held(Turn(y), q) + unmatched'[q] + queue'[q] <= Held(hand[h], q) + unmatched[q] + queue[q]
  <2>1. /\ Held(Turn(y), q) \in Nat /\ Held(hand[h], q) \in Nat
        /\ unmatched[q] \in Nat /\ queue[q] \in Nat
    BY <1>0, <1>1, HeldTypes DEF Batch
  <2> QED
    BY <1>0, <1>3, <2>1
<1> QED
  BY <1>0, <1>1, <1>2, <1>3, <1>4 DEF Keeps, Only

LEMMA MatchKeeps ==
    ASSUME TypeOK, NEW h \in Handlers, NEW r \in Reports,
           Found(h, r) \/ FoundPushed(h, r) \/ NotFound(h, r)
    PROVE  \E x : Keeps(h, x)
<1> DEFINE H == hand[h]
           more == Join(H.out, Once({r}))
           wait == Join(H.waits, Once({r}))
<1>0. /\ Matching(h, r)
      /\ H \in Hand /\ H.at = "match" /\ MsgOf(r) \in Msgs /\ r \in In(H.todo)
      /\ H.known \in SUBSET Msgs /\ Less(H.todo, Once({r})) \in Batch
      /\ H.out \in Batch /\ H.waits \in Batch
  <2>1. Matching(h, r) /\ r \in In(H.todo) /\ H.at = "match"
    BY DEF Found, FoundPushed, NotFound, Matching
  <2> QED
    BY <2>1, HandTypes, OneLess, Bounded
<1>1. more \in Batch /\ wait \in Batch
  BY <1>0, BagTypes
<1> HIDE DEF more, wait
<1>2. CASE Found(h, r)
  <2> DEFINE out == IF MsgOf(r) \in wanted THEN more ELSE H.out
             y == [Done(h, r) EXCEPT !.known = @ \cup {MsgOf(r)}, !.out = out]
  <2>1. hand' = [hand EXCEPT ![h] = Turn(y)]
    BY <1>2 DEF Found, Done, more
  <2>2. out \in Batch /\ (out = more \/ out = H.out)
    BY <1>0, <1>1
  <2> HIDE DEF out
  <2>3. /\ y \in Hand /\ y.at = "match" /\ y.source = H.source /\ y.took = H.took
        /\ y.todo = Less(H.todo, Once({r})) /\ y.waits = H.waits /\ y.out = out
    BY <1>0, <2>2 DEF Done, Hand
  <2> HIDE DEF y
  <2> QED
    BY <1>0, <2>1, <2>2, <2>3, LoopHeld DEF more
<1>3. CASE FoundPushed(h, r)
  <2> DEFINE y == Done(h, r)
  <2>1. hand' = [hand EXCEPT ![h] = Turn(y)]
    BY <1>3 DEF FoundPushed
  <2>3. /\ y \in Hand /\ y.at = "match" /\ y.source = H.source /\ y.took = H.took
        /\ y.todo = Less(H.todo, Once({r})) /\ y.waits = H.waits /\ y.out = H.out
    BY <1>0 DEF Done, Hand
  <2> HIDE DEF y
  <2> QED
    BY <1>0, <2>1, <2>3, LoopHeld
<1>4. CASE NotFound(h, r)
  <2> DEFINE y == [Done(h, r) EXCEPT !.waits = wait]
  <2>1. hand' = [hand EXCEPT ![h] = Turn(y)]
    BY <1>4 DEF NotFound, Done, wait
  <2>3. /\ y \in Hand /\ y.at = "match" /\ y.source = H.source /\ y.took = H.took
        /\ y.todo = Less(H.todo, Once({r})) /\ y.waits = wait /\ y.out = H.out
    BY <1>0, <1>1 DEF Done, Hand
  <2> HIDE DEF y
  <2> QED
    BY <1>0, <2>1, <2>3, LoopHeld DEF wait
<1> QED
  BY <1>2, <1>3, <1>4

LEMMA PushKeeps ==
    ASSUME TypeOK, NEW h \in Handlers,
           Park(h) \/ ParkFails(h) \/ QueueOut(h) \/ QueueOutFails(h)
    PROVE  \E x : Keeps(h, x)
<1> DEFINE H == hand[h]
<1>0. H \in Hand /\ unmatched \in Batch /\ queue \in Batch
  BY HandTypes
<1>1. ASSUME NEW q \in Reports
      PROVE  /\ H.waits[q] \in Nat /\ H.out[q] \in Nat
             /\ unmatched[q] \in Nat /\ queue[q] \in Nat
  BY <1>0, HeldTypes DEF Batch
<1>2. CASE Park(h) \/ ParkFails(h)
  <2>1. /\ H.at = "park" /\ hand' = [hand EXCEPT ![h] = Parked(H)]
        /\ UNCHANGED <<receipts, queue>>
        /\ unmatched' = Join(unmatched, H.waits) \/ unmatched' = unmatched
    BY <1>2 DEF Park, ParkFails, pushing
  <2>2. /\ Parked(H) \in Hand /\ Parked(H).source = H.source /\ Parked(H).took = H.took
    BY <1>0, <2>1, ParkedFacts
  <2>3. ASSUME NEW q \in Reports
        PROVE  /\ Held(Parked(H), q) + unmatched'[q] + queue'[q] <= Held(H, q) + unmatched[q] + queue[q]
               /\ Held(Parked(H), q) <= Held(H, q)
    <3>1. /\ Held(H, q) = H.waits[q] + H.out[q] /\ Held(Parked(H), q) <= H.out[q]
          /\ Parked(H).at # "idle" /\ Held(Parked(H), q) \in Nat
      BY <1>0, <2>1, <2>2, ParkedHeld, HeldTypes
    <3>2. unmatched'[q] = unmatched[q] + H.waits[q] \/ unmatched'[q] = unmatched[q]
      BY <2>1 DEF Join
    <3> HIDE DEF H
    <3> QED
      BY <1>1, <2>1, <3>1, <3>2
  <2>4. Parked(H).at # "idle"
    <3>1. Parked(H).at \in {"queue", "end"}
      BY <1>0 DEF Parked, Hand
    <3> QED
      BY <3>1
  <2> QED
    BY <2>1, <2>2, <2>3, <2>4 DEF Keeps, Only
<1>3. CASE QueueOut(h) \/ QueueOutFails(h)
  <2> DEFINE x == [H EXCEPT !.at = "end"]
  <2>1. /\ H.at = "queue" /\ hand' = [hand EXCEPT ![h] = x]
        /\ UNCHANGED <<receipts, unmatched>>
        /\ queue' = Join(queue, H.out) \/ queue' = queue
    BY <1>3 DEF QueueOut, QueueOutFails, pushing
  <2>2. x \in Hand /\ x.source = H.source /\ x.took = H.took /\ x.at = "end"
    BY <1>0 DEF Hand
  <2> HIDE DEF x
  <2>3. ASSUME NEW q \in Reports
        PROVE  /\ Held(x, q) <= Held(H, q)
               /\ Held(x, q) + unmatched'[q] + queue'[q] <= Held(H, q) + unmatched[q] + queue[q]
    <3>1. Held(x, q) = 0 + 0 + 0 /\ Held(H, q) = 0 + 0 + H.out[q]
      BY <2>1, <2>2 DEF Held
    <3>2. queue'[q] = queue[q] + H.out[q] \/ queue'[q] = queue[q]
      BY <2>1 DEF Join
    <3> HIDE DEF H
    <3> QED
      BY <1>1, <2>1, <3>1, <3>2
  <2> QED
    BY <2>1, <2>2, <2>3 DEF Keeps, Only
<1> QED
  BY <1>2, <1>3

LEMMA RecordKeeps ==
    ASSUME TypeOK, ListFake
    PROVE  \E x : Keeps("failed", x)
<1> DEFINE H == hand["failed"]
           x == [H EXCEPT !.at = "match"]
<1>1. /\ H.at = "record" /\ hand' = [hand EXCEPT !["failed"] = x]
      /\ UNCHANGED <<receipts, unmatched, queue>>
  BY DEF ListFake, pushing
<1>2. H \in Hand /\ unmatched \in Batch /\ queue \in Batch
  BY HandTypes DEF Handlers, Listeners
<1>3. /\ x \in Hand /\ x.source = H.source /\ x.took = H.took /\ x.at = "match"
      /\ x.todo = H.todo /\ x.waits = H.waits /\ x.out = H.out
  BY <1>2 DEF Hand
<1> HIDE DEF x
<1>4. ASSUME NEW q \in Reports
      PROVE  /\ Held(x, q) <= Held(H, q)
             /\ Held(x, q) + unmatched'[q] + queue'[q] <= Held(H, q) + unmatched[q] + queue[q]
  <2>1. Held(x, q) = Held(H, q)
    BY <1>1, <1>3 DEF Held
  <2>2. Held(H, q) \in Nat /\ unmatched[q] \in Nat /\ queue[q] \in Nat
    BY <1>2, HeldTypes DEF Batch
  <2> QED
    BY <1>1, <2>1, <2>2
<1> QED
  BY <1>1, <1>3, <1>4 DEF Keeps, Only

\* Taking a made-up report, listing its key and reading the parked list leave
\* the pusher, the posts and the reports given up alone.
LEMMA FakesQuiet ==
    ASSUME ListFake \/ ReadUnmatched \/ \E f \in Fakes : TakeFake(f)
    PROVE  UNCHANGED <<pusher, posts, dropped, aside, lost>>
<1>1. CASE ListFake
  BY <1>1 DEF ListFake, pushing, outcome
<1>2. CASE ReadUnmatched
  BY <1>2 DEF ReadUnmatched, pushing, outcome
<1>3. ASSUME NEW f \in Fakes, TakeFake(f)
      PROVE  UNCHANGED <<pusher, posts, dropped, aside, lost>>
  <2>1. UNCHANGED <<submitting, came, receipts, unmatched, pushing, dropped, aside, lost>>
    BY <1>3, Zenon DEF TakeFake
  <2> QED
    BY <2>1 DEF pushing
<1> QED
  BY <1>1, <1>2, <1>3

LEMMA HandAside ==
    ASSUME NEW h \in Handlers, HandStep(h)
    PROVE  UNCHANGED <<pusher, posts>>
<1>1. CASE Receive(h)
  <2>1. \A S \in receipts : PutAside(S) \/ TakeReceipt(S) => UNCHANGED <<pusher, posts>>
    BY DEF PutAside, TakeReceipt, pushing
  <2>2. ListFake \/ ReadUnmatched \/ (\E f \in Fakes : TakeFake(f)) => UNCHANGED <<pusher, posts>>
    BY FakesQuiet
  <2> QED
    BY <1>1, <2>1, <2>2 DEF Receive
<1>2. CASE \E r \in Reports : Found(h, r) \/ FoundPushed(h, r) \/ NotFound(h, r)
  BY <1>2 DEF Found, FoundPushed, NotFound, Matching, pushing
<1>3. CASE \/ Park(h) \/ QueueOut(h) \/ ParkFails(h) \/ QueueOutFails(h) \/ CrashHandler(h)
           \/ Acknowledge(h) \/ TrimUnmatched \/ ListFakeFails
  BY <1>3 DEF Park, QueueOut, ParkFails, QueueOutFails, CrashHandler, Acknowledge,
              TrimUnmatched, ListFakeFails, pushing
<1> QED
  BY <1>1, <1>2, <1>3 DEF HandStep, Handle

LEMMA TakeKinds ==
    ASSUME TypeOK, NEW h \in Handlers, Receive(h), ~(h = "failed" /\ ListFake)
    PROVE  (\E x : Takes(h, x)) \/ (h = "receipt" /\ Refuses)
<1>1. ASSUME NEW S \in receipts, h = "receipt", PutAside(S)
      PROVE  Refuses
  <2>1. S \cap Bare # {}
    BY <1>1 DEF PutAside, Unresolved
  <2> QED
    BY <1>1, <2>1 DEF PutAside, Refuses, pushing
<1>2. ASSUME NEW S \in receipts, h = "receipt", TakeReceipt(S)
      PROVE  \E x : Takes(h, x)
  <2> DEFINE x == [Idle EXCEPT !.at = "match", !.source = S, !.todo = Once(S)]
  <2>1. S \in SUBSET Reports
    BY DEF TypeOK
  <2>2. /\ x \in Hand /\ x.at = "match" /\ x.source = S /\ x.todo = Once(S)
        /\ x.took = Nothing /\ x.waits = Nothing /\ x.out = Nothing
    BY <2>1, BagTypes, IdleType DEF Idle, Hand, Nothing, Batch
  <2>3. /\ hand' = [hand EXCEPT ![h] = x] /\ hand[h].at = "idle" /\ S \cap Fakes = {}
        /\ UNCHANGED <<receipts, unmatched, queue>>
    BY <1>2 DEF TakeReceipt, pushing
  <2> HIDE DEF x
  <2>4. ASSUME NEW r \in Reports
        PROVE  Held(x, r) = OneIf(r \in x.source)
    <3>1. Held(x, r) = Once(S)[r] + Nothing[r] + Nothing[r]
      BY <2>2 DEF Held
    <3> QED
      BY <2>2, <3>1 DEF Once, Nothing, OneIf
  <2> QED
    BY <1>2, <2>2, <2>3, <2>4 DEF Takes, Only, Listeners
<1>3. ASSUME NEW f \in Fakes, h = "failed", TakeFake(f)
      PROVE  \E x : Takes(h, x)
  <2> DEFINE x == [Idle EXCEPT !.at = "record", !.source = {f}, !.todo = Once({f})]
  <2>1. f \in Reports
    BY ReportsAssumption
  <2>2. /\ x \in Hand /\ x.at = "record" /\ x.source = {f} /\ x.todo = Once({f})
        /\ x.took = Nothing /\ x.waits = Nothing /\ x.out = Nothing
    BY <2>1, BagTypes, IdleType DEF Idle, Hand, Nothing, Batch
  <2>3. /\ hand' = [hand EXCEPT ![h] = x] /\ hand[h].at = "idle" /\ {f} \in receipts
        /\ UNCHANGED <<receipts, unmatched, queue>>
    BY <1>3 DEF TakeFake, pushing
  <2> HIDE DEF x
  <2>4. ASSUME NEW r \in Reports
        PROVE  Held(x, r) = OneIf(r \in x.source)
    <3>1. Held(x, r) = Once({f})[r] + Nothing[r] + Nothing[r]
      BY <2>2 DEF Held
    <3> QED
      BY <2>2, <3>1 DEF Once, Nothing, OneIf
  <2> QED
    BY <1>3, <2>2, <2>3, <2>4 DEF Takes, Only, Listeners
<1>4. ASSUME h = "task", ReadUnmatched
      PROVE  \E x : Takes(h, x)
  <2> DEFINE x == [Idle EXCEPT !.at = "match", !.took = unmatched, !.todo = unmatched]
  <2>1. unmatched \in Batch
    BY HandTypes
  <2>2. /\ x \in Hand /\ x.at = "match" /\ x.source = {} /\ x.todo = unmatched
        /\ x.took = unmatched /\ x.waits = Nothing /\ x.out = Nothing
    BY <2>1, BagTypes, IdleType DEF Idle, Hand, Nothing, Batch
  <2>3. /\ hand' = [hand EXCEPT ![h] = x] /\ hand[h].at = "idle"
        /\ UNCHANGED <<receipts, unmatched, queue>>
    BY <1>4 DEF ReadUnmatched, pushing
  <2> HIDE DEF x
  <2>4. ASSUME NEW r \in Reports
        PROVE  Held(x, r) = unmatched[r]
    <3>1. Held(x, r) = unmatched[r] + Nothing[r] + Nothing[r]
      BY <2>2 DEF Held
    <3> QED
      BY <2>1, <3>1 DEF Nothing, Batch
  <2> QED
    BY <1>4, <2>2, <2>3, <2>4 DEF Takes, Only
<1> QED
  BY <1>1, <1>2, <1>3, <1>4 DEF Receive

LEMMA HandKinds ==
    ASSUME TypeOK, NEW h \in Handlers, HandStep(h)
    PROVE  \/ \E x : Takes(h, x) \/ Keeps(h, x)
           \/ Leaves(h) \/ (h = "receipt" /\ Refuses) \/ CrashHandler(h)
<1>1. CASE h = "failed" /\ ListFake
  BY <1>1, RecordKeeps
<1>2. CASE Receive(h) /\ ~(h = "failed" /\ ListFake)
  BY <1>2, TakeKinds
<1>3. CASE \E r \in Reports : Found(h, r) \/ FoundPushed(h, r) \/ NotFound(h, r)
  BY <1>3, MatchKeeps
<1>4. CASE Park(h) \/ ParkFails(h) \/ QueueOut(h) \/ QueueOutFails(h)
  BY <1>4, PushKeeps
<1>5. CASE Acknowledge(h) \/ (h = "task" /\ TrimUnmatched) \/ (h = "failed" /\ ListFakeFails)
  BY <1>5, IdleType
     DEF Acknowledge, TrimUnmatched, ListFakeFails, Leaves, Only, Listeners, pushing
<1> QED
  BY <1>1, <1>2, <1>3, <1>4, <1>5 DEF HandStep, Handle

\* The message of a report that nobody handles was there before, unless the handler
\* that had it crashes; taking it puts it into one hand.
LEMMA UntakenStep ==
    ASSUME TypeOK, MessagesOK, NEW h \in Handlers, HandStep(h), NEW r \in Reports
    PROVE  /\ Untaken(r)' => Untaken(r) \/ (CrashHandler(h) /\ r \in hand[h].source)
           /\ \A x : Takes(h, x) /\ r \in x.source => Untaken(r) /\ ~Untaken(r)'
<1>0. hand \in [Handlers -> Hand] /\ Listeners \subseteq Handlers
  BY DEF TypeOK, Handlers
<1>1. ASSUME Untaken(r)', ~CrashHandler(h) \/ r \notin hand[h].source
      PROVE  Untaken(r)
  <2>1. PICK T \in receipts' : r \in T /\ \A g \in Listeners : hand'[g].source # T
    BY <1>1 DEF Untaken
  <2>2. T \in receipts
    <3>1. receipts' \subseteq receipts
      BY HandKinds DEF Takes, Keeps, Leaves, Refuses, CrashHandler
    <3> QED
      BY <3>1
  <2>3. ASSUME NEW g \in Listeners, hand[g].source = T
        PROVE  FALSE
    <3>1. CASE \E x : Takes(h, x)
      <4>1. PICK x : Takes(h, x)
        BY <3>1
      <4>2. CASE g = h
        <5>1. hand[h] = Idle /\ r \in hand[h].source
          BY <2>1, <2>3, <4>1, <4>2 DEF Takes, MessagesOK
        <5> QED
          BY <5>1 DEF Idle
      <4>3. CASE g # h
        BY <1>0, <2>1, <2>3, <4>1, <4>3 DEF Takes, Only
      <4> QED
        BY <4>2, <4>3
    <3>2. CASE \E x : Keeps(h, x)
      BY <1>0, <2>1, <2>3, <3>2 DEF Keeps, Only
    <3>3. CASE Leaves(h)
      <4>1. CASE g = h
        <5>1. receipts' = receipts \ {T}
          BY <2>3, <3>3, <4>1 DEF Leaves, Listeners
        <5> QED
          BY <2>1, <5>1
      <4>2. CASE g # h
        BY <1>0, <2>1, <2>3, <3>3, <4>2 DEF Leaves, Only
      <4> QED
        BY <4>1, <4>2
    <3>4. CASE Refuses
      BY <2>1, <2>3, <3>4 DEF Refuses
    <3>5. CASE CrashHandler(h)
      BY <1>0, <1>1, <2>1, <2>3, <3>5 DEF CrashHandler
    <3> QED
      BY <3>1, <3>2, <3>3, <3>4, <3>5, HandKinds
  <2> QED
    BY <2>1, <2>2, <2>3 DEF Untaken
<1>2. ASSUME NEW x, Takes(h, x), r \in x.source
      PROVE  Untaken(r) /\ ~Untaken(r)'
  <2>1. /\ h \in Listeners /\ x.source \in receipts /\ receipts' = receipts
        /\ hand'[h] = x /\ hand[h].at = "idle"
    BY <1>0, <1>2 DEF Takes, Only
  <2>2. ASSUME NEW g \in Listeners, hand[g].source = x.source
        PROVE  FALSE
    <3>1. CASE g = h
      <4>1. hand[h] = Idle
        BY <2>1 DEF MessagesOK
      <4> QED
        BY <1>2, <2>2, <3>1, <4>1 DEF Idle
    <3>2. CASE g # h
      <4>1. (g = "receipt" /\ h = "failed") \/ (g = "failed" /\ h = "receipt")
        BY <2>1, <3>2 DEF Listeners
      <4>2. g = "receipt" /\ h = "failed" => FALSE
        BY <1>2, <2>2 DEF Takes, MessagesOK
      <4>3. g = "failed" /\ h = "receipt" => FALSE
        BY <1>2, <2>2 DEF Takes, MessagesOK
      <4> QED
        BY <4>1, <4>2, <4>3
    <3> QED
      BY <3>1, <3>2
  <2>3. Untaken(r)
    BY <1>2, <2>1, <2>2 DEF Untaken
  <2>4. \A T \in receipts : r \in T => T = x.source
    BY <1>2, <2>1 DEF MessagesOK
  <2>5. ~Untaken(r)'
    BY <2>1, <2>4 DEF Untaken
  <2> QED
    BY <2>3, <2>5
<1> QED
  BY <1>1, <1>2

LEMMA MessagesStep ==
    ASSUME TypeOK, MessagesOK, Next
    PROVE  MessagesOK'
<1>0. hand \in [Handlers -> Hand] /\ Listeners \subseteq Handlers
  BY DEF TypeOK, Handlers
<1>1. ASSUME UNCHANGED hand, receipts \subseteq receipts', came \subseteq came',
             \A S \in receipts' : S \subseteq came',
             \A S, T \in receipts' : S \cap T # {} => S = T
      PROVE  MessagesOK'
  BY <1>1 DEF MessagesOK
<1>2. CASE OutsideStep \/ PushStep
  <2>1. UNCHANGED <<hand, receipts, came>>
    BY <1>2, OutsideQuiet DEF Quiet, PushStep, Push, TakeQueue, Post, Record, CrashPusher, StorePush
  <2> QED
    BY <2>1 DEF MessagesOK
<1>3. ASSUME NEW S \in SUBSET (offered \ came), Arrive(S)
      PROVE  MessagesOK'
  <2>1. UNCHANGED hand /\ came' = came \cup S /\ receipts' = receipts \cup {S}
    BY <1>3 DEF Arrive
  <2>2. \A T \in receipts : T \subseteq came /\ T \cap S = {}
    BY DEF MessagesOK
  <2>3. \A T, U \in receipts : T \cap U # {} => T = U
    BY DEF MessagesOK
  <2> QED
    BY <1>1, <2>1, <2>2, <2>3
<1>4. ASSUME NEW h \in Handlers, HandStep(h)
      PROVE  MessagesOK'
  <2>0. came' = came
    BY <1>4, HandRestType
  <2>1. ASSUME NEW x, Only(h, x), x.at = "idle" => x = Idle,
               receipts' \subseteq receipts,
               IF h = "failed" THEN x.source \subseteq Fakes ELSE x.source \cap Fakes = {},
               h = "task" => x.source = {},
               \A g \in Listeners : hand'[g].source # {} => hand'[g].source \in receipts'
        PROVE  MessagesOK'
    <3>1. \A g \in Handlers : hand'[g] = IF g = h THEN x ELSE hand[g]
      BY <1>0, <2>1 DEF Only
    <3>2. \A g \in Handlers : hand'[g].at = "idle" => hand'[g] = Idle
      BY <2>1, <3>1 DEF MessagesOK
    <3>3. /\ hand'["receipt"].source \cap Fakes = {} /\ hand'["failed"].source \subseteq Fakes
          /\ hand'["task"].source = {}
      BY <2>1, <3>1 DEF MessagesOK, Handlers, Listeners
    <3>4. /\ \A S \in receipts' : S \subseteq came'
          /\ \A S, T \in receipts' : S \cap T # {} => S = T
      BY <2>0, <2>1 DEF MessagesOK
    <3> QED
      BY <2>1, <3>2, <3>3, <3>4 DEF MessagesOK
  <2>2. ASSUME NEW x, Takes(h, x)
        PROVE  MessagesOK'
    <3>1. /\ Only(h, x) /\ x.at # "idle" /\ receipts' = receipts
          /\ \A g \in Handlers : hand'[g] = IF g = h THEN x ELSE hand[g]
      BY <1>0, <2>2 DEF Takes, Only
    <3>2. /\ h = "task" => x.source = {}
          /\ IF h = "failed" THEN x.source \subseteq Fakes ELSE x.source \cap Fakes = {}
          /\ h \in Listeners => x.source \in receipts
      BY <2>2 DEF Takes, Listeners
    <3>3. \A g \in Listeners : hand'[g].source # {} => hand'[g].source \in receipts'
      BY <1>0, <3>1, <3>2 DEF MessagesOK
    <3> QED
      BY <2>1, <3>1, <3>2, <3>3
  <2>3. ASSUME NEW x, Keeps(h, x)
        PROVE  MessagesOK'
    <3>1. /\ Only(h, x) /\ x.at # "idle" /\ receipts' = receipts /\ x.source = hand[h].source
          /\ \A g \in Handlers : hand'[g] = IF g = h THEN x ELSE hand[g]
      BY <1>0, <2>3 DEF Keeps, Only
    <3>2. /\ h = "task" => x.source = {}
          /\ IF h = "failed" THEN x.source \subseteq Fakes ELSE x.source \cap Fakes = {}
      BY <3>1 DEF MessagesOK, Handlers, Listeners
    <3>3. \A g \in Listeners : hand'[g].source # {} => hand'[g].source \in receipts'
      BY <1>0, <3>1 DEF MessagesOK
    <3> QED
      BY <2>1, <3>1, <3>2, <3>3
  <2>4. CASE Leaves(h) \/ CrashHandler(h)
    <3>1. Only(h, Idle) /\ Idle.source = {}
      BY <2>4, IdleType DEF Leaves, CrashHandler, Only, Idle
    <3>2. \A g \in Handlers : hand'[g] = IF g = h THEN Idle ELSE hand[g]
      BY <1>0, <3>1 DEF Only
    <3>3. receipts' = receipts \/ (h \in Listeners /\ receipts' = receipts \ {hand[h].source})
      BY <2>4 DEF Leaves, CrashHandler
    <3>4. ASSUME NEW g \in Listeners, hand'[g].source # {}
          PROVE  hand'[g].source \in receipts'
      <4>1. g # h /\ hand'[g] = hand[g] /\ hand[g].source \in receipts /\ hand[g].source # {}
        BY <1>0, <3>1, <3>2, <3>4 DEF MessagesOK
      <4>2. h \in Listeners => hand[g].source # hand[h].source
        <5>1. ASSUME h \in Listeners, hand[g].source = hand[h].source
              PROVE  hand[g].source \cap Fakes = {} /\ hand[g].source \subseteq Fakes
          <6>1. (g = "receipt" /\ h = "failed") \/ (g = "failed" /\ h = "receipt")
            BY <4>1, <5>1 DEF Listeners
          <6> QED
            BY <5>1, <6>1 DEF MessagesOK
        <5> QED
          BY <4>1, <5>1
      <4> QED
        BY <3>3, <4>1, <4>2
    <3> QED
      BY <2>1, <3>1, <3>3, <3>4
  <2>5. CASE Refuses
    <3>1. PICK S \in receipts : receipts' = receipts \ {S} /\ S \cap Bare # {}
      BY <2>5 DEF Refuses
    <3>2. hand["failed"].source # S
      BY <3>1, ReportsAssumption DEF MessagesOK
    <3>3. hand["receipt"].source = {}
      BY <2>5 DEF MessagesOK, Refuses, Idle, Handlers, Listeners
    <3>4. \A g \in Listeners : hand[g].source # {} => hand[g].source \in receipts'
      BY <3>1, <3>2, <3>3 DEF MessagesOK, Listeners
    <3>5. /\ \A T \in receipts' : T \subseteq came'
          /\ \A T, U \in receipts' : T \cap U # {} => T = U
      BY <2>0, <3>1 DEF MessagesOK
    <3>6. hand' = hand
      BY <2>5 DEF Refuses
    <3> QED
      BY <3>4, <3>5, <3>6 DEF MessagesOK
  <2> QED
    BY <1>4, <2>2, <2>3, <2>4, <2>5, HandKinds
<1> QED
  BY <1>2, <1>3, <1>4, Steps

LEMMA CopyTypes ==
    ASSUME TypeOK, TakesOK, PusherOK, NEW r \in Reports
    PROVE  /\ unmatched[r] \in Nat /\ queue[r] \in Nat /\ posts[r] \in Nat
           /\ pusher.todo[r] \in Nat /\ pusher.group[r] \in Nat
           /\ pusher.group[r] <= pusher.todo[r]
           /\ \A h \in Handlers :
                  /\ Held(hand[h], r) \in Nat /\ hand[h].took[r] \in Nat
                  /\ hand[h].took[r] <= unmatched[r]
           /\ HeldByAll(r) \in Nat /\ CopiesOf(r) \in Nat
<1>1. /\ unmatched[r] \in Nat /\ queue[r] \in Nat /\ posts[r] \in Nat
      /\ pusher.todo[r] \in Nat /\ pusher.group[r] \in Nat
  BY PusherTypes DEF TypeOK, Batch
<1>2. pusher.group[r] <= pusher.todo[r]
  BY DEF PusherOK, AtMost
<1>3. \A h \in Handlers :
          /\ Held(hand[h], r) \in Nat /\ hand[h].took[r] \in Nat
          /\ hand[h].took[r] <= unmatched[r]
  BY HandTypes, HeldTypes DEF TakesOK, AtMost
<1>4. HeldByAll(r) \in Nat
  BY <1>3 DEF HeldByAll, Handlers, Listeners
<1>5. unmatched[r] - hand["task"].took[r] \in Nat
  BY <1>1, <1>3 DEF Handlers
<1>6. pusher.todo[r] - pusher.group[r] \in Nat
  BY <1>1, <1>2
<1>7. \A P : OneIf(P) \in Nat
  BY DEF OneIf
<1> QED
  BY <1>1, <1>2, <1>3, <1>4, <1>5, <1>6, <1>7 DEF CopiesOf

\* A step of one handler changes what that handler holds.
LEMMA HeldStep ==
    ASSUME TypeOK, TypeOK', NEW h \in Handlers, NEW x, Only(h, x), NEW r \in Reports
    PROVE  /\ HeldByAll(r)' + Held(hand[h], r) = HeldByAll(r) + Held(x, r)
           /\ Held(x, r) \in Nat /\ x.took[r] \in Nat
           /\ hand'["task"].took = IF h = "task" THEN x.took ELSE hand["task"].took
<1>1. hand \in [Handlers -> Hand] /\ x \in Hand
  BY DEF TypeOK, Only
<1>2. \A g \in Handlers : hand'[g] = IF g = h THEN x ELSE hand[g]
  BY <1>1 DEF Only
<1>3. /\ \A g \in Handlers : Held(hand[g], r) \in Nat
      /\ Held(x, r) \in Nat /\ x.took[r] \in Nat
  BY <1>1, HeldTypes
<1>4. HeldByAll(r)' = Held(hand'["receipt"], r) + Held(hand'["failed"], r) + Held(hand'["task"], r)
  BY DEF HeldByAll, Held
<1>5. CASE h = "receipt"
  BY <1>2, <1>3, <1>4, <1>5 DEF HeldByAll, Handlers, Listeners
<1>6. CASE h = "failed"
  BY <1>2, <1>3, <1>4, <1>6 DEF HeldByAll, Handlers, Listeners
<1>7. CASE h = "task"
  BY <1>2, <1>3, <1>4, <1>7 DEF HeldByAll, Handlers, Listeners
<1> QED
  BY <1>2, <1>3, <1>5, <1>6, <1>7 DEF Handlers, Listeners

\* What a crash of a handler lets it do again.
Again(h, r) == OneIf(r \in hand[h].source) + hand[h].took[r]

\* A handler moves copies and makes none, unless it crashes.
LEMMA HandCopies ==
    ASSUME TypeOK, TypeOK', TakesOK, TakesOK', PusherOK, PusherOK', MessagesOK,
           NEW h \in Handlers, HandStep(h), NEW r \in Reports
    PROVE  CopiesOf(r)' <= CopiesOf(r) + (IF CrashHandler(h) THEN Again(h, r) ELSE 0)
<1> DEFINE u == OneIf(Untaken(r))
           v == OneIf(Untaken(r)')
           w == unmatched[r] - hand["task"].took[r]
           z == unmatched'[r] - hand'["task"].took[r]
<1>0. came' = came /\ pusher' = pusher
  <2>1. came' = came
    BY HandRestType
  <2>2. pusher' = pusher
    BY HandAside
  <2> QED
    BY <2>1, <2>2
<1>1. /\ u \in Nat /\ v \in Nat /\ w \in Nat /\ z \in Nat
      /\ queue[r] \in Nat /\ queue'[r] \in Nat
      /\ unmatched[r] \in Nat /\ unmatched'[r] \in Nat
      /\ HeldByAll(r) \in Nat /\ HeldByAll(r)' \in Nat
      /\ hand[h].took[r] \in Nat /\ hand["task"].took[r] \in Nat
      /\ Held(hand[h], r) \in Nat /\ Held(hand[h], r) <= HeldByAll(r)
  <2>1. "task" \in Handlers
    BY DEF Handlers
  <2>2. u \in Nat /\ v \in Nat
    BY DEF OneIf
  <2>3. /\ queue[r] \in Nat /\ unmatched[r] \in Nat /\ HeldByAll(r) \in Nat
        /\ hand[h].took[r] \in Nat /\ hand["task"].took[r] \in Nat
        /\ Held(hand[h], r) \in Nat /\ w \in Nat
    BY <2>1, CopyTypes
  <2>4. Held(hand[h], r) <= HeldByAll(r)
    BY CopyTypes DEF HeldByAll, Handlers, Listeners
  <2>5. /\ queue'[r] \in Nat /\ unmatched'[r] \in Nat
        /\ hand'["task"].took[r] \in Nat /\ hand'["task"].took[r] <= unmatched'[r]
        /\ HeldByAll(r)' \in Nat
    <3>1. /\ queue' \in Batch /\ unmatched' \in Batch /\ hand' \in [Handlers -> Hand]
      BY DEF TypeOK
    <3>2. AtMost(hand'["task"].took, unmatched')
      BY <2>1 DEF TakesOK, AtMost
    <3>3. \A g \in Handlers : Held(hand'[g], r) \in Nat /\ hand'[g].took[r] \in Nat
      BY <3>1, HeldTypes
    <3>4. HeldByAll(r)' = Held(hand'["receipt"], r) + Held(hand'["failed"], r) + Held(hand'["task"], r)
      BY DEF HeldByAll, Held
    <3> QED
      BY <2>1, <3>1, <3>2, <3>3, <3>4 DEF AtMost, Batch, Handlers, Listeners
  <2> QED
    BY <2>2, <2>3, <2>4, <2>5
<1>2. /\ CopiesOf(r) = OneIf(r \notin came) + u + w + HeldByAll(r) + queue[r]
                       + (pusher.todo[r] - pusher.group[r])
      /\ CopiesOf(r)' = OneIf(r \notin came) + v + z + HeldByAll(r)' + queue'[r]
                       + (pusher.todo[r] - pusher.group[r])
  BY <1>0 DEF CopiesOf, OneIf
<1>3. OneIf(r \notin came) \in Nat /\ pusher.todo[r] - pusher.group[r] \in Nat
  BY CopyTypes DEF OneIf
<1>4. SUFFICES v + z + HeldByAll(r)' + queue'[r]
                   <= u + w + HeldByAll(r) + queue[r] + (IF CrashHandler(h) THEN Again(h, r) ELSE 0)
  <2>1. Again(h, r) \in Nat
    BY <1>1 DEF Again, OneIf
  <2> HIDE DEF u, v, w, z
  <2> QED
    BY <1>1, <1>2, <1>3, <2>1
<1>5. ~CrashHandler(h) => v <= u
  BY UntakenStep DEF OneIf
<1>6. ASSUME NEW x, Takes(h, x)
      PROVE  v + z + HeldByAll(r)' + queue'[r] <= u + w + HeldByAll(r) + queue[r]
  <2>0. /\ unmatched' = unmatched /\ queue' = queue /\ Only(h, x)
        /\ ~CrashHandler(h) /\ Held(hand[h], r) = 0
    <3>1. hand[h].at = "idle" /\ hand[h] = Idle
      BY <1>6 DEF Takes, MessagesOK
    <3> QED
      BY <1>6, <3>1, HeldIdle DEF Takes, CrashHandler
  <2>1. /\ HeldByAll(r)' + 0 = HeldByAll(r) + Held(x, r)
        /\ hand'["task"].took = IF h = "task" THEN x.took ELSE hand["task"].took
        /\ Held(x, r) \in Nat
    BY <2>0, HeldStep
  <2>2. CASE h # "task"
    <3>1. z = w /\ Held(x, r) = OneIf(r \in x.source)
      BY <1>6, <2>0, <2>1, <2>2 DEF Takes
    <3>2. v + OneIf(r \in x.source) <= u
      <4>1. CASE r \in x.source
        <5>1. Untaken(r) /\ ~Untaken(r)'
          BY <1>6, <4>1, UntakenStep
        <5> QED
          BY <4>1, <5>1 DEF OneIf
      <4>2. CASE r \notin x.source
        BY <1>1, <1>5, <2>0, <4>2 DEF OneIf
      <4> QED
        BY <4>1, <4>2
    <3>3. OneIf(r \in x.source) \in Nat
      BY DEF OneIf
    <3> HIDE DEF u, v, w, z
    <3> QED
      BY <1>1, <2>0, <2>1, <3>1, <3>2, <3>3
  <2>3. CASE h = "task"
    <3>1. hand["task"].took = Nothing /\ x.took = unmatched /\ Held(x, r) = unmatched[r]
      BY <1>6, <2>3 DEF Takes, MessagesOK, Idle, Listeners
    <3>2. w = unmatched[r] /\ z = 0
      BY <1>1, <2>0, <2>1, <2>3, <3>1 DEF Nothing
    <3> HIDE DEF u, v, w, z
    <3> QED
      BY <1>1, <1>5, <2>0, <2>1, <3>1, <3>2
  <2> QED
    BY <2>2, <2>3
<1>7. ASSUME NEW x, Keeps(h, x), ~CrashHandler(h)
      PROVE  v + z + HeldByAll(r)' + queue'[r] <= u + w + HeldByAll(r) + queue[r]
  <2>1. /\ HeldByAll(r)' + Held(hand[h], r) = HeldByAll(r) + Held(x, r)
        /\ hand'["task"].took = hand["task"].took /\ Held(x, r) \in Nat
    BY <1>7, HeldStep DEF Keeps
  <2>2. Held(x, r) + unmatched'[r] + queue'[r] <= Held(hand[h], r) + unmatched[r] + queue[r]
    BY <1>7 DEF Keeps
  <2>3. w = unmatched[r] - hand["task"].took[r] /\ z = unmatched'[r] - hand["task"].took[r]
    BY <2>1
  <2>4. v <= u
    BY <1>5, <1>7
  <2> HIDE DEF u, v, w, z
  <2> QED
    BY <1>1, <2>1, <2>2, <2>3, <2>4
<1>8. ASSUME Only(h, Idle)
       PROVE  /\ HeldByAll(r)' + Held(hand[h], r) = HeldByAll(r) + 0
              /\ hand'["task"].took = IF h = "task" THEN Nothing ELSE hand["task"].took
  <2>1. /\ HeldByAll(r)' + Held(hand[h], r) = HeldByAll(r) + Held(Idle, r)
        /\ hand'["task"].took = IF h = "task" THEN Idle.took ELSE hand["task"].took
    <3>1. \A x : Only(h, x) =>
              /\ HeldByAll(r)' + Held(hand[h], r) = HeldByAll(r) + Held(x, r)
              /\ hand'["task"].took = IF h = "task" THEN x.took ELSE hand["task"].took
      BY HeldStep
    <3> QED
      BY <1>8, <3>1
  <2>2. Held(Idle, r) = 0 /\ Idle.took = Nothing
    BY HeldIdle DEF Idle
  <2> QED
    BY <2>1, <2>2
<1>9. ASSUME Leaves(h), ~CrashHandler(h)
      PROVE  v + z + HeldByAll(r)' + queue'[r] <= u + w + HeldByAll(r) + queue[r]
  <2>1. /\ HeldByAll(r)' + Held(hand[h], r) = HeldByAll(r) + 0
        /\ hand'["task"].took = IF h = "task" THEN Nothing ELSE hand["task"].took
        /\ queue' = queue
    <3>1. Only(h, Idle) /\ queue' = queue
      BY <1>9 DEF Leaves
    <3> QED
      BY <1>8, <3>1
  <2>2. CASE h # "task"
    <3>1. z = w
      BY <1>9, <2>1, <2>2 DEF Leaves
    <3> HIDE DEF u, v, w, z
    <3> QED
      BY <1>1, <1>5, <1>9, <2>1, <3>1
  <2>3. CASE h = "task"
    <3>1. unmatched' = Less(unmatched, hand["task"].took)
      BY <1>9, <2>3 DEF Leaves, Listeners
    <3>2. z = w
      BY <1>1, <2>1, <2>3, <3>1 DEF Less, Nothing
    <3> HIDE DEF u, v, w, z
    <3> QED
      BY <1>1, <1>5, <1>9, <2>1, <3>2
  <2> QED
    BY <2>2, <2>3
<1>10. ASSUME Refuses, ~CrashHandler(h)
       PROVE  v + z + HeldByAll(r)' + queue'[r] <= u + w + HeldByAll(r) + queue[r]
  <2>1. z = w /\ queue' = queue
    BY <1>10 DEF Refuses
  <2>2. HeldByAll(r)' = HeldByAll(r)
    BY <1>10 DEF Refuses, HeldByAll, Held
  <2> HIDE DEF u, v, w, z
  <2> QED
    BY <1>1, <1>5, <1>10, <2>1, <2>2
<1>11. CASE CrashHandler(h)
  <2>1. /\ Only(h, Idle) /\ unmatched' = unmatched /\ queue' = queue
    BY <1>11, IdleType DEF CrashHandler, Only, pushing
  <2>2. /\ HeldByAll(r)' + Held(hand[h], r) = HeldByAll(r) + 0
        /\ hand'["task"].took = IF h = "task" THEN Nothing ELSE hand["task"].took
    BY <1>8, <2>1
  <2>3. v <= u + OneIf(r \in hand[h].source)
    BY UntakenStep DEF OneIf
  <2>4. z <= w + hand[h].took[r]
    <3>1. CASE h = "task"
      BY <1>1, <2>1, <2>2, <3>1 DEF Nothing
    <3>2. CASE h # "task"
      BY <1>1, <2>1, <2>2, <3>2
    <3> QED
      BY <3>1, <3>2
  <2>5. OneIf(r \in hand[h].source) \in Nat
    BY DEF OneIf
  <2> HIDE DEF u, v, w, z
  <2>6. v + z + HeldByAll(r)' + queue'[r] <= u + w + HeldByAll(r) + queue[r] + Again(h, r)
    BY <1>1, <2>1, <2>2, <2>3, <2>4, <2>5 DEF Again
  <2> QED
    BY <1>11, <2>6
<1> QED
  <2>1. CASE CrashHandler(h)
    BY <1>11, <2>1
  <2>2. CASE ~CrashHandler(h)
    <3>1. v + z + HeldByAll(r)' + queue'[r] <= u + w + HeldByAll(r) + queue[r]
      <4> HIDE DEF u, v, w, z
      <4> QED
        BY <1>6, <1>7, <1>9, <1>10, <2>2, HandKinds
    <3> HIDE DEF u, v, w, z
    <3> QED
      BY <1>1, <2>2, <3>1
  <2> QED
    BY <2>1, <2>2

-----------------------------------------------------------------------------
(* How often a report is posted                                            *)

\* Products of natural numbers.
LEMMA Products ==
    ASSUME NEW a \in Nat, NEW b \in Nat, NEW c \in Nat
    PROVE  /\ a * b \in Nat /\ a * (b + c) = a * b + a * c
           /\ b <= c => a * b <= a * c
           /\ a > 0 /\ a * b <= a * c => b <= c
<1>1. a * b \in Nat /\ a * c \in Nat /\ a * (b + c) = a * b + a * c
  OBVIOUS
<1>2. ASSUME b <= c PROVE a * b <= a * c
  <2>1. PICK d \in Nat : c = b + d
    <3>1. c - b \in Nat /\ c = b + (c - b)
      BY <1>2
    <3> QED
      BY <3>1
  <2>2. a * d \in Nat /\ a * (b + d) = a * b + a * d
    OBVIOUS
  <2> QED
    BY <1>1, <2>1, <2>2
<1>3. ASSUME a > 0, a * b <= a * c, b > c PROVE FALSE
  <2>1. PICK d \in Nat : b = c + d /\ d > 0
    <3>1. b - c \in Nat /\ b = c + (b - c) /\ b - c > 0
      BY <1>3
    <3> QED
      BY <3>1
  <2>2. a * (c + d) = a * c + a * d
    OBVIOUS
  <2>3. a * d \in Nat /\ a * d > 0
    BY <1>3, <2>1
  <2> QED
    BY <1>1, <1>3, <2>1, <2>2, <2>3
<1> QED
  BY <1>1, <1>2, <1>3

\* The size of a power set, counted: one more element doubles it.
LEMMA Doubling ==
    ASSUME NEW f \in Nat
    PROVE  2 ^ f \in Nat /\ 2 ^ f >= 1 /\ 2 ^ (f + 1) = 2 * 2 ^ f
<1> DEFINE S == SUBSET (1 .. f)
           V == {T \cup {f + 1} : T \in S}
           g == [T \in S |-> T \cup {f + 1}]
<1>1. ASSUME NEW n \in Nat
      PROVE  IsFiniteSet(SUBSET (1 .. n)) /\ Cardinality(SUBSET (1 .. n)) = 2 ^ n
  <2>1. IsFiniteSet(1 .. n) /\ Cardinality(1 .. n) = n
    BY FS_Interval
  <2> QED
    BY <2>1, FS_SUBSET
<1>2. f + 1 \notin 1 .. f /\ 1 .. (f + 1) = (1 .. f) \cup {f + 1}
  OBVIOUS
<1>3. \A T \in S : f + 1 \notin T
  BY <1>2
<1>4. SUBSET (1 .. (f + 1)) = S \cup V
  <2>1. ASSUME NEW W \in SUBSET (1 .. (f + 1)), f + 1 \in W
        PROVE  W \in V
    <3>1. W \ {f + 1} \in S /\ W = (W \ {f + 1}) \cup {f + 1}
      BY <1>2, <2>1
    <3> QED
      BY <3>1
  <2>2. \A W \in SUBSET (1 .. (f + 1)) : f + 1 \notin W => W \in S
    BY <1>2
  <2>3. S \cup V \subseteq SUBSET (1 .. (f + 1))
    BY <1>2
  <2> QED
    BY <2>1, <2>2, <2>3
<1>5. S \cap V = {}
  BY <1>3
<1>6. g \in Bijection(S, V)
  <2>1. \A T \in S : T = (T \cup {f + 1}) \ {f + 1}
    BY <1>3
  <2>2. \A T, W \in S : T \cup {f + 1} = W \cup {f + 1} => T = W
    BY <2>1
  <2>3. g \in [S -> V] /\ \A T \in S : g[T] = T \cup {f + 1}
    OBVIOUS
  <2>4. \A W \in V : \E T \in S : g[T] = W
    BY <2>3
  <2> HIDE DEF S, V, g
  <2> QED
    BY <2>2, <2>3, <2>4 DEF Bijection, Injection, Surjection, IsInjective
<1> HIDE DEF S, V, g
<1>7. IsFiniteSet(V) /\ Cardinality(V) = Cardinality(S)
  <2>1. ExistsBijection(S, V)
    BY <1>6 DEF ExistsBijection
  <2>2. IsFiniteSet(S)
    BY <1>1 DEF S
  <2> QED
    BY <2>1, <2>2, FS_Bijection
<1>8. IsFiniteSet(S) /\ Cardinality(S) = 2 ^ f
  BY <1>1 DEF S
<1>9. Cardinality(S \cup V) = 2 ^ (f + 1)
  BY <1>1, <1>4
<1>10. 2 ^ f \in Nat
  BY <1>8, FS_CardinalityType
<1>11. 2 ^ (f + 1) = 2 ^ f + 2 ^ f
  <2>1. Cardinality(S \cap V) = 0
    BY <1>5, FS_EmptySet
  <2>2. Cardinality(S \cup V) = Cardinality(S) + Cardinality(V) - Cardinality(S \cap V)
    BY <1>7, <1>8, FS_Union
  <2>3. 2 ^ (f + 1) = Cardinality(S) + Cardinality(V) - 0
    BY <1>9, <2>1, <2>2
  <2>4. 2 ^ (f + 1) = 2 ^ f + 2 ^ f - 0
    BY <1>7, <1>8, <2>3
  <2> QED
    BY <1>10, <2>4
<1>12. 2 ^ f # 0
  <2>1. {} \in S
    BY DEF S
  <2> QED
    BY <1>8, <2>1, FS_EmptySet
<1> QED
  BY <1>10, <1>11, <1>12

\* A group is posted Tries times at most, the rest of the batch comes later.
LEMMA GroupTries ==
    ASSUME NEW left \in Batch, NEW x \in NextGroup(left), NEW r \in Reports
    PROVE  TriesLeft(x, r) + Tries * (x.todo[r] - x.group[r]) <= Tries * left[r]
<1>0. Tries \in Nat /\ left[r] \in Nat
  BY BoundsAssumption DEF Tries, Batch
<1>1. x \in Pusher /\ AtMost(x.group, x.todo)
  BY GroupFacts
<1>2. x.todo[r] \in Nat /\ x.group[r] \in Nat /\ x.group[r] <= x.todo[r]
  BY <1>1 DEF Pusher, Batch, AtMost
<1>3. CASE In(left) = {}
  <2>1. x = Resting
    BY <1>3 DEF NextGroup
  <2>2. TriesLeft(x, r) = 0 /\ x.todo[r] - x.group[r] = 0
    BY <2>1 DEF TriesLeft, Resting, Nothing
  <2> QED
    BY <1>0, <2>2, Products
<1>4. CASE In(left) # {}
  <2>1. PICK p \in In(left) :
            x = [at |-> "post", todo |-> left, attempt |-> 1,
                 group |-> Restricted(left, {q \in Reports : urlOf[MsgOf(q)] = urlOf[MsgOf(p)]})]
    BY <1>4 DEF NextGroup
  <2>2. x.at = "post" /\ x.todo = left /\ x.attempt = 1
    BY <2>1
  <2> DEFINE g == x.group[r]
             d == left[r] - x.group[r]
  <2>3. g \in Nat /\ d \in Nat /\ g + d = left[r]
    BY <1>0, <1>2, <2>2
  <2>4. TriesLeft(x, r) = g * (Tries + 1 - 1) /\ x.todo[r] - x.group[r] = d
    BY <2>2 DEF TriesLeft
  <2> HIDE DEF g, d
  <2>5. Tries * (g + d) = Tries * g + Tries * d /\ Tries + 1 - 1 = Tries
    BY <1>0, <2>3, Products
  <2>6. Tries * g = g * Tries /\ Tries * g \in Nat /\ Tries * d \in Nat
    BY <1>0, <2>3
  <2> QED
    BY <2>3, <2>4, <2>5, <2>6
<1> QED
  BY <1>3, <1>4

LEMMA PostingTypes ==
    ASSUME TypeOK, TakesOK, PusherOK, NEW r \in Reports
    PROVE  /\ Tries \in Nat /\ Tries > 0 /\ Tries * CopiesOf(r) \in Nat
           /\ TriesLeft(pusher, r) \in Nat /\ posts[r] \in Nat /\ Posting(r) \in Nat
           /\ pusher.at = "post" => pusher.group[r] <= TriesLeft(pusher, r)
           /\ pusher.at = "post" => pusher.attempt \in 0 .. Tries
           /\ pusher.at # "post" => TriesLeft(pusher, r) = 0
<1>1. Tries \in Nat /\ Tries > 0
  BY BoundsAssumption DEF Tries
<1>2. CopiesOf(r) \in Nat /\ posts[r] \in Nat /\ pusher.group[r] \in Nat
  BY CopyTypes
<1>3. pusher.attempt \in 0 .. Tries
  BY DEF TypeOK, Pusher, Tries
<1>4. CASE pusher.at = "post"
  <2> DEFINE n == Tries + 1 - pusher.attempt
             g == pusher.group[r]
  <2>1. n \in Nat /\ n >= 1 /\ g \in Nat
    BY <1>1, <1>2, <1>3
  <2>2. TriesLeft(pusher, r) = g * n
    BY <1>4 DEF TriesLeft
  <2> HIDE DEF n, g
  <2>3. g * n \in Nat /\ g * 1 <= g * n /\ g * 1 = g
    BY <2>1, Products
  <2>4. TriesLeft(pusher, r) \in Nat /\ pusher.group[r] <= TriesLeft(pusher, r)
    BY <2>2, <2>3 DEF g
  <2> QED
    BY <1>1, <1>2, <1>3, <1>4, <2>4, Products DEF Posting
<1>5. CASE pusher.at # "post"
  <2>1. TriesLeft(pusher, r) = 0
    BY <1>5 DEF TriesLeft
  <2> QED
    BY <1>1, <1>2, <1>5, <2>1, Products DEF Posting
<1> QED
  BY <1>4, <1>5

\* The thread posts what it had left to post.
LEMMA PushPosting ==
    ASSUME TypeOK, TypeOK', TakesOK, TakesOK', PusherOK, PusherOK', PushStep, NEW r \in Reports
    PROVE  Posting(r)' <= Posting(r)
<1> DEFINE rest == OneIf(r \notin came) + OneIf(Untaken(r))
                   + (unmatched[r] - hand["task"].took[r]) + HeldByAll(r)
           d == pusher.todo[r] - pusher.group[r]
           e == pusher'.todo[r] - pusher'.group[r]
           g == pusher.group[r]
           left == TriesLeft(pusher, r)
           left1 == TriesLeft(pusher', r)
<1>1. UNCHANGED <<came, receipts, unmatched, hand>>
  BY DEF PushStep, Push, TakeQueue, Post, Record, CrashPusher, StorePush
<1>2. /\ Posting(r) = posts[r] + left + Tries * (rest + queue[r] + d)
      /\ Posting(r)' = posts'[r] + left1 + Tries * (rest + queue'[r] + e)
  <2>1. /\ CopiesOf(r) = rest + queue[r] + d
        /\ CopiesOf(r)' = rest + queue'[r] + e
    BY <1>1 DEF CopiesOf, OneIf, Untaken, HeldByAll, Held
  <2>2. TriesLeft(pusher, r)' = left1
    BY DEF TriesLeft
  <2> HIDE DEF rest, d, e, left, left1
  <2> QED
    BY <2>1, <2>2 DEF Posting, Tries, left
<1>3. /\ rest \in Nat /\ d \in Nat /\ queue[r] \in Nat /\ posts[r] \in Nat /\ left \in Nat
      /\ g \in Nat /\ Tries \in Nat
  <2>1. /\ unmatched[r] \in Nat /\ hand["task"].took[r] \in Nat
        /\ hand["task"].took[r] <= unmatched[r] /\ HeldByAll(r) \in Nat
        /\ pusher.todo[r] \in Nat /\ pusher.group[r] \in Nat /\ pusher.group[r] <= pusher.todo[r]
        /\ queue[r] \in Nat /\ posts[r] \in Nat
    BY CopyTypes DEF Handlers
  <2>2. \A P : OneIf(P) \in Nat
    BY DEF OneIf
  <2>3. left \in Nat /\ Tries \in Nat
    BY PostingTypes
  <2> QED
    BY <2>1, <2>2, <2>3
<1>4. /\ e \in Nat /\ queue'[r] \in Nat /\ left1 \in Nat
  <2>1. /\ pusher' \in Pusher /\ queue' \in Batch /\ AtMost(pusher'.group, pusher'.todo)
    BY DEF TypeOK, PusherOK, AtMost
  <2>2. pusher'.todo[r] \in Nat /\ pusher'.group[r] \in Nat /\ pusher'.group[r] <= pusher'.todo[r]
    BY <2>1 DEF Pusher, Batch, AtMost
  <2>3. pusher'.attempt \in 0 .. Tries
    BY <2>1 DEF Pusher, Tries
  <2>4. Tries + 1 - pusher'.attempt \in Nat
    BY <1>3, <2>3
  <2>5. pusher'.group[r] * (Tries + 1 - pusher'.attempt) \in Nat
    BY <2>2, <2>4, Products
  <2> QED
    BY <2>1, <2>2, <2>5 DEF TriesLeft, Batch
<1> HIDE DEF rest, e, left, left1, d, g
<1>5. ASSUME NEW n \in Nat, queue[r] + d = n + queue'[r], posts'[r] = posts[r],
             left1 + Tries * e <= Tries * n
      PROVE  Posting(r)' <= Posting(r)
  <2> DEFINE b == rest + queue'[r]
  <2>1. rest + queue[r] + d = b + n /\ b \in Nat
    <3>1. queue[r] + d = n + queue'[r]
      BY <1>5
    <3> QED
      BY <1>3, <1>4, <3>1
  <2> HIDE DEF b
  <2>2. /\ Tries * (b + n) = Tries * b + Tries * n
        /\ Tries * (b + e) = Tries * b + Tries * e
        /\ Tries * b \in Nat /\ Tries * n \in Nat /\ Tries * e \in Nat
    <3>1. \A i, j \in Nat : Tries * (i + j) = Tries * i + Tries * j /\ Tries * i \in Nat
      BY <1>3, Products
    <3> QED
      BY <1>4, <2>1, <3>1
  <2> DEFINE k == Tries * b
             l == Tries * n
             m == Tries * e
  <2>3. /\ Posting(r) = posts[r] + left + (k + l)
        /\ Posting(r)' = posts[r] + left1 + (k + m)
    BY <1>2, <1>5, <2>1, <2>2 DEF b
  <2>4. k \in Nat /\ l \in Nat /\ m \in Nat /\ left1 + m <= l
    BY <1>5, <2>2
  <2> HIDE DEF k, l, m
  <2> QED
    BY <1>3, <1>4, <2>3, <2>4
<1>6. CASE TakeQueue
  <2>1. /\ queue' = Nothing /\ posts' = posts /\ pusher.at = "read"
        /\ pusher' \in NextGroup(queue)
    BY <1>6 DEF TakeQueue
  <2>2. d = 0
    <3>1. In(pusher.todo) = {} /\ pusher.todo[r] \in Nat /\ pusher.group[r] \in Nat
          /\ pusher.group[r] <= pusher.todo[r]
      BY <2>1, CopyTypes DEF PusherOK
    <3> QED
      BY <3>1 DEF d, In
  <2>3. left1 + Tries * e <= Tries * queue[r]
    BY <2>1, GroupTries, PusherTypes DEF left1, e
  <2>4. queue'[r] = 0
    BY <2>1 DEF Nothing
  <2>5. queue[r] + d = queue[r] + queue'[r]
    BY <2>2, <2>4
  <2> QED
    BY <1>3, <1>5, <2>1, <2>3, <2>5
<1>7. CASE Record
  <2>1. /\ queue' = queue /\ posts' = posts
        /\ pusher' \in NextGroup(Less(pusher.todo, pusher.group))
    BY <1>7 DEF Record
  <2>2. Less(pusher.todo, pusher.group) \in Batch /\ Less(pusher.todo, pusher.group)[r] = d
    BY PusherTypes DEF Less, d
  <2>3. left1 + Tries * e <= Tries * d
    BY <2>1, <2>2, GroupTries DEF left1, e
  <2>4. queue[r] + d = d + queue'[r]
    BY <1>3, <2>1
  <2> QED
    BY <1>3, <1>5, <2>1, <2>3, <2>4
<1>8. CASE CrashPusher
  <2>1. queue' = queue /\ posts' = posts /\ pusher' = Resting
    BY <1>8 DEF CrashPusher
  <2>2. left1 = 0 /\ e = 0
    BY <2>1 DEF left1, e, TriesLeft, Resting, Nothing
  <2>3. Tries * 0 = 0 /\ Tries * d \in Nat
    BY <1>3, Products
  <2>4. left1 + Tries * e <= Tries * d
    BY <2>2, <2>3
  <2>5. queue[r] + d = d + queue'[r]
    BY <1>3, <2>1
  <2> QED
    BY <1>3, <1>5, <2>1, <2>4, <2>5
<1>9. CASE Post
  <2>1. pusher.at = "post" /\ queue' = queue /\ posts'[r] = posts[r] + g
    BY <1>9, PusherTypes, BagElements DEF Post, g
  <2>2. /\ e = d
        /\ \/ pusher'.at = "record"
           \/ pusher'.at = "post" /\ pusher'.attempt = pusher.attempt + 1 /\ pusher'.group[r] = g
    <3>1. CASE pusher' = [pusher EXCEPT !.at = "record"]
      BY <3>1 DEF TypeOK, Pusher, e, d
    <3>2. CASE pusher' = [pusher EXCEPT !.attempt = @ + 1]
      BY <2>1, <3>2 DEF TypeOK, Pusher, e, d, g
    <3> QED
      BY <1>9, <3>1, <3>2 DEF Post
  <2>3. left1 + g <= left
    <3>1. CASE pusher'.at = "record"
      <4>1. left1 = 0
        BY <3>1 DEF left1, TriesLeft
      <4>2. g <= left
        BY <2>1, PostingTypes DEF g, left
      <4> QED
        BY <1>3, <4>1, <4>2
    <3>2. CASE pusher'.at = "post" /\ pusher'.attempt = pusher.attempt + 1 /\ pusher'.group[r] = g
      <4> DEFINE n == Tries - pusher.attempt
      <4>1. pusher.attempt \in 0 .. Tries
        BY <2>1, PostingTypes
      <4>2. /\ n \in Nat /\ Tries + 1 - pusher.attempt = n + 1
            /\ Tries + 1 - (pusher.attempt + 1) = n
        BY <1>3, <4>1
      <4>3. left = g * (n + 1) /\ left1 = g * n
        BY <2>1, <3>2, <4>2 DEF left, left1, TriesLeft, g
      <4> HIDE DEF n
      <4>4. g * (n + 1) = g * n + g * 1 /\ g * 1 = g /\ g * n \in Nat
        BY <1>3, <4>2, Products
      <4> QED
        BY <1>3, <4>3, <4>4
    <3> QED
      BY <2>2, <3>1, <3>2
  <2>4. Tries * (rest + queue[r] + d) \in Nat
    BY <1>3, Products
  <2>5. Posting(r)' = (posts[r] + g) + left1 + Tries * (rest + queue[r] + d)
    BY <1>2, <2>1, <2>2
  <2> QED
    BY <1>2, <1>3, <1>4, <2>3, <2>4, <2>5
<1>10. CASE \E k \in Keys : StorePush(k)
  <2>1. queue' = queue /\ posts' = posts /\ pusher' = pusher
    BY <1>10 DEF StorePush
  <2>2. left1 = left /\ e = d
    BY <2>1 DEF left1, left, e, d, TriesLeft
  <2>3. Posting(r)' = Posting(r)
    BY <1>2, <2>1, <2>2
  <2> QED
    BY <2>3, PostingTypes
<1> QED
  BY <1>6, <1>7, <1>8, <1>9, <1>10 DEF PushStep, Push

Counts == \A r \in Reports : CopiesOf(r) \in Nat /\ Posting(r) \in Nat
LEMMA CountTypes == TypeOK /\ TakesOK /\ PusherOK => Counts
BY CopyTypes, PostingTypes DEF Counts

LEMMA CountTypesNext == TypeOK' /\ TakesOK' /\ PusherOK' => Counts'
BY CountTypes, PTL

LEMMA FaultsStep ==
    ASSUME Next
    PROVE  /\ faults' = faults \/ faults' = faults + 1
           /\ \A h \in Handlers : CrashHandler(h) => faults' = faults + 1
<1>1. ASSUME OutsideStep
      PROVE  Fault \/ faults' = faults
  <2>1. ASSUME NEW m \in Msgs, ListSubmits(m) \/ ListSubmitsFails(m) \/ Expire(m)
        PROVE  Fault \/ faults' = faults
    BY <2>1 DEF ListSubmits, ListSubmitsFails, Expire, outcome
  <2>2. ASSUME NEW k \in Keys, SetReady(k) \/ StoreSubmits(k)
        PROVE  Fault \/ faults' = faults
    BY <2>2 DEF SetReady, StoreSubmits, outcome
  <2> QED
    BY <1>1, <2>1, <2>2 DEF OutsideStep
<1>2. ASSUME PushStep
      PROVE  Fault \/ faults' = faults
  BY <1>2 DEF PushStep, Push, TakeQueue, Post, Record, CrashPusher, StorePush, outcome
<1>3. ASSUME NEW S \in SUBSET (offered \ came), Arrive(S)
      PROVE  Fault \/ faults' = faults
  BY <1>3 DEF Arrive, outcome
<1>4. ASSUME NEW h \in Handlers, HandStep(h)
      PROVE  Fault \/ faults' = faults
  <2>1. CASE Receive(h)
    <3>1. \A S \in receipts : PutAside(S) \/ TakeReceipt(S) => faults' = faults
      BY DEF PutAside, TakeReceipt, outcome
    <3>2. ListFake \/ ReadUnmatched => faults' = faults
      BY DEF ListFake, ReadUnmatched, outcome
    <3>3. \A f \in Fakes : TakeFake(f) => Fault \/ faults' = faults
      BY DEF TakeFake
    <3> QED
      BY <2>1, <3>1, <3>2, <3>3 DEF Receive
  <2>2. CASE \E r \in Reports : Found(h, r) \/ FoundPushed(h, r) \/ NotFound(h, r)
    BY <2>2 DEF Found, FoundPushed, NotFound, Matching
  <2>3. CASE \/ Park(h) \/ QueueOut(h) \/ ParkFails(h) \/ QueueOutFails(h) \/ CrashHandler(h)
             \/ Acknowledge(h) \/ TrimUnmatched \/ ListFakeFails
    BY <2>3 DEF Park, QueueOut, ParkFails, QueueOutFails, CrashHandler, Acknowledge,
                TrimUnmatched, ListFakeFails, outcome
  <2> QED
    BY <1>4, <2>1, <2>2, <2>3 DEF HandStep, Handle
<1>5. \A h \in Handlers : CrashHandler(h) => faults' = faults + 1
  BY DEF CrashHandler, Fault
<1>6. Fault \/ faults' = faults
  BY <1>1, <1>2, <1>3, <1>4, Steps
<1> QED
  BY <1>5, <1>6 DEF Fault

\* A report that comes is the copy that was still to come.
LEMMA ArriveCopies ==
    ASSUME TypeOK, TakesOK, PusherOK, MessagesOK,
           NEW S \in SUBSET (offered \ came), Arrive(S), NEW r \in Reports
    PROVE  CopiesOf(r)' <= CopiesOf(r)
<1> DEFINE b == (unmatched[r] - hand["task"].took[r]) + HeldByAll(r) + queue[r]
                + (pusher.todo[r] - pusher.group[r])
<1>1. /\ UNCHANGED <<unmatched, hand, queue, pusher>>
      /\ came' = came \cup S /\ receipts' = receipts \cup {S}
  BY DEF Arrive, pushing
<1>2. /\ CopiesOf(r) = OneIf(r \notin came) + OneIf(Untaken(r)) + b
      /\ CopiesOf(r)' = OneIf(r \notin came') + OneIf(Untaken(r)') + b
      /\ b \in Int
  <2>1. /\ unmatched[r] \in Nat /\ hand["task"].took[r] \in Nat /\ HeldByAll(r) \in Nat
        /\ pusher.todo[r] \in Nat /\ pusher.group[r] \in Nat /\ queue[r] \in Nat
    BY CopyTypes DEF Handlers
  <2>2. HeldByAll(r)' = HeldByAll(r)
    BY <1>1 DEF HeldByAll, Held
  <2>3. \A P : OneIf(P) \in Nat
    BY DEF OneIf
  <2> QED
    BY <1>1, <2>1, <2>2, <2>3 DEF CopiesOf, OneIf
<1>3. OneIf(r \notin came') + OneIf(Untaken(r)') <= OneIf(r \notin came) + OneIf(Untaken(r))
  <2>1. CASE r \in S
    <3>1. r \notin came /\ r \in came' /\ ~Untaken(r)
      BY <1>1, <2>1 DEF Untaken, MessagesOK
    <3> QED
      BY <3>1 DEF OneIf
  <2>2. CASE r \notin S
    <3>1. (r \in came' <=> r \in came) /\ (Untaken(r)' => Untaken(r))
      BY <1>1, <2>2 DEF Untaken
    <3> QED
      BY <3>1 DEF OneIf
  <2> QED
    BY <2>1, <2>2
<1>4. \A P : OneIf(P) \in Nat
  BY DEF OneIf
<1> HIDE DEF b
<1> QED
  BY <1>2, <1>3, <1>4

\* Fewer copies, fewer posts, as long as the thread does nothing.
LEMMA FewerCopies ==
    ASSUME TypeOK, TypeOK', TakesOK, TakesOK', PusherOK, PusherOK', NEW r \in Reports,
           UNCHANGED <<pusher, posts>>, NEW n \in Nat, CopiesOf(r)' <= CopiesOf(r) + n
    PROVE  Posting(r)' <= Posting(r) + Tries * n /\ Tries * n \in Nat
<1> DEFINE c == CopiesOf(r)
           c1 == CopiesOf(r)'
           left == TriesLeft(pusher, r)
<1>1. c \in Nat /\ Tries \in Nat /\ left \in Nat /\ posts[r] \in Nat
  BY CopyTypes, PostingTypes
<1>2. c1 \in Nat
  BY CountTypesNext DEF Counts
<1>3. /\ Posting(r) = posts[r] + left + Tries * c
      /\ Posting(r)' = posts[r] + left + Tries * c1
  BY DEF Posting, TriesLeft, Tries
<1>4. c1 <= c + n
  OBVIOUS
<1> HIDE DEF c, c1, left
<1>5. /\ Tries * c1 <= Tries * (c + n) /\ Tries * (c + n) = Tries * c + Tries * n
      /\ Tries * c \in Nat /\ Tries * c1 \in Nat /\ Tries * n \in Nat
  <2>1. c + n \in Nat
    BY <1>1
  <2> QED
    BY <1>1, <1>2, <1>4, <2>1, Products
<1> DEFINE k == Tries * c
           l == Tries * c1
           m == Tries * n
<1>6. /\ Posting(r) = posts[r] + left + k /\ Posting(r)' = posts[r] + left + l
      /\ l <= k + m /\ k \in Nat /\ l \in Nat /\ m \in Nat
  BY <1>3, <1>5
<1> HIDE DEF k, l, m
<1>7. Posting(r)' <= Posting(r) + m /\ m \in Nat
  BY <1>1, <1>6
<1> QED
  BY <1>7 DEF m

\* What the task takes from the list is not more than the copies there are.
LEMMA TookStep ==
    ASSUME TypeOK, TakesOK, PusherOK, MessagesOK, PostsOK,
           NEW h \in Handlers, HandStep(h), NEW r \in Reports
    PROVE  hand'["task"].took[r] <= 2 ^ faults
<1>0. /\ hand["task"].took[r] <= 2 ^ faults /\ Posting(r) <= Tries * 2 ^ faults
      /\ 2 ^ faults \in Nat
  BY Doubling DEF PostsOK, TypeOK
<1>1. ASSUME NEW x, Only(h, x), h # "task" \/ x.took = hand["task"].took \/ x.took = Nothing
      PROVE  hand'["task"].took[r] <= 2 ^ faults
  <2>1. hand'["task"].took \in {hand["task"].took, Nothing}
    BY <1>1 DEF Only, TypeOK, Handlers
  <2> QED
    BY <1>0, <2>1 DEF Nothing
<1>2. ASSUME NEW x, Takes(h, x), h = "task"
      PROVE  hand'["task"].took[r] <= 2 ^ faults
  <2>1. hand["task"].took = Nothing /\ hand'["task"].took = unmatched
    BY <1>2 DEF Takes, Only, TypeOK, MessagesOK, Idle, Listeners
  <2>2. unmatched[r] <= CopiesOf(r) /\ unmatched[r] \in Nat /\ CopiesOf(r) \in Nat
    <3>1. /\ unmatched[r] \in Nat /\ HeldByAll(r) \in Nat /\ queue[r] \in Nat
          /\ pusher.todo[r] \in Nat /\ pusher.group[r] \in Nat
          /\ pusher.group[r] <= pusher.todo[r] /\ CopiesOf(r) \in Nat
      BY CopyTypes
    <3>2. \A P : OneIf(P) \in Nat
      BY DEF OneIf
    <3>3. hand["task"].took[r] = 0
      BY <2>1 DEF Nothing
    <3> QED
      BY <3>1, <3>2, <3>3 DEF CopiesOf
  <2>3. /\ Tries \in Nat /\ Tries > 0 /\ Tries * CopiesOf(r) \in Nat
        /\ posts[r] \in Nat /\ TriesLeft(pusher, r) \in Nat
    BY PostingTypes
  <2>4. Tries * CopiesOf(r) <= Tries * 2 ^ faults
    <3> DEFINE k == Tries * CopiesOf(r)
               l == Tries * 2 ^ faults
               m == TriesLeft(pusher, r)
    <3>1. posts[r] + m + k <= l
      BY <1>0 DEF Posting
    <3>2. k \in Nat /\ l \in Nat /\ m \in Nat
      BY <1>0, <2>3, Products
    <3> HIDE DEF k, l, m
    <3>3. k <= l
      BY <2>3, <3>1, <3>2
    <3> QED
      BY <3>3 DEF k, l
  <2>5. CopiesOf(r) <= 2 ^ faults
    BY <1>0, <2>2, <2>3, <2>4, Products
  <2> QED
    BY <1>0, <2>1, <2>2, <2>5
<1>3. ASSUME NEW x, Keeps(h, x)
      PROVE  hand'["task"].took[r] <= 2 ^ faults
  BY <1>1, <1>3 DEF Keeps
<1>4. CASE Leaves(h) \/ CrashHandler(h)
  <2>1. Only(h, Idle) /\ Idle.took = Nothing
    BY <1>4, IdleType DEF Leaves, CrashHandler, Only, Idle
  <2> QED
    BY <1>1, <2>1
<1>5. CASE Refuses
  BY <1>0, <1>5 DEF Refuses
<1>6. ASSUME NEW x, Takes(h, x)
      PROVE  hand'["task"].took[r] <= 2 ^ faults
  BY <1>1, <1>2, <1>6 DEF Takes
<1> QED
  BY <1>3, <1>4, <1>5, <1>6, HandKinds

LEMMA PostsStep ==
    ASSUME TypeOK, TypeOK', TakesOK, TakesOK', PusherOK, PusherOK', MessagesOK, PostsOK, Next
    PROVE  PostsOK'
<1> SUFFICES ASSUME NEW r \in Reports
             PROVE  /\ Posting(r)' <= Tries * 2 ^ faults'
                    /\ hand'["task"].took[r] <= 2 ^ faults'
  BY DEF PostsOK, Tries
<1> DEFINE p == 2 ^ faults
           q == 2 ^ faults'
<1>1. /\ p \in Nat /\ q \in Nat /\ p >= 1
      /\ q = p \/ q = 2 * p
      /\ \A h \in Handlers : CrashHandler(h) => q = 2 * p
  <2>1. faults \in Nat
    BY DEF TypeOK
  <2>2. p \in Nat /\ p >= 1 /\ 2 ^ (faults + 1) = 2 * p
    BY <2>1, Doubling
  <2> QED
    BY <2>2, FaultsStep
<1>2. Posting(r) <= Tries * p /\ hand["task"].took[r] <= p
  BY DEF PostsOK
<1> HIDE DEF p, q
<1>3. /\ Tries \in Nat /\ Posting(r) \in Nat /\ hand["task"].took[r] \in Nat
      /\ hand'["task"].took[r] \in Nat
  <2>1. hand' \in [Handlers -> Hand] /\ hand \in [Handlers -> Hand] /\ "task" \in Handlers
    BY DEF TypeOK, Handlers
  <2> QED
    BY <2>1, PostingTypes, HeldTypes
<1>4. p <= q /\ Tries * p \in Nat /\ Tries * q \in Nat /\ Tries * p <= Tries * q
  <2>1. p <= q
    BY <1>1
  <2> QED
    BY <1>1, <1>3, <2>1, Products
<1>5. Posting(r)' \in Nat
  BY CountTypesNext DEF Counts
<1>6. ASSUME Posting(r)' <= Posting(r), hand'["task"].took[r] <= p
      PROVE  Posting(r)' <= Tries * q /\ hand'["task"].took[r] <= q
  BY <1>1, <1>2, <1>3, <1>4, <1>5, <1>6
<1>7. CASE OutsideStep
  <2>1. UNCHANGED <<came, receipts, unmatched, hand, queue, pusher, posts>>
    BY <1>7, OutsideQuiet DEF Quiet
  <2>2. Posting(r)' = Posting(r)
    BY <2>1 DEF Posting, TriesLeft, CopiesOf, HeldByAll, Held, Untaken, OneIf, Tries
  <2> QED
    BY <1>2, <1>3, <1>6, <2>1, <2>2 DEF q
<1>8. CASE PushStep
  <2>1. UNCHANGED hand
    BY <1>8 DEF PushStep, Push, TakeQueue, Post, Record, CrashPusher, StorePush
  <2> QED
    <3>1. Posting(r)' <= Posting(r)
      BY <1>8, PushPosting
    <3> QED
      BY <1>2, <1>6, <2>1, <3>1 DEF q
<1>9. ASSUME NEW S \in SUBSET (offered \ came), Arrive(S)
      PROVE  Posting(r)' <= Tries * q /\ hand'["task"].took[r] <= q
  <2>1. UNCHANGED <<pusher, posts, hand>>
    BY <1>9 DEF Arrive, pushing
  <2>2. CopiesOf(r)' <= CopiesOf(r) + 0
    BY <1>9, ArriveCopies, CountTypes DEF Counts
  <2>3. Posting(r)' <= Posting(r) + Tries * 0 /\ Tries * 0 = 0
    BY <1>3, <2>1, <2>2, FewerCopies
  <2> QED
    BY <1>2, <1>3, <1>5, <1>6, <2>1, <2>3
<1>10. ASSUME NEW h \in Handlers, HandStep(h)
       PROVE  Posting(r)' <= Tries * q /\ hand'["task"].took[r] <= q
  <2>1. UNCHANGED <<pusher, posts>>
    BY <1>10, HandAside
  <2>2. hand'["task"].took[r] <= p
    BY <1>10, TookStep DEF p
  <2>3. CASE ~CrashHandler(h)
    <3>1. CopiesOf(r)' <= CopiesOf(r) + 0
      BY <1>10, <2>3, HandCopies
    <3>2. Posting(r)' <= Posting(r) + Tries * 0 /\ Tries * 0 = 0
      BY <1>3, <2>1, <3>1, FewerCopies
    <3> QED
      BY <1>3, <1>5, <1>6, <2>2, <3>2
  <2>4. CASE CrashHandler(h)
    <3>1. Again(h, r) \in Nat /\ Again(h, r) <= p
      <4>1. CASE h = "task"
        <5>1. r \notin hand[h].source
          BY <4>1 DEF MessagesOK
        <5>2. Again(h, r) = 0 + hand["task"].took[r]
          BY <4>1, <5>1 DEF Again, OneIf
        <5> QED
          BY <1>2, <1>3, <5>2
      <4>2. CASE h \in Listeners
        <5>1. hand[h].took[r] = 0
          BY <4>2 DEF TakesOK, Nothing
        <5>2. Again(h, r) \in {0, 1}
          BY <5>1 DEF Again, OneIf
        <5> QED
          BY <1>1, <5>2
      <4> QED
        BY <4>1, <4>2 DEF Handlers
    <3> DEFINE n == Again(h, r)
    <3>2. CopiesOf(r)' <= CopiesOf(r) + n
      BY <1>10, <2>4, HandCopies
    <3>3. Posting(r)' <= Posting(r) + Tries * n /\ Tries * n \in Nat
      BY <2>1, <3>1, <3>2, FewerCopies
    <3> HIDE DEF n
    <3>4. Tries * n <= Tries * p
      BY <1>1, <1>3, <3>1, Products DEF n
    <3>5. q = p + p
      BY <1>1, <1>10, <2>4
    <3>6. Tries * (p + p) = Tries * p + Tries * p
      BY <1>1, <1>3, Products
    <3> DEFINE k == Tries * n
               l == Tries * p
    <3>7. /\ Posting(r)' <= Posting(r) + k /\ Posting(r) <= l /\ k <= l
          /\ k \in Nat /\ l \in Nat /\ Tries * q = l + l
      BY <1>2, <1>4, <3>3, <3>4, <3>5, <3>6
    <3> HIDE DEF k, l
    <3>8. Posting(r)' <= l + l
      BY <1>3, <1>5, <3>7
    <3> QED
      BY <1>1, <1>3, <1>4, <2>2, <3>7, <3>8
  <2> QED
    BY <2>3, <2>4
<1> QED
  BY <1>7, <1>8, <1>9, <1>10, Steps DEF q

LEMMA CountedInitially ==
    ASSUME Init
    PROVE  MessagesOK /\ PostsOK
<1>1. MessagesOK
  BY DEF Init, MessagesOK, Handlers, Listeners, Idle
<1>2. ASSUME NEW r \in Reports
      PROVE  Posting(r) <= Tries * 2 ^ faults /\ hand["task"].took[r] <= 2 ^ faults
  <2>1. 2 ^ faults = 1
    BY DEF Init
  <2>2. /\ posts[r] = 0 /\ TriesLeft(pusher, r) = 0 /\ hand["task"].took[r] = 0
        /\ hand = [h \in Handlers |-> Idle]
    BY DEF Init, TriesLeft, Resting, Nothing, Idle, Handlers
  <2>3. HeldByAll(r) = 0
    BY <2>2, HeldIdle DEF HeldByAll, Handlers, Listeners
  <2>4. OneIf(r \notin came) = 1 /\ OneIf(Untaken(r)) = 0
    BY DEF Init, OneIf, Untaken
  <2>5. unmatched[r] = 0 /\ queue[r] = 0 /\ pusher.todo[r] = 0 /\ pusher.group[r] = 0
    BY DEF Init, Resting, Nothing
  <2>6. CopiesOf(r) = 1
    BY <2>2, <2>3, <2>4, <2>5 DEF CopiesOf
  <2> QED
    BY <2>1, <2>2, <2>6, BoundsAssumption DEF Posting, Tries
<1> QED
  BY <1>1, <1>2 DEF PostsOK

LEMMA CountedInductive ==
    ASSUME IInv, IInv', MessagesOK, PostsOK, [Next]_vars
    PROVE  MessagesOK' /\ PostsOK'
<1>1. CASE Next
  BY <1>1, MessagesStep, PostsStep DEF IInv
<1>2. CASE UNCHANGED vars
  <2>1. UNCHANGED <<came, receipts, unmatched, hand, queue, pusher, posts, faults>>
    BY <1>2 DEF vars
  <2>2. MessagesOK'
    BY <2>1 DEF MessagesOK
  <2>3. PostsOK'
    BY <2>1 DEF PostsOK, Posting, TriesLeft, CopiesOf, HeldByAll, Held, Untaken, OneIf, Tries
  <2> QED
    BY <2>2, <2>3
<1> QED
  BY <1>1, <1>2

\* A report is posted RetryTimes times after the first, unless a fault had it handled
\* again, and every fault at most doubles that.
THEOREM PostsCounted == Spec => []PostsNeedFaults
<1>1. ASSUME IInv, PostsOK
      PROVE  PostsNeedFaults
  <2>1. ASSUME NEW r \in Reports
        PROVE  posts[r] <= Tries * 2 ^ faults
    <3>1. Posting(r) <= Tries * 2 ^ faults
      BY <1>1 DEF PostsOK
    <3>2. /\ posts[r] \in Nat /\ TriesLeft(pusher, r) \in Nat /\ Tries * CopiesOf(r) \in Nat
          /\ Tries \in Nat /\ 2 ^ faults \in Nat
      BY <1>1, PostingTypes, Doubling DEF IInv, TypeOK
    <3> DEFINE k == Tries * CopiesOf(r)
               l == Tries * 2 ^ faults
               m == TriesLeft(pusher, r)
    <3>3. posts[r] + m + k <= l /\ k \in Nat /\ l \in Nat /\ m \in Nat
      BY <3>1, <3>2, Products DEF Posting
    <3> HIDE DEF k, l, m
    <3>4. posts[r] <= l
      BY <3>2, <3>3
    <3> QED
      BY <3>4 DEF l
  <2> QED
    BY <2>1 DEF PostsNeedFaults, Tries
<1>2. Init => MessagesOK /\ PostsOK
  BY CountedInitially
<1>3. IInv /\ IInv' /\ MessagesOK /\ PostsOK /\ [Next]_vars => MessagesOK' /\ PostsOK'
  BY CountedInductive
<1> QED
  BY <1>1, <1>2, <1>3, Invariance, PTL DEF Spec
-----------------------------------------------------------------------------
(* The way of a report implements the at-least-once store                  *)

\* What a handler holds came with the message or from the list it has not let go of.
HoldsOK ==
    \A h \in Handlers : \A r \in Reports :
        Held(hand[h], r) > 0 => r \in hand[h].source \/ hand[h].took[r] > 0

LEMMA HoldsStep ==
    ASSUME TypeOK, HoldsOK, Next
    PROVE  HoldsOK'
<1>0. hand \in [Handlers -> Hand]
  BY DEF TypeOK
<1>1. CASE OutsideStep \/ PushStep \/ \E S \in SUBSET (offered \ came) : Arrive(S)
  <2>1. UNCHANGED hand
    BY <1>1, OutsideQuiet DEF Quiet, PushStep, Push, TakeQueue, Post, Record, CrashPusher,
                              StorePush, Arrive
  <2> QED
    BY <2>1 DEF HoldsOK, Held
<1>2. ASSUME NEW h \in Handlers, NEW x, Only(h, x),
             \A r \in Reports : Held(x, r) > 0 => r \in x.source \/ x.took[r] > 0
      PROVE  HoldsOK'
  <2>1. \A g \in Handlers : hand'[g] = IF g = h THEN x ELSE hand[g]
    BY <1>0, <1>2 DEF Only
  <2> SUFFICES ASSUME NEW g \in Handlers, NEW r \in Reports, Held(hand'[g], r) > 0
               PROVE  r \in hand'[g].source \/ hand'[g].took[r] > 0
    BY DEF HoldsOK, Held
  <2> QED
    BY <1>2, <2>1 DEF HoldsOK
<1>3. ASSUME NEW h \in Handlers, HandStep(h)
      PROVE  HoldsOK'
  <2>1. ASSUME NEW x, Takes(h, x)
        PROVE  HoldsOK'
    <3>1. ASSUME NEW r \in Reports, Held(x, r) > 0
          PROVE  r \in x.source \/ x.took[r] > 0
      BY <2>1, <3>1 DEF Takes, OneIf
    <3> QED
      BY <1>2, <2>1, <3>1 DEF Takes
  <2>2. ASSUME NEW x, Keeps(h, x)
        PROVE  HoldsOK'
    <3>1. ASSUME NEW r \in Reports, Held(x, r) > 0
          PROVE  r \in x.source \/ x.took[r] > 0
      <4>1. Held(x, r) \in Nat /\ Held(hand[h], r) \in Nat /\ Held(x, r) <= Held(hand[h], r)
        BY <1>0, <2>2, HeldTypes DEF Keeps, Only
      <4>2. Held(hand[h], r) > 0
        BY <3>1, <4>1
      <4> QED
        BY <2>2, <4>2 DEF HoldsOK, Keeps
    <3> QED
      BY <1>2, <2>2, <3>1 DEF Keeps
  <2>3. CASE Leaves(h) \/ CrashHandler(h)
    <3>1. Only(h, Idle)
      BY <2>3, IdleType DEF Leaves, CrashHandler, Only
    <3>2. \A r \in Reports : ~(Held(Idle, r) > 0)
      BY HeldIdle
    <3> QED
      BY <1>2, <3>1, <3>2
  <2>4. CASE Refuses
    BY <2>4 DEF Refuses, HoldsOK, Held
  <2> QED
    BY <1>3, <2>1, <2>2, <2>3, <2>4, HandKinds
<1> QED
  BY <1>1, <1>3, Steps

\* So it is underway.
LEMMA HeldUnderway ==
    ASSUME TypeOK, TakesOK, MessagesOK, HoldsOK, NEW h \in Handlers, NEW r \in Reports,
           Held(hand[h], r) > 0
    PROVE  Underway(r)
<1>1. CASE r \in hand[h].source
  <2>1. h \in Listeners /\ hand[h].source \in receipts
    BY <1>1 DEF MessagesOK, Handlers
  <2> QED
    BY <1>1, <2>1 DEF Underway
<1>2. CASE hand[h].took[r] > 0
  <2>1. hand[h].took[r] \in Nat /\ unmatched[r] \in Nat /\ hand[h].took[r] <= unmatched[r]
    BY HandTypes DEF TypeOK, Batch, TakesOK, AtMost
  <2> QED
    BY <1>2, <2>1 DEF Underway, In
<1> QED
  BY <1>1, <1>2 DEF HoldsOK

LEMMA HoldingUnderway ==
    ASSUME TypeOK, TakesOK, MessagesOK, HoldsOK, NEW h \in Handlers, NEW r \in Reports
    PROVE  /\ hand[h].at \in {"record", "match"} /\ r \in In(hand[h].todo) => Underway(r)
           /\ hand[h].at = "park" /\ r \in In(hand[h].waits) => Underway(r)
           /\ hand[h].at = "queue" /\ r \in In(hand[h].out) => Underway(r)
           /\ h \in Listeners /\ r \in hand[h].source => Underway(r)
<1>1. hand[h].todo[r] \in Nat /\ hand[h].waits[r] \in Nat /\ hand[h].out[r] \in Nat
  BY HeldTypes DEF TypeOK
<1>2. /\ hand[h].at \in {"record", "match"} /\ r \in In(hand[h].todo) => Held(hand[h], r) > 0
      /\ hand[h].at = "park" /\ r \in In(hand[h].waits) => Held(hand[h], r) > 0
      /\ hand[h].at = "queue" /\ r \in In(hand[h].out) => Held(hand[h], r) > 0
  BY <1>1 DEF Held, In
<1>3. h \in Listeners /\ r \in hand[h].source => Underway(r)
  BY DEF MessagesOK, Underway
<1> QED
  BY <1>2, <1>3, HeldUnderway

\* What is newly concluded was underway.
LEMMA NewlyConcluded ==
    ASSUME TypeOK, TakesOK, PusherOK, MessagesOK, HoldsOK, Next, NEW r \in Reports,
           Concluded(r)', ~Concluded(r)
    PROVE  Underway(r)
<1>0. posts \in Batch /\ pusher.todo \in Batch /\ pusher.group \in Batch
  BY PusherTypes
<1>1. CASE OutsideStep \/ \E S \in SUBSET (offered \ came) : Arrive(S)
  <2>1. UNCHANGED <<posts, dropped, aside, lost>>
    BY <1>1, OutsideQuiet DEF Quiet, Arrive, pushing, outcome
  <2> QED
    BY <2>1 DEF Concluded
<1>2. CASE PushStep
  <2>1. CASE Post
    <3>1. posts'[r] = posts[r] + pusher.group[r] /\ UNCHANGED <<dropped, aside, lost>>
      BY <1>0, <2>1, BagElements DEF Post, outcome
    <3>2. pusher.group[r] > 0
      BY <1>0, <3>1 DEF Concluded, Batch
    <3>3. pusher.todo[r] > 0
      BY <1>0, <3>2 DEF PusherOK, AtMost, Batch
    <3> QED
      BY <3>3 DEF Underway, In
  <2>2. CASE CrashPusher
    <3>1. lost' = lost \cup In(pusher.todo) /\ UNCHANGED <<posts, dropped, aside>>
      BY <2>2 DEF CrashPusher
    <3> QED
      BY <3>1 DEF Concluded, Underway
  <2>3. CASE TakeQueue \/ Record \/ \E k \in Keys : StorePush(k)
    <3>1. UNCHANGED <<posts, dropped, aside, lost>>
      BY <2>3 DEF TakeQueue, Record, StorePush, outcome
    <3> QED
      BY <3>1 DEF Concluded
  <2> QED
    BY <1>2, <2>1, <2>2, <2>3 DEF PushStep, Push
<1>3. ASSUME NEW h \in Handlers, HandStep(h)
      PROVE  Underway(r)
  <2>1. ASSUME NEW S \in receipts, PutAside(S)
        PROVE  Underway(r)
    <3>1. aside' = aside \cup S /\ UNCHANGED <<posts, dropped, lost>>
      BY <2>1 DEF PutAside, pushing
    <3> QED
      BY <3>1 DEF Concluded, Underway
  <2>2. ASSUME NEW q \in Reports, Found(h, q) \/ FoundPushed(h, q)
        PROVE  Underway(r)
    <3>1. /\ dropped' \subseteq dropped \cup {q} /\ UNCHANGED <<posts, aside, lost>>
          /\ hand[h].at = "match" /\ q \in In(hand[h].todo)
      BY <2>2 DEF Found, FoundPushed, Matching, pushing
    <3> QED
      BY <3>1, HoldingUnderway DEF Concluded
  <2>3. CASE h = "failed" /\ ListFakeFails
    <3>1. lost' = lost \cup hand[h].source /\ UNCHANGED <<posts, dropped, aside>>
      BY <2>3 DEF ListFakeFails, pushing
    <3> QED
      BY <2>3, <3>1, HoldingUnderway DEF Concluded, Listeners
  <2>4. CASE ParkFails(h)
    <3>1. /\ lost' = lost \cup In(hand[h].waits) /\ UNCHANGED <<posts, dropped, aside>>
          /\ hand[h].at = "park"
      BY <2>4 DEF ParkFails, pushing
    <3> QED
      BY <3>1, HoldingUnderway DEF Concluded
  <2>5. CASE QueueOutFails(h)
    <3>1. /\ lost' = lost \cup In(hand[h].out) /\ UNCHANGED <<posts, dropped, aside>>
          /\ hand[h].at = "queue"
      BY <2>5 DEF QueueOutFails, pushing
    <3> QED
      BY <3>1, HoldingUnderway DEF Concluded
  <2>6. CASE Acknowledge(h)
    <3>1. /\ aside' \subseteq aside \cup hand[h].source /\ UNCHANGED <<posts, dropped, lost>>
          /\ h \in Listeners
      BY <2>6 DEF Acknowledge, pushing
    <3> QED
      BY <3>1, HoldingUnderway DEF Concluded
  <2>7. CASE UNCHANGED <<posts, dropped, aside, lost>>
    BY <2>7 DEF Concluded
  <2>8. \/ \E S \in receipts : PutAside(S)
        \/ \E q \in Reports : Found(h, q) \/ FoundPushed(h, q)
        \/ h = "failed" /\ ListFakeFails
        \/ ParkFails(h) \/ QueueOutFails(h) \/ Acknowledge(h)
        \/ UNCHANGED <<posts, dropped, aside, lost>>
    <3>1. CASE Receive(h)
      <4>1. \A S \in receipts : TakeReceipt(S) => UNCHANGED <<posts, dropped, aside, lost>>
        BY DEF TakeReceipt, pushing, outcome
      <4>2. ListFake \/ ReadUnmatched \/ (\E f \in Fakes : TakeFake(f))
                => UNCHANGED <<posts, dropped, aside, lost>>
        BY FakesQuiet
      <4> QED
        BY <3>1, <4>1, <4>2 DEF Receive
    <3>2. CASE \E q \in Reports : NotFound(h, q)
      BY <3>2 DEF NotFound, Matching, pushing
    <3>3. CASE Park(h) \/ QueueOut(h) \/ CrashHandler(h) \/ TrimUnmatched
      BY <3>3 DEF Park, QueueOut, CrashHandler, TrimUnmatched, pushing, outcome
    <3> QED
      BY <1>3, <3>1, <3>2, <3>3 DEF HandStep, Handle
  <2> QED
    BY <2>1, <2>2, <2>3, <2>4, <2>5, <2>6, <2>7, <2>8
<1> QED
  BY <1>1, <1>2, <1>3, Steps

\* A report is underway because it came just now or was underway before.
LEMMA NothingComesBack ==
    ASSUME TypeOK, TypeOK', TakesOK, PusherOK, MessagesOK, HoldsOK, Next, NEW r \in Reports,
           Underway(r)', ~Underway(r)
    PROVE  \E S \in SUBSET (offered \ came) : Arrive(S) /\ r \in S
<1>0. /\ pusher.todo \in Batch /\ pusher.group \in Batch /\ queue \in Batch /\ unmatched \in Batch
      /\ queue' \in Batch /\ unmatched' \in Batch
      /\ Less(pusher.todo, pusher.group) \in Batch
  BY PusherTypes DEF TypeOK
<1>1. CASE OutsideStep
  <2>1. UNCHANGED <<receipts, unmatched, queue, pusher>>
    BY <1>1, OutsideQuiet DEF Quiet
  <2> QED
    BY <2>1 DEF Underway
<1>2. ASSUME NEW S \in SUBSET (offered \ came), Arrive(S)
      PROVE  r \in S
  <2>1. receipts' = receipts \cup {S} /\ UNCHANGED <<unmatched, queue, pusher>>
    BY <1>2 DEF Arrive, pushing
  <2> QED
    BY <2>1 DEF Underway
<1>3. ASSUME PushStep
      PROVE  FALSE
  <2>1. UNCHANGED <<receipts, unmatched>>
    BY <1>3 DEF PushStep, Push, TakeQueue, Post, Record, CrashPusher, StorePush
  <2>2. ASSUME NEW left \in Batch, pusher' \in NextGroup(left), r \in In(pusher'.todo)
        PROVE  r \in In(left)
    <3>1. CASE In(left) = {}
      BY <2>2, <3>1 DEF NextGroup, Resting, Nothing, In
    <3>2. CASE In(left) # {}
      <4>1. PICK p \in In(left) :
                pusher' = [at |-> "post", todo |-> left, attempt |-> 1,
                           group |-> Restricted(left,
                               {q \in Reports : urlOf[MsgOf(q)] = urlOf[MsgOf(p)]})]
        BY <2>2, <3>2 DEF NextGroup
      <4> QED
        BY <2>2, <4>1
    <3> QED
      BY <3>1, <3>2
  <2>3. r \in In(queue') => r \in In(queue)
    <3>1. queue' = queue \/ queue' = Nothing
      BY <1>3 DEF PushStep, Push, TakeQueue, Post, Record, CrashPusher, StorePush
    <3> QED
      BY <3>1 DEF In, Nothing
  <2>4. r \in In(pusher'.todo) => r \in In(queue) \/ r \in In(pusher.todo)
    <3>1. CASE TakeQueue
      BY <1>0, <2>2, <3>1 DEF TakeQueue
    <3>2. CASE Record
      <4>1. r \in In(Less(pusher.todo, pusher.group)) => r \in In(pusher.todo)
        BY <1>0 DEF In, Less, Batch
      <4> QED
        BY <1>0, <2>2, <3>2, <4>1 DEF Record
    <3>3. CASE Post
      BY <3>3 DEF Post, TypeOK, Pusher
    <3>4. CASE CrashPusher
      BY <3>4 DEF CrashPusher, Resting, Nothing, In
    <3>5. CASE \E k \in Keys : StorePush(k)
      BY <3>5 DEF StorePush
    <3> QED
      BY <1>3, <3>1, <3>2, <3>3, <3>4, <3>5 DEF PushStep, Push
  <2> QED
    BY <2>1, <2>3, <2>4 DEF Underway
<1>4. ASSUME NEW h \in Handlers, HandStep(h)
      PROVE  FALSE
  <2>0. pusher' = pusher
    BY <1>4, HandAside
  <2>1. receipts' \subseteq receipts
    BY <1>4, HandKinds DEF Takes, Keeps, Leaves, Refuses, CrashHandler
  <2>2. unmatched'[r] > 0 \/ queue'[r] > 0
    BY <2>0, <2>1 DEF Underway, In
  <2>3. unmatched[r] = 0 /\ queue[r] = 0
    BY <1>0 DEF Underway, In, Batch
  <2>4. ~(Held(hand[h], r) > 0) /\ Held(hand[h], r) \in Nat
    BY HeldUnderway, HeldTypes DEF TypeOK
  <2>5. CASE \E x : Keeps(h, x)
    <3>1. PICK x : Keeps(h, x)
      BY <2>5
    <3>2. Held(x, r) \in Nat
      BY <3>1, HeldTypes DEF Keeps, Only
    <3>3. Held(x, r) + unmatched'[r] + queue'[r] <= Held(hand[h], r) + unmatched[r] + queue[r]
      BY <3>1 DEF Keeps
    <3> QED
      BY <1>0, <2>2, <2>3, <2>4, <3>2, <3>3 DEF Batch
  <2>6. CASE (\E x : Takes(h, x)) \/ Refuses \/ CrashHandler(h)
    <3>1. UNCHANGED <<unmatched, queue>>
      BY <2>6 DEF Takes, Refuses, CrashHandler, pushing
    <3> QED
      BY <2>2, <2>3, <3>1
  <2>7. CASE Leaves(h)
    <3>1. queue' = queue /\ (unmatched' = unmatched \/ unmatched' = Less(unmatched, hand[h].took))
      BY <2>7 DEF Leaves
    <3>2. hand[h].took[r] \in Nat
      BY HeldTypes DEF TypeOK
    <3> QED
      BY <2>2, <2>3, <3>1, <3>2 DEF Less
  <2> QED
    BY <1>4, <2>5, <2>6, <2>7, HandKinds
<1> QED
  BY <1>1, <1>2, <1>3, <1>4, Steps

LEMMA StaysConcluded ==
    ASSUME TypeOK, PusherOK, Next, NEW r \in Reports, Concluded(r)
    PROVE  Concluded(r)'
<1>1. posts[r] > 0 => posts'[r] > 0
  BY PusherStep
<1>2. dropped \subseteq dropped' /\ aside \subseteq aside' /\ lost \subseteq lost'
  <2>1. CASE OutsideStep \/ \E S \in SUBSET (offered \ came) : Arrive(S)
    BY <2>1, OutsideQuiet DEF Quiet, Arrive, outcome
  <2>2. CASE PushStep
    BY <2>2 DEF PushStep, Push, TakeQueue, Post, Record, CrashPusher, StorePush, outcome
  <2>3. ASSUME NEW h \in Handlers, HandStep(h)
        PROVE  dropped \subseteq dropped' /\ aside \subseteq aside' /\ lost \subseteq lost'
    <3>1. CASE Receive(h)
      <4>1. ASSUME NEW S \in receipts, PutAside(S) \/ TakeReceipt(S)
            PROVE  dropped \subseteq dropped' /\ aside \subseteq aside' /\ lost \subseteq lost'
        BY <4>1 DEF PutAside, TakeReceipt, outcome
      <4>2. CASE ListFake \/ ReadUnmatched \/ \E f \in Fakes : TakeFake(f)
        BY <4>2, FakesQuiet
      <4> QED
        BY <3>1, <4>1, <4>2 DEF Receive
    <3>2. CASE \E q \in Reports : Found(h, q) \/ FoundPushed(h, q) \/ NotFound(h, q)
      BY <3>2 DEF Found, FoundPushed, NotFound, Matching
    <3>3. CASE \/ Park(h) \/ QueueOut(h) \/ ParkFails(h) \/ QueueOutFails(h) \/ CrashHandler(h)
               \/ Acknowledge(h) \/ TrimUnmatched \/ ListFakeFails
      BY <3>3 DEF Park, QueueOut, ParkFails, QueueOutFails, CrashHandler, Acknowledge,
                  TrimUnmatched, ListFakeFails, outcome
    <3> QED
      BY <2>3, <3>1, <3>2, <3>3 DEF HandStep, Handle
  <2> QED
    BY <2>1, <2>2, <2>3, Steps
<1> QED
  BY <1>1, <1>2 DEF Concluded

\* What is no longer underway is concluded.
LEMMA LeavesConcluded ==
    ASSUME TypeOK, TakesOK, PusherOK, HandsOK, Next, NEW r \in Reports, Underway(r), ~Underway(r)'
    PROVE  Concluded(r)'
<1>1. \/ \E S \in receipts : r \in S
      \/ r \in In(unmatched) \/ Safe(r)
  BY DEF Underway, Safe
<1>2. \/ \E S \in receipts' : r \in S
      \/ r \in In(unmatched') \/ Safe(r)'
  BY <1>1, ReceiptsStep, UnmatchedStep, SafeStep
<1> QED
  BY <1>2 DEF Underway, Safe

LEMMA StoreStep ==
    ASSUME IInv, IInv', MessagesOK, HoldsOK, [Next]_vars
    PROVE  [Store!Next]_(Store!vars)
<1> DEFINE pending == {r \in Reports : Underway(r)}
           settled == {r \in Reports : Concluded(r)}
<1>0. TypeOK /\ TypeOK' /\ TakesOK /\ PusherOK /\ HandsOK
  BY DEF IInv
<1>1. CASE UNCHANGED vars
  BY <1>1 DEF vars, Store!vars, Underway, Concluded
<1>2. CASE Next
  <2>1. settled \subseteq settled' /\ settled' \ settled \subseteq pending
    BY <1>0, <1>2, StaysConcluded, NewlyConcluded
  <2>2. pending \ pending' \subseteq settled'
    BY <1>0, <1>2, LeavesConcluded
  <2>3. CASE \E S \in SUBSET (offered \ came) : Arrive(S)
    <3>1. PICK S \in SUBSET (offered \ came) : Arrive(S)
      BY <2>3
    <3>2. S \in SUBSET (Reports \ came)
      BY <1>0, Bounded DEF TypeOK
    <3>3. came' = came \cup S /\ receipts' = receipts \cup {S}
          /\ UNCHANGED <<unmatched, queue, pusher, posts, dropped, aside, lost>>
      BY <3>1 DEF Arrive, pushing, outcome
    <3>4. \A r \in Reports : (Underway(r)' <=> Underway(r) \/ r \in S)
                             /\ (Concluded(r)' <=> Concluded(r))
      BY <3>3 DEF Underway, Concluded
    <3>5. pending' = pending \cup S /\ settled' = settled
      BY <3>2, <3>4
    <3> QED
      BY <3>2, <3>3, <3>5 DEF Store!Next, Store!Accept
  <2>4. CASE ~\E S \in SUBSET (offered \ came) : Arrive(S)
    <3>1. pending' \subseteq pending
      BY <1>0, <1>2, <2>4, NothingComesBack
    <3>2. came' = came
      BY <1>0, <1>2, <2>4, Steps, OutsideQuiet, HandRestType
         DEF Quiet, PushStep, Push, TakeQueue, Post, Record, CrashPusher, StorePush
    <3> DEFINE K == settled' \ settled
               R == pending \ pending'
    <3>3. K \in SUBSET pending /\ settled' = settled \cup K
      BY <2>1
    <3>4. R \in SUBSET (pending \cap settled') /\ pending' = pending \ R
      BY <2>2, <3>1
    <3> QED
      BY <3>2, <3>3, <3>4 DEF Store!Next, Store!Settle
  <2> QED
    BY <2>3, <2>4
<1> QED
  BY <1>1, <1>2

LEMMA StoreInit ==
    ASSUME Init
    PROVE  Store!Init /\ HoldsOK
<1>1. \A r \in Reports : ~Underway(r) /\ ~Concluded(r)
  BY DEF Init, Underway, Concluded, In, Nothing, Resting
<1>2. HoldsOK
  BY HeldIdle DEF Init, HoldsOK
<1> QED
  BY <1>1, <1>2 DEF Init, Store!Init

\* The way of a report is an at-least-once store: a report leaves it only when it is
\* concluded, and never comes back, whoever still holds a copy.
THEOREM ReportsImplementStore == Spec => ImplementsStore
<1>1. Init => MessagesOK /\ HoldsOK /\ Store!Init
  BY CountedInitially, StoreInit
<1>2. IInv /\ MessagesOK /\ HoldsOK /\ [Next]_vars => MessagesOK' /\ HoldsOK'
  <2>1. ASSUME IInv, MessagesOK, HoldsOK, Next
        PROVE  MessagesOK' /\ HoldsOK'
    BY <2>1, MessagesStep, HoldsStep DEF IInv
  <2>2. ASSUME MessagesOK, HoldsOK, UNCHANGED vars
        PROVE  MessagesOK' /\ HoldsOK'
    BY <2>2 DEF vars, MessagesOK, HoldsOK, Held
  <2> QED
    BY <2>1, <2>2
<1>3. IInv /\ IInv' /\ MessagesOK /\ HoldsOK /\ [Next]_vars => [Store!Next]_(Store!vars)
  BY StoreStep
<1> QED
  BY <1>1, <1>2, <1>3, Invariance, PTL DEF Spec, ImplementsStore, Store!Spec
=============================================================================
