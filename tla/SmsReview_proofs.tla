-------------------------- MODULE SmsReview_proofs --------------------------
(***************************************************************************)
(* Proofs about the review of a task: no task is forgotten, nothing that   *)
(* was passed is left behind, no closed task hides a packet, nobody is     *)
(* rejected without being told.                                            *)
(***************************************************************************)
EXTENDS SmsTask_proofs

-----------------------------------------------------------------------------
(* The task is always somewhere.                                           *)

LEMMA SomewhereStep ==
    ASSUME TypeOK, NothingForgotten, [Next]_vars
    PROVE  NothingForgotten'
<1> USE DEF NothingForgotten, TypeOK, store, history
<1>1. CASE SplitTask \/ SplitFails \/ FinishSplit \/ CrashInSplit
  BY <1>1 DEF SplitTask, SplitFails, FinishSplit, CrashInSplit
<1>2. ASSUME NEW n \in SplitNo, Persist(n) PROVE NothingForgotten'
  <2>1. TaskStartStatus(split[n]) # "absent"
    BY DEF TaskStartStatus
  <2> QED
    BY <1>2, <2>1 DEF Persist
<1>3. ASSUME NEW n \in SplitNo, Park(n) PROVE NothingForgotten'
  BY <1>3 DEF Park
<1>4. CASE /\ UNCHANGED <<waitQ, list, parked>> /\ (dropped => dropped')
           /\ \A n \in SplitNo : task[n] # "absent" => task'[n] # "absent"
  BY <1>4
<1>5. CASE Submit \/ UNCHANGED vars
  BY <1>4, <1>5 DEF Submit, Deliver, vars
<1>6. CASE ReviewPacket
  <2>1. ASSUME NEW r \in Rows, PassChild(r) PROVE NothingForgotten'
    BY <1>4, <2>1 DEF PassChild, pipeline
  <2> QED
    BY <1>4, <1>6, <2>1 DEF ReviewPacket, RejectChild, SwitchChild, pipeline
<1>7. CASE ReviewTask
  <2>1. ASSUME NEW n \in SplitNo, RePackets(n) PROVE NothingForgotten'
    BY <2>1 DEF RePackets
  <2> QED
    BY <1>4, <1>7, <2>1
       DEF ReviewTask, SwitchTask, ReadToApprove, ReadToReject, pipeline
<1>8. ASSUME NEW v \in Reviewers, Request(v) PROVE NothingForgotten'
  <2>1. CASE Approve(v) \/ Reject(v)
    <3>1. UNCHANGED <<waitQ, list, parked, dropped>>
      BY <2>1 DEF Approve, Reject, pipeline
    <3>2. \A n \in SplitNo : task[n] # "absent" => task'[n] # "absent"
      <4>1. CASE Approve(v)
        BY <4>1 DEF Approve
      <4>2. CASE Reject(v)
        BY <4>2 DEF Reject
      <4> QED
        BY <2>1, <4>1, <4>2
    <3> QED
      BY <1>4, <3>1, <3>2
  <2>2. CASE ApproveStops(v) \/ ApproveFindsNothing(v) \/ ForcePass(v) \/ ForceSend(v)
    BY <1>4, <2>2 DEF ApproveStops, ApproveFindsNothing, ForcePass, ForceSend, pipeline
  <2> QED
    BY <1>8, <2>1, <2>2 DEF Request
<1>9. ASSUME NEW p \in Passages, RemovePassage(p) PROVE NothingForgotten'
  BY <1>4, <1>9 DEF RemovePassage, pipeline
<1> QED
  BY <1>1, <1>2, <1>3, <1>5, <1>6, <1>7, <1>8, <1>9 DEF Next, Listener, Worker

\* Through splits, redeliveries, failed inserts, reviews and re-splits the task
\* stays queued, in a Redis list or in the database, unless a split failed.
THEOREM TaskIsSomewhere == Spec => []NothingForgotten
<1>1. Init => NothingForgotten
  BY DEF Init, NothingForgotten
<1> QED
  BY <1>1, SomewhereStep, TypeInit, TypeStep, PTL DEF Spec

-----------------------------------------------------------------------------
(* What was passed by hand is on a queue.                                  *)

LEMMA PublishGrows ==
    ASSUME NEW C, Publish(C)
    PROVE  /\ published \subseteq published'
           /\ \A c \in C : c.status \in Passed => c.row \in published'
BY DEF Publish

LEMMA CopyPublished ==
    ASSUME NEW C, Publish(C), NEW r, NEW st \in Passed,
           [row |-> r, status |-> st] \in C
    PROVE  r \in published'
<1>1. [row |-> r, status |-> st].status \in Passed
  OBVIOUS
<1>2. [row |-> r, status |-> st].row \in published'
  BY <1>1, PublishGrows
<1> QED
  BY <1>2

LEMMA CopiesPublished ==
    ASSUME NEW S, Publish(Copied(S, "HANDLING")), NEW r \in S
    PROVE  r \in published'
<1>1. [row |-> r, status |-> "HANDLING"] \in Copied(S, "HANDLING")
  BY DEF Copied
<1> QED
  BY <1>1, CopyPublished DEF Passed

Accounted(r) ==
    r \in published \/ r \in unroutable \/ \E v \in Reviewers : session[v].op = "force"

\* What was put on a queue, or could not be, stays so.
LEMMA QueuedGrows ==
    ASSUME [Next]_vars
    PROVE  published \subseteq published' /\ unroutable \subseteq unroutable'
<1> USE DEF history, pipeline, NothingPublished
<1>1. CASE Listener \/ SplitFails \/ CrashInSplit
  BY <1>1, PublishGrows DEF Listener, SplitTask, SplitFails, FinishSplit, CrashInSplit
<1>2. CASE Worker \/ Submit \/ UNCHANGED vars
  BY <1>2 DEF Worker, Persist, Park, Submit, Deliver, vars
<1>3. CASE ReviewPacket
  BY <1>3, PublishGrows DEF ReviewPacket, PassChild, RejectChild, SwitchChild
<1>4. CASE ReviewTask
  BY <1>4, PublishGrows DEF ReviewTask, RePackets, SwitchTask, ReadToApprove, ReadToReject
<1>5. ASSUME NEW v \in Reviewers, Request(v)
      PROVE  published \subseteq published' /\ unroutable \subseteq unroutable'
  <2>1. CASE Approve(v)
    BY <2>1, PublishGrows DEF Approve
  <2>2. CASE ApproveStops(v)
    BY <2>2, PublishGrows DEF ApproveStops
  <2>3. CASE ForceSend(v)
    BY <2>3, PublishGrows DEF ForceSend
  <2>4. CASE ApproveFindsNothing(v) \/ Reject(v) \/ ForcePass(v)
    BY <2>4 DEF ApproveFindsNothing, Reject, ForcePass
  <2> QED
    BY <1>5, <2>1, <2>2, <2>3, <2>4 DEF Request
<1>6. ASSUME NEW p \in Passages, RemovePassage(p)
      PROVE  published \subseteq published' /\ unroutable \subseteq unroutable'
  BY <1>6 DEF RemovePassage
<1> QED
  BY <1>1, <1>2, <1>3, <1>4, <1>5, <1>6 DEF Next

LEMMA HandlingStep ==
    ASSUME TypeOK, HandlingPublished, [Next]_vars,
           NEW r \in Rows, row'[r].status = "HANDLING"
    PROVE  Accounted(r)'
<1> USE DEF Accounted
<1>0. row \in [Rows -> RowType] /\ row[r] \in RowType /\ session \in [Reviewers -> SessionType]
  BY DEF TypeOK
<1>1. CASE /\ row[r].status = "HANDLING"
           /\ \A v \in Reviewers : session[v].op = "force" => session'[v].op = "force"
  BY <1>1, QueuedGrows DEF HandlingPublished
<1>2. CASE row[r].status = "HANDLING" /\ session' = session
  BY <1>1, <1>2
<1>3. CASE Listener \/ SplitFails \/ CrashInSplit \/ Submit \/ UNCHANGED vars
  BY <1>2, <1>3 DEF Listener, SplitTask, SplitFails, FinishSplit, CrashInSplit,
                    Submit, Deliver, store, vars
<1>4. ASSUME NEW n \in SplitNo, Persist(n) PROVE Accounted(r)'
  <2>1. StartStatus(r) # "HANDLING"
    BY StartStatusType
  <2>2. row[r].status = "HANDLING" /\ session' = session
    BY <1>4, <2>1 DEF Persist
  <2> QED
    BY <1>2, <2>2
<1>5. ASSUME NEW n \in SplitNo, Park(n) PROVE Accounted(r)'
  BY <1>2, <1>5 DEF Park, store
<1>6. CASE ReviewPacket
  <2>1. ASSUME NEW q \in Rows, PassChild(q) PROVE Accounted(r)'
    <3>1. CASE q = r /\ Resolves(row[q].passage)
      BY <2>1, <3>1, CopiesPublished DEF PassChild
    <3>2. CASE q = r /\ ~Resolves(row[q].passage)
      BY <2>1, <3>2 DEF PassChild
    <3>3. CASE q # r
      <4>1. row[r].status = "HANDLING" /\ session' = session
        BY <1>0, <2>1, <3>3 DEF PassChild
      <4> QED
        BY <1>2, <4>1
    <3> QED
      BY <3>1, <3>2, <3>3
  <2>2. ASSUME NEW q \in Rows, RejectChild(q) PROVE Accounted(r)'
    <3>1. row[r].status = "HANDLING" /\ session' = session
      BY <1>0, <2>2 DEF RejectChild, RowType
    <3> QED
      BY <1>2, <3>1
  <2>3. ASSUME NEW q \in Rows, NEW p \in Passages, SwitchChild(q, p) PROVE Accounted(r)'
    <3>1. CASE q = r
      <4>1. StatusAfterSwitch(q) = "HANDLING"
        BY <1>0, <2>3, <3>1 DEF SwitchChild, Switched
      <4> QED
        BY <2>3, <3>1, <4>1, CopiesPublished DEF SwitchChild
    <3>2. CASE q # r
      <4>1. row[r].status = "HANDLING" /\ session' = session
        BY <1>0, <2>3, <3>2 DEF SwitchChild
      <4> QED
        BY <1>2, <4>1
    <3> QED
      BY <3>1, <3>2
  <2> QED
    BY <1>6, <2>1, <2>2, <2>3 DEF ReviewPacket
<1>7. CASE ReviewTask
  <2>1. ASSUME NEW n \in SplitNo, RePackets(n) PROVE Accounted(r)'
    BY <2>1 DEF RePackets, NoRow
  <2>2. ASSUME NEW n \in SplitNo, NEW p \in Passages, SwitchTask(n, p) PROVE Accounted(r)'
    <3>1. CASE r \in Present
      <4> DEFINE C == {[row |-> q, status |-> StatusAfterSwitch(q)] : q \in Present}
      <4>1. StatusAfterSwitch(r) \in Passed
        BY <2>2, <3>1 DEF SwitchTask, Switched, Passed
      <4>2. [row |-> r, status |-> StatusAfterSwitch(r)] \in C
        BY <3>1
      <4>3. Publish(C)
        BY <2>2 DEF SwitchTask
      <4> HIDE DEF C
      <4>4. r \in published'
        BY <4>1, <4>2, <4>3, CopyPublished
      <4> QED
        BY <4>4
    <3>2. CASE r \notin Present
      BY <1>2, <2>2, <3>2 DEF SwitchTask
    <3> QED
      BY <3>1, <3>2
  <2>3. ASSUME NEW n \in SplitNo, NEW v \in Reviewers,
               ReadToApprove(v, n) \/ ReadToReject(v, n)
        PROVE  Accounted(r)'
    <3>1. row[r].status = "HANDLING"
      BY <2>3 DEF ReadToApprove, ReadToReject, store
    <3>2. \A u \in Reviewers : session[u].op = "force" => session'[u].op = "force"
      BY <1>0, <2>3 DEF ReadToApprove, ReadToReject
    <3> QED
      BY <1>1, <3>1, <3>2
  <2> QED
    BY <1>7, <2>1, <2>2, <2>3 DEF ReviewTask
<1>8. ASSUME NEW v \in Reviewers, Request(v) PROVE Accounted(r)'
  <2>1. CASE row[r].status = "HANDLING" /\ Leave(v) /\ session[v].op # "force"
    <3>1. \A u \in Reviewers : session[u].op = "force" => session'[u].op = "force"
      BY <1>0, <2>1 DEF Leave
    <3> QED
      BY <1>1, <2>1, <3>1
  <2>2. CASE Approve(v)
    <3>1. CASE r \in Pending(session[v].snap)
      BY <2>2, <3>1, CopiesPublished DEF Approve
    <3>2. CASE r \notin Pending(session[v].snap)
      <4>1. row[r].status = "HANDLING"
        BY <2>2, <3>2 DEF Approve, PassRows
      <4> QED
        BY <2>1, <2>2, <4>1 DEF Approve
    <3> QED
      BY <3>1, <3>2
  <2>3. CASE ApproveStops(v)
    <3>1. PICK bad, S : /\ PassRows(S \cup {bad})
                        /\ unroutable' = unroutable \cup {bad}
                        /\ Publish(Copied(S, "HANDLING"))
      BY <2>3 DEF ApproveStops
    <3>2. CASE r \in S \cup {bad}
      BY <3>1, <3>2, CopiesPublished
    <3>3. CASE r \notin S \cup {bad}
      <4>1. row[r].status = "HANDLING"
        BY <3>1, <3>3 DEF PassRows
      <4> QED
        BY <2>1, <2>3, <4>1 DEF ApproveStops
    <3> QED
      BY <3>2, <3>3
  <2>4. CASE ApproveFindsNothing(v)
    BY <2>1, <2>4 DEF ApproveFindsNothing, store
  <2>5. CASE Reject(v)
    <3>1. row[r].status = "HANDLING"
      BY <1>0, <2>5 DEF Reject, RowType
    <3> QED
      BY <2>1, <2>5, <3>1 DEF Reject
  <2>6. CASE ForcePass(v)
    <3>1. session'[v].op = "force"
      BY <1>0, <2>6 DEF ForcePass, Idle
    <3> QED
      BY <3>1
  <2>7. CASE ForceSend(v)
    <3> DEFINE routable == {q \in Present : Resolves(row[q].passage)}
               C == {[row |-> q, status |-> row[q].status] : q \in routable}
    <3>1. row[r].status = "HANDLING" /\ r \in Present
      BY <2>7 DEF ForceSend, store, Present
    <3>2. CASE r \in routable
      <4>1. [row |-> r, status |-> row[r].status] \in C
        BY <3>2
      <4>2. row[r].status \in Passed
        BY <3>1 DEF Passed
      <4>3. Publish(C)
        BY <2>7 DEF ForceSend
      <4> HIDE DEF C
      <4>4. r \in published'
        BY <4>1, <4>2, <4>3, CopyPublished
      <4> QED
        BY <4>4
    <3>3. CASE r \notin routable
      BY <2>7, <3>1, <3>3 DEF ForceSend
    <3> QED
      BY <3>2, <3>3
  <2> QED
    BY <1>8, <2>2, <2>3, <2>4, <2>5, <2>6, <2>7 DEF Request
<1>9. ASSUME NEW p \in Passages, RemovePassage(p) PROVE Accounted(r)'
  BY <1>2, <1>9 DEF RemovePassage, store
<1> QED
  BY <1>3, <1>4, <1>5, <1>6, <1>7, <1>8, <1>9 DEF Next, Worker

\* A packet passed by hand has been put on a submit queue, or its passage or
\* template could not be looked up, or the request that passed it still runs.
THEOREM PassedIsPublished == Spec => []HandlingPublished
<1>1. Init => HandlingPublished
  BY DEF Init, HandlingPublished, NoRow
<1>2. TypeOK /\ HandlingPublished /\ [Next]_vars => HandlingPublished'
  BY HandlingStep DEF HandlingPublished, Accounted
<1> QED
  BY <1>1, <1>2, TypeInit, TypeStep, PTL DEF Spec

-----------------------------------------------------------------------------
(* A rejected packet was reported.                                         *)

\* The packets of a split are inserted and deleted together, and a request's
\* snapshot holds either all of them or none.
WholeSplits ==
    /\ \A r, q \in Rows : r[1] = q[1] /\ row[r].status # "absent" => row[q].status # "absent"
    /\ \A v \in Reviewers : \A r, q \in Rows :
          r[1] = q[1] /\ session[v].snap[r].status # "absent"
              => session[v].snap[q].status # "absent"

SnapsReported ==
    \A v \in Reviewers : \A r \in Rows :
        session[v].snap[r].status = "REJECT" => r[2] \in reported

ReportInv == TypeOK /\ WholeSplits /\ SnapsReported /\ RejectedIsReported

\* What one step may do to the snapshots and to the presence of packets.
SnapsStep ==
    \A v \in Reviewers : session'[v].snap \in {session[v].snap, row, Idle.snap}
SamePackets ==
    \A r \in Rows : row'[r].status # "absent" <=> row[r].status # "absent"

LEMMA SnapsMove ==
    ASSUME TypeOK, [Next]_vars
    PROVE  SnapsStep
<1> USE DEF SnapsStep
<1>0. session \in [Reviewers -> SessionType]
  BY DEF TypeOK
<1>1. CASE session' = session
  BY <1>1
<1>2. CASE Listener \/ SplitFails \/ CrashInSplit \/ Worker \/ Submit \/ UNCHANGED vars
  BY <1>1, <1>2 DEF Listener, SplitTask, FinishSplit, SplitFails, CrashInSplit,
                    Worker, Persist, Park, Submit, Deliver, vars
<1>3. CASE ReviewPacket
  BY <1>1, <1>3 DEF ReviewPacket, PassChild, RejectChild, SwitchChild
<1>4. CASE ReviewTask
  <2>1. ASSUME NEW n \in SplitNo, NEW v \in Reviewers,
               ReadToApprove(v, n) \/ ReadToReject(v, n)
        PROVE  SnapsStep
    BY <1>0, <2>1 DEF ReadToApprove, ReadToReject
  <2> QED
    BY <1>1, <1>4, <2>1 DEF ReviewTask, RePackets, SwitchTask
<1>5. ASSUME NEW v \in Reviewers, Request(v) PROVE SnapsStep
  <2>1. CASE Leave(v)
    BY <1>0, <2>1 DEF Leave
  <2>2. CASE ForcePass(v)
    BY <1>0, <2>2 DEF ForcePass, Idle
  <2> QED
    BY <1>5, <2>1, <2>2 DEF Request, Approve, ApproveStops, ApproveFindsNothing,
                            Reject, ForceSend
<1>6. ASSUME NEW p \in Passages, RemovePassage(p) PROVE SnapsStep
  BY <1>1, <1>6 DEF RemovePassage
<1> QED
  BY <1>2, <1>3, <1>4, <1>5, <1>6 DEF Next

LEMMA PacketsMove ==
    ASSUME TypeOK, [Next]_vars
    PROVE  SamePackets \/ \E n \in SplitNo : Persist(n) \/ RePackets(n)
<1> USE DEF SamePackets
<1>0. row \in [Rows -> RowType]
  BY DEF TypeOK
<1>1. CASE row' = row
  BY <1>1
<1>2. CASE Listener \/ SplitFails \/ CrashInSplit \/ Submit \/ UNCHANGED vars
  BY <1>1, <1>2 DEF Listener, SplitTask, FinishSplit, SplitFails, CrashInSplit,
                    Submit, Deliver, store, vars
<1>3. ASSUME NEW n \in SplitNo, Park(n) PROVE SamePackets
  BY <1>1, <1>3 DEF Park, store
<1>4. CASE ReviewPacket
  <2>1. ASSUME NEW q \in Rows, PassChild(q) \/ RejectChild(q) PROVE SamePackets
    <3>1. PICK st \in {"HANDLING", "REJECT"} : row' = [row EXCEPT ![q].status = st]
      BY <2>1 DEF PassChild, RejectChild
    <3>2. q \in Present
      BY <2>1 DEF PassChild, RejectChild
    <3>3. row'[q].status = st /\ st # "absent"
      BY <1>0, <3>1 DEF RowType
    <3>4. \A r \in Rows : r # q => row'[r] = row[r]
      BY <1>0, <3>1
    <3> QED
      BY <3>2, <3>3, <3>4 DEF Present
  <2>2. ASSUME NEW q \in Rows, NEW p \in Passages, SwitchChild(q, p) PROVE SamePackets
    <3>1. Switched(q, p).status # "absent"
      BY DEF Switched, StatusAfterSwitch
    <3> QED
      BY <1>0, <2>2, <3>1 DEF SwitchChild, Present
  <2> QED
    BY <1>4, <2>1, <2>2 DEF ReviewPacket
<1>5. ASSUME NEW n \in SplitNo, NEW p \in Passages, SwitchTask(n, p) PROVE SamePackets
  <2>1. \A q : Switched(q, p).status # "absent"
    BY DEF Switched, StatusAfterSwitch
  <2> QED
    BY <1>5, <2>1 DEF SwitchTask, Present
<1>6. ASSUME NEW n \in SplitNo, NEW v \in Reviewers,
             ReadToApprove(v, n) \/ ReadToReject(v, n)
      PROVE  SamePackets
  BY <1>1, <1>6 DEF ReadToApprove, ReadToReject, store
<1>7. ASSUME NEW v \in Reviewers, Request(v) PROVE SamePackets
  <2>1. ASSUME NEW S \in SUBSET Present, PassRows(S) PROVE SamePackets
    <3>1. ASSUME NEW r \in Rows
          PROVE  row'[r].status # "absent" <=> row[r].status # "absent"
      <4>1. CASE r \in S
        <5>1. row'[r].status = "HANDLING"
          BY <1>0, <2>1, <4>1 DEF PassRows, RowType
        <5> QED
          BY <2>1, <4>1, <5>1 DEF Present
      <4>2. CASE r \notin S
        BY <2>1, <4>2 DEF PassRows
      <4> QED
        BY <4>1, <4>2
    <3> QED
      BY <3>1
  <2>2. CASE Approve(v)
    BY <2>1, <2>2 DEF Approve
  <2>3. CASE ApproveStops(v)
    <3>1. PICK S \in SUBSET Present : PassRows(S)
      BY <2>3 DEF ApproveStops
    <3> QED
      BY <2>1, <3>1
  <2>4. CASE ForcePass(v)
    <3>1. Waiting \subseteq Present
      BY DEF Waiting, Present
    <3> QED
      BY <2>1, <2>4, <3>1 DEF ForcePass
  <2>5. CASE Reject(v)
    <3>1. ASSUME NEW r \in Rows
          PROVE  row'[r].status # "absent" <=> row[r].status # "absent"
      <4>1. CASE row'[r] = row[r]
        BY <4>1
      <4>2. CASE row'[r] # row[r]
        <5>1. row[r].status = "WAITING" /\ row'[r] = [row[r] EXCEPT !.status = "REJECT"]
          BY <2>5, <4>2 DEF Reject, Waiting
        <5>2. row'[r].status = "REJECT"
          BY <1>0, <5>1 DEF RowType
        <5> QED
          BY <5>1, <5>2
      <4> QED
        BY <4>1, <4>2
    <3> QED
      BY <3>1
  <2>6. CASE ApproveFindsNothing(v) \/ ForceSend(v)
    BY <1>1, <2>6 DEF ApproveFindsNothing, ForceSend, store
  <2> QED
    BY <1>7, <2>2, <2>3, <2>4, <2>5, <2>6 DEF Request
<1>8. ASSUME NEW p \in Passages, RemovePassage(p) PROVE SamePackets
  BY <1>1, <1>8 DEF RemovePassage, store
<1> QED
  BY <1>2, <1>3, <1>4, <1>5, <1>6, <1>7, <1>8 DEF Next, Worker, ReviewTask

LEMMA WholeStep ==
    ASSUME TypeOK, WholeSplits, [Next]_vars
    PROVE  WholeSplits'
<1>1. ASSUME NEW r \in Rows, NEW q \in Rows, r[1] = q[1], row'[r].status # "absent"
      PROVE  row'[q].status # "absent"
  <2>1. CASE SamePackets
    BY <1>1, <2>1 DEF SamePackets, WholeSplits
  <2>2. ASSUME NEW n \in SplitNo, Persist(n) PROVE row'[q].status # "absent"
    <3>1. StartStatus(q) # "absent"
      BY StartStatusType
    <3>2. CASE r[1] = n /\ ~split[n].empty
      BY <1>1, <2>2, <3>1, <3>2 DEF Persist
    <3>3. CASE ~(r[1] = n /\ ~split[n].empty)
      BY <1>1, <2>2, <3>3 DEF Persist, WholeSplits
    <3> QED
      BY <3>2, <3>3
  <2>3. ASSUME NEW n \in SplitNo, RePackets(n) PROVE row'[q].status # "absent"
    BY <1>1, <2>3 DEF RePackets, NoRow
  <2> QED
    BY <2>1, <2>2, <2>3, PacketsMove
<1>2. ASSUME NEW v \in Reviewers, NEW r \in Rows, NEW q \in Rows, r[1] = q[1],
             session'[v].snap[r].status # "absent"
      PROVE  session'[v].snap[q].status # "absent"
  <2>1. session'[v].snap \in {session[v].snap, row, Idle.snap}
    BY SnapsMove DEF SnapsStep
  <2>2. Idle.snap[r].status = "absent"
    BY DEF Idle, NoRow
  <2> QED
    BY <1>2, <2>1, <2>2 DEF WholeSplits
<1> QED
  BY <1>1, <1>2 DEF WholeSplits

LEMMA ReportedGrows ==
    ASSUME [Next]_vars
    PROVE  reported \subseteq reported'
<1>1. CASE Listener \/ SplitFails \/ CrashInSplit \/ Worker \/ Submit \/ UNCHANGED vars
  BY <1>1 DEF Listener, SplitTask, FinishSplit, SplitFails, CrashInSplit,
              Worker, Persist, Park, Submit, Deliver, vars, history
<1>2. CASE ReviewPacket \/ ReviewTask
  BY <1>2 DEF ReviewPacket, PassChild, RejectChild, SwitchChild, ReviewTask,
              RePackets, SwitchTask, ReadToApprove, ReadToReject, history
<1>3. ASSUME NEW v \in Reviewers, Request(v) PROVE reported \subseteq reported'
  BY <1>3 DEF Request, Approve, ApproveStops, ApproveFindsNothing, Reject,
              ForcePass, ForceSend, history
<1>4. ASSUME NEW p \in Passages, RemovePassage(p) PROVE reported \subseteq reported'
  BY <1>4 DEF RemovePassage, history
<1> QED
  BY <1>1, <1>2, <1>3, <1>4 DEF Next

\* A request rejects what waits now and reports what it read: since splits come
\* whole, it read some packet of every group it rejects.
LEMMA RejectReports ==
    ASSUME ReportInv, NEW v \in Reviewers, Reject(v), reported \subseteq reported',
           NEW r \in Rows, row'[r].status = "REJECT"
    PROVE  r[2] \in reported'
<1> DEFINE snap == session[v].snap
           read == {q \in Rows : snap[q].status # "absent"}
<1>1. CASE row[r].status = "REJECT"
  BY <1>1 DEF ReportInv, RejectedIsReported
<1>2. CASE row[r].status # "REJECT"
  <2>1. PICK q \in Rows : snap[q].status # "absent"
    BY <1>2 DEF Reject
  <2> DEFINE t == <<q[1], r[2]>>
  <2>2. t \in Rows /\ t[1] = q[1] /\ t[2] = r[2]
    BY DEF Rows
  <2>3. snap[t].status # "absent"
    BY <2>1, <2>2 DEF ReportInv, WholeSplits
  <2>4. CASE snap[t].status = "REJECT"
    BY <2>2, <2>4 DEF ReportInv, SnapsReported
  <2>5. CASE snap[t].status # "REJECT"
    <3>1. t \in {p \in read : snap[p].status # "REJECT"}
      BY <2>2, <2>3, <2>5
    <3>2. t[2] \in reported'
      BY <3>1 DEF Reject
    <3> QED
      BY <2>2, <3>2
  <2> QED
    BY <2>4, <2>5
<1> QED
  BY <1>1, <1>2

LEMMA RejectedStep ==
    ASSUME ReportInv, [Next]_vars, NEW r \in Rows, row'[r].status = "REJECT"
    PROVE  r[2] \in reported'
<1>0. row \in [Rows -> RowType]
  BY DEF ReportInv, TypeOK
<1>1. CASE row[r].status = "REJECT"
  BY <1>1, ReportedGrows DEF ReportInv, RejectedIsReported
<1>2. CASE Listener \/ SplitFails \/ CrashInSplit \/ Submit \/ UNCHANGED vars
  BY <1>1, <1>2 DEF Listener, SplitTask, FinishSplit, SplitFails, CrashInSplit,
                    Submit, Deliver, store, vars
<1>3. ASSUME NEW n \in SplitNo, Persist(n) \/ Park(n) PROVE r[2] \in reported'
  <2>1. StartStatus(r) # "REJECT"
    BY StartStatusType DEF ReportInv
  <2> QED
    BY <1>1, <1>3, <2>1 DEF Persist, Park, store
<1>4. CASE ReviewPacket
  <2>1. ASSUME NEW q \in Rows, PassChild(q) PROVE r[2] \in reported'
    <3>1. row[r].status = "REJECT"
      BY <1>0, <2>1 DEF PassChild, RowType
    <3> QED
      BY <1>1, <3>1
  <2>2. ASSUME NEW q \in Rows, RejectChild(q) PROVE r[2] \in reported'
    BY <1>0, <1>1, <2>2 DEF RejectChild
  <2>3. ASSUME NEW q \in Rows, NEW p \in Passages, SwitchChild(q, p)
        PROVE  r[2] \in reported'
    <3>1. row[r].status = "REJECT"
      BY <1>0, <2>3 DEF SwitchChild, Switched, StatusAfterSwitch
    <3> QED
      BY <1>1, <3>1
  <2> QED
    BY <1>4, <2>1, <2>2, <2>3 DEF ReviewPacket
<1>5. CASE ReviewTask
  <2>1. ASSUME NEW n \in SplitNo, RePackets(n) PROVE r[2] \in reported'
    BY <2>1 DEF RePackets, NoRow
  <2>2. ASSUME NEW n \in SplitNo, NEW p \in Passages, SwitchTask(n, p)
        PROVE  r[2] \in reported'
    BY <1>1, <2>2 DEF SwitchTask, Switched, StatusAfterSwitch
  <2>3. ASSUME NEW n \in SplitNo, NEW v \in Reviewers,
               ReadToApprove(v, n) \/ ReadToReject(v, n)
        PROVE  r[2] \in reported'
    BY <1>1, <2>3 DEF ReadToApprove, ReadToReject, store
  <2> QED
    BY <1>5, <2>1, <2>2, <2>3 DEF ReviewTask
<1>6. ASSUME NEW v \in Reviewers, Request(v) PROVE r[2] \in reported'
  <2>1. ASSUME NEW S, PassRows(S) PROVE r[2] \in reported'
    <3>1. row[r].status = "REJECT"
      BY <1>0, <2>1 DEF PassRows, RowType
    <3> QED
      BY <1>1, <3>1
  <2>2. CASE Approve(v)
    BY <2>1, <2>2 DEF Approve
  <2>3. CASE ApproveStops(v)
    <3>1. PICK S : PassRows(S)
      BY <2>3 DEF ApproveStops
    <3> QED
      BY <2>1, <3>1
  <2>4. CASE ForcePass(v)
    BY <2>1, <2>4 DEF ForcePass
  <2>5. CASE Reject(v)
    BY <2>5, ReportedGrows, RejectReports
  <2>6. CASE ApproveFindsNothing(v) \/ ForceSend(v)
    BY <1>1, <2>6 DEF ApproveFindsNothing, ForceSend, store
  <2> QED
    BY <1>6, <2>2, <2>3, <2>4, <2>5, <2>6 DEF Request
<1>7. ASSUME NEW p \in Passages, RemovePassage(p) PROVE r[2] \in reported'
  BY <1>1, <1>7 DEF RemovePassage, store
<1> QED
  BY <1>2, <1>3, <1>4, <1>5, <1>6, <1>7 DEF Next, Worker

LEMMA ReportStep == ReportInv /\ [Next]_vars => ReportInv'
<1> SUFFICES ASSUME ReportInv, [Next]_vars PROVE ReportInv'
  OBVIOUS
<1>1. TypeOK' /\ WholeSplits'
  BY TypeStep, WholeStep DEF ReportInv
<1>2. RejectedIsReported'
  BY RejectedStep DEF RejectedIsReported
<1>3. ASSUME NEW v \in Reviewers, NEW r \in Rows, session'[v].snap[r].status = "REJECT"
      PROVE  r[2] \in reported'
  <2>1. session'[v].snap \in {session[v].snap, row, Idle.snap}
    BY SnapsMove DEF SnapsStep, ReportInv
  <2>2. Idle.snap[r].status = "absent"
    BY DEF Idle, NoRow
  <2>3. r[2] \in reported
    BY <1>3, <2>1, <2>2 DEF ReportInv, SnapsReported, RejectedIsReported
  <2> QED
    BY <2>3, ReportedGrows
<1> QED
  BY <1>1, <1>2, <1>3 DEF ReportInv, SnapsReported

\* The submitter of every rejected packet's numbers has been told, although a
\* request rejects packets it never read.
THEOREM RejectionIsReported == Spec => []RejectedIsReported
<1>1. Init => ReportInv
  <2> SUFFICES ASSUME Init PROVE WholeSplits /\ SnapsReported /\ RejectedIsReported
    BY TypeInit DEF ReportInv
  <2>1. \A r \in Rows : row[r].status = "absent"
    BY DEF Init, NoRow
  <2>2. \A v \in Reviewers : \A r \in Rows : session[v].snap[r].status = "absent"
    BY DEF Init, Idle, NoRow
  <2> QED
    BY <2>1, <2>2 DEF WholeSplits, SnapsReported, RejectedIsReported
<1>2. ReportInv => RejectedIsReported
  BY DEF ReportInv
<1> QED
  BY <1>1, <1>2, ReportStep, PTL DEF Spec

-----------------------------------------------------------------------------
(* A closed task hides no waiting packet.                                  *)

\* A main row belongs to a split that has left the list.
StoredSplits ==
    \A n \in SplitNo : task[n] # "absent" => n <= splits /\ n \notin list

\* A packet of the task a request is about, waiting now, waited when the request
\* read it, or a change of passage put it back.
SnapsFollow ==
    \A v \in Reviewers :
        session[v].op \in {"approve", "reject"} =>
            LET n == session[v].task IN
            /\ n \in SplitNo /\ n <= splits /\ n \notin list
            /\ \A r \in Waiting \ reset : r[1] = n => session[v].snap[r].status = "WAITING"

ClosedInv == TypeOK /\ KnownSplits /\ StoredSplits /\ SnapsFollow /\ ClosedTaskHidesNothing

LEMMA StoredStep ==
    ASSUME TypeOK, KnownSplits, StoredSplits, [Next]_vars
    PROVE  StoredSplits' /\ list' \subseteq list \cup {splits + 1} /\ splits <= splits'
<1> DEFINE Goal == StoredSplits' /\ list' \subseteq list \cup {splits + 1} /\ splits <= splits'
<1>0. splits \in Nat /\ SplitNo \subseteq Nat /\ task \in [SplitNo -> PacketStatus \cup {"absent"}]
  BY BoundsAssumption DEF TypeOK, SplitNo
<1>1. CASE /\ splits' = splits /\ list' \subseteq list
           /\ \A n \in SplitNo : task'[n] # "absent" => task[n] # "absent"
  BY <1>0, <1>1 DEF StoredSplits
<1>2. CASE SplitTask
  <2>1. splits' = splits + 1 /\ list' = list \cup {splits + 1} /\ task' = task
    BY <1>2 DEF SplitTask, store
  <2>2. ASSUME NEW n \in SplitNo, task'[n] # "absent" PROVE n <= splits' /\ n \notin list'
    <3>1. n <= splits /\ n \notin list /\ n \in Nat
      BY <1>0, <2>1, <2>2 DEF StoredSplits
    <3> QED
      BY <1>0, <2>1, <3>1
  <2> QED
    BY <1>0, <2>1, <2>2 DEF StoredSplits
<1>3. ASSUME NEW n \in SplitNo, Persist(n) PROVE Goal
  <2>1. splits' = splits /\ list' = list \ {n} /\ n <= splits
    BY <1>3 DEF Persist, KnownSplits
  <2>2. \A m \in SplitNo : m # n => task'[m] = task[m]
    BY <1>0, <1>3 DEF Persist
  <2> QED
    BY <1>0, <2>1, <2>2 DEF StoredSplits
<1>4. CASE SplitFails \/ FinishSplit \/ CrashInSplit \/ Submit \/ UNCHANGED vars
  BY <1>1, <1>4 DEF SplitFails, FinishSplit, CrashInSplit, Submit, Deliver, store, vars
<1>5. ASSUME NEW n \in SplitNo, Park(n) PROVE Goal
  BY <1>1, <1>5 DEF Park, store
<1>6. CASE ReviewPacket
  <2>1. ASSUME NEW r \in Rows, PassChild(r) PROVE Goal
    BY <1>1, <2>1 DEF PassChild, pipeline
  <2> QED
    BY <1>1, <1>6, <2>1 DEF ReviewPacket, RejectChild, SwitchChild, pipeline
<1>7. CASE ReviewTask
  <2>1. ASSUME NEW n \in SplitNo, RePackets(n) PROVE Goal
    BY <1>0, <1>1, <2>1 DEF RePackets
  <2>2. ASSUME NEW n \in SplitNo, NEW p \in Passages, SwitchTask(n, p) PROVE Goal
    BY <1>1, <2>2 DEF SwitchTask, pipeline
  <2>3. ASSUME NEW n \in SplitNo, NEW v \in Reviewers,
               ReadToApprove(v, n) \/ ReadToReject(v, n)
        PROVE  Goal
    BY <1>1, <2>3 DEF ReadToApprove, ReadToReject, pipeline, store
  <2> QED
    BY <1>7, <2>1, <2>2, <2>3 DEF ReviewTask
<1>8. ASSUME NEW v \in Reviewers, Request(v) PROVE Goal
  <2>1. CASE Approve(v)
    BY <1>0, <1>1, <2>1 DEF Approve, pipeline
  <2>2. CASE Reject(v)
    BY <1>0, <1>1, <2>2 DEF Reject, pipeline
  <2>3. CASE ApproveStops(v) \/ ApproveFindsNothing(v) \/ ForcePass(v) \/ ForceSend(v)
    BY <1>1, <2>3 DEF ApproveStops, ApproveFindsNothing, ForcePass, ForceSend, pipeline, store
  <2> QED
    BY <1>8, <2>1, <2>2, <2>3 DEF Request
<1>9. ASSUME NEW p \in Passages, RemovePassage(p) PROVE Goal
  BY <1>1, <1>9 DEF RemovePassage, pipeline, store
<1> QED
  BY <1>2, <1>3, <1>4, <1>5, <1>6, <1>7, <1>8, <1>9 DEF Next, Listener, Worker

LEMMA ResetGrows ==
    ASSUME [Next]_vars
    PROVE  reset \subseteq reset'
<1>1. CASE Listener \/ SplitFails \/ CrashInSplit \/ Worker \/ Submit \/ UNCHANGED vars
  BY <1>1 DEF Listener, SplitTask, FinishSplit, SplitFails, CrashInSplit,
              Worker, Persist, Park, Submit, Deliver, vars, history
<1>2. CASE ReviewPacket \/ ReviewTask
  BY <1>2 DEF ReviewPacket, PassChild, RejectChild, SwitchChild, ReviewTask,
              RePackets, SwitchTask, ReadToApprove, ReadToReject, history
<1>3. ASSUME NEW v \in Reviewers, Request(v) PROVE reset \subseteq reset'
  BY <1>3 DEF Request, Approve, ApproveStops, ApproveFindsNothing, Reject,
              ForcePass, ForceSend, history
<1>4. ASSUME NEW p \in Passages, RemovePassage(p) PROVE reset \subseteq reset'
  BY <1>4 DEF RemovePassage, history
<1> QED
  BY <1>1, <1>2, <1>3, <1>4 DEF Next

\* A packet starts to wait when its split is stored or when its passage changes.
LEMMA WaitingMove ==
    ASSUME TypeOK, [Next]_vars, NEW r \in Rows, row'[r].status = "WAITING", r \notin reset'
    PROVE  \/ r \in Waiting \ reset
           \/ ~split[r[1]].empty /\ Persist(r[1])
<1>0. row \in [Rows -> RowType] /\ row[r] \in RowType /\ r \notin reset
  BY ResetGrows DEF TypeOK
<1>1. CASE row[r].status = "WAITING"
  BY <1>0, <1>1 DEF Waiting
<1>2. CASE row'[r] = row[r]
  BY <1>1, <1>2
<1> DEFINE Goal == \/ r \in Waiting \ reset
                   \/ ~split[r[1]].empty /\ Persist(r[1])
<1>3. CASE Listener \/ SplitFails \/ CrashInSplit \/ Submit \/ UNCHANGED vars
  BY <1>2, <1>3 DEF Listener, SplitTask, FinishSplit, SplitFails, CrashInSplit,
                    Submit, Deliver, store, vars
<1>4. ASSUME NEW n \in SplitNo, Persist(n) PROVE Goal
  <2>1. CASE r[1] = n /\ ~split[n].empty
    BY <1>4, <2>1
  <2>2. CASE ~(r[1] = n /\ ~split[n].empty)
    BY <1>2, <1>4, <2>2 DEF Persist
  <2> QED
    BY <2>1, <2>2
<1>5. ASSUME NEW n \in SplitNo, Park(n) PROVE Goal
  BY <1>2, <1>5 DEF Park, store
<1>6. CASE ReviewPacket
  <2>1. ASSUME NEW q \in Rows, PassChild(q) \/ RejectChild(q) PROVE Goal
    <3>1. PICK st \in {"HANDLING", "REJECT"} : row' = [row EXCEPT ![q].status = st]
      BY <2>1 DEF PassChild, RejectChild
    <3>2. row'[r] = row[r]
      BY <1>0, <3>1 DEF RowType
    <3> QED
      BY <1>2, <3>2
  <2>2. ASSUME NEW q \in Rows, NEW p \in Passages, SwitchChild(q, p) PROVE Goal
    <3>1. CASE q = r
      <4>1. StatusAfterSwitch(r) = "WAITING"
        BY <1>0, <2>2, <3>1 DEF SwitchChild, Switched
      <4> QED
        BY <2>2, <3>1, <4>1 DEF SwitchChild, PutBack
    <3>2. CASE q # r
      BY <1>0, <1>2, <2>2, <3>2 DEF SwitchChild
    <3> QED
      BY <3>1, <3>2
  <2> QED
    BY <1>6, <2>1, <2>2 DEF ReviewPacket
<1>7. CASE ReviewTask
  <2>1. ASSUME NEW n \in SplitNo, RePackets(n) PROVE Goal
    BY <2>1 DEF RePackets, NoRow
  <2>2. ASSUME NEW n \in SplitNo, NEW p \in Passages, SwitchTask(n, p) PROVE Goal
    <3>1. CASE r \in Present
      <4>1. StatusAfterSwitch(r) = "WAITING"
        BY <2>2, <3>1 DEF SwitchTask, Switched
      <4> QED
        BY <2>2, <3>1, <4>1 DEF SwitchTask, PutBack
    <3>2. CASE r \notin Present
      BY <1>2, <2>2, <3>2 DEF SwitchTask
    <3> QED
      BY <3>1, <3>2
  <2>3. ASSUME NEW n \in SplitNo, NEW v \in Reviewers,
               ReadToApprove(v, n) \/ ReadToReject(v, n)
        PROVE  Goal
    BY <1>2, <2>3 DEF ReadToApprove, ReadToReject, store
  <2> QED
    BY <1>7, <2>1, <2>2, <2>3 DEF ReviewTask
<1>8. ASSUME NEW v \in Reviewers, Request(v) PROVE Goal
  <2>1. ASSUME NEW S, PassRows(S) PROVE Goal
    <3>1. row'[r] = row[r]
      BY <1>0, <2>1 DEF PassRows, RowType
    <3> QED
      BY <1>2, <3>1
  <2>2. CASE Approve(v) \/ ForcePass(v)
    BY <2>1, <2>2 DEF Approve, ForcePass
  <2>3. CASE ApproveStops(v)
    <3>1. PICK S : PassRows(S)
      BY <2>3 DEF ApproveStops
    <3> QED
      BY <2>1, <3>1
  <2>4. CASE Reject(v)
    <3>1. row'[r] = row[r]
      BY <1>0, <2>4 DEF Reject, RowType
    <3> QED
      BY <1>2, <3>1
  <2>5. CASE ApproveFindsNothing(v) \/ ForceSend(v)
    BY <1>2, <2>5 DEF ApproveFindsNothing, ForceSend, store
  <2> QED
    BY <1>8, <2>2, <2>3, <2>4, <2>5 DEF Request
<1>9. ASSUME NEW p \in Passages, RemovePassage(p) PROVE Goal
  BY <1>2, <1>9 DEF RemovePassage, store
<1> QED
  BY <1>3, <1>4, <1>5, <1>6, <1>7, <1>8, <1>9 DEF Next, Worker

Reads(v, n) == ReadToApprove(v, n) \/ ReadToReject(v, n)

LEMMA SessionMove ==
    ASSUME TypeOK, [Next]_vars, NEW v \in Reviewers
    PROVE  \/ session'[v] = session[v]
           \/ session'[v].op \in {"idle", "force"}
           \/ \E n \in SplitNo : Reads(v, n)
<1> DEFINE Goal == \/ session'[v] = session[v]
                   \/ session'[v].op \in {"idle", "force"}
                   \/ \E n \in SplitNo : Reads(v, n)
<1>0. session \in [Reviewers -> SessionType]
  BY DEF TypeOK
<1>1. CASE session' = session
  BY <1>1
<1>2. CASE Listener \/ SplitFails \/ CrashInSplit \/ Worker \/ Submit \/ UNCHANGED vars
  BY <1>1, <1>2 DEF Listener, SplitTask, FinishSplit, SplitFails, CrashInSplit,
                    Worker, Persist, Park, Submit, Deliver, vars
<1>3. CASE ReviewPacket
  BY <1>1, <1>3 DEF ReviewPacket, PassChild, RejectChild, SwitchChild
<1>4. CASE ReviewTask
  <2>1. ASSUME NEW n \in SplitNo, NEW u \in Reviewers, Reads(u, n) PROVE Goal
    <3>1. CASE u = v
      BY <2>1, <3>1
    <3>2. CASE u # v
      BY <1>0, <2>1, <3>2 DEF Reads, ReadToApprove, ReadToReject
    <3> QED
      BY <3>1, <3>2
  <2> QED
    BY <1>1, <1>4, <2>1 DEF ReviewTask, RePackets, SwitchTask, Reads
<1>5. ASSUME NEW u \in Reviewers, Request(u) PROVE Goal
  <2>1. CASE Leave(u)
    BY <1>0, <2>1 DEF Leave, Idle
  <2>2. CASE ForcePass(u)
    BY <1>0, <2>2 DEF ForcePass, Idle
  <2> QED
    BY <1>5, <2>1, <2>2 DEF Request, Approve, ApproveStops, ApproveFindsNothing,
                            Reject, ForceSend
<1>6. ASSUME NEW p \in Passages, RemovePassage(p) PROVE Goal
  BY <1>1, <1>6 DEF RemovePassage
<1> QED
  BY <1>2, <1>3, <1>4, <1>5, <1>6 DEF Next

LEMMA FollowStep ==
    ASSUME ClosedInv, [Next]_vars
    PROVE  SnapsFollow'
<1> SUFFICES ASSUME NEW v \in Reviewers, session'[v].op \in {"approve", "reject"}
             PROVE  LET n == session'[v].task IN
                    /\ n \in SplitNo /\ n <= splits' /\ n \notin list'
                    /\ \A r \in Rows : row'[r].status = "WAITING" /\ r \notin reset' /\ r[1] = n
                            => session'[v].snap[r].status = "WAITING"
  BY DEF SnapsFollow, Waiting
<1>0. /\ list' \subseteq list \cup {splits + 1} /\ splits <= splits'
      /\ splits \in Nat /\ splits' \in Nat /\ SplitNo \subseteq Nat
  BY StoredStep, TypeStep, BoundsAssumption DEF ClosedInv, TypeOK, SplitNo
<1>1. CASE session'[v] = session[v]
  <2> DEFINE n == session[v].task
  <2>1. n \in SplitNo /\ n <= splits /\ n \notin list
    BY <1>1 DEF ClosedInv, SnapsFollow
  <2>2. n <= splits' /\ n \notin list'
    <3> HIDE DEF n
    <3>1. n \in Nat
      BY <1>0, <2>1
    <3>2. n <= splits' /\ n # splits + 1
      BY <1>0, <2>1, <3>1
    <3> QED
      BY <1>0, <2>1, <3>2
  <2>3. ASSUME NEW r \in Rows, row'[r].status = "WAITING", r \notin reset', r[1] = n
        PROVE  session[v].snap[r].status = "WAITING"
    <3>1. ~Persist(r[1])
      BY <2>1, <2>3 DEF Persist
    <3>2. r \in Waiting \ reset
      BY <2>3, <3>1, WaitingMove DEF ClosedInv
    <3> QED
      BY <1>1, <2>3, <3>2 DEF ClosedInv, SnapsFollow
  <2> QED
    BY <1>1, <2>1, <2>2, <2>3
<1>2. ASSUME NEW n \in SplitNo, Reads(v, n)
      PROVE  LET m == session'[v].task IN
             /\ m \in SplitNo /\ m <= splits' /\ m \notin list'
             /\ \A r \in Rows : row'[r].status = "WAITING" /\ r \notin reset' /\ r[1] = m
                     => session'[v].snap[r].status = "WAITING"
  <2>1. /\ session'[v].task = n /\ session'[v].snap = row
        /\ UNCHANGED <<splits, list, row>> /\ task[n] # "absent"
    BY <1>2 DEF Reads, ReadToApprove, ReadToReject, pipeline, store, ClosedInv, TypeOK
  <2>2. n <= splits /\ n \notin list
    BY <2>1 DEF ClosedInv, StoredSplits
  <2> QED
    BY <2>1, <2>2
<1> QED
  BY <1>1, <1>2, SessionMove DEF ClosedInv

\* A main row is closed only by a step that leaves none of its packets waiting.
LEMMA ClosedStep ==
    ASSUME ClosedInv, [Next]_vars, NEW r \in Rows,
           row'[r].status = "WAITING", r \notin reset'
    PROVE  task'[r[1]] = "WAITING"
<1>0. /\ row \in [Rows -> RowType] /\ task \in [SplitNo -> PacketStatus \cup {"absent"}]
      /\ r[1] \in SplitNo /\ r[2] \in Groups /\ split[r[1]] \in Splits
  BY RowOf DEF ClosedInv, TypeOK
<1>1. CASE ~split[r[1]].empty /\ Persist(r[1])
  <2>1. PacketStartStatus(split[r[1]], r[2]) = "WAITING"
    BY <1>1 DEF Persist, StartStatus
  <2>2. TaskStartStatus(split[r[1]]) = "WAITING"
    BY <1>0, <1>1, <2>1, StartTypes, AutoTaskHasOnlyAutoPackets
  <2> QED
    BY <1>0, <1>1, <2>2 DEF Persist
<1>2. CASE r \in Waiting \ reset
  <2>1. task[r[1]] = "WAITING"
    BY <1>2 DEF ClosedInv, ClosedTaskHidesNothing
  <2>2. CASE task'[r[1]] = task[r[1]]
    BY <2>1, <2>2
  <2>3. CASE Listener \/ SplitFails \/ CrashInSplit \/ Submit \/ UNCHANGED vars
    BY <2>2, <2>3 DEF Listener, SplitTask, FinishSplit, SplitFails, CrashInSplit,
                      Submit, Deliver, store, vars
  <2>4. ASSUME NEW n \in SplitNo, Persist(n) PROVE task'[r[1]] = "WAITING"
    <3>1. r[1] # n
      BY <1>0, <2>1, <2>4 DEF Persist, ClosedInv, StoredSplits
    <3> QED
      BY <1>0, <2>2, <2>4, <3>1 DEF Persist
  <2>5. ASSUME NEW n \in SplitNo, Park(n) PROVE task'[r[1]] = "WAITING"
    BY <2>2, <2>5 DEF Park, store
  <2>6. CASE ReviewPacket
    <3>1. ASSUME NEW q \in Rows, PassChild(q) PROVE task'[r[1]] = "WAITING"
      <4>1. q # r
        BY <1>0, <3>1 DEF PassChild, RowType
      <4>2. task' = task
        BY <1>2, <3>1, <4>1 DEF PassChild
      <4> QED
        BY <2>1, <4>2
    <3> QED
      BY <2>2, <2>6, <3>1 DEF ReviewPacket, RejectChild, SwitchChild
  <2>7. CASE ReviewTask
    <3>1. ASSUME NEW n \in SplitNo, RePackets(n) PROVE task'[r[1]] = "WAITING"
      BY <3>1 DEF RePackets, NoRow
    <3> QED
      BY <2>2, <2>7, <3>1 DEF ReviewTask, SwitchTask, ReadToApprove, ReadToReject, store
  <2>8. ASSUME NEW v \in Reviewers, Request(v) PROVE task'[r[1]] = "WAITING"
    <3>1. CASE Approve(v)
      <4>1. r \notin Pending(session[v].snap)
        BY <1>0, <3>1 DEF Approve, PassRows, RowType
      <4>2. session[v].snap[r].status # "WAITING"
        BY <4>1 DEF Pending, Passed
      <4>3. r[1] # session[v].task
        BY <1>2, <3>1, <4>2 DEF Approve, ClosedInv, SnapsFollow
      <4> QED
        BY <1>0, <2>2, <3>1, <4>3 DEF Approve
    <3>2. CASE Reject(v)
      <4> DEFINE n == session[v].task
                 read == {q \in Rows : session[v].snap[q].status # "absent"}
      <4>1. task[n] = "absent" \/ read = {}
        BY <1>0, <1>2, <3>2 DEF Reject, Waiting, RowType
      <4>2. CASE task[n] = "absent"
        BY <2>2, <3>2, <4>2 DEF Reject
      <4>3. CASE read = {}
        <5>1. session[v].snap[r].status # "WAITING"
          BY <4>3
        <5>2. r[1] # n
          BY <1>2, <3>2, <5>1 DEF Reject, ClosedInv, SnapsFollow
        <5>3. task' = task \/ task' = [task EXCEPT ![n] = "REJECT"]
          BY <3>2 DEF Reject
        <5> QED
          BY <1>0, <2>2, <5>2, <5>3
      <4> QED
        BY <4>1, <4>2, <4>3
    <3>3. CASE ApproveStops(v) \/ ApproveFindsNothing(v) \/ ForcePass(v) \/ ForceSend(v)
      BY <2>2, <3>3 DEF ApproveStops, ApproveFindsNothing, ForcePass, ForceSend, store
    <3> QED
      BY <2>8, <3>1, <3>2, <3>3 DEF Request
  <2>9. ASSUME NEW p \in Passages, RemovePassage(p) PROVE task'[r[1]] = "WAITING"
    BY <2>2, <2>9 DEF RemovePassage, store
  <2> QED
    BY <2>3, <2>4, <2>5, <2>6, <2>7, <2>8, <2>9 DEF Next, Worker
<1> QED
  BY <1>1, <1>2, WaitingMove DEF ClosedInv

LEMMA ClosedInvStep == ClosedInv /\ [Next]_vars => ClosedInv'
<1> SUFFICES ASSUME ClosedInv, [Next]_vars PROVE ClosedInv'
  OBVIOUS
<1>1. TypeOK' /\ KnownSplits' /\ StoredSplits'
  BY TypeStep, KnownStep, StoredStep DEF ClosedInv
<1>2. SnapsFollow'
  BY FollowStep
<1>3. ClosedTaskHidesNothing'
  BY ClosedStep DEF ClosedTaskHidesNothing, Waiting
<1> QED
  BY <1>1, <1>2, <1>3 DEF ClosedInv

\* A packet that waits is on the reviewers' list: its main task waits too, unless
\* a change of passage put the packet back.
THEOREM ClosedTaskIsThrough == Spec => []ClosedTaskHidesNothing
<1>1. Init => ClosedInv
  <2> SUFFICES ASSUME Init
               PROVE  KnownSplits /\ StoredSplits /\ SnapsFollow /\ ClosedTaskHidesNothing
    BY TypeInit DEF ClosedInv
  <2>1. \A r \in Rows : row[r].status = "absent"
    BY DEF Init, NoRow
  <2>2. KnownSplits
    BY <2>1 DEF Init, KnownSplits
  <2>3. StoredSplits /\ ClosedTaskHidesNothing
    BY <2>1 DEF Init, StoredSplits, ClosedTaskHidesNothing, Waiting
  <2>4. SnapsFollow
    BY DEF Init, Idle, SnapsFollow
  <2> QED
    BY <2>2, <2>3, <2>4
<1>2. ClosedInv => ClosedTaskHidesNothing
  BY DEF ClosedInv
<1> QED
  BY <1>1, <1>2, ClosedInvStep, PTL DEF Spec
=============================================================================
