--------------------------- MODULE SmsTask_proofs ---------------------------
(***************************************************************************)
(* Proofs about the life of a task, for any number of groups, passages,    *)
(* reviewers, splits, operations and faults.                               *)
(***************************************************************************)
EXTENDS SmsTask, SmsPackets_proofs

-----------------------------------------------------------------------------
(* Types                                                                   *)

LEMMA NoRowType == NoRow \in RowType
BY DEF NoRow, RowType

LEMMA IdleType == Idle \in SessionType
BY NoRowType, BoundsAssumption DEF Idle, SessionType

LEMMA RowOf ==
    ASSUME NEW r \in Rows
    PROVE  r[1] \in SplitNo /\ r[2] \in Groups
BY DEF Rows

LEMMA StartStatusType ==
    ASSUME TypeOK, NEW r \in Rows
    PROVE  /\ StartStatus(r) \in {"WAITING", "AUTO"}
           /\ AttachedPassage(split[r[1]].route, r[2]) \in Passages \cup {NoPassage}
<1>1. split[r[1]] \in Splits /\ r[2] \in Groups
  BY RowOf DEF TypeOK
<1> QED
  BY <1>1, StartTypes DEF StartStatus

LEMMA SwitchType ==
    ASSUME NEW r, NEW p \in Passages
    PROVE  /\ StatusAfterSwitch(r) \in {"WAITING", "HANDLING"}
           /\ Switched(r, p) \in RowType
BY DEF StatusAfterSwitch, Switched, RowType, PacketStatus

\* Publishing copies keeps the types of the queue and of its history.
LEMMA PublishType ==
    ASSUME TypeOK, NEW C \in SUBSET Copies, Publish(C)
    PROVE  submitQ' \subseteq Copies /\ published' \subseteq Rows
BY DEF TypeOK, Copies, Publish

LEMMA CopiedType ==
    ASSUME NEW S \in SUBSET Rows
    PROVE  Copied(S, "HANDLING") \subseteq Copies
BY DEF Copied, Copies, PacketStatus

LEMMA StatusOfType ==
    ASSUME NEW x \in RowType, NEW st \in PacketStatus
    PROVE  [x EXCEPT !.status = st] \in RowType
BY DEF RowType

LEMMA PassRowsType ==
    ASSUME TypeOK, NEW S \in SUBSET Rows, PassRows(S)
    PROVE  row' \in [Rows -> RowType]
<1> DEFINE f(r) == IF r \in S THEN [row[r] EXCEPT !.status = "HANDLING"] ELSE row[r]
<1>1. \A r \in Rows : row[r] \in RowType
  BY DEF TypeOK
<1>2. \A r \in Rows : f(r) \in RowType
  BY <1>1, StatusOfType DEF PacketStatus
<1>3. row' = [r \in Rows |-> f(r)]
  BY DEF PassRows
<1> HIDE DEF f
<1> QED
  BY <1>2, <1>3

LEMMA LeaveType ==
    ASSUME TypeOK, NEW v \in Reviewers, Leave(v)
    PROVE  session' \in [Reviewers -> SessionType]
BY IdleType DEF TypeOK, Leave

LEMMA TypeInit == Init => TypeOK
<1> SUFFICES ASSUME Init PROVE TypeOK
  OBVIOUS
<1>1. split \in [SplitNo -> Splits]
  BY DEF Init, NoSplit, Splits, NoRoute
<1>2. session \in [Reviewers -> SessionType]
  BY IdleType DEF Init
<1>3. row \in [Rows -> RowType]
  BY NoRowType DEF Init
<1>4. /\ waitQ \in Nat /\ splits + waitQ <= MaxSplits /\ splits \in 0 .. MaxSplits
      /\ sending \in 0 .. MaxSplits
      /\ ops \in 0 .. MaxOps /\ faults \in 0 .. MaxFaults
  BY BoundsAssumption DEF Init
<1>5. task \in [SplitNo -> PacketStatus \cup {"absent"}]
  BY DEF Init
<1>6. /\ list \subseteq SplitNo /\ parked \subseteq SplitNo
      /\ submitQ \subseteq Copies /\ gone \subseteq Passages
      /\ sent \subseteq Rows /\ published \subseteq Rows /\ unroutable \subseteq Rows
      /\ approved \subseteq Rows /\ reset \subseteq Rows
      /\ reported \subseteq Groups /\ dropped \in BOOLEAN
  BY DEF Init
<1> QED
  BY <1>1, <1>2, <1>3, <1>4, <1>5, <1>6 DEF TypeOK

LEMMA TypeListener ==
    ASSUME TypeOK,
           \/ SplitTask \/ FinishSplit \/ SplitFails \/ CrashInSplit
           \/ \E n \in SplitNo : Persist(n) \/ Park(n)
           \/ \E c \in Copies : Deliver(c)
    PROVE  TypeOK'
<1> USE DEF TypeOK, store, history, bounds
<1>s. ASSUME NEW n \in Nat
      PROVE  StartCopies(StartRows(n)) \subseteq Copies
  BY StartStatusType DEF StartCopies, StartRows, Copies, PacketStatus
<1>1. CASE SplitTask
  <2>1. splits + 1 \in SplitNo /\ waitQ - 1 \in Nat
    BY <1>1, BoundsAssumption DEF SplitTask, SplitNo
  <2> QED
    BY <1>1, <2>1, BoundsAssumption DEF SplitTask, SplitNo
<1>2. CASE FinishSplit
  <2>1. submitQ' \subseteq Copies /\ published' \subseteq Rows
    BY <1>2, <1>s, PublishType, BoundsAssumption DEF FinishSplit
  <2> QED
    BY <1>2, <2>1, BoundsAssumption DEF FinishSplit
<1>3. CASE SplitFails
  BY <1>3, BoundsAssumption DEF SplitFails, Fault
<1>4. CASE CrashInSplit
  <2>1. PICK S \in SUBSET StartRows(sending) : Publish(StartCopies(S))
    BY <1>4 DEF CrashInSplit
  <2>2. StartCopies(S) \subseteq StartCopies(StartRows(sending))
    BY DEF StartCopies
  <2>3. submitQ' \subseteq Copies /\ published' \subseteq Rows
    BY <2>1, <2>2, <1>s, PublishType, BoundsAssumption
  <2> QED
    BY <1>4, <2>3, BoundsAssumption DEF CrashInSplit, Fault, MaySplitAgain
<1>5. ASSUME NEW n \in SplitNo, Persist(n) PROVE TypeOK'
  <2>1. TaskStartStatus(split[n]) \in PacketStatus
    BY DEF TaskStartStatus, PacketStatus
  <2>2. task' \in [SplitNo -> PacketStatus \cup {"absent"}]
    BY <1>5, <2>1 DEF Persist
  <2>3. row' \in [Rows -> RowType]
    BY <1>5, StartStatusType DEF Persist, RowType, PacketStatus
  <2> QED
    BY <1>5, <2>2, <2>3 DEF Persist
<1>6. ASSUME NEW n \in SplitNo, Park(n) PROVE TypeOK'
  BY <1>6, BoundsAssumption DEF Park, Fault
<1>7. ASSUME NEW c \in Copies, Deliver(c) PROVE TypeOK'
  <2>1. c.row \in Rows
    BY DEF Copies
  <2> QED
    BY <1>7, <2>1 DEF Deliver
<1> QED
  BY <1>1, <1>2, <1>3, <1>4, <1>5, <1>6, <1>7

LEMMA TypePacket ==
    ASSUME TypeOK, ReviewPacket
    PROVE  TypeOK'
<1> USE DEF TypeOK, pipeline, Operate
<1>1. ASSUME NEW r \in Rows, PassChild(r) PROVE TypeOK'
  <2>1. row' \in [Rows -> RowType]
    BY <1>1, StatusOfType DEF PassChild, PacketStatus
  <2>2. task' \in [SplitNo -> PacketStatus \cup {"absent"}]
    BY <1>1 DEF PassChild, PacketStatus
  <2>3. /\ submitQ' \subseteq Copies /\ published' \subseteq Rows
        /\ unroutable' \subseteq Rows
    <3>1. CASE Resolves(row[r].passage)
      BY <1>1, <3>1, CopiedType, PublishType DEF PassChild
    <3>2. CASE ~Resolves(row[r].passage)
      BY <1>1, <3>2 DEF PassChild, NothingPublished
    <3> QED
      BY <3>1, <3>2
  <2> QED
    BY <1>1, <2>1, <2>2, <2>3, BoundsAssumption DEF PassChild
<1>2. ASSUME NEW r \in Rows, RejectChild(r) PROVE TypeOK'
  <2>1. row' \in [Rows -> RowType]
    BY <1>2, StatusOfType DEF RejectChild, PacketStatus
  <2> QED
    BY <1>2, <2>1, RowOf, BoundsAssumption DEF RejectChild
<1>3. ASSUME NEW r \in Rows, NEW p \in Passages, SwitchChild(r, p) PROVE TypeOK'
  <2>1. row' \in [Rows -> RowType]
    BY <1>3, SwitchType DEF SwitchChild
  <2>2. submitQ' \subseteq Copies /\ published' \subseteq Rows
    <3>1. CASE StatusAfterSwitch(r) = "HANDLING"
      BY <1>3, <3>1, CopiedType, PublishType DEF SwitchChild
    <3>2. CASE StatusAfterSwitch(r) # "HANDLING"
      BY <1>3, <3>2 DEF SwitchChild, NothingPublished
    <3> QED
      BY <3>1, <3>2
  <2> QED
    BY <1>3, <2>1, <2>2, BoundsAssumption DEF SwitchChild, PutBack
<1> QED
  BY <1>1, <1>2, <1>3 DEF ReviewPacket

LEMMA TypeTask ==
    ASSUME TypeOK, ReviewTask
    PROVE  TypeOK'
<1> USE DEF TypeOK, pipeline, Operate, store, history
<1>1. ASSUME NEW n \in SplitNo, RePackets(n) PROVE TypeOK'
  <2>1. row' \in [Rows -> RowType]
    BY <1>1, NoRowType DEF RePackets
  <2> QED
    BY <1>1, <2>1, BoundsAssumption DEF RePackets, MaySplitAgain
<1>2. ASSUME NEW n \in SplitNo, NEW p \in Passages, SwitchTask(n, p) PROVE TypeOK'
  <2> DEFINE C == {[row |-> r, status |-> StatusAfterSwitch(r)] : r \in Present}
  <2>1. row' \in [Rows -> RowType]
    BY <1>2, SwitchType DEF SwitchTask
  <2>2. C \subseteq Copies
    BY SwitchType DEF Copies, PacketStatus, Present, StatusAfterSwitch
  <2>3. submitQ' \subseteq Copies /\ published' \subseteq Rows
    BY <1>2, <2>2, PublishType DEF SwitchTask
  <2> QED
    BY <1>2, <2>1, <2>3, BoundsAssumption DEF SwitchTask, PutBack, Present
<1>3. ASSUME NEW n \in SplitNo, NEW v \in Reviewers, ReadToApprove(v, n) PROVE TypeOK'
  <2>1. session' \in [Reviewers -> SessionType]
    BY <1>3 DEF ReadToApprove, SessionType, SplitNo
  <2> QED
    BY <1>3, <2>1, BoundsAssumption DEF ReadToApprove
<1>4. ASSUME NEW n \in SplitNo, NEW v \in Reviewers, ReadToReject(v, n) PROVE TypeOK'
  <2>1. session' \in [Reviewers -> SessionType]
    BY <1>4 DEF ReadToReject, SessionType, SplitNo
  <2> QED
    BY <1>4, <2>1, BoundsAssumption DEF ReadToReject
<1> QED
  BY <1>1, <1>2, <1>3, <1>4 DEF ReviewTask

LEMMA TypeRequest ==
    ASSUME TypeOK, NEW v \in Reviewers, Request(v)
    PROVE  TypeOK'
<1> USE DEF TypeOK, pipeline, bounds, store, history
<1>1. CASE Approve(v)
  <2> DEFINE todo == Pending(session[v].snap)
  <2>1. todo \subseteq Rows
    BY DEF Pending
  <2>2. row' \in [Rows -> RowType] /\ session' \in [Reviewers -> SessionType]
    BY <1>1, <2>1, PassRowsType, LeaveType DEF Approve
  <2>3. submitQ' \subseteq Copies /\ published' \subseteq Rows
    BY <1>1, <2>1, CopiedType, PublishType DEF Approve
  <2>4. task' \in [SplitNo -> PacketStatus \cup {"absent"}]
    BY <1>1 DEF Approve, PacketStatus
  <2>5. approved' \subseteq Rows
    BY <1>1, <2>1 DEF Approve
  <2> QED
    BY <1>1, <2>2, <2>3, <2>4, <2>5 DEF Approve
<1>2. CASE ApproveStops(v)
  <2> DEFINE todo == Pending(session[v].snap)
  <2>1. PICK bad \in todo, S \in SUBSET todo :
            /\ PassRows(S \cup {bad})
            /\ approved' = approved \cup S \cup {bad}
            /\ unroutable' = unroutable \cup {bad}
            /\ Publish(Copied(S, "HANDLING"))
    BY <1>2 DEF ApproveStops
  <2>2. todo \subseteq Rows
    BY DEF Pending
  <2>3. row' \in [Rows -> RowType] /\ session' \in [Reviewers -> SessionType]
    BY <1>2, <2>1, <2>2, PassRowsType, LeaveType DEF ApproveStops
  <2>4. submitQ' \subseteq Copies /\ published' \subseteq Rows
    BY <2>1, <2>2, CopiedType, PublishType
  <2>5. approved' \subseteq Rows /\ unroutable' \subseteq Rows
    BY <2>1, <2>2
  <2>6. ops' \in 0 .. MaxOps /\ faults' \in 0 .. MaxFaults
    BY <1>2, BoundsAssumption DEF ApproveStops, Fault
  <2> QED
    BY <1>2, <2>3, <2>4, <2>5, <2>6 DEF ApproveStops
<1>3. CASE ApproveFindsNothing(v)
  BY <1>3, LeaveType DEF ApproveFindsNothing
<1>4. CASE Reject(v)
  <2>1. task' \in [SplitNo -> PacketStatus \cup {"absent"}]
    BY <1>4 DEF Reject, PacketStatus
  <2>2. row' \in [Rows -> RowType]
    BY <1>4, StatusOfType DEF Reject, PacketStatus
  <2>3. reported' \subseteq Groups
    BY <1>4, RowOf DEF Reject
  <2> QED
    BY <1>4, <2>1, <2>2, <2>3, LeaveType DEF Reject
<1>5. CASE ForcePass(v)
  <2>1. row' \in [Rows -> RowType]
    BY <1>5, PassRowsType DEF ForcePass, Waiting
  <2>2. session' \in [Reviewers -> SessionType]
    BY <1>5, IdleType DEF ForcePass, SessionType
  <2> QED
    BY <1>5, <2>1, <2>2, BoundsAssumption DEF ForcePass, Operate, Waiting
<1>6. CASE ForceSend(v)
  <2> DEFINE routable == {r \in Present : Resolves(row[r].passage)}
             C == {[row |-> r, status |-> row[r].status] : r \in routable}
  <2>1. C \subseteq Copies
    BY DEF Present, Copies, RowType
  <2>2. submitQ' \subseteq Copies /\ published' \subseteq Rows
    BY <1>6, <2>1, PublishType DEF ForceSend
  <2> QED
    BY <1>6, <2>2, LeaveType DEF ForceSend, Present
<1> QED
  BY <1>1, <1>2, <1>3, <1>4, <1>5, <1>6 DEF Request

LEMMA TypeStep == TypeOK /\ [Next]_vars => TypeOK'
<1> SUFFICES ASSUME TypeOK, [Next]_vars PROVE TypeOK'
  OBVIOUS
<1>1. CASE UNCHANGED vars
  BY <1>1 DEF vars, TypeOK
<1>2. ASSUME NEW p \in Passages, RemovePassage(p) PROVE TypeOK'
  BY <1>2, BoundsAssumption
     DEF RemovePassage, Fault, TypeOK, pipeline, store, history
<1> QED
  BY <1>1, <1>2, TypeListener, TypePacket, TypeTask, TypeRequest
     DEF Next, Listener, Worker, Submit

\* Every variable keeps its type, and the queued messages and the splits made
\* stay within the bound on splits.
THEOREM TypeCorrect == Spec => []TypeOK
BY TypeInit, TypeStep, PTL DEF Spec

-----------------------------------------------------------------------------
(* Flagged content is passed by a reviewer before it is sent.              *)

\* No packet, list entry or listener names a split that was not made yet, so a
\* new split changes what none of them says.
KnownSplits ==
    /\ \A r \in Rows : row[r].status # "absent" => r[1] <= splits
    /\ \A n \in list : n <= splits
    /\ sending <= splits

Cleared(r) ==
    /\ r[1] <= splits
    /\ split[r[1]].content \cap Reviewable # {} => r \in approved

\* The strengthening of FlaggedNeedsApproval: a packet is cleared as soon as its
\* row or one of its copies has a status that is transported.
OnlyClearedMove ==
    /\ \A r \in Rows : row[r].status \in Passed => Cleared(r)
    /\ \A c \in submitQ : c.status \in Passed => Cleared(c.row)
    /\ \A r \in sent : Cleared(r)

FlaggedInv == TypeOK /\ KnownSplits /\ OnlyClearedMove

LEMMA FlaggedInit == Init => FlaggedInv
<1> SUFFICES ASSUME Init PROVE KnownSplits /\ OnlyClearedMove
  BY TypeInit DEF FlaggedInv
<1>1. \A r \in Rows : row[r].status = "absent"
  BY DEF Init, NoRow
<1> QED
  BY <1>1 DEF Init, KnownSplits, OnlyClearedMove, Passed

\* Reviewers' passes are never taken back, and a split is never rewritten.
LEMMA HistoryGrows ==
    ASSUME [Next]_vars
    PROVE  /\ approved \subseteq approved'
           /\ SplitTask \/ UNCHANGED <<splits, split>>
<1> USE DEF history, pipeline
<1>1. CASE Listener \/ SplitFails \/ CrashInSplit \/ Worker \/ Submit
  BY <1>1 DEF Listener, Worker, Submit, SplitTask, FinishSplit, SplitFails,
              CrashInSplit, Persist, Park, Deliver
<1>2. CASE ReviewPacket
  BY <1>2 DEF ReviewPacket, PassChild, RejectChild, SwitchChild
<1>3. CASE ReviewTask
  BY <1>3 DEF ReviewTask, RePackets, SwitchTask, ReadToApprove, ReadToReject
<1>4. ASSUME NEW v \in Reviewers, Request(v)
      PROVE  approved \subseteq approved' /\ UNCHANGED <<splits, split>>
  BY <1>4 DEF Request, Approve, ApproveStops, ApproveFindsNothing, Reject,
              ForcePass, ForceSend
<1>5. ASSUME NEW p \in Passages, RemovePassage(p)
      PROVE  approved \subseteq approved' /\ UNCHANGED <<splits, split>>
  BY <1>5 DEF RemovePassage
<1>6. CASE UNCHANGED vars
  BY <1>6 DEF vars
<1> QED
  BY <1>1, <1>2, <1>3, <1>4, <1>5, <1>6 DEF Next

\* A cleared packet stays cleared.
LEMMA ClearedStays ==
    ASSUME TypeOK, [Next]_vars, NEW r \in Rows, Cleared(r)
    PROVE  Cleared(r)'
<1>1. CASE UNCHANGED <<splits, split>>
  BY <1>1, HistoryGrows DEF Cleared
<1>2. CASE SplitTask
  <2>1. PICK s \in Splits : split' = [split EXCEPT ![splits + 1] = s]
    BY <1>2 DEF SplitTask
  <2>2. splits' = splits + 1 /\ approved' = approved
    BY <1>2 DEF SplitTask, history
  <2>3. r[1] \in Nat /\ splits \in Nat /\ r[1] \in SplitNo
    BY RowOf, BoundsAssumption DEF TypeOK, SplitNo
  <2>4. r[1] <= splits /\ r[1] # splits + 1
    BY <2>3 DEF Cleared
  <2>5. split'[r[1]] = split[r[1]]
    BY <2>1, <2>3, <2>4 DEF TypeOK
  <2> QED
    BY <2>2, <2>3, <2>4, <2>5 DEF Cleared
<1> QED
  BY <1>1, <1>2, HistoryGrows

\* isOnlyContainPassageError lets no packet with flagged content through.
LEMMA SwitchKeepsFlagged ==
    ASSUME TypeOK, NEW r \in Rows, StatusAfterSwitch(r) = "HANDLING"
    PROVE  split[r[1]].content \cap Reviewable = {}
<1>1. split[r[1]].content \subseteq ContentErrors
  BY RowOf DEF TypeOK, Splits
<1>2. Bits(split[r[1]], r[2]) = {"passage"}
  BY DEF StatusAfterSwitch, OnlyPassageBroken, RowBits
<1>3. split[r[1]].content \cap Reviewable \subseteq {"passage"}
  BY <1>2 DEF Bits
<1> QED
  BY <1>1, <1>3, ContentAssumption

\* A packet that starts in a status that is transported has no flagged content.
LEMMA StartsClean ==
    ASSUME TypeOK, NEW r \in Rows, StartStatus(r) \in Passed
    PROVE  split[r[1]].content = {}
<1>1. split[r[1]] \in Splits /\ r[2] \in Groups
  BY RowOf DEF TypeOK
<1>2. PacketStartStatus(split[r[1]], r[2]) = "AUTO"
  BY <1>1, StartTypes DEF StartStatus, Passed
<1> QED
  BY <1>1, <1>2, AutoPacketIsClean

LEMMA KnownStep ==
    ASSUME TypeOK, KnownSplits, [Next]_vars
    PROVE  KnownSplits'
<1> USE DEF KnownSplits, store
<1>0. /\ \A r \in Rows : row[r] \in RowType /\ r[1] \in Nat
      /\ splits \in Nat /\ sending \in Nat /\ list \subseteq Nat
  BY RowOf, BoundsAssumption DEF TypeOK, SplitNo
<1>1. CASE UNCHANGED <<row, splits>> /\ list' \subseteq list /\ sending' \in {sending, 0}
  <2>1. \A r \in Rows : row'[r].status # "absent" => r[1] <= splits'
    BY <1>1
  <2>2. \A n \in list' : n <= splits'
    BY <1>1
  <2>3. sending' <= splits'
    BY <1>0, <1>1
  <2> QED
    BY <2>1, <2>2, <2>3
<1>2. CASE SplitTask
  <2>0. splits' = splits + 1 /\ row' = row /\ sending' = splits' /\ list' = list \cup {splits'}
    BY <1>2 DEF SplitTask
  <2>1. ASSUME NEW r \in Rows, row'[r].status # "absent" PROVE r[1] <= splits'
    <3>1. r[1] <= splits /\ r[1] \in Nat
      BY <1>0, <2>0, <2>1
    <3> QED
      BY <1>0, <2>0, <3>1
  <2>2. ASSUME NEW n \in list' PROVE n <= splits'
    <3>1. splits' = splits + 1
      BY <2>0
    <3>2. CASE n \in list
      <4>1. n <= splits /\ n \in Nat
        BY <1>0, <3>2
      <4> QED
        BY <1>0, <3>1, <4>1
    <3>3. CASE n = splits'
      BY <1>0, <3>1, <3>3
    <3> QED
      BY <2>0, <2>2, <3>2, <3>3
  <2>3. sending' <= splits'
    BY <1>0, <2>0
  <2> QED
    BY <2>1, <2>2, <2>3
<1>3. ASSUME NEW n \in SplitNo, Persist(n) PROVE KnownSplits'
  <2>1. \A r \in Rows : row'[r].status # "absent" => r[1] = n \/ row[r].status # "absent"
    BY <1>3 DEF Persist
  <2> QED
    BY <1>0, <1>3, <2>1 DEF Persist
<1>4. CASE UNCHANGED pipeline /\ \A r \in Rows :
               row'[r].status # "absent" => row[r].status # "absent"
  BY <1>4 DEF pipeline
<1>5. CASE FinishSplit \/ SplitFails \/ CrashInSplit \/ (\E n \in SplitNo : Park(n)) \/ Submit
  BY <1>1, <1>5 DEF FinishSplit, SplitFails, CrashInSplit, Park, Submit, Deliver
<1>6. CASE ReviewPacket
  <2>1. \A r \in Rows : row'[r].status # "absent" => row[r].status # "absent"
    BY <1>6 DEF ReviewPacket, PassChild, RejectChild, SwitchChild, Present, TypeOK
  <2> QED
    BY <1>4, <1>6, <2>1 DEF ReviewPacket, PassChild, RejectChild, SwitchChild
<1>7. CASE ReviewTask
  <2>1. ASSUME NEW n \in SplitNo, RePackets(n) PROVE KnownSplits'
    BY <2>1 DEF RePackets, NoRow
  <2>2. ASSUME NEW n \in SplitNo, NEW p \in Passages, SwitchTask(n, p) PROVE KnownSplits'
    <3>1. \A r \in Rows : row'[r].status # "absent" => row[r].status # "absent"
      BY <2>2 DEF SwitchTask, Present
    <3> QED
      BY <1>4, <2>2, <3>1 DEF SwitchTask
  <2>3. ASSUME NEW n \in SplitNo, NEW v \in Reviewers,
               ReadToApprove(v, n) \/ ReadToReject(v, n)
        PROVE  KnownSplits'
    BY <1>4, <2>3 DEF ReadToApprove, ReadToReject
  <2> QED
    BY <1>7, <2>1, <2>2, <2>3 DEF ReviewTask
<1>8. ASSUME NEW v \in Reviewers, Request(v) PROVE KnownSplits'
  <2>1. CASE Approve(v) \/ ApproveStops(v)
    <3>1. PICK S : PassRows(S) /\ S \subseteq Present
      <4>1. CASE Approve(v)
        BY <4>1 DEF Approve
      <4>2. CASE ApproveStops(v)
        BY <4>2 DEF ApproveStops
      <4> QED
        BY <2>1, <4>1, <4>2
    <3>2. \A r \in Rows : row'[r].status # "absent" => row[r].status # "absent"
      BY <3>1 DEF PassRows, Present
    <3> QED
      BY <1>4, <2>1, <3>2 DEF Approve, ApproveStops
  <2>2. CASE ForcePass(v)
    <3>1. \A r \in Rows : row'[r].status # "absent" => row[r].status # "absent"
      BY <2>2 DEF ForcePass, PassRows, Waiting
    <3> QED
      BY <1>4, <2>2, <3>1 DEF ForcePass
  <2>3. CASE Reject(v)
    <3>1. \A r \in Rows : row'[r].status # "absent" => row[r].status # "absent"
      BY <2>3 DEF Reject, Waiting
    <3> QED
      BY <1>4, <2>3, <3>1 DEF Reject
  <2>4. CASE ApproveFindsNothing(v) \/ ForceSend(v)
    BY <1>4, <2>4 DEF ApproveFindsNothing, ForceSend
  <2> QED
    BY <1>8, <2>1, <2>2, <2>3, <2>4 DEF Request
<1>9. ASSUME NEW p \in Passages, RemovePassage(p) PROVE KnownSplits'
  BY <1>4, <1>9 DEF RemovePassage
<1>10. CASE UNCHANGED vars
  BY <1>10 DEF vars
<1> QED
  BY <1>2, <1>3, <1>5, <1>6, <1>7, <1>8, <1>9, <1>10 DEF Next, Listener, Worker

\* The two ways a packet of an earlier split becomes cleared.
LEMMA BecomesCleared ==
    ASSUME UNCHANGED <<splits, split>>, NEW r \in Rows, r[1] <= splits,
           split[r[1]].content \cap Reviewable = {} \/ r \in approved'
    PROVE  Cleared(r)'
BY DEF Cleared

\* No step gives a row a status that is transported unless it is cleared.
LEMMA RowsCleared ==
    ASSUME FlaggedInv, [Next]_vars, NEW r \in Rows, row'[r].status \in Passed
    PROVE  Cleared(r)'
<1> USE DEF FlaggedInv
<1>1. /\ row[r] \in RowType /\ row \in [Rows -> RowType]
      /\ row[r].status # "absent" => r[1] <= splits
      /\ \A n \in list : n <= splits
  BY DEF TypeOK, KnownSplits
<1>2. CASE row[r].status \in Passed
  BY <1>2, ClearedStays DEF OnlyClearedMove
<1>3. CASE row' = row
  BY <1>2, <1>3
<1>4. CASE Listener \/ SplitFails \/ CrashInSplit \/ Submit \/ UNCHANGED vars
  BY <1>3, <1>4 DEF Listener, SplitTask, FinishSplit, SplitFails, CrashInSplit,
                    Submit, Deliver, store, vars
<1>5. ASSUME NEW n \in SplitNo, Persist(n) PROVE Cleared(r)'
  <2>1. CASE r[1] = n /\ ~split[n].empty
    <3>1. StartStatus(r) \in Passed /\ UNCHANGED <<splits, split>> /\ r[1] <= splits
      BY <1>1, <1>5, <2>1 DEF Persist
    <3> QED
      BY <3>1, StartsClean, BecomesCleared
  <2>2. CASE ~(r[1] = n /\ ~split[n].empty)
    <3>1. row'[r] = row[r]
      BY <1>5, <2>2 DEF Persist
    <3> QED
      BY <1>2, <3>1
  <2> QED
    BY <2>1, <2>2
<1>6. ASSUME NEW n \in SplitNo, Park(n) PROVE Cleared(r)'
  BY <1>3, <1>6 DEF Park, store
<1>7. CASE ReviewPacket
  <2>1. ASSUME NEW q \in Rows, PassChild(q) PROVE Cleared(r)'
    <3>1. CASE q = r
      BY <1>1, <2>1, <3>1, BecomesCleared DEF PassChild, Present, pipeline
    <3>2. CASE q # r
      <4>1. row'[r] = row[r]
        BY <1>1, <2>1, <3>2 DEF PassChild
      <4> QED
        BY <1>2, <4>1
    <3> QED
      BY <3>1, <3>2
  <2>2. ASSUME NEW q \in Rows, RejectChild(q) PROVE Cleared(r)'
    <3>1. CASE q = r
      BY <1>1, <2>2, <3>1 DEF RejectChild, Passed, RowType
    <3>2. CASE q # r
      <4>1. row'[r] = row[r]
        BY <1>1, <2>2, <3>2 DEF RejectChild
      <4> QED
        BY <1>2, <4>1
    <3> QED
      BY <3>1, <3>2
  <2>3. ASSUME NEW q \in Rows, NEW p \in Passages, SwitchChild(q, p) PROVE Cleared(r)'
    <3>1. CASE q = r
      <4>1. row'[r].status = StatusAfterSwitch(r)
        BY <1>1, <2>3, <3>1 DEF SwitchChild, Switched
      <4>2. StatusAfterSwitch(r) = "HANDLING"
        BY <4>1 DEF StatusAfterSwitch, Passed
      <4>3. r[1] <= splits /\ UNCHANGED <<splits, split>>
        BY <1>1, <2>3, <3>1 DEF SwitchChild, Present, pipeline
      <4> QED
        BY <4>2, <4>3, SwitchKeepsFlagged, BecomesCleared
    <3>2. CASE q # r
      <4>1. row'[r] = row[r]
        BY <1>1, <2>3, <3>2 DEF SwitchChild
      <4> QED
        BY <1>2, <4>1
    <3> QED
      BY <3>1, <3>2
  <2> QED
    BY <1>7, <2>1, <2>2, <2>3 DEF ReviewPacket
<1>8. CASE ReviewTask
  <2>1. ASSUME NEW n \in SplitNo, RePackets(n) PROVE Cleared(r)'
    BY <2>1 DEF RePackets, NoRow, Passed
  <2>2. ASSUME NEW n \in SplitNo, NEW p \in Passages, SwitchTask(n, p) PROVE Cleared(r)'
    <3>1. CASE r \in Present
      <4>1. row'[r].status = StatusAfterSwitch(r)
        BY <2>2, <3>1 DEF SwitchTask, Switched
      <4>2. StatusAfterSwitch(r) = "HANDLING"
        BY <4>1 DEF StatusAfterSwitch, Passed
      <4>3. r[1] <= splits /\ UNCHANGED <<splits, split>>
        BY <1>1, <2>2, <3>1 DEF SwitchTask, Present, pipeline
      <4> QED
        BY <4>2, <4>3, SwitchKeepsFlagged, BecomesCleared
    <3>2. CASE r \notin Present
      BY <1>2, <2>2, <3>2 DEF SwitchTask
    <3> QED
      BY <3>1, <3>2
  <2>3. ASSUME NEW n \in SplitNo, NEW v \in Reviewers,
               ReadToApprove(v, n) \/ ReadToReject(v, n)
        PROVE  Cleared(r)'
    BY <1>3, <2>3 DEF ReadToApprove, ReadToReject, store
  <2> QED
    BY <1>8, <2>1, <2>2, <2>3 DEF ReviewTask
<1>9. ASSUME NEW v \in Reviewers, Request(v) PROVE Cleared(r)'
  <2>1. ASSUME NEW S \in SUBSET Present, PassRows(S), S \subseteq approved',
               UNCHANGED <<splits, split>>
        PROVE  Cleared(r)'
    <3>1. CASE r \in S
      BY <1>1, <2>1, <3>1, BecomesCleared DEF Present
    <3>2. CASE r \notin S
      BY <1>2, <2>1, <3>2 DEF PassRows
    <3> QED
      BY <3>1, <3>2
  <2>2. CASE Approve(v)
    BY <2>1, <2>2 DEF Approve, pipeline
  <2>3. CASE ApproveStops(v)
    <3>1. PICK S \in SUBSET Present : PassRows(S) /\ S \subseteq approved'
      BY <2>3 DEF ApproveStops
    <3> QED
      BY <2>1, <2>3, <3>1 DEF ApproveStops, pipeline
  <2>4. CASE ForcePass(v)
    <3>1. Waiting \subseteq Present
      BY DEF Waiting, Present
    <3> QED
      BY <2>1, <2>4, <3>1 DEF ForcePass, pipeline
  <2>5. CASE Reject(v)
    <3>1. row'[r].status = "REJECT" \/ row'[r] = row[r]
      BY <1>1, <2>5 DEF Reject, RowType
    <3> QED
      BY <1>2, <3>1 DEF Passed
  <2>6. CASE ApproveFindsNothing(v) \/ ForceSend(v)
    BY <1>3, <2>6 DEF ApproveFindsNothing, ForceSend, store
  <2> QED
    BY <1>9, <2>2, <2>3, <2>4, <2>5, <2>6 DEF Request
<1>10. ASSUME NEW p \in Passages, RemovePassage(p) PROVE Cleared(r)'
  BY <1>3, <1>10 DEF RemovePassage, store
<1> QED
  BY <1>4, <1>5, <1>6, <1>7, <1>8, <1>9, <1>10 DEF Next, Worker

\* Publishing cleared copies keeps the submit queues cleared.
LEMMA PublishCleared ==
    ASSUME FlaggedInv, [Next]_vars, NEW C \in SUBSET Copies, Publish(C),
           \A c \in C : c.status \in Passed => Cleared(c.row)',
           NEW c \in submitQ', c.status \in Passed
    PROVE  Cleared(c.row)'
<1>1. CASE c \in submitQ
  <2>1. c.row \in Rows /\ Cleared(c.row)
    BY <1>1 DEF FlaggedInv, TypeOK, OnlyClearedMove, Copies
  <2> QED
    BY <2>1, ClearedStays DEF FlaggedInv
<1>2. CASE c \in C
  BY <1>2
<1> QED
  BY <1>1, <1>2 DEF Publish

\* No step puts a copy with a transported status on a submit queue unless its
\* packet is cleared.
LEMMA CopiesCleared ==
    ASSUME FlaggedInv, [Next]_vars, NEW c \in submitQ', c.status \in Passed
    PROVE  Cleared(c.row)'
<1> USE DEF FlaggedInv
<1>1. /\ \A r \in Rows : row[r] \in RowType
      /\ \A r \in Present : r \in Rows /\ r[1] <= splits
      /\ sending <= splits
  BY DEF TypeOK, KnownSplits, Present
<1>2. CASE submitQ' \subseteq submitQ
  <2>1. c.row \in Rows /\ Cleared(c.row)
    BY <1>2 DEF TypeOK, OnlyClearedMove, Copies
  <2> QED
    BY <2>1, ClearedStays
<1>3. ASSUME NEW S \in SUBSET Rows, Publish(Copied(S, "HANDLING")),
             UNCHANGED <<splits, split>>,
             \A r \in S : r[1] <= splits
                          /\ (split[r[1]].content \cap Reviewable = {} \/ r \in approved')
      PROVE  Cleared(c.row)'
  <2>1. \A d \in Copied(S, "HANDLING") : Cleared(d.row)'
    BY <1>3, BecomesCleared DEF Copied
  <2> QED
    BY <1>3, <2>1, CopiedType, PublishCleared
<1>4. ASSUME NEW S \in SUBSET StartRows(sending), Publish(StartCopies(S)),
             UNCHANGED <<splits, split>>
      PROVE  Cleared(c.row)'
  <2>1. \A r \in S : r \in Rows /\ r[1] <= splits
    BY <1>1 DEF StartRows
  <2>2. StartCopies(S) \subseteq Copies
    BY <2>1, StartStatusType DEF StartCopies, Copies, PacketStatus
  <2>3. ASSUME NEW d \in StartCopies(S), d.status \in Passed PROVE Cleared(d.row)'
    <3>1. PICK r \in S : d = [row |-> r, status |-> StartStatus(r)]
      BY <2>3 DEF StartCopies
    <3>2. split[r[1]].content = {}
      BY <2>1, <2>3, <3>1, StartsClean
    <3> QED
      BY <1>4, <2>1, <3>1, <3>2, BecomesCleared
  <2> QED
    BY <1>4, <2>2, <2>3, PublishCleared
<1>5. CASE SplitTask \/ SplitFails \/ Submit \/ UNCHANGED vars
  BY <1>2, <1>5 DEF SplitTask, SplitFails, Submit, Deliver, vars
<1>6. CASE FinishSplit
  BY <1>4, <1>6 DEF FinishSplit
<1>7. CASE CrashInSplit
  BY <1>4, <1>7 DEF CrashInSplit
<1>8. ASSUME NEW n \in SplitNo, Persist(n) \/ Park(n) PROVE Cleared(c.row)'
  BY <1>2, <1>8 DEF Persist, Park
<1>9. CASE ReviewPacket
  <2>1. ASSUME NEW r \in Rows, PassChild(r) PROVE Cleared(c.row)'
    <3>1. CASE Resolves(row[r].passage)
      BY <1>1, <1>3, <2>1, <3>1 DEF PassChild, pipeline
    <3>2. CASE ~Resolves(row[r].passage)
      BY <1>2, <2>1, <3>2 DEF PassChild, NothingPublished
    <3> QED
      BY <3>1, <3>2
  <2>2. ASSUME NEW r \in Rows, RejectChild(r) PROVE Cleared(c.row)'
    BY <1>2, <2>2 DEF RejectChild
  <2>3. ASSUME NEW r \in Rows, NEW p \in Passages, SwitchChild(r, p) PROVE Cleared(c.row)'
    <3>1. CASE StatusAfterSwitch(r) = "HANDLING"
      <4>1. Publish(Copied({r}, "HANDLING")) /\ UNCHANGED <<splits, split>> /\ r[1] <= splits
        BY <1>1, <2>3, <3>1 DEF SwitchChild, pipeline
      <4> QED
        BY <1>3, <3>1, <4>1, SwitchKeepsFlagged
    <3>2. CASE StatusAfterSwitch(r) # "HANDLING"
      BY <1>2, <2>3, <3>2 DEF SwitchChild, NothingPublished
    <3> QED
      BY <3>1, <3>2
  <2> QED
    BY <1>9, <2>1, <2>2, <2>3 DEF ReviewPacket
<1>10. CASE ReviewTask
  <2>1. ASSUME NEW n \in SplitNo, RePackets(n) PROVE Cleared(c.row)'
    BY <1>2, <2>1 DEF RePackets
  <2>2. ASSUME NEW n \in SplitNo, NEW p \in Passages, SwitchTask(n, p)
        PROVE  Cleared(c.row)'
    <3> DEFINE C == {[row |-> r, status |-> StatusAfterSwitch(r)] : r \in Present}
    <3>1. Publish(C) /\ UNCHANGED <<splits, split>>
      BY <2>2 DEF SwitchTask, pipeline
    <3>2. C \subseteq Copies
      BY SwitchType DEF Copies, PacketStatus, Present, StatusAfterSwitch
    <3>3. ASSUME NEW d \in C, d.status \in Passed PROVE Cleared(d.row)'
      <4>1. PICK r \in Present : d = [row |-> r, status |-> StatusAfterSwitch(r)]
        BY <3>3
      <4>2. StatusAfterSwitch(r) = "HANDLING"
        BY <3>3, <4>1 DEF StatusAfterSwitch, Passed
      <4> QED
        BY <1>1, <3>1, <4>1, <4>2, SwitchKeepsFlagged, BecomesCleared
    <3> HIDE DEF C
    <3> QED
      BY <3>1, <3>2, <3>3, PublishCleared
  <2>3. ASSUME NEW n \in SplitNo, NEW v \in Reviewers,
               ReadToApprove(v, n) \/ ReadToReject(v, n)
        PROVE  Cleared(c.row)'
    BY <1>2, <2>3 DEF ReadToApprove, ReadToReject
  <2> QED
    BY <1>10, <2>1, <2>2, <2>3 DEF ReviewTask
<1>11. ASSUME NEW v \in Reviewers, Request(v) PROVE Cleared(c.row)'
  <2>1. CASE Approve(v)
    BY <1>1, <1>3, <2>1 DEF Approve, pipeline, Present
  <2>2. CASE ApproveStops(v)
    <3>1. PICK S \in SUBSET Present :
              S \subseteq approved' /\ Publish(Copied(S, "HANDLING"))
      BY <2>2 DEF ApproveStops
    <3> QED
      BY <1>1, <1>3, <2>2, <3>1 DEF ApproveStops, pipeline, Present
  <2>3. CASE ForceSend(v)
    <3> DEFINE routable == {r \in Present : Resolves(row[r].passage)}
               C == {[row |-> r, status |-> row[r].status] : r \in routable}
    <3>1. C \subseteq Copies
      BY <1>1 DEF Present, Copies, RowType
    <3>2. \A d \in C : d.status \in Passed => Cleared(d.row)'
      BY <1>1, ClearedStays DEF OnlyClearedMove
    <3>3. Publish(C)
      BY <2>3 DEF ForceSend
    <3> HIDE DEF C
    <3> QED
      BY <3>1, <3>2, <3>3, PublishCleared
  <2>4. CASE ApproveFindsNothing(v) \/ Reject(v) \/ ForcePass(v)
    BY <1>2, <2>4 DEF ApproveFindsNothing, Reject, ForcePass
  <2> QED
    BY <1>11, <2>1, <2>2, <2>3, <2>4 DEF Request
<1>12. ASSUME NEW p \in Passages, RemovePassage(p) PROVE Cleared(c.row)'
  BY <1>2, <1>12 DEF RemovePassage
<1> QED
  BY <1>5, <1>6, <1>7, <1>8, <1>9, <1>10, <1>11, <1>12 DEF Next, Listener, Worker

\* Only a packet with a transported status leaves a submit queue for a provider.
LEMMA SentCleared ==
    ASSUME FlaggedInv, [Next]_vars, NEW r \in sent'
    PROVE  Cleared(r)'
<1> USE DEF FlaggedInv
<1>1. CASE r \in sent
  <2>1. r \in Rows /\ Cleared(r)
    BY <1>1 DEF TypeOK, OnlyClearedMove
  <2> QED
    BY <2>1, ClearedStays
<1>2. ASSUME NEW c \in Copies, Deliver(c) PROVE Cleared(r)'
  <2>1. CASE r = c.row /\ c.status \in Passed
    <3>1. r \in Rows /\ Cleared(r)
      BY <1>2, <2>1 DEF Deliver, OnlyClearedMove, Copies
    <3> QED
      BY <3>1, ClearedStays
  <2> QED
    BY <1>1, <1>2, <2>1 DEF Deliver, Copies, PacketStatus, Passed
<1>3. CASE sent' = sent
  BY <1>1, <1>3
<1>4. CASE Listener \/ SplitFails \/ CrashInSplit \/ Worker \/ UNCHANGED vars
  BY <1>3, <1>4 DEF Listener, SplitTask, FinishSplit, SplitFails, CrashInSplit,
                    Worker, Persist, Park, history, vars
<1>5. CASE ReviewPacket
  BY <1>3, <1>5 DEF ReviewPacket, PassChild, RejectChild, SwitchChild
<1>6. CASE ReviewTask
  BY <1>3, <1>6 DEF ReviewTask, RePackets, SwitchTask, ReadToApprove, ReadToReject, history
<1>7. ASSUME NEW v \in Reviewers, Request(v) PROVE Cleared(r)'
  BY <1>3, <1>7 DEF Request, Approve, ApproveStops, ApproveFindsNothing, Reject,
                    ForcePass, ForceSend, history
<1>8. ASSUME NEW p \in Passages, RemovePassage(p) PROVE Cleared(r)'
  BY <1>3, <1>8 DEF RemovePassage, history
<1> QED
  BY <1>2, <1>4, <1>5, <1>6, <1>7, <1>8 DEF Next, Submit

LEMMA FlaggedStep == FlaggedInv /\ [Next]_vars => FlaggedInv'
<1> SUFFICES ASSUME FlaggedInv, [Next]_vars PROVE FlaggedInv'
  OBVIOUS
<1>1. TypeOK'
  BY TypeStep DEF FlaggedInv
<1>2. KnownSplits'
  BY KnownStep DEF FlaggedInv
<1>3. OnlyClearedMove'
  BY RowsCleared, CopiesCleared, SentCleared DEF OnlyClearedMove
<1> QED
  BY <1>1, <1>2, <1>3 DEF FlaggedInv

\* Content no template covers, or with a forbidden word, reaches a provider only
\* after a reviewer passed that very packet.
THEOREM FlaggedContentIsReviewed == Spec => []FlaggedNeedsApproval
<1>1. FlaggedInv => FlaggedNeedsApproval
  BY DEF FlaggedInv, OnlyClearedMove, Cleared, FlaggedNeedsApproval
<1> QED
  BY <1>1, FlaggedInit, FlaggedStep, PTL DEF Spec
=============================================================================
