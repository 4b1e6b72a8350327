----------------------------- MODULE SmsPackets -----------------------------
(***************************************************************************)
(* What SmsWaitPacketsListener decides about one downstream SMS task: the  *)
(* passage each (operator, province) group of numbers is routed to, the    *)
(* remark and the action bits its packet carries, and the review status of *)
(* every packet and of the task.  These are the closed forms;  SmsSplit    *)
(* runs the loops of the code and is checked against them,  SmsTask builds *)
(* the life of a task from them.                                           *)
(*                                                                         *)
(* A "split" is everything one pass over a task depends on:                *)
(*   content  the content errors found before routing                      *)
(*   route    the usable passage of each group, NoPassage when neither the *)
(*            province nor the whole country has an active one             *)
(*   empty    no usable number was left, so no packet is built             *)
(***************************************************************************)
EXTENDS Naturals, FiniteSets

CONSTANTS
    NumGroups,      \* number of (operator, province) groups, in iteration order
    Op,             \* operator of a group: 1 = CM, 2 = CU, 3 = CT
    Passages,       \* the passages (upstream channels) that exist
    NoPassage,      \* the null passage id
    ContentErrors,  \* kinds of error text put on the task before routing
    Reviewable      \* the kinds that also break an action bit (template, words)

Groups    == 1 .. NumGroups
Operators == 1 .. 3

\* doTaskPackets is called for CM, then CU, then CT, so groups are numbered so.
ASSUME GroupsAssumption ==
    /\ NumGroups \in Nat \ {0}
    /\ Op \in [Groups -> Operators]
    /\ \A g, h \in Groups : g <= h => Op[g] <= Op[h]

ASSUME PassagesAssumption == NoPassage \notin Passages

ASSUME ContentAssumption ==
    /\ Reviewable \subseteq ContentErrors
    /\ "passage" \notin ContentErrors

\* PacketsApproveStatus
PacketStatus == {"WAITING", "AUTO", "HANDLING", "REJECT"}

\* Numbers are not routed when none is usable.
NoRoute == [g \in Groups |-> NoPassage]
Splits == {s \in [content : SUBSET ContentErrors,
                  route   : [Groups -> Passages \cup {NoPassage}],
                  empty   : BOOLEAN] : s.empty => s.route = NoRoute}

\* The access used for a group: the province's own one if it is active, else the
\* operator's whole-country one.
Routed(own, country) ==
    [g \in Groups |-> IF own[g] # NoPassage THEN own[g] ELSE country[Op[g]]]

\* routePassage.getXxErrorMessage(): some province of the operator found no access.
PassageError(route, o) == \E g \in Groups : Op[g] = o /\ route[g] = NoPassage

\* Mutant of SeesPassageError: a report that starts afresh for each operator.
SeesOwnErrorOnly(route, g) == PassageError(route, Op[g])

\* The error report of the task accumulates over the operators, so a group also
\* sees the passage errors of the operators handled before its own.
SeesPassageError(route, g) == \E o \in 1 .. Op[g] : PassageError(route, o)

HasRemark(s, g) == s.content # {} \/ SeesPassageError(s.route, g)

\* forceActions of a packet, as the set of its broken positions
Bits(s, g) == (s.content \cap Reviewable)
                \cup (IF SeesPassageError(s.route, g) THEN {"passage"} ELSE {})

\* Mutant of OnlyPassageBroken: the other positions are not looked at.
PassageBroken(bits) == "passage" \in bits

\* isOnlyContainPassageError
OnlyPassageBroken(bits) == bits = {"passage"}

\* `access` is declared before the loop over the provinces of an operator, so a
\* group without access takes over that of the last earlier group that had one.
EarlierAccess(route, g) ==
    {h \in Groups : h < g /\ Op[h] = Op[g] /\ route[h] # NoPassage}

AttachedPassage(route, g) ==
    IF route[g] # NoPassage THEN route[g]
    ELSE IF EarlierAccess(route, g) = {} THEN NoPassage
    ELSE LET last == CHOOSE h \in EarlierAccess(route, g) :
                        \A k \in EarlierAccess(route, g) : k <= h
         IN  route[last]

\* joinTaskPackets: the status a packet starts with.
PacketStartStatus(s, g) ==
    IF \/ AttachedPassage(s.route, g) = NoPassage
       \/ HasRemark(s, g)
       \/ "template" \in s.content
    THEN "WAITING" ELSE "AUTO"

\* doPrepareTask: any error on a task that has packets leaves it to a reviewer.
TaskHasError(s) ==
    \/ s.content # {}
    \/ s.empty
    \/ \E o \in Operators : PassageError(s.route, o)

\* Mutant of TaskStartStatus: passage errors do not reach the task's report.
StartStatusOfContent(s) == IF s.content = {} \/ s.empty THEN "AUTO" ELSE "WAITING"

TaskStartStatus(s) == IF ~TaskHasError(s) \/ s.empty THEN "AUTO" ELSE "WAITING"
=============================================================================
