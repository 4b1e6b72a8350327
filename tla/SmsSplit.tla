------------------------------ MODULE SmsSplit ------------------------------
(***************************************************************************)
(* The loops of generatePassagePackets and doTaskPackets, one group of     *)
(* numbers per step, with the variables the code keeps across iterations:  *)
(* the error report and action bits of the task (which outlive one         *)
(* operator), the message and bits snapshotted per operator, and `access`  *)
(* (which outlives one province).  A packet records the range of the       *)
(* group's numbers it carries.                                             *)
(***************************************************************************)
EXTENDS SmsPackets, Sequences

CONSTANTS
    MaxNumbers,     \* bound: numbers in one group
    SizeLimits,     \* values of a passage's mobileSize, 0 means "not set"
    DefaultSize     \* DEFAULT_MOBILE_SIZE_PER_PACKTES (500 in the code)

ASSUME SizeAssumption ==
    /\ MaxNumbers \in Nat \ {0}
    /\ SizeLimits \subseteq Nat
    /\ DefaultSize \in Nat \ {0}

VARIABLES
    content,        \* input: content errors
    own, country,   \* input: active access per province / per operator
    numbers,        \* input: how many numbers each group holds
    limit,          \* input: mobileSize of each passage
    next,           \* the next group to handle, NumGroups + 1 when through
    entered,        \* the operator whose snapshot is in message and action
    taskError, taskBits,    \* errorMessageReport # "" and forceActionsReport
    message, action,        \* finalMessage # "" and action, of this operator
    access,                 \* passage left by the last province that had one
    packets,                \* the packets built so far
    verdict                 \* the task's approve status, "none" before the end

inputs == <<content, own, country, numbers, limit>>
vars   == <<content, own, country, numbers, limit, next, entered, taskError,
            taskBits, message, action, access, packets, verdict>>

Access == Passages \cup {NoPassage}

route == Routed(own, country)
Split == [content |-> content, route |-> route, empty |-> FALSE]

Packet == [group : Groups, first : 1 .. MaxNumbers, last : 1 .. MaxNumbers,
           passage : Access, remark : BOOLEAN,
           bits : SUBSET (Reviewable \cup {"passage"}), status : PacketStatus]

\* Mutants of Chunks: the tail is forgotten; the last range is not cut at n.
FullChunks(n, size) ==
    [i \in 1 .. n \div size |-> [first |-> (i - 1) * size + 1, last |-> i * size]]
UncutChunks(n, size) ==
    [i \in 1 .. (n + size - 1) \div size |->
        [first |-> (i - 1) * size + 1, last |-> i * size]]

\* doSplitMobileByPacketsSize: the ranges of n numbers cut into parts of `size`.
Chunks(n, size) ==
    LET count == IF n % size = 0 THEN n \div size ELSE n \div size + 1
    IN  [i \in 1 .. count |->
            [first |-> (i - 1) * size + 1,
             last  |-> IF i * size < n THEN i * size ELSE n]]

\* Mutant of PerPacket: the passage's own limit is ignored.
AlwaysDefault(p) == DefaultSize

PerPacket(p) == IF limit[p] = 0 THEN DefaultSize ELSE limit[p]

\* Mutant of Join: a remark does not hold the packet back.
JoinIgnoringRemark(g, range, p) ==
    [group |-> g, first |-> range.first, last |-> range.last, passage |-> p,
     remark |-> message, bits |-> action,
     status |-> IF p = NoPassage \/ "template" \in content THEN "WAITING" ELSE "AUTO"]

\* joinTaskPackets
Join(g, range, p) ==
    [group |-> g, first |-> range.first, last |-> range.last, passage |-> p,
     remark |-> message, bits |-> action,
     status |-> IF p = NoPassage \/ message \/ "template" \in content
                THEN "WAITING" ELSE "AUTO"]

Init ==
    /\ content \in SUBSET ContentErrors
    /\ own \in [Groups -> Access]
    /\ country \in [Operators -> Access]
    /\ numbers \in [Groups -> 1 .. MaxNumbers]
    /\ limit \in [Passages -> SizeLimits]
    /\ next = 1
    /\ entered = 0
    /\ taskError = (content # {})
    /\ taskBits = content \cap Reviewable
    /\ message = FALSE
    /\ action = {}
    /\ access = NoPassage
    /\ packets = << >>
    /\ verdict = "none"

\* doTaskPackets up to its loop: snapshot the task's errors; a passage error is
\* put on the snapshot and on the task.
EnterOperator ==
    /\ next <= NumGroups
    /\ entered # Op[next]
    /\ entered' = Op[next]
    /\ message' = (taskError \/ PassageError(route, Op[next]))
    /\ action' = IF PassageError(route, Op[next])
                 THEN taskBits \cup {"passage"} ELSE taskBits
    /\ taskError' = message'
    /\ taskBits' = action'
    /\ access' = NoPassage
    /\ UNCHANGED <<inputs, next, packets, verdict>>

\* The province has no access: one packet with whatever `access` still holds.
JoinWithoutAccess ==
    /\ next <= NumGroups /\ entered = Op[next]
    /\ route[next] = NoPassage
    /\ packets' = Append(packets,
                    Join(next, [first |-> 1, last |-> numbers[next]], access))
    /\ next' = next + 1
    /\ UNCHANGED <<inputs, entered, taskError, taskBits, message, action,
                   access, verdict>>

\* The province has an access: as many packets as its mobileSize asks for.
JoinWithAccess ==
    /\ next <= NumGroups /\ entered = Op[next]
    /\ route[next] # NoPassage
    /\ access' = route[next]
    /\ LET cut == Chunks(numbers[next], PerPacket(access'))
       IN  packets' = packets \o [i \in DOMAIN cut |-> Join(next, cut[i], access')]
    /\ next' = next + 1
    /\ UNCHANGED <<inputs, entered, taskError, taskBits, message, action, verdict>>

\* doPrepareTask: process status and approve status of the task.
PrepareTask ==
    /\ next = NumGroups + 1 /\ verdict = "none"
    /\ verdict' = IF ~taskError \/ packets = << >> THEN "AUTO" ELSE "WAITING"
    /\ UNCHANGED <<inputs, next, entered, taskError, taskBits, message, action,
                   access, packets>>

Next == EnterOperator \/ JoinWithoutAccess \/ JoinWithAccess \/ PrepareTask

Spec == Init /\ [][Next]_vars
-----------------------------------------------------------------------------
\* Every variable has its type; the packets stay within the numbers of a group.
TypeOK ==
    /\ content \subseteq ContentErrors
    /\ own \in [Groups -> Access] /\ country \in [Operators -> Access]
    /\ numbers \in [Groups -> 1 .. MaxNumbers]
    /\ limit \in [Passages -> SizeLimits]
    /\ next \in 1 .. NumGroups + 1
    /\ entered \in {0} \cup Operators
    /\ taskError \in BOOLEAN /\ message \in BOOLEAN
    /\ taskBits \subseteq Reviewable \cup {"passage"}
    /\ action \subseteq Reviewable \cup {"passage"}
    /\ access \in Access
    /\ \A i \in DOMAIN packets : packets[i] \in Packet
    /\ verdict \in {"none", "AUTO", "WAITING"}

\* The packets built by the loops carry what the closed forms of SmsPackets say,
\* so that SmsTask may start from the closed forms: code kept across iterations
\* (report, bits, access) does exactly this much and no more.
LoopMeetsClosedForm ==
    \A i \in DOMAIN packets :
        LET p == packets[i] IN
        /\ p.passage = AttachedPassage(route, p.group)
        /\ p.remark  = HasRemark(Split, p.group)
        /\ p.bits    = Bits(Split, p.group)
        /\ p.status  = PacketStartStatus(Split, p.group)

\* The task's verdict is the closed form, and a task that no reviewer will see
\* has no packet that waits for one.
VerdictCoversPackets ==
    verdict # "none" =>
        /\ verdict = TaskStartStatus(Split)
        /\ verdict = "AUTO" => \A i \in DOMAIN packets : packets[i].status = "AUTO"

\* The packets of a handled group carry each of its numbers exactly once.
NumbersCoveredOnce ==
    \A g \in 1 .. next - 1 : \A n \in 1 .. numbers[g] :
        Cardinality({i \in DOMAIN packets : /\ packets[i].group = g
                                            /\ packets[i].first <= n
                                            /\ n <= packets[i].last}) = 1

\* A packet of a group with an access is never larger than the passage takes.
PacketFitsPassage ==
    \A i \in DOMAIN packets :
        LET p == packets[i]
            size == p.last + 1 - p.first
        IN  route[p.group] # NoPassage =>
                IF limit[p.passage] = 0 THEN size \in 1 .. DefaultSize
                                        ELSE size \in 1 .. limit[p.passage]

\* A packet that goes out without review is one whose own group has an access
\* and whose task had no error when it was built, the template included.
AutoOnlyWhenClean ==
    \A i \in DOMAIN packets :
        packets[i].status = "AUTO" =>
            /\ content = {}
            /\ route[packets[i].group] # NoPassage
            /\ packets[i].bits = {}

\* The comment on the branch says that when the passage is empty the packet is
\* given empty passage data (SmsWaitPacketsListener line 906).
NoAccessNoPassage ==
    \A i \in DOMAIN packets :
        route[packets[i].group] = NoPassage => packets[i].passage = NoPassage
=============================================================================
