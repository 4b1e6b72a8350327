------------------------- MODULE SmsPackets_proofs -------------------------
(***************************************************************************)
(* Facts about the split of a task, for any number of groups, operators    *)
(* and passages.                                                           *)
(***************************************************************************)
EXTENDS SmsPackets, WellFoundedInduction, TLAPS

\* Of the earlier groups of an operator that had an access there is a last one,
\* so the choice in AttachedPassage is of a group that exists.
LEMMA LastAccessExists ==
    ASSUME NEW route, NEW g \in Groups, EarlierAccess(route, g) # {}
    PROVE  \E h \in EarlierAccess(route, g) :
               \A k \in EarlierAccess(route, g) : k <= h
<1> DEFINE E == EarlierAccess(route, g)
           T == {g - h : h \in E}
<1>1. g \in Nat /\ E \subseteq Nat /\ \A h \in E : h < g
  BY GroupsAssumption DEF EarlierAccess, Groups
<1>2. T \subseteq Nat /\ T # {}
  BY <1>1
<1>3. IsWellFoundedOn(OpToRel(<, Nat), Nat)
  BY NatLessThanWellFounded
<1> HIDE DEF T
<1>4. PICK x \in T : \A y \in T : ~ (<<y, x>> \in OpToRel(<, Nat))
  BY <1>2, <1>3, WFMin, Zenon
<1>5. \A y \in T : ~(y < x)
  BY <1>2, <1>4 DEF OpToRel
<1>6. PICK h \in E : x = g - h
  BY DEF T
<1>7. ASSUME NEW k \in E PROVE k <= h
  <2>1. ~(g - k < x)
    BY <1>5 DEF T
  <2> QED
    BY <2>1, <1>6, <1>1
<1> QED
  BY <1>7

\* A packet carries a passage that exists, or none.
LEMMA AttachedType ==
    ASSUME NEW route \in [Groups -> Passages \cup {NoPassage}], NEW g \in Groups
    PROVE  AttachedPassage(route, g) \in Passages \cup {NoPassage}
<1>1. CASE route[g] # NoPassage
  BY <1>1 DEF AttachedPassage
<1>2. CASE route[g] = NoPassage /\ EarlierAccess(route, g) = {}
  BY <1>2 DEF AttachedPassage
<1>3. CASE route[g] = NoPassage /\ EarlierAccess(route, g) # {}
  <2> DEFINE last == CHOOSE h \in EarlierAccess(route, g) :
                        \A k \in EarlierAccess(route, g) : k <= h
  <2>1. last \in EarlierAccess(route, g)
    BY <1>3, LastAccessExists
  <2>2. last \in Groups
    BY <2>1 DEF EarlierAccess
  <2>3. AttachedPassage(route, g) = route[last]
    BY <1>3 DEF AttachedPassage
  <2> HIDE DEF last
  <2> QED
    BY <2>2, <2>3
<1> QED
  BY <1>1, <1>2, <1>3

LEMMA StartTypes ==
    ASSUME NEW s \in Splits, NEW g \in Groups
    PROVE  /\ PacketStartStatus(s, g) \in {"WAITING", "AUTO"}
           /\ TaskStartStatus(s) \in {"WAITING", "AUTO"}
           /\ AttachedPassage(s.route, g) \in Passages \cup {NoPassage}
BY AttachedType DEF PacketStartStatus, TaskStartStatus, Splits

\* An operator in whose provinces a passage is missing flags its own packets.
LEMMA OwnErrorSeen ==
    ASSUME NEW route, NEW g \in Groups, route[g] = NoPassage
    PROVE  SeesPassageError(route, g)
<1>1. Op[g] \in 1 .. Op[g]
  BY GroupsAssumption DEF Operators
<1>2. PassageError(route, Op[g])
  BY DEF PassageError
<1> QED
  BY <1>1, <1>2 DEF SeesPassageError

\* A packet that goes out without review belongs to a task whose content is in
\* order and to a group that has a passage of its own: the passage left over from
\* another province never goes with an automatic pass.
THEOREM AutoPacketIsClean ==
    ASSUME NEW s \in Splits, NEW g \in Groups, PacketStartStatus(s, g) = "AUTO"
    PROVE  /\ s.content = {}
           /\ s.route[g] # NoPassage
           /\ AttachedPassage(s.route, g) = s.route[g]
<1>1. ~HasRemark(s, g)
  BY DEF PacketStartStatus
<1>2. s.content = {} /\ ~SeesPassageError(s.route, g)
  BY <1>1 DEF HasRemark
<1>3. s.route[g] # NoPassage
  BY <1>2, OwnErrorSeen
<1> QED
  BY <1>2, <1>3 DEF AttachedPassage

\* No packet of a task that no reviewer will see waits for one.
THEOREM AutoTaskHasOnlyAutoPackets ==
    ASSUME NEW s \in Splits, ~s.empty, TaskStartStatus(s) = "AUTO",
           NEW g \in Groups
    PROVE  PacketStartStatus(s, g) = "AUTO"
<1>1. ~TaskHasError(s)
  BY DEF TaskStartStatus
<1>2. s.content = {} /\ \A o \in Operators : ~PassageError(s.route, o)
  BY <1>1 DEF TaskHasError
<1>3. 1 .. Op[g] \subseteq Operators
  BY GroupsAssumption DEF Operators
<1>4. ~SeesPassageError(s.route, g)
  BY <1>2, <1>3 DEF SeesPassageError
<1>5. s.route[g] # NoPassage
  BY <1>4, OwnErrorSeen
<1>6. AttachedPassage(s.route, g) # NoPassage
  BY <1>5 DEF AttachedPassage
<1> QED
  BY <1>2, <1>4, <1>6 DEF PacketStartStatus, HasRemark
=============================================================================
