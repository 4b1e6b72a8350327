-------------------------- MODULE SmsSplit_proofs --------------------------
(***************************************************************************)
(* Proofs about the loops that build the packets of a task, for any number *)
(* of groups, passages and numbers and any size limits.  What the loops    *)
(* keep in variables is at every step what the closed forms of SmsPackets  *)
(* say of the groups handled so far.                                       *)
(***************************************************************************)
EXTENDS SmsSplit, SmsPackets_proofs, SequenceTheorems, FiniteSetTheorems

\* The errors seen up to an operator; 0 stands for none entered yet.
Seen(o) == \E q \in 1 .. o : PassageError(route, q)
ReportOK ==
    /\ taskError = (content # {} \/ Seen(entered))
    /\ taskBits = (content \cap Reviewable) \cup (IF Seen(entered) THEN {"passage"} ELSE {})
    /\ entered # 0 => message = taskError /\ action = taskBits

\* The groups handled belong to operators entered, the others come later.
EnteredOK ==
    /\ \A g \in Groups : g < next => Op[g] <= entered
    /\ next \in Groups => entered <= Op[next]

\* What the province loop still holds is the access of the last group that had one.
LastAccess(g) ==
    IF EarlierAccess(route, g) = {} THEN NoPassage
    ELSE route[CHOOSE h \in EarlierAccess(route, g) : \A k \in EarlierAccess(route, g) : k <= h]
AccessOK == next \in Groups /\ entered = Op[next] => access = LastAccess(next)

PacketsOK ==
    /\ packets \in Seq(Packet)
    /\ \A i \in DOMAIN packets : packets[i].group < next
    /\ next > 1 => packets # << >>
VerdictOK == verdict # "none" => next = NumGroups + 1 /\ verdict = TaskStartStatus(Split)

Carries(i, g, n) == packets[i].group = g /\ packets[i].first <= n /\ n <= packets[i].last
CarriedOnce ==
    \A g \in 1 .. next - 1 : \A n \in 1 .. numbers[g] :
        /\ \E i \in DOMAIN packets : Carries(i, g, n)
        /\ \A i, j \in DOMAIN packets : Carries(i, g, n) /\ Carries(j, g, n) => i = j

IInv ==
    /\ TypeOK /\ ReportOK /\ EnteredOK /\ AccessOK /\ PacketsOK /\ VerdictOK
    /\ LoopMeetsClosedForm /\ CarriedOnce /\ PacketFitsPassage
-----------------------------------------------------------------------------
(* Cutting                                                                 *)

LEMMA Products ==
    ASSUME NEW a \in Nat, NEW b \in Nat, NEW g \in Nat, a <= b
    PROVE  a * g \in Nat /\ a * g <= b * g
OBVIOUS

LEMMA Successor ==
    ASSUME NEW a \in Nat, NEW g \in Nat
    PROVE  (a + 1) * g = a * g + g
OBVIOUS

LEMMA Division ==
    ASSUME NEW n \in Nat, NEW g \in Nat \ {0}
    PROVE  /\ n \div g \in Nat /\ n % g \in 0 .. g - 1
           /\ n = (n \div g) * g + (n % g)
OBVIOUS

Count(n, size) == IF n % size = 0 THEN n \div size ELSE n \div size + 1

\* As many parts as it takes: one less does not hold n numbers, these do.
LEMMA CountFacts ==
    ASSUME NEW n \in Nat \ {0}, NEW size \in Nat \ {0}
    PROVE  /\ Count(n, size) \in Nat \ {0}
           /\ (Count(n, size) - 1) * size < n /\ n <= Count(n, size) * size
<1> DEFINE q == n \div size
           m == n % size
<1>1. q \in Nat /\ m \in 0 .. size - 1 /\ n = q * size + m
  BY Division
<1>2. Count(n, size) = IF m = 0 THEN q ELSE q + 1
  BY DEF Count
<1> HIDE DEF q, m
<1>3. q * size \in Nat /\ (q + 1) * size = q * size + size
  BY <1>1, Products, Successor
<1>4. CASE m = 0
  <2>1. q # 0
    BY <1>1, <1>4
  <2>2. q - 1 \in Nat /\ (q - 1) + 1 = q
    BY <1>1, <2>1
  <2>3. q * size = (q - 1) * size + size /\ (q - 1) * size \in Nat
    BY <2>2, Successor, Products
  <2> QED
    BY <1>1, <1>2, <1>3, <1>4, <2>1, <2>3
<1>5. CASE m # 0
  BY <1>1, <1>2, <1>3, <1>5
<1> QED
  BY <1>4, <1>5

\* A number below k parts is in one of them.
LEMMA PartOf ==
    ASSUME NEW count \in Nat, NEW size \in Nat \ {0}, NEW n \in Nat, n < count * size
    PROVE  \E i \in 1 .. count : (i - 1) * size <= n /\ n < i * size
<1> DEFINE q == n \div size
<1>1. q \in Nat /\ n % size \in 0 .. size - 1 /\ n = q * size + (n % size)
  BY Division
<1> HIDE DEF q
<1>2. q * size \in Nat /\ (q + 1) * size = q * size + size
  BY <1>1, Products, Successor
<1>3. q * size <= n /\ n < (q + 1) * size
  BY <1>1, <1>2
<1>4. q < count
  <2> SUFFICES ASSUME count <= q PROVE FALSE
    BY <1>1
  <2>1. count * size <= q * size /\ count * size \in Nat
    BY <1>1, Products
  <2> QED
    BY <1>2, <1>3, <2>1
<1>5. q + 1 \in 1 .. count /\ (q + 1) - 1 = q
  BY <1>1, <1>4
<1> QED
  BY <1>3, <1>5

\* The parts are ranges of the numbers, none larger than its size, and every number
\* is in exactly one.
LEMMA ChunkFacts ==
    ASSUME NEW n \in Nat \ {0}, NEW size \in Nat \ {0}
    PROVE  /\ Count(n, size) \in Nat \ {0} /\ DOMAIN Chunks(n, size) = 1 .. Count(n, size)
           /\ \A i \in 1 .. Count(n, size) : LET c == Chunks(n, size)[i] IN
                  /\ c.first \in 1 .. n /\ c.last \in 1 .. n
                  /\ c.last + 1 - c.first \in 1 .. size
           /\ \A k \in 1 .. n : \E i \in 1 .. Count(n, size) :
                  Chunks(n, size)[i].first <= k /\ k <= Chunks(n, size)[i].last
           /\ \A k \in 1 .. n : \A i, j \in 1 .. Count(n, size) :
                  /\ Chunks(n, size)[i].first <= k /\ k <= Chunks(n, size)[i].last
                  /\ Chunks(n, size)[j].first <= k /\ k <= Chunks(n, size)[j].last
                  => i = j
<1> DEFINE count == Count(n, size)
<1>1. count \in Nat \ {0} /\ (count - 1) * size < n /\ n <= count * size
  BY CountFacts
<1>2. Chunks(n, size) =
          [i \in 1 .. count |-> [first |-> (i - 1) * size + 1,
                                 last |-> IF i * size < n THEN i * size ELSE n]]
  BY DEF Chunks, Count
<1> HIDE DEF count
<1>3. DOMAIN Chunks(n, size) = 1 .. count
  BY <1>2
<1>4. \A i \in 1 .. count :
          /\ Chunks(n, size)[i].first = (i - 1) * size + 1
          /\ Chunks(n, size)[i].last = IF i * size < n THEN i * size ELSE n
  BY <1>2
<1>5. \A i \in 1 .. count :
          /\ (i - 1) * size \in Nat /\ i * size = (i - 1) * size + size
          /\ (i - 1) * size < n
  <2> SUFFICES ASSUME NEW i \in 1 .. count
               PROVE  /\ (i - 1) * size \in Nat /\ i * size = (i - 1) * size + size
                      /\ (i - 1) * size < n
    OBVIOUS
  <2>1. i - 1 \in Nat /\ count - 1 \in Nat /\ i - 1 <= count - 1 /\ (i - 1) + 1 = i
    BY <1>1
  <2>2. (i - 1) * size \in Nat /\ (i - 1) * size <= (count - 1) * size
    BY <2>1, Products
  <2>3. i * size = (i - 1) * size + size
    BY <2>1, Successor
  <2>4. (count - 1) * size \in Nat
    BY <2>1, Products
  <2> QED
    BY <1>1, <2>2, <2>3, <2>4
<1>6. \A i \in 1 .. count : LET c == Chunks(n, size)[i] IN
          /\ c.first \in 1 .. n /\ c.last \in 1 .. n
          /\ c.last + 1 - c.first \in 1 .. size
  <2> SUFFICES ASSUME NEW i \in 1 .. count, NEW f, f = Chunks(n, size)[i].first,
                      NEW l, l = Chunks(n, size)[i].last
               PROVE  f \in 1 .. n /\ l \in 1 .. n /\ l + 1 - f \in 1 .. size
    OBVIOUS
  <2>1. PICK d \in Nat : d = (i - 1) * size /\ i * size = d + size /\ d < n
    BY <1>5
  <2>2. f = d + 1 /\ l = IF d + size < n THEN d + size ELSE n
    BY <1>4, <2>1
  <2> QED
    BY <2>1, <2>2
<1>7. ASSUME NEW k \in 1 .. n
      PROVE  \E i \in 1 .. count : Chunks(n, size)[i].first <= k /\ k <= Chunks(n, size)[i].last
  <2>0. count * size \in Nat
    BY <1>1, Products
  <2>1. k - 1 \in Nat /\ k - 1 < count * size
    BY <1>1, <2>0
  <2>2. PICK i \in 1 .. count : (i - 1) * size <= k - 1 /\ k - 1 < i * size
    BY <1>1, <2>1, PartOf
  <2>3. PICK d \in Nat : d = (i - 1) * size /\ i * size = d + size
    BY <1>5
  <2>4. d <= k - 1 /\ k - 1 < d + size
    BY <2>2, <2>3
  <2>5. Chunks(n, size)[i].first = d + 1 /\ Chunks(n, size)[i].last = IF d + size < n THEN d + size ELSE n
    BY <1>4, <2>3
  <2> QED
    BY <2>4, <2>5
<1>8. ASSUME NEW k \in 1 .. n, NEW i \in 1 .. count, NEW j \in 1 .. count, i < j,
             k <= Chunks(n, size)[i].last, Chunks(n, size)[j].first <= k
      PROVE  FALSE
  <2>1. i \in Nat /\ j - 1 \in Nat /\ i <= j - 1
    BY <1>1, <1>8
  <2>2. i * size <= (j - 1) * size
    BY <2>1, Products
  <2>3. i * size \in Nat /\ (j - 1) * size \in Nat
    BY <2>1, Products
  <2>4. k <= i * size
    BY <1>4, <1>8, <2>3
  <2>5. (j - 1) * size + 1 <= k
    BY <1>4, <1>8
  <2> QED
    BY <2>2, <2>3, <2>4, <2>5
<1>9. \A k \in 1 .. n : \A i, j \in 1 .. count :
          /\ Chunks(n, size)[i].first <= k /\ k <= Chunks(n, size)[i].last
          /\ Chunks(n, size)[j].first <= k /\ k <= Chunks(n, size)[j].last
          => i = j
  <2> SUFFICES ASSUME NEW k \in 1 .. n, NEW i \in 1 .. count, NEW j \in 1 .. count,
                      Chunks(n, size)[i].first <= k /\ k <= Chunks(n, size)[i].last,
                      Chunks(n, size)[j].first <= k /\ k <= Chunks(n, size)[j].last
               PROVE  i = j
    OBVIOUS
  <2>1. ~(i < j) /\ ~(j < i)
    BY <1>8
  <2> QED
    BY <1>1, <2>1
<1> QED
  BY <1>1, <1>3, <1>6, <1>7, <1>9 DEF count
-----------------------------------------------------------------------------
(* One more group                                                          *)

LEMMA GroupTypes ==
    ASSUME TypeOK
    PROVE  /\ NumGroups \in Nat \ {0} /\ next \in Nat \ {0} /\ next <= NumGroups + 1
           /\ next <= NumGroups => next \in Groups
           /\ route \in [Groups -> Access] /\ Split \in Splits
           /\ \A g \in Groups : Op[g] \in Operators /\ Op[g] \in Nat \ {0} /\ g \in Nat
           /\ \A g \in Groups : numbers[g] \in Nat \ {0} /\ numbers[g] \in 1 .. MaxNumbers
<1>1. /\ NumGroups \in Nat \ {0} /\ next \in 1 .. NumGroups + 1 /\ Groups = 1 .. NumGroups
      /\ Op \in [Groups -> Operators] /\ Operators = 1 .. 3
  BY GroupsAssumption DEF TypeOK, Groups, Operators
<1>2. route \in [Groups -> Access]
  BY <1>1 DEF TypeOK, route, Routed
<1>3. Split \in Splits
  BY <1>2 DEF Split, Splits, TypeOK, Access
<1>4. \A g \in Groups : numbers[g] \in 1 .. MaxNumbers
  BY DEF TypeOK
<1> QED
  BY <1>1, <1>2, <1>3, <1>4, SizeAssumption

LEMMA InputsKept ==
    ASSUME UNCHANGED inputs
    PROVE  /\ content' = content /\ own' = own /\ country' = country
           /\ numbers' = numbers /\ limit' = limit
           /\ route' = route /\ Split' = Split
<1>1. /\ content' = content /\ own' = own /\ country' = country
      /\ numbers' = numbers /\ limit' = limit
  BY DEF inputs
<1>2. route' = route
  BY <1>1 DEF route, Routed
<1>3. Split' = Split
  BY <1>1, <1>2 DEF Split
<1> QED
  BY <1>1, <1>2, <1>3

\* The packets of the group at hand were added, one for each part.
Grown(count, cut, a) ==
    /\ packets' \in Seq(Packet)
    /\ Len(packets') = Len(packets) + count
    /\ \A i \in 1 .. Len(packets) : packets'[i] = packets[i]
    /\ \A i \in 1 .. count : packets'[Len(packets) + i] = Join(next, cut[i], a)
Ranges(count, cut, n) ==
    \A i \in 1 .. count : cut[i].first \in 1 .. n /\ cut[i].last \in 1 .. n
Partition(count, cut, n) ==
    /\ \A k \in 1 .. n : \E i \in 1 .. count : cut[i].first <= k /\ k <= cut[i].last
    /\ \A k \in 1 .. n : \A i, j \in 1 .. count :
           /\ cut[i].first <= k /\ k <= cut[i].last
           /\ cut[j].first <= k /\ k <= cut[j].last
           => i = j

LEMMA JoinType ==
    ASSUME TypeOK, next \in Groups, NEW a \in Access, NEW range,
           range.first \in 1 .. numbers[next], range.last \in 1 .. numbers[next]
    PROVE  Join(next, range, a) \in Packet
<1>1. range.first \in 1 .. MaxNumbers /\ range.last \in 1 .. MaxNumbers
  BY GroupTypes, SizeAssumption
<1>2. message \in BOOLEAN /\ action \in SUBSET (Reviewable \cup {"passage"})
  BY DEF TypeOK
<1> QED
  BY <1>1, <1>2 DEF Join, Packet, PacketStatus

LEMMA GrownByOne ==
    ASSUME TypeOK, PacketsOK, JoinWithoutAccess
    PROVE  LET cut == << [first |-> 1, last |-> numbers[next]] >> IN
           /\ Grown(1, cut, access)
           /\ Ranges(1, cut, numbers[next]) /\ Partition(1, cut, numbers[next])
<1> DEFINE range == [first |-> 1, last |-> numbers[next]]
           cut == << range >>
           p == Join(next, range, access)
<1>1. next \in Groups /\ access \in Access /\ numbers[next] \in Nat \ {0}
  BY GroupTypes DEF JoinWithoutAccess, TypeOK
<1>2. p \in Packet
  BY <1>1, JoinType
<1>3. packets' = Append(packets, p) /\ packets \in Seq(Packet)
  BY DEF JoinWithoutAccess, PacketsOK
<1>4. cut[1] = range /\ range.first = 1 /\ range.last = numbers[next]
  OBVIOUS
<1> HIDE DEF p, cut, range
<1>5. Ranges(1, cut, numbers[next]) /\ Partition(1, cut, numbers[next])
  BY <1>1, <1>4 DEF Ranges, Partition
<1>6. packets'[Len(packets) + 1] = Join(next, cut[1], access)
  BY <1>2, <1>3, <1>4, AppendProperties DEF p
<1>7. Grown(1, cut, access)
  BY <1>2, <1>3, <1>6, AppendProperties DEF Grown
<1> QED
  BY <1>5, <1>7 DEF cut, range

LEMMA GrownByCut ==
    ASSUME TypeOK, PacketsOK, JoinWithAccess
    PROVE  LET n == numbers[next]
               size == PerPacket(route[next])
           IN  /\ size \in Nat \ {0} /\ n \in Nat \ {0}
               /\ Grown(Count(n, size), Chunks(n, size), route[next])
               /\ Ranges(Count(n, size), Chunks(n, size), n)
               /\ Partition(Count(n, size), Chunks(n, size), n)
<1> DEFINE n == numbers[next]
           size == PerPacket(route[next])
           count == Count(n, size)
           cut == Chunks(n, size)
           a == route[next]
           new == [i \in 1 .. count |-> Join(next, cut[i], a)]
<1>1. next \in Groups /\ a \in Access /\ a \in Passages /\ n \in Nat \ {0}
  BY GroupTypes DEF JoinWithAccess, Access
<1>2. size \in Nat \ {0}
  BY <1>1, SizeAssumption DEF PerPacket, TypeOK
<1>3. /\ count \in Nat \ {0} /\ DOMAIN cut = 1 .. count
      /\ Ranges(count, cut, n) /\ Partition(count, cut, n)
  BY <1>1, <1>2, ChunkFacts DEF Ranges, Partition
<1>4. packets' = packets \o new /\ packets \in Seq(Packet)
  BY <1>3 DEF JoinWithAccess, PacketsOK
<1> HIDE DEF size, count, cut
<1>5. \A i \in 1 .. count : Join(next, cut[i], a) \in Packet
  BY <1>1, <1>3, JoinType DEF Ranges
<1>6. new \in [1 .. count -> Packet] /\ new \in Seq(Packet) /\ Len(new) = count
  <2>1. new \in [1 .. count -> Packet]
    BY <1>5
  <2>2. new \in Seq(Packet)
    BY <1>3, <2>1, SeqDef
  <2> HIDE DEF new
  <2>3. DOMAIN new = 1 .. count /\ DOMAIN new = 1 .. Len(new) /\ Len(new) \in Nat
    BY <2>1, <2>2, LenProperties
  <2> QED
    BY <1>3, <2>1, <2>2, <2>3
<1>7. \A i \in 1 .. count : new[i] = Join(next, cut[i], a)
  OBVIOUS
<1> HIDE DEF new
<1>8. /\ packets' \in Seq(Packet) /\ Len(packets') = Len(packets) + count
      /\ \A i \in 1 .. Len(packets) + count :
             packets'[i] = IF i <= Len(packets) THEN packets[i] ELSE new[i - Len(packets)]
  BY <1>4, <1>6, ConcatProperties
<1>9. Len(packets) \in Nat
  BY <1>4, LenProperties
<1>10. \A i \in 1 .. count : packets'[Len(packets) + i] = new[i]
  BY <1>3, <1>8, <1>9
<1>11. \A i \in 1 .. Len(packets) : packets'[i] = packets[i]
  BY <1>3, <1>8, <1>9
<1>12. Grown(count, cut, a)
  BY <1>7, <1>8, <1>10, <1>11 DEF Grown
<1> QED
  BY <1>1, <1>2, <1>3, <1>12 DEF count, cut, size

\* What LoopMeetsClosedForm says of one packet
Meets(p) ==
    /\ p.passage = AttachedPassage(route, p.group)
    /\ p.remark  = HasRemark(Split, p.group)
    /\ p.bits    = Bits(Split, p.group)
    /\ p.status  = PacketStartStatus(Split, p.group)

\* What the new packets do to the invariants about packets.
LEMMA GrownFacts ==
    ASSUME TypeOK, PacketsOK, LoopMeetsClosedForm, CarriedOnce, PacketFitsPassage,
           next \in Groups, next' = next + 1, UNCHANGED inputs,
           NEW count \in Nat \ {0}, NEW cut, NEW a \in Access,
           Grown(count, cut, a), Ranges(count, cut, numbers[next]),
           Partition(count, cut, numbers[next]),
           a = AttachedPassage(route, next), message = HasRemark(Split, next),
           action = Bits(Split, next),
           route[next] # NoPassage => a = route[next] /\ \A i \in 1 .. count :
               cut[i].last + 1 - cut[i].first \in 1 .. PerPacket(a)
    PROVE  PacketsOK' /\ LoopMeetsClosedForm' /\ CarriedOnce' /\ PacketFitsPassage'
<1> DEFINE L == Len(packets)
<1>0. /\ L \in Nat /\ DOMAIN packets = 1 .. L /\ DOMAIN packets' = 1 .. L + count
      /\ packets' \in Seq(Packet) /\ packets \in Seq(Packet)
      /\ \A i \in 1 .. L : packets[i] \in Packet
  BY LenProperties, ElementOfSeq DEF PacketsOK, Grown
<1>1. \A i \in 1 .. L : packets'[i] = packets[i]
  BY DEF Grown
<1>2. \A i \in 1 .. count : packets'[L + i] = Join(next, cut[i], a)
  BY DEF Grown
<1>3. \A i \in 1 .. count :
          /\ packets'[L + i].group = next
          /\ packets'[L + i].first = cut[i].first /\ packets'[L + i].last = cut[i].last
          /\ packets'[L + i].passage = a
  <2> SUFFICES ASSUME NEW i \in 1 .. count, NEW p, p = Join(next, cut[i], a)
               PROVE  /\ p.group = next /\ p.passage = a
                      /\ p.first = cut[i].first /\ p.last = cut[i].last
    BY <1>2
  <2> QED
    BY DEF Join
<1>4. route' = route /\ Split' = Split /\ numbers' = numbers /\ limit' = limit
  BY InputsKept
<1>5. \A i \in 1 .. L + count : i \in 1 .. L \/ \E k \in 1 .. count : i = L + k
  <2> SUFFICES ASSUME NEW i \in 1 .. L + count, i \notin 1 .. L
               PROVE  \E k \in 1 .. count : i = L + k
    OBVIOUS
  <2>1. i - L \in 1 .. count /\ i = L + (i - L)
    BY <1>0
  <2> QED
    BY <2>1
<1>6. next \in Nat \ {0} /\ numbers[next] \in Nat \ {0}
  BY GroupTypes
<1> HIDE DEF L
<1>7. PacketsOK'
  <2>1. \A i \in 1 .. L : packets[i].group < next /\ packets[i].group \in Nat
    BY <1>0, GroupTypes DEF PacketsOK, Packet
  <2>2. \A i \in 1 .. L + count : packets'[i].group < next'
    BY <1>1, <1>3, <1>5, <1>6, <2>1
  <2>3. packets' # << >>
    <3>1. 1 \in DOMAIN packets'
      BY <1>0
    <3> QED
      BY <3>1
  <2> QED
    BY <1>0, <2>2, <2>3 DEF PacketsOK
<1>8. LoopMeetsClosedForm'
  <2>1. ASSUME NEW i \in 1 .. count
        PROVE  Meets(packets'[L + i])
    <3>1. Join(next, cut[i], a) =
              [group |-> next, first |-> cut[i].first, last |-> cut[i].last, passage |-> a,
               remark |-> HasRemark(Split, next), bits |-> Bits(Split, next),
               status |-> PacketStartStatus(Split, next)]
      BY DEF Join, PacketStartStatus, Split
    <3>2. packets'[L + i] = Join(next, cut[i], a)
      BY <1>2
    <3> QED
      BY <3>1, <3>2 DEF Meets
  <2>2. \A i \in 1 .. L : Meets(packets'[i])
    BY <1>0, <1>1 DEF LoopMeetsClosedForm, Meets
  <2>3. \A i \in 1 .. L + count : Meets(packets'[i])
    BY <1>5, <2>1, <2>2
  <2> QED
    BY <1>0, <1>4, <2>3 DEF LoopMeetsClosedForm, Meets
<1>9. CarriedOnce'
  <2> DEFINE New(i, g, n) == packets'[i].group = g /\ packets'[i].first <= n /\ n <= packets'[i].last
  <2>1. ASSUME NEW g \in 1 .. next - 1, NEW n \in 1 .. numbers[g]
        PROVE  /\ \E i \in 1 .. L + count : New(i, g, n)
               /\ \A i, j \in 1 .. L + count : New(i, g, n) /\ New(j, g, n) => i = j
    <3>1. /\ \E i \in 1 .. L : Carries(i, g, n)
          /\ \A i, j \in 1 .. L : Carries(i, g, n) /\ Carries(j, g, n) => i = j
      BY <1>0 DEF CarriedOnce
    <3>2. \A i \in 1 .. L : i \in 1 .. L + count /\ (New(i, g, n) <=> Carries(i, g, n))
      BY <1>0, <1>1 DEF Carries
    <3>3. \A k \in 1 .. count : ~New(L + k, g, n)
      BY <1>3, <1>6
    <3>4. \A i \in 1 .. L + count : New(i, g, n) => i \in 1 .. L
      BY <1>5, <3>3
    <3> HIDE DEF New
    <3> QED
      BY <3>1, <3>2, <3>4
  <2>2. ASSUME NEW n \in 1 .. numbers[next]
        PROVE  /\ \E i \in 1 .. L + count : New(i, next, n)
               /\ \A i, j \in 1 .. L + count : New(i, next, n) /\ New(j, next, n) => i = j
    <3>1. /\ \E k \in 1 .. count : cut[k].first <= n /\ n <= cut[k].last
          /\ \A i, j \in 1 .. count :
                 /\ cut[i].first <= n /\ n <= cut[i].last
                 /\ cut[j].first <= n /\ n <= cut[j].last
                 => i = j
      BY DEF Partition
    <3>2. \A k \in 1 .. count :
              L + k \in 1 .. L + count /\ (New(L + k, next, n) <=> cut[k].first <= n /\ n <= cut[k].last)
      BY <1>0, <1>3
    <3>3. \A i \in 1 .. L : ~New(i, next, n)
      <4>1. \A i \in 1 .. L : packets[i].group < next /\ packets[i].group \in Nat
        BY <1>0, GroupTypes DEF PacketsOK, Packet
      <4> QED
        BY <1>1, <1>6, <4>1
    <3>4. \A i \in 1 .. L + count : New(i, next, n) => \E k \in 1 .. count : i = L + k
      BY <1>5, <3>3
    <3> HIDE DEF New
    <3>5. \E i \in 1 .. L + count : New(i, next, n)
      BY <3>1, <3>2
    <3>6. ASSUME NEW i \in 1 .. L + count, NEW j \in 1 .. L + count, New(i, next, n), New(j, next, n)
          PROVE  i = j
      <4>1. PICK k \in 1 .. count : i = L + k
        BY <3>4, <3>6
      <4>2. PICK m \in 1 .. count : j = L + m
        BY <3>4, <3>6
      <4> QED
        BY <3>1, <3>2, <3>6, <4>1, <4>2
    <3> QED
      BY <3>5, <3>6
  <2>3. \A g \in 1 .. next' - 1 : g = next \/ g \in 1 .. next - 1
    BY <1>6
  <2>4. \A g \in 1 .. next' - 1 : \A n \in 1 .. numbers[g] :
            /\ \E i \in 1 .. L + count : New(i, g, n)
            /\ \A i, j \in 1 .. L + count : New(i, g, n) /\ New(j, g, n) => i = j
    BY <2>1, <2>2, <2>3
  <2>5. \A i, g, n : New(i, g, n) <=> Carries(i, g, n)'
    BY DEF Carries
  <2>6. CarriedOnce' <=>
            \A g \in 1 .. next' - 1 : \A n \in 1 .. numbers'[g] :
                /\ \E i \in DOMAIN packets' : Carries(i, g, n)'
                /\ \A i, j \in DOMAIN packets' : Carries(i, g, n)' /\ Carries(j, g, n)' => i = j
    BY DEF CarriedOnce
  <2> HIDE DEF New
  <2> QED
    BY <1>0, <1>4, <2>4, <2>5, <2>6
<1>10. PacketFitsPassage'
  <2>1. \A k \in 1 .. count : route[next] # NoPassage =>
            IF limit[a] = 0 THEN cut[k].last + 1 - cut[k].first \in 1 .. DefaultSize
                            ELSE cut[k].last + 1 - cut[k].first \in 1 .. limit[a]
    BY DEF PerPacket
  <2>2. \A i \in 1 .. L : LET p == packets'[i]
                              size == p.last + 1 - p.first
                          IN  route[p.group] # NoPassage =>
                                  IF limit[p.passage] = 0 THEN size \in 1 .. DefaultSize
                                                          ELSE size \in 1 .. limit[p.passage]
    BY <1>0, <1>1 DEF PacketFitsPassage
  <2>3. \A k \in 1 .. count : LET p == packets'[L + k]
                                  size == p.last + 1 - p.first
                              IN  route[p.group] # NoPassage =>
                                  IF limit[p.passage] = 0 THEN size \in 1 .. DefaultSize
                                                          ELSE size \in 1 .. limit[p.passage]
    BY <1>3, <2>1
  <2> QED
    BY <1>0, <1>4, <1>5, <2>2, <2>3 DEF PacketFitsPassage
<1> QED
  BY <1>7, <1>8, <1>9, <1>10
-----------------------------------------------------------------------------
(* Operators and provinces                                                 *)

\* No group has an operator between the one entered and that of the group at hand.
LEMMA SeenAtNext ==
    ASSUME TypeOK, EnteredOK, next \in Groups, entered # Op[next]
    PROVE  /\ Seen(Op[next]) <=> Seen(entered) \/ PassageError(route, Op[next])
           /\ EarlierAccess(route, next) = {}
<1>1. /\ entered \in Nat /\ Op[next] \in Nat \ {0} /\ entered < Op[next] /\ next \in Nat
      /\ \A g \in Groups : g \in Nat /\ Op[g] \in Nat
  BY GroupTypes DEF TypeOK, EnteredOK, Operators
<1>2. ASSUME NEW g \in Groups
      PROVE  Op[g] <= entered \/ Op[next] <= Op[g]
  <2>1. CASE g < next
    BY <2>1 DEF EnteredOK
  <2>2. CASE next <= g
    BY <2>2, GroupsAssumption
  <2> QED
    BY <1>1, <2>1, <2>2
<1>3. ASSUME Seen(Op[next]) PROVE Seen(entered) \/ PassageError(route, Op[next])
  <2>1. PICK q \in 1 .. Op[next] : PassageError(route, q)
    BY <1>3 DEF Seen
  <2>2. PICK g \in Groups : Op[g] = q /\ route[g] = NoPassage
    BY <2>1 DEF PassageError
  <2>3. q \in 1 .. entered \/ q = Op[next]
    BY <1>1, <1>2, <2>2
  <2> QED
    BY <2>1, <2>3 DEF Seen
<1>4. ASSUME Seen(entered) \/ PassageError(route, Op[next]) PROVE Seen(Op[next])
  <2>1. 1 .. entered \subseteq 1 .. Op[next] /\ Op[next] \in 1 .. Op[next]
    BY <1>1
  <2> QED
    BY <1>4, <2>1 DEF Seen
<1>5. EarlierAccess(route, next) = {}
  <2> SUFFICES ASSUME NEW h \in EarlierAccess(route, next) PROVE FALSE
    OBVIOUS
  <2>1. h \in Groups /\ h < next /\ Op[h] = Op[next]
    BY DEF EarlierAccess
  <2>2. Op[h] <= entered
    BY <2>1 DEF EnteredOK
  <2> QED
    BY <1>1, <2>1, <2>2
<1> QED
  BY <1>3, <1>4, <1>5

\* When every group is handled, the errors seen are those of all the operators.
LEMMA SeenAtEnd ==
    ASSUME TypeOK, EnteredOK, next = NumGroups + 1
    PROVE  Seen(entered) <=> \E o \in Operators : PassageError(route, o)
<1>1. /\ entered \in Nat /\ 1 .. entered \subseteq Operators
      /\ \A g \in Groups : g < next /\ Op[g] \in Nat \ {0}
  BY GroupTypes DEF TypeOK, Operators, Groups
<1>2. ASSUME NEW o \in Operators, PassageError(route, o) PROVE o \in 1 .. entered
  <2>1. PICK g \in Groups : Op[g] = o
    BY <1>2 DEF PassageError
  <2>2. Op[g] <= entered
    BY <1>1 DEF EnteredOK
  <2> QED
    BY <1>1, <2>1, <2>2
<1> QED
  BY <1>1, <1>2 DEF Seen

\* The access left for the next group of the same operator.
LEMMA LastAccessNext ==
    ASSUME TypeOK, next \in Groups, next + 1 \in Groups, Op[next + 1] = Op[next]
    PROVE  LastAccess(next + 1) =
               IF route[next] = NoPassage THEN LastAccess(next) ELSE route[next]
<1>1. next \in Nat /\ \A h \in Groups : h \in Nat
  BY GroupTypes
<1>2. ASSUME NEW h \in Groups PROVE h < next + 1 <=> h < next \/ h = next
  BY <1>1
<1>3. CASE route[next] = NoPassage
  <2>1. EarlierAccess(route, next + 1) = EarlierAccess(route, next)
    BY <1>2, <1>3 DEF EarlierAccess
  <2> DEFINE before == EarlierAccess(route, next)
             after == EarlierAccess(route, next + 1)
             accessOf(E) == IF E = {} THEN NoPassage
                            ELSE route[CHOOSE h \in E : \A k \in E : k <= h]
  <2>2. LastAccess(next + 1) = accessOf(after) /\ LastAccess(next) = accessOf(before)
    BY DEF LastAccess
  <2> HIDE DEF before, after
  <2>3. accessOf(after) = accessOf(before)
    <3>1. after = before
      BY <2>1 DEF before, after
    <3> HIDE DEF accessOf
    <3> QED
      BY <3>1
  <2> HIDE DEF accessOf
  <2> QED
    BY <1>3, <2>2, <2>3
<1>4. CASE route[next] # NoPassage
  <2> DEFINE E == EarlierAccess(route, next + 1)
             best == CHOOSE h \in E : \A k \in E : k <= h
  <2>1. next \in E /\ E \subseteq Groups /\ \A k \in E : k <= next
    BY <1>1, <1>2, <1>4 DEF EarlierAccess
  <2> HIDE DEF E
  <2>2. best \in E /\ \A k \in E : k <= best
    BY <2>1
  <2> HIDE DEF best
  <2>3. best = next
    BY <1>1, <2>1, <2>2
  <2>4. LastAccess(next + 1) = route[best]
    BY <2>1 DEF LastAccess, E, best
  <2> QED
    BY <1>4, <2>3, <2>4
<1> QED
  BY <1>3, <1>4

\* A packet of the group at hand carries what the closed forms say.
LEMMA SnapshotMeets ==
    ASSUME TypeOK, ReportOK, AccessOK, next \in Groups, entered = Op[next]
    PROVE  /\ message = HasRemark(Split, next) /\ action = Bits(Split, next)
           /\ AttachedPassage(route, next) =
                  IF route[next] = NoPassage THEN access ELSE route[next]
<1>1. entered # 0 /\ Split.content = content /\ Split.route = route
  BY GroupTypes DEF Split
<1>2. Seen(entered) <=> SeesPassageError(route, next)
  BY DEF Seen, SeesPassageError
<1>3. message = HasRemark(Split, next)
  BY <1>1, <1>2 DEF ReportOK, HasRemark
<1>4. action = Bits(Split, next)
  BY <1>1, <1>2 DEF ReportOK, Bits
<1>5. access = LastAccess(next)
  BY DEF AccessOK
<1> QED
  BY <1>3, <1>4, <1>5 DEF LastAccess, AttachedPassage
-----------------------------------------------------------------------------
(* Every step keeps the invariant                                          *)

LEMMA IInvInit == Init => IInv
<1> SUFFICES ASSUME Init PROVE IInv
  OBVIOUS
<1>1. NumGroups \in Nat \ {0} /\ 1 \in 1 .. NumGroups + 1
  BY GroupsAssumption
<1>2. packets = << >> /\ DOMAIN packets = {} /\ next = 1 /\ entered = 0
  BY DEF Init
<1>3. TypeOK
  <2>1. /\ content \subseteq ContentErrors /\ taskError \in BOOLEAN /\ message \in BOOLEAN
        /\ taskBits \subseteq Reviewable \cup {"passage"}
        /\ action \subseteq Reviewable \cup {"passage"} /\ access \in Access
        /\ verdict = "none"
    BY DEF Init, Access
  <2>2. /\ own \in [Groups -> Access] /\ country \in [Operators -> Access]
        /\ numbers \in [Groups -> 1 .. MaxNumbers] /\ limit \in [Passages -> SizeLimits]
    BY DEF Init
  <2> QED
    BY <1>1, <1>2, <2>1, <2>2 DEF TypeOK
<1>4. ~Seen(0)
  BY DEF Seen
<1>5. ReportOK
  BY <1>2, <1>4 DEF Init, ReportOK
<1>6. EnteredOK /\ AccessOK
  <2>1. \A g \in Groups : ~(g < 1) /\ Op[g] \in Nat \ {0}
    BY <1>3, GroupTypes DEF Groups
  <2> QED
    BY <1>2, <2>1 DEF EnteredOK, AccessOK
<1>7. PacketsOK /\ VerdictOK
  BY <1>2 DEF Init, PacketsOK, VerdictOK
<1>8. LoopMeetsClosedForm /\ PacketFitsPassage
  BY <1>2 DEF LoopMeetsClosedForm, PacketFitsPassage
<1>9. CarriedOnce
  <2>1. 1 .. next - 1 = {}
    BY <1>2
  <2> QED
    BY <2>1 DEF CarriedOnce
<1> QED
  BY <1>3, <1>5, <1>6, <1>7, <1>8, <1>9 DEF IInv

\* What speaks of the packets and the inputs alone stays when both do.
LEMMA PacketsKept ==
    ASSUME UNCHANGED <<inputs, next, packets>>
    PROVE  /\ PacketsOK => PacketsOK'
           /\ LoopMeetsClosedForm => LoopMeetsClosedForm'
           /\ CarriedOnce => CarriedOnce'
           /\ PacketFitsPassage => PacketFitsPassage'
<1>1. /\ next' = next /\ packets' = packets /\ numbers' = numbers /\ limit' = limit
      /\ route' = route /\ Split' = Split
  BY InputsKept
<1>2. \A i, g, n : Carries(i, g, n)' <=> Carries(i, g, n)
  BY <1>1 DEF Carries
<1>3. CarriedOnce => CarriedOnce'
  BY <1>1, <1>2 DEF CarriedOnce
<1> QED
  BY <1>1, <1>3 DEF PacketsOK, LoopMeetsClosedForm, PacketFitsPassage

LEMMA IInvEnter ==
    ASSUME IInv, EnterOperator
    PROVE  IInv'
<1> USE DEF IInv
<1>1. /\ next \in Groups /\ entered # Op[next] /\ entered' = Op[next]
      /\ next' = next /\ packets' = packets /\ verdict' = verdict /\ access' = NoPassage
      /\ message' = (taskError \/ PassageError(route, Op[next]))
      /\ action' = IF PassageError(route, Op[next])
                   THEN taskBits \cup {"passage"} ELSE taskBits
      /\ taskError' = message' /\ taskBits' = action' /\ UNCHANGED inputs
  BY GroupTypes DEF EnterOperator
<1>2. /\ content' = content /\ own' = own /\ country' = country
      /\ numbers' = numbers /\ limit' = limit
      /\ route' = route /\ Split' = Split
  BY <1>1, InputsKept
<1>3. PacketsOK' /\ LoopMeetsClosedForm' /\ CarriedOnce' /\ PacketFitsPassage'
  BY <1>1, PacketsKept
<1>4. /\ Seen(Op[next]) <=> Seen(entered) \/ PassageError(route, Op[next])
      /\ EarlierAccess(route, next) = {}
  BY <1>1, SeenAtNext
<1>5. Seen(entered)' <=> Seen(Op[next])
  BY <1>1, <1>2 DEF Seen
<1>6. TypeOK'
  <2>1. /\ Op[next] \in Operators /\ action' \subseteq Reviewable \cup {"passage"}
        /\ message' \in BOOLEAN
    BY <1>1, GroupTypes DEF TypeOK
  <2> QED
    BY <1>1, <1>2, <2>1 DEF TypeOK, Access
<1>7. ReportOK'
  <2>1. taskError' = (content' # {} \/ Seen(entered)')
    BY <1>1, <1>2, <1>4, <1>5 DEF ReportOK
  <2>2. taskBits' = (content' \cap Reviewable) \cup (IF Seen(entered)' THEN {"passage"} ELSE {})
    BY <1>1, <1>2, <1>4, <1>5 DEF ReportOK
  <2> QED
    BY <1>1, <2>1, <2>2 DEF ReportOK
<1>8. EnteredOK'
  BY <1>1, GroupTypes DEF EnteredOK, TypeOK, Operators
<1>9. AccessOK'
  <2>1. LastAccess(next)' = NoPassage
    BY <1>1, <1>2, <1>4 DEF LastAccess
  <2> QED
    BY <1>1, <2>1 DEF AccessOK
<1>10. VerdictOK'
  BY <1>1, <1>2 DEF VerdictOK
<1> QED
  BY <1>3, <1>6, <1>7, <1>8, <1>9, <1>10

\* What both ways to join the packets of a group have in common: a is the access
\* their packets go to, and what the province loop holds afterwards.
LEMMA IInvJoin ==
    ASSUME IInv, next \in Groups, entered = Op[next],
           UNCHANGED <<inputs, entered, taskError, taskBits, message, action, verdict>>,
           next' = next + 1,
           access' = IF route[next] = NoPassage THEN access ELSE route[next],
           NEW count \in Nat \ {0}, NEW cut,
           Grown(count, cut, access'), Ranges(count, cut, numbers[next]),
           Partition(count, cut, numbers[next]),
           route[next] # NoPassage => \A i \in 1 .. count :
               cut[i].last + 1 - cut[i].first \in 1 .. PerPacket(access')
    PROVE  IInv'
<1> USE DEF IInv
<1>1. /\ content' = content /\ own' = own /\ country' = country
      /\ numbers' = numbers /\ limit' = limit
      /\ route' = route /\ Split' = Split
  BY InputsKept
<1>2. access' \in Access
  BY GroupTypes DEF TypeOK
<1>3. PacketsOK' /\ LoopMeetsClosedForm' /\ CarriedOnce' /\ PacketFitsPassage'
  <2>1. /\ message = HasRemark(Split, next) /\ action = Bits(Split, next)
        /\ access' = AttachedPassage(route, next)
    BY SnapshotMeets
  <2> QED
    BY <1>2, <2>1, GrownFacts
<1>4. /\ next \in Nat /\ next + 1 \in 1 .. NumGroups + 1
      /\ \A g \in Groups : g \in Nat /\ Op[g] \in Nat
  BY GroupTypes DEF Groups
<1>5. TypeOK'
  <2>1. \A i \in DOMAIN packets' : packets'[i] \in Packet
    BY <1>3, ElementOfSeq, LenProperties DEF PacketsOK
  <2> QED
    BY <1>1, <1>2, <1>4, <2>1 DEF TypeOK
<1>6. ReportOK'
  BY <1>1 DEF ReportOK, Seen
<1>7. EnteredOK'
  <2>1. ASSUME NEW g \in Groups, g < next + 1 PROVE Op[g] <= entered
    <3>1. g < next \/ g = next
      BY <1>4, <2>1
    <3> QED
      BY <1>4, <3>1 DEF EnteredOK
  <2>2. ASSUME next + 1 \in Groups PROVE entered <= Op[next + 1]
    BY <1>4, <2>2, GroupsAssumption
  <2> QED
    BY <2>1, <2>2 DEF EnteredOK
<1>8. AccessOK'
  <2>1. ASSUME next + 1 \in Groups, entered = Op[next + 1]
        PROVE  access' = LastAccess(next + 1)
    <3>1. access = LastAccess(next)
      BY DEF AccessOK
    <3>2. LastAccess(next + 1) = IF route[next] = NoPassage THEN LastAccess(next) ELSE route[next]
      BY <2>1, LastAccessNext
    <3> QED
      BY <3>1, <3>2
  <2>2. LastAccess(next)' = LastAccess(next + 1)
    BY <1>1 DEF LastAccess
  <2> QED
    BY <2>1, <2>2 DEF AccessOK
<1>9. VerdictOK'
  <2>1. verdict = "none"
    BY <1>4, GroupTypes DEF VerdictOK, Groups
  <2> QED
    BY <2>1 DEF VerdictOK
<1> QED
  BY <1>3, <1>5, <1>6, <1>7, <1>8, <1>9

LEMMA IInvWithoutAccess ==
    ASSUME IInv, JoinWithoutAccess
    PROVE  IInv'
<1> DEFINE cut == << [first |-> 1, last |-> numbers[next]] >>
<1>1. TypeOK /\ PacketsOK
  BY DEF IInv
<1>2. /\ Grown(1, cut, access)
      /\ Ranges(1, cut, numbers[next]) /\ Partition(1, cut, numbers[next])
  BY <1>1, GrownByOne
<1>3. /\ next \in Groups /\ entered = Op[next] /\ route[next] = NoPassage
      /\ next' = next + 1 /\ access' = access
      /\ UNCHANGED <<inputs, entered, taskError, taskBits, message, action, verdict>>
  BY <1>1, GroupTypes DEF JoinWithoutAccess
<1>4. Grown(1, cut, access')
  BY <1>2, <1>3
<1> HIDE DEF cut
<1> QED
  BY <1>2, <1>3, <1>4, IInvJoin

LEMMA IInvWithAccess ==
    ASSUME IInv, JoinWithAccess
    PROVE  IInv'
<1> DEFINE n == numbers[next]
           size == PerPacket(route[next])
           count == Count(n, size)
           cut == Chunks(n, size)
<1>1. TypeOK /\ PacketsOK
  BY DEF IInv
<1>2. /\ size \in Nat \ {0} /\ n \in Nat \ {0} /\ Grown(count, cut, route[next])
      /\ Ranges(count, cut, n) /\ Partition(count, cut, n)
  BY <1>1, GrownByCut
<1>3. /\ next \in Groups /\ entered = Op[next] /\ route[next] # NoPassage
      /\ next' = next + 1 /\ access' = route[next]
      /\ UNCHANGED <<inputs, entered, taskError, taskBits, message, action, verdict>>
  BY <1>1, GroupTypes DEF JoinWithAccess
<1>4. /\ count \in Nat \ {0}
      /\ \A i \in 1 .. count : cut[i].last + 1 - cut[i].first \in 1 .. size
  BY <1>2, ChunkFacts
<1>5. Grown(count, cut, access') /\ size = PerPacket(access')
  BY <1>2, <1>3
<1> HIDE DEF size, count, cut
<1> QED
  BY <1>2, <1>3, <1>4, <1>5, IInvJoin

LEMMA IInvPrepare ==
    ASSUME IInv, PrepareTask
    PROVE  IInv'
<1> USE DEF IInv
<1>1. /\ next = NumGroups + 1 /\ next' = next /\ packets' = packets
      /\ verdict' = IF ~taskError \/ packets = << >> THEN "AUTO" ELSE "WAITING"
      /\ UNCHANGED <<inputs, entered, taskError, taskBits, message, action, access>>
  BY DEF PrepareTask
<1>2. /\ content' = content /\ own' = own /\ country' = country
      /\ numbers' = numbers /\ limit' = limit
      /\ route' = route /\ Split' = Split
  BY <1>1, InputsKept
<1>3. PacketsOK' /\ LoopMeetsClosedForm' /\ CarriedOnce' /\ PacketFitsPassage'
  BY <1>1, PacketsKept
<1>4. TypeOK'
  BY <1>1, <1>2 DEF TypeOK
<1>5. ReportOK' /\ EnteredOK' /\ AccessOK'
  BY <1>1, <1>2 DEF ReportOK, Seen, EnteredOK, AccessOK, LastAccess
<1>6. VerdictOK'
  <2>1. next > 1 /\ packets # << >>
    BY <1>1, GroupsAssumption DEF PacketsOK
  <2>2. taskError <=> TaskHasError(Split)
    <3>1. /\ Split.content = content /\ Split.route = route /\ Split.empty = FALSE
      BY DEF Split
    <3> QED
      BY <1>1, <3>1, SeenAtEnd DEF ReportOK, TaskHasError
  <2>3. verdict' = TaskStartStatus(Split)
    BY <1>1, <2>1, <2>2 DEF TaskStartStatus, Split
  <2> QED
    BY <1>1, <1>2, <2>3 DEF VerdictOK
<1> QED
  BY <1>3, <1>4, <1>5, <1>6

LEMMA IInvNext == IInv /\ [Next]_vars => IInv'
<1> SUFFICES ASSUME IInv, [Next]_vars PROVE IInv'
  OBVIOUS
<1>1. CASE EnterOperator
  BY <1>1, IInvEnter
<1>2. CASE JoinWithoutAccess
  BY <1>2, IInvWithoutAccess
<1>3. CASE JoinWithAccess
  BY <1>3, IInvWithAccess
<1>4. CASE PrepareTask
  BY <1>4, IInvPrepare
<1>5. CASE UNCHANGED vars
  <2> USE DEF IInv
  <2>1. /\ UNCHANGED inputs /\ UNCHANGED <<inputs, next, packets>>
        /\ next' = next /\ entered' = entered /\ taskError' = taskError
        /\ taskBits' = taskBits /\ message' = message /\ action' = action
        /\ access' = access /\ packets' = packets /\ verdict' = verdict
    BY <1>5 DEF vars, inputs
  <2>2. /\ content' = content /\ own' = own /\ country' = country
        /\ numbers' = numbers /\ limit' = limit
        /\ route' = route /\ Split' = Split
    BY <2>1, InputsKept
  <2>3. PacketsOK' /\ LoopMeetsClosedForm' /\ CarriedOnce' /\ PacketFitsPassage'
    BY <2>1, PacketsKept
  <2>4. TypeOK'
    BY <2>1, <2>2 DEF TypeOK
  <2>5. ReportOK' /\ EnteredOK' /\ AccessOK' /\ VerdictOK'
    BY <2>1, <2>2 DEF ReportOK, Seen, EnteredOK, AccessOK, LastAccess, VerdictOK
  <2> QED
    BY <2>3, <2>4, <2>5
<1> QED
  BY <1>1, <1>2, <1>3, <1>4, <1>5 DEF Next
-----------------------------------------------------------------------------
(* The theorems                                                            *)

\* What the loops of generatePassagePackets keep across iterations is, at every
\* step, what the closed forms say of the groups handled so far.
THEOREM Invariance == Spec => []IInv
<1>1. Init => IInv
  BY IInvInit
<1>2. IInv /\ [Next]_vars => IInv'
  BY IInvNext
<1> QED
  BY <1>1, <1>2, PTL DEF Spec

\* Every variable of the loops keeps its type.
THEOREM TypeCorrect == Spec => []TypeOK
<1>1. IInv => TypeOK
  BY DEF IInv
<1> QED
  BY <1>1, Invariance, PTL

\* Every packet carries the passage, the remark, the bits and the status the closed
\* forms of SmsPackets say, which is what SmsTask starts from.
THEOREM LoopIsClosedForm == Spec => []LoopMeetsClosedForm
<1>1. IInv => LoopMeetsClosedForm
  BY DEF IInv
<1> QED
  BY <1>1, Invariance, PTL

\* The verdict on the task is the closed form, and a task passed automatically has
\* only packets that are.
THEOREM VerdictIsRight == Spec => []VerdictCoversPackets
<1>1. IInv => VerdictCoversPackets
  <2> SUFFICES ASSUME IInv, verdict # "none"
               PROVE  /\ verdict = TaskStartStatus(Split)
                      /\ verdict = "AUTO" => \A i \in DOMAIN packets : packets[i].status = "AUTO"
    BY DEF VerdictCoversPackets
  <2>1. verdict = TaskStartStatus(Split)
    BY DEF IInv, VerdictOK
  <2>2. ASSUME verdict = "AUTO", NEW i \in DOMAIN packets
        PROVE  packets[i].status = "AUTO"
    <3>1. Split \in Splits /\ ~Split.empty
      BY GroupTypes DEF IInv, Split
    <3>2. packets[i].group \in Groups
      BY <2>2 DEF IInv, TypeOK, Packet
    <3>3. PacketStartStatus(Split, packets[i].group) = "AUTO"
      BY <2>1, <2>2, <3>1, <3>2, AutoTaskHasOnlyAutoPackets
    <3> QED
      BY <2>2, <3>3 DEF IInv, LoopMeetsClosedForm
  <2> QED
    BY <2>1, <2>2
<1> QED
  BY <1>1, Invariance, PTL

\* However the numbers of a group are cut into packets, each is in exactly one.
THEOREM EachNumberOnce == Spec => []NumbersCoveredOnce
<1>1. IInv => NumbersCoveredOnce
  <2> SUFFICES ASSUME IInv, NEW g \in 1 .. next - 1, NEW n \in 1 .. numbers[g]
               PROVE  Cardinality({i \in DOMAIN packets : Carries(i, g, n)}) = 1
    BY DEF NumbersCoveredOnce, Carries
  <2>1. PICK i \in DOMAIN packets : Carries(i, g, n)
    BY DEF IInv, CarriedOnce
  <2>2. \A j \in DOMAIN packets : Carries(j, g, n) => i = j
    BY <2>1 DEF IInv, CarriedOnce
  <2>3. {j \in DOMAIN packets : Carries(j, g, n)} = {i}
    BY <2>1, <2>2
  <2> QED
    BY <2>3, FS_Singleton
<1> QED
  BY <1>1, Invariance, PTL

\* No packet of a group with an access is larger than its passage takes.
THEOREM PacketsFit == Spec => []PacketFitsPassage
<1>1. IInv => PacketFitsPassage
  BY DEF IInv
<1> QED
  BY <1>1, Invariance, PTL

\* A packet that goes out without review belongs to a task without error and to a
\* group with an access of its own.
THEOREM AutoIsClean == Spec => []AutoOnlyWhenClean
<1>1. IInv => AutoOnlyWhenClean
  <2> SUFFICES ASSUME IInv, NEW i \in DOMAIN packets, packets[i].status = "AUTO"
               PROVE  /\ content = {} /\ route[packets[i].group] # NoPassage
                      /\ packets[i].bits = {}
    BY DEF AutoOnlyWhenClean
  <2>1. Split \in Splits /\ Split.content = content /\ Split.route = route
    BY GroupTypes DEF IInv, Split
  <2>2. packets[i].group \in Groups
    BY DEF IInv, TypeOK, Packet
  <2>3. /\ PacketStartStatus(Split, packets[i].group) = "AUTO"
        /\ packets[i].bits = Bits(Split, packets[i].group)
    BY DEF IInv, LoopMeetsClosedForm
  <2>4. content = {} /\ route[packets[i].group] # NoPassage
    BY <2>1, <2>2, <2>3, AutoPacketIsClean
  <2>5. ~SeesPassageError(Split.route, packets[i].group)
    BY <2>3 DEF PacketStartStatus, HasRemark
  <2> QED
    BY <2>1, <2>3, <2>4, <2>5 DEF Bits
<1> QED
  BY <1>1, Invariance, PTL
=============================================================================
