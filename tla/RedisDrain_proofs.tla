------------------------- MODULE RedisDrain_proofs -------------------------
(***************************************************************************)
(* Proofs about the persistence lists, for any entries, batch size and     *)
(* number of faults.  What concerns the content of the list needs the      *)
(* assumption OneWorker: a single instance of the service drains it.       *)
(***************************************************************************)
EXTENDS RedisDrain, TLAPS

OneWorker == \A v, w \in Workers : v = w

-----------------------------------------------------------------------------
(* Sequences                                                               *)

\* Pushing an entry adds it to the elements and leaves every prefix alone.
LEMMA AppendFacts ==
    ASSUME NEW s \in Seq(Entries), NEW e \in Entries
    PROVE  /\ Append(s, e) \in Seq(Entries)
           /\ Len(Append(s, e)) = Len(s) + 1
           /\ Elements(Append(s, e)) = Elements(s) \cup {e}
           /\ \A n \in 0 .. Len(s) : SubSeq(Append(s, e), 1, n) = SubSeq(s, 1, n)
<1> DEFINE t == Append(s, e)
<1>1. /\ t \in Seq(Entries)
      /\ Len(t) = Len(s) + 1
      /\ \A i \in 1 .. Len(s) : t[i] = s[i]
      /\ t[Len(s) + 1] = e
  OBVIOUS
<1>2. Elements(t) = Elements(s) \cup {e}
  <2>1. Elements(t) \subseteq Elements(s) \cup {e}
    BY <1>1 DEF Elements
  <2>2. Elements(s) \subseteq Elements(t)
    BY <1>1 DEF Elements
  <2>3. e \in Elements(t)
    BY <1>1 DEF Elements
  <2> QED
    BY <2>1, <2>2, <2>3
<1>3. ASSUME NEW n \in 0 .. Len(s)
      PROVE  SubSeq(t, 1, n) = SubSeq(s, 1, n)
  BY <1>1
<1> QED
  BY <1>1, <1>2, <1>3

\* What a worker reads is a prefix, and not empty if the list is not.
LEMMA FirstOfFacts ==
    ASSUME NEW s \in Seq(Entries)
    PROVE  /\ FirstOf(s) \in Seq(Entries)
           /\ Len(FirstOf(s)) <= Len(s)
           /\ FirstOf(s) = SubSeq(s, 1, Len(FirstOf(s)))
           /\ s # << >> => FirstOf(s) # << >>
<1> DEFINE n == IF Len(s) <= BatchSize THEN Len(s) ELSE BatchSize
<1>1. n \in 0 .. Len(s) /\ (s # << >> => n > 0)
  BY BatchAssumption
<1>2. FirstOf(s) = SubSeq(s, 1, n)
  BY DEF FirstOf
<1>3. SubSeq(s, 1, n) \in Seq(Entries) /\ Len(SubSeq(s, 1, n)) = n
  BY <1>1
<1> QED
  BY <1>1, <1>2, <1>3

\* Cutting a sequence after n elements loses none of its elements.
LEMMA DropFacts ==
    ASSUME NEW s \in Seq(Entries), NEW n \in 0 .. Len(s)
    PROVE  /\ Drop(s, n) \in Seq(Entries)
           /\ Elements(Drop(s, n)) \subseteq Elements(s)
           /\ Elements(SubSeq(s, 1, n)) \subseteq Elements(s)
           /\ Elements(s) \subseteq Elements(SubSeq(s, 1, n)) \cup Elements(Drop(s, n))
<1> DEFINE h == SubSeq(s, 1, n)
           t == Drop(s, n)
<1>1. /\ h \in Seq(Entries) /\ Len(h) = n
      /\ \A i \in 1 .. n : h[i] = s[i]
  OBVIOUS
<1>2. /\ t \in Seq(Entries) /\ Len(t) = Len(s) - n
      /\ \A i \in 1 .. Len(s) - n : t[i] = s[i + n]
  BY DEF Drop
<1>3. Elements(t) \subseteq Elements(s)
  BY <1>2 DEF Elements
<1>4. Elements(h) \subseteq Elements(s)
  BY <1>1 DEF Elements
<1>5. ASSUME NEW x \in Elements(s)
      PROVE  x \in Elements(h) \cup Elements(t)
  <2>1. PICK i \in 1 .. Len(s) : x = s[i]
    BY <1>5 DEF Elements
  <2>2. CASE i <= n
    BY <2>1, <2>2, <1>1 DEF Elements
  <2>3. CASE i > n
    <3>1. i - n \in 1 .. Len(t) /\ t[i - n] = s[i]
      BY <2>3, <1>2
    <3> QED
      BY <3>1, <2>1 DEF Elements
  <2> QED
    BY <2>2, <2>3
<1> QED
  BY <1>2, <1>3, <1>4, <1>5

\* Storing a batch keeps exactly its elements in addition.
LEMMA AddOneFacts ==
    ASSUME NEW count \in [Entries -> Nat], NEW s \in Seq(Entries)
    PROVE  /\ AddOne(count, s) \in [Entries -> Nat]
           /\ \A e \in Entries : AddOne(count, s)[e] > 0 <=> count[e] > 0 \/ e \in Elements(s)
BY DEF AddOne

LEMMA ElementsType ==
    ASSUME NEW s \in Seq(Entries)
    PROVE  Elements(s) \subseteq Entries
BY DEF Elements
-----------------------------------------------------------------------------
(* Types                                                                   *)

LEMMA TypeInit == Init => TypeOK
BY FaultsAssumption DEF Init, TypeOK

LEMMA TypeStep == TypeOK /\ [Next]_vars => TypeOK'
<1> SUFFICES ASSUME TypeOK, [Next]_vars PROVE TypeOK'
  OBVIOUS
<1> USE DEF TypeOK
<1>1. CASE UNCHANGED vars
  BY <1>1 DEF vars
<1>2. ASSUME NEW e \in Entries, Push(e) PROVE TypeOK'
  BY <1>2, AppendFacts DEF Push
<1>3. ASSUME NEW w \in Workers, Scan(w) PROVE TypeOK'
  BY <1>3, FirstOfFacts DEF Scan
<1>4. ASSUME NEW w \in Workers, Save(w) PROVE TypeOK'
  BY <1>4, AddOneFacts DEF Save
<1>5. ASSUME NEW w \in Workers, SaveFails(w) PROVE TypeOK'
  BY <1>5 DEF SaveFails
<1>6. ASSUME NEW w \in Workers, SaveUnknown(w) PROVE TypeOK'
  BY <1>6, AddOneFacts, FaultsAssumption DEF SaveUnknown
<1>7. ASSUME NEW w \in Workers, Park(w) PROVE TypeOK'
  BY <1>7, AddOneFacts DEF Park
<1>8. ASSUME NEW w \in Workers, Trim(w) PROVE TypeOK'
  <2>1. Drop(list, Len(batch[w])) \in Seq(Entries)
    BY DEF Drop
  <2> QED
    BY <1>8, <2>1 DEF Trim
<1>9. ASSUME NEW w \in Workers, Interrupt(w) PROVE TypeOK'
  BY <1>9, FaultsAssumption DEF Interrupt
<1> QED
  BY <1>1, <1>2, <1>3, <1>4, <1>5, <1>6, <1>7, <1>8, <1>9 DEF Next, Step

\* Every worker of the list holds entries exactly during a round, and every
\* variable keeps its type.
THEOREM TypeCorrect == Spec => []TypeOK
BY TypeInit, TypeStep, PTL DEF Spec
-----------------------------------------------------------------------------
(* What one worker guarantees                                              *)

\* A batch about to be trimmed is in the database or in the failed list.
TrimmedIsKept ==
    \A w \in Workers : pc[w] = "trim" => Elements(batch[w]) \subseteq Kept

IInv == TypeOK /\ BatchIsHead /\ TrimmedIsKept /\ NothingLost

LEMMA InvInit == Init => IInv
<1> SUFFICES ASSUME Init PROVE BatchIsHead /\ TrimmedIsKept /\ NothingLost
  BY TypeInit DEF IInv
<1> QED
  BY DEF Init, BatchIsHead, TrimmedIsKept, NothingLost

\* Rows and failed copies are only ever added.
LEMMA KeptGrows ==
    ASSUME TypeOK, NEW w \in Workers,
           \/ rows' = AddOne(rows, batch[w]) /\ failed' = failed
           \/ failed' = AddOne(failed, batch[w]) /\ rows' = rows
    PROVE  Kept' = Kept \cup Elements(batch[w])
<1>1. batch[w] \in Seq(Entries) /\ rows \in [Entries -> Nat] /\ failed \in [Entries -> Nat]
  BY DEF TypeOK
<1>2. Elements(batch[w]) \subseteq Entries
  BY <1>1, ElementsType
<1> QED
  BY <1>1, <1>2, AddOneFacts DEF Kept

LEMMA InvStep ==
    ASSUME OneWorker
    PROVE  IInv /\ [Next]_vars => IInv'
<1> SUFFICES ASSUME IInv, [Next]_vars
             PROVE  BatchIsHead' /\ TrimmedIsKept' /\ NothingLost'
  BY TypeStep DEF IInv
<1> USE DEF IInv
<1>t. /\ list \in Seq(Entries) /\ pushed \subseteq Entries
      /\ batch \in [Workers -> Seq(Entries)]
      /\ pc \in [Workers -> {"scan", "save", "park", "trim"}]
  BY DEF TypeOK
<1>1. CASE UNCHANGED vars
  BY <1>1 DEF vars, BatchIsHead, TrimmedIsKept, NothingLost, Kept, Elements
<1>2. ASSUME NEW e \in Entries, Push(e)
      PROVE  BatchIsHead' /\ TrimmedIsKept' /\ NothingLost'
  <2>1. Kept' = Kept
    BY <1>2 DEF Push, Kept
  <2>2. BatchIsHead'
    <3> SUFFICES ASSUME NEW w \in Workers
                 PROVE  /\ Len(batch[w]) <= Len(list')
                        /\ batch[w] = SubSeq(list', 1, Len(batch[w]))
      BY <1>2 DEF Push, BatchIsHead
    <3>1. Len(batch[w]) \in 0 .. Len(list) /\ batch[w] = SubSeq(list, 1, Len(batch[w]))
      BY <1>t DEF BatchIsHead
    <3> QED
      BY <3>1, <1>2, <1>t, AppendFacts DEF Push
  <2>3. TrimmedIsKept'
    BY <1>2, <2>1 DEF Push, TrimmedIsKept, Elements
  <2>4. NothingLost'
    BY <1>2, <1>t, <2>1, AppendFacts DEF Push, NothingLost
  <2> QED
    BY <2>2, <2>3, <2>4
<1>3. ASSUME NEW w \in Workers, Scan(w)
      PROVE  BatchIsHead' /\ TrimmedIsKept' /\ NothingLost'
  <2>1. Kept' = Kept /\ list' = list /\ pushed' = pushed
    BY <1>3 DEF Scan, Kept
  <2>2. BatchIsHead'
    BY <1>3, <1>t, FirstOfFacts DEF Scan, BatchIsHead
  <2>3. TrimmedIsKept'
    BY <1>3, <1>t, <2>1 DEF Scan, TrimmedIsKept, Elements
  <2>4. NothingLost'
    BY <2>1 DEF NothingLost, Elements
  <2> QED
    BY <2>2, <2>3, <2>4
\* A batch is stored or parked.
<1>4. ASSUME NEW w \in Workers, Save(w) \/ SaveUnknown(w) \/ Park(w)
      PROVE  BatchIsHead' /\ TrimmedIsKept' /\ NothingLost'
  <2>1. /\ list' = list /\ pushed' = pushed /\ batch' = batch
        /\ \E next \in {"park", "trim"} : pc' = [pc EXCEPT ![w] = next]
        /\ \/ rows' = AddOne(rows, batch[w]) /\ failed' = failed
           \/ failed' = AddOne(failed, batch[w]) /\ rows' = rows
    BY <1>4 DEF Save, SaveUnknown, Park
  <2>2. Kept' = Kept \cup Elements(batch[w])
    BY <2>1, KeptGrows
  <2>3. BatchIsHead'
    BY <2>1 DEF BatchIsHead
  <2>4. TrimmedIsKept'
    BY <2>1, <2>2, <1>t DEF TrimmedIsKept, Elements
  <2>5. NothingLost'
    BY <2>1, <2>2 DEF NothingLost, Elements
  <2> QED
    BY <2>3, <2>4, <2>5
<1>5. ASSUME NEW w \in Workers, SaveFails(w)
      PROVE  BatchIsHead' /\ TrimmedIsKept' /\ NothingLost'
  <2>1. /\ list' = list /\ pushed' = pushed /\ batch' = batch /\ Kept' = Kept
        /\ pc' = [pc EXCEPT ![w] = "park"]
    BY <1>5 DEF SaveFails, Kept
  <2> QED
    BY <2>1, <1>t DEF BatchIsHead, TrimmedIsKept, NothingLost, Elements
<1>6. ASSUME NEW w \in Workers, Trim(w)
      PROVE  BatchIsHead' /\ TrimmedIsKept' /\ NothingLost'
  <2>1. Kept' = Kept /\ pushed' = pushed /\ list' = Drop(list, Len(batch[w]))
    BY <1>6 DEF Trim, Kept
  <2>2. \A v \in Workers : batch'[v] = << >> /\ pc'[v] = "scan"
    BY <1>6, <1>t DEF Trim, OneWorker
  <2>3. Len(batch[w]) \in 0 .. Len(list) /\ batch[w] = SubSeq(list, 1, Len(batch[w]))
    BY <1>t DEF BatchIsHead
  <2>4. list' \in Seq(Entries)
    BY <2>1, <2>3, <1>t, DropFacts
  <2>5. BatchIsHead'
    <3> SUFFICES ASSUME NEW v \in Workers
                 PROVE  /\ Len(batch'[v]) <= Len(list')
                        /\ batch'[v] = SubSeq(list', 1, Len(batch'[v]))
      BY DEF BatchIsHead
    <3>1. Len(list') \in Nat /\ SubSeq(list', 1, 0) = << >>
      BY <2>4
    <3>2. Len(batch'[v]) = 0 /\ batch'[v] = << >>
      BY <2>2
    <3>3. SubSeq(list', 1, Len(batch'[v])) = << >>
      BY <3>1, <3>2
    <3> QED
      BY <3>1, <3>2, <3>3
  <2>6. TrimmedIsKept'
    BY <2>2 DEF TrimmedIsKept
  <2>7. Elements(batch[w]) \subseteq Kept
    BY <1>6 DEF Trim, TrimmedIsKept
  <2>8. Elements(list) \subseteq Elements(SubSeq(list, 1, Len(batch[w]))) \cup Elements(list')
    BY <2>1, <2>3, <1>t, DropFacts
  <2>9. Elements(SubSeq(list, 1, Len(batch[w]))) = Elements(batch[w])
    BY <2>3
  <2>10. NothingLost'
    BY <2>1, <2>7, <2>8, <2>9 DEF NothingLost, Elements
  <2> QED
    BY <2>5, <2>6, <2>10
<1>7. ASSUME NEW w \in Workers, Interrupt(w)
      PROVE  BatchIsHead' /\ TrimmedIsKept' /\ NothingLost'
  <2>1. /\ list' = list /\ pushed' = pushed /\ Kept' = Kept
        /\ pc' = [pc EXCEPT ![w] = "scan"]
        /\ batch' = [batch EXCEPT ![w] = << >>]
    BY <1>7 DEF Interrupt, Kept
  <2>2. BatchIsHead'
    BY <2>1, <1>t DEF BatchIsHead
  <2>3. TrimmedIsKept'
    BY <2>1, <1>t DEF TrimmedIsKept, Elements
  <2>4. NothingLost'
    BY <2>1 DEF NothingLost, Elements
  <2> QED
    BY <2>2, <2>3, <2>4
<1> QED
  BY <1>1, <1>2, <1>3, <1>4, <1>5, <1>6, <1>7 DEF Next, Step

LEMMA InvAlways ==
    ASSUME OneWorker
    PROVE  Spec => []IInv
BY InvInit, InvStep, PTL DEF Spec

\* With one worker, what a worker read stays the head of the list until it trims.
THEOREM BatchStaysHead ==
    ASSUME OneWorker
    PROVE  Spec => []BatchIsHead
BY InvAlways, PTL DEF IInv

\* With one worker no accepted entry is ever lost.
THEOREM NoLoss ==
    ASSUME OneWorker
    PROVE  Spec => []NothingLost
BY InvAlways, PTL DEF IInv
-----------------------------------------------------------------------------
(* The list and its worker implement the at-least-once store               *)

LEMMA StoreInit == Init => Store!Init
BY DEF Init, Store!Init, Elements, Kept

LEMMA StoreStep ==
    ASSUME OneWorker, IInv, [Next]_vars
    PROVE  [Store!Next]_(Store!vars)
<1> DEFINE pending == Elements(list)
<1>t. /\ list \in Seq(Entries)
      /\ batch \in [Workers -> Seq(Entries)]
  BY DEF IInv, TypeOK
<1>h. ASSUME NEW w \in Workers
      PROVE  /\ Len(batch[w]) \in 0 .. Len(list)
             /\ batch[w] = SubSeq(list, 1, Len(batch[w]))
             /\ Elements(batch[w]) \subseteq pending
  <2>1. Len(batch[w]) \in 0 .. Len(list) /\ batch[w] = SubSeq(list, 1, Len(batch[w]))
    BY <1>t DEF IInv, BatchIsHead
  <2>2. Elements(SubSeq(list, 1, Len(batch[w]))) \subseteq pending
    BY <2>1, <1>t, DropFacts
  <2> QED
    BY <2>1, <2>2
<1>1. CASE UNCHANGED vars
  BY <1>1 DEF vars, Store!vars, Kept, Elements
<1>2. ASSUME NEW e \in Entries, Push(e)
      PROVE  Store!Accept
  <2>1. pending' = pending \cup {e}
    BY <1>2, <1>t, AppendFacts DEF Push
  <2>2. Kept' = Kept
    BY <1>2 DEF Push, Kept
  <2>3. {e} \in SUBSET (Entries \ pushed) /\ pushed' = pushed \cup {e}
    BY <1>2 DEF Push
  <2> QED
    BY <2>1, <2>2, <2>3 DEF Store!Accept
<1>3. ASSUME NEW w \in Workers, Scan(w) \/ SaveFails(w) \/ Interrupt(w)
      PROVE  UNCHANGED Store!vars
  BY <1>3 DEF Scan, SaveFails, Interrupt, Store!vars, Kept, Elements
<1>4. ASSUME NEW w \in Workers, Save(w) \/ SaveUnknown(w) \/ Park(w)
      PROVE  Store!Settle
  <2>1. /\ list' = list /\ pushed' = pushed
        /\ \/ rows' = AddOne(rows, batch[w]) /\ failed' = failed
           \/ failed' = AddOne(failed, batch[w]) /\ rows' = rows
    BY <1>4 DEF Save, SaveUnknown, Park
  <2>2. Kept' = Kept \cup Elements(batch[w])
    BY <2>1, KeptGrows DEF IInv
  <2>3. pending' = pending
    BY <2>1 DEF Elements
  <2>4. Elements(batch[w]) \in SUBSET pending
    BY <1>h
  <2>5. {} \in SUBSET (pending \cap Kept') /\ pending' = pending \ {}
    BY <2>3
  <2> QED
    BY <2>1, <2>2, <2>4, <2>5 DEF Store!Settle
<1>5. ASSUME NEW w \in Workers, Trim(w)
      PROVE  Store!Settle
  <2>1. list' = Drop(list, Len(batch[w])) /\ pushed' = pushed /\ Kept' = Kept
    BY <1>5 DEF Trim, Kept
  <2>2. /\ pending' \subseteq pending
        /\ pending \subseteq Elements(batch[w]) \cup pending'
    <3>1. Elements(list') \subseteq pending
      BY <1>t, <1>h, <2>1, DropFacts
    <3>2. pending \subseteq Elements(SubSeq(list, 1, Len(batch[w]))) \cup Elements(list')
      BY <1>t, <1>h, <2>1, DropFacts
    <3>3. Elements(SubSeq(list, 1, Len(batch[w]))) = Elements(batch[w])
      BY <1>h
    <3>4. Elements(list') = pending'
      BY DEF Elements
    <3> QED
      BY <3>1, <3>2, <3>3, <3>4
  <2>3. Elements(batch[w]) \subseteq Kept
    BY <1>5 DEF Trim, IInv, TrimmedIsKept
  <2> DEFINE S == pending \ pending'
  <2>4. S \in SUBSET (pending \cap Kept') /\ pending' = pending \ S
    BY <2>1, <2>2, <2>3
  <2>5. {} \in SUBSET pending /\ Kept' = Kept \cup {}
    BY <2>1
  <2> QED
    BY <2>1, <2>4, <2>5 DEF Store!Settle
<1> QED
  BY <1>1, <1>2, <1>3, <1>4, <1>5 DEF Next, Step, Store!Next

\* With one worker the list is an at-least-once store: an entry stops being
\* pending only after it was kept, and never comes back.
THEOREM DrainImplementsStore ==
    ASSUME OneWorker
    PROVE  Spec => ImplementsStore
BY StoreInit, StoreStep, InvAlways, PTL DEF Spec, ImplementsStore, Store!Spec
-----------------------------------------------------------------------------
(* Copies                                                                  *)

\* No entry stands in the list twice, and what was not pushed is nowhere.
ListedOnce ==
    /\ \A i, j \in 1 .. Len(list) : list[i] = list[j] => i = j
    /\ Elements(list) \subseteq pushed
    /\ \A e \in Entries \ pushed : rows[e] + failed[e] = 0
Counted == ListedOnce /\ CopiesNeedFaults

\* Only the first n entries leave a list that holds none twice.
LEMMA DropDistinct ==
    ASSUME NEW s \in Seq(Entries), NEW n \in 0 .. Len(s),
           \A i, j \in 1 .. Len(s) : s[i] = s[j] => i = j
    PROVE  /\ \A i, j \in 1 .. Len(Drop(s, n)) : Drop(s, n)[i] = Drop(s, n)[j] => i = j
           /\ Elements(SubSeq(s, 1, n)) \cap Elements(Drop(s, n)) = {}
<1> DEFINE h == SubSeq(s, 1, n)
           t == Drop(s, n)
<1>1. Len(h) = n /\ \A i \in 1 .. n : h[i] = s[i] /\ i \in 1 .. Len(s)
  OBVIOUS
<1>2. Len(t) = Len(s) - n /\ \A i \in 1 .. Len(s) - n : t[i] = s[i + n] /\ i + n \in 1 .. Len(s)
  BY DEF Drop
<1> HIDE DEF h, t
<1>3. ASSUME NEW i \in 1 .. Len(t), NEW j \in 1 .. Len(t), t[i] = t[j] PROVE i = j
  <2>1. i + n \in 1 .. Len(s) /\ j + n \in 1 .. Len(s) /\ s[i + n] = s[j + n]
    BY <1>2, <1>3
  <2>2. i + n = j + n
    BY <2>1
  <2> QED
    BY <1>2, <2>2
<1>4. ASSUME NEW x \in Elements(h), x \in Elements(t) PROVE FALSE
  <2>1. PICK i \in 1 .. n : x = s[i] /\ i \in 1 .. Len(s)
    BY <1>1 DEF Elements
  <2>2. PICK j \in 1 .. Len(s) - n : x = s[j + n] /\ j + n \in 1 .. Len(s)
    BY <1>2, <1>4 DEF Elements
  <2>3. i = j + n
    BY <2>1, <2>2
  <2> QED
    BY <2>1, <2>2, <2>3
<1> QED
  BY <1>3, <1>4 DEF h, t

\* Whether an entry is handled when a worker is at a place of its round, with one
\* worker.
LEMMA HandledAt ==
    ASSUME OneWorker, NEW w \in Workers, NEW e
    PROVE  Handled(e) <=> e \notin Elements(list) \/ (pc[w] = "trim" /\ e \in Elements(batch[w]))
BY DEF OneWorker, Handled

LEMMA HandledThen ==
    ASSUME OneWorker, NEW w \in Workers, NEW e
    PROVE  Handled(e)' <=>
               e \notin Elements(list') \/ (pc'[w] = "trim" /\ e \in Elements(batch'[w]))
BY DEF OneWorker, Handled, Elements

LEMMA CopiesStep ==
    ASSUME OneWorker, IInv, Counted, [Next]_vars
    PROVE  Counted'
<1>t. /\ list \in Seq(Entries) /\ pushed \subseteq Entries
      /\ batch \in [Workers -> Seq(Entries)] /\ rows \in [Entries -> Nat]
      /\ failed \in [Entries -> Nat] /\ faults \in Nat
      /\ pc \in [Workers -> {"scan", "save", "park", "trim"}]
  BY FaultsAssumption DEF IInv, TypeOK
<1>c. \A e \in Entries :
          rows[e] \in Nat /\ failed[e] \in Nat
          /\ rows[e] + failed[e] <= faults + (IF Handled(e) THEN 1 ELSE 0)
  BY <1>t DEF Counted, CopiesNeedFaults
<1>l. ListedOnce
  BY DEF Counted
\* A step of the round that leaves the list as it is.
<1>r. ASSUME UNCHANGED <<list, pushed>>,
             \A e \in Entries \ pushed : rows'[e] = rows[e] /\ failed'[e] = failed[e],
             \A e \in Entries :
                 rows'[e] + failed'[e] <= faults' + (IF Handled(e)' THEN 1 ELSE 0)
      PROVE  Counted'
  <2>1. ListedOnce'
    BY <1>l, <1>r DEF ListedOnce, Elements
  <2>2. CopiesNeedFaults'
    BY <1>r DEF CopiesNeedFaults
  <2> QED
    BY <2>1, <2>2 DEF Counted
<1>1. CASE UNCHANGED vars
  <2>1. \A e \in Entries : Handled(e)' <=> Handled(e)
    BY <1>1 DEF vars, Handled, Elements
  <2> QED
    BY <1>1, <1>c, <1>r, <2>1 DEF vars
<1>2. ASSUME NEW e \in Entries, Push(e) PROVE Counted'
  <2>1. /\ list' = Append(list, e) /\ pushed' = pushed \cup {e} /\ e \notin pushed
        /\ UNCHANGED <<pc, batch, rows, failed, faults>>
    BY <1>2 DEF Push
  <2>2. /\ Elements(list') = Elements(list) \cup {e} /\ Len(list') = Len(list) + 1
        /\ Len(list) \in Nat /\ list'[Len(list) + 1] = e
        /\ \A i \in 1 .. Len(list) : list'[i] = list[i] /\ list[i] \in Elements(list)
    BY <1>t, <2>1, AppendFacts DEF Elements
  <2>3. ListedOnce'
    <3>1. \A i \in 1 .. Len(list) : list[i] # e
      BY <1>l, <2>1, <2>2 DEF ListedOnce
    <3>2. \A i, j \in 1 .. Len(list) : list[i] = list[j] => i = j
      BY <1>l DEF ListedOnce
    <3>3. \A i \in 1 .. Len(list') : i \in 1 .. Len(list) \/ i = Len(list) + 1
      BY <2>2
    <3>4. \A i, j \in 1 .. Len(list') : list'[i] = list'[j] => i = j
      BY <2>2, <3>1, <3>2, <3>3
    <3>5. Elements(list)' \subseteq pushed'
      <4>1. Elements(list)' = Elements(list')
        BY DEF Elements
      <4> QED
        BY <1>l, <2>1, <2>2, <4>1 DEF ListedOnce
    <3>6. \A d \in Entries \ pushed' : rows'[d] + failed'[d] = 0
      BY <1>l, <2>1 DEF ListedOnce
    <3> QED
      BY <3>4, <3>5, <3>6 DEF ListedOnce
  <2>4. ASSUME NEW d \in Entries
        PROVE  rows'[d] + failed'[d] <= faults' + (IF Handled(d)' THEN 1 ELSE 0)
    <3>1. CASE d = e
      <4>1. rows[d] + failed[d] = 0
        BY <1>l, <2>1, <3>1 DEF ListedOnce
      <4> QED
        BY <1>t, <2>1, <4>1
    <3>2. CASE d # e
      <4>1. Handled(d)' <=> Handled(d)
        BY <2>1, <2>2, <3>2 DEF Handled, Elements
      <4> QED
        BY <1>c, <2>1, <4>1
    <3> QED
      BY <3>1, <3>2
  <2> QED
    BY <2>3, <2>4 DEF Counted, CopiesNeedFaults
<1>3. ASSUME NEW w \in Workers, Scan(w) \/ SaveFails(w) PROVE Counted'
  <2>1. /\ UNCHANGED <<list, pushed, rows, failed, faults>>
        /\ pc[w] # "trim" /\ pc'[w] # "trim"
    BY <1>3, <1>t DEF Scan, SaveFails
  <2>2. \A e \in Entries : Handled(e)' <=> Handled(e)
    BY <2>1, HandledAt, HandledThen
  <2> QED
    BY <1>c, <1>r, <2>1, <2>2
\* A batch is stored or parked.
<1>4. ASSUME NEW w \in Workers, Save(w) \/ SaveUnknown(w) \/ Park(w) PROVE Counted'
  <2> DEFINE B == Elements(batch[w])
  <2>1. /\ UNCHANGED <<list, pushed, batch>> /\ pc[w] # "trim"
        /\ \/ pc'[w] = "trim" /\ faults' = faults
           \/ pc'[w] = "park" /\ faults' = faults + 1
        /\ \/ rows' = AddOne(rows, batch[w]) /\ failed' = failed
           \/ failed' = AddOne(failed, batch[w]) /\ rows' = rows
    BY <1>4, <1>t DEF Save, SaveUnknown, Park
  <2>2. B \subseteq Elements(list) /\ B \subseteq Entries
    <3>1. Len(batch[w]) \in 0 .. Len(list) /\ batch[w] = SubSeq(list, 1, Len(batch[w]))
      BY <1>t DEF IInv, BatchIsHead
    <3>2. Elements(SubSeq(list, 1, Len(batch[w]))) \subseteq Elements(list)
      BY <1>t, <3>1, DropFacts
    <3>3. B \subseteq Elements(list)
      BY <3>1, <3>2
    <3> QED
      BY <1>t, <3>3, ElementsType
  <2>3. \A e \in Entries :
            rows'[e] + failed'[e] = rows[e] + failed[e] + (IF e \in B THEN 1 ELSE 0)
    BY <1>c, <2>1 DEF AddOne
  <2>4. \A e \in Entries \ pushed : rows'[e] = rows[e] /\ failed'[e] = failed[e]
    <3>1. \A e \in Entries \ pushed : e \notin B
      BY <1>l, <2>2 DEF ListedOnce
    <3> QED
      BY <2>1, <3>1 DEF AddOne
  <2>5. ASSUME NEW e \in Entries
        PROVE  rows'[e] + failed'[e] <= faults' + (IF Handled(e)' THEN 1 ELSE 0)
    <3>1. /\ Handled(e) <=> e \notin Elements(list)
          /\ Handled(e)' <=> e \notin Elements(list) \/ (pc'[w] = "trim" /\ e \in B)
      BY <2>1, HandledAt, HandledThen
    <3> HIDE DEF B
    <3> QED
      BY <1>c, <1>t, <2>1, <2>2, <2>3, <3>1
  <2> QED
    BY <1>r, <2>1, <2>4, <2>5
<1>5. ASSUME NEW w \in Workers, Trim(w) PROVE Counted'
  <2> DEFINE n == Len(batch[w])
  <2>1. /\ list' = Drop(list, n) /\ UNCHANGED <<rows, failed, pushed, faults>>
        /\ pc[w] = "trim" /\ pc'[w] = "scan"
    BY <1>5, <1>t DEF Trim
  <2>2. n \in 0 .. Len(list) /\ batch[w] = SubSeq(list, 1, n)
    BY <1>t DEF IInv, BatchIsHead
  <2>3. /\ Elements(list') \subseteq Elements(list)
        /\ Elements(batch[w]) \cap Elements(list') = {}
        /\ \A i, j \in 1 .. Len(list') : list'[i] = list'[j] => i = j
        /\ Elements(list) \subseteq Elements(batch[w]) \cup Elements(list')
    <3>1. \A i, j \in 1 .. Len(list) : list[i] = list[j] => i = j
      BY <1>l DEF ListedOnce
    <3>2. Elements(SubSeq(list, 1, n)) = Elements(batch[w])
      BY <2>2
    <3> QED
      BY <1>t, <2>1, <2>2, <3>1, <3>2, DropFacts, DropDistinct
  <2>4. ListedOnce'
    <3>1. Elements(list)' = Elements(list')
      BY DEF Elements
    <3> QED
      BY <1>l, <2>1, <2>3, <3>1 DEF ListedOnce
  <2>5. ASSUME NEW e \in Entries
        PROVE  rows'[e] + failed'[e] <= faults' + (IF Handled(e)' THEN 1 ELSE 0)
    <3>1. Handled(e) <=> e \notin Elements(list) \/ (pc[w] = "trim" /\ e \in Elements(batch[w]))
      BY HandledAt
    <3>2. Handled(e)' <=> e \notin Elements(list') \/ (pc'[w] = "trim" /\ e \in Elements(batch'[w]))
      BY HandledThen
    <3>3. Handled(e) => e \notin Elements(list')
      BY <2>3, <3>1
    <3>4. Handled(e) => Handled(e)'
      BY <3>2, <3>3
    <3>5. rows[e] + failed[e] <= faults + (IF Handled(e) THEN 1 ELSE 0)
      BY <1>c
    <3>6. rows[e] \in Nat /\ failed[e] \in Nat
      BY <1>c
    <3> QED
      BY <1>t, <2>1, <3>4, <3>5, <3>6
  <2>6. CopiesNeedFaults'
    BY <2>5 DEF CopiesNeedFaults
  <2> QED
    BY <2>4, <2>6 DEF Counted
<1>6. ASSUME NEW w \in Workers, Interrupt(w) PROVE Counted'
  <2>1. UNCHANGED <<list, pushed, rows, failed>> /\ faults' = faults + 1
    BY <1>6 DEF Interrupt
  <2>2. ASSUME NEW e \in Entries
        PROVE  rows'[e] + failed'[e] <= faults' + (IF Handled(e)' THEN 1 ELSE 0)
    <3>1. /\ rows[e] \in Nat /\ failed[e] \in Nat
          /\ rows[e] + failed[e] <= faults + (IF Handled(e) THEN 1 ELSE 0)
      BY <1>c
    <3>2. rows[e] + failed[e] <= faults + 1
      BY <1>t, <3>1
    <3>3. rows'[e] + failed'[e] <= faults'
      BY <2>1, <3>2
    <3> QED
      BY <1>t, <2>1, <3>1, <3>3
  <2> QED
    BY <1>r, <2>1, <2>2
<1> QED
  BY <1>1, <1>2, <1>3, <1>4, <1>5, <1>6 DEF Next, Step

\* With one worker, an entry is stored or parked once, and once more for each
\* interrupted round or insert of unknown outcome.
THEOREM CopiesCounted ==
    ASSUME OneWorker
    PROVE  Spec => []CopiesNeedFaults
<1>1. Init => Counted
  BY DEF Init, Counted, ListedOnce, CopiesNeedFaults, Elements
<1>2. IInv /\ Counted /\ [Next]_vars => Counted'
  BY CopiesStep
<1>3. Counted => CopiesNeedFaults
  BY DEF Counted
<1> QED
  BY <1>1, <1>2, <1>3, InvAlways, PTL DEF Spec
=============================================================================
