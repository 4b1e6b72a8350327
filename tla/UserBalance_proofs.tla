------------------------- MODULE UserBalance_proofs -------------------------
(***************************************************************************)
(* Proofs about the balances, for any accounts, calls, amounts, orders and *)
(* number of faults.                                                       *)
(*                                                                         *)
(* The inductive invariant says where each call can be and what it has in  *)
(* hand there (PlacesOK, LeftOK), what it has booked by then (BookedOK),   *)
(* that a row in hand is as it was read unless the account counts as       *)
(* overlapped (FreshOK), that what a submission or an exchange was allowed *)
(* to take is still there, or was let out unasked (CoveredOK), and that    *)
(* one notification at most is at the order (OrderOK).                     *)
(***************************************************************************)
EXTENDS UserBalance, TLAPS

PlaceOK(c, x) ==
    \/ x.at \in Ended \cup {"new"} /\ x.open = {}
    \/ kind[c] = "submit" /\ x.at \in {"deduct", "take"} /\ x.open = {of[c]}
    \/ kind[c] = "submit" /\ x.at = "publish" /\ x.open = {}
    \/ kind[c] = "credit" /\ x.at = "give" /\ x.open = {of[c]}
    \/ kind[c] = "exchange" /\ x.at \in {"give", "debit"} /\ x.open = {of[c], to[c]}
    \/ kind[c] \in {"exchange", "form"} /\ x.at = "record" /\ x.open = {}
    \/ kind[c] = "form" /\ x.at = "edit" /\ x.open = {of[c]}
    \/ kind[c] = "notify" /\ x.at \in {"complete", "charge", "invoice"} /\ x.open = {}
    \/ kind[c] = "notify" /\ x.at = "give" /\ x.open = {Head(x.left)}
PlacesOK == \A c \in Calls : PlaceOK(c, call[c])

Left(c) == call[c].left
LeftOK ==
    \A c \in Calls : kind[c] = "notify" /\ call[c].at \in {"charge", "give"} =>
        /\ Left(c) # << >>
        /\ \A i, j \in 1 .. Len(Left(c)) : Left(c)[i] = Left(c)[j] => i = j
        /\ \A i \in 1 .. Len(Left(c)) : booked[<<c, Left(c)[i]>>] = 0

NoneBooked(c) == \A a \in Accounts : booked[<<c, a>>] = 0
BookedFor(c) ==
    /\ \/ call[c].at \in {"new", "deduct", "take", "edit", "debit", "refused", "complete"}
       \/ kind[c] # "notify" /\ At(c, "give")
       \/ kind[c] # "notify" /\ faults = 0 /\ At(c, "failed")
       => NoneBooked(c)
    /\ kind[c] # "notify" /\ call[c].at \in {"publish", "record", "accepted"}
       => booked[<<c, of[c]>>] = 1
BookedOK == \A c \in Calls : BookedFor(c)

FreshOK ==
    \A c \in Calls : \A a \in InHand(c) \ overlapped :
        call[c].seen[a].balance = row[a].balance

CoveredFor(c) ==
    of[c] \notin overlapped =>
        /\ kind[c] = "submit" /\ call[c].at \in {"deduct", "take"}
           => row[of[c]].balance + unasked[of[c]] >= amount[c]
        /\ kind[c] = "exchange" /\ call[c].at \in {"give", "debit"}
           => row[of[c]].balance >= amount[c]
CoveredOK == \A c \in Calls : CoveredFor(c)

Charging(c) == kind[c] = "notify" /\ call[c].at \in {"charge", "give"}
OrderOK ==
    /\ \A c, d \in Calls : Notifying(c) /\ Notifying(d) => c = d
    /\ \A c \in Calls : kind[c] = "notify" =>
           /\ At(c, "complete") => order = "paying"
           /\ order = "paying" => NoneBooked(c) /\ call[c].at \notin {"charge", "give", "invoice"}
    /\ \A c, d \in Calls : Charging(c) /\ kind[d] = "notify" /\ c # d => NoneBooked(d)

PublishedOK ==
    \A c \in Calls :
        /\ c \in published => kind[c] = "submit" /\ booked[<<c, of[c]>>] = 1
        /\ kind[c] = "submit" /\ At(c, "accepted") => c \in published

-----------------------------------------------------------------------------
(* Steps                                                                   *)

\* A step of a call that changes no row.
Quiet(c) ==
    /\ UNCHANGED rows
    /\ \A a \in Accounts : unasked'[a] >= unasked[a]
    /\ \A d \in Calls \ {c} : call'[d] = call[d]
    /\ \/ call'[c].open = {}
       \/ call'[c].open = call[c].open /\ call'[c].seen = call[c].seen
       \/ call'[c].seen = row

\* A step of a call that writes all it has in hand.
Writes(c) ==
    /\ Write(c, InHand(c))
    /\ \A d \in Calls \ {c} : call'[d] = call[d]
    /\ call'[c].open = {}

\* A step of the check.
Warns ==
    /\ UNCHANGED <<call, due, booked, unasked, overlapped>>
    /\ \A a \in Accounts : row'[a].balance = row[a].balance

Writing(c) == WriteDeduct(c) \/ WriteCredit(c) \/ SaveForm(c) \/ Debit(c) \/ ChargeProduct(c)

\* What becomes of the calls' records.
Others(c) == \A d \in Calls \ {c} : call'[d] = call[d]

LEMMA GoFacts ==
    ASSUME TypeOK, NEW c \in Calls, NEW place \in Places, Go(c, place)
    PROVE  /\ Others(c) /\ call' \in [Calls -> Session]
           /\ call'[c].at = place /\ call'[c].open = {}
           /\ call'[c].seen = call[c].seen /\ call'[c].left = call[c].left
BY DEF Go, Others, TypeOK, Session

LEMMA ReadFacts ==
    ASSUME TypeOK, NEW c \in Calls, NEW place \in Places, NEW S \in SUBSET Accounts,
           Read(c, S, place)
    PROVE  /\ Others(c) /\ call' \in [Calls -> Session]
           /\ call'[c].at = place /\ call'[c].open = S
           /\ call'[c].seen = row /\ call'[c].left = call[c].left
BY DEF Read, Others, TypeOK, Session

LEMMA CreditFacts ==
    ASSUME TypeOK, NEW c \in Calls, Credit(c)
    PROVE  /\ Others(c) /\ call' \in [Calls -> Session]
           /\ call'[c].at = "debit" /\ call'[c].open = call[c].open
           /\ call'[c].seen = call[c].seen /\ call'[c].left = call[c].left
BY DEF Credit, Others, TypeOK, Session, Places

LEMMA CompleteFacts ==
    ASSUME TypeOK, NEW c \in Calls, Complete(c)
    PROVE  /\ Others(c) /\ call' \in [Calls -> Session]
           /\ call'[c].at = IF Products = << >> THEN "failed" ELSE "charge"
           /\ call'[c].open = call[c].open
           /\ call'[c].seen = call[c].seen /\ call'[c].left = Products
<1>1. call \in [Calls -> Session] /\ Products \in Seq(Accounts)
  BY ProductsAssumption DEF TypeOK
<1> QED
  BY <1>1 DEF Complete, Others, Session, Places, Ended

LEMMA ChargeFacts ==
    ASSUME TypeOK, NEW c \in Calls, Left(c) # << >>, ChargeProduct(c)
    PROVE  /\ Others(c) /\ call' \in [Calls -> Session]
           /\ call'[c].at = IF Len(Left(c)) = 1 THEN "invoice" ELSE "charge"
           /\ call'[c].open = {}
           /\ call'[c].seen = call[c].seen /\ call'[c].left = Tail(Left(c))
<1>1. call \in [Calls -> Session]
  BY DEF TypeOK
<1>2. /\ Left(c) \in Seq(Accounts)
      /\ call' = [call EXCEPT ![c] = NextProduct(c)]
  BY <1>1 DEF ChargeProduct, Left, Session
<1>3. Tail(Left(c)) \in Seq(Accounts)
  BY <1>2
<1>4. /\ NextProduct(c).at = IF Len(Left(c)) = 1 THEN "invoice" ELSE "charge"
      /\ NextProduct(c).open = {} /\ NextProduct(c).seen = call[c].seen
      /\ NextProduct(c).left = Tail(Left(c))
  BY <1>1 DEF NextProduct, Left, Session
<1>5. NextProduct(c) \in Session
  BY <1>1, <1>3 DEF NextProduct, Left, Session, Places
<1> QED
  BY <1>1, <1>2, <1>4, <1>5 DEF Others

LEMMA ThrowFacts ==
    ASSUME TypeOK, NEW c \in Calls, Throws(c)
    PROVE  /\ Others(c) /\ call' \in [Calls -> Session]
           /\ call'[c].at \in {"failed", "dead"} \/ (kind[c] = "notify" /\ call'[c].at = "invoice")
           /\ call'[c].open = {}
<1>1. CASE Go(c, "failed") \/ Go(c, "dead")
  BY <1>1, GoFacts DEF Places, Ended
<1>2. CASE /\ kind[c] = "notify"
           /\ call' = [call EXCEPT ![c].at = "invoice", ![c].open = {}, ![c].left = << >>]
  <2>1. call \in [Calls -> Session] /\ << >> \in Seq(Accounts)
    BY DEF TypeOK
  <2> QED
    BY <1>2, <2>1 DEF Others, Session, Places
<1> QED
  BY <1>1, <1>2 DEF Throws, SubmitThrows, CreditThrows, FormThrows, ExchangeThrows,
       NotifyThrows, Notifying,
                    Crash

LEMMA CallFacts ==
    ASSUME NEW c \in Calls
    PROVE  /\ of[c] \in Accounts /\ to[c] \in Accounts /\ of[c] # to[c] /\ amount[c] \in Int
           /\ kind[c] \in {"submit", "credit", "exchange", "notify", "form"}
           /\ kind[c] \in {"submit", "notify"} => amount[c] >= 0
           /\ setting[c] \in {"prepay", "postpay"}
BY CallsAssumption

LEMMA Effects ==
    ASSUME NEW c \in Calls, NEW a \in Accounts
    PROVE  /\ Effect(c, a) \in Int /\ Unchecked(c, a) \in Nat
           /\ kind[c] = "form" => Effect(c, a) = 0
           /\ kind[c] = "submit" => Effect(c, a) = -amount[c]
           /\ kind[c] = "exchange" /\ a = of[c] => Effect(c, a) = -amount[c]
           /\ kind[c] = "exchange" /\ a = to[c] => Effect(c, a) + Unchecked(c, a) >= 0
           /\ kind[c] \in {"credit", "notify"} => Effect(c, a) + Unchecked(c, a) >= 0
<1>1. CASE kind[c] = "form"
  BY <1>1, CallFacts DEF Effect, Unchecked
<1>2. CASE kind[c] = "submit"
  BY <1>2, CallFacts DEF Effect, Unchecked
<1>3. CASE kind[c] = "exchange"
  BY <1>3, CallFacts DEF Effect, Unchecked
<1>4. CASE kind[c] = "credit" \/ kind[c] = "notify"
  BY <1>4, CallFacts DEF Effect, Unchecked
<1> QED
  BY <1>1, <1>2, <1>3, <1>4, CallFacts

\* What was let out unasked only grows.
LEMMA UnaskedGrows ==
    ASSUME TypeOK, NEW c \in Calls, Step(c) \/ Throws(c)
    PROVE  /\ unasked' \in [Accounts -> Nat]
           /\ \A a \in Accounts : unasked'[a] >= unasked[a]
<1>0. unasked \in [Accounts -> Nat]
  BY DEF TypeOK
<1>1. CASE UNCHANGED unasked
  BY <1>0, <1>1
<1>2. CASE Check(c)
  <2>1. amount[c] \in Nat /\ of[c] \in Accounts
    BY <1>2, CallFacts DEF Check, Kind
  <2>2. unasked' = unasked \/ unasked' = [unasked EXCEPT ![of[c]] = @ + amount[c]]
    BY <1>2 DEF Check
  <2> QED
    BY <1>0, <2>1, <2>2
<1>3. ASSUME NEW S, Write(c, S) PROVE
          unasked' \in [Accounts -> Nat] /\ \A a \in Accounts : unasked'[a] >= unasked[a]
  <2>1. \A a \in Accounts : unasked'[a] = IF a \in S THEN unasked[a] + Unchecked(c, a) ELSE unasked[a]
    BY <1>3 DEF Write
  <2>2. unasked' = [a \in Accounts |-> IF a \in S THEN unasked[a] + Unchecked(c, a) ELSE unasked[a]]
    BY <1>3 DEF Write
  <2>3. \A a \in Accounts : Unchecked(c, a) \in Nat
    BY Effects
  <2> QED
    BY <1>0, <2>1, <2>2, <2>3
<1>4. CASE WriteDeduct(c) \/ WriteCredit(c) \/ SaveForm(c) \/ Debit(c) \/ ChargeProduct(c)
  BY <1>3, <1>4 DEF WriteDeduct, WriteCredit, SaveForm, Debit, ChargeProduct
<1>5. CASE ReadDeduct(c) \/ Publish(c) \/ ReadCredit(c) \/ OpenForm(c) \/ Validate(c) \/ Credit(c)
           \/ Record(c) \/ Select(c) \/ Complete(c) \/ Invoice(c)
  BY <1>1, <1>5 DEF ReadDeduct, Publish, ReadCredit, OpenForm, Validate, Credit, Record, Select,
                    Complete, Invoice
<1>6. CASE Throws(c)
  BY <1>1, <1>6 DEF Throws, SubmitThrows, CreditThrows, FormThrows, ExchangeThrows, NotifyThrows,
                    Crash
<1> QED
  BY <1>2, <1>4, <1>5, <1>6 DEF Step

LEMMA WritesShape ==
    ASSUME TypeOK, PlacesOK, LeftOK, NEW c \in Calls, Writing(c)
    PROVE  Writes(c)
<1>1. CASE WriteDeduct(c)
  <2>1. InHand(c) = {of[c]} /\ Go(c, "publish")
    BY <1>1 DEF WriteDeduct, PlacesOK, PlaceOK, Ended, InHand, At
  <2> QED
    BY <1>1, <2>1, GoFacts DEF WriteDeduct, Writes, Others, Places
<1>2. CASE WriteCredit(c)
  <2>1. InHand(c) = {of[c]} /\ Go(c, "accepted")
    BY <1>2 DEF WriteCredit, PlacesOK, PlaceOK, Ended, InHand, At
  <2> QED
    BY <1>2, <2>1, GoFacts DEF WriteCredit, Writes, Others, Places, Ended
<1>5. CASE SaveForm(c)
  <2>1. InHand(c) = {of[c]} /\ Go(c, "record")
    BY <1>5 DEF SaveForm, PlacesOK, PlaceOK, Ended, InHand, At
  <2> QED
    BY <1>5, <2>1, GoFacts DEF SaveForm, Writes, Others, Places
<1>3. CASE Debit(c)
  <2>1. InHand(c) = {of[c], to[c]} /\ Go(c, "record")
    BY <1>3 DEF Debit, PlacesOK, PlaceOK, Ended, InHand, At
  <2> QED
    BY <1>3, <2>1, GoFacts DEF Debit, Writes, Others, Places
<1>4. CASE ChargeProduct(c)
  <2>1. InHand(c) = {Target(c)} /\ Left(c) # << >>
    BY <1>4 DEF ChargeProduct, PlacesOK, PlaceOK, Ended, InHand, LeftOK, At, Target
  <2> QED
    BY <1>4, <2>1, ChargeFacts DEF ChargeProduct, Writes, Others
<1> QED
  BY <1>1, <1>2, <1>3, <1>4, <1>5 DEF Writing

LEMMA TargetType ==
    ASSUME TypeOK, LeftOK, NEW c \in Calls, call[c].at \in {"charge",
    "give"} \/ kind[c] # "notify"
    PROVE  Target(c) \in Accounts
<1>1. CASE kind[c] # "notify"
  BY <1>1, CallsAssumption DEF Target
<1>2. CASE kind[c] = "notify"
  BY <1>2 DEF Target, LeftOK, Left, TypeOK, Session
<1> QED
  BY <1>1, <1>2

LEMMA QuietShape ==
    ASSUME TypeOK, LeftOK, NEW c \in Calls, Step(c) \/ Throws(c), ~Writing(c)
    PROVE  Quiet(c)
<1> DEFINE Sees == \/ call'[c].open = {}
                   \/ call'[c].open = call[c].open /\ call'[c].seen = call[c].seen
                   \/ call'[c].seen = row
<1>u. \A a \in Accounts : unasked'[a] >= unasked[a]
  BY UnaskedGrows
<1> SUFFICES UNCHANGED rows /\ Others(c) /\ Sees
  BY <1>u DEF Quiet, Others
<1> USE DEF Places, Ended
<1>1. CASE Check(c)
  BY <1>1, GoFacts, ReadFacts, CallFacts DEF Check
<1>2. CASE ReadDeduct(c) \/ OpenForm(c)
  BY <1>2, ReadFacts, CallFacts DEF ReadDeduct, OpenForm
<1>3. CASE ReadCredit(c)
  BY <1>3, ReadFacts, TargetType DEF ReadCredit, Kind, At
<1>4. CASE Validate(c)
  BY <1>4, GoFacts, ReadFacts, CallFacts DEF Validate
<1>5. CASE Publish(c) \/ Record(c) \/ Select(c) \/ Invoice(c)
  BY <1>5, GoFacts DEF Publish, Record, Select, Invoice
<1>6. CASE Credit(c)
  BY <1>6, CreditFacts DEF Credit
<1>7. CASE Complete(c)
  BY <1>7, CompleteFacts DEF Complete
<1>8. CASE Throws(c)
  <2>1. UNCHANGED rows
    BY <1>8 DEF Throws, SubmitThrows, CreditThrows, FormThrows, ExchangeThrows, NotifyThrows,
         Crash
  <2> QED
    BY <1>8, <2>1, ThrowFacts
<1> QED
  BY <1>1, <1>2, <1>3, <1>4, <1>5, <1>6, <1>7, <1>8 DEF Step, Writing

LEMMA WarnsShape ==
    ASSUME TypeOK, Monitor
    PROVE  Warns
<1>1. CASE CheckBalances
  BY <1>1 DEF CheckBalances, Warns, rows
<1>2. ASSUME NEW a \in Accounts, SendWarning(a) PROVE Warns
  BY <1>2 DEF SendWarning, Warns
<1>3. ASSUME NEW a \in Accounts, MarkWarned(a) PROVE Warns
  <2>1. row' = row \/ row' = [row EXCEPT ![a].status = "warning"]
    BY <1>3 DEF MarkWarned
  <2>2. row \in [Accounts -> Rows]
    BY DEF TypeOK
  <2>3. \A b \in Accounts : row'[b].balance = row[b].balance
    BY <2>1, <2>2 DEF Rows
  <2> QED
    BY <1>3, <2>3 DEF MarkWarned, Warns
<1> QED
  BY <1>1, <1>2, <1>3 DEF Monitor

\* Every step is of one of the three shapes.
LEMMA Shapes ==
    ASSUME TypeOK, PlacesOK, LeftOK, Next
    PROVE  Warns \/ \E c \in Calls : Quiet(c) \/ Writes(c)
<1>1. CASE Monitor
  BY <1>1, WarnsShape
<1>2. ASSUME NEW c \in Calls, Step(c) \/ Throws(c) PROVE Quiet(c) \/ Writes(c)
  BY <1>2, QuietShape, WritesShape
<1> QED
  BY <1>1, <1>2 DEF Next

-----------------------------------------------------------------------------
(* Types and places                                                        *)

LEMMA HandUnbooked ==
    ASSUME TypeOK, PlacesOK, LeftOK, BookedOK, ExchangeWhole, NEW c \in Calls, Writing(c)
    PROVE  InHand(c) \subseteq Accounts /\ \A a \in InHand(c) : booked[<<c, a>>] = 0
<1>1. CASE kind[c] # "notify"
  <2>1. call[c].at \in {"take", "give", "edit", "debit"} /\ NoneBooked(c)
    BY <1>1 DEF Writing, WriteDeduct, WriteCredit, SaveForm, Debit, ChargeProduct, At, BookedOK,
         BookedFor,
                PlacesOK, PlaceOK, Ended
  <2>2. InHand(c) \subseteq Accounts
    BY DEF TypeOK, Session, InHand
  <2> QED
    BY <2>1, <2>2 DEF NoneBooked
<1>2. CASE kind[c] = "notify"
  <2>1. At(c, "give") /\ InHand(c) = {Head(Left(c))}
    BY <1>2, CallsAssumption
       DEF Writing, WriteDeduct, WriteCredit, SaveForm, Debit, ChargeProduct, At, PlacesOK,
            PlaceOK,
           Ended, InHand, Left
  <2>2. Left(c) \in Seq(Accounts) /\ Left(c) # << >>
    BY <1>2, <2>1 DEF TypeOK, Session, Left, LeftOK, At
  <2>3. 1 \in 1 .. Len(Left(c)) /\ Head(Left(c)) = Left(c)[1] /\ Head(Left(c)) \in Accounts
    BY <2>2
  <2> QED
    BY <1>2, <2>1, <2>3 DEF LeftOK, At
<1> QED
  BY <1>1, <1>2

LEMMA RowsType ==
    ASSUME TypeOK, NEW c \in Calls, Writes(c), \A a \in InHand(c) : booked[<<c, a>>] = 0
    PROVE  /\ row' \in [Accounts -> Rows] /\ due' \in [Accounts -> Int]
           /\ booked' \in [Calls \X Accounts -> {0, 1}]
           /\ told' \subseteq Accounts /\ overlapped' \subseteq Accounts
           /\ blurred' \subseteq Accounts
<1>1. \A a \in Accounts : Effect(c, a) \in Int
  BY Effects
<1>2. \A a \in Accounts : call[c].seen[a] \in Rows /\ row[a] \in Rows
  BY DEF TypeOK, Session
<1>3. \A a \in Accounts : NewBalance(c, a) \in Int
  BY <1>1, <1>2 DEF NewBalance, Rows
<1>4. \A a \in Accounts : NewStatus(c, a) \in {"avaiable", "warning"}
  BY <1>2 DEF NewStatus, Rows
<1>5. \A a \in Accounts : NewPayType(c, a) \in {"prepay", "postpay"}
  BY <1>2, CallFacts DEF NewPayType, Rows
<1>6. \A a \in Accounts : [balance |-> NewBalance(c, a), status |-> NewStatus(c, a),
                            payType |-> NewPayType(c, a)] \in Rows
  BY <1>3, <1>4, <1>5 DEF Rows
<1>7. row' \in [Accounts -> Rows]
  BY <1>2, <1>6 DEF Writes, Write
<1>8. due' \in [Accounts -> Int]
  BY <1>1 DEF Writes, Write, TypeOK
<1>9. booked' \in [Calls \X Accounts -> {0, 1}]
  BY DEF Writes, Write, TypeOK
<1>10. /\ told' \subseteq Accounts /\ overlapped' \subseteq Accounts
       /\ blurred' \subseteq Accounts
  BY DEF Writes, Write, TypeOK, Session, InHand, Checking
<1> QED
  BY <1>7, <1>8, <1>9, <1>10

LEMMA CallType ==
    ASSUME TypeOK, LeftOK, NEW c \in Calls, Step(c) \/ Throws(c)
    PROVE  call' \in [Calls -> Session]
<1> USE DEF Places, Ended
<1>1. CASE Check(c)
  BY <1>1, GoFacts, ReadFacts, CallFacts DEF Check
<1>2. CASE WriteDeduct(c) \/ WriteCredit(c) \/ SaveForm(c) \/ Debit(c)
  BY <1>2, GoFacts DEF WriteDeduct, WriteCredit, SaveForm, Debit
<1>8. CASE ReadDeduct(c) \/ OpenForm(c)
  BY <1>8, ReadFacts, CallFacts DEF ReadDeduct, OpenForm
<1>3. CASE ReadCredit(c)
  BY <1>3, ReadFacts, TargetType DEF ReadCredit, Kind, At
<1>4. CASE Validate(c)
  BY <1>4, GoFacts, ReadFacts, CallFacts DEF Validate
<1>5. CASE Publish(c) \/ Record(c) \/ Select(c) \/ Invoice(c)
  BY <1>5, GoFacts DEF Publish, Record, Select, Invoice
<1>6. CASE Credit(c) \/ Complete(c) \/ Throws(c)
  BY <1>6, CreditFacts, CompleteFacts, ThrowFacts
<1>7. CASE ChargeProduct(c)
  <2>1. Left(c) # << >>
    BY <1>7 DEF ChargeProduct, LeftOK, At
  <2> QED
    BY <1>7, <2>1, ChargeFacts
<1> QED
  BY <1>1, <1>2, <1>3, <1>4, <1>5, <1>6, <1>7, <1>8 DEF Step

LEMMA RestType ==
    ASSUME TypeOK, NEW c \in Calls, Step(c) \/ Throws(c)
    PROVE  /\ offered' = offered /\ monitor' = monitor
           /\ order' \in {"paying", "completed"} /\ published' \subseteq Calls
           /\ faults' \in 0 .. MaxFaults /\ faults <= faults'
<1> USE FaultsAssumption DEF TypeOK
<1>1. CASE Check(c) \/ ReadDeduct(c) \/ WriteDeduct(c) \/ Publish(c)
  BY <1>1 DEF Check, ReadDeduct, WriteDeduct, Publish
<1>2. CASE \/ ReadCredit(c) \/ WriteCredit(c) \/ OpenForm(c) \/ SaveForm(c)
           \/ Validate(c) \/ Credit(c) \/ Debit(c)
  BY <1>2 DEF ReadCredit, WriteCredit, OpenForm, SaveForm, Validate, Credit, Debit
<1>3. CASE Record(c) \/ Select(c) \/ Complete(c) \/ ChargeProduct(c) \/ Invoice(c)
  BY <1>3 DEF Record, Select, Complete, ChargeProduct, Invoice
<1>4. CASE Throws(c)
  BY <1>4 DEF Throws, SubmitThrows, CreditThrows, FormThrows, ExchangeThrows, NotifyThrows,
       Crash, Fault
<1> QED
  BY <1>1, <1>2, <1>3, <1>4 DEF Step

LEMMA MonitorType ==
    ASSUME TypeOK, Monitor
    PROVE  TypeOK'
<1>1. CASE CheckBalances
  BY <1>1 DEF CheckBalances, TypeOK, rows
<1>2. ASSUME NEW a \in Accounts, SendWarning(a) PROVE TypeOK'
  BY <1>2, FaultsAssumption DEF SendWarning, TypeOK, Fault
<1>3. ASSUME NEW a \in Accounts, MarkWarned(a) PROVE TypeOK'
  <2>1. row \in [Accounts -> Rows] /\ row' \in {row, [row EXCEPT ![a].status = "warning"]}
    BY <1>3 DEF MarkWarned, TypeOK
  <2>2. row' \in [Accounts -> Rows]
    BY <2>1 DEF Rows
  <2>3. faults' \in 0 .. MaxFaults
    BY <1>3, FaultsAssumption DEF MarkWarned, TypeOK, Fault
  <2>4. monitor' \in [todo : SUBSET Accounts, marks : SUBSET Accounts]
    BY <1>3 DEF MarkWarned, TypeOK
  <2> QED
    BY <1>3, <2>2, <2>3, <2>4 DEF MarkWarned, TypeOK
<1> QED
  BY <1>1, <1>2, <1>3 DEF Monitor

LEMMA TypeStep ==
    ASSUME TypeOK, PlacesOK, LeftOK, BookedOK, ExchangeWhole, [Next]_vars
    PROVE  TypeOK'
<1>1. CASE UNCHANGED vars
  BY <1>1 DEF vars, TypeOK
<1>2. CASE Monitor
  BY <1>2, MonitorType
<1>3. ASSUME NEW c \in Calls, Step(c) \/ Throws(c) PROVE TypeOK'
  <2>1. CASE Writing(c)
    BY <1>3, <2>1, HandUnbooked, WritesShape, RowsType, CallType, RestType,
    UnaskedGrows DEF TypeOK
  <2>2. CASE ~Writing(c)
    <3>1. UNCHANGED rows
      BY <1>3, <2>2, QuietShape DEF Quiet
    <3> QED
      BY <1>3, <3>1, CallType, RestType, UnaskedGrows DEF TypeOK, rows
  <2> QED
    BY <2>1, <2>2
<1> QED
  BY <1>1, <1>2, <1>3 DEF Next

LEMMA OneAccount ==
    ASSUME TypeOK, NEW c \in Calls, Step(c) \/ Throws(c)
    PROVE  Others(c)
BY DEF TypeOK, Step, Throws, Others, Check, ReadDeduct, WriteDeduct, Publish, ReadCredit,
       WriteCredit, OpenForm, SaveForm, Validate, Credit, Debit, Record, Select, Complete,
       ChargeProduct,
       Invoice, SubmitThrows, CreditThrows, FormThrows, ExchangeThrows, NotifyThrows, Crash, Go,
       Read

LEMMA PlacesStep ==
    ASSUME TypeOK, PlacesOK, LeftOK, NEW c \in Calls, Step(c) \/ Throws(c)
    PROVE  PlacesOK'
<1> USE DEF Places, Ended, At, PlaceOK
<1> SUFFICES PlaceOK(c, call'[c])
  BY OneAccount DEF PlacesOK, Others
<1>0. PlaceOK(c, call[c])
  BY DEF PlacesOK
<1>1. CASE Check(c)
  BY <1>1, GoFacts, ReadFacts, CallsAssumption DEF Check, Kind
<1>2. CASE ReadDeduct(c)
  BY <1>0, <1>2, ReadFacts, CallsAssumption DEF ReadDeduct
<1>12. CASE OpenForm(c)
  BY <1>12, ReadFacts, CallFacts DEF OpenForm, Kind
<1>13. CASE SaveForm(c)
  BY <1>0, <1>13, GoFacts DEF SaveForm
<1>3. CASE WriteDeduct(c) \/ Publish(c)
  BY <1>0, <1>3, GoFacts DEF WriteDeduct, Publish
<1>4. CASE ReadCredit(c)
  <2>1. kind[c] \in {"credit", "notify"} /\ Read(c, {Target(c)}, "give") /\ Target(c) \in Accounts
    BY <1>4, TargetType DEF ReadCredit, Kind
  <2>2. call'[c].at = "give" /\ call'[c].open = {Target(c)} /\ call'[c].left = call[c].left
    BY <2>1, ReadFacts
  <2> QED
    BY <2>1, <2>2 DEF Target
<1>5. CASE WriteCredit(c) \/ Debit(c)
  BY <1>5, GoFacts DEF WriteCredit, Debit
<1>6. CASE Validate(c)
  <2>1. kind[c] = "exchange" /\ {of[c], to[c]} \subseteq Accounts
    BY <1>6, CallsAssumption DEF Validate, Kind
  <2> QED
    BY <1>6, <2>1, GoFacts, ReadFacts DEF Validate
<1>7. CASE Credit(c)
  BY <1>0, <1>7, CreditFacts DEF Credit
<1>8. CASE Record(c) \/ Select(c) \/ Invoice(c)
  BY <1>0, <1>8, GoFacts DEF Record, Select, Invoice, Kind
<1>9. CASE Complete(c)
  BY <1>0, <1>9, CompleteFacts DEF Complete
<1>10. CASE ChargeProduct(c)
  <2>1. Left(c) # << >>
    BY <1>10 DEF ChargeProduct, LeftOK
  <2> QED
    BY <1>10, <2>1, ChargeFacts DEF ChargeProduct
<1>11. CASE Throws(c)
  BY <1>11, ThrowFacts
<1> QED
  BY <1>1, <1>2, <1>3, <1>4, <1>5, <1>6, <1>7, <1>8, <1>9, <1>10, <1>11, <1>12, <1>13
     DEF Step

\* What a step does to the counts of bookings.
LEMMA BookedBy ==
    ASSUME TypeOK, PlacesOK, LeftOK, NEW c \in Calls, Step(c) \/ Throws(c)
    PROVE  \A d \in Calls, a \in Accounts :
               booked'[<<d, a>>] = IF Writing(c) /\ d = c /\ a \in InHand(c)
                                   THEN booked[<<d, a>>] + 1 ELSE booked[<<d, a>>]
<1>1. CASE Writing(c)
  BY <1>1, WritesShape DEF Writes, Write, TypeOK
<1>2. CASE ~Writing(c)
  BY <1>2, QuietShape DEF Quiet, rows
<1> QED
  BY <1>1, <1>2

LEMMA BookedQuiet ==
    ASSUME TypeOK, PlacesOK, LeftOK, BookedOK, NEW c \in Calls, Step(c) \/ Throws(c), ~Writing(c)
    PROVE  BookedFor(c)'
<1> USE DEF Places, Ended, At, BookedFor
<1>0. PlaceOK(c, call[c]) /\ BookedFor(c)
  BY DEF PlacesOK, BookedOK
<1>b. NoneBooked(c)' <=> NoneBooked(c)
  BY BookedBy DEF NoneBooked
<1>o. booked'[<<c, of[c]>>] = booked[<<c, of[c]>>]
  BY BookedBy, CallsAssumption
<1> USE <1>0, <1>b, <1>o
<1>1. CASE Check(c)
  BY <1>1, GoFacts, ReadFacts, CallsAssumption DEF Check, Kind
<1>2. CASE ReadDeduct(c) \/ OpenForm(c)
  BY <1>2, ReadFacts, CallFacts DEF ReadDeduct, OpenForm
<1>3. CASE Publish(c) \/ Record(c)
  BY <1>3, GoFacts DEF Publish, Record, PlaceOK
<1>4. CASE ReadCredit(c)
  BY <1>4, TargetType, ReadFacts DEF ReadCredit, Kind
<1>5. CASE Validate(c)
  <2>1. {of[c], to[c]} \subseteq Accounts
    BY CallsAssumption
  <2> QED
    BY <1>5, <2>1, GoFacts, ReadFacts DEF Validate, Kind
<1>6. CASE Credit(c)
  BY <1>6, CreditFacts DEF Credit
<1>7. CASE Select(c) \/ Invoice(c)
  BY <1>7, GoFacts DEF Select, Invoice, PlaceOK, Kind
<1>8. CASE Complete(c)
  BY <1>8, CompleteFacts DEF Complete, PlaceOK
<1>9. CASE Throws(c)
  <2>1. faults' > 0
    BY <1>9, FaultsAssumption DEF TypeOK, Throws, SubmitThrows, CreditThrows, FormThrows,
         ExchangeThrows,
                                  NotifyThrows, Crash, Fault
  <2> QED
    BY <1>9, <2>1, ThrowFacts
<1> QED
  BY <1>1, <1>2, <1>3, <1>4, <1>5, <1>6, <1>7, <1>8, <1>9 DEF Step, Writing

LEMMA BookedWriting ==
    ASSUME TypeOK, PlacesOK, LeftOK, BookedOK, ExchangeWhole, NEW c \in Calls,
           Step(c) \/ Throws(c), Writing(c)
    PROVE  /\ BookedFor(c)'
           /\ kind[c] = "exchange" => (booked[<<c, of[c]>>] = booked[<<c, to[c]>>])'
<1> USE DEF Places, Ended, At
<1>0. PlaceOK(c, call[c])
  BY DEF PlacesOK
<1>k. of[c] \in Accounts /\ to[c] \in Accounts
  BY CallsAssumption
<1>1. CASE kind[c] = "notify"
  <2>1. ChargeProduct(c) /\ Left(c) # << >>
    BY <1>1 DEF Writing, ChargeProduct, WriteDeduct, WriteCredit, SaveForm, Debit, LeftOK,
         PlacesOK, PlaceOK
  <2> QED
    BY <1>1, <2>1, ChargeFacts DEF BookedFor
<1>2. CASE kind[c] # "notify"
  <2>1. call'[c].at \in {"publish", "accepted", "record"}
    BY <1>2, GoFacts DEF Writing, ChargeProduct, WriteDeduct, WriteCredit, SaveForm, Debit
  <2>2. of[c] \in InHand(c) /\ (kind[c] = "exchange" => to[c] \in InHand(c))
    BY <1>0, <1>2 DEF Writing, ChargeProduct, WriteDeduct, WriteCredit, SaveForm, Debit, InHand,
         PlaceOK
  <2>3. booked'[<<c, of[c]>>] = 1 /\ (kind[c] = "exchange" => booked'[<<c, to[c]>>] = 1)
    BY <1>k, <2>2, BookedBy, HandUnbooked
  <2> QED
    BY <2>1, <2>3 DEF BookedFor
<1> QED
  BY <1>1, <1>2

LEMMA BookedStep ==
    ASSUME TypeOK, PlacesOK, LeftOK, BookedOK, ExchangeWhole,
           NEW c \in Calls, Step(c) \/ Throws(c)
    PROVE  BookedOK' /\ ExchangeWhole'
<1>1. faults \in Nat /\ faults' \in Nat /\ faults <= faults'
  BY RestType, FaultsAssumption DEF TypeOK
<1>2. \A d \in Calls \ {c} : BookedFor(d) => BookedFor(d)'
  BY <1>1, BookedBy, OneAccount, CallsAssumption DEF Others, BookedFor, At, NoneBooked
<1>3. \A d \in Calls \ {c} : kind[d] = "exchange" =>
          booked'[<<d, of[d]>>] = booked'[<<d, to[d]>>]
  BY BookedBy, CallsAssumption DEF ExchangeWhole
<1>4. CASE Writing(c)
  BY <1>2, <1>3, <1>4, BookedWriting DEF BookedOK, ExchangeWhole
<1>5. CASE ~Writing(c)
  <2>1. booked'[<<c, of[c]>>] = booked[<<c, of[c]>>] /\ booked'[<<c, to[c]>>] = booked[<<c, to[c]>>]
    BY <1>5, BookedBy, CallsAssumption
  <2> QED
    BY <1>2, <1>3, <1>5, <2>1, BookedQuiet DEF BookedOK, ExchangeWhole
<1> QED
  BY <1>4, <1>5

LEMMA TailFacts ==
    ASSUME NEW s \in Seq(Accounts), s # << >>, Len(s) # 1,
           \A i, j \in 1 .. Len(s) : s[i] = s[j] => i = j
    PROVE  /\ Tail(s) # << >>
           /\ \A i \in 1 .. Len(Tail(s)) :
                  /\ Tail(s)[i] = s[i + 1] /\ i + 1 \in 1 .. Len(s)
                  /\ s[i + 1] \in Accounts /\ s[i + 1] # Head(s)
           /\ \A i, j \in 1 .. Len(Tail(s)) : Tail(s)[i] = Tail(s)[j] => i = j
<1>1. Len(s) \in Nat /\ Len(s) # 0
  OBVIOUS
<1>2. Len(s) >= 2
  <2>1. \A n \in Nat : n # 0 /\ n # 1 => n >= 2
    OBVIOUS
  <2> QED
    BY <1>1, <2>1, Zenon
<1>3. Tail(s) \in Seq(Accounts) /\ Len(Tail(s)) = Len(s) - 1
  OBVIOUS
<1>4. Head(s) = s[1]
  OBVIOUS
<1>5. \A i \in 1 .. Len(Tail(s)) : Tail(s)[i] = s[i + 1]
  OBVIOUS
<1>6. Tail(s) # << >>
  <2>1. Len(Tail(s)) # 0
    BY <1>1, <1>2, <1>3
  <2>2. Len(<< >>) = 0
    OBVIOUS
  <2> QED
    BY <2>1, <2>2, Zenon
<1>7. \A i \in 1 .. Len(Tail(s)) : i + 1 \in 1 .. Len(s) /\ s[i + 1] \in Accounts /\ s[i + 1] # s[1]
  <2> TAKE i \in 1 .. Len(Tail(s))
  <2>1. i + 1 \in 1 .. Len(s) /\ 1 \in 1 .. Len(s) /\ i + 1 # 1
    BY <1>1, <1>3
  <2> QED
    BY <2>1
<1>8. \A i, j \in 1 .. Len(Tail(s)) : s[i + 1] = s[j + 1] => i = j
  <2> TAKE i, j \in 1 .. Len(Tail(s))
  <2>1. i + 1 \in 1 .. Len(s) /\ j + 1 \in 1 .. Len(s)
    BY <1>1, <1>3
  <2> QED
    BY <2>1
<1> QED
  BY <1>4, <1>5, <1>6, <1>7, <1>8

LEMMA LeftStep ==
    ASSUME TypeOK, PlacesOK, LeftOK, BookedOK, ExchangeWhole, OrderOK,
           NEW c \in Calls, Step(c) \/ Throws(c)
    PROVE  LeftOK'
<1> DEFINE Ok(d) == /\ Left(d) # << >>
                    /\ \A i, j \in 1 .. Len(Left(d)) : Left(d)[i] = Left(d)[j] => i = j
                    /\ \A i \in 1 .. Len(Left(d)) : booked[<<d, Left(d)[i]>>] = 0
<1>s. \A d \in Calls : Left(d) \in Seq(Accounts)
  BY DEF TypeOK, Session, Left
<1>1. \A d \in Calls \ {c} : kind[d] = "notify" /\ call'[d].at \in {"charge", "give"} => Ok(d)'
  <2> SUFFICES ASSUME NEW d \in Calls \ {c}, kind[d] = "notify", call'[d].at \in {"charge", "give"}
               PROVE  Ok(d)'
    OBVIOUS
  <2>1. call'[d].at = call[d].at /\ Left(d)' = Left(d)
    BY OneAccount DEF Others, Left
  <2>2. \A i \in 1 .. Len(Left(d)) :
            Left(d)[i] \in Accounts /\ booked'[<<d, Left(d)[i]>>] = booked[<<d, Left(d)[i]>>]
    BY <1>s, BookedBy
  <2>3. Ok(d)
    BY <2>1 DEF LeftOK
  <2> QED
    BY <2>1, <2>2, <2>3
<1>2. ASSUME kind[c] = "notify", call'[c].at \in {"charge", "give"} PROVE Ok(c)'
  <2> USE DEF Places, Ended, At
  <2>0. PlaceOK(c, call[c])
    BY DEF PlacesOK
  <2>1. CASE ReadCredit(c)
    <3>1. call'[c].left = call[c].left /\ At(c, "charge") /\ ~Writing(c)
      BY <1>2, <2>1, TargetType, ReadFacts
         DEF ReadCredit, Kind, Writing, ChargeProduct, WriteDeduct, WriteCredit, SaveForm, Debit
    <3>2. \A i \in 1 .. Len(Left(c)) :
              Left(c)[i] \in Accounts /\ booked'[<<c, Left(c)[i]>>] = booked[<<c, Left(c)[i]>>]
      BY <1>s, <3>1, BookedBy
    <3> QED
      BY <1>2, <3>1, <3>2 DEF LeftOK, Left
  <2>2. CASE Complete(c)
    <3>1. Left(c)' = Products /\ Products # << >> /\ Products \in Seq(Accounts)
      BY <1>2, <2>2, CompleteFacts, ProductsAssumption DEF Left
    <3>2. NoneBooked(c) /\ ~Writing(c)
      BY <2>2 DEF Complete, BookedOK, BookedFor, Writing, ChargeProduct, WriteDeduct,
                  WriteCredit, SaveForm, Debit
    <3>3. \A i \in 1 .. Len(Products) : Products[i] \in Accounts /\ booked'[<<c, Products[i]>>] = 0
      BY <3>1, <3>2, BookedBy DEF NoneBooked
    <3> QED
      BY <3>1, <3>3, ProductsAssumption
  <2>3. CASE ChargeProduct(c)
    <3>1. Left(c) # << >> /\ Ok(c)
      BY <1>2, <2>3 DEF ChargeProduct, LeftOK
    <3>2. /\ Left(c)' = Tail(Left(c)) /\ Len(Left(c)) # 1
          /\ call[c].open = {Head(Left(c))} /\ Writing(c)
      BY <1>2, <2>0, <2>3, <3>1, ChargeFacts DEF Left, ChargeProduct, PlaceOK, Writing
    <3>3. \A i \in 1 .. Len(Left(c)') : Left(c)'[i] \in Accounts /\ booked'[<<c, Left(c)'[i]>>] = 0
      <4> SUFFICES ASSUME NEW i \in 1 .. Len(Tail(Left(c)))
                   PROVE  /\ Tail(Left(c))[i] \in Accounts
                          /\ booked'[<<c, Tail(Left(c))[i]>>] = 0
        BY <3>2
      <4>1. /\ Tail(Left(c))[i] = Left(c)[i + 1] /\ i + 1 \in 1 .. Len(Left(c))
            /\ Left(c)[i + 1] \in Accounts /\ Left(c)[i + 1] # Head(Left(c))
        BY <1>s, <3>1, <3>2, TailFacts
      <4>2. booked'[<<c, Left(c)[i + 1]>>] = booked[<<c, Left(c)[i + 1]>>]
        <5>1. Left(c)[i + 1] \notin InHand(c)
          BY <3>2, <4>1 DEF InHand
        <5> QED
          BY <3>2, <4>1, <5>1, BookedBy
      <4>3. booked[<<c, Left(c)[i + 1]>>] = 0
        BY <3>1, <4>1
      <4> QED
        BY <4>1, <4>2, <4>3
    <3>4. Left(c)' # << >> /\ \A i, j \in 1 .. Len(Left(c)') : Left(c)'[i] = Left(c)'[j] => i = j
      BY <1>s, <3>1, <3>2, TailFacts
    <3> QED
      BY <3>3, <3>4
  <2>4. CASE Throws(c)
    BY <1>2, <2>4, ThrowFacts
  <2>5. CASE Select(c) \/ Invoice(c) \/ Publish(c) \/ Record(c)
    BY <1>2, <2>5, GoFacts DEF Select, Invoice, Publish, Record
  <2> QED
    BY <1>2, <2>0, <2>1, <2>2, <2>3, <2>4, <2>5
       DEF Step, PlaceOK, Check, ReadDeduct, WriteDeduct, WriteCredit, OpenForm,
           SaveForm, Validate, Credit, Debit, Kind
<1> QED
  BY <1>1, <1>2 DEF LeftOK

-----------------------------------------------------------------------------
(* Balances                                                                *)

\* What a write does to a row that nobody else has in hand.
LEMMA WriteEffect ==
    ASSUME TypeOK, FreshOK, NEW c \in Calls, Writes(c), NEW a \in Accounts, a \notin overlapped'
    PROVE  /\ a \notin overlapped
           /\ a \in InHand(c) =>
                  /\ row'[a].balance = row[a].balance + Effect(c, a)
                  /\ due'[a] = due[a] + Effect(c, a)
                  /\ unasked'[a] = unasked[a] + Unchecked(c, a)
                  /\ \A d \in Calls \ {c} : a \notin InHand(d)
           /\ a \notin InHand(c) => row'[a] = row[a] /\ due'[a] = due[a] /\ unasked'[a] = unasked[a]
<1>1. a \notin overlapped /\ (a \in InHand(c) => \A d \in Calls \ {c} : a \notin InHand(d))
  BY DEF Writes, Write
<1>3. a \in InHand(c) => /\ row'[a].balance = NewBalance(c, a) /\ due'[a] = due[a] + Effect(c, a)
                         /\ unasked'[a] = unasked[a] + Unchecked(c, a)
  BY DEF Writes, Write
<1>4. a \in InHand(c) => NewBalance(c, a) = row[a].balance + Effect(c, a)
  BY <1>1 DEF NewBalance, FreshOK
<1>5. a \notin InHand(c) => row'[a] = row[a] /\ due'[a] = due[a] /\ unasked'[a] = unasked[a]
  BY DEF Writes, Write
<1> QED
  BY <1>1, <1>3, <1>4, <1>5

LEMMA FreshStep ==
    ASSUME TypeOK, PlacesOK, LeftOK, FreshOK, Next
    PROVE  FreshOK'
<1> USE DEF FreshOK, InHand
<1>0. \A d \in Calls : call[d].open \subseteq Accounts
  BY DEF TypeOK, Session
<1>1. CASE Warns
  BY <1>0, <1>1 DEF Warns
<1>2. ASSUME NEW c \in Calls, Quiet(c) PROVE FreshOK'
  BY <1>2 DEF Quiet, rows
<1>3. ASSUME NEW c \in Calls, Writes(c) PROVE FreshOK'
  <2> SUFFICES ASSUME NEW d \in Calls, NEW a \in call'[d].open, a \notin overlapped'
               PROVE  call'[d].seen[a].balance = row'[a].balance
    OBVIOUS
  <2>1. d # c /\ call'[d] = call[d] /\ a \in Accounts
    BY <1>0, <1>3 DEF Writes
  <2> QED
    BY <1>3, <2>1, WriteEffect
<1> QED
  BY <1>1, <1>2, <1>3, Shapes

LEMMA ExplainedStep ==
    ASSUME TypeOK, PlacesOK, LeftOK, FreshOK, BalanceExplained, Next
    PROVE  BalanceExplained'
<1> USE DEF BalanceExplained
<1>1. CASE Warns
  BY <1>1 DEF Warns
<1>2. ASSUME NEW c \in Calls, Quiet(c) PROVE BalanceExplained'
  BY <1>2 DEF Quiet, rows
<1>3. ASSUME NEW c \in Calls, Writes(c) PROVE BalanceExplained'
  BY <1>3, WriteEffect
<1> QED
  BY <1>1, <1>2, <1>3, Shapes

LEMMA CoveredQuiet ==
    ASSUME TypeOK, PlacesOK, LeftOK, OverdraftNeedsOverlap, NEW c \in Calls, CoveredFor(c),
           Step(c) \/ Throws(c), ~Writing(c)
    PROVE  CoveredFor(c)'
<1> USE DEF Places, Ended, At, CoveredFor
<1>0. UNCHANGED <<row, overlapped>>
  BY QuietShape DEF Quiet, rows
<1>k. {of[c], to[c]} \subseteq Accounts /\ amount[c] \in Int /\ row[of[c]].balance \in Int
      /\ unasked[of[c]] \in Nat /\ unasked'[of[c]] \in Nat /\ unasked'[of[c]] >= unasked[of[c]]
  BY CallFacts, UnaskedGrows DEF TypeOK, Rows
<1>1. CASE Check(c)
  <2>1. kind[c] = "submit" /\ call'[c].at \in {"deduct", "refused"}
    BY <1>k, <1>1, GoFacts, ReadFacts DEF Check, Kind
  <2>2. call'[c].at = "deduct" => \/ row[of[c]].payType = "postpay"
                                 \/ row[of[c]].balance >= amount[c]
    BY <1>k, <1>1, GoFacts DEF Check
  <2>3. CASE row[of[c]].balance >= amount[c]
    BY <1>0, <1>k, <2>1, <2>3
  <2>4. CASE row[of[c]].payType = "postpay"
    <3>1. unasked'[of[c]] = unasked[of[c]] + amount[c]
      <4>1. unasked' = [unasked EXCEPT ![of[c]] = @ + amount[c]]
        BY <1>1, <2>4 DEF Check
      <4> QED
        BY <1>k, <4>1 DEF TypeOK
    <3>2. of[c] \notin overlapped => row[of[c]].balance + unasked[of[c]] >= 0
      BY <1>k DEF OverdraftNeedsOverlap
    <3>3. of[c] \notin overlapped' => row'[of[c]].balance + unasked'[of[c]] >= amount[c]
      BY <1>0, <1>k, <3>1, <3>2
    <3> QED
      BY <2>1, <3>3
  <2> QED
    BY <2>1, <2>2, <2>3, <2>4
<1>2. CASE ReadDeduct(c)
  <2>1. kind[c] = "submit" /\ call'[c].at = "take"
    BY <1>k, <1>2, ReadFacts DEF ReadDeduct, PlacesOK, PlaceOK
  <2>2. of[c] \notin overlapped => row[of[c]].balance + unasked[of[c]] >= amount[c]
    BY <1>2, <2>1 DEF ReadDeduct
  <2>3. of[c] \notin overlapped' => row'[of[c]].balance + unasked'[of[c]] >= amount[c]
    BY <1>0, <1>k, <2>2
  <2> QED
    BY <2>1, <2>3
<1>8. CASE OpenForm(c)
  BY <1>k, <1>8, ReadFacts DEF OpenForm
<1>3. CASE Validate(c)
  BY <1>0, <1>k, <1>3, GoFacts, ReadFacts DEF Validate, Kind
<1>4. CASE Credit(c)
  BY <1>0, <1>4, CreditFacts DEF Credit
<1>5. CASE ReadCredit(c)
  BY <1>5, ReadFacts, TargetType DEF ReadCredit, Kind
<1>6. CASE Publish(c) \/ Record(c) \/ Select(c) \/ Invoice(c)
  BY <1>6, GoFacts DEF Publish, Record, Select, Invoice
<1>7. CASE Complete(c) \/ Throws(c)
  BY <1>7, CompleteFacts, ThrowFacts
<1> QED
  BY <1>1, <1>2, <1>3, <1>4, <1>5, <1>6, <1>7, <1>8 DEF Step, Writing

LEMMA CoveredStep ==
    ASSUME TypeOK, PlacesOK, LeftOK, FreshOK, CoveredOK, OverdraftNeedsOverlap, Next
    PROVE  CoveredOK'
<1>0. \A d \in Calls : CoveredFor(d)
  BY DEF CoveredOK
<1>k. \A d \in Calls : of[d] \in Accounts
  BY CallsAssumption
<1>1. CASE Monitor
  BY <1>0, <1>k, <1>1, WarnsShape DEF Warns, CoveredOK, CoveredFor
<1>2. ASSUME NEW c \in Calls, Step(c) \/ Throws(c), Writing(c), NEW d \in Calls
      PROVE  CoveredFor(d)'
  <2>1. Writes(c)
    BY <1>2, WritesShape
  <2>2. CASE d = c
    <3>1. PlaceOK(c, call'[c]) /\ call'[c].open = {}
      BY <1>2, <2>1, PlacesStep DEF PlacesOK, Writes
    <3> QED
      BY <2>2, <3>1 DEF PlaceOK, CoveredFor, Ended
  <2>3. CASE d # c
    <3>1. call'[d] = call[d] /\ PlaceOK(d, call[d])
      BY <2>1, <2>3 DEF Writes, PlacesOK
    <3>2. /\ kind[d] = "submit" /\ call[d].at \in {"deduct", "take"} => of[d] \in InHand(d)
          /\ kind[d] = "exchange" /\ call[d].at \in {"give", "debit"} => of[d] \in InHand(d)
      BY <3>1 DEF PlaceOK, InHand, Ended
    <3>3. of[d] \notin overlapped' =>
              /\ of[d] \notin overlapped
              /\ of[d] \in InHand(d) => row'[of[d]] = row[of[d]] /\ unasked'[of[d]] = unasked[of[d]]
      BY <1>k, <2>1, <2>3, WriteEffect
    <3> QED
      BY <1>0, <3>1, <3>2, <3>3 DEF CoveredFor
  <2> QED
    BY <2>2, <2>3
<1>3. ASSUME NEW c \in Calls, Step(c) \/ Throws(c), ~Writing(c), NEW d \in Calls
      PROVE  CoveredFor(d)'
  <2>1. CASE d = c
    BY <1>0, <1>3, <2>1, CoveredQuiet
  <2>2. CASE d # c
    <3>1. UNCHANGED <<row, overlapped>> /\ call'[d] = call[d]
      BY <1>3, <2>2, QuietShape DEF Quiet, rows
    <3>2. /\ row[of[d]].balance \in Int /\ amount[d] \in Int /\ unasked[of[d]] \in Nat
          /\ unasked'[of[d]] \in Nat /\ unasked'[of[d]] >= unasked[of[d]]
      BY <1>3, CallFacts, UnaskedGrows DEF TypeOK, Rows
    <3>3. row[of[d]].balance + unasked[of[d]] >= amount[d]
          => row'[of[d]].balance + unasked'[of[d]] >= amount[d]
      BY <3>1, <3>2
    <3> QED
      BY <1>0, <3>1, <3>3 DEF CoveredFor
  <2> QED
    BY <2>1, <2>2
<1> QED
  BY <1>1, <1>2, <1>3 DEF Next, CoveredOK, CoveredFor

LEMMA OverdraftStep ==
    ASSUME TypeOK, PlacesOK, LeftOK, FreshOK, CoveredOK, OverdraftNeedsOverlap, Next
    PROVE  OverdraftNeedsOverlap'
<1> USE DEF OverdraftNeedsOverlap
<1>0. \A a \in Accounts : row[a].balance \in Int /\ unasked[a] \in Nat
  BY DEF TypeOK, Rows
<1>1. CASE Monitor
  BY <1>1, WarnsShape DEF Warns
<1>2. ASSUME NEW c \in Calls, Step(c) \/ Throws(c), ~Writing(c) PROVE OverdraftNeedsOverlap'
  <2> SUFFICES ASSUME NEW a \in Accounts, a \notin overlapped'
               PROVE  row'[a].balance + unasked'[a] >= 0
    OBVIOUS
  <2>1. UNCHANGED <<row, overlapped>>
    BY <1>2, QuietShape DEF Quiet, rows
  <2>2. row[a].balance + unasked[a] >= 0 /\ unasked'[a] \in Nat /\ unasked'[a] >= unasked[a]
    BY <1>2, <2>1, UnaskedGrows
  <2> QED
    BY <1>0, <2>1, <2>2
<1>3. ASSUME NEW c \in Calls, Step(c), Writing(c) PROVE OverdraftNeedsOverlap'
  <2> SUFFICES ASSUME NEW a \in Accounts, a \notin overlapped'
               PROVE  row'[a].balance + unasked'[a] >= 0
    OBVIOUS
  <2>1. Writes(c)
    BY <1>3, WritesShape
  <2>2. row[a].balance + unasked[a] >= 0
    BY <2>1, WriteEffect
  <2>3. CASE a \notin InHand(c)
    BY <2>1, <2>2, <2>3, WriteEffect
  <2>4. CASE a \in InHand(c)
    <3>1. row'[a].balance = row[a].balance + Effect(c, a) /\ unasked'[a] = unasked[a] + Unchecked(c, a)
      BY <2>1, <2>4, WriteEffect
    <3>2. /\ Effect(c, a) \in Int /\ Unchecked(c, a) \in Nat
          /\ row[a].balance \in Int /\ unasked[a] \in Nat
      BY <1>0, Effects
    <3>3. CASE Effect(c, a) + Unchecked(c, a) >= 0
      BY <2>2, <3>1, <3>2, <3>3
    <3>4. CASE row[a].balance + unasked[a] >= -Effect(c, a)
      BY <3>1, <3>2, <3>4
    <3>5. \/ Effect(c, a) + Unchecked(c, a) >= 0
          \/ row[a].balance + unasked[a] >= -Effect(c, a)
      <4>1. PlaceOK(c, call[c]) /\ CoveredFor(c) /\ a \in call[c].open
        BY <2>4 DEF PlacesOK, CoveredOK, InHand
      <4>2. of[c] = a => of[c] \notin overlapped
        BY <2>1, WriteEffect
      <4>3. CASE WriteDeduct(c)
        <5>1. kind[c] = "submit" /\ At(c, "take") /\ a = of[c]
          BY <4>1, <4>3 DEF WriteDeduct, At, PlaceOK, Ended
        <5>2. row[a].balance + unasked[a] >= amount[c] /\ Effect(c, a) = -amount[c]
          BY <4>1, <4>2, <5>1, Effects DEF CoveredFor, At
        <5> QED
          BY <3>2, <5>2, CallFacts
      <4>4. CASE WriteCredit(c)
        BY <4>4, Effects DEF WriteCredit
      <4>5. CASE SaveForm(c)
        <5>1. kind[c] = "form"
          BY <4>1, <4>5 DEF SaveForm, At, PlaceOK, Ended
        <5> QED
          BY <3>2, <5>1, Effects
      <4>6. CASE Debit(c)
        <5>1. kind[c] = "exchange" /\ At(c, "debit") /\ a \in {of[c], to[c]}
          BY <4>1, <4>6 DEF Debit, At, PlaceOK, Ended
        <5>2. CASE a = to[c]
          BY <5>1, <5>2, Effects
        <5>3. CASE a = of[c]
          <6>1. row[a].balance >= amount[c] /\ Effect(c, a) = -amount[c]
            BY <4>1, <4>2, <5>1, <5>3, Effects DEF CoveredFor, At
          <6> QED
            BY <3>2, <6>1, CallFacts
        <5> QED
          BY <5>1, <5>2, <5>3
      <4>7. CASE ChargeProduct(c)
        BY <4>7, Effects DEF ChargeProduct
      <4> QED
        BY <1>3, <4>3, <4>4, <4>5, <4>6, <4>7 DEF Writing
    <3> QED
      BY <3>3, <3>4, <3>5
  <2> QED
    BY <2>3, <2>4
<1>4. \A c \in Calls : Writing(c) => Step(c)
  BY DEF Writing, Step
<1> QED
  BY <1>1, <1>2, <1>3, <1>4 DEF Next

-----------------------------------------------------------------------------
(* The order                                                               *)

LEMMA NotifyStep ==
    ASSUME TypeOK, PlacesOK, LeftOK, NEW c \in Calls, Step(c) \/ Throws(c), kind[c] = "notify"
    PROVE  /\ call'[c].at \in {"complete", "charge", "give", "invoice"} =>
                  Notifying(c) \/ \A d \in Calls : ~Notifying(d)
           /\ call'[c].at = "complete" => order = "paying" /\ order' = order
           /\ \/ order' = order /\ (call'[c].at \in {"charge", "give"} => Charging(c))
                 /\ (call'[c].at = "invoice" => call[c].at \in {"charge", "give", "invoice"})
              \/ At(c, "complete") /\ order' = "completed" /\ call'[c].at \in {"charge", "failed"}
<1> USE DEF Places, Ended, At, Notifying, Charging
<1>0. PlaceOK(c, call[c])
  BY DEF PlacesOK
<1>1. CASE Select(c)
  BY <1>1, GoFacts DEF Select, Kind, TypeOK
<1>2. CASE Complete(c)
  <2>1. call[c].at = "complete" /\ order' = "completed"
    BY <1>2 DEF Complete
  <2>2. call'[c].at \in {"charge", "failed"}
    BY <1>2, CompleteFacts
  <2> QED
    BY <2>1, <2>2
<1>3. CASE ReadCredit(c)
  BY <1>3, ReadFacts, TargetType DEF ReadCredit, Kind
<1>4. CASE ChargeProduct(c)
  <2>1. Left(c) # << >> /\ order' = order /\ call[c].at = "give"
    BY <1>4 DEF ChargeProduct, LeftOK
  <2>2. call'[c].at \in {"charge", "invoice"}
    BY <1>4, <2>1, ChargeFacts
  <2> QED
    BY <2>1, <2>2
<1>5. CASE Invoice(c)
  BY <1>5, GoFacts DEF Invoice
<1>6. CASE Throws(c)
  <2>1. CASE NotifyThrows(c)
    <3>1. CASE call[c].at \in {"charge", "give"}
      BY <2>1, <3>1, ThrowFacts, <1>6 DEF NotifyThrows
    <3>2. CASE call[c].at \notin {"charge", "give"}
      BY <2>1, <3>2, GoFacts DEF NotifyThrows
    <3> QED
      BY <3>1, <3>2
  <2>2. CASE Crash(c)
    BY <2>2, GoFacts DEF Crash
  <2> QED
    BY <1>6, <2>1, <2>2 DEF Throws, SubmitThrows, CreditThrows, FormThrows, ExchangeThrows,
         Exchanging
<1> QED
  BY <1>0, <1>1, <1>2, <1>3, <1>4, <1>5, <1>6
     DEF Step, PlaceOK, Check, ReadDeduct, WriteDeduct, Publish, WriteCredit, OpenForm,
         SaveForm, Validate, Credit,
         Debit, Record, Kind

LEMMA OtherStep ==
    ASSUME TypeOK, PlacesOK, NEW c \in Calls, Step(c) \/ Throws(c), kind[c] # "notify"
    PROVE  order' = order
<1>1. ~Complete(c)
  BY DEF Complete, At, PlacesOK, PlaceOK, Ended
<1> QED
  BY <1>1 DEF Step, Throws, Check, ReadDeduct, WriteDeduct, Publish, ReadCredit, WriteCredit,
       OpenForm, SaveForm,
     Validate, Credit, Debit, Record, Select, ChargeProduct, Invoice, SubmitThrows,
     CreditThrows, FormThrows, ExchangeThrows, NotifyThrows, Crash

LEMMA OrderStep ==
    ASSUME TypeOK, PlacesOK, LeftOK, BookedOK, ExchangeWhole, OrderOK, OrderCreditedOnce,
           NEW c \in Calls, Step(c) \/ Throws(c)
    PROVE  OrderOK' /\ OrderCreditedOnce'
<1>o. \A d \in Calls \ {c} : call'[d] = call[d]
  BY OneAccount DEF Others
<1>b. \A d \in Calls : d # c \/ ~Writing(c) =>
          /\ \A a \in Accounts : booked'[<<d, a>>] = booked[<<d, a>>]
          /\ NoneBooked(d)' <=> NoneBooked(d)
  BY BookedBy DEF NoneBooked
<1>1. CASE kind[c] # "notify"
  <2>1. /\ order' = order
        /\ \A d \in Calls : kind[d] = "notify" =>
               d # c /\ call'[d] = call[d] /\ (NoneBooked(d)' <=> NoneBooked(d))
    BY <1>o, <1>b, <1>1, OtherStep
  <2>2. OrderOK'
    BY <2>1 DEF OrderOK, Notifying, Charging, At
  <2>3. OrderCreditedOnce'
    BY <1>b, <1>1 DEF OrderCreditedOnce
  <2> QED
    BY <2>2, <2>3
<1>2. CASE kind[c] = "notify"
  <2> USE DEF Notifying, Charging, At
  <2>1. Writing(c) => Charging(c) /\ order = "completed" /\ order' = order
    <3>1. Writing(c) => ChargeProduct(c)
      BY <1>2 DEF Writing, WriteDeduct, WriteCredit, SaveForm, Debit, PlacesOK, PlaceOK, Ended
    <3>2. order \in {"paying", "completed"}
      BY DEF TypeOK
    <3> QED
      BY <1>2, <3>1, <3>2 DEF ChargeProduct, OrderOK
  <2>2. \A d, e \in Calls : Notifying(d)' /\ Notifying(e)' => d = e
    BY <1>2, <1>o, NotifyStep DEF OrderOK
  <2>3. \A d \in Calls : kind[d] = "notify" /\ call'[d].at = "complete" => order' = "paying"
    BY <1>2, <1>o, NotifyStep DEF OrderOK
  <2>4. ASSUME order' = "paying", NEW d \in Calls, kind[d] = "notify"
        PROVE  NoneBooked(d)' /\ call'[d].at \notin {"charge", "give", "invoice"}
    <3>1. order = "paying" /\ ~Writing(c)
      BY <1>2, <2>1, <2>4, NotifyStep
    <3> QED
      BY <1>2, <1>o, <1>b, <2>4, <3>1, NotifyStep DEF OrderOK
  <2>5. ASSUME NEW d \in Calls, NEW e \in Calls, Charging(d)', kind[e] = "notify", d # e
        PROVE  NoneBooked(e)'
    <3>1. CASE d = c
      BY <1>2, <1>o, <1>b, <2>5, <3>1, NotifyStep DEF OrderOK
    <3>2. CASE d # c
      <4>1. Charging(d) /\ (Writing(c) => c = d)
        BY <1>o, <2>1, <2>5, <3>2 DEF OrderOK
      <4> QED
        BY <1>b, <2>5, <3>2, <4>1 DEF OrderOK
    <3> QED
      BY <3>1, <3>2
  <2>6. OrderOK'
    BY <2>2, <2>3, <2>4, <2>5 DEF OrderOK
  <2>7. CASE Writing(c)
    <3>1. \A d \in Calls \ {c} : kind[d] = "notify" => NoneBooked(d)'
      BY <1>b, <2>1, <2>7 DEF OrderOK
    <3> QED
      BY <2>6, <3>1 DEF OrderCreditedOnce, NoneBooked
  <2>8. CASE ~Writing(c)
    BY <1>b, <2>6, <2>8 DEF OrderCreditedOnce
  <2> QED
    BY <2>7, <2>8
<1> QED
  BY <1>1, <1>2

-----------------------------------------------------------------------------
(* Answers                                                                 *)

LEMMA PublishedStep ==
    ASSUME TypeOK, PlacesOK, LeftOK, BookedOK, ExchangeWhole, PublishedOK,
           NEW c \in Calls, Step(c) \/ Throws(c)
    PROVE  PublishedOK'
<1> USE DEF Places, Ended, At
<1>1. published' = IF Publish(c) THEN published \cup {c} ELSE published
  BY DEF Publish, Step, Throws, Check, ReadDeduct, WriteDeduct, ReadCredit, WriteCredit,
       OpenForm, SaveForm,
     Validate, Credit, Debit, Record, Select, Complete, ChargeProduct, Invoice,
     SubmitThrows, CreditThrows, FormThrows, ExchangeThrows, NotifyThrows, Crash
<1>2. \A d \in Calls : kind[d] = "submit" /\ booked[<<d, of[d]>>] = 1 => booked'[<<d, of[d]>>] = 1
  <2> TAKE d \in Calls
  <2>1. Writing(c) /\ of[d] \in InHand(c) /\ d = c => booked[<<d, of[d]>>] = 0
    BY HandUnbooked
  <2> QED
    BY <2>1, BookedBy, CallsAssumption
<1>3. Publish(c) => kind[c] = "submit" /\ booked[<<c, of[c]>>] = 1
  BY DEF Publish, PlacesOK, PlaceOK, BookedOK, BookedFor
<1>4. kind[c] = "submit" /\ call'[c].at = "accepted" => Publish(c)
  <2> SUFFICES ASSUME kind[c] = "submit", ~Publish(c) PROVE call'[c].at # "accepted"
    OBVIOUS
  <2>0. PlaceOK(c, call[c])
    BY DEF PlacesOK
  <2>1. CASE Check(c)
    BY <2>1, GoFacts, ReadFacts, CallsAssumption DEF Check
  <2>2. CASE ReadDeduct(c) \/ WriteDeduct(c)
    BY <2>2, GoFacts, ReadFacts, CallsAssumption DEF ReadDeduct, WriteDeduct
  <2>3. CASE Throws(c)
    BY <2>3, ThrowFacts
  <2> QED
    BY <2>0, <2>1, <2>2, <2>3
       DEF Step, PlaceOK, ReadCredit, WriteCredit, OpenForm, SaveForm, Validate, Credit, Debit,
            Record, Select,
           Complete, ChargeProduct, Invoice, Kind
<1>5. \A d \in Calls \ {c} : call'[d] = call[d]
  BY OneAccount DEF Others
<1> QED
  BY <1>1, <1>2, <1>3, <1>4, <1>5 DEF PublishedOK

-----------------------------------------------------------------------------
(* The invariant                                                           *)

IInv ==
    /\ TypeOK /\ PlacesOK /\ LeftOK /\ BookedOK /\ ExchangeWhole
    /\ FreshOK /\ BalanceExplained /\ CoveredOK /\ OverdraftNeedsOverlap
    /\ OrderOK /\ OrderCreditedOnce /\ PublishedOK

LEMMA IInvInit == Init => IInv
<1> SUFFICES ASSUME Init PROVE IInv
  OBVIOUS
<1> USE CallsAssumption, AccountsAssumption, FaultsAssumption
<1>1. \A c \in Calls : call[c].at = "new" /\ call[c].open = {} /\ call[c].left = << >>
  BY DEF Init
<1>2. /\ row \in [Accounts -> Rows] /\ unasked \in [Accounts -> Nat]
      /\ \A a \in Accounts : row[a].balance = Opening[a] /\ unasked[a] = 0
  BY DEF Init, Rows
<1>3. call \in [Calls -> Session]
  <2>1. << >> \in Seq(Accounts) /\ "new" \in Places
    BY DEF Places
  <2> QED
    BY <1>2, <2>1 DEF Init, Session
<1>4. TypeOK
  <2>1. monitor \in [todo : SUBSET Accounts, marks : SUBSET Accounts]
    BY DEF Init
  <2>2. due \in [Accounts -> Int] /\ booked \in [Calls \X Accounts -> {0, 1}]
    BY DEF Init
  <2>3. /\ offered \in Scenarios /\ order = "paying" /\ published = {} /\ told = {}
        /\ overlapped = {} /\ blurred = {} /\ faults = 0
    BY DEF Init
  <2> QED
    BY <1>2, <1>3, <2>1, <2>2, <2>3 DEF TypeOK
<1>5. \A c \in Calls : NoneBooked(c)
  BY DEF Init, NoneBooked
<1>6. PlacesOK /\ LeftOK /\ BookedOK /\ ExchangeWhole
  BY <1>1, <1>5 DEF PlacesOK, PlaceOK, LeftOK, BookedOK, BookedFor, ExchangeWhole, NoneBooked, At
<1>7. FreshOK /\ CoveredOK
  BY <1>1 DEF FreshOK, CoveredOK, CoveredFor, InHand
<1>8. BalanceExplained /\ OverdraftNeedsOverlap
  BY <1>2 DEF Init, BalanceExplained, OverdraftNeedsOverlap
<1>9. OrderOK /\ OrderCreditedOnce
  BY <1>1, <1>5 DEF OrderOK, OrderCreditedOnce, Notifying, Charging, At, NoneBooked
<1>10. PublishedOK
  BY <1>1 DEF Init, PublishedOK, At
<1> QED
  BY <1>4, <1>6, <1>7, <1>8, <1>9, <1>10 DEF IInv

LEMMA IInvMonitor ==
    ASSUME IInv, Monitor
    PROVE  PlacesOK' /\ LeftOK' /\ BookedOK' /\ ExchangeWhole' /\ OrderOK' /\ OrderCreditedOnce'
           /\ PublishedOK'
<1>1. UNCHANGED <<call, booked, order, published>> /\ (faults' = 0 => faults = 0)
  <2>1. faults \in Nat
    BY FaultsAssumption DEF IInv, TypeOK
  <2>2. CASE CheckBalances
    BY <2>2 DEF CheckBalances, rows
  <2>3. ASSUME NEW a \in Accounts, SendWarning(a) \/ MarkWarned(a)
        PROVE  UNCHANGED <<call, booked, order, published>> /\ (faults' = 0 => faults = 0)
    BY <2>1, <2>3 DEF SendWarning, MarkWarned, Fault
  <2> QED
    BY <2>2, <2>3 DEF Monitor
<1>2. PlacesOK' /\ LeftOK' /\ ExchangeWhole' /\ OrderCreditedOnce'
  BY <1>1 DEF IInv, PlacesOK, LeftOK, Left, ExchangeWhole, OrderCreditedOnce
<1>3. BookedOK'
  BY <1>1 DEF IInv, BookedOK, BookedFor, NoneBooked, At
<1>4. OrderOK'
  BY <1>1 DEF IInv, OrderOK, Charging, Notifying, NoneBooked, At
<1>5. PublishedOK'
  BY <1>1 DEF IInv, PublishedOK, At
<1> QED
  BY <1>2, <1>3, <1>4, <1>5

LEMMA IInvStep ==
    ASSUME IInv, [Next]_vars
    PROVE  IInv'
<1> USE DEF IInv
<1>1. CASE UNCHANGED vars
  BY <1>1 DEF vars, TypeOK, PlacesOK, LeftOK, Left, BookedOK, BookedFor, ExchangeWhole, FreshOK,
              BalanceExplained, CoveredOK, CoveredFor, OverdraftNeedsOverlap, OrderOK, Charging,
              Notifying, OrderCreditedOnce, PublishedOK, NoneBooked, At, InHand
<1>2. CASE Next
  <2>1. TypeOK'
    BY TypeStep
  <2>2. FreshOK' /\ BalanceExplained' /\ CoveredOK' /\ OverdraftNeedsOverlap'
    BY <1>2, FreshStep, ExplainedStep, CoveredStep, OverdraftStep
  <2>3. CASE Monitor
    BY <2>1, <2>2, <2>3, IInvMonitor
  <2>4. ASSUME NEW c \in Calls, Step(c) \/ Throws(c) PROVE IInv'
    <3>1. PlacesOK' /\ LeftOK'
      BY <2>4, PlacesStep, LeftStep
    <3>2. BookedOK' /\ ExchangeWhole'
      BY <2>4, BookedStep
    <3>3. OrderOK' /\ OrderCreditedOnce' /\ PublishedOK'
      BY <2>4, OrderStep, PublishedStep
    <3> QED
      BY <2>1, <2>2, <3>1, <3>2, <3>3
  <2> QED
    BY <1>2, <2>3, <2>4 DEF Next
<1> QED
  BY <1>1, <1>2

LEMMA Invariance == Spec => []IInv
BY IInvInit, IInvStep, PTL DEF Spec

-----------------------------------------------------------------------------
(* The theorems                                                            *)

\* Every variable keeps its type, and no call changes an account twice: a
\* notification credits a product once, however its order's products are listed.
THEOREM TypeCorrect == Spec => []TypeOK
<1>1. IInv => TypeOK
  BY DEF IInv
<1> QED
  BY <1>1, Invariance, PTL

\* The balances of UserBalanceService and UserService add up, for every account that
\* no call wrote while another, or an open form of the customer, had it in hand:
\* failures, crashes and the check lose no change.
THEOREM BalancesAddUp == Spec => []BalanceExplained
<1>1. IInv => BalanceExplained
  BY DEF IInv
<1> QED
  BY <1>1, Invariance, PTL

\* An account that no two calls had in hand at once is overdrawn by no more than what
\* was let out of it unasked: while post-paid, by hand, by negative exchanges.
THEOREM OverdraftsNeedOverlap == Spec => []OverdraftNeedsOverlap
<1>1. IInv => OverdraftNeedsOverlap
  BY DEF IInv
<1> QED
  BY <1>1, Invariance, PTL

\* UserBalanceService.exchange credits and debits, or does neither.
THEOREM ExchangesWhole == Spec => []ExchangeWhole
<1>1. IInv => ExchangeWhole
  BY DEF IInv
<1> QED
  BY <1>1, Invariance, PTL

\* updateOrderPayCompleted credits a product of the order in one notification at most.
THEOREM OrdersCreditedOnce == Spec => []OrderCreditedOnce
<1>1. IInv => OrderCreditedOnce
  BY DEF IInv
<1> QED
  BY <1>1, Invariance, PTL

\* What submissions, credits and exchanges are answered agrees with the books.
THEOREM AnswersTrue == Spec => []AnswersMatchBooks
<1>1. IInv => AnswersMatchBooks
  BY DEF IInv, AnswersMatchBooks, BookedOK, BookedFor, PublishedOK, NoneBooked, At
<1> QED
  BY <1>1, Invariance, PTL
-----------------------------------------------------------------------------
(* What a completed order has credited                                     *)

\* Without a fault, a product of a completed order is credited or still to be.
Credited(a) == \E c \in Calls : kind[c] = "notify" /\ booked[<<c, a>>] = 1
ToCredit(a) == \E c \in Calls : Charging(c) /\ \E j \in 1 .. Len(Left(c)) : Left(c)[j] = a
CreditedOK ==
    order = "completed" /\ faults = 0 =>
        \A i \in 1 .. Len(Products) : Credited(Products[i]) \/ ToCredit(Products[i])

\* The loop over the products credits its head and goes on with the others.
LEMMA ToCreditStep ==
    ASSUME IInv, TypeOK', NEW c \in Calls, Step(c), Charging(c),
           NEW a \in Accounts, NEW j \in 1 .. Len(Left(c)), Left(c)[j] = a
    PROVE  Credited(a)' \/ ToCredit(a)'
<1> USE DEF IInv
<1>1. /\ PlaceOK(c, call[c]) /\ Left(c) \in Seq(Accounts) /\ Left(c) # << >>
      /\ kind[c] = "notify" /\ call[c].at \in {"charge", "give"}
      /\ booked[<<c, a>>] = 0
  BY DEF PlacesOK, LeftOK, Left, TypeOK, Session, Charging
<1>2. CASE ReadCredit(c)
  <2>1. call'[c].at = "give" /\ call'[c].left = call[c].left
    BY <1>1, <1>2, TargetType, ReadFacts DEF ReadCredit, Places
  <2>2. Charging(c)' /\ Left(c)' = Left(c)
    BY <1>1, <2>1 DEF Charging, Left
  <2> QED
    BY <2>2 DEF ToCredit
<1>3. CASE ChargeProduct(c)
  <2>1. /\ call'[c].at = IF Len(Left(c)) = 1 THEN "invoice" ELSE "charge"
        /\ call'[c].left = Tail(Left(c)) /\ Writing(c) /\ InHand(c) = {Head(Left(c))}
    BY <1>1, <1>3, ChargeFacts DEF ChargeProduct, Writing, PlaceOK, Ended, At, InHand, Left
  <2>2. CASE j = 1
    <3>1. a \in InHand(c)
      BY <1>1, <2>1, <2>2
    <3>2. booked'[<<c, a>>] = 1
      BY <1>1, <2>1, <3>1, BookedBy
    <3> QED
      BY <1>1, <3>2 DEF Credited
  <2>3. CASE j # 1
    <3>1. /\ Len(Left(c)) \in Nat /\ Len(Left(c)) # 1 /\ j - 1 \in 1 .. Len(Tail(Left(c)))
          /\ Tail(Left(c))[j - 1] = Left(c)[j]
      BY <1>1, <2>3
    <3>2. Charging(c)' /\ Left(c)' = Tail(Left(c))
      BY <1>1, <2>1, <3>1 DEF Charging, Left
    <3>3. j - 1 \in 1 .. Len(Left(c)') /\ Left(c)'[j - 1] = a
      BY <3>1, <3>2
    <3> QED
      BY <3>2, <3>3 DEF ToCredit
  <2> QED
    BY <2>2, <2>3
<1> QED
  BY <1>1, <1>2, <1>3
     DEF Step, PlaceOK, Ended, At, Kind, Check, ReadDeduct, WriteDeduct, Publish, WriteCredit,
         OpenForm, SaveForm,
         Validate, Credit, Debit, Record, Select, Complete, Invoice

LEMMA CreditedCall ==
    ASSUME IInv, CreditedOK, TypeOK', NEW c \in Calls, Step(c) \/ Throws(c)
    PROVE  CreditedOK'
<1> USE DEF IInv
<1> SUFFICES ASSUME order' = "completed", faults' = 0, NEW i \in 1 .. Len(Products)
             PROVE  Credited(Products[i])' \/ ToCredit(Products[i])'
  BY DEF CreditedOK
<1>1. Step(c) /\ faults = 0
  <2>1. faults \in Nat /\ faults' = 0
    BY FaultsAssumption DEF TypeOK
  <2>2. ~Throws(c)
    BY <2>1 DEF Throws, SubmitThrows, CreditThrows, FormThrows, ExchangeThrows, NotifyThrows,
         Crash, Fault
  <2>3. faults' = faults
    BY <2>2 DEF Step, Check, ReadDeduct, WriteDeduct, Publish, ReadCredit, WriteCredit,
         OpenForm, SaveForm, Validate,
                Credit, Debit, Record, Select, Complete, ChargeProduct, Invoice
  <2> QED
    BY <2>1, <2>2, <2>3
<1> DEFINE a == Products[i]
<1>2. a \in Accounts
  BY ProductsAssumption
<1>3. \A d \in Calls \ {c} : call'[d] = call[d]
  BY OneAccount DEF Others
<1>4. CASE order # "completed"
  <2>1. Complete(c)
    BY <1>1, <1>4 DEF Step, Check, ReadDeduct, WriteDeduct, Publish, ReadCredit, WriteCredit,
         OpenForm, SaveForm,
                Validate, Credit, Debit, Record, Select, ChargeProduct, Invoice
  <2>2. kind[c] = "notify"
    BY <2>1 DEF Complete, At, PlacesOK, PlaceOK, Ended
  <2>3. Products # << >>
    BY ProductsAssumption
  <2>4. Charging(c)' /\ Left(c)' = Products
    BY <2>1, <2>2, <2>3, CompleteFacts DEF Charging, Left
  <2> QED
    BY <2>4 DEF ToCredit
<1>5. CASE order = "completed"
  <2>1. Credited(a) \/ ToCredit(a)
    BY <1>1, <1>5 DEF CreditedOK
  <2>2. CASE Credited(a)
    <3>1. PICK d \in Calls : kind[d] = "notify" /\ booked[<<d, a>>] = 1
      BY <2>2 DEF Credited
    <3>2. booked'[<<d, a>>] \in {1, 2} /\ booked'[<<d, a>>] \in {0, 1}
      BY <1>2, <3>1, BookedBy DEF TypeOK
    <3> QED
      BY <3>1, <3>2 DEF Credited
  <2>3. CASE ToCredit(a)
    <3>1. PICK d \in Calls : Charging(d) /\ \E j \in 1 .. Len(Left(d)) : Left(d)[j] = a
      BY <2>3 DEF ToCredit
    <3>2. CASE d = c
      BY <1>1, <1>2, <3>1, <3>2, ToCreditStep
    <3>3. CASE d # c
      <4>1. Charging(d)' /\ Left(d)' = Left(d)
        BY <1>3, <3>1, <3>3 DEF Charging, Left
      <4> QED
        BY <3>1, <4>1 DEF ToCredit
    <3> QED
      BY <3>2, <3>3
  <2> QED
    BY <2>1, <2>2, <2>3
<1> QED
  BY <1>4, <1>5

LEMMA CreditedStep ==
    ASSUME IInv, CreditedOK, [Next]_vars
    PROVE  CreditedOK'
<1>1. CASE UNCHANGED vars
  BY <1>1 DEF vars, CreditedOK, Credited, ToCredit, Charging, Left
<1>2. CASE Monitor
  <2>1. UNCHANGED <<call, order, booked>> /\ (faults' = 0 => faults = 0)
    <3>1. faults \in Nat
      BY FaultsAssumption DEF IInv, TypeOK
    <3>2. CASE CheckBalances
      BY <3>2 DEF CheckBalances, rows
    <3>3. ASSUME NEW b \in Accounts, SendWarning(b)
          PROVE  UNCHANGED <<call, order, booked>> /\ (faults' = 0 => faults = 0)
      BY <3>1, <3>3 DEF SendWarning, Fault
    <3>4. ASSUME NEW b \in Accounts, MarkWarned(b)
          PROVE  UNCHANGED <<call, order, booked>> /\ (faults' = 0 => faults = 0)
      BY <3>1, <3>4 DEF MarkWarned, Fault
    <3> QED
      BY <1>2, <3>2, <3>3, <3>4 DEF Monitor
  <2> QED
    BY <2>1 DEF CreditedOK, Credited, ToCredit, Charging, Left
<1>3. ASSUME NEW c \in Calls, Step(c) \/ Throws(c) PROVE CreditedOK'
  <2>1. TypeOK'
    BY IInvStep DEF IInv
  <2> QED
    BY <1>3, <2>1, CreditedCall
<1> QED
  BY <1>1, <1>2, <1>3 DEF Next

\* Unless something threw or died, updateOrderPayCompleted credited every product
\* of a completed order once no notification is at work any more.
THEOREM OrdersCreditedWhole == Spec => []CompletedIsCredited
<1>1. Init => CreditedOK
  BY DEF Init, CreditedOK
<1>2. IInv /\ CreditedOK /\ [Next]_vars => CreditedOK'
  BY CreditedStep
<1>3. CreditedOK => CompletedIsCredited
  BY DEF CreditedOK, CompletedIsCredited, Credited, ToCredit, Charging, Notifying
<1> QED
  BY <1>1, <1>2, <1>3, Invariance, PTL DEF Spec
=============================================================================
