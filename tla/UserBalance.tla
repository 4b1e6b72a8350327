---------------------------- MODULE UserBalance ----------------------------
(***************************************************************************)
(* The balances of the users, and who changes them: UserBalanceService,    *)
(* for the submission of a task (SmsPrervice), refunds and the             *)
(* administrator's credits and deductions (updateBalance);                 *)
(* UserService.updateSms, updateFs and updateVs, for the administrator's   *)
(* form of a customer; ExchangeOrderService; the payment notifications of  *)
(* TradeOrderService; and UserBalanceCheckTask, which warns of a low one.  *)
(*                                                                         *)
(* A balance is one row.  Every change but the form's reads the row,       *)
(* computes, and writes back the balance, the status and the pay type, so  *)
(* two changes that overlap may lose one of them.  updateBalance is a      *)
(* transaction on one row and is its read and its write; exchange is one   *)
(* on two rows, which it reads as they were at its first read;             *)
(* deductBalance is not a transaction.  The form keeps the balance it was  *)
(* opened with in a hidden field and writes it back whenever it is saved.  *)
(* exchange and the notifications each hold a lock of their process, of    *)
(* which one is running.                                                   *)
(*                                                                         *)
(* Rows are not created here (saveBalance), and no one sets a status or a  *)
(* threshold by hand (updateStatus, updateBalanceWarning).  The money      *)
(* account (UserAccountService) works like a balance and is left out, as   *)
(* are prices, notices and remarks.                                        *)
(***************************************************************************)
EXTENDS Integers, Sequences, FiniteSets

CONSTANTS
    Accounts,       \* a user's balance on one platform
    PostPaid,       \* accounts with pay type POSTPAY at the start
    Opening,        \* balance at the start
    Threshold,      \* warn at this balance or below; 0 is never
    Calls,          \* calls that may be made, each at most once
    kind,           \* what a call does
    of,             \* its account; the one an exchange takes from
    to,             \* the account an exchange gives to
    amount,         \* what it moves; a notification moves it for each product
    setting,        \* the pay type a form is saved with
    Products,       \* the accounts the products of the one order credit
    Scenarios,      \* bound: the calls of one behaviour
    MaxFaults       \* bound: calls that throw or die, failed sends

ASSUME AccountsAssumption ==
    /\ PostPaid \subseteq Accounts
    /\ Opening \in [Accounts -> Nat] /\ Threshold \in [Accounts -> Nat]
ASSUME CallsAssumption ==
    /\ kind \in [Calls -> {"submit", "credit", "exchange", "notify", "form"}]
    /\ of \in [Calls -> Accounts] /\ to \in [Calls -> Accounts]
    /\ \A c \in Calls : of[c] # to[c]
    \* negative by hand: a deduction; nobody refuses it, nor in an exchange
    /\ amount \in [Calls -> Int]
    /\ \A c \in Calls : kind[c] \in {"submit", "notify"} => amount[c] >= 0
    /\ setting \in [Calls -> {"prepay", "postpay"}]
    /\ Scenarios \subseteq SUBSET Calls
ASSUME ProductsAssumption ==
    /\ Products \in Seq(Accounts)
    /\ \A i, j \in 1 .. Len(Products) : Products[i] = Products[j] => i = j
ASSUME FaultsAssumption == MaxFaults \in Nat

VARIABLES
    offered,        \* calls made in this behaviour, sooner or later
    row,            \* the balance rows, as committed
    call,           \* what each call is doing
    order,          \* status of the order
    published,      \* tasks published by submissions
    monitor,        \* what UserBalanceCheckTask is doing
    due,            \* opening balance and all that was booked (history)
    booked,         \* how often a call changed an account (history)
    unasked,        \* what was let out of an account without asking it (history)
    told,           \* accounts warned since their status was last reset (history)
    overlapped,     \* accounts changed by a call while another had them in hand (history)
    blurred,        \* accounts changed while the check had them in hand (history)
    faults          \* faults so far (history)

vars == <<offered, row, call, order, published, monitor, due, booked, unasked,
          told, overlapped, blurred, faults>>
rows == <<row, due, booked, told, overlapped, blurred>>

Kind(c, k) == c \in offered /\ kind[c] = k
At(c, place) == call[c].at = place
\* Accounts a call has read, to write them later.
InHand(c) == call[c].open
Checking == monitor.todo \cup monitor.marks

Init ==
    /\ offered \in Scenarios
    /\ row = [a \in Accounts |-> [balance |-> Opening[a], status |-> "avaiable",
                               payType |-> IF a \in PostPaid THEN "postpay" ELSE "prepay"]]
    /\ call = [c \in Calls |-> [at |-> "new", seen |-> row, open |-> {}, left |-> << >>]]
    /\ order = "paying"
    /\ published = {}
    /\ monitor = [todo |-> {}, marks |-> {}]
    /\ due = Opening
    /\ booked = [x \in Calls \X Accounts |-> 0]
    /\ unasked = [a \in Accounts |-> 0]
    /\ told = {} /\ overlapped = {} /\ blurred = {}
    /\ faults = 0
-----------------------------------------------------------------------------
(* Reading and writing rows.                                               *)

\* What a call adds to an account, by what its caller asked for.
Effect(c, a) ==
    CASE kind[c] = "form" -> 0
      [] kind[c] = "submit" \/ (kind[c] = "exchange" /\ a = of[c]) -> -amount[c]
      [] OTHER -> amount[c]

\* What it takes from an account whose balance nobody compared with it
Unchecked(c, a) ==
    IF (kind[c] = "credit" \/ (kind[c] = "exchange" /\ a = to[c])) /\ amount[c] < 0
    THEN -amount[c] ELSE 0

Go(c, place) == call' = [call EXCEPT ![c].at = place, ![c].open = {}]
Read(c, S, place) ==
    call' = [call EXCEPT ![c].at = place, ![c].open = S, ![c].seen = row]

\* Mutant of NewStatus: updateBalance does not set the status either.
StatusKept(c, a) == IF kind[c] = "form" THEN row[a].status ELSE call[c].seen[a].status
\* updateBalance sets the status; deductBalance writes back the one it read; the
\* form leaves it as it is
NewStatus(c, a) ==
    CASE kind[c] = "form" -> row[a].status
      [] kind[c] = "submit" -> call[c].seen[a].status
      [] OTHER -> "avaiable"

\* Mutant of NewBalance: an exchange debits with the sign of a credit.
BalanceUnsigned(c, a) ==
    call[c].seen[a].balance + (IF kind[c] = "exchange" THEN amount[c] ELSE Effect(c, a))
NewBalance(c, a) == call[c].seen[a].balance + Effect(c, a)

\* All but the form write back the pay type they read
NewPayType(c, a) == IF kind[c] = "form" THEN setting[c] ELSE call[c].seen[a].payType

\* The rows of S are written, and what the histories keep of it.
Write(c, S) ==
    /\ row' = [a \in Accounts |->
                   IF a \in S THEN [balance |-> NewBalance(c, a), status |-> NewStatus(c, a),
                                    payType |-> NewPayType(c, a)]
                   ELSE row[a]]
    /\ due' = [a \in Accounts |-> IF a \in S THEN due[a] + Effect(c, a) ELSE due[a]]
    /\ booked' = [x \in Calls \X Accounts |->
                      IF x[1] = c /\ x[2] \in S THEN booked[x] + 1 ELSE booked[x]]
    /\ unasked' = [a \in Accounts |->
                       IF a \in S THEN unasked[a] + Unchecked(c, a) ELSE unasked[a]]
    /\ told' = IF kind[c] \in {"submit", "form"} THEN told ELSE told \ S
    /\ overlapped' = overlapped \cup {a \in S : \E d \in Calls \ {c} : a \in InHand(d)}
    /\ blurred' = blurred \cup (S \cap Checking)

\* A row that an open transaction has written stays locked to its end.
Locked(a) == \E c \in Calls : kind[c] = "exchange" /\ At(c, "debit") /\ to[c] = a
Fault == faults < MaxFaults /\ faults' = faults + 1
-----------------------------------------------------------------------------
(* A submission: isBalanceEnough, deductBalance, publish.                  *)

\* isBalanceEnough, which does not ask of a post-paid account
Check(c) ==
    /\ Kind(c, "submit") /\ At(c, "new")
    /\ IF row[of[c]].payType = "postpay"
       THEN /\ Read(c, {of[c]}, "deduct")
            /\ unasked' = [unasked EXCEPT ![of[c]] = @ + amount[c]]
       ELSE /\ IF row[of[c]].balance < amount[c]
               THEN Go(c, "refused")
               ELSE Read(c, {of[c]}, "deduct")
            /\ UNCHANGED unasked
    /\ UNCHANGED <<offered, rows, order, published, monitor, faults>>

\* deductBalance reads the row anew
ReadDeduct(c) ==
    /\ At(c, "deduct")
    /\ Read(c, {of[c]}, "take")
    /\ UNCHANGED <<offered, rows, unasked, order, published, monitor, faults>>

WriteDeduct(c) ==
    /\ At(c, "take") /\ ~Locked(of[c])
    /\ Write(c, {of[c]})
    /\ Go(c, "publish")
    /\ UNCHANGED <<offered, order, published, monitor, faults>>

Publish(c) ==
    /\ At(c, "publish")
    /\ published' = published \cup {c}
    /\ Go(c, "accepted")
    /\ UNCHANGED <<offered, rows, unasked, order, monitor, faults>>

\* Mutant of SubmitThrows: a deduction that throws is logged, as a refund is.
SubmitGoesOn(c) ==
    /\ kind[c] = "submit" /\ call[c].at \in {"deduct", "take", "publish"}
    /\ Fault
    /\ Go(c, IF At(c, "publish") THEN "failed" ELSE "publish")
    /\ UNCHANGED <<offered, rows, unasked, order, published, monitor>>

\* Whatever throws ends as QueueProcessException; what was deducted stays so
SubmitThrows(c) ==
    /\ kind[c] = "submit" /\ call[c].at \in {"deduct", "take", "publish"}
    /\ Fault
    /\ Go(c, "failed")
    /\ UNCHANGED <<offered, rows, unasked, order, published, monitor>>
-----------------------------------------------------------------------------
(* updateBalance: by the administrator, whose negative amounts deduct, as  *)
(* a refund, and for a product.                                            *)

Target(c) == IF kind[c] = "notify" THEN Head(call[c].left) ELSE of[c]
ReadCredit(c) ==
    /\ \/ Kind(c, "credit") /\ At(c, "new")
       \/ kind[c] = "notify" /\ At(c, "charge")
    /\ Read(c, {Target(c)}, "give")
    /\ UNCHANGED <<offered, rows, unasked, order, published, monitor, faults>>

WriteCredit(c) ==
    /\ kind[c] = "credit" /\ At(c, "give") /\ ~Locked(of[c])
    /\ Write(c, {of[c]})
    /\ Go(c, "accepted")
    /\ UNCHANGED <<offered, order, published, monitor, faults>>

\* Rolled back: the row is as it was
CreditThrows(c) ==
    /\ kind[c] = "credit" /\ At(c, "give")
    /\ Fault
    /\ Go(c, "failed")
    /\ UNCHANGED <<offered, rows, unasked, order, published, monitor>>
-----------------------------------------------------------------------------
(* The form of a customer (CustomerController): it is opened with the      *)
(* balance of the row and saved, if ever, with that balance.               *)

OpenForm(c) ==
    /\ Kind(c, "form") /\ At(c, "new")
    /\ Read(c, {of[c]}, "edit")
    /\ UNCHANGED <<offered, rows, unasked, order, published, monitor, faults>>

\* updateSms, updateFs, updateVs
SaveForm(c) ==
    /\ At(c, "edit") /\ ~Locked(of[c])
    /\ Write(c, {of[c]})
    /\ Go(c, "record")
    /\ UNCHANGED <<offered, order, published, monitor, faults>>

\* Whatever throws before the commit, the parsing of the balance included, rolls back
FormThrows(c) ==
    /\ kind[c] = "form" /\ call[c].at \in {"edit", "record"}
    /\ Fault
    /\ Go(c, "failed")
    /\ UNCHANGED <<offered, rows, unasked, order, published, monitor>>
-----------------------------------------------------------------------------
(* ExchangeOrderService.buildExchangeOrder and UserBalanceService.exchange *)

Exchanging(c) == kind[c] = "exchange" /\ call[c].at \in {"give", "debit", "record"}

\* Mutant of Validate: the balance is not looked at.
ValidateNothing(c) ==
    /\ Kind(c, "exchange") /\ At(c, "new") /\ ~\E d \in Calls : Exchanging(d)
    /\ Read(c, {of[c], to[c]}, "give")
    /\ UNCHANGED <<offered, rows, unasked, order, published, monitor, faults>>

\* Under the process's lock; the transaction's first read fixes what it sees
Validate(c) ==
    /\ Kind(c, "exchange") /\ At(c, "new") /\ ~\E d \in Calls : Exchanging(d)
    /\ IF amount[c] = 0 \/ row[of[c]].balance < amount[c]
       THEN Go(c, "failed")
       ELSE Read(c, {of[c], to[c]}, "give")
    /\ UNCHANGED <<offered, rows, unasked, order, published, monitor, faults>>

\* Mutant of Credit: exchange is not a transaction.
CreditAtOnce(c) ==
    /\ kind[c] = "exchange" /\ At(c, "give") /\ ~Locked(to[c])
    /\ Write(c, {to[c]})
    /\ call' = [call EXCEPT ![c].at = "debit", ![c].open = {of[c]}]
    /\ UNCHANGED <<offered, order, published, monitor, faults>>

\* The credit, seen by nobody before the commit
Credit(c) ==
    /\ kind[c] = "exchange" /\ At(c, "give") /\ ~Locked(to[c])
    /\ call' = [call EXCEPT ![c].at = "debit"]
    /\ UNCHANGED <<offered, rows, unasked, order, published, monitor, faults>>

\* The debit, and the commit of both
Debit(c) ==
    /\ kind[c] = "exchange" /\ At(c, "debit") /\ ~Locked(of[c])
    /\ Write(c, {of[c], to[c]})
    /\ Go(c, "record")
    /\ UNCHANGED <<offered, order, published, monitor, faults>>

\* The exchange order with status COMPLETED; after a form, the accesses
Record(c) ==
    /\ At(c, "record")
    /\ Go(c, "accepted")
    /\ UNCHANGED <<offered, rows, unasked, order, published, monitor, faults>>

\* Before the commit everything is rolled back; the order is DEAL_FAILED even
\* when only the insertion of the completed one threw
ExchangeThrows(c) ==
    /\ Exchanging(c)
    /\ Fault
    /\ Go(c, "failed")
    /\ UNCHANGED <<offered, rows, unasked, order, published, monitor>>
-----------------------------------------------------------------------------
(* TradeOrderService.updateOrderPayCompleted, once per notification.       *)

Notifying(c) ==
    kind[c] = "notify" /\ call[c].at \in {"complete", "charge", "give", "invoice"}

\* Mutant of Select: an order that is completed is completed again.
SelectForgetful(c) ==
    /\ Kind(c, "notify") /\ At(c, "new") /\ ~\E d \in Calls : Notifying(d)
    /\ Go(c, "complete")
    /\ UNCHANGED <<offered, rows, unasked, order, published, monitor, faults>>

Select(c) ==
    /\ Kind(c, "notify") /\ At(c, "new") /\ ~\E d \in Calls : Notifying(d)
    /\ Go(c, IF order = "completed" THEN "accepted" ELSE "complete")
    /\ UNCHANGED <<offered, rows, unasked, order, published, monitor, faults>>

\* updateOrder2Comoplte, and the products of the combo
Complete(c) ==
    /\ At(c, "complete")
    /\ order' = "completed"
    /\ call' = [call EXCEPT ![c].left = Products,
                            ![c].at = IF Products = << >> THEN "failed" ELSE "charge"]
    /\ UNCHANGED <<offered, rows, unasked, published, monitor, faults>>

\* Mutant of NextProduct: the list's first element is charged for every product.
SameProduct(c) ==
    [call[c] EXCEPT !.open = {}, !.at = IF Len(call[c].left) = 1 THEN "invoice" ELSE "charge",
                    !.left = << Head(@) >>]
\* Mutant of NextProduct: the loop returns after its first element.
FirstProduct(c) ==
    [call[c] EXCEPT !.open = {}, !.at = "invoice", !.left = << >>]
NextProduct(c) ==
    [call[c] EXCEPT !.open = {}, !.at = IF Len(call[c].left) = 1 THEN "invoice" ELSE "charge",
                    !.left = Tail(@)]

ChargeProduct(c) ==
    /\ kind[c] = "notify" /\ At(c, "give") /\ ~Locked(Target(c))
    /\ Write(c, {Target(c)})
    /\ call' = [call EXCEPT ![c] = NextProduct(c)]
    /\ UNCHANGED <<offered, order, published, monitor, faults>>

\* doOrderInvoiceProcess, and the answer
Invoice(c) ==
    /\ At(c, "invoice")
    /\ Go(c, "accepted")
    /\ UNCHANGED <<offered, rows, unasked, order, published, monitor, faults>>

\* What throws in the loop ends the loop only
NotifyThrows(c) ==
    /\ Notifying(c)
    /\ Fault
    /\ IF call[c].at \in {"charge", "give"}
       THEN call' = [call EXCEPT ![c].at = "invoice", ![c].open = {}, ![c].left = << >>]
       ELSE Go(c, "failed")
    /\ UNCHANGED <<offered, rows, unasked, order, published, monitor>>
-----------------------------------------------------------------------------
Ended == {"refused", "accepted", "failed", "dead"}

\* The caller's process dies; an open transaction is rolled back
Crash(c) ==
    /\ call[c].at \notin Ended \cup {"new"}
    /\ Fault
    /\ Go(c, "dead")
    /\ UNCHANGED <<offered, rows, unasked, order, published, monitor>>

(* UserBalanceCheckTask.execute, every ten minutes.                        *)

Low(a) == Threshold[a] > 0 /\ row[a].balance <= Threshold[a]

\* findAvaibleUserBalace, and those of the list that need a warning
CheckBalances ==
    /\ Checking = {}
    /\ monitor' = [monitor EXCEPT !.todo = {a \in Accounts : row[a].status = "avaiable" /\ Low(a)}]
    /\ monitor' # monitor
    /\ UNCHANGED <<offered, rows, unasked, call, order, published, faults>>

SendWarning(a) ==
    /\ a \in monitor.todo /\ monitor.marks = {}
    /\ \/ /\ told' = told \cup {a} /\ monitor' = [todo |-> monitor.todo \ {a}, marks |-> {a}]
          /\ UNCHANGED faults
       \/ Fault /\ monitor' = [monitor EXCEPT !.todo = @ \ {a}] /\ UNCHANGED told
    /\ UNCHANGED <<offered, row, call, order, published, due, booked, unasked, overlapped, blurred>>

\* updateStatus; an exception is swallowed
MarkWarned(a) ==
    /\ a \in monitor.marks /\ ~Locked(a)
    /\ monitor' = [monitor EXCEPT !.marks = {}]
    /\ \/ row' = [row EXCEPT ![a].status = "warning"] /\ UNCHANGED faults
       \/ Fault /\ UNCHANGED row
    /\ UNCHANGED <<offered, call, order, published, due, booked, unasked, told,
                   overlapped, blurred>>
-----------------------------------------------------------------------------
Step(c) ==
    \/ Check(c) \/ ReadDeduct(c) \/ WriteDeduct(c) \/ Publish(c)
    \/ ReadCredit(c) \/ WriteCredit(c) \/ OpenForm(c) \/ SaveForm(c)
    \/ Validate(c) \/ Credit(c) \/ Debit(c) \/ Record(c)
    \/ Select(c) \/ Complete(c) \/ ChargeProduct(c) \/ Invoice(c)
Throws(c) ==
    \/ SubmitThrows(c) \/ CreditThrows(c) \/ FormThrows(c) \/ ExchangeThrows(c)
    \/ NotifyThrows(c) \/ Crash(c)
Monitor == CheckBalances \/ \E a \in Accounts : SendWarning(a) \/ MarkWarned(a)

Next ==
    \/ \E c \in Calls : Step(c) \/ Throws(c)
    \/ Monitor

Spec == Init /\ [][Next]_vars
\* A call that was begun goes on, a form left open excepted, and the scheduler
\* runs the check.
FairSpec ==
    /\ Spec
    /\ \A c \in Calls : WF_vars(Step(c) /\ call[c].at \notin {"new", "edit"})
    /\ WF_vars(Monitor)
-----------------------------------------------------------------------------
Rows == [balance : Int, status : {"avaiable", "warning"}, payType : {"prepay", "postpay"}]
Places == {"new", "deduct", "take", "publish", "give", "edit", "debit", "record", "complete",
           "charge", "invoice"} \cup Ended
Session == [at : Places, seen : [Accounts -> Rows], open : SUBSET Accounts,
            left : Seq(Accounts)]

\* Every variable has its type; in particular no call, a notification with
\* several products included, changes an account twice.
TypeOK ==
    /\ offered \in Scenarios
    /\ row \in [Accounts -> Rows]
    /\ call \in [Calls -> Session]
    /\ order \in {"paying", "completed"}
    /\ published \subseteq Calls
    /\ monitor \in [todo : SUBSET Accounts, marks : SUBSET Accounts]
    /\ due \in [Accounts -> Int]
    /\ booked \in [Calls \X Accounts -> {0, 1}]
    /\ unasked \in [Accounts -> Nat]
    /\ told \subseteq Accounts /\ overlapped \subseteq Accounts /\ blurred \subseteq Accounts
    /\ faults \in 0 .. MaxFaults

\* A balance is the opening one and all that was booked since, failures, retries
\* and crashes included, unless one call wrote the account while another had it in
\* hand; a customer's form has it in hand for as long as it is open.
BalanceExplained ==
    \A a \in Accounts \ overlapped : row[a].balance = due[a]

\* Unless calls had the account in hand at once, nothing goes below zero but what
\* was let out unasked: isBalanceEnough of a post-paid account, deductions by hand
\* and exchanges of negative amounts. The check and the deduction of a submission
\* are separate calls, with others, and switches of the pay type, in between.
OverdraftNeedsOverlap ==
    \A a \in Accounts \ overlapped : row[a].balance + unasked[a] >= 0

\* An exchange moves from one account to the other or does nothing, wherever it fails.
ExchangeWhole ==
    \A c \in Calls : kind[c] = "exchange" => booked[<<c, of[c]>>] = booked[<<c, to[c]>>]

\* However often a payment is notified, each product of the order is credited once.
OrderCreditedOnce ==
    \A c, d \in Calls : \A a \in Accounts :
        /\ kind[c] = "notify" /\ booked[<<c, a>>] > 0
        /\ kind[d] = "notify" /\ booked[<<d, a>>] > 0
        => c = d

\* An order that was completed has all its products credited, unless a failure
\* or a crash came between, or the notification is still at it.
CompletedIsCredited ==
    order = "completed" /\ faults = 0 /\ (\A c \in Calls : ~Notifying(c)) =>
        \A i \in 1 .. Len(Products) :
            \E c \in Calls : kind[c] = "notify" /\ booked[<<c, Products[i]>>] = 1

\* What a caller is told is what was booked: an accepted call changed its accounts
\* and a refused one none; a submission or exchange answered as failed may have.
\* No task is published that was not paid for.
AnswersMatchBooks ==
    \A c \in Calls : kind[c] # "notify" =>
        /\ At(c, "accepted") => booked[<<c, of[c]>>] = 1
        /\ At(c, "refused") \/ (faults = 0 /\ At(c, "failed")) =>
               \A a \in Accounts : booked[<<c, a>>] = 0
        /\ c \in published => booked[<<c, of[c]>>] = 1
        /\ kind[c] = "submit" /\ At(c, "accepted") => c \in published

\* A balance that stays low has its warning, sent since the status was last reset,
\* unless it was changed under the check's or another call's hands.
EveryLowAccountWarned ==
    \A a \in Accounts :
        Low(a) ~> (~Low(a) \/ a \in told \cup overlapped \cup blurred)
=============================================================================
