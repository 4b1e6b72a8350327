------------------------- MODULE MtTransport_proofs -------------------------
(***************************************************************************)
(* Proofs about the transport of packets, for any consumers, packets,      *)
(* sizes, limits, connections and number of faults.                        *)
(***************************************************************************)
EXTENDS MtTransport, FiniteSetTheorems, WellFoundedInduction, TLAPS

-----------------------------------------------------------------------------
(* Numbers                                                                 *)

LEMMA Least ==
    ASSUME NEW T \in SUBSET Nat, T # {}
    PROVE  \E m \in T : \A k \in T : m <= k
<1> DEFINE R == {ss \in Nat \X Nat : ss[1] < ss[2]}
<1>1. IsWellFoundedOn(R, Nat)
  BY NatLessThanWellFounded DEF OpToRel
<1>2. \A k, m \in Nat : k < m => <<k, m>> \in R
  OBVIOUS
<1> HIDE DEF R
<1>3. \E m \in T : \A k \in T : <<k, m>> \notin R
  BY <1>1, WFMin, Zenon
<1>4. \A k, m \in T : k \in Nat /\ m \in Nat /\ (~(k < m) => m <= k)
  OBVIOUS
<1> QED
  BY <1>2, <1>3, <1>4, Zenon

LEMMA Greatest ==
    ASSUME NEW n \in Nat, NEW S \in SUBSET (1 .. n), S # {}
    PROVE  \E m \in S : \A k \in S : k <= m
<1> DEFINE T == {n - k : k \in S}
<1>1. T \in SUBSET Nat /\ T # {}
  <2>1. \A k \in S : n - k \in Nat
    OBVIOUS
  <2>2. PICK k \in S : TRUE
    OBVIOUS
  <2>3. n - k \in T
    BY <2>2
  <2> QED
    BY <2>1, <2>3
<1>2. PICK d \in T : \A k \in T : d <= k
  BY <1>1, Least
<1>3. PICK m \in S : d = n - m
  OBVIOUS
<1>4. \A k \in S : n - m <= n - k
  BY <1>2, <1>3
<1> QED
  BY <1>4

-----------------------------------------------------------------------------
(* Batches                                                                 *)

\* The batches of a packet share no number.
LEMMA ProductOrder ==
    ASSUME NEW a \in Nat, NEW b \in Nat, NEW g \in Nat, a <= b
    PROVE  a * g <= b * g
OBVIOUS

LEMMA BatchesDisjoint ==
    ASSUME NEW p \in Packets, NEW i \in Nat \ {0}, NEW j \in Nat \ {0}, i # j,
           Group(p) \in Nat
    PROVE  BatchNumbers(p, i) \cap BatchNumbers(p, j) = {}
<1>1. \A a, b \in Nat \ {0} : a < b => a * Group(p) <= (b - 1) * Group(p)
  <2> SUFFICES ASSUME NEW a \in Nat \ {0}, NEW b \in Nat \ {0}, a < b
               PROVE  a * Group(p) <= (b - 1) * Group(p)
    OBVIOUS
  <2>1. a \in Nat /\ b - 1 \in Nat /\ a <= b - 1
    OBVIOUS
  <2> QED
    BY <2>1, ProductOrder
<1> SUFFICES ASSUME NEW n \in BatchNumbers(p, i), n \in BatchNumbers(p, j) PROVE FALSE
  OBVIOUS
<1>2. /\ n[2] \in Int
      /\ (i - 1) * Group(p) < n[2] /\ n[2] <= i * Group(p)
      /\ (j - 1) * Group(p) < n[2] /\ n[2] <= j * Group(p)
  BY SizeAssumption DEF BatchNumbers, NumbersOf, Numbers
<1>3. /\ i * Group(p) \in Int /\ (j - 1) * Group(p) \in Int
      /\ j * Group(p) \in Int /\ (i - 1) * Group(p) \in Int
  OBVIOUS
<1>4. i < j \/ j < i
  OBVIOUS
<1> QED
  BY <1>1, <1>2, <1>3, <1>4

\* The batch of a number is one of the packet's batches.
LEMMA Quotient ==
    ASSUME NEW n \in Nat, NEW g \in Nat \ {0}
    PROVE  /\ n \div g \in Nat /\ n % g \in 0 .. g - 1
           /\ n = g * (n \div g) + (n % g)
OBVIOUS

LEMMA QuotientOrder ==
    ASSUME NEW m \in Nat, NEW n \in Nat, NEW g \in Nat \ {0}, m < n
    PROVE  /\ m \div g <= n \div g
           /\ n % g = 0 => m \div g < n \div g
<1> DEFINE a == m \div g
<1> DEFINE b == n \div g
<1>1. /\ a \in Nat /\ m % g \in 0 .. g - 1 /\ m = g * a + (m % g)
      /\ b \in Nat /\ n % g \in 0 .. g - 1 /\ n = g * b + (n % g)
  BY Quotient
<1> HIDE DEF a, b
<1>2. g * a <= m /\ g * b <= n /\ n < g * b + g
  BY <1>1
<1>3. a <= b
  <2> SUFFICES ASSUME b + 1 <= a PROVE FALSE
    BY <1>1
  <2>1. (b + 1) * g <= a * g
    BY <1>1, ProductOrder
  <2>2. (b + 1) * g = g * b + g /\ a * g = g * a
    BY <1>1
  <2> QED
    BY <1>1, <1>2, <2>1, <2>2
<1>4. n % g = 0 => a # b
  BY <1>1, <1>2
<1> QED
  BY <1>1, <1>3, <1>4 DEF a, b

LEMMA BatchOfType ==
    ASSUME NEW n \in Numbers, Group(n[1]) \in Nat \ {0}
    PROVE  BatchOf(n) \in 1 .. BatchCount(n[1])
<1> DEFINE g == Group(n[1])
<1>1. n[2] \in 1 .. Size /\ Size \in Nat
  BY SizeAssumption DEF Numbers
<1>2. /\ (n[2] - 1) \div g \in Nat /\ Size \div g \in Nat
      /\ (n[2] - 1) \div g <= Size \div g
      /\ Size % g = 0 => (n[2] - 1) \div g < Size \div g
  <2>1. n[2] - 1 \in Nat /\ n[2] - 1 < Size
    BY <1>1
  <2> QED
    BY <1>1, <2>1, Quotient, QuotientOrder
<1> QED
  BY <1>2 DEF BatchOf, BatchCount

-----------------------------------------------------------------------------
(* Types                                                                   *)

\* A busy consumer has a waiting packet of its own, whose batches it can count.
BusyOK ==
    /\ \A t \in Threads :
           /\ thread[t].packet = "none" <=> At(t, "idle")
           /\ ~At(t, "idle") => thread[t].packet \in waiting
           /\ thread[t].at \notin {"idle", "fail"} => Group(thread[t].packet) # 0
           /\ At(t, "build") => Len(thread[t].answers) = BatchCount(thread[t].packet)
    /\ \A t, u \in Threads : thread[t].packet = thread[u].packet /\ ~At(t, "idle") => t = u

LEMMA GroupType ==
    ASSUME TypeOK, NEW p \in Packets
    PROVE  Group(p) \in Nat
<1>1. fee[p] \in Nat \ {0} /\ PacketsSize \in Nat
  BY FeesAssumption DEF TypeOK
<1> QED
  BY <1>1, Quotient DEF Group

LEMMA IdleType == Idle \in Work
BY DEF Idle, Work, Places

LEMMA GoType ==
    ASSUME TypeOK, NEW t \in Threads, NEW x \in Work, Go(t, x)
    PROVE  /\ thread' \in [Threads -> Work] /\ thread'[t] = x
           /\ \A u \in Threads \ {t} : thread'[u] = thread[u]
BY DEF TypeOK, Go

LEMMA AnsweredType ==
    ASSUME NEW x \in Work, NEW answer \in {"none", "accepted", "refused"}
    PROVE  /\ Answered(x, answer) \in Work
           /\ Answered(x, answer).packet = x.packet
           /\ Answered(x, answer).answers = Append(x.answers, answer)
           /\ Answered(x, answer).at \in {"ask", "build"}
           /\ Answered(x, answer).at = "build" =>
                  Len(Answered(x, answer).answers) = BatchCount(x.packet)
<1> DEFINE as == Append(x.answers, answer)
<1>1. as \in Seq({"none", "accepted", "refused"})
  BY DEF Work
<1>2. Answered(x, answer) =
          [x EXCEPT !.answers = as, !.conn = 0,
                    !.at = IF Len(as) = BatchCount(x.packet) THEN "build" ELSE "ask"]
  BY DEF Answered
<1> HIDE DEF as
<1>3. Answered(x, answer) \in Work
  BY <1>1, <1>2 DEF Work, Places
<1> QED
  BY <1>2, <1>3 DEF Work, as

\* The status of a number is one of the packet's answers, or the packet's own.
LEMMA StatusType ==
    ASSUME TypeOK, BusyOK, NEW t \in Threads, At(t, "build"), NEW j \in 1 .. Size
    PROVE  Status(thread[t].answers, thread[t].packet, j) \in {"accepted", "refused", "other"}
<1> DEFINE p == thread[t].packet
<1> DEFINE x == thread[t].answers
<1> DEFINE F == Fitting(x, p, j)
<1>1. p \in Packets /\ Group(p) \in Nat \ {0} /\ Len(x) = BatchCount(p)
  <2>1. p \in Packets
    BY DEF TypeOK, BusyOK, At
  <2>2. Group(p) # 0 /\ Len(x) = BatchCount(p)
    BY DEF BusyOK, At
  <2> QED
    BY <2>1, <2>2, GroupType
<1>2. x \in Seq({"none", "accepted", "refused"})
  BY DEF TypeOK, Work
<1>3. CASE F = {}
  BY <1>3 DEF Status
<1>4. CASE F # {}
  <2>1. F \subseteq 1 .. Size
    BY SizeAssumption DEF Fitting
  <2>2. \E last \in F : \A k \in F : k <= last
    BY <1>4, <2>1, Greatest, SizeAssumption
  <2> DEFINE last == LastFitting(x, p, j)
  <2>3. last \in F
    BY <2>2 DEF LastFitting
  <2>4. Status(x, p, j) = x[BatchOf(<<p, last>>)]
    BY <1>4 DEF Status
  <2> HIDE DEF last
  <2>5. BatchOf(<<p, last>>) \in 1 .. Len(x)
    <3>1. <<p, last>> \in Numbers
      BY <1>1, <2>1, <2>3 DEF Numbers
    <3> QED
      BY <1>1, <3>1, BatchOfType
  <2>6. x[BatchOf(<<p, last>>)] # "none"
    BY <2>3 DEF Fitting
  <2> QED
    BY <1>2, <2>4, <2>5, <2>6
<1> QED
  BY <1>3, <1>4

\* A consumer at work on its packet, one that gives it up after an exception, and
\* one that has done with it.
Works(t) ==
    \/ Ask(t) \/ Get(t) \/ Close(t) \/ Connect(t) \/ SubmitAnswered(t) \/ SubmitFails(t)
    \/ Clear(t) \/ ReadCounter(t) \/ WriteCounter(t) \/ HearNothing(t)
GivesUp(t) == PrepareThrows(t) \/ BuildThrows(t)
Stops(t) == Finish(t) \/ Fail(t) \/ RecordsThrow(t) \/ FailThrows(t) \/ Crash(t)

LEMMA Kinds ==
    ASSUME NEW t \in Threads, Step(t) \/ Throw(t) \/ Crash(t)
    PROVE  Take(t) \/ Works(t) \/ GivesUp(t) \/ Stops(t)
BY DEF Step, Throw, Works, GivesUp, Stops

\* A consumer that goes on with its packet.
Goes(t) ==
    /\ thread' \in [Threads -> Work]
    /\ \A u \in Threads \ {t} : thread'[u] = thread[u]
    /\ ~At(t, "idle") /\ thread'[t].at # "idle"
    /\ thread'[t].packet = thread[t].packet
    /\ thread[t].at = "fail" => thread'[t].at = "fail"
    /\ thread'[t].at = "build" => Len(thread'[t].answers) = BatchCount(thread[t].packet)
    /\ thread'[t].at = "connect" => Close(t)

LEMMA GoesOn ==
    ASSUME TypeOK, NEW t \in Threads, Works(t) \/ GivesUp(t)
    PROVE  Goes(t)
<1> DEFINE w == thread[t]
<1>0. w \in Work
  BY DEF TypeOK
<1>g. ASSUME NEW x \in Work, Go(t, x), ~At(t, "idle"), x.at # "idle", x.packet = w.packet,
             w.at # "fail", x.at = "build" => Len(x.answers) = BatchCount(w.packet),
             x.at = "connect" => Close(t)
      PROVE  Goes(t)
  BY <1>g, GoType DEF Goes
<1> HIDE DEF w
<1> USE DEF Places
<1>a. ASSUME NEW x \in Work, NEW answer \in {"none", "accepted", "refused"},
             Go(t, Answered(x, answer)), ~At(t, "idle"), x.packet = w.packet, w.at # "fail"
      PROVE  Goes(t)
  <2>1. /\ Answered(x, answer) \in Work /\ Answered(x, answer).packet = w.packet
        /\ Answered(x, answer).at \notin {"idle", "connect"}
        /\ Answered(x, answer).at = "build" =>
               Len(Answered(x, answer).answers) = BatchCount(w.packet)
    BY <1>a, AnsweredType
  <2> QED
    BY <1>a, <1>g, <2>1
<1>1. ASSUME NEW place \in Places \ {"idle", "build"}, ~At(t, "idle"), w.at # "fail",
             place = "connect" => Close(t), Go(t, [w EXCEPT !.at = place])
      PROVE  Goes(t)
  <2>1. /\ [w EXCEPT !.at = place] \in Work /\ [w EXCEPT !.at = place].at = place
        /\ [w EXCEPT !.at = place].packet = w.packet
    BY <1>0, <1>1 DEF Work
  <2> QED
    BY <1>1, <1>g, <2>1
<1>2. CASE Ask(t)
  BY <1>1, <1>2 DEF Ask, At, w
<1>3. CASE Get(t)
  <2>1. w.at = "get"
    BY <1>3 DEF Get, At, w
  <2>2. CASE Go(t, Answered(w, "none"))
    BY <1>0, <1>a, <2>1, <2>2 DEF At, w
  <2>3. CASE registered # 0 /\ Go(t, [w EXCEPT !.at = "submit", !.conn = registered])
    <3>1. [w EXCEPT !.at = "submit", !.conn = registered] \in Work
      BY <1>0 DEF Work, TypeOK
    <3>2. /\ [w EXCEPT !.at = "submit", !.conn = registered].at = "submit"
          /\ [w EXCEPT !.at = "submit", !.conn = registered].packet = w.packet
      BY <1>0 DEF Work
    <3> QED
      BY <1>g, <2>1, <2>3, <3>1, <3>2 DEF At, w
  <2> QED
    BY <1>3, <2>2, <2>3 DEF Get, w
<1>4. CASE Close(t) \/ Connect(t) \/ HearNothing(t) \/ GivesUp(t)
  BY <1>1, <1>4 DEF Close, Connect, HearNothing, GivesUp, PrepareThrows, BuildThrows, At, w
<1>5. CASE SubmitAnswered(t)
  <2>1. w.at = "submit"
    BY <1>5 DEF SubmitAnswered, At, w
  <2>2. CASE Go(t, Answered(w, "refused"))
    BY <1>0, <1>a, <2>1, <2>2 DEF At, w
  <2>3. CASE Go(t, [w EXCEPT !.at = "clear", !.conn = 0])
    <3>1. [w EXCEPT !.at = "clear", !.conn = 0] \in Work
      BY <1>0 DEF Work
    <3>2. /\ [w EXCEPT !.at = "clear", !.conn = 0].at = "clear"
          /\ [w EXCEPT !.at = "clear", !.conn = 0].packet = w.packet
      BY <1>0 DEF Work
    <3> QED
      BY <1>g, <2>1, <2>3, <3>1, <3>2 DEF At, w
  <2> QED
    BY <1>5, <2>2, <2>3 DEF SubmitAnswered, w
<1>6. CASE SubmitFails(t)
  <2>1. w.at = "submit"
    BY <1>6 DEF SubmitFails, At, w
  <2>2. PICK b \in BOOLEAN : Go(t, [w EXCEPT !.at = "read", !.conn = 0, !.throws = b])
    BY <1>6 DEF SubmitFails, w
  <2>3. [w EXCEPT !.at = "read", !.conn = 0, !.throws = b] \in Work
    BY <1>0 DEF Work
  <2>4. /\ [w EXCEPT !.at = "read", !.conn = 0, !.throws = b].at = "read"
        /\ [w EXCEPT !.at = "read", !.conn = 0, !.throws = b].packet = w.packet
    BY <1>0 DEF Work
  <2> QED
    BY <1>g, <2>1, <2>2, <2>3, <2>4 DEF At, w
<1>7. CASE Clear(t)
  BY <1>0, <1>a, <1>7 DEF Clear, At, w
<1>8. CASE ReadCounter(t)
  <2>1. w.at = "read" /\ Go(t, [w EXCEPT !.at = "write", !.counter = errors])
    BY <1>8 DEF ReadCounter, At, w
  <2>2. [w EXCEPT !.at = "write", !.counter = errors] \in Work
    BY <1>0 DEF Work, TypeOK
  <2>3. /\ [w EXCEPT !.at = "write", !.counter = errors].at = "write"
        /\ [w EXCEPT !.at = "write", !.counter = errors].packet = w.packet
    BY <1>0 DEF Work
  <2> QED
    BY <1>g, <2>1, <2>2, <2>3 DEF At, w
<1>9. CASE WriteCounter(t)
  <2> DEFINE x == [w EXCEPT !.counter = 0, !.throws = FALSE]
  <2>1. w.at = "write" /\ Go(t, IF w.throws THEN [x EXCEPT !.at = "fail"] ELSE Answered(x, "none"))
    BY <1>9 DEF WriteCounter, At, w
  <2>2. x \in Work /\ x.packet = w.packet
    BY <1>0 DEF Work
  <2>3. /\ [x EXCEPT !.at = "fail"] \in Work /\ [x EXCEPT !.at = "fail"].at = "fail"
        /\ [x EXCEPT !.at = "fail"].packet = w.packet
    BY <1>0 DEF Work
  <2> HIDE DEF x
  <2> QED
    BY <1>a, <1>g, <2>1, <2>2, <2>3 DEF At, w
<1> QED
  BY <1>2, <1>3, <1>4, <1>5, <1>6, <1>7, <1>8, <1>9 DEF Works

Pauses(t) ==
    /\ thread' \in [Threads -> Work] /\ thread'[t] = Idle
    /\ \A u \in Threads \ {t} : thread'[u] = thread[u]

LEMMA Begins ==
    ASSUME TypeOK, NEW t \in Threads, NEW p \in Packets,
           Go(t, [Idle EXCEPT !.packet = p, !.at = IF Group(p) = 0 THEN "fail" ELSE "ask"])
    PROVE  /\ thread' \in [Threads -> Work]
           /\ \A u \in Threads \ {t} : thread'[u] = thread[u]
           /\ thread'[t].packet = p /\ thread'[t].answers = << >>
           /\ thread'[t].at = IF Group(p) = 0 THEN "fail" ELSE "ask"
<1> DEFINE place == IF Group(p) = 0 THEN "fail" ELSE "ask"
<1>1. [Idle EXCEPT !.packet = p, !.at = place] \in Work
  BY IdleType DEF Work, Places
<1>2. /\ [Idle EXCEPT !.packet = p, !.at = place].packet = p
      /\ [Idle EXCEPT !.packet = p, !.at = place].answers = << >>
      /\ [Idle EXCEPT !.packet = p, !.at = place].at = place
  BY DEF Idle
<1> QED
  BY <1>1, <1>2, GoType

LEMMA PausesWhen ==
    ASSUME TypeOK, NEW t \in Threads, Stops(t)
    PROVE  Pauses(t) /\ waiting \ {thread[t].packet} \subseteq waiting' /\ ~At(t, "idle")
<1>1. Go(t, Idle)
  BY DEF Stops, Finish, Fail, RecordsThrow, FailThrows, Crash
<1>2. waiting \ {thread[t].packet} \subseteq waiting' /\ ~At(t, "idle")
  BY DEF Stops, Finish, Fail, RecordsThrow, FailThrows, Crash, At
<1> QED
  BY <1>1, <1>2, GoType, IdleType DEF Pauses

\* What a content is billed as never changes; a packet in trouble stays so.
LEMMA FeeStays ==
    ASSUME Next
    PROVE  fee' = fee /\ troubled \subseteq troubled'
BY DEF Next, Step, Throw, Take, Ask, Get, Close, Connect, SubmitAnswered, SubmitFails, Clear,
       ReadCounter, WriteCounter, Finish, HearNothing, Fail, PrepareThrows, BuildThrows,
       RecordsThrow, FailThrows, Crash, Terminate, Remove, results

LEMMA BusyStep ==
    ASSUME TypeOK, BusyOK, NEW t \in Threads, Step(t) \/ Throw(t) \/ Crash(t)
    PROVE  BusyOK'
<1> USE DEF BusyOK, At
<1>f. fee' = fee /\ \A p \in Packets : Group(p)' = Group(p) /\ BatchCount(p)' = BatchCount(p)
  <2>1. fee' = fee
    BY FeeStays DEF Next
  <2> QED
    BY <2>1 DEF Group, BatchCount
<1>p. \A u \in Threads : ~At(u, "idle") => thread[u].packet \in Packets /\ thread[u].packet # "none"
  BY NoneAssumption DEF TypeOK, Work
<1>1. CASE Take(t)
  <2>1. PICK p \in waiting :
            /\ ~Busy(p)
            /\ Go(t, [Idle EXCEPT !.packet = p, !.at = IF Group(p) = 0 THEN "fail" ELSE "ask"])
    BY <1>1 DEF Take
  <2>2. p \in Packets /\ p # "none" /\ waiting' = waiting
    BY <1>1, NoneAssumption DEF Take, TypeOK
  <2>3. /\ \A u \in Threads : thread[u].packet # p
        /\ \A u \in Threads \ {t} : thread'[u] = thread[u]
        /\ thread'[t].packet = p /\ thread'[t].at \in {"ask", "fail"}
        /\ thread'[t].at # "fail" => Group(p) # 0
    BY <2>1, <2>2, Begins DEF Busy
  <2>4. \A u \in Threads :
            /\ thread'[u].packet = "none" <=> thread'[u].at = "idle"
            /\ thread'[u].at # "idle" => thread'[u].packet \in waiting'
    BY <2>2, <2>3
  <2>5. \A u \in Threads :
            /\ thread'[u].at \notin {"idle", "fail"} => Group(thread[u].packet)' # 0
            /\ thread'[u].at = "build" =>
                   Len(thread'[u].answers) = BatchCount(thread[u].packet)'
    <3> SUFFICES ASSUME NEW u \in Threads
                 PROVE  /\ thread'[u].at \notin {"idle", "fail"} => Group(thread[u].packet)' # 0
                        /\ thread'[u].at = "build" =>
                               Len(thread'[u].answers) = BatchCount(thread[u].packet)'
      OBVIOUS
    <3>1. CASE u = t
      BY <1>f, <2>2, <2>3, <3>1
    <3>2. CASE u # t
      BY <1>f, <1>p, <2>3, <3>2
    <3> QED
      BY <3>1, <3>2
  <2>6. \A u, v \in Threads :
            thread'[u].packet = thread'[v].packet /\ thread'[u].at # "idle" => u = v
    <3> TAKE u, v \in Threads
    <3>1. CASE u = t \/ v = t
      BY <2>3, <3>1
    <3>2. CASE u # t /\ v # t
      BY <2>3, <3>2
    <3> QED
      BY <3>1, <3>2
  <2> QED
    BY <2>4, <2>5, <2>6
<1>2. CASE Goes(t) /\ waiting' = waiting
  BY <1>f, <1>p, <1>2 DEF Goes
<1>3. CASE Stops(t)
  BY <1>f, <1>p, <1>3, PausesWhen DEF Pauses, Idle
<1>4. Take(t) \/ Stops(t) \/ (Goes(t) /\ waiting' = waiting)
  <2>1. Works(t) \/ GivesUp(t) => waiting' = waiting
    BY DEF Works, GivesUp, Ask, Get, Close, Connect, SubmitAnswered, SubmitFails, Clear, ReadCounter,
           WriteCounter, HearNothing, PrepareThrows, BuildThrows
  <2> QED
    BY <2>1, GoesOn, Kinds
<1> QED
  BY <1>1, <1>2, <1>3, <1>4

LEMMA ThreadStep ==
    ASSUME TypeOK, BusyOK, NEW t \in Threads, Step(t) \/ Throw(t) \/ Crash(t)
    PROVE  /\ thread' \in [Threads -> Work]
           /\ \A u \in Threads : lock' = u <=> thread'[u].at = "connect"
<1> USE DEF At
<1>0. \A u \in Threads : (lock = u <=> thread[u].at = "connect") /\ u # "none"
  BY NoneAssumption DEF TypeOK
<1>1. CASE Take(t)
  <2>1. PICK p \in Packets :
            Go(t, [Idle EXCEPT !.packet = p, !.at = IF Group(p) = 0 THEN "fail" ELSE "ask"])
    BY <1>1 DEF Take, TypeOK
  <2>2. lock' = lock /\ thread[t].at = "idle"
    BY <1>1 DEF Take, connecting
  <2> QED
    BY <1>0, <2>1, <2>2, Begins
<1>2. CASE Goes(t) /\ lock' = lock /\ thread[t].at # "connect" /\ ~Close(t)
  BY <1>0, <1>2 DEF Goes
<1>3. CASE Close(t)
  <2>1. lock = "none" /\ lock' = t /\ Goes(t)
    BY <1>3, GoesOn DEF Works, Close
  <2>2. thread[t] \in Work /\ thread' = [thread EXCEPT ![t] = [thread[t] EXCEPT !.at = "connect"]]
    BY <1>3 DEF Close, Go, TypeOK
  <2>3. thread'[t].at = "connect"
    BY <2>2 DEF Work, TypeOK
  <2> QED
    BY <1>0, <2>1, <2>3 DEF Goes
<1>4. CASE Connect(t)
  <2>1. lock = t /\ lock' = "none" /\ Goes(t) /\ ~Close(t)
    BY <1>0, <1>4, GoesOn DEF Works, Connect, Close
  <2> QED
    BY <1>0, <2>1 DEF Goes
<1>5. CASE Stops(t)
  <2>1. lock' = lock /\ lock # t
    BY <1>0, <1>5 DEF Stops, Finish, Fail, RecordsThrow, FailThrows, Crash, connecting
  <2> QED
    BY <1>0, <1>5, <2>1, PausesWhen DEF Pauses, Idle
<1>6. \/ Close(t) \/ Connect(t)
      \/ Works(t) \/ GivesUp(t) => lock' = lock /\ thread[t].at # "connect" /\ ~Close(t)
  BY DEF Works, GivesUp, Ask, Get, Close, SubmitAnswered, SubmitFails, Clear, ReadCounter,
         WriteCounter, HearNothing, PrepareThrows, BuildThrows, connecting
<1>7. \/ Take(t) \/ Stops(t) \/ Close(t) \/ Connect(t)
      \/ Goes(t) /\ lock' = lock /\ thread[t].at # "connect" /\ ~Close(t)
  BY <1>6, GoesOn, Kinds
<1> QED
  BY <1>1, <1>2, <1>3, <1>4, <1>5, <1>7

LEMMA TookType ==
    ASSUME TypeOK, NEW S
    PROVE  Took(S) \in [Numbers -> Nat]
BY DEF Took, TypeOK

LEMMA PacketType ==
    ASSUME TypeOK, BusyOK, NEW t \in Threads, ~At(t, "idle")
    PROVE  thread[t].packet \in Packets
BY DEF TypeOK, BusyOK

LEMMA RecordsType ==
    ASSUME TypeOK, BusyOK, NEW t \in Threads, At(t, "build"),
           recorded' = Records(thread[t].packet, thread[t].answers)
    PROVE  /\ recorded' \in [Numbers -> SUBSET {"accepted", "refused", "other"}]
           /\ \A n \in Numbers : n[1] = thread[t].packet => recorded'[n] # {}
           /\ \A n \in Numbers : recorded[n] \subseteq recorded'[n]
<1> DEFINE p == thread[t].packet
<1> DEFINE x == thread[t].answers
<1>1. \A j \in 1 .. Size : Status(x, p, j) \in {"accepted", "refused", "other"}
  BY StatusType
<1>2. \A n \in Numbers : n[2] \in 1 .. Size
  BY DEF Numbers
<1>3. recorded' = [n \in Numbers |-> IF n[1] = p THEN recorded[n] \cup {Status(x, p, n[2])}
                                     ELSE recorded[n]]
  BY DEF Records
<1> HIDE DEF p, x
<1>4. recorded \in [Numbers -> SUBSET {"accepted", "refused", "other"}]
  BY DEF TypeOK
<1>5. \A n \in Numbers : Status(x, p, n[2]) \in {"accepted", "refused", "other"}
  BY <1>1, <1>2
<1>6. /\ recorded' \in [Numbers -> SUBSET {"accepted", "refused", "other"}]
      /\ \A n \in Numbers : recorded[n] \subseteq recorded'[n]
      /\ \A n \in Numbers : n[1] = p => recorded'[n] # {}
  BY <1>3, <1>4, <1>5
<1> QED
  BY <1>6 DEF p

\* What a consumer leaves behind when it gives its packet up or has done with it.
LEMMA StopsType ==
    ASSUME TypeOK, BusyOK, NEW t \in Threads, Stops(t) \/ GivesUp(t)
    PROVE  /\ recorded' \in [Numbers -> SUBSET {"accepted", "refused", "other"}]
           /\ \A n \in Numbers : recorded[n] \subseteq recorded'[n]
           /\ failed \subseteq failed' /\ failed' \subseteq Numbers
           /\ lost \subseteq lost' /\ lost' \subseteq Packets /\ IsFiniteSet(lost')
           /\ troubled' \subseteq Packets
           /\ thread[t].packet \in Packets
<1>1. thread[t].packet \in Packets
  BY PacketType DEF Stops, GivesUp, Finish, Fail, RecordsThrow, FailThrows, Crash, PrepareThrows,
                    BuildThrows, At
<1>2. /\ recorded' \in [Numbers -> SUBSET {"accepted", "refused", "other"}]
      /\ \A n \in Numbers : recorded[n] \subseteq recorded'[n]
  <2>1. \/ recorded' = recorded
        \/ At(t, "build") /\ recorded' = Records(thread[t].packet, thread[t].answers)
    BY DEF Stops, GivesUp, Finish, Fail, RecordsThrow, FailThrows, Crash, PrepareThrows, BuildThrows
  <2> QED
    BY <2>1, RecordsType DEF TypeOK
<1>3. failed \subseteq failed' /\ failed' \subseteq failed \cup NumbersOf(thread[t].packet)
  BY DEF Stops, GivesUp, Finish, Fail, RecordsThrow, FailThrows, Crash, PrepareThrows, BuildThrows,
         Refusals
<1>4. /\ lost' = lost \/ lost' = lost \cup {thread[t].packet}
      /\ troubled' = troubled \/ troubled' = troubled \cup {thread[t].packet}
  BY DEF Stops, GivesUp, Finish, Fail, RecordsThrow, FailThrows, Crash, PrepareThrows, BuildThrows
<1>5. IsFiniteSet(lost')
  BY <1>4, FS_AddElement DEF TypeOK
<1> QED
  BY <1>1, <1>2, <1>3, <1>4, <1>5 DEF TypeOK, NumbersOf

LEMMA FaultsBound ==
    ASSUME TypeOK, Faults < MaxFaults
    PROVE  notices + 1 \in 0 .. MaxFaults /\ crashes + 1 \in 0 .. MaxFaults
<1>1. Cardinality(lost) \in Nat /\ notices \in Nat /\ crashes \in Nat /\ MaxFaults \in Nat
  BY FS_CardinalityType, LimitsAssumption DEF TypeOK
<1>2. notices + crashes + Cardinality(lost) < MaxFaults
  BY DEF Faults
<1> QED
  BY <1>1, <1>2

LEMMA RestType ==
    ASSUME TypeOK, BusyOK, NEW t \in Threads, Step(t) \/ Throw(t) \/ Crash(t)
    PROVE  /\ fee' \in Fees /\ waiting' \subseteq Packets
           /\ registered' \in Conns \cup {0} /\ open' \subseteq Conns
           /\ lock' \in Threads \cup {"none"} /\ remover' \in {"idle", "remove"}
           /\ errors' \in Nat
           /\ sent' \in [Numbers -> Nat]
           /\ recorded' \in [Numbers -> SUBSET {"accepted", "refused", "other"}]
           /\ failed' \subseteq Numbers /\ troubled' \subseteq Packets
           /\ lost' \subseteq Packets /\ IsFiniteSet(lost')
           /\ notices' \in 0 .. MaxFaults /\ crashes' \in 0 .. MaxFaults
<1> USE DEF TypeOK, connecting, results
<1>1. CASE Take(t) \/ Ask(t) \/ ReadCounter(t) \/ HearNothing(t)
  BY <1>1 DEF Take, Ask, ReadCounter, HearNothing
<1>2. CASE Get(t)
  BY <1>2, PacketType DEF Get, At
<1>3. CASE Close(t)
  BY <1>3 DEF Close
<1>4. CASE Connect(t)
  BY <1>4 DEF Connect
<1>5. CASE SubmitAnswered(t) \/ SubmitFails(t)
  <2>1. thread[t].packet \in Packets
    BY <1>5, PacketType DEF SubmitAnswered, SubmitFails, At
  <2>2. sent' \in [Numbers -> Nat]
    BY <1>5, TookType DEF SubmitAnswered, SubmitFails
  <2>3. troubled' \subseteq Packets
    BY <1>5, <2>1 DEF SubmitAnswered, SubmitFails
  <2> QED
    BY <1>5, <2>2, <2>3 DEF SubmitAnswered, SubmitFails
<1>6. CASE Clear(t)
  BY <1>6 DEF Clear
<1>7. CASE WriteCounter(t)
  <2>1. thread[t].counter \in Nat
    BY DEF Work
  <2> QED
    BY <1>7, <2>1 DEF WriteCounter
<1>8. CASE Stops(t) \/ GivesUp(t)
  <2>1. /\ fee' = fee /\ sent' = sent /\ errors' = errors /\ notices' = notices
        /\ UNCHANGED <<registered, open, lock, remover>> /\ waiting' \subseteq waiting
    BY <1>8 DEF Stops, GivesUp, Finish, Fail, RecordsThrow, FailThrows, Crash, PrepareThrows,
                BuildThrows
  <2>2. crashes' \in 0 .. MaxFaults
    <3>1. crashes' = crashes \/ (crashes' = crashes + 1 /\ Faults < MaxFaults)
      BY <1>8 DEF Stops, GivesUp, Finish, Fail, RecordsThrow, FailThrows, Crash, PrepareThrows,
                  BuildThrows
    <3>2. Faults < MaxFaults => crashes + 1 \in 0 .. MaxFaults
      BY FaultsBound
    <3> QED
      BY <3>1, <3>2
  <2> QED
    BY <1>8, <2>1, <2>2, StopsType
<1> QED
  BY <1>1, <1>2, <1>3, <1>4, <1>5, <1>6, <1>7, <1>8, Kinds DEF Works

LEMMA GatewayType ==
    ASSUME TypeOK, Terminate \/ Remove
    PROVE  TypeOK' /\ (BusyOK => BusyOK')
<1>1. UNCHANGED <<fee, waiting, thread, errors, lock, sent, recorded, failed, troubled, lost, crashes>>
  BY DEF Terminate, Remove, results
<1>2. /\ registered' \in Conns \cup {0} /\ open' \subseteq Conns
      /\ remover' \in {"idle", "remove"} /\ notices' \in 0 .. MaxFaults
  BY FaultsBound, LimitsAssumption DEF Terminate, Remove, TypeOK, results
<1> QED
  BY <1>1, <1>2 DEF TypeOK, BusyOK, At, Group, BatchCount

-----------------------------------------------------------------------------
(* Answers                                                                 *)

\* Only where a packet ends, or is given up, are numbers answered; only there is it
\* taken off the queue.
LEMMA AnswerSteps ==
    ASSUME Next
    PROVE  \/ \E t \in Threads : Stops(t) \/ GivesUp(t)
           \/ UNCHANGED <<waiting, recorded, failed, lost>>
BY DEF Next, Step, Throw, Stops, GivesUp, Take, Ask, Get, Close, Connect, SubmitAnswered, SubmitFails,
       Clear, ReadCounter, WriteCounter, HearNothing, Terminate, Remove, results

\* A packet is taken off the queue when its numbers were answered, or lost to an
\* exception.
LEMMA TakenOff ==
    ASSUME TypeOK, BusyOK, NEW t \in Threads, Stops(t) \/ GivesUp(t)
    PROVE  \/ waiting' = waiting
           \/ /\ waiting' = waiting \ {thread[t].packet}
              /\ \/ thread[t].packet \in lost'
                 \/ \A n \in Numbers : n[1] = thread[t].packet => recorded'[n] # {} \/ n \in failed'
<1>1. CASE Finish(t)
  BY <1>1, RecordsType DEF Finish
<1>2. CASE Fail(t)
  BY <1>2 DEF Fail, NumbersOf
<1>3. CASE RecordsThrow(t) \/ FailThrows(t)
  BY <1>3 DEF RecordsThrow, FailThrows
<1>4. CASE Crash(t) \/ GivesUp(t)
  BY <1>4 DEF Crash, GivesUp, PrepareThrows, BuildThrows
<1> QED
  BY <1>1, <1>2, <1>3, <1>4 DEF Stops

LEMMA AnsweredStep ==
    ASSUME TypeOK, BusyOK, EveryNumberAnswered, Next
    PROVE  EveryNumberAnswered'
<1> USE DEF EveryNumberAnswered
<1>1. ASSUME NEW t \in Threads, Stops(t) \/ GivesUp(t) PROVE EveryNumberAnswered'
  <2>1. /\ \A n \in Numbers : recorded[n] \subseteq recorded'[n]
        /\ failed \subseteq failed' /\ lost \subseteq lost'
    BY <1>1, StopsType
  <2> QED
    BY <1>1, <2>1, TakenOff
<1>2. CASE UNCHANGED <<waiting, recorded, failed, lost>>
  BY <1>2
<1> QED
  BY <1>1, <1>2, AnswerSteps

-----------------------------------------------------------------------------
(* Connections                                                             *)

\* The connections that nobody can close any more, and the one that the pending
\* end of a termination may yet leave, were paid for with a termination each.
Orphans == open \ {registered}
OrphansOK ==
    /\ lock # "none" => registered = 0
    /\ IsFiniteSet(open)
    /\ Cardinality(Orphans) + (IF remover = "remove" THEN 1 ELSE 0) <= notices

LEMMA OrphansBound ==
    ASSUME TypeOK, OrphansOK
    PROVE  ConnectionsBounded
<1>1. IsFiniteSet(Orphans) /\ Cardinality(Orphans) \in Nat /\ notices \in Nat
  BY FS_RemoveElement, FS_CardinalityType, FS_Subset, LimitsAssumption
     DEF OrphansOK, Orphans, TypeOK
<1>2. Cardinality(Orphans) <= notices
  BY <1>1 DEF OrphansOK
<1>3. Cardinality(open) <= Cardinality(Orphans) + 1
  <2>1. CASE registered \in open
    BY <1>1, <2>1, FS_RemoveElement, FS_CardinalityType DEF OrphansOK, Orphans
  <2>2. CASE registered \notin open
    <3>1. Orphans = open
      BY <2>2 DEF Orphans
    <3> QED
      BY <1>1, <3>1
  <2> QED
    BY <2>1, <2>2
<1>4. Cardinality(open) \in Nat
  BY FS_CardinalityType DEF OrphansOK
<1> QED
  BY <1>1, <1>2, <1>3, <1>4 DEF ConnectionsBounded

LEMMA OrphansStep ==
    ASSUME TypeOK, BusyOK, OrphansOK, Next
    PROVE  OrphansOK'
<1>0. /\ IsFiniteSet(Orphans) /\ Cardinality(Orphans) \in Nat /\ notices \in Nat
      /\ IsFiniteSet(open) /\ 0 \notin open /\ 0 \notin Conns
  BY FS_CardinalityType, FS_Subset, LimitsAssumption, ConnsAssumption DEF OrphansOK, Orphans, TypeOK
<1>1. ASSUME NEW t \in Threads, Close(t) PROVE OrphansOK'
  <2>1. open' = Orphans /\ registered' = 0 /\ UNCHANGED <<remover, notices>>
    BY <1>1 DEF Close, Orphans
  <2>2. Orphans' = Orphans
    BY <1>0, <2>1 DEF Orphans
  <2> QED
    BY <1>0, <2>1, <2>2 DEF OrphansOK
<1>2. ASSUME NEW t \in Threads, Connect(t) PROVE OrphansOK'
  <2>1. /\ lock' = "none" /\ UNCHANGED <<remover, notices>>
        /\ \/ UNCHANGED <<registered, open>>
           \/ \E c \in Conns \ InUse : registered' = c /\ open' = open \cup {c}
    BY <1>2 DEF Connect
  <2>2. CASE UNCHANGED <<registered, open>>
    BY <2>1, <2>2 DEF OrphansOK, Orphans
  <2>3. ASSUME NEW c \in Conns \ InUse, registered' = c, open' = open \cup {c} PROVE OrphansOK'
    <3>1. lock = t /\ t # "none"
      BY <1>2, NoneAssumption DEF Connect, TypeOK
    <3>2. registered = 0 /\ c \notin open
      BY <2>3, <3>1 DEF OrphansOK, InUse
    <3>3. Orphans' = Orphans /\ IsFiniteSet(open')
      BY <1>0, <2>3, <3>2, FS_AddElement DEF Orphans
    <3> QED
      BY <2>1, <3>3 DEF OrphansOK
  <2> QED
    BY <2>1, <2>2, <2>3
<1>3. CASE Terminate
  <2>1. /\ open' = Orphans /\ registered' = registered /\ lock' = lock
        /\ remover = "idle" /\ remover' = "remove" /\ notices' = notices + 1
    BY <1>3 DEF Terminate, Orphans
  <2>2. Orphans' = Orphans
    BY <2>1 DEF Orphans
  <2> QED
    BY <1>0, <2>1, <2>2 DEF OrphansOK
<1>4. CASE Remove
  <2>1. /\ registered' = 0 /\ remover = "remove" /\ remover' = "idle"
        /\ UNCHANGED <<open, lock, notices>>
    BY <1>4 DEF Remove
  <2>2. Orphans' = open
    BY <1>0, <2>1 DEF Orphans
  <2>3. Cardinality(open) <= Cardinality(Orphans) + 1
    <3>1. CASE registered \in open
      BY <1>0, <3>1, FS_RemoveElement, FS_CardinalityType DEF Orphans
    <3>2. CASE registered \notin open
      <4>1. Orphans = open
        BY <3>2 DEF Orphans
      <4> QED
        BY <1>0, <4>1
    <3> QED
      BY <3>1, <3>2
  <2>4. Cardinality(open) \in Nat
    BY <1>0, FS_CardinalityType
  <2> QED
    BY <1>0, <2>1, <2>2, <2>3, <2>4 DEF OrphansOK
<1>5. CASE UNCHANGED <<registered, open, lock, remover, notices>>
  BY <1>5 DEF OrphansOK, Orphans
<1>6. \/ \E t \in Threads : Close(t) \/ Connect(t)
      \/ Terminate \/ Remove \/ UNCHANGED <<registered, open, lock, remover, notices>>
  <2>1. \A t \in Threads : Take(t) \/ Works(t) \/ GivesUp(t) =>
            Close(t) \/ Connect(t) \/ connecting' = connecting
    BY DEF Take, Works, GivesUp, Ask, Get, SubmitAnswered, SubmitFails, Clear, ReadCounter,
           WriteCounter, HearNothing, PrepareThrows, BuildThrows
  <2>2. \A t \in Threads : Stops(t) => connecting' = connecting
    BY DEF Stops, Finish, Fail, RecordsThrow, FailThrows, Crash
  <2>3. connecting' = connecting => UNCHANGED <<registered, open, lock, remover, notices>>
    BY DEF connecting
  <2> QED
    BY <2>1, <2>2, <2>3, Kinds DEF Next
<1> QED
  BY <1>1, <1>2, <1>3, <1>4, <1>5, <1>6

-----------------------------------------------------------------------------
(* Sending                                                                 *)

\* How many of its batches a consumer has sent, or given up sending.
DoneOf(x) == IF x.at \in {"clear", "read", "write"} THEN Len(x.answers) + 1 ELSE Len(x.answers)

\* The gateway may yet get the number, without another crash.
Owed(n) ==
    /\ n[1] \in waiting
    /\ \A t \in Threads : thread[t].packet = n[1] =>
           /\ ~At(t, "fail")
           /\ \A i \in 1 .. DoneOf(thread[t]) : n \notin BatchNumbers(n[1], i)
SentOK ==
    \A n \in Numbers : sent[n] <= crashes + 1 /\ (Owed(n) => sent[n] <= crashes)

LEMMA DoneType ==
    ASSUME NEW x \in Work
    PROVE  Len(x.answers) \in Nat /\ DoneOf(x) \in Nat
BY DEF Work, DoneOf

\* What a consumer has done stays done until it fails or stops.
LEMMA DoneGrows ==
    ASSUME TypeOK, NEW t \in Threads, Works(t) \/ GivesUp(t)
    PROVE  /\ thread'[t].at = "fail" \/ DoneOf(thread[t]) <= DoneOf(thread'[t])
           /\ At(t, "submit") => DoneOf(thread'[t]) = Batch(t)
<1> DEFINE w == thread[t]
<1>0. w \in Work /\ Len(w.answers) \in Nat
  BY DoneType DEF TypeOK
<1>a. ASSUME NEW x \in Work, NEW answer \in {"none", "accepted", "refused"},
             Go(t, Answered(x, answer)), x.answers = w.answers
      PROVE  DoneOf(thread'[t]) = Len(w.answers) + 1
  <2>1. Len(Append(w.answers, answer)) = Len(w.answers) + 1
    BY <1>0 DEF Work
  <2>2. thread'[t] = Answered(x, answer) /\ Answered(x, answer).at \in {"ask", "build"}
    BY <1>a, AnsweredType, GoType
  <2>3. Answered(x, answer).answers = Append(w.answers, answer)
    BY <1>a, AnsweredType
  <2> QED
    BY <1>0, <2>1, <2>2, <2>3 DEF DoneOf
<1>g. ASSUME NEW x \in Work, Go(t, x) PROVE thread'[t] = x
  BY <1>g, GoType
<1> HIDE DEF w
<1> USE DEF Places
<1>1. ASSUME NEW place \in Places, Go(t, [w EXCEPT !.at = place])
      PROVE  thread'[t].at = place /\ thread'[t].answers = w.answers
  <2>1. /\ [w EXCEPT !.at = place] \in Work /\ [w EXCEPT !.at = place].at = place
        /\ [w EXCEPT !.at = place].answers = w.answers
    BY <1>0 DEF Work
  <2> QED
    BY <1>1, <1>g, <2>1
<1>2. CASE Ask(t)
  <2>1. w.at = "ask" /\ \E place \in {"get", "start"} : Go(t, [w EXCEPT !.at = place])
    BY <1>2 DEF Ask, At, w
  <2> QED
    BY <1>0, <1>1, <2>1 DEF DoneOf, At, w
<1>3. CASE Get(t)
  <2>1. w.at = "get"
    BY <1>3 DEF Get, At, w
  <2>2. CASE Go(t, Answered(w, "none"))
    BY <1>0, <1>a, <2>1, <2>2 DEF DoneOf, At, w
  <2>3. CASE Go(t, [w EXCEPT !.at = "submit", !.conn = registered])
    <3>1. [w EXCEPT !.at = "submit", !.conn = registered] \in Work
      BY <1>0 DEF Work, TypeOK
    <3>2. /\ [w EXCEPT !.at = "submit", !.conn = registered].at = "submit"
          /\ [w EXCEPT !.at = "submit", !.conn = registered].answers = w.answers
      BY <1>0 DEF Work
    <3>3. thread'[t].at = "submit" /\ thread'[t].answers = w.answers
      BY <1>g, <2>3, <3>1, <3>2
    <3> QED
      BY <1>0, <2>1, <3>3 DEF DoneOf, At, w
  <2> QED
    BY <1>3, <2>2, <2>3 DEF Get, w
<1>4. CASE Close(t) \/ Connect(t) \/ HearNothing(t) \/ GivesUp(t)
  <2>1. /\ w.at \in {"ask", "start", "connect", "build"}
        /\ \E place \in {"connect", "get", "fail"} : Go(t, [w EXCEPT !.at = place])
    BY <1>4 DEF Close, Connect, HearNothing, GivesUp, PrepareThrows, BuildThrows, At, w
  <2> QED
    BY <1>0, <1>1, <2>1 DEF DoneOf, At, w
<1>5. CASE SubmitAnswered(t)
  <2>1. w.at = "submit"
    BY <1>5 DEF SubmitAnswered, At, w
  <2>2. CASE Go(t, Answered(w, "refused"))
    BY <1>0, <1>a, <2>1, <2>2 DEF DoneOf, At, Batch, w
  <2>3. CASE Go(t, [w EXCEPT !.at = "clear", !.conn = 0])
    <3>1. [w EXCEPT !.at = "clear", !.conn = 0] \in Work
      BY <1>0 DEF Work
    <3>2. /\ [w EXCEPT !.at = "clear", !.conn = 0].at = "clear"
          /\ [w EXCEPT !.at = "clear", !.conn = 0].answers = w.answers
      BY <1>0 DEF Work
    <3>3. thread'[t].at = "clear" /\ thread'[t].answers = w.answers
      BY <1>g, <2>3, <3>1, <3>2
    <3> QED
      BY <1>0, <2>1, <3>3 DEF DoneOf, At, Batch, w
  <2> QED
    BY <1>5, <2>2, <2>3 DEF SubmitAnswered, w
<1>6. CASE SubmitFails(t)
  <2>1. w.at = "submit"
    BY <1>6 DEF SubmitFails, At, w
  <2>2. PICK b \in BOOLEAN : Go(t, [w EXCEPT !.at = "read", !.conn = 0, !.throws = b])
    BY <1>6 DEF SubmitFails, w
  <2>3. [w EXCEPT !.at = "read", !.conn = 0, !.throws = b] \in Work
    BY <1>0 DEF Work
  <2>4. /\ [w EXCEPT !.at = "read", !.conn = 0, !.throws = b].at = "read"
        /\ [w EXCEPT !.at = "read", !.conn = 0, !.throws = b].answers = w.answers
    BY <1>0 DEF Work
  <2>5. thread'[t].at = "read" /\ thread'[t].answers = w.answers
    BY <1>g, <2>2, <2>3, <2>4
  <2> QED
    BY <1>0, <2>1, <2>5 DEF DoneOf, At, Batch, w
<1>7. CASE Clear(t)
  <2>1. w.at = "clear" /\ Go(t, Answered(w, "accepted"))
    BY <1>7 DEF Clear, At, w
  <2> QED
    BY <1>0, <1>a, <2>1 DEF DoneOf, At, w
<1>8. CASE ReadCounter(t)
  <2>1. w.at = "read" /\ Go(t, [w EXCEPT !.at = "write", !.counter = errors])
    BY <1>8 DEF ReadCounter, At, w
  <2>2. [w EXCEPT !.at = "write", !.counter = errors] \in Work
    BY <1>0 DEF Work, TypeOK
  <2>3. /\ [w EXCEPT !.at = "write", !.counter = errors].at = "write"
        /\ [w EXCEPT !.at = "write", !.counter = errors].answers = w.answers
    BY <1>0 DEF Work
  <2>4. thread'[t].at = "write" /\ thread'[t].answers = w.answers
    BY <1>g, <2>1, <2>2, <2>3
  <2> QED
    BY <1>0, <2>1, <2>4 DEF DoneOf, At, w
<1>9. CASE WriteCounter(t)
  <2> DEFINE x == [w EXCEPT !.counter = 0, !.throws = FALSE]
  <2>1. w.at = "write" /\ Go(t, IF w.throws THEN [x EXCEPT !.at = "fail"] ELSE Answered(x, "none"))
    BY <1>9 DEF WriteCounter, At, w
  <2>2. x \in Work /\ x.answers = w.answers
    BY <1>0 DEF Work
  <2>3. [x EXCEPT !.at = "fail"] \in Work /\ [x EXCEPT !.at = "fail"].at = "fail"
    BY <1>0 DEF Work
  <2> HIDE DEF x
  <2>4. CASE Go(t, Answered(x, "none"))
    BY <1>0, <1>a, <2>1, <2>2, <2>4 DEF DoneOf, At, w
  <2>5. CASE Go(t, [x EXCEPT !.at = "fail"])
    BY <1>g, <2>1, <2>3, <2>5 DEF At, w
  <2> QED
    BY <2>1, <2>4, <2>5
<1> QED
  BY <1>2, <1>3, <1>4, <1>5, <1>6, <1>7, <1>8, <1>9 DEF Works

LEMMA SentStep ==
    ASSUME TypeOK, BusyOK, SentOK, Next
    PROVE  SentOK'
<1>0. /\ fee' = fee
      /\ \A p, i : BatchNumbers(p, i)' = BatchNumbers(p, i)
  <2>1. fee' = fee
    BY FeeStays
  <2> QED
    BY <2>1 DEF BatchNumbers, Group, NumbersOf
<1>1. sent \in [Numbers -> Nat] /\ crashes \in Nat
  BY LimitsAssumption DEF TypeOK
<1>2. \A n \in Numbers : n[1] \in Packets /\ n[1] # "none"
  BY NoneAssumption DEF Numbers
<1>q. ASSUME UNCHANGED <<sent, crashes>>, \A n \in Numbers : Owed(n)' => Owed(n)
      PROVE  SentOK'
  BY <1>q DEF SentOK
<1>3. ASSUME NEW t \in Threads, Take(t) PROVE SentOK'
  <2>1. PICK p \in Packets :
            /\ ~Busy(p)
            /\ Go(t, [Idle EXCEPT !.packet = p, !.at = IF Group(p) = 0 THEN "fail" ELSE "ask"])
    BY <1>3 DEF Take, TypeOK
  <2>2. UNCHANGED <<waiting, sent, crashes>> /\ thread[t].packet = "none"
    BY <1>3 DEF Take, results, BusyOK
  <2>3. /\ \A u \in Threads \ {t} : thread'[u] = thread[u]
        /\ thread'[t].packet = p /\ \A u \in Threads : thread[u].packet # p
    BY <2>1, Begins DEF Busy
  <2>4. ASSUME NEW n \in Numbers, Owed(n)' PROVE Owed(n)
    BY <1>0, <1>2, <2>2, <2>3, <2>4 DEF Owed, At
  <2> QED
    BY <1>q, <2>2, <2>4
<1>4. ASSUME NEW t \in Threads, Stops(t), ~Crash(t) PROVE SentOK'
  <2>1. /\ UNCHANGED <<sent, crashes>> /\ waiting' = waiting \ {thread[t].packet}
    BY <1>4 DEF Stops, Finish, Fail, RecordsThrow, FailThrows
  <2>3. \A u \in Threads \ {t} : thread'[u] = thread[u]
    BY <1>4, PausesWhen DEF Pauses
  <2>2. ASSUME NEW n \in Numbers, Owed(n)' PROVE Owed(n)
    BY <1>0, <2>1, <2>2, <2>3 DEF Owed, At
  <2> QED
    BY <1>q, <2>1, <2>2
<1>5. ASSUME NEW t \in Threads, Crash(t) PROVE SentOK'
  <2>1. sent' = sent /\ crashes' = crashes + 1
    BY <1>5 DEF Crash
  <2> QED
    BY <1>1, <2>1 DEF SentOK
<1>6. ASSUME NEW t \in Threads, Goes(t), waiting' = waiting,
             thread'[t].at = "fail" \/ DoneOf(thread[t]) <= DoneOf(thread'[t])
      PROVE  \A n \in Numbers : Owed(n)' => Owed(n)
  <2> SUFFICES ASSUME NEW n \in Numbers, Owed(n)', NEW u \in Threads, thread[u].packet = n[1]
               PROVE  /\ n[1] \in waiting /\ ~At(u, "fail")
                      /\ \A i \in 1 .. DoneOf(thread[u]) : n \notin BatchNumbers(n[1], i)
    BY <1>6 DEF Owed
  <2>1. CASE u = t
    <3>1. DoneOf(thread[t]) \in Nat /\ DoneOf(thread'[t]) \in Nat
      BY <1>6, DoneType DEF TypeOK, Goes
    <3>2. thread'[t].at # "fail" /\ \A i \in 1 .. DoneOf(thread'[t]) : n \notin BatchNumbers(n[1], i)
      BY <1>0, <1>6, <2>1 DEF Owed, Goes, At
    <3> QED
      BY <1>6, <2>1, <3>1, <3>2 DEF Owed, Goes, At
  <2>2. CASE u # t
    BY <1>0, <1>6, <2>2 DEF Owed, Goes, At
  <2> QED
    BY <2>1, <2>2
<1>7. ASSUME NEW t \in Threads, Works(t) \/ GivesUp(t)
      PROVE  SentOK'
  <2>1. /\ Goes(t) /\ waiting' = waiting /\ crashes' = crashes
        /\ thread'[t].at = "fail" \/ DoneOf(thread[t]) <= DoneOf(thread'[t])
        /\ At(t, "submit") => DoneOf(thread'[t]) = Batch(t)
    BY <1>7, GoesOn, DoneGrows
       DEF Works, GivesUp, Ask, Get, Close, Connect, SubmitAnswered, SubmitFails, Clear, ReadCounter,
           WriteCounter, HearNothing, PrepareThrows, BuildThrows, results
  <2>2. \A n \in Numbers : Owed(n)' => Owed(n)
    BY <1>6, <2>1
  <2>3. CASE sent' = sent
    BY <1>q, <2>1, <2>2, <2>3
  <2>4. CASE At(t, "submit") /\ sent' = Took(BatchNumbers(thread[t].packet, Batch(t)))
    <3> DEFINE p == thread[t].packet
    <3>1. /\ thread[t] \in Work /\ p \in waiting /\ p \in Packets /\ Group(p) \in Nat
          /\ \A u \in Threads : thread[u].packet = p => u = t
      BY <2>4, GroupType DEF TypeOK, BusyOK, At
    <3>2. Len(thread[t].answers) \in Nat /\ DoneOf(thread[t]) = Len(thread[t].answers)
      BY <2>4, <3>1, DoneType DEF DoneOf, At
    <3>3. Batch(t) \in Nat \ {0} /\ DoneOf(thread[t]) = Batch(t) - 1
      BY <3>2 DEF Batch
    <3>4. ASSUME NEW n \in BatchNumbers(p, Batch(t))
          PROVE  n \in Numbers /\ Owed(n) /\ ~Owed(n)'
      <4>1. n \in Numbers /\ n[1] = p
        BY DEF BatchNumbers, NumbersOf
      <4>2. \A i \in 1 .. DoneOf(thread[t]) : n \notin BatchNumbers(p, i)
        BY <3>1, <3>3, BatchesDisjoint
      <4>3. Owed(n)
        BY <2>4, <3>1, <4>1, <4>2 DEF Owed, At
      <4>4. Batch(t) \in 1 .. DoneOf(thread'[t])
        BY <2>1, <2>4, <3>3
      <4>5. thread'[t].packet = n[1]
        BY <2>1, <4>1 DEF Goes
      <4>6. ~Owed(n)'
        BY <1>0, <4>1, <4>4, <4>5 DEF Owed
      <4> QED
        BY <4>1, <4>3, <4>6
    <3>5. \A n \in Numbers : sent'[n] = IF n \in BatchNumbers(p, Batch(t)) THEN sent[n] + 1 ELSE sent[n]
      BY <2>4 DEF Took
    <3> HIDE DEF p
    <3>6. \A n \in Numbers : n \in BatchNumbers(p, Batch(t)) =>
              sent'[n] <= crashes + 1 /\ ~Owed(n)'
      BY <1>1, <3>4, <3>5 DEF SentOK
    <3>7. \A n \in Numbers : n \notin BatchNumbers(p, Batch(t)) =>
              sent'[n] <= crashes + 1 /\ (Owed(n)' => sent'[n] <= crashes)
      BY <2>2, <3>5 DEF SentOK
    <3> QED
      BY <2>1, <3>6, <3>7 DEF SentOK
  <2> QED
    BY <1>7, <2>3, <2>4
       DEF Works, GivesUp, Ask, Get, Close, Connect, SubmitAnswered, SubmitFails, Clear, ReadCounter,
           WriteCounter, HearNothing, PrepareThrows, BuildThrows, results
<1>8. CASE Terminate \/ Remove
  <2>1. UNCHANGED <<waiting, thread, sent, crashes>>
    BY <1>8 DEF Terminate, Remove, results
  <2>2. \A n \in Numbers : Owed(n)' => Owed(n)
    BY <1>0, <2>1 DEF Owed, At
  <2> QED
    BY <1>q, <2>1, <2>2
<1> QED
  BY <1>3, <1>4, <1>5, <1>7, <1>8, Kinds DEF Next

-----------------------------------------------------------------------------
(* The theorems                                                            *)

IInv == TypeOK /\ BusyOK /\ EveryNumberAnswered /\ OrphansOK /\ SentOK

LEMMA Initially ==
    ASSUME Init
    PROVE  IInv
<1> USE DEF Init, At
<1>1. thread \in [Threads -> Work] /\ \A t \in Threads : thread[t] = Idle
  BY IdleType
<1>2. /\ Idle.at = "idle" /\ Idle.packet = "none"
  BY DEF Idle
<1>3. TypeOK
  BY <1>1, <1>2, FS_EmptySet, LimitsAssumption, NoneAssumption DEF TypeOK
<1>4. BusyOK
  BY <1>1, <1>2 DEF BusyOK
<1>5. EveryNumberAnswered
  BY DEF EveryNumberAnswered, Numbers
<1>6. OrphansOK
  <2>1. Orphans = {} /\ remover = "idle" /\ notices = 0 /\ lock = "none"
    BY DEF Orphans
  <2>2. IsFiniteSet(open) /\ Cardinality(Orphans) = 0
    BY <2>1, FS_EmptySet
  <2> QED
    BY <2>1, <2>2 DEF OrphansOK
<1>7. SentOK
  BY DEF SentOK
<1> QED
  BY <1>3, <1>4, <1>5, <1>6, <1>7 DEF IInv

LEMMA Inductive ==
    ASSUME IInv, [Next]_vars
    PROVE  IInv'
<1> USE DEF IInv
<1>1. CASE Next
  <2>1. TypeOK' /\ BusyOK'
    <3>1. ASSUME NEW t \in Threads, Step(t) \/ Throw(t) \/ Crash(t) PROVE TypeOK'
      BY <3>1, ThreadStep, RestType DEF TypeOK, At
    <3> QED
      BY <1>1, <3>1, BusyStep, GatewayType DEF Next
  <2> QED
    BY <1>1, <2>1, AnsweredStep, OrphansStep, SentStep
<1>2. CASE UNCHANGED vars
  BY <1>2 DEF vars, connecting, results, TypeOK, BusyOK, At, Group, BatchCount, EveryNumberAnswered,
              OrphansOK, Orphans, SentOK, Owed, BatchNumbers, NumbersOf
<1> QED
  BY <1>1, <1>2

THEOREM Invariance == Spec => []IInv
<1>1. Init => IInv
  BY Initially
<1>2. IInv /\ [Next]_vars => IInv'
  BY Inductive
<1> QED
  BY <1>1, <1>2, PTL DEF Spec

\* The variables keep their types, and the lock is held exactly by the consumer
\* that is between closing the old connection and registering the new one.
THEOREM TypeCorrect == Spec => []TypeOK
<1>1. IInv => TypeOK
  BY DEF IInv
<1> QED
  BY <1>1, Invariance, PTL

\* A packet that left its submit queue left a record or a failure report for each of
\* its numbers, for any answers, crashes and numbers per batch, and for exceptions
\* anywhere but while the records are pushed or the failures are reported: those are
\* swallowed, and each leaves one packet without an answer.
THEOREM NumbersAnswered == Spec => []EveryNumberAnswered
<1>1. IInv => EveryNumberAnswered
  BY DEF IInv
<1> QED
  BY <1>1, Invariance, PTL

\* Any number of consumers that reconnect at once leave one connection open; more are
\* left only by terminations, at most one each.
THEOREM ConnectionsLimited == Spec => []ConnectionsBounded
<1>1. IInv => ConnectionsBounded
  BY OrphansBound DEF IInv
<1> QED
  BY <1>1, Invariance, PTL

\* The gateway takes a number at most once more than consumers crashed: neither the
\* cutting into batches nor a failure in the middle sends a number again.
THEOREM SentOnlyOnce == Spec => []SentOnce
<1>1. IInv => SentOnce
  <2> SUFFICES ASSUME IInv, NEW n \in Numbers PROVE sent[n] <= 1 + crashes
    BY DEF SentOnce
  <2>1. sent[n] \in Nat /\ crashes \in Nat /\ sent[n] <= crashes + 1
    BY LimitsAssumption DEF IInv, SentOK, TypeOK
  <2> QED
    BY <2>1
<1> QED
  BY <1>1, Invariance, PTL
-----------------------------------------------------------------------------
(* Packets sent number by number                                           *)

\* A consumer whose packet met no trouble so far.
Calm(x) ==
    /\ x.at \notin {"read", "write", "fail"}
    /\ \A i \in 1 .. Len(x.answers) : x.answers[i] = "accepted"
SentBy(n) ==
    IF \E t \in Threads : thread[t].packet = n[1] /\ n[2] <= DoneOf(thread[t]) THEN 1 ELSE 0
SingleOK(n) ==
    /\ \A t \in Threads : thread[t].packet = n[1] => Calm(thread[t])
    /\ n[1] \in waiting => recorded[n] = {} /\ n \notin failed /\ sent[n] = SentBy(n)
    /\ n[1] \notin waiting => recorded[n] = {"accepted"} /\ n \notin failed /\ sent[n] = 1
SinglesOK == \A n \in Numbers : n[1] \notin troubled /\ Group(n[1]) = 1 => SingleOK(n)

LEMMA SingleBatch ==
    ASSUME NEW p \in Packets, Group(p) = 1
    PROVE  /\ BatchCount(p) = Size /\ Size \in Nat \ {0}
           /\ \A i \in 1 .. Size : BatchOf(<<p, i>>) = i
           /\ \A n \in Numbers : n[1] = p =>
                  \A i \in Nat \ {0} : n \in BatchNumbers(p, i) <=> n[2] = i
<1>1. \A m \in Nat : m \div 1 = m /\ m % 1 = 0
  <2> TAKE m \in Nat
  <2>1. m \div 1 \in Nat /\ m % 1 \in 0 .. 0 /\ m = 1 * (m \div 1) + (m % 1)
    BY Quotient
  <2> QED
    BY <2>1
<1>2. BatchCount(p) = Size /\ Size \in Nat \ {0}
  BY <1>1, SizeAssumption DEF BatchCount
<1>3. ASSUME NEW i \in 1 .. Size PROVE BatchOf(<<p, i>>) = i
  <2>1. i - 1 \in Nat /\ (i - 1) \div 1 = i - 1
    BY <1>1, <1>2
  <2> QED
    BY <2>1 DEF BatchOf
<1>4. ASSUME NEW n \in Numbers, n[1] = p, NEW i \in Nat \ {0}
      PROVE  n \in BatchNumbers(p, i) <=> n[2] = i
  <2>1. n[2] \in Nat /\ n \in NumbersOf(p)
    BY <1>2, <1>4 DEF Numbers, NumbersOf
  <2>2. (i - 1) * 1 = i - 1 /\ i * 1 = i
    OBVIOUS
  <2>3. n \in BatchNumbers(p, i) <=> i - 1 < n[2] /\ n[2] <= i
    BY <2>1, <2>2 DEF BatchNumbers
  <2> QED
    BY <2>1, <2>3
<1> QED
  BY <1>2, <1>3, <1>4

\* Every number of such a packet is recorded with its own answer.
LEMMA SingleStatus ==
    ASSUME TypeOK, BusyOK, NEW t \in Threads, At(t, "build"), Calm(thread[t]),
           Group(thread[t].packet) = 1, NEW j \in 1 .. Size
    PROVE  Status(thread[t].answers, thread[t].packet, j) = "accepted"
<1> DEFINE p == thread[t].packet
           x == thread[t].answers
           F == Fitting(x, p, j)
<1>1. p \in Packets /\ Len(x) = BatchCount(p)
  BY PacketType DEF BusyOK, At
<1>2. /\ Len(x) = Size /\ Size \in Nat \ {0}
      /\ \A i \in 1 .. Size : BatchOf(<<p, i>>) = i
      /\ \A n \in Numbers : n[1] = p => \A i \in Nat \ {0} : n \in BatchNumbers(p, i) <=> n[2] = i
  BY <1>1, SingleBatch
<1>3. \A i \in 1 .. Size : x[i] = "accepted"
  BY <1>2 DEF Calm
<1>4. BatchNumbers(p, j) = {<<p, j>>}
  <2>1. BatchNumbers(p, j) \subseteq Numbers /\ \A n \in BatchNumbers(p, j) : n[1] = p
    BY DEF BatchNumbers, NumbersOf
  <2>2. <<p, j>> \in Numbers
    BY <1>1 DEF Numbers
  <2>3. \A n \in Numbers : n = <<n[1], n[2]>>
    BY DEF Numbers
  <2>4. j \in Nat \ {0}
    BY <1>2
  <2>5. <<p, j>> \in BatchNumbers(p, j)
    BY <1>2, <2>2, <2>4
  <2>6. \A n \in BatchNumbers(p, j) : n = <<p, j>>
    BY <1>2, <2>1, <2>3, <2>4
  <2> QED
    BY <2>5, <2>6
<1>5. j \in F /\ F \subseteq 1 .. Size
  <2>1. BatchOf(<<p, j>>) = j /\ x[j] # "none" /\ j \in 1 .. j
    BY <1>2, <1>3
  <2>2. j \in F
    BY <1>4, <2>1 DEF Fitting
  <2>3. F \subseteq 1 .. Size
    BY <1>2 DEF Fitting
  <2> QED
    BY <2>2, <2>3
<1>6. \E last \in F : \A k \in F : k <= last
  BY <1>2, <1>5, Greatest
<1> DEFINE last == LastFitting(x, p, j)
<1>7. last \in F
  BY <1>6 DEF LastFitting
<1>8. Status(x, p, j) = x[BatchOf(<<p, last>>)]
  BY <1>5 DEF Status
<1> HIDE DEF last, F
<1> QED
  BY <1>2, <1>3, <1>5, <1>7, <1>8

\* What a consumer does with a packet that stays out of trouble.
LEMMA CalmStep ==
    ASSUME TypeOK, BusyOK, NEW t \in Threads, Works(t),
           Group(thread[t].packet) = 1, thread[t].packet \notin troubled', Calm(thread[t])
    PROVE  /\ Calm(thread'[t])
           /\ \/ sent' = sent /\ DoneOf(thread'[t]) = DoneOf(thread[t])
              \/ /\ sent' = Took(BatchNumbers(thread[t].packet, Batch(t)))
                 /\ DoneOf(thread[t]) = Batch(t) - 1 /\ DoneOf(thread'[t]) = Batch(t)
<1> DEFINE w == thread[t]
<1>0. w \in Work /\ Len(w.answers) \in Nat /\ w.at \notin {"read", "write", "fail"}
  BY DoneType DEF TypeOK, Calm
<1>g. ASSUME NEW x \in Work, Go(t, x) PROVE thread'[t] = x
  BY <1>g, GoType
<1>k. ASSUME NEW x \in Work, Go(t, x), x.answers = w.answers, w.at # "clear",
             x.at \notin {"read", "write", "fail", "clear"}
      PROVE  Calm(thread'[t]) /\ DoneOf(thread'[t]) = DoneOf(thread[t])
  BY <1>0, <1>g, <1>k DEF Calm, DoneOf
<1> USE DEF Places
<1>a. ASSUME NEW place \in Places \ {"read", "write", "fail", "clear"}, w.at # "clear",
             Go(t, [thread[t] EXCEPT !.at = place])
      PROVE  Calm(thread'[t]) /\ DoneOf(thread'[t]) = DoneOf(thread[t])
  <2>1. /\ [w EXCEPT !.at = place] \in Work /\ [w EXCEPT !.at = place].at = place
        /\ [w EXCEPT !.at = place].answers = w.answers
    BY <1>0 DEF Work
  <2> HIDE DEF w
  <2> QED
    BY <1>a, <1>k, <2>1 DEF w
<1>1. CASE Ask(t) \/ Close(t) \/ Connect(t)
  <2>1. /\ w.at \in {"ask", "start", "connect"} /\ sent' = sent
        /\ \E place \in {"get", "start", "connect"} : Go(t, [thread[t] EXCEPT !.at = place])
    BY <1>1 DEF Ask, Close, Connect, At, results
  <2> QED
    BY <1>a, <2>1
<1>2. CASE Get(t)
  <2>1. /\ w.at = "get" /\ sent' = sent /\ registered \in Conns \cup {0}
        /\ Go(t, [w EXCEPT !.at = "submit", !.conn = registered])
    BY <1>2 DEF Get, At, TypeOK
  <2>2. /\ [w EXCEPT !.at = "submit", !.conn = registered] \in Work
        /\ [w EXCEPT !.at = "submit", !.conn = registered].at = "submit"
        /\ [w EXCEPT !.at = "submit", !.conn = registered].answers = w.answers
    BY <1>0, <2>1 DEF Work
  <2> HIDE DEF w
  <2> QED
    BY <1>k, <2>1, <2>2
<1>3. CASE SubmitAnswered(t)
  <2>1. /\ w.at = "submit" /\ sent' = Took(BatchNumbers(w.packet, Batch(t)))
        /\ Go(t, [w EXCEPT !.at = "clear", !.conn = 0])
    BY <1>3 DEF SubmitAnswered, At
  <2>2. /\ [w EXCEPT !.at = "clear", !.conn = 0] \in Work
        /\ [w EXCEPT !.at = "clear", !.conn = 0].at = "clear"
        /\ [w EXCEPT !.at = "clear", !.conn = 0].answers = w.answers
    BY <1>0, <2>1 DEF Work
  <2>3. thread'[t].at = "clear" /\ thread'[t].answers = w.answers
    BY <1>g, <2>1, <2>2
  <2>4. Calm(thread'[t])
    BY <2>3 DEF Calm
  <2>5. DoneOf(thread'[t]) = Batch(t) /\ DoneOf(thread[t]) = Batch(t) - 1
    BY <1>0, <2>1, <2>3 DEF DoneOf, Batch
  <2> QED
    BY <2>1, <2>4, <2>5
<1>4. CASE SubmitFails(t)
  BY <1>4 DEF SubmitFails
<1>5. CASE Clear(t)
  <2>1. w.at = "clear" /\ sent' = sent /\ Go(t, Answered(w, "accepted"))
    BY <1>5 DEF Clear, At, results
  <2>2. /\ Answered(w, "accepted") \in Work
        /\ Answered(w, "accepted").answers = Append(w.answers, "accepted")
        /\ Answered(w, "accepted").at \in {"ask", "build"}
    BY <1>0, AnsweredType
  <2>3. thread'[t] = Answered(w, "accepted")
    BY <1>g, <2>1, <2>2
  <2>4. /\ Len(Append(w.answers, "accepted")) = Len(w.answers) + 1
        /\ \A i \in 1 .. Len(w.answers) + 1 : Append(w.answers, "accepted")[i] = "accepted"
    BY <1>0 DEF Calm, Work
  <2>5. Calm(thread'[t])
    BY <2>2, <2>3, <2>4 DEF Calm
  <2>6. DoneOf(thread'[t]) = DoneOf(thread[t])
    BY <2>1, <2>2, <2>3, <2>4 DEF DoneOf
  <2> QED
    BY <2>1, <2>5, <2>6
<1>6. CASE ReadCounter(t) \/ WriteCounter(t)
  BY <1>0, <1>6 DEF ReadCounter, WriteCounter, At
<1>7. CASE HearNothing(t)
  <2>1. At(t, "build") /\ ~Heard(w.answers)
    BY <1>7 DEF HearNothing
  <2>2. Len(w.answers) = Size /\ Size \in Nat \ {0}
    BY <2>1, PacketType, SingleBatch DEF BusyOK, At
  <2>3. 1 \in DOMAIN w.answers /\ w.answers[1] = "accepted"
    BY <1>0, <2>2 DEF Calm, Work
  <2> QED
    BY <2>1, <2>3 DEF Heard
<1> QED
  BY <1>1, <1>2, <1>3, <1>4, <1>5, <1>6, <1>7 DEF Works

LEMMA SinglesStep ==
    ASSUME TypeOK, BusyOK, SinglesOK, Next
    PROVE  SinglesOK'
<1>0. /\ fee' = fee /\ troubled \subseteq troubled'
      /\ \A p \in Packets : Group(p)' = Group(p)
  <2>1. fee' = fee /\ troubled \subseteq troubled'
    BY FeeStays
  <2> QED
    BY <2>1 DEF Group
<1> SUFFICES ASSUME NEW n \in Numbers, n[1] \notin troubled', Group(n[1])' = 1
             PROVE  SingleOK(n)'
  BY DEF SinglesOK
<1> DEFINE p == n[1]
<1>1. /\ p \in Packets /\ p # "none" /\ n[2] \in 1 .. Size /\ n[2] \in Nat \ {0}
      /\ n \in NumbersOf(p) /\ p \notin troubled
  BY <1>0, NoneAssumption, SizeAssumption DEF Numbers, NumbersOf
<1>2. Group(p) = 1
  BY <1>0, <1>1
<1>3. SingleOK(n)
  BY <1>1, <1>2 DEF SinglesOK
<1>4. \A i \in Nat \ {0} : n \in BatchNumbers(p, i) <=> n[2] = i
  BY <1>1, <1>2, SingleBatch
<1> HIDE DEF p
<1>s. /\ SingleOK(n) <=>
             /\ \A u \in Threads : thread[u].packet = p => Calm(thread[u])
             /\ p \in waiting => recorded[n] = {} /\ n \notin failed /\ sent[n] = SentBy(n)
             /\ p \notin waiting => recorded[n] = {"accepted"} /\ n \notin failed /\ sent[n] = 1
      /\ SingleOK(n)' <=>
             /\ \A u \in Threads : thread'[u].packet = p => Calm(thread'[u])
             /\ p \in waiting' => recorded'[n] = {} /\ n \notin failed' /\ sent'[n] = SentBy(n)'
             /\ p \notin waiting' => recorded'[n] = {"accepted"} /\ n \notin failed' /\ sent'[n] = 1
      /\ SentBy(n) = IF \E u \in Threads : thread[u].packet = p /\ n[2] <= DoneOf(thread[u])
                     THEN 1 ELSE 0
      /\ SentBy(n)' = IF \E u \in Threads : thread'[u].packet = p /\ n[2] <= DoneOf(thread'[u])
                      THEN 1 ELSE 0
  BY DEF SingleOK, SentBy, p
<1>f. ASSUME NEW t \in Threads, \A u \in Threads \ {t} : thread'[u] = thread[u],
             thread[t].packet # p, thread'[t].packet # p, p \in waiting' <=> p \in waiting,
             recorded'[n] = recorded[n], n \in failed' <=> n \in failed, sent'[n] = sent[n]
      PROVE  SingleOK(n)'
  <2>1. SentBy(n)' = SentBy(n)
    BY <1>s, <1>f
  <2> QED
    BY <1>3, <1>s, <1>f, <2>1
<1>5. ASSUME NEW t \in Threads, Take(t) PROVE SingleOK(n)'
  <2>1. PICK q \in waiting :
            /\ ~Busy(q)
            /\ Go(t, [Idle EXCEPT !.packet = q, !.at = IF Group(q) = 0 THEN "fail" ELSE "ask"])
    BY <1>5 DEF Take
  <2>2. /\ UNCHANGED <<waiting, sent, recorded, failed>> /\ thread[t].packet = "none"
        /\ q \in Packets
    BY <1>5 DEF Take, results, BusyOK, TypeOK
  <2>3. /\ \A u \in Threads \ {t} : thread'[u] = thread[u]
        /\ thread'[t].packet = q /\ \A u \in Threads : thread[u].packet # q
        /\ thread'[t].answers = << >> /\ thread'[t].at = IF Group(q) = 0 THEN "fail" ELSE "ask"
    BY <2>1, <2>2, Begins DEF Busy
  <2>4. CASE q # p
    BY <1>1, <1>f, <2>2, <2>3, <2>4
  <2>5. CASE q = p
    <3>1. thread'[t].at = "ask"
      BY <1>2, <2>3, <2>5
    <3>2. Calm(thread'[t]) /\ DoneOf(thread'[t]) = 0
      BY <2>3, <3>1 DEF Calm, DoneOf
    <3>3. SentBy(n) = 0 /\ SentBy(n)' = 0
      BY <1>1, <1>s, <2>3, <2>5, <3>2
    <3> QED
      BY <1>3, <1>s, <2>1, <2>2, <2>3, <2>5, <3>2, <3>3
  <2> QED
    BY <2>4, <2>5
<1>6. ASSUME NEW t \in Threads, Works(t)
      PROVE  SingleOK(n)'
  <2> DEFINE S == BatchNumbers(thread[t].packet, Batch(t))
  <2>1. Goes(t) /\ UNCHANGED <<waiting, recorded, failed>> /\ (sent' = sent \/ sent' = Took(S))
    BY <1>6, GoesOn
       DEF Works, Ask, Get, Close, Connect, SubmitAnswered, SubmitFails, Clear, ReadCounter,
           WriteCounter, HearNothing, results
  <2>2. CASE thread[t].packet # p
    <3>1. n \notin S
      BY <2>2 DEF BatchNumbers, NumbersOf, p
    <3>2. sent'[n] = sent[n]
      BY <2>1, <3>1 DEF Took
    <3> QED
      BY <1>f, <2>1, <2>2, <3>2 DEF Goes
  <2>3. CASE thread[t].packet = p
    <3>1. Calm(thread[t]) /\ p \in waiting /\ \A u \in Threads : thread[u].packet = p => u = t
      BY <1>3, <1>s, <2>1, <2>3 DEF BusyOK, Goes
    <3>2. /\ Calm(thread'[t])
          /\ \/ sent' = sent /\ DoneOf(thread'[t]) = DoneOf(thread[t])
             \/ /\ sent' = Took(S)
                /\ DoneOf(thread[t]) = Batch(t) - 1 /\ DoneOf(thread'[t]) = Batch(t)
      BY <1>2, <1>6, <2>3, <3>1, CalmStep DEF p
    <3>3. /\ thread'[t].packet = p /\ \A u \in Threads \ {t} : thread'[u] = thread[u]
      BY <2>1, <2>3 DEF Goes
    <3>4. /\ SentBy(n) = IF n[2] <= DoneOf(thread[t]) THEN 1 ELSE 0
          /\ SentBy(n)' = IF n[2] <= DoneOf(thread'[t]) THEN 1 ELSE 0
      BY <1>s, <2>3, <3>1, <3>3
    <3>5. sent[n] = SentBy(n) /\ Batch(t) \in Nat \ {0}
      BY <1>3, <1>s, <3>1, DoneType DEF Batch, TypeOK
    <3>6. sent'[n] = SentBy(n)'
      <4>1. CASE sent' = sent /\ DoneOf(thread'[t]) = DoneOf(thread[t])
        BY <3>4, <3>5, <4>1
      <4>2. CASE /\ sent' = Took(S)
                 /\ DoneOf(thread[t]) = Batch(t) - 1 /\ DoneOf(thread'[t]) = Batch(t)
        <5>1. n \in S <=> n[2] = Batch(t)
          BY <1>4, <2>3, <3>5
        <5>2. sent'[n] = IF n[2] = Batch(t) THEN sent[n] + 1 ELSE sent[n]
          BY <4>2, <5>1 DEF Took
        <5> HIDE DEF S
        <5> QED
          BY <1>1, <3>4, <3>5, <4>2, <5>2
      <4> QED
        BY <3>2, <4>1, <4>2
    <3> QED
      BY <1>3, <1>s, <2>1, <3>1, <3>2, <3>3, <3>6
  <2> QED
    BY <2>2, <2>3
<1>9. ASSUME NEW t \in Threads, GivesUp(t) PROVE SingleOK(n)'
  <2>1. Goes(t) /\ UNCHANGED <<waiting, recorded, sent>> /\ thread[t].packet \in troubled'
        /\ failed \subseteq failed' /\ failed' \subseteq failed \cup NumbersOf(thread[t].packet)
    BY <1>9, GoesOn DEF GivesUp, PrepareThrows, BuildThrows, Refusals
  <2>2. thread[t].packet # p
    BY <2>1 DEF p
  <2>3. n \in failed' <=> n \in failed
    BY <2>1, <2>2 DEF NumbersOf, p
  <2> QED
    BY <1>f, <2>1, <2>2, <2>3 DEF Goes
<1>7. ASSUME NEW t \in Threads, Stops(t) PROVE SingleOK(n)'
  <2>1. Pauses(t) /\ Idle.packet # p /\ sent' = sent /\ ~At(t, "idle")
    BY <1>1, <1>7, PausesWhen DEF Idle, Stops, Finish, Fail, RecordsThrow, FailThrows, Crash
  <2>2. CASE thread[t].packet # p
    <3>1. recorded'[n] = recorded[n] /\ (n \in failed' <=> n \in failed)
      <4>1. n[1] # thread[t].packet
        BY <2>2 DEF p
      <4>2. \/ recorded' = recorded
            \/ recorded' = Records(thread[t].packet, thread[t].answers)
        BY <1>7 DEF Stops, Finish, Fail, RecordsThrow, FailThrows, Crash
      <4>3. failed \subseteq failed' /\ failed' \subseteq failed \cup NumbersOf(thread[t].packet)
        BY <1>7 DEF Stops, Finish, Fail, RecordsThrow, FailThrows, Crash, Refusals
      <4> QED
        BY <4>1, <4>2, <4>3 DEF Records, NumbersOf, TypeOK
    <3>2. p \in waiting' <=> p \in waiting
      BY <1>7, <2>2 DEF Stops, Finish, Fail, RecordsThrow, FailThrows, Crash
    <3> QED
      BY <1>f, <2>1, <2>2, <3>1, <3>2 DEF Pauses
  <2>3. CASE thread[t].packet = p
    <3>1. Calm(thread[t]) /\ p \in waiting
      BY <1>3, <1>s, <2>1, <2>3 DEF BusyOK
    <3>2. Finish(t)
      BY <1>7, <2>3, <3>1 DEF Stops, Fail, RecordsThrow, FailThrows, Crash, Calm, At, p
    <3>3. /\ At(t, "build") /\ waiting' = waiting \ {p}
          /\ recorded' = [m \in Numbers |-> IF m[1] = p
                  THEN recorded[m] \cup {Status(thread[t].answers, p, m[2])} ELSE recorded[m]]
          /\ failed' = failed \cup
                  {m \in NumbersOf(p) : Status(thread[t].answers, p, m[2]) = "refused"}
      BY <2>3, <3>2 DEF Finish, Records, Refusals
    <3>4. Status(thread[t].answers, p, n[2]) = "accepted"
      BY <1>1, <1>2, <2>3, <3>1, <3>3, SingleStatus
    <3>5. recorded'[n] = {"accepted"} /\ n \notin failed'
      <4>1. n[1] = p /\ recorded[n] = {} /\ n \notin failed
        BY <1>3, <1>s, <3>1 DEF p
      <4> QED
        BY <3>3, <3>4, <4>1
    <3>6. sent[n] = 1
      <4>1. DoneOf(thread[t]) = Size
        BY <1>1, <1>2, <2>3, <3>3, SingleBatch DEF DoneOf, BusyOK, At
      <4>2. SentBy(n) = 1
        BY <1>1, <1>s, <2>3, <4>1
      <4> QED
        BY <1>3, <1>s, <3>1, <4>2
    <3>7. \A u \in Threads : thread'[u].packet # p
      BY <2>1, <2>3 DEF Pauses, BusyOK
    <3> QED
      BY <1>s, <2>1, <3>3, <3>5, <3>6, <3>7
  <2> QED
    BY <2>2, <2>3
<1>8. CASE Terminate \/ Remove
  <2>1. UNCHANGED <<waiting, thread, sent, recorded, failed>>
    BY <1>8 DEF Terminate, Remove, results
  <2>2. SentBy(n)' = SentBy(n)
    BY <1>s, <2>1
  <2> QED
    BY <1>3, <1>s, <2>1, <2>2
<1> QED
  BY <1>5, <1>6, <1>7, <1>8, <1>9, Kinds DEF Next

\* When every call for a packet was answered with a success and was for one number, and
\* nothing threw or crashed around the calls either, buildSubmitMessage records every
\* number as accepted, and each was sent once.
THEOREM SinglesRight == Spec => []SinglesToldRight
<1>1. Init => SinglesOK
  <2> SUFFICES ASSUME Init, NEW n \in Numbers PROVE SingleOK(n)
    BY DEF SinglesOK
  <2>1. \A t \in Threads : thread[t].packet # n[1]
    BY NoneAssumption DEF Init, Idle, Numbers
  <2>2. n[1] \in waiting /\ recorded[n] = {} /\ n \notin failed /\ sent[n] = 0
    BY DEF Init, Numbers
  <2> QED
    BY <2>1, <2>2 DEF SingleOK, SentBy
<1>2. IInv /\ SinglesOK /\ [Next]_vars => SinglesOK'
  <2>1. ASSUME SinglesOK, UNCHANGED vars PROVE SinglesOK'
    <3>1. UNCHANGED <<fee, waiting, thread, sent, recorded, failed, troubled>>
      BY <2>1 DEF vars, results
    <3>2. \A n \in Numbers : Group(n[1])' = Group(n[1]) /\ SentBy(n)' = SentBy(n)
      BY <3>1 DEF Group, SentBy
    <3>3. \A n \in Numbers : SingleOK(n) => SingleOK(n)'
      BY <3>1, <3>2 DEF SingleOK
    <3> QED
      BY <2>1, <3>1, <3>2, <3>3 DEF SinglesOK
  <2> QED
    BY <2>1, SinglesStep DEF IInv
<1>3. SinglesOK => SinglesToldRight
  BY DEF SinglesOK, SingleOK, SinglesToldRight
<1> QED
  BY <1>1, <1>2, <1>3, Invariance, PTL DEF Spec
-----------------------------------------------------------------------------
(* The submit queue and its consumers implement the at-least-once store    *)

LEMMA StoreInit ==
    ASSUME Init
    PROVE  Store!Init
<1>1. ASSUME NEW p \in Packets PROVE ~Told(p)
  <2>1. <<p, 1>> \in NumbersOf(p)
    BY SizeAssumption DEF NumbersOf, Numbers
  <2>2. recorded[<<p, 1>>] = {} /\ failed = {} /\ lost = {}
    BY <2>1 DEF Init, NumbersOf
  <2> QED
    BY <2>1, <2>2 DEF Told
<1> QED
  BY <1>1 DEF Init, Store!Init

\* What a number was told is never taken back.
Settled == {p \in Packets : Told(p)} \cup lost

LEMMA ToldStays ==
    ASSUME TypeOK, BusyOK, NEW t \in Threads, Stops(t) \/ GivesUp(t)
    PROVE  Settled \subseteq Settled'
<1>1. /\ \A n \in Numbers : recorded[n] \subseteq recorded'[n]
      /\ failed \subseteq failed' /\ lost \subseteq lost'
  BY StopsType
<1>2. \A p \in Packets : Told(p) => Told(p)'
  BY <1>1 DEF Told, NumbersOf
<1> QED
  BY <1>1, <1>2 DEF Settled

LEMMA StoreStep ==
    ASSUME IInv, IInv', [Next]_vars
    PROVE  [Store!Next]_(Store!vars)
<1>0. /\ TypeOK /\ BusyOK /\ waiting \subseteq Packets
      /\ lost \subseteq Packets /\ (lost \subseteq Packets)'
  BY DEF IInv, TypeOK
<1>g. Packets \ waiting \subseteq Settled /\ (Packets \ waiting \subseteq Settled)'
  BY DEF IInv, EveryNumberAnswered, Settled, Told, NumbersOf
<1>1. ASSUME NEW t \in Threads, Stops(t) \/ GivesUp(t)
      PROVE  Store!Settle
  <2> DEFINE K == Settled' \ Settled
             R == waiting \ waiting'
  <2>1. waiting' \subseteq waiting /\ Settled \subseteq Settled'
    BY <1>0, <1>1, ToldStays, TakenOff
  <2>2. waiting' = waiting \ R /\ Settled' = Settled \cup K
    BY <2>1
  <2>3. R \in SUBSET (waiting \cap Settled')
    BY <1>0, <1>g
  <2>4. K \in SUBSET waiting
    <3>1. Settled' \subseteq Packets
      BY <1>0 DEF Settled
    <3> QED
      BY <1>g, <3>1
  <2> HIDE DEF K, R
  <2>5. Store!Settle <=>
            \E k \in SUBSET waiting :
                /\ Settled' = Settled \cup k
                /\ \E r \in SUBSET (waiting \cap Settled') : waiting' = waiting \ r
                /\ UNCHANGED Packets
    BY DEF Store!Settle, Settled
  <2> QED
    BY <2>2, <2>3, <2>4, <2>5
<1>2. CASE UNCHANGED <<waiting, recorded, failed, lost>>
  BY <1>2 DEF Store!vars, Told
<1>3. UNCHANGED vars => UNCHANGED <<waiting, recorded, failed, lost>>
  BY DEF vars, results
<1> QED
  BY <1>1, <1>2, <1>3, AnswerSteps DEF Store!Next

\* The submit queue is an at-least-once store: a packet is taken off it only when
\* each of its numbers has a record or a failure report, or when a swallowed exception
\* takes it, and is not put back.
THEOREM TransportImplementsStore == Spec => ImplementsStore
<1>1. Init => Store!Init
  BY StoreInit
<1>2. IInv /\ IInv' /\ [Next]_vars => [Store!Next]_(Store!vars)
  BY StoreStep
<1> QED
  BY <1>1, <1>2, Invariance, PTL DEF Spec, ImplementsStore, Store!Spec
=============================================================================
