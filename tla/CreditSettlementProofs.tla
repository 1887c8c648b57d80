----------------------- MODULE CreditSettlementProofs -----------------------
(***************************************************************************)
(* What holds of every subscription, wallet and schedule: a credit is never *)
(* lost or spent twice, an expiring one pays usage from before its expiry   *)
(* and no other, and it does not expire over usage it could have paid.      *)
(***************************************************************************)
EXTENDS CreditSettlement, SumTheorems, TLAPS

-----------------------------------------------------------------------------
(* Usage as a sum over hours, of any record u of what was received.         *)

Slot(a, b) == {h \in Hours : a <= h /\ h < b}
UsedIn(u, a, b) == SumOver(u, Slot(a, b))
Used(u, p) == UsedIn(u, Start(p), End(p))
UsedBefore(u, p, e) == UsedIn(u, Start(p), AtMost(e, End(p)))

LEMMA AllFinite ==
    /\ IsFiniteSet(Periods) /\ IsFiniteSet(Hours) /\ IsFiniteSet(Credits)
    /\ \A a, b : IsFiniteSet(Slot(a, b))
    /\ \A n \in Nat : IsFiniteSet(1 .. n)
<1>1. NumPeriods \in Nat /\ End(NumPeriods) \in Int /\ IsFiniteSet(Credits)
  BY SettlementConstants DEF End
<1>2. IsFiniteSet(Periods) /\ IsFiniteSet(Hours) /\ \A n \in Nat : IsFiniteSet(1 .. n)
  BY <1>1, FS_Interval DEF Periods, Hours
<1>3. ASSUME NEW a, NEW b PROVE IsFiniteSet(Slot(a, b))
  BY <1>2, FS_Subset DEF Slot
<1> QED
  BY <1>1, <1>2, <1>3

LEMMA PeriodEnds ==
    ASSUME NEW p \in Periods
    PROVE  Start(p) \in Int /\ End(p) \in Int
BY SettlementConstants DEF Periods, Start, End

(* The model's sums are this one.                                           *)
LEMMA Sums ==
    /\ \A S, f : Total(S, f) = SumOver(f, S)
    /\ \A book, p : Paid(book, p) = SumOver(book[p], DOMAIN book[p])
    /\ \A a, b : UsageIn(a, b) = UsedIn(usage, a, b)
    /\ \A p : PeriodUsage(p) = Used(usage, p)
    /\ \A p, e : UsageBefore(p, e) = UsedBefore(usage, p, e)
<1>1. \A S, f : Total(S, f) = SumOver(f, S)
  BY DEF Total, SumOver
<1>2. \A book, p : Paid(book, p) = SumOver(book[p], DOMAIN book[p])
  BY FunSum DEF Paid
<1>3. \A a, b : UsageIn(a, b) = UsedIn(usage, a, b)
  BY <1>1 DEF UsageIn, UsedIn, Slot
<1>4. \A p : PeriodUsage(p) = Used(usage, p)
  BY <1>3 DEF PeriodUsage, Used
<1>5. \A p, e : UsageBefore(p, e) = UsedBefore(usage, p, e)
  BY <1>3 DEF UsageBefore, UsedBefore
<1> QED
  BY <1>1, <1>2, <1>3, <1>4, <1>5

LEMMA UsedInNat ==
    ASSUME NEW u \in [Hours -> Nat], NEW a, NEW b
    PROVE  UsedIn(u, a, b) \in Nat
<1>1. \A h \in Slot(a, b) : u[h] \in Nat
  BY DEF Slot
<1> QED
  BY <1>1, AllFinite, SumNat DEF UsedIn

(* A longer slot has no less usage.                                         *)
LEMMA LongerSlot ==
    ASSUME NEW u \in [Hours -> Nat], NEW a \in Int, NEW b \in Int, NEW d \in Int, b <= d
    PROVE  UsedIn(u, a, b) <= UsedIn(u, a, d)
<1>1. Slot(a, b) \in SUBSET Slot(a, d)
  <2> SUFFICES ASSUME NEW h \in Slot(a, b) PROVE h \in Slot(a, d)
    OBVIOUS
  <2>1. h \in Hours /\ h \in Int /\ a <= h /\ h < b
    BY SettlementConstants DEF Slot, Hours
  <2> QED
    BY <2>1 DEF Slot
<1>2. IsFiniteSet(Slot(a, d)) /\ \A h \in Slot(a, d) : u[h] \in Nat
  BY AllFinite DEF Slot
<1> QED
  BY <1>1, <1>2, SumOfPart DEF UsedIn

(* Usage only grows, and an event does not change what came before it.      *)
LEMMA MoreUsage ==
    ASSUME NEW u \in [Hours -> Nat], NEW v \in [Hours -> Nat], NEW a, NEW b,
           \A h \in Hours : u[h] <= v[h]
    PROVE  UsedIn(u, a, b) <= UsedIn(v, a, b)
<1>1. \A h \in Slot(a, b) : u[h] \in Int /\ v[h] \in Int /\ u[h] <= v[h]
  BY DEF Slot
<1>2. IsFiniteSet(Slot(a, b))
  BY AllFinite
<1> QED
  BY <1>1, <1>2, SumMonotone DEF UsedIn

LEMMA SameUsage ==
    ASSUME NEW u, NEW v, NEW a, NEW b \in Int, \A h \in Hours : h < b => u[h] = v[h]
    PROVE  UsedIn(u, a, b) = UsedIn(v, a, b)
<1>1. \A h \in Slot(a, b) : u[h] = v[h]
  BY DEF Slot
<1>2. IsFiniteSet(Slot(a, b))
  BY AllFinite
<1> QED
  BY <1>1, <1>2, SumSame DEF UsedIn

LEMMA UsageTypes ==
    ASSUME NEW u \in [Hours -> Nat], NEW p \in Periods, NEW e \in Nat
    PROVE  /\ Used(u, p) \in Nat /\ UsedBefore(u, p, e) \in Nat
           /\ UsedIn(u, Start(p), e) \in Nat
           /\ UsedBefore(u, p, e) <= Used(u, p)
           /\ UsedBefore(u, p, e) <= UsedIn(u, Start(p), e)
           /\ e <= End(p) => UsedBefore(u, p, e) = UsedIn(u, Start(p), e)
           /\ End(p) <= e => UsedBefore(u, p, e) = Used(u, p)
<1>1. Start(p) \in Int /\ End(p) \in Int /\ AtMost(e, End(p)) \in Int
  BY PeriodEnds DEF AtMost
<1>2. AtMost(e, End(p)) <= End(p) /\ AtMost(e, End(p)) <= e
  BY <1>1 DEF AtMost
<1>3. /\ Used(u, p) \in Nat /\ UsedBefore(u, p, e) \in Nat
      /\ UsedIn(u, Start(p), e) \in Nat
  BY UsedInNat DEF Used, UsedBefore
<1>4. UsedBefore(u, p, e) <= Used(u, p)
  BY <1>1, <1>2, LongerSlot DEF Used, UsedBefore
<1>5. UsedBefore(u, p, e) <= UsedIn(u, Start(p), e)
  BY <1>1, <1>2, LongerSlot DEF UsedBefore
<1>6. e <= End(p) => AtMost(e, End(p)) = e
  BY <1>1 DEF AtMost
<1>7. End(p) <= e => AtMost(e, End(p)) = End(p)
  BY <1>1 DEF AtMost
<1> QED
  BY <1>3, <1>4, <1>5, <1>6, <1>7 DEF Used, UsedBefore

LEMMA LaterExpiry ==
    ASSUME NEW u \in [Hours -> Nat], NEW p \in Periods, NEW d \in Nat, NEW e \in Nat, d <= e
    PROVE  UsedBefore(u, p, d) <= UsedBefore(u, p, e)
<1>1. Start(p) \in Int /\ End(p) \in Int
  BY PeriodEnds
<1>2. AtMost(d, End(p)) \in Int /\ AtMost(e, End(p)) \in Int /\ AtMost(d, End(p)) <= AtMost(e, End(p))
  BY <1>1 DEF AtMost
<1> QED
  BY <1>1, <1>2, LongerSlot DEF UsedBefore

-----------------------------------------------------------------------------
(* The inductive invariant.                                                 *)

Shape ==
    /\ now \in Time
    /\ usage \in [Hours -> 0 .. MaxUsage]
    /\ current \in 1 .. NumPeriods + 1
    /\ invoice \in [Periods -> [status : {"none", "DRAFT", "SKIPPED", "FINALIZED"},
                                lines : Nat, complete : BOOLEAN, applied : Nat]]
    /\ computing \in [Periods -> Nat \cup {NotReading}]
    /\ added \in [Credits -> Time \cup {Never}]
    /\ available \in [Credits -> Nat] /\ expired \in [Credits -> Nat]
    /\ settled \in [Periods -> [Credits -> Nat]]
    /\ placed \in [Periods -> [Credits -> Nat]]
    /\ excused \in [Periods -> BOOLEAN]
    /\ job \in [queue : Seq(Credits), planned : BOOLEAN,
                most : [Periods -> Nat], seen : [Periods -> Nat]]

(* What was added of a credit is where it went.                             *)
Spending(c) == [p \in Periods |-> settled[p][c] + placed[p][c]]
BooksBalance ==
    \A c \in Credits :
        (IF added[c] = Never THEN 0 ELSE AmountOf[c])
            = available[c] + expired[c] + SumOver(Spending(c), Periods)

(* Before finalization an invoice has what its credits paid at expiry.      *)
OpenInvoices ==
    \A p \in Periods :
        invoice[p].status # "FINALIZED" =>
            /\ invoice[p].applied = SumOver(settled[p], Credits)
            /\ \A c \in Credits : placed[p][c] = 0

(* Nothing is billed, or about to be, that was not used.                    *)
LinesAreUsage ==
    \A p \in Periods :
        invoice[p].lines <= Used(usage, p) /\ computing[p] <= Used(usage, p)

BlankInvoices ==
    \A p \in Periods :
        /\ invoice[p].status \in {"none", "SKIPPED"} => invoice[p].lines = 0
        /\ p > current => invoice[p].status = "none"
        /\ invoice[p].complete => now >= End(p)

(* A credit that paid at its expiry is gone.                                *)
SettledIsGone ==
    \A p \in Periods, c \in Credits :
        settled[p][c] > 0 => available[c] = 0 /\ added[c] # Never

(* A run works on credits whose grace is over, so that usage from before    *)
(* their expiry does not change any more.                                   *)
GraceIsOver ==
    /\ job.planned => job.queue # <<>>
    /\ \A n \in DOMAIN job.queue : ExpiryOf[job.queue[n]] + Grace <= now

(* While the plan waits for its transaction, it keeps fitting the drafts,   *)
(* and keeps covering the usage the credit could pay.                       *)
PlanFits ==
    job.planned =>
        \A p \in Periods :
            invoice[p].status # "FINALIZED" /\ job.most[p] > 0 =>
                job.most[p] + invoice[p].applied
                    <= UsedBefore(usage, p, ExpiryOf[Head(job.queue)])

PlanCovers ==
    job.planned =>
        \A p \in Periods :
            /\ invoice[p].status # "FINALIZED"
            /\ End(p) > added[Head(job.queue)] /\ Start(p) < ExpiryOf[Head(job.queue)]
            => AtMost(UsedBefore(usage, p, ExpiryOf[Head(job.queue)]), job.seen[p])
                   <= job.most[p] + invoice[p].applied

(* An invoice finalized in time left no credit that could have paid it.     *)
FinalizedIsPaid ==
    \A p \in Periods :
        invoice[p].status = "FINALIZED" /\ ~excused[p] =>
            /\ invoice[p].complete
            /\ \A c \in Credits :
                  available[c] > 0 /\ added[c] < End(p) /\ Start(p) < ExpiryOf[c]
                  => invoice[p].applied >= invoice[p].lines

(* Credits that expired by e paid no more than what was used before e.      *)
ExpiredBy(e) == {c \in Credits : ExpiryOf[c] <= e}
PaysEarlier ==
    \A p \in Periods, d \in Credits :
        SumOver(settled[p], ExpiredBy(ExpiryOf[d])) <= UsedBefore(usage, p, ExpiryOf[d])

IInv ==
    /\ Shape
    /\ BooksBalance
    /\ OpenInvoices
    /\ LinesAreUsage
    /\ BlankInvoices
    /\ SettledIsGone
    /\ GraceIsOver
    /\ PlanFits
    /\ PlanCovers
    /\ FinalizedIsPaid
    /\ PaysEarlier

-----------------------------------------------------------------------------
(* What a credit pays on each draft, the oldest period first.               *)

(* Of v, each period in ok takes up to its most, what earlier ones left.    *)
Share(t, m, v, ok, p) ==
    IF p \notin ok THEN 0 ELSE AtMost(m[p], v - SumOver(t, 1 .. p - 1))
Shares(t, m, v, ok, n) == t = [p \in 1 .. n |-> Share(t, m, v, ok, p)]

LEMMA SharesExist ==
    ASSUME NEW m, NEW v, NEW ok, NEW n \in Nat
    PROVE  \E t : Shares(t, m, v, ok, n)
<1> DEFINE Bad == {k \in 0 .. n : ~ \E t : Shares(t, m, v, ok, k)}
<1> SUFFICES ASSUME Bad # {} PROVE FALSE
  OBVIOUS
<1>1. PICK k \in Bad : \A j \in Bad : k <= j
  <2>1. Bad \in SUBSET (0 .. n)
    OBVIOUS
  <2> HIDE DEF Bad
  <2> QED
    BY <2>1, SmallestNumber
<1>2. k # 0
  <2>1. Shares([p \in 1 .. 0 |-> 0], m, v, ok, 0)
    BY DEF Shares
  <2> QED
    BY <2>1
<1>3. PICK t : Shares(t, m, v, ok, k - 1)
  BY <1>1, <1>2
<1> DEFINE u == [p \in 1 .. k |-> Share(t, m, v, ok, p)]
<1>4. ASSUME NEW p \in 1 .. k
      PROVE  u[p] = Share(u, m, v, ok, p)
  <2>1. \A q \in 1 .. p - 1 : t[q] = u[q]
    BY <1>1, <1>3 DEF Shares
  <2>2. IsFiniteSet(1 .. p - 1)
    BY <1>1, FS_Interval
  <2>3. SumOver(t, 1 .. p - 1) = SumOver(u, 1 .. p - 1)
    <3> HIDE DEF u
    <3> QED
      BY <2>1, <2>2, SumSame
  <2> QED
    BY <2>3 DEF Share
<1>5. Shares(u, m, v, ok, k)
  BY <1>4 DEF Shares
<1> QED
  BY <1>1, <1>5

LEMMA SharesFit ==
    ASSUME NEW n \in Nat, NEW m \in [1 .. n -> Nat], NEW v \in Nat, NEW ok, NEW t,
           Shares(t, m, v, ok, n), NEW k \in 0 .. n
    PROVE  /\ SumOver(t, 1 .. k) \in 0 .. v
           /\ \A p \in 1 .. k : t[p] \in Nat /\ t[p] <= v
<1> DEFINE Fit(j) == SumOver(t, 1 .. j) \in 0 .. v /\ \A p \in 1 .. j : t[p] \in Nat /\ t[p] <= v
           Bad == {j \in 0 .. n : ~ Fit(j)}
<1> SUFFICES ASSUME Bad # {} PROVE FALSE
  OBVIOUS
<1>1. PICK j \in Bad : \A i \in Bad : j <= i
  <2>1. Bad \in SUBSET (0 .. n)
    OBVIOUS
  <2> HIDE DEF Bad
  <2> QED
    BY <2>1, SmallestNumber
<1>2. j # 0
  <2>1. 1 .. 0 = {} /\ SumOver(t, {}) = 0
    BY SumEmpty
  <2> QED
    BY <2>1
<1>3. Fit(j - 1)
  BY <1>1, <1>2
<1>4. t[j] = Share(t, m, v, ok, j) /\ m[j] \in Nat
  <2>1. j \in 1 .. n
    BY <1>2
  <2> QED
    BY <2>1 DEF Shares
<1>5. t[j] \in 0 .. v - SumOver(t, 1 .. j - 1)
  <2>1. v - SumOver(t, 1 .. j - 1) \in Nat
    BY <1>3
  <2> HIDE DEF Bad
  <2> QED
    BY <1>4, <2>1 DEF Share, AtMost
<1>6. SumOver(t, 1 .. j) = t[j] + SumOver(t, 1 .. j - 1)
  <2>1. IsFiniteSet(1 .. j - 1) /\ j \notin 1 .. j - 1 /\ (1 .. j - 1) \cup {j} = 1 .. j
    <3>1. j \in Nat /\ j > 0
      BY <1>2
    <3> QED
      BY <3>1, OneMore
  <2>2. \A p \in (1 .. j - 1) \cup {j} : t[p] \in Int
    BY <1>3, <1>5
  <2>3. SumOver(t, (1 .. j - 1) \cup {j}) = t[j] + SumOver(t, 1 .. j - 1)
    BY <2>1, <2>2, SumWith
  <2> QED
    BY <2>1, <2>3
<1>7. Fit(j)
  <2>1. SumOver(t, 1 .. j) \in 0 .. v
    BY <1>3, <1>5, <1>6
  <2>2. ASSUME NEW p \in 1 .. j PROVE t[p] \in Nat /\ t[p] <= v
    <3>1. CASE p = j
      BY <1>3, <1>5, <3>1
    <3>2. CASE p # j
      <4>1. p \in 1 .. j - 1
        BY <1>2, <3>2
      <4> QED
        BY <1>3, <4>1
    <3> QED
      BY <3>1, <3>2
  <2> QED
    BY <2>1, <2>2
<1> QED
  BY <1>1, <1>7

(* What is left over is left by every period.                               *)
LEMMA SharesExhaust ==
    ASSUME NEW n \in Nat, NEW m \in [1 .. n -> Nat], NEW v \in Nat, NEW ok, NEW t,
           Shares(t, m, v, ok, n), NEW p \in 1 .. n
    PROVE  /\ t[p] \in Nat /\ t[p] <= m[p] /\ t[p] <= v
           /\ p \notin ok => t[p] = 0
           /\ p \in ok /\ SumOver(t, 1 .. n) < v => t[p] = m[p]
<1>1. t[p] = Share(t, m, v, ok, p) /\ m[p] \in Nat
  BY DEF Shares
<1>2. /\ SumOver(t, 1 .. p - 1) \in 0 .. v /\ SumOver(t, 1 .. p) \in 0 .. v
      /\ SumOver(t, 1 .. n) \in 0 .. v
      /\ \A q \in 1 .. n : t[q] \in Nat /\ t[q] <= v
  BY SharesFit
<1>3. SumOver(t, 1 .. p) = t[p] + SumOver(t, 1 .. p - 1)
  <2>1. IsFiniteSet(1 .. p - 1) /\ p \notin 1 .. p - 1 /\ (1 .. p - 1) \cup {p} = 1 .. p
    <3>1. p \in Nat /\ p > 0
      OBVIOUS
    <3> QED
      BY <3>1, OneMore
  <2>2. \A q \in (1 .. p - 1) \cup {p} : t[q] \in Int
    BY <1>2
  <2>3. SumOver(t, (1 .. p - 1) \cup {p}) = t[p] + SumOver(t, 1 .. p - 1)
    BY <2>1, <2>2, SumWith
  <2> QED
    BY <2>1, <2>3
<1>4. SumOver(t, 1 .. p) <= SumOver(t, 1 .. n)
  <2>1. 1 .. p \in SUBSET (1 .. n) /\ IsFiniteSet(1 .. n)
    BY FS_Interval
  <2> QED
    BY <1>2, <2>1, SumOfPart
<1> QED
  BY <1>1, <1>2, <1>3, <1>4 DEF Share, AtMost

(* The periods the credit may pay.                                          *)
Payable(c) == {p \in Periods : Applicable(p, c)}

LEMMA TakesAreShares ==
    ASSUME NEW c \in Credits
    PROVE  Shares(Takes(c), job.most, available[c], Payable(c), NumPeriods)
<1> DEFINE T(t) == [p \in Periods |->
                       IF ~Applicable(p, c) THEN 0
                       ELSE AtMost(job.most[p], available[c] - Total(1 .. p - 1, t))]
<1>1. Takes(c) = CHOOSE t : t = T(t)
  BY DEF Takes
<1>2. ASSUME NEW t PROVE t = T(t) <=> Shares(t, job.most, available[c], Payable(c), NumPeriods)
  BY Sums DEF Shares, Share, Payable, Periods
<1>3. \E t : Shares(t, job.most, available[c], Payable(c), NumPeriods)
  BY SharesExist, SettlementConstants
<1>4. \E t : t = T(t)
  BY <1>2, <1>3
<1>5. Takes(c) = T(Takes(c))
  <2> HIDE DEF T
  <2> QED
    BY <1>1, <1>4
<1> QED
  BY <1>2, <1>5

LEMMA TakesFit ==
    ASSUME Shape, NEW c \in Credits
    PROVE  /\ SumOver(Takes(c), Periods) \in 0 .. available[c]
           /\ \A p \in Periods :
                 /\ Takes(c)[p] \in Nat
                 /\ Takes(c)[p] <= job.most[p] /\ Takes(c)[p] <= available[c]
                 /\ ~Applicable(p, c) => Takes(c)[p] = 0
                 /\ Applicable(p, c) /\ SumOver(Takes(c), Periods) < available[c]
                       => Takes(c)[p] = job.most[p]
<1>1. /\ NumPeriods \in Nat /\ job.most \in [1 .. NumPeriods -> Nat] /\ available[c] \in Nat
      /\ Shares(Takes(c), job.most, available[c], Payable(c), NumPeriods)
  BY SettlementConstants, TakesAreShares DEF Shape, Periods
<1> DEFINE t == Takes(c)
           m == job.most
           v == available[c]
<1> SUFFICES /\ SumOver(t, 1 .. NumPeriods) \in 0 .. v
             /\ \A p \in 1 .. NumPeriods :
                   /\ t[p] \in Nat /\ t[p] <= m[p] /\ t[p] <= v
                   /\ p \notin Payable(c) => t[p] = 0
                   /\ p \in Payable(c) /\ SumOver(t, 1 .. NumPeriods) < v => t[p] = m[p]
  BY DEF Payable, Periods
<1>2. /\ NumPeriods \in Nat /\ m \in [1 .. NumPeriods -> Nat] /\ v \in Nat
      /\ Shares(t, m, v, Payable(c), NumPeriods)
  BY <1>1
<1> HIDE DEF t, m, v
<1>3. SumOver(t, 1 .. NumPeriods) \in 0 .. v
  BY <1>2, SharesFit
<1> QED
  BY <1>2, <1>3, SharesExhaust

-----------------------------------------------------------------------------
LEMMA UsageIsNat ==
    ASSUME usage \in [Hours -> 0 .. MaxUsage]
    PROVE  usage \in [Hours -> Nat]
BY SettlementConstants

LEMMA Expiries ==
    /\ \A c \in Credits : ExpiryOf[c] \in Nat /\ AmountOf[c] \in Nat
    /\ Lateness \in Nat /\ Grace \in Nat /\ Hold \in Nat /\ MaxTime \in Nat /\ Lateness <= Grace
BY SettlementConstants

LEMMA InitIInv == Init => IInv
<1> SUFFICES ASSUME Init PROVE IInv
  OBVIOUS
<1>1. Shape
  <2>1. Idle \in [queue : Seq(Credits), planned : BOOLEAN,
                  most : [Periods -> Nat], seen : [Periods -> Nat]]
    BY DEF Idle, NoPlan
  <2>2. Hours \subseteq Int /\ 0 \in Time /\ 1 \in 1 .. NumPeriods + 1 /\ 0 \in 0 .. MaxUsage
    BY SettlementConstants DEF Hours, Time
  <2> QED
    BY <2>1, <2>2 DEF Init, Shape, NoInvoice
<1>2. BooksBalance
  <2>1. ASSUME NEW c \in Credits PROVE SumOver(Spending(c), Periods) = 0
    <3>1. \A p \in Periods : Spending(c)[p] = 0
      BY DEF Init, Spending
    <3> QED
      BY <3>1, AllFinite, SumZero
  <2> QED
    BY <2>1 DEF Init, BooksBalance
<1>3. OpenInvoices
  <2>1. ASSUME NEW p \in Periods PROVE SumOver(settled[p], Credits) = 0
    <3>1. \A c \in Credits : settled[p][c] = 0
      BY DEF Init
    <3> QED
      BY <3>1, AllFinite, SumZero
  <2> QED
    BY <2>1 DEF Init, OpenInvoices, NoInvoice
<1>4. \A p \in Periods : \A e : Used(usage, p) \in Nat /\ UsedBefore(usage, p, e) \in Nat
  BY <1>1, UsageIsNat, UsedInNat DEF Shape, Used, UsedBefore
<1>5. LinesAreUsage
  <2>1. \A p \in Periods : invoice[p].lines = 0 /\ computing[p] = -1
    BY DEF Init, NoInvoice, NotReading
  <2> QED
    BY <1>4, <2>1 DEF LinesAreUsage
<1>6. BlankInvoices /\ SettledIsGone
  BY DEF Init, BlankInvoices, SettledIsGone, NoInvoice
<1>7. GraceIsOver /\ PlanFits /\ PlanCovers
  BY DEF Init, GraceIsOver, PlanFits, PlanCovers, Idle
<1>8. FinalizedIsPaid
  BY DEF Init, FinalizedIsPaid, NoInvoice
<1>9. PaysEarlier
  <2>1. ASSUME NEW p \in Periods, NEW d \in Credits
        PROVE  SumOver(settled[p], ExpiredBy(ExpiryOf[d])) = 0
    <3>1. \A c \in ExpiredBy(ExpiryOf[d]) : settled[p][c] = 0
      BY DEF Init, ExpiredBy
    <3>2. IsFiniteSet(ExpiredBy(ExpiryOf[d]))
      BY AllFinite, FS_Subset DEF ExpiredBy
    <3> QED
      BY <3>1, <3>2, SumZero
  <2> QED
    BY <1>4, <2>1 DEF PaysEarlier
<1> QED
  BY <1>1, <1>2, <1>3, <1>5, <1>6, <1>7, <1>8, <1>9 DEF IInv

(* The clock, and the stuttering step.                                      *)
LEMMA TickStep ==
    ASSUME IInv, Tick \/ UNCHANGED vars
    PROVE  IInv'
<1>1. /\ now \in Int /\ now' \in Int /\ now <= now' /\ now' \in Time
      /\ UNCHANGED <<usage, current, invoice, computing, added, available, settled,
                     placed, expired, excused, job>>
  BY SettlementConstants DEF IInv, Shape, Tick, vars, ledger, Time
<1>2. Shape'
  BY <1>1 DEF IInv, Shape
<1>3. BooksBalance' /\ OpenInvoices' /\ LinesAreUsage' /\ SettledIsGone'
  BY <1>1 DEF IInv, BooksBalance, Spending, OpenInvoices, LinesAreUsage, SettledIsGone
<1>4. BlankInvoices'
  BY <1>1, PeriodEnds DEF IInv, BlankInvoices
<1>5. GraceIsOver'
  <2>1. \A n \in DOMAIN job.queue : job.queue[n] \in Credits
    BY DEF IInv, Shape
  <2> QED
    BY <1>1, <2>1, Expiries DEF IInv, GraceIsOver
<1>6. PlanFits' /\ PlanCovers' /\ FinalizedIsPaid' /\ PaysEarlier'
  BY <1>1 DEF IInv, PlanFits, PlanCovers, FinalizedIsPaid, PaysEarlier
<1> QED
  BY <1>2, <1>3, <1>4, <1>5, <1>6 DEF IInv

LEMMA HeadOfRun ==
    ASSUME Shape, job.queue # <<>>
    PROVE  /\ Head(job.queue) \in Credits /\ 1 \in DOMAIN job.queue
           /\ Head(job.queue) = job.queue[1]
BY DEF Shape

(* Events come late, but not so late that they precede an expiry whose      *)
(* grace is over.                                                           *)
LEMMA ReceiveStep ==
    ASSUME IInv, NEW h \in BusyHours, ReceiveEvent(h)
    PROVE  IInv'
<1>1. UNCHANGED <<now, current, invoice, computing, added, available, settled,
                  placed, expired, excused, job>>
  BY DEF ReceiveEvent, ledger
<1>2. /\ h \in Hours /\ h \in Int /\ now \in Int /\ now <= h + Lateness
      /\ usage \in [Hours -> 0 .. MaxUsage] /\ usage' \in [Hours -> 0 .. MaxUsage]
      /\ \A g \in Hours : usage[g] <= usage'[g] /\ (g # h => usage[g] = usage'[g])
  <2>1. /\ h \in Hours /\ h \in Int /\ now \in Int /\ now <= h + Lateness
        /\ usage \in [Hours -> 0 .. MaxUsage] /\ usage[h] < MaxUsage /\ MaxUsage \in Nat
    BY SettlementConstants DEF IInv, Shape, ReceiveEvent, Time, Hours
  <2>2. usage' = [usage EXCEPT ![h] = usage[h] + 1]
    BY DEF ReceiveEvent
  <2> QED
    BY <2>1, <2>2
<1>3. usage \in [Hours -> Nat] /\ usage' \in [Hours -> Nat]
  BY <1>2, SettlementConstants
<1>4. \A a, b : UsedIn(usage, a, b) <= UsedIn(usage', a, b)
  BY <1>2, <1>3, MoreUsage
<1>5. \A p \in Periods : \A e :
         /\ Used(usage, p) <= Used(usage', p)
         /\ UsedBefore(usage, p, e) <= UsedBefore(usage', p, e)
         /\ Used(usage, p) \in Nat /\ Used(usage', p) \in Nat
         /\ UsedBefore(usage, p, e) \in Nat /\ UsedBefore(usage', p, e) \in Nat
  BY <1>3, <1>4, UsedInNat DEF Used, UsedBefore
<1>6. ASSUME NEW p \in Periods, NEW e \in Nat, e + Grace <= now
      PROVE  UsedBefore(usage, p, e) = UsedBefore(usage', p, e)
  <2>1. AtMost(e, End(p)) \in Int /\ AtMost(e, End(p)) <= h
    BY <1>2, <1>6, PeriodEnds, Expiries DEF AtMost
  <2>2. \A g \in Hours : g < AtMost(e, End(p)) => usage[g] = usage'[g]
    BY <1>2, <2>1
  <2> QED
    BY <2>1, <2>2, SameUsage DEF UsedBefore
<1>7. Shape'
  BY <1>1, <1>2 DEF IInv, Shape
<1>8. BooksBalance' /\ OpenInvoices' /\ BlankInvoices' /\ SettledIsGone' /\ GraceIsOver' /\ FinalizedIsPaid'
  BY <1>1 DEF IInv, BooksBalance, Spending, OpenInvoices, BlankInvoices, SettledIsGone,
              GraceIsOver, FinalizedIsPaid
<1>9. LinesAreUsage'
  <2>1. \A p \in Periods : invoice[p].lines \in Int /\ computing[p] \in Int
    BY DEF IInv, Shape, NotReading
  <2> QED
    BY <1>1, <1>5, <2>1 DEF IInv, LinesAreUsage
<1>10. PlanFits' /\ PlanCovers'
  <2>1. CASE ~job.planned
    BY <1>1, <2>1 DEF PlanFits, PlanCovers
  <2>2. CASE job.planned
    <3> DEFINE e == ExpiryOf[Head(job.queue)]
    <3>1. e \in Nat /\ e + Grace <= now
      BY <2>2, HeadOfRun, Expiries DEF IInv, GraceIsOver
    <3>2. \A p \in Periods : UsedBefore(usage, p, e) = UsedBefore(usage', p, e)
      BY <1>6, <3>1
    <3> QED
      BY <1>1, <3>2 DEF IInv, PlanFits, PlanCovers
  <2> QED
    BY <2>1, <2>2 DEF IInv, Shape
<1>11. PaysEarlier'
  <2>1. ASSUME NEW p \in Periods, NEW d \in Credits
        PROVE  SumOver(settled[p], ExpiredBy(ExpiryOf[d])) \in Int
    <3>1. /\ \A c \in ExpiredBy(ExpiryOf[d]) : settled[p][c] \in Int
          /\ IsFiniteSet(ExpiredBy(ExpiryOf[d]))
      BY AllFinite, FS_Subset DEF ExpiredBy, IInv, Shape
    <3> QED
      BY <3>1, SumType
  <2> QED
    BY <1>1, <1>5, <2>1 DEF IInv, PaysEarlier
<1> QED
  BY <1>7, <1>8, <1>9, <1>10, <1>11 DEF IInv

LEMMA SpendingIsNat ==
    ASSUME Shape, NEW c \in Credits
    PROVE  /\ \A p \in Periods : Spending(c)[p] \in Nat /\ Spending(c)[p] \in Int
           /\ SumOver(Spending(c), Periods) \in Nat
<1>1. \A p \in Periods : Spending(c)[p] \in Nat /\ Spending(c)[p] \in Int
  BY DEF Shape, Spending
<1> QED
  BY <1>1, AllFinite, SumNat

LEMMA AddStep ==
    ASSUME IInv, NEW c \in Credits, AddCredit(c)
    PROVE  IInv'
<1>1. /\ UNCHANGED <<now, usage, current, invoice, computing, settled, placed, expired,
                     excused, job>>
      /\ added[c] = Never /\ now < ExpiryOf[c] /\ now \in Time /\ now \in Int /\ now # Never
      /\ added' = [added EXCEPT ![c] = now]
      /\ available' = [available EXCEPT ![c] = AmountOf[c]]
  BY SettlementConstants DEF AddCredit, IInv, Shape, Time, Never
<1>2. /\ added \in [Credits -> Time \cup {Never}] /\ available \in [Credits -> Nat]
      /\ expired \in [Credits -> Nat] /\ AmountOf[c] \in Nat
      /\ \A d \in Credits : SumOver(Spending(d), Periods) \in Nat
  BY SpendingIsNat, Expiries DEF IInv, Shape
<1>3. Shape'
  BY <1>1, <1>2 DEF IInv, Shape
<1>4. available[c] = 0 /\ expired[c] = 0 /\ SumOver(Spending(c), Periods) = 0
  <2>1. 0 = available[c] + expired[c] + SumOver(Spending(c), Periods)
    BY <1>1 DEF IInv, BooksBalance
  <2>2. available[c] \in Nat /\ expired[c] \in Nat /\ SumOver(Spending(c), Periods) \in Nat
    BY <1>2
  <2> QED
    BY <2>1, <2>2
<1>5. BooksBalance'
  BY <1>1, <1>2, <1>4 DEF IInv, BooksBalance, Spending
<1>6. OpenInvoices' /\ LinesAreUsage' /\ BlankInvoices' /\ GraceIsOver' /\ PlanFits' /\ PaysEarlier'
  BY <1>1 DEF IInv, OpenInvoices, LinesAreUsage, BlankInvoices, GraceIsOver, PlanFits, PaysEarlier
<1>7. SettledIsGone'
  BY <1>1, <1>2 DEF IInv, SettledIsGone
<1>8. PlanCovers'
  <2>1. CASE ~job.planned
    BY <1>1, <2>1 DEF PlanCovers
  <2>2. CASE job.planned
    <3>1. /\ Head(job.queue) \in Credits
          /\ ExpiryOf[Head(job.queue)] + Grace <= now
      BY <2>2, HeadOfRun DEF IInv, GraceIsOver
    <3>2. Head(job.queue) # c
      BY <1>1, <3>1, Expiries
    <3>3. added'[Head(job.queue)] = added[Head(job.queue)]
      BY <1>1, <1>2, <3>1, <3>2
    <3> QED
      BY <1>1, <3>3 DEF IInv, PlanCovers
  <2> QED
    BY <2>1, <2>2 DEF IInv, Shape
<1>9. FinalizedIsPaid'
  <2>1. ASSUME NEW p \in Periods, invoice[p].status = "FINALIZED", ~excused[p], NEW d \in Credits,
               available'[d] > 0, added'[d] < End(p), Start(p) < ExpiryOf[d]
        PROVE  invoice[p].applied >= invoice[p].lines
    <3>1. now >= End(p) /\ End(p) \in Int
      BY <2>1, PeriodEnds DEF IInv, FinalizedIsPaid, BlankInvoices
    <3>2. d # c
      BY <1>1, <1>2, <2>1, <3>1
    <3> QED
      BY <1>1, <1>2, <2>1, <3>2 DEF IInv, FinalizedIsPaid
  <2> QED
    BY <1>1, <2>1 DEF IInv, FinalizedIsPaid
<1> QED
  BY <1>3, <1>5, <1>6, <1>7, <1>8, <1>9 DEF IInv

(* Steps that create, compute or leave alone the invoices, and pay nothing. *)
SameBills ==
    /\ \A p \in Periods :
          /\ invoice'[p].applied = invoice[p].applied
          /\ invoice[p].status = "FINALIZED" => invoice'[p] = invoice[p]
          /\ invoice'[p].status = "FINALIZED" => invoice[p].status = "FINALIZED"
    /\ UNCHANGED <<now, usage, added, available, settled, placed, expired, excused>>

LEMMA KeepsBills ==
    ASSUME IInv, SameBills
    PROVE  /\ BooksBalance' /\ OpenInvoices' /\ SettledIsGone' /\ FinalizedIsPaid' /\ PaysEarlier'
           /\ UNCHANGED job => GraceIsOver' /\ PlanFits' /\ PlanCovers'
<1>1. BooksBalance' /\ SettledIsGone' /\ PaysEarlier'
  BY DEF IInv, SameBills, BooksBalance, Spending, SettledIsGone, PaysEarlier
<1>2. OpenInvoices'
  BY DEF IInv, SameBills, OpenInvoices
<1>3. FinalizedIsPaid'
  BY DEF IInv, SameBills, FinalizedIsPaid
<1>4. ASSUME UNCHANGED job PROVE GraceIsOver' /\ PlanFits' /\ PlanCovers'
  BY <1>4 DEF IInv, SameBills, GraceIsOver, PlanFits, PlanCovers
<1> QED
  BY <1>1, <1>2, <1>3, <1>4

LEMMA RollStep ==
    ASSUME IInv, RollPeriod
    PROVE  IInv'
<1>1. /\ UNCHANGED <<now, usage, computing, added, available, settled, placed, expired,
                     excused, job>>
      /\ current \in Periods /\ current' = current + 1
      /\ invoice' = [invoice EXCEPT ![current] = Draft(invoice[current])]
  BY DEF RollPeriod, ledger
<1>2. current \in 1 .. NumPeriods /\ NumPeriods \in Nat
  BY <1>1, SettlementConstants DEF Periods
<1>3. Shape'
  <2>1. current' \in 1 .. NumPeriods + 1
    BY <1>1, <1>2
  <2>2. Draft(invoice[current]) \in [status : {"none", "DRAFT", "SKIPPED", "FINALIZED"},
                                     lines : Nat, complete : BOOLEAN, applied : Nat]
    <3>1. invoice[current] \in [status : {"none", "DRAFT", "SKIPPED", "FINALIZED"},
                                lines : Nat, complete : BOOLEAN, applied : Nat]
      BY <1>1 DEF IInv, Shape
    <3> QED
      BY <3>1 DEF Draft
  <2>3. invoice' \in [Periods -> [status : {"none", "DRAFT", "SKIPPED", "FINALIZED"},
                                  lines : Nat, complete : BOOLEAN, applied : Nat]]
    <3> HIDE DEF Draft
    <3> QED
      BY <1>1, <2>2 DEF IInv, Shape
  <2> QED
    BY <1>1, <2>1, <2>3 DEF IInv, Shape
<1>4. SameBills
  BY <1>1 DEF SameBills, IInv, Shape, Draft
<1>5. LinesAreUsage'
  BY <1>1 DEF LinesAreUsage, IInv, Shape, Draft
<1>6. BlankInvoices'
  BY <1>1, <1>2 DEF BlankInvoices, IInv, Shape, Draft, Periods
<1> QED
  BY <1>1, <1>3, <1>4, <1>5, <1>6, KeepsBills DEF IInv

LEMMA StartComputeStep ==
    ASSUME IInv, NEW p \in Periods, StartCompute(p)
    PROVE  IInv'
<1> DEFINE i == IF p = current THEN Draft(invoice[p]) ELSE invoice[p]
<1>1. /\ UNCHANGED <<now, usage, current, added, available, settled, placed, expired,
                     excused, job>>
      /\ invoice' = [invoice EXCEPT ![p] = i]
      /\ computing' = [computing EXCEPT ![p] = Used(usage, p)]
  BY Sums DEF StartCompute, ledger
<1>2. /\ i.lines = invoice[p].lines /\ i.applied = invoice[p].applied /\ i.complete = invoice[p].complete
      /\ i.status = invoice[p].status \/ (p = current /\ i.status = "DRAFT" /\ invoice[p].status = "none")
      /\ i \in [status : {"none", "DRAFT", "SKIPPED", "FINALIZED"},
                lines : Nat, complete : BOOLEAN, applied : Nat]
      /\ invoice[p].status = "FINALIZED" => i = invoice[p]
  BY DEF IInv, Shape, Draft
<1>3. Used(usage, p) \in Nat
  BY UsageIsNat, UsageTypes, Expiries, UsedInNat DEF IInv, Shape, Used
<1> HIDE DEF i
<1>4. Shape'
  BY <1>1, <1>2, <1>3 DEF IInv, Shape
<1>5. SameBills
  BY <1>1, <1>2 DEF SameBills, IInv, Shape
<1>6. LinesAreUsage'
  BY <1>1, <1>2, <1>3 DEF LinesAreUsage, IInv, Shape
<1>7. BlankInvoices'
  <2>1. current \in Int /\ p \in Int
    BY SettlementConstants DEF IInv, Shape, Periods
  <2> QED
    BY <1>1, <1>2, <2>1 DEF BlankInvoices, IInv, Shape
<1> QED
  BY <1>1, <1>4, <1>5, <1>6, <1>7, KeepsBills DEF IInv

LEMMA FinishComputeStep ==
    ASSUME IInv, NEW p \in Periods, FinishCompute(p)
    PROVE  IInv'
<1> DEFINE i == IF Computable(invoice[p]) THEN Computed(p, computing[p], invoice[p].applied)
                ELSE invoice[p]
<1>1. /\ UNCHANGED <<now, usage, current, added, available, settled, placed, expired,
                     excused, job>>
      /\ invoice' = [invoice EXCEPT ![p] = i]
      /\ computing' = [computing EXCEPT ![p] = NotReading]
      /\ computing[p] \in Nat
  BY DEF FinishCompute, ledger, CreditsKept, IInv, Shape
<1>2. /\ i.lines = invoice[p].lines \/ i.lines = computing[p]
      /\ i.applied = invoice[p].applied
      /\ i.status \in {"none", "SKIPPED"} => i.lines = 0 \/ i = invoice[p]
      /\ i.status = "FINALIZED" \/ invoice[p].status \in {"none", "FINALIZED"} => i = invoice[p]
      /\ i.complete => now >= End(p) \/ invoice[p].complete
      /\ i \in [status : {"none", "DRAFT", "SKIPPED", "FINALIZED"},
                lines : Nat, complete : BOOLEAN, applied : Nat]
  BY <1>1 DEF IInv, Shape, Computed, Computable
<1>3. Used(usage, p) \in Nat
  BY UsageIsNat, UsedInNat DEF IInv, Shape, Used
<1> HIDE DEF i
<1>4. Shape'
  BY <1>1, <1>2 DEF IInv, Shape
<1>5. SameBills
  BY <1>1, <1>2 DEF SameBills, IInv, Shape
<1>6. LinesAreUsage'
  BY <1>1, <1>2, <1>3 DEF LinesAreUsage, IInv, Shape, NotReading
<1>7. BlankInvoices'
  BY <1>1, <1>2 DEF BlankInvoices, IInv, Shape
<1> QED
  BY <1>1, <1>4, <1>5, <1>6, <1>7, KeepsBills DEF IInv

LEMMA StartRunStep ==
    ASSUME IInv, StartRun
    PROVE  IInv'
<1> DEFINE D == {c \in Credits : Due(c)}
<1>1. /\ UNCHANGED <<now, usage, current, invoice, computing, added, available, settled,
                     placed, expired, excused>>
      /\ \E queue \in SetToSeqs(D) : job' = [Idle EXCEPT !.queue = queue]
  BY DEF StartRun, ledger
<1>2. PICK queue \in SetToSeqs(D) : job' = [Idle EXCEPT !.queue = queue]
  BY <1>1
<1>3. queue \in [1 .. Cardinality(D) -> D] /\ Cardinality(D) \in Nat
  <2>1. Cardinality(D) \in Nat
    BY AllFinite, FS_Subset, FS_CardinalityType
  <2> QED
    BY <2>1 DEF SetToSeqs
<1>4. queue \in Seq(Credits) /\ \A n \in DOMAIN queue : ExpiryOf[queue[n]] + Grace <= now
  <2>1. D \subseteq Credits /\ \A c \in D : ExpiryOf[c] + Grace <= now
    BY DEF Due
  <2>2. queue \in [1 .. Cardinality(D) -> Credits]
    BY <1>3, <2>1
  <2>3. \A n \in 1 .. Cardinality(D) : queue[n] \in D
    BY <1>3
  <2> HIDE DEF D
  <2> QED
    BY <1>3, <2>1, <2>2, <2>3
<1>5. /\ job' = [queue |-> queue, planned |-> FALSE, most |-> NoPlan, seen |-> NoPlan]
  BY <1>2 DEF Idle
<1> HIDE DEF D
<1>6. Shape'
  BY <1>1, <1>4, <1>5 DEF IInv, Shape, NoPlan
<1>7. SameBills
  BY <1>1 DEF SameBills
<1>8. LinesAreUsage' /\ BlankInvoices'
  BY <1>1 DEF IInv, LinesAreUsage, BlankInvoices
<1>9. GraceIsOver' /\ PlanFits' /\ PlanCovers'
  BY <1>1, <1>4, <1>5 DEF GraceIsOver, PlanFits, PlanCovers
<1> QED
  BY <1>6, <1>7, <1>8, <1>9, KeepsBills DEF IInv

LEMMA DoneRun ==
    ASSUME Shape, GraceIsOver, job.queue # <<>>, job' = Done, now' = now
    PROVE  /\ job' \in [queue : Seq(Credits), planned : BOOLEAN,
                        most : [Periods -> Nat], seen : [Periods -> Nat]]
           /\ GraceIsOver' /\ PlanFits' /\ PlanCovers'
<1>1. CASE Len(job.queue) = 1
  BY <1>1 DEF Done, Idle, NoPlan, GraceIsOver, PlanFits, PlanCovers
<1>2. CASE Len(job.queue) # 1
  <2>1. /\ Tail(job.queue) \in Seq(Credits)
        /\ \A n \in DOMAIN Tail(job.queue) : n + 1 \in DOMAIN job.queue /\ Tail(job.queue)[n] = job.queue[n + 1]
    BY DEF Shape
  <2>2. job' = [queue |-> Tail(job.queue), planned |-> FALSE, most |-> NoPlan, seen |-> NoPlan]
    BY <1>2 DEF Done, Idle
  <2> QED
    BY <2>1, <2>2 DEF GraceIsOver, PlanFits, PlanCovers, NoPlan
<1> QED
  BY <1>1, <1>2

LEMMA FailStep ==
    ASSUME IInv, SettlementFails
    PROVE  IInv'
<1>1. /\ UNCHANGED <<now, usage, current, invoice, computing, added, available, settled,
                     placed, expired, excused>>
      /\ job.queue # <<>> /\ job' = Done
  BY DEF SettlementFails, ledger
<1>2. /\ job' \in [queue : Seq(Credits), planned : BOOLEAN,
                   most : [Periods -> Nat], seen : [Periods -> Nat]]
      /\ GraceIsOver' /\ PlanFits' /\ PlanCovers'
  BY <1>1, DoneRun DEF IInv
<1>3. Shape'
  BY <1>1, <1>2 DEF IInv, Shape
<1>4. SameBills
  BY <1>1 DEF SameBills
<1>5. LinesAreUsage' /\ BlankInvoices'
  BY <1>1 DEF IInv, LinesAreUsage, BlankInvoices
<1> QED
  BY <1>2, <1>3, <1>4, <1>5, KeepsBills DEF IInv

(* The plan offers each draft the usage of its period from before the       *)
(* expiry, as computed now, less what was applied to it already.            *)
LEMMA PlanStep ==
    ASSUME IInv, PlanSettlement
    PROVE  IInv'
<1> DEFINE c == Head(job.queue)
           e == ExpiryOf[c]
           drafts == Refreshed(c)
           Target(p) == /\ EarlierDraft(p, c) \/ CurrentDraft(p, c)
                        /\ drafts[p].status = "DRAFT"
           most == [p \in Periods |-> IF Target(p) THEN Most(p, c, drafts[p]) ELSE 0]
           seen == [p \in Periods |-> drafts[p].lines]
<1>1. /\ UNCHANGED <<now, usage, current, computing, added, available, settled, placed,
                     expired, excused>>
      /\ job.queue # <<>> /\ invoice' = drafts
      /\ job' = [job EXCEPT !.planned = TRUE, !.most = most, !.seen = seen]
  BY DEF PlanSettlement, ledger
<1>2. c \in Credits /\ e \in Nat
  BY <1>1, HeadOfRun, Expiries DEF IInv
<1>3. /\ usage \in [Hours -> Nat]
      /\ \A p \in Periods : /\ Start(p) \in Int /\ End(p) \in Int /\ p \in Int
                            /\ Used(usage, p) \in Nat /\ UsedBefore(usage, p, e) \in Nat
                            /\ UsedIn(usage, Start(p), e) \in Nat
  <2>1. usage \in [Hours -> Nat]
    BY UsageIsNat DEF IInv, Shape
  <2>2. \A p \in Periods : Start(p) \in Int /\ End(p) \in Int /\ p \in Int
    BY PeriodEnds, SettlementConstants DEF Periods
  <2> QED
    BY <1>2, <2>1, <2>2, UsageTypes
<1>4. ASSUME NEW p \in Periods
      PROVE  /\ drafts[p] = invoice[p] \/ drafts[p] = Computed(p, Used(usage, p), invoice[p].applied)
             /\ invoice[p].status = "FINALIZED" \/ p > current => drafts[p] = invoice[p]
             /\ EarlierDraft(p, c) /\ invoice[p].complete => drafts[p] = invoice[p]
             /\ CurrentDraft(p, c) => drafts[p] = Computed(p, Used(usage, p), invoice[p].applied)
  BY <1>3, Sums DEF Refreshed, EarlierDraft, CurrentDraft, IInv, Shape
<1>5. ASSUME NEW p \in Periods
      PROVE  /\ drafts[p] \in [status : {"none", "DRAFT", "SKIPPED", "FINALIZED"},
                               lines : Nat, complete : BOOLEAN, applied : Nat]
             /\ drafts[p].applied = invoice[p].applied
             /\ drafts[p].lines <= Used(usage, p)
             /\ drafts[p].status = "FINALIZED" => invoice[p].status = "FINALIZED"
             /\ drafts[p].status \in {"none", "SKIPPED"} => drafts[p].lines = 0
             /\ drafts[p].complete => now >= End(p)
  <2>1. CASE drafts[p] = invoice[p]
    BY <2>1 DEF IInv, Shape, LinesAreUsage, BlankInvoices
  <2>2. CASE drafts[p] = Computed(p, Used(usage, p), invoice[p].applied)
    <3>1. Used(usage, p) \in Nat /\ invoice[p].applied \in Nat
      BY <1>3 DEF IInv, Shape
    <3> DEFINE d == Computed(p, Used(usage, p), invoice[p].applied)
    <3>2. /\ d.status \in {"SKIPPED", "DRAFT"} /\ d.lines = Used(usage, p)
          /\ d.applied = invoice[p].applied
          /\ d.status = "SKIPPED" => d.lines = 0
      BY DEF Computed
    <3>3. d.complete => now >= End(p)
      BY DEF Computed
    <3>5. d \in [status : {"none", "DRAFT", "SKIPPED", "FINALIZED"},
                 lines : Nat, complete : BOOLEAN, applied : Nat]
      BY <3>1 DEF Computed
    <3> HIDE DEF drafts, d
    <3>4. drafts[p] = d
      BY <2>2 DEF d
    <3> QED
      BY <1>3, <3>2, <3>3, <3>4, <3>5
  <2> QED
    BY <1>4, <2>1, <2>2
<1>6. \A p \in Periods : Most(p, c, drafts[p]) \in Nat
  <2>1. \A p \in Periods : BeforeExpiry(p, c, drafts[p].lines) \in Nat
    BY <1>3, <1>5, Sums DEF BeforeExpiry
  <2> HIDE DEF drafts, c
  <2> QED
    BY <1>5, <2>1 DEF Most, AtMost, AtLeastZero
<1>7. Shape'
  <2>1. job' \in [queue : Seq(Credits), planned : BOOLEAN,
                  most : [Periods -> Nat], seen : [Periods -> Nat]]
    <3>1. most \in [Periods -> Nat] /\ seen \in [Periods -> Nat]
      BY <1>5, <1>6
    <3> HIDE DEF most, seen
    <3> QED
      BY <1>1, <3>1 DEF IInv, Shape
  <2>2. invoice' \in [Periods -> [status : {"none", "DRAFT", "SKIPPED", "FINALIZED"},
                                  lines : Nat, complete : BOOLEAN, applied : Nat]]
    <3>1. drafts = [p \in Periods |-> drafts[p]]
      BY DEF Refreshed
    <3> HIDE DEF drafts
    <3> QED
      BY <1>1, <1>5, <3>1
  <2> QED
    BY <1>1, <2>1, <2>2 DEF IInv, Shape
<1>8. SameBills
  BY <1>1, <1>4, <1>5 DEF SameBills
<1>9. LinesAreUsage'
  BY <1>1, <1>5 DEF IInv, LinesAreUsage
<1>10. BlankInvoices'
  BY <1>1, <1>4, <1>5 DEF IInv, BlankInvoices
<1>11. GraceIsOver'
  BY <1>1 DEF IInv, Shape, GraceIsOver
<1>12. /\ job'.queue = job.queue /\ job'.most = most /\ job'.seen = seen
       /\ Head(job'.queue) = c
  BY <1>1 DEF IInv, Shape
<1>13. ASSUME NEW p \in Periods, most[p] > 0
       PROVE  most[p] + drafts[p].applied <= UsedBefore(usage, p, e)
  <2>1. Target(p) /\ most[p] = Most(p, c, drafts[p])
    BY <1>13
  <2> DEFINE b == BeforeExpiry(p, c, drafts[p].lines)
             l == drafts[p].lines
             a == drafts[p].applied
  <2>2. b \in Nat /\ l \in Nat /\ a \in Nat
    BY <1>3, <1>5, Sums DEF BeforeExpiry
  <2>3. b <= UsedBefore(usage, p, e) \/ l <= UsedBefore(usage, p, e)
    <3>1. CASE End(p) <= e
      BY <1>2, <1>3, <1>5, <3>1, UsageTypes
    <3>2. CASE ~(End(p) <= e)
      BY <1>2, <1>3, <3>2, Sums, UsageTypes DEF BeforeExpiry
    <3> QED
      BY <3>1, <3>2
  <2>4. most[p] = AtLeastZero(AtMost(b, l) - a)
    BY <2>1 DEF Most
  <2> HIDE DEF b, l, most
  <2> QED
    BY <1>3, <1>13, <2>2, <2>3, <2>4 DEF AtLeastZero, AtMost
<1>14. PlanFits'
  <2> HIDE DEF most, drafts
  <2> QED
    BY <1>1, <1>12, <1>13 DEF PlanFits
<1>15. ASSUME NEW p \in Periods, drafts[p].status # "FINALIZED", End(p) > added[c], Start(p) < e
       PROVE  AtMost(UsedBefore(usage, p, e), drafts[p].lines) <= most[p] + drafts[p].applied
  <2> DEFINE b == BeforeExpiry(p, c, drafts[p].lines)
             l == drafts[p].lines
             a == drafts[p].applied
             u == UsedBefore(usage, p, e)
  <2>1. b \in Nat /\ l \in Nat /\ a \in Nat /\ most[p] \in Nat /\ u \in Nat
    BY <1>3, <1>5, <1>6, Sums DEF BeforeExpiry
  <2> SUFFICES AtMost(u, l) <= most[p] + a
    OBVIOUS
  <2>2. CASE Target(p)
    <3>1. most[p] = AtLeastZero(AtMost(b, l) - a)
      BY <2>2 DEF Most
    <3>2. u <= b \/ l <= b
      <4>1. b = l \/ b = UsedIn(usage, Start(p), e)
        BY Sums DEF BeforeExpiry
      <4>2. u <= UsedIn(usage, Start(p), e)
        BY <1>2, <1>3, UsageTypes
      <4> HIDE DEF b, l, u
      <4> QED
        BY <2>1, <4>1, <4>2
    <3> HIDE DEF b, l, a, u, most
    <3> QED
      BY <2>1, <3>1, <3>2 DEF AtLeastZero, AtMost
  <2>3. CASE ~Target(p)
    <3>1. l = 0 \/ u = 0
      <4>1. CASE drafts[p].status \in {"none", "SKIPPED"}
        BY <1>5, <4>1
      <4>2. CASE drafts[p].status = "DRAFT"
        <5>1. ~EarlierDraft(p, c) /\ ~CurrentDraft(p, c)
          BY <2>3, <4>2
        <5>2. drafts[p] = invoice[p]
          BY <5>1 DEF Refreshed
        <5>3. p <= current /\ current \in Int /\ added[c] \in Int
          <6>1. current \in Int /\ added[c] \in Int
            BY <1>2, SettlementConstants DEF IInv, Shape, Time, Never
          <6>2. ~(p > current)
            BY <4>2, <5>2 DEF IInv, BlankInvoices
          <6> QED
            BY <1>3, <6>1, <6>2
        <5>4. p = current
          BY <1>3, <1>15, <4>2, <5>1, <5>2, <5>3 DEF EarlierDraft
        <5>5. UsedIn(usage, Start(p), e) = 0
          BY <1>3, <1>15, <4>2, <5>1, <5>2, <5>4, Sums DEF CurrentDraft
        <5> QED
          BY <1>2, <1>3, <5>5, UsageTypes
      <4> QED
        BY <1>5, <1>15, <4>1, <4>2
    <3> HIDE DEF l, a, u, most
    <3> QED
      BY <2>1, <3>1 DEF AtMost
  <2> QED
    BY <2>2, <2>3
<1>16. PlanCovers'
  <2>1. \A p \in Periods : seen[p] = drafts[p].lines
    OBVIOUS
  <2> HIDE DEF most, seen, drafts
  <2> QED
    BY <1>1, <1>12, <1>15, <2>1 DEF PlanCovers
<1> QED
  BY <1>7, <1>8, <1>9, <1>10, <1>11, <1>14, <1>16, KeepsBills DEF IInv

(* The transaction: the credit pays what was planned on the drafts that are *)
(* still open, and the rest of it expires.                                  *)
LEMMA SettleEffect ==
    ASSUME IInv, Settle, NEW c, c = Head(job.queue), NEW t, t = Takes(c)
    PROVE  /\ c \in Credits /\ job.planned /\ job.queue # <<>> /\ job' = Done
           /\ UNCHANGED <<now, usage, current, computing, added, placed, excused>>
           /\ available' = [available EXCEPT ![c] = 0]
           /\ expired' = [expired EXCEPT ![c] = expired[c] + available[c] - SumOver(t, Periods)]
           /\ SumOver(t, Periods) \in 0 .. available[c]
           /\ invoice' = [p \in Periods |-> [invoice[p] EXCEPT !.applied = invoice[p].applied + t[p]]]
           /\ settled' = [p \in Periods |-> [settled[p] EXCEPT ![c] = settled[p][c] + t[p]]]
           /\ \A p \in Periods :
                 /\ t[p] \in Nat /\ t[p] <= job.most[p] /\ t[p] <= available[c]
                 /\ t[p] > 0 => invoice[p].status = "DRAFT"
                 /\ Applicable(p, c) /\ SumOver(t, Periods) < available[c] => t[p] = job.most[p]
<1>1. c \in Credits /\ job.planned /\ job.queue # <<>>
  BY HeadOfRun DEF Settle, IInv, GraceIsOver
<1>2. /\ job' = Done
      /\ UNCHANGED <<now, usage, current, computing, added, placed, excused>>
      /\ available' = [available EXCEPT ![c] = 0]
      /\ expired' = [expired EXCEPT ![c] = expired[c] + available[c] - SumOver(t, Periods)]
      /\ invoice' = [p \in Periods |-> [invoice[p] EXCEPT !.applied = invoice[p].applied + t[p]]]
      /\ settled' = [p \in Periods |-> [settled[p] EXCEPT ![c] = settled[p][c] + t[p]]]
  BY Sums DEF Settle
<1>3. SumOver(t, Periods) \in 0 .. available[c]
  BY <1>1, TakesFit DEF IInv
<1>4. \A p \in Periods :
         /\ t[p] \in Nat /\ t[p] <= job.most[p] /\ t[p] <= available[c]
         /\ ~Applicable(p, c) => t[p] = 0
         /\ Applicable(p, c) /\ SumOver(t, Periods) < available[c] => t[p] = job.most[p]
  BY <1>1, TakesFit DEF IInv
<1>5. \A p \in Periods : t[p] > 0 => invoice[p].status = "DRAFT"
  BY <1>4 DEF Applicable
<1> QED
  BY <1>1, <1>2, <1>3, <1>4, <1>5

LEMMA SettleStep ==
    ASSUME IInv, Settle
    PROVE  IInv'
<1>0. PICK c, t : c = Head(job.queue) /\ t = Takes(c)
  OBVIOUS
<1>1. /\ c \in Credits /\ job.planned /\ job.queue # <<>> /\ job' = Done
      /\ UNCHANGED <<now, usage, current, computing, added, placed, excused>>
      /\ available' = [available EXCEPT ![c] = 0]
      /\ expired' = [expired EXCEPT ![c] = expired[c] + available[c] - SumOver(t, Periods)]
      /\ SumOver(t, Periods) \in 0 .. available[c]
      /\ invoice' = [p \in Periods |-> [invoice[p] EXCEPT !.applied = invoice[p].applied + t[p]]]
      /\ settled' = [p \in Periods |-> [settled[p] EXCEPT ![c] = settled[p][c] + t[p]]]
      /\ \A p \in Periods :
            /\ t[p] \in Nat /\ t[p] <= job.most[p] /\ t[p] <= available[c]
            /\ t[p] > 0 => invoice[p].status = "DRAFT"
  BY <1>0, SettleEffect
<1>2. /\ Shape /\ available[c] \in Nat /\ expired[c] \in Nat
      /\ \A p \in Periods : settled[p] \in [Credits -> Nat] /\ job.most[p] \in Nat
      /\ \A p \in Periods : invoice[p] \in [status : {"none", "DRAFT", "SKIPPED", "FINALIZED"},
                                            lines : Nat, complete : BOOLEAN, applied : Nat]
  BY <1>1 DEF IInv, Shape
<1>3. ASSUME NEW p \in Periods
      PROVE  /\ invoice'[p].status = invoice[p].status /\ invoice'[p].lines = invoice[p].lines
             /\ invoice'[p].complete = invoice[p].complete
             /\ invoice'[p].applied = invoice[p].applied + t[p]
             /\ settled'[p][c] = settled[p][c] + t[p]
             /\ \A d \in Credits : d # c => settled'[p][d] = settled[p][d]
             /\ settled'[p] \in [Credits -> Nat]
  <2>1. /\ invoice'[p] = [invoice[p] EXCEPT !.applied = invoice[p].applied + t[p]]
        /\ settled'[p] = [settled[p] EXCEPT ![c] = settled[p][c] + t[p]]
        /\ c \in Credits /\ t[p] \in Nat
    BY <1>1
  <2>2. /\ settled[p] \in [Credits -> Nat]
        /\ invoice[p] \in [status : {"none", "DRAFT", "SKIPPED", "FINALIZED"},
                            lines : Nat, complete : BOOLEAN, applied : Nat]
    BY <1>2
  <2> QED
    BY <2>1, <2>2
<1>4. /\ job' \in [queue : Seq(Credits), planned : BOOLEAN,
                   most : [Periods -> Nat], seen : [Periods -> Nat]]
      /\ GraceIsOver' /\ PlanFits' /\ PlanCovers'
  BY <1>1, DoneRun DEF IInv
<1>5. Shape'
  <2>1. /\ available' \in [Credits -> Nat] /\ expired' \in [Credits -> Nat]
    BY <1>1, <1>2 DEF Shape
  <2>2. settled' \in [Periods -> [Credits -> Nat]]
    BY <1>1, <1>3
  <2>3. invoice' \in [Periods -> [status : {"none", "DRAFT", "SKIPPED", "FINALIZED"},
                                  lines : Nat, complete : BOOLEAN, applied : Nat]]
    <3>1. ASSUME NEW p \in Periods
          PROVE  [invoice[p] EXCEPT !.applied = invoice[p].applied + t[p]]
                     \in [status : {"none", "DRAFT", "SKIPPED", "FINALIZED"},
                          lines : Nat, complete : BOOLEAN, applied : Nat]
      <4>1. t[p] \in Nat
        BY <1>1
      <4> QED
        BY <1>2, <4>1
    <3> QED
      BY <1>1, <3>1
  <2> QED
    BY <1>1, <1>4, <2>1, <2>2, <2>3 DEF IInv, Shape
<1>6. BooksBalance'
  <2>1. SumOver(Spending(c)', Periods) = SumOver(Spending(c), Periods) + SumOver(t, Periods)
    <3>1. \A p \in Periods : /\ Spending(c)[p] \in Int /\ t[p] \in Int
                             /\ Spending(c)'[p] = Spending(c)[p] + t[p]
      <4>1. ASSUME NEW p \in Periods
            PROVE  Spending(c)'[p] = settled'[p][c] + placed[p][c]
        BY <1>1 DEF Spending
      <4>2. ASSUME NEW p \in Periods
            PROVE  /\ Spending(c)[p] = settled[p][c] + placed[p][c]
                   /\ settled[p][c] \in Nat /\ placed[p][c] \in Nat /\ t[p] \in Nat
        <5>1. Spending(c)[p] = settled[p][c] + placed[p][c]
          BY DEF Spending
        <5>2. c \in Credits /\ t[p] \in Nat
          BY <1>1
        <5>3. settled[p] \in [Credits -> Nat] /\ placed[p] \in [Credits -> Nat]
          BY <1>2 DEF Shape
        <5>4. settled[p][c] \in Nat /\ placed[p][c] \in Nat
          BY <5>2, <5>3
        <5> QED
          BY <5>1, <5>2, <5>4
      <4> QED
        BY <1>3, <4>1, <4>2
    <3> QED
      BY <3>1, AllFinite, SumPlus
  <2>2. \A d \in Credits : d # c => Spending(d)' = Spending(d)
    BY <1>1, <1>3 DEF Spending
  <2>3. \A d \in Credits : d # c => available'[d] = available[d] /\ expired'[d] = expired[d]
    BY <1>1, <1>2 DEF Shape
  <2>4. /\ available'[c] = 0 /\ expired'[c] = expired[c] + available[c] - SumOver(t, Periods)
        /\ SumOver(Spending(c), Periods) \in Nat
    BY <1>1, <1>2, SpendingIsNat DEF Shape
  <2>5. available'[c] + expired'[c] + SumOver(Spending(c)', Periods)
           = available[c] + expired[c] + SumOver(Spending(c), Periods)
    BY <1>1, <1>2, <2>1, <2>4
  <2>6. ASSUME NEW d \in Credits
        PROVE  (IF added[d] = Never THEN 0 ELSE AmountOf[d])
                   = available'[d] + expired'[d] + SumOver(Spending(d)', Periods)
    <3>1. (IF added[d] = Never THEN 0 ELSE AmountOf[d])
             = available[d] + expired[d] + SumOver(Spending(d), Periods)
      BY DEF IInv, BooksBalance
    <3>2. CASE d = c
      BY <2>5, <3>1, <3>2
    <3>3. CASE d # c
      BY <2>2, <2>3, <3>1, <3>3
    <3> QED
      BY <3>2, <3>3
  <2> QED
    BY <1>1, <2>6 DEF BooksBalance
<1>7. OpenInvoices'
  <2>1. ASSUME NEW p \in Periods
        PROVE  SumOver(settled'[p], Credits) = SumOver(settled[p], Credits) + t[p]
    <3>1. /\ \A d \in Credits : settled[p][d] \in Int /\ settled'[p][d] \in Int
          /\ \A d \in Credits \ {c} : settled'[p][d] = settled[p][d]
      BY <1>2, <1>3
    <3>2. c \in Credits /\ t[p] \in Nat
      BY <1>1
    <3>3. SumOver(settled'[p], Credits) = SumOver(settled[p], Credits) - settled[p][c] + settled'[p][c]
      <4>1. IsFiniteSet(Credits)
        BY AllFinite
      <4> DEFINE f == settled[p]
                 g == settled'[p]
      <4>2. /\ \A d \in Credits : f[d] \in Int /\ g[d] \in Int
            /\ \A d \in Credits \ {c} : g[d] = f[d]
        BY <3>1
      <4> SUFFICES SumOver(g, Credits) = SumOver(f, Credits) - f[c] + g[c]
        OBVIOUS
      <4> HIDE DEF f, g
      <4> QED
        BY <3>2, <4>1, <4>2, SumUpdate
    <3>4. SumOver(settled[p], Credits) \in Int
      BY <3>1, AllFinite, SumType
    <3>5. settled[p][c] \in Int /\ settled'[p][c] = settled[p][c] + t[p]
      BY <1>3, <3>1, <3>2
    <3> QED
      BY <3>2, <3>3, <3>4, <3>5
  <2>2. placed' = placed
    BY <1>1
  <2> QED
    BY <1>3, <2>1, <2>2 DEF IInv, OpenInvoices
<1>8. LinesAreUsage' /\ BlankInvoices'
  BY <1>1, <1>3 DEF IInv, LinesAreUsage, BlankInvoices
<1>9. SettledIsGone'
  <2>1. ASSUME NEW p \in Periods, settled'[p][c] > 0
        PROVE  available'[c] = 0 /\ added[c] # Never
    <3>1. settled[p][c] > 0 \/ available[c] > 0
      BY <1>1, <1>2, <1>3, <2>1
    <3>2. added[c] # Never
      <4>1. CASE settled[p][c] > 0
        BY <1>1, <4>1 DEF IInv, SettledIsGone
      <4>2. CASE available[c] > 0
        <5>1. SumOver(Spending(c), Periods) \in Nat
          BY <1>1, <1>2, SpendingIsNat
        <5> QED
          BY <1>1, <1>2, <4>2, <5>1 DEF IInv, BooksBalance
      <4> QED
        BY <3>1, <4>1, <4>2
    <3> QED
      BY <1>1, <1>2, <3>2 DEF Shape
  <2>2. ASSUME NEW p \in Periods, NEW d \in Credits, d # c, settled'[p][d] > 0
        PROVE  available'[d] = 0 /\ added[d] # Never
    BY <1>1, <1>2, <1>3, <2>2 DEF IInv, SettledIsGone, Shape
  <2> QED
    BY <1>1, <2>1, <2>2 DEF SettledIsGone
<1>10. FinalizedIsPaid'
  <2>1. ASSUME NEW p \in Periods, invoice[p].status = "FINALIZED"
        PROVE  invoice'[p].applied = invoice[p].applied
    <3>1. t[p] = 0
      BY <1>1, <2>1
    <3>2. invoice'[p].applied = invoice[p].applied + t[p]
      BY <1>3
    <3>3. invoice[p].applied \in Nat
      BY <1>2
    <3> QED
      BY <3>1, <3>2, <3>3
  <2>2. \A d \in Credits : available'[d] > 0 => available[d] > 0
    BY <1>1, <1>2 DEF Shape
  <2>3. UNCHANGED <<added, excused>>
    BY <1>1
  <2>4. ASSUME NEW p \in Periods, invoice[p].status = "FINALIZED", ~excused[p]
        PROVE  /\ invoice'[p].complete
               /\ \A d \in Credits :
                     available'[d] > 0 /\ added[d] < End(p) /\ Start(p) < ExpiryOf[d]
                     => invoice'[p].applied >= invoice'[p].lines
    <3>1. /\ invoice[p].complete
          /\ \A d \in Credits :
                available[d] > 0 /\ added[d] < End(p) /\ Start(p) < ExpiryOf[d]
                => invoice[p].applied >= invoice[p].lines
      BY <2>4 DEF IInv, FinalizedIsPaid
    <3>2. /\ invoice'[p].complete = invoice[p].complete /\ invoice'[p].lines = invoice[p].lines
          /\ invoice'[p].applied = invoice[p].applied
      BY <1>3, <2>1, <2>4
    <3> QED
      BY <2>2, <3>1, <3>2
  <2>5. \A p \in Periods : invoice'[p].status = invoice[p].status
    BY <1>3
  <2> QED
    BY <2>3, <2>4, <2>5 DEF FinalizedIsPaid
<1>11. PaysEarlier'
  <2>1. ASSUME NEW p \in Periods, NEW d \in Credits
        PROVE  SumOver(settled'[p], ExpiredBy(ExpiryOf[d])) <= UsedBefore(usage, p, ExpiryOf[d])
    <3> DEFINE E == ExpiredBy(ExpiryOf[d])
    <3>1. /\ E \in SUBSET Credits /\ IsFiniteSet(E)
          /\ \A x \in E : settled[p][x] \in Int /\ settled'[p][x] \in Int
          /\ \A x \in E \ {c} : settled'[p][x] = settled[p][x]
      BY <1>2, <1>3, AllFinite, FS_Subset DEF ExpiredBy
    <3>2. SumOver(settled[p], E) <= UsedBefore(usage, p, ExpiryOf[d])
      BY DEF IInv, PaysEarlier
    <3>3. SumOver(settled'[p], E) = SumOver(settled[p], E)
              + IF c \in E THEN settled'[p][c] - settled[p][c] ELSE 0
      <4> HIDE DEF E
      <4>1. CASE c \in E
        <5>1. DiffersAt(E, c, settled[p], settled'[p])
          BY <3>1, <4>1 DEF DiffersAt
        <5>2. SumOver(settled'[p], E) = SumOver(settled[p], E) - settled[p][c] + settled'[p][c]
          BY <5>1, SumDiffers
        <5>3. /\ SumOver(settled[p], E) \in Int
              /\ settled[p][c] \in Int /\ settled'[p][c] \in Int
          BY <3>1, <4>1, SumType
        <5> QED
          BY <4>1, <5>2, <5>3
      <4>2. CASE c \notin E
        <5>1. \A x \in E : settled'[p][x] = settled[p][x]
          BY <3>1, <4>2
        <5>2. SumOver(settled'[p], E) = SumOver(settled[p], E)
          BY <3>1, <5>1, SumSame
        <5>3. SumOver(settled[p], E) \in Int
          BY <3>1, SumType
        <5> QED
          BY <4>2, <5>2, <5>3
      <4> QED
        BY <4>1, <4>2
    <3>4. SumOver(settled[p], E) \in Int /\ settled[p][c] \in Int /\ t[p] \in Nat
      <4> HIDE DEF E
      <4>1. SumOver(settled[p], E) \in Int
        BY <3>1, SumType
      <4> QED
        BY <1>1, <1>2, <4>1
    <3>5. CASE t[p] = 0 \/ c \notin E
      BY <1>3, <3>2, <3>3, <3>4, <3>5
    <3>6. CASE t[p] > 0 /\ c \in E
      <4>1. ExpiryOf[c] <= ExpiryOf[d] /\ ExpiryOf[c] \in Nat /\ ExpiryOf[d] \in Nat
        BY <1>1, <3>6, Expiries DEF ExpiredBy
      <4>2. t[p] + invoice[p].applied <= UsedBefore(usage, p, ExpiryOf[c])
        <5>1. UsedBefore(usage, p, ExpiryOf[c]) \in Nat
          BY <1>2, UsageIsNat, UsedInNat DEF Shape, UsedBefore
        <5>2. job.most[p] + invoice[p].applied <= UsedBefore(usage, p, ExpiryOf[c])
          <6>1. invoice[p].status # "FINALIZED" /\ job.most[p] > 0 /\ job.planned
            BY <1>1, <1>2, <3>6
          <6> QED
            BY <1>0, <6>1 DEF IInv, PlanFits
        <5> QED
          BY <1>1, <1>2, <5>1, <5>2
      <4>3. UsedBefore(usage, p, ExpiryOf[c]) <= UsedBefore(usage, p, ExpiryOf[d])
        BY <1>2, <4>1, UsageIsNat, LaterExpiry DEF Shape
      <4>4. invoice[p].applied = SumOver(settled[p], Credits)
        BY <1>1, <3>6 DEF IInv, OpenInvoices
      <4>5. SumOver(settled[p], E) <= SumOver(settled[p], Credits)
        <5>1. \A x \in Credits : settled[p][x] \in Nat
          BY <1>2
        <5> HIDE DEF E
        <5> QED
          BY <3>1, <5>1, AllFinite, SumOfPart
      <4>6. /\ UsedBefore(usage, p, ExpiryOf[c]) \in Nat /\ UsedBefore(usage, p, ExpiryOf[d]) \in Nat
            /\ invoice[p].applied \in Nat
        BY <1>2, UsageIsNat, UsedInNat DEF Shape, UsedBefore
      <4>7. SumOver(settled'[p], E) = SumOver(settled[p], E) + t[p]
        BY <1>3, <3>3, <3>4, <3>6
      <4> HIDE DEF E
      <4>8. SumOver(settled'[p], E) <= UsedBefore(usage, p, ExpiryOf[d])
        BY <3>4, <4>2, <4>3, <4>4, <4>5, <4>6, <4>7
      <4> QED
        BY <4>8 DEF E
    <3> QED
      BY <3>4, <3>5, <3>6
  <2> QED
    BY <1>1, <2>1 DEF PaysEarlier
<1> QED
  BY <1>4, <1>5, <1>6, <1>7, <1>8, <1>9, <1>10, <1>11 DEF IInv

(* Finalization keeps of what was applied at expiry what the lines call     *)
(* for, and the wallet's credits pay the rest as far as they go.            *)
LEMMA FinalizeStep ==
    ASSUME IInv, NEW p \in Periods, FinalizeDue(p) \/ FinalizeByHand(p)
    PROVE  IInv'
<1>0. PICK kept, owed : /\ kept = AtMost(invoice[p].applied, invoice[p].lines)
                        /\ owed = invoice[p].lines - kept
  OBVIOUS
<1>1. PICK take, paid :
         /\ take \in Consumptions(Eligible(p), owed)
         /\ paid = [c \in Credits |-> IF c \in Eligible(p) THEN take[c] ELSE 0]
         /\ available' = [c \in Credits |-> available[c] - paid[c]]
         /\ placed' = [placed EXCEPT ![p] = paid]
         /\ invoice' = [invoice EXCEPT ![p].status = "FINALIZED",
                                       ![p].applied = kept + Total(Credits, paid)]
  BY <1>0 DEF FinalizeDue, FinalizeByHand, Finalize
<1>2. /\ UNCHANGED <<now, usage, current, computing, added, settled, expired, job>>
      /\ invoice[p].status = "DRAFT"
      /\ excused' \in [Periods -> BOOLEAN]
      /\ \A q \in Periods : q # p => excused'[q] = excused[q]
      /\ ~excused'[p] =>
            /\ invoice[p].complete
            /\ Unprocessed(p) = {}
  <2>1. UNCHANGED <<now, usage, current, computing, added, settled, expired, job>>
    BY DEF FinalizeDue, FinalizeByHand, Finalize
  <2>2. invoice[p].status = "DRAFT"
    BY DEF FinalizeDue, FinalizeByHand, Finalize
  <2>3. PICK byHand \in BOOLEAN :
           /\ excused' = [excused EXCEPT ![p] =
                 \/ byHand /\ (~invoice[p].complete \/ Unprocessed(p) # {})
                 \/ \E c \in Unprocessed(p) : now >= ExpiryOf[c] + Hold]
           /\ byHand \/ (invoice[p].complete /\ ~HasPendingExpiringCredit(p))
    BY DEF FinalizeDue, FinalizeByHand, Finalize
  <2>4. excused \in [Periods -> BOOLEAN]
    BY DEF IInv, Shape
  <2>5. excused' \in [Periods -> BOOLEAN] /\ \A q \in Periods : q # p => excused'[q] = excused[q]
    BY <2>3, <2>4
  <2>6. ASSUME ~excused'[p] PROVE invoice[p].complete /\ Unprocessed(p) = {}
    <3>1. /\ ~(byHand /\ (~invoice[p].complete \/ Unprocessed(p) # {}))
          /\ ~(\E c \in Unprocessed(p) : now >= ExpiryOf[c] + Hold)
      BY <2>3, <2>4, <2>6
    <3>2. CASE byHand
      BY <3>1, <3>2 DEF IInv, Shape
    <3>3. CASE ~byHand
      <4>1. \A c \in Unprocessed(p) : now \in Int /\ ExpiryOf[c] + Hold \in Int
        BY SettlementConstants DEF IInv, Shape, Time, Unprocessed
      <4> QED
        BY <2>3, <3>1, <3>3, <4>1 DEF HasPendingExpiringCredit
    <3> QED
      BY <3>2, <3>3
  <2> QED
    BY <2>1, <2>2, <2>5, <2>6
<1>3. /\ invoice[p] \in [status : {"none", "DRAFT", "SKIPPED", "FINALIZED"},
                         lines : Nat, complete : BOOLEAN, applied : Nat]
      /\ kept \in Nat /\ owed \in Nat /\ kept + owed = invoice[p].lines
      /\ available \in [Credits -> Nat] /\ Eligible(p) \subseteq Credits
      /\ IsFiniteSet(Eligible(p))
  <2>1. /\ invoice[p] \in [status : {"none", "DRAFT", "SKIPPED", "FINALIZED"},
                           lines : Nat, complete : BOOLEAN, applied : Nat]
        /\ available \in [Credits -> Nat] /\ Eligible(p) \subseteq Credits
    BY DEF IInv, Shape, Eligible
  <2>2. IsFiniteSet(Eligible(p))
    BY <2>1, AllFinite, FS_Subset
  <2>3. invoice[p].lines \in Nat /\ invoice[p].applied \in Nat
    BY <2>1
  <2> QED
    BY <1>0, <2>1, <2>2, <2>3 DEF AtMost
<1>4. /\ take \in [Eligible(p) -> 0 .. owed]
      /\ \A c \in Eligible(p) : take[c] <= available[c]
      /\ SumOver(take, Eligible(p)) = AtMost(owed, SumOver(available, Eligible(p)))
  BY <1>1, Sums DEF Consumptions
<1>5. /\ paid \in [Credits -> Nat]
      /\ \A c \in Credits : paid[c] <= available[c] /\ available'[c] = available[c] - paid[c]
      /\ available' \in [Credits -> Nat]
      /\ \A c \in Eligible(p) : paid[c] = take[c]
      /\ \A c \in Credits \ Eligible(p) : paid[c] = 0
  BY <1>1, <1>3, <1>4
<1>6. SumOver(paid, Credits) = SumOver(take, Eligible(p)) /\ SumOver(paid, Credits) \in Nat
  <2>1. /\ IsFiniteSet(Credits) /\ \A c \in Credits : paid[c] \in Nat /\ paid[c] \in Int
    BY <1>5, AllFinite
  <2> DEFINE U == Credits \ Eligible(p)
             E == Eligible(p)
  <2>2. IsFiniteSet(U) /\ IsFiniteSet(E) /\ E \cap U = {} /\ E \cup U = Credits
    BY <1>3, <2>1, FS_Subset
  <2>3. \A c \in U : paid[c] = 0
    BY <1>5
  <2>4. \A c \in E : take[c] = paid[c]
    BY <1>5
  <2>5. \A c \in E \cup U : paid[c] \in Int
    BY <2>1, <2>2
  <2> SUFFICES SumOver(paid, Credits) = SumOver(take, E) /\ SumOver(paid, Credits) \in Nat
    OBVIOUS
  <2> HIDE DEF U, E
  <2>6. SumOver(paid, E \cup U) = SumOver(paid, E) + SumOver(paid, U)
    BY <2>2, <2>5, SumUnion
  <2>7. SumOver(paid, U) = 0
    BY <2>2, <2>3, SumZero
  <2>8. SumOver(paid, E) = SumOver(take, E)
    BY <2>2, <2>4, SumSame
  <2>9. SumOver(paid, Credits) \in Nat
    BY <2>1, SumNat
  <2>10. SumOver(paid, E) \in Int
    BY <2>2, <2>5, SumType
  <2>11. SumOver(paid, Credits) = SumOver(paid, E)
    <3>1. SumOver(paid, Credits) = SumOver(paid, E \cup U)
      BY <2>2, Zenon
    <3> QED
      BY <2>6, <2>7, <2>10, <3>1
  <2> QED
    BY <2>8, <2>9, <2>11
<1>7. /\ \A q \in Periods : q # p => invoice'[q] = invoice[q] /\ placed'[q] = placed[q]
      /\ invoice'[p] = [invoice[p] EXCEPT !.status = "FINALIZED",
                                          !.applied = kept + SumOver(paid, Credits)]
      /\ placed'[p] = paid
  BY <1>1, Sums DEF IInv, Shape
<1>8. /\ invoice'[p].status = "FINALIZED" /\ invoice'[p].lines = invoice[p].lines
      /\ invoice'[p].complete = invoice[p].complete
      /\ invoice'[p].applied = kept + SumOver(paid, Credits)
      /\ invoice'[p] \in [status : {"none", "DRAFT", "SKIPPED", "FINALIZED"},
                          lines : Nat, complete : BOOLEAN, applied : Nat]
  <2>1. kept + SumOver(paid, Credits) \in Nat
    BY <1>3, <1>6
  <2> QED
    BY <1>3, <1>7, <2>1
<1>9. Shape'
  <2>1. invoice' \in [Periods -> [status : {"none", "DRAFT", "SKIPPED", "FINALIZED"},
                                  lines : Nat, complete : BOOLEAN, applied : Nat]]
    BY <1>1, <1>7, <1>8 DEF IInv, Shape
  <2>2. placed' \in [Periods -> [Credits -> Nat]]
    BY <1>1, <1>5 DEF IInv, Shape
  <2> QED
    BY <1>2, <1>5, <2>1, <2>2 DEF IInv, Shape
<1>10. BooksBalance'
  <2>1. ASSUME NEW c \in Credits
        PROVE  SumOver(Spending(c)', Periods) = SumOver(Spending(c), Periods) + paid[c]
    <3> DEFINE f == Spending(c)
               g == Spending(c)'
    <3>1. placed[p][c] = 0
      BY <1>2 DEF IInv, OpenInvoices
    <3>2. ASSUME NEW q \in Periods
          PROVE  f[q] \in Nat /\ g[q] = settled[q][c] + placed'[q][c]
      BY <1>2, SpendingIsNat DEF Spending, IInv
    <3>3. \A q \in Periods \ {p} : g[q] = f[q]
      BY <1>7, <3>2 DEF Spending
    <3>4. f[p] = settled[p][c] /\ g[p] = settled[p][c] + paid[c] /\ settled[p][c] \in Nat /\ paid[c] \in Nat
      BY <1>5, <1>7, <3>1, <3>2 DEF Spending, IInv, Shape
    <3> SUFFICES SumOver(g, Periods) = SumOver(f, Periods) + paid[c]
      OBVIOUS
    <3> HIDE DEF f, g
    <3>5. \A q \in Periods : f[q] \in Int /\ g[q] \in Int
      BY <3>2, <3>3, <3>4
    <3>6. SumOver(g, Periods) = SumOver(f, Periods) - f[p] + g[p]
      BY <3>3, <3>5, AllFinite, SumUpdate
    <3>7. SumOver(f, Periods) \in Int
      BY <3>5, AllFinite, SumType
    <3> QED
      BY <3>4, <3>6, <3>7
  <2>2. ASSUME NEW c \in Credits
        PROVE  (IF added[c] = Never THEN 0 ELSE AmountOf[c])
                   = available'[c] + expired[c] + SumOver(Spending(c)', Periods)
    <3>1. (IF added[c] = Never THEN 0 ELSE AmountOf[c])
             = available[c] + expired[c] + SumOver(Spending(c), Periods)
      BY DEF IInv, BooksBalance
    <3>2. /\ SumOver(Spending(c), Periods) \in Nat /\ available[c] \in Nat
          /\ expired[c] \in Nat /\ paid[c] \in Nat /\ available'[c] = available[c] - paid[c]
      BY <1>5, SpendingIsNat DEF IInv, Shape
    <3>3. available'[c] + expired[c] + SumOver(Spending(c)', Periods)
             = available[c] + expired[c] + SumOver(Spending(c), Periods)
      BY <2>1, <3>2
    <3> QED
      BY <3>1, <3>3
  <2>3. UNCHANGED <<added, expired>>
    BY <1>2
  <2> QED
    BY <2>2, <2>3 DEF BooksBalance
<1>11. OpenInvoices' /\ LinesAreUsage' /\ BlankInvoices' /\ PaysEarlier' /\ GraceIsOver'
  <2>1. OpenInvoices'
    <3>1. ASSUME NEW q \in Periods, invoice'[q].status # "FINALIZED"
          PROVE  /\ invoice'[q].applied = SumOver(settled[q], Credits)
                 /\ \A c \in Credits : placed'[q][c] = 0
      <4>1. q # p
        BY <1>8, <3>1
      <4>2. invoice'[q] = invoice[q] /\ placed'[q] = placed[q]
        BY <1>7, <4>1
      <4> QED
        BY <3>1, <4>2 DEF IInv, OpenInvoices
    <3>2. UNCHANGED settled
      BY <1>2
    <3> QED
      BY <3>1, <3>2 DEF OpenInvoices
  <2>2. LinesAreUsage'
    BY <1>2, <1>7, <1>8 DEF IInv, LinesAreUsage
  <2>3. BlankInvoices'
    <3>1. ~(p > current)
      BY <1>2 DEF IInv, BlankInvoices
    <3>2. UNCHANGED <<now, current>>
      BY <1>2
    <3> QED
      BY <1>7, <1>8, <3>1, <3>2 DEF IInv, BlankInvoices
  <2>4. PaysEarlier' /\ GraceIsOver'
    BY <1>2 DEF IInv, PaysEarlier, GraceIsOver
  <2> QED
    BY <2>1, <2>2, <2>3, <2>4
<1>12. SettledIsGone'
  <2>1. \A c \in Credits : available[c] = 0 => available'[c] = 0
    BY <1>3, <1>5
  <2> QED
    BY <1>2, <2>1 DEF IInv, SettledIsGone
<1>13. PlanFits' /\ PlanCovers'
  BY <1>2, <1>7, <1>8 DEF IInv, PlanFits, PlanCovers
<1>14. FinalizedIsPaid'
  <2>1. ASSUME ~excused'[p], NEW c \in Credits,
               available'[c] > 0, added[c] < End(p), Start(p) < ExpiryOf[c]
        PROVE  invoice'[p].applied >= invoice'[p].lines
    <3>1. available[c] > 0 /\ paid[c] < available[c]
      BY <1>3, <1>5, <2>1
    <3>2. c \in Eligible(p)
      <4>1. ~(ExpiryOf[c] < End(p))
        BY <1>2, <2>1, <3>1 DEF Unprocessed
      <4> QED
        BY <2>1, <3>1, <4>1, Expiries, PeriodEnds DEF Eligible
    <3> DEFINE E == Eligible(p)
    <3>3. SumOver(take, E) < SumOver(available, E)
      <4>1. IsFiniteSet(E) /\ IsFiniteSet(E \ {c}) /\ c \in E
        BY <1>3, <3>2, FS_Subset
      <4>2. \A d \in E : take[d] \in Int /\ available[d] \in Int /\ take[d] <= available[d]
        BY <1>3, <1>4
      <4>3. take[c] < available[c]
        BY <1>5, <3>1, <3>2
      <4> HIDE DEF E
      <4>4. /\ SumOver(take, E) = take[c] + SumOver(take, E \ {c})
            /\ SumOver(available, E) = available[c] + SumOver(available, E \ {c})
        BY <4>1, <4>2, SumWithout
      <4>5. /\ SumOver(take, E \ {c}) <= SumOver(available, E \ {c})
        <5> DEFINE R == E \ {c}
        <5>1. \A d \in R : take[d] \in Int /\ available[d] \in Int /\ take[d] <= available[d]
          BY <4>2
        <5>2. IsFiniteSet(R)
          BY <4>1
        <5> SUFFICES SumOver(take, R) <= SumOver(available, R)
          OBVIOUS
        <5> HIDE DEF R
        <5> QED
          BY <5>1, <5>2, SumMonotone
      <4>6. SumOver(take, E \ {c}) \in Int /\ SumOver(available, E \ {c}) \in Int
        <5> DEFINE R == E \ {c}
        <5>1. \A d \in R : take[d] \in Int /\ available[d] \in Int
          BY <4>2
        <5>2. IsFiniteSet(R)
          BY <4>1
        <5> SUFFICES SumOver(take, R) \in Int /\ SumOver(available, R) \in Int
          OBVIOUS
        <5> HIDE DEF R
        <5> QED
          BY <5>1, <5>2, SumType
      <4> QED
        BY <4>1, <4>2, <4>3, <4>4, <4>5, <4>6
    <3>4. SumOver(take, E) = owed
      <4>1. SumOver(available, E) \in Int
        <5>1. \A d \in E : available[d] \in Int
          BY <1>3
        <5> HIDE DEF E
        <5> QED
          BY <1>3, <5>1, SumType DEF E
      <4> QED
        BY <1>3, <1>4, <3>3, <4>1 DEF AtMost
    <3>5. invoice'[p].applied = kept + owed
      BY <1>6, <1>8, <3>4
    <3> QED
      BY <1>3, <1>8, <3>5
  <2>2. ~excused'[p] => invoice'[p].complete
    BY <1>2, <1>8
  <2>3. \A c \in Credits : available'[c] > 0 => available[c] > 0
    BY <1>3, <1>5
  <2>4. UNCHANGED added
    BY <1>2
  <2> QED
    BY <1>2, <1>7, <2>1, <2>2, <2>3, <2>4 DEF IInv, FinalizedIsPaid
<1> QED
  BY <1>9, <1>10, <1>11, <1>12, <1>13, <1>14 DEF IInv

LEMMA SpecIInv == Spec => []IInv
<1>1. IInv /\ [Next]_vars => IInv'
  <2> SUFFICES ASSUME IInv, [Next]_vars PROVE IInv'
    OBVIOUS
  <2>1. CASE Tick \/ UNCHANGED vars
    BY <2>1, TickStep
  <2>2. ASSUME NEW h \in BusyHours, ReceiveEvent(h) PROVE IInv'
    BY <2>2, ReceiveStep
  <2>3. ASSUME NEW c \in Credits, AddCredit(c) PROVE IInv'
    BY <2>3, AddStep
  <2>4. CASE RollPeriod
    BY <2>4, RollStep
  <2>5. ASSUME NEW p \in Periods, StartCompute(p) PROVE IInv'
    BY <2>5, StartComputeStep
  <2>6. ASSUME NEW p \in Periods, FinishCompute(p) PROVE IInv'
    BY <2>6, FinishComputeStep
  <2>7. ASSUME NEW p \in Periods, FinalizeDue(p) \/ FinalizeByHand(p) PROVE IInv'
    BY <2>7, FinalizeStep
  <2>8. CASE StartRun
    BY <2>8, StartRunStep
  <2>9. CASE PlanSettlement
    BY <2>9, PlanStep
  <2>10. CASE Settle
    BY <2>10, SettleStep
  <2>11. CASE SettlementFails
    BY <2>11, FailStep
  <2>12. ByHand \subseteq Periods
    BY SettlementConstants
  <2> QED
    BY <2>1, <2>2, <2>3, <2>4, <2>5, <2>6, <2>7, <2>8, <2>9, <2>10, <2>11, <2>12 DEF Next
<1> QED
  BY <1>1, InitIInv, PTL DEF Spec

-----------------------------------------------------------------------------
(* The state variables keep their types: no credit's remainder, and no      *)
(* expiry, is ever negative or more than what was bought.                   *)
THEOREM SettlementTypes == Spec => []TypeOK
<1>1. IInv => TypeOK
  <2> SUFFICES ASSUME IInv PROVE TypeOK
    OBVIOUS
  <2>1. ASSUME NEW c \in Credits
        PROVE  available[c] \in 0 .. AmountOf[c] /\ expired[c] \in 0 .. AmountOf[c]
    <3>1. (IF added[c] = Never THEN 0 ELSE AmountOf[c])
             = available[c] + expired[c] + SumOver(Spending(c), Periods)
      BY DEF IInv, BooksBalance
    <3>2. /\ SumOver(Spending(c), Periods) \in Nat /\ available[c] \in Nat
          /\ expired[c] \in Nat /\ AmountOf[c] \in Nat
      BY SpendingIsNat, Expiries DEF IInv, Shape
    <3> QED
      BY <3>1, <3>2
  <2> QED
    BY <2>1 DEF IInv, Shape, TypeOK
<1> QED
  BY <1>1, SpecIInv, PTL

(* Whatever computation, plan or transaction is under way, a draft's        *)
(* credits are those its payers were debited for, and every unit of a       *)
(* credit is unspent, expired, or in exactly one invoice (ComputeInvoice    *)
(* keeps PrepaidCreditsApplied, ApplyExpiringCreditToInvoice moves both).   *)
THEOREM NoCreditLostOrSpentTwice == Spec => []AppliedWasDebited
<1>1. IInv => AppliedWasDebited
  <2> SUFFICES ASSUME IInv PROVE AppliedWasDebited
    OBVIOUS
  <2>1. ASSUME NEW p \in Periods, invoice[p].status \in {"DRAFT", "SKIPPED"}
        PROVE  invoice[p].applied = Paid(settled, p)
    <3>1. DOMAIN settled[p] = Credits
      BY DEF IInv, Shape
    <3> QED
      BY <2>1, <3>1, Sums DEF IInv, OpenInvoices
  <2>2. ASSUME NEW c \in Credits, added[c] # Never
        PROVE  AmountOf[c] = available[c] + expired[c]
                  + Total(Periods, [p \in Periods |-> settled[p][c] + placed[p][c]])
    BY <2>2, Sums DEF IInv, BooksBalance, Spending
  <2> QED
    BY <2>1, <2>2 DEF AppliedWasDebited
<1> QED
  BY <1>1, SpecIInv, PTL

(* What the credits expired by e paid on a draft is no more than the usage  *)
(* from before e, although each was planned outside the draft's lock        *)
(* (settleExpiringCredit).                                                  *)
THEOREM CreditsPayEarlierUsage == Spec => []CreditPaysEarlierUsage
<1>1. IInv => CreditPaysEarlierUsage
  BY Sums DEF IInv, PaysEarlier, ExpiredBy, CreditPaysEarlierUsage
<1> QED
  BY <1>1, SpecIInv, PTL

(* The rest of a credit expires only when every invoice it could have paid  *)
(* has its usage from before the expiry paid by credits, unless that        *)
(* invoice was finalized too early or computed anew after the plan.         *)
THEOREM CreditsExpireOverPaidUsage == Spec => CreditExpiresOverPaidUsage
<1>1. ASSUME IInv, [Next]_vars, NEW c \in Credits, NEW p \in Periods,
             expired'[c] > expired[c],
             End(p) > added[c], Start(p) < ExpiryOf[c],
             ~excused[p], invoice[p].lines = job.seen[p]
      PROVE  invoice'[p].applied >= AtMost(UsageBefore(p, ExpiryOf[c]), invoice[p].lines)
  <2>1. expired[c] \in Nat /\ available[c] \in Nat
    BY <1>1 DEF IInv, Shape
  <2>2. Settle
    <3>1. expired' # expired
      BY <1>1, <2>1
    <3> QED
      BY <1>1, <3>1 DEF Next, vars, ledger, Tick, ReceiveEvent, AddCredit, RollPeriod,
           StartCompute, FinishCompute, FinalizeDue, FinalizeByHand, Finalize, StartRun,
           PlanSettlement, SettlementFails
  <2>3. PICK d, t : d = Head(job.queue) /\ t = Takes(d)
    OBVIOUS
  <2>4. /\ d \in Credits /\ job.planned
        /\ expired' = [expired EXCEPT ![d] = expired[d] + available[d] - SumOver(t, Periods)]
        /\ SumOver(t, Periods) \in 0 .. available[d]
        /\ invoice' = [q \in Periods |-> [invoice[q] EXCEPT !.applied = invoice[q].applied + t[q]]]
        /\ t[p] \in Nat
        /\ Applicable(p, d) /\ SumOver(t, Periods) < available[d] => t[p] = job.most[p]
    BY <1>1, <2>2, <2>3, SettleEffect
  <2>5. c = d
    BY <1>1, <2>1, <2>4 DEF IInv, Shape
  <2>6. SumOver(t, Periods) < available[c] /\ available[c] > 0
    <3>1. expired'[c] = expired[c] + available[c] - SumOver(t, Periods)
      BY <1>1, <2>4, <2>5 DEF IInv, Shape
    <3> QED
      BY <1>1, <2>1, <2>4, <2>5, <3>1
  <2>7. /\ invoice[p].applied \in Nat /\ invoice[p].lines \in Nat /\ job.most[p] \in Nat
        /\ invoice[p].status \in {"none", "DRAFT", "SKIPPED", "FINALIZED"}
        /\ invoice'[p].applied = invoice[p].applied + t[p]
        /\ UsedBefore(usage, p, ExpiryOf[c]) \in Nat
        /\ settled[p][c] \in Nat
    <3>1. Shape
      BY <1>1 DEF IInv
    <3>2. /\ invoice[p] \in [status : {"none", "DRAFT", "SKIPPED", "FINALIZED"},
                            lines : Nat, complete : BOOLEAN, applied : Nat]
          /\ settled[p] \in [Credits -> Nat] /\ job.most[p] \in Nat
      BY <3>1 DEF Shape
    <3>3. UsedBefore(usage, p, ExpiryOf[c]) \in Nat
      BY <3>1, UsageIsNat, UsedInNat DEF Shape, UsedBefore
    <3>4. invoice'[p] = [invoice[p] EXCEPT !.applied = invoice[p].applied + t[p]]
      BY <2>4
    <3> QED
      BY <1>1, <3>2, <3>3, <3>4
  <2> DEFINE u == UsedBefore(usage, p, ExpiryOf[c])
             l == invoice[p].lines
  <2> SUFFICES invoice'[p].applied >= AtMost(u, l)
    BY Sums
  <2>8. CASE invoice[p].status = "FINALIZED"
    <3>1. End(p) \in Int /\ added[c] \in Int
      BY <1>1, PeriodEnds, SettlementConstants DEF IInv, Shape, Time, Never
    <3>2. invoice[p].applied >= l
      BY <1>1, <2>6, <2>8, <3>1 DEF IInv, FinalizedIsPaid
    <3> QED
      BY <2>4, <2>7, <3>2 DEF AtMost
  <2>9. CASE invoice[p].status \in {"none", "SKIPPED"}
    <3>1. l = 0
      BY <1>1, <2>9 DEF IInv, BlankInvoices
    <3> QED
      BY <2>4, <2>7, <3>1 DEF AtMost
  <2>10. CASE invoice[p].status = "DRAFT"
    <3>1. settled[p][c] = 0
      BY <1>1, <2>6, <2>7 DEF IInv, SettledIsGone
    <3>2. t[p] = job.most[p]
      BY <2>4, <2>5, <2>6, <2>10, <3>1 DEF Applicable
    <3>3. AtMost(u, l) <= job.most[p] + invoice[p].applied
      BY <1>1, <2>3, <2>4, <2>5, <2>10 DEF IInv, PlanCovers
    <3>4. AtMost(u, l) \in Int
      BY <2>7 DEF AtMost
    <3> QED
      BY <2>7, <3>2, <3>3, <3>4
  <2> QED
    BY <2>7, <2>8, <2>9, <2>10
<1> DEFINE Covered ==
        \A c \in Credits, p \in Periods :
          /\ expired'[c] > expired[c]
          /\ End(p) > added[c] /\ Start(p) < ExpiryOf[c]
          /\ ~excused[p] /\ invoice[p].lines = job.seen[p]
          => invoice'[p].applied >= AtMost(UsageBefore(p, ExpiryOf[c]), invoice[p].lines)
<1>2. IInv /\ [Next]_vars => [Covered]_vars
  BY <1>1
<1>3. CreditExpiresOverPaidUsage <=> [][Covered]_vars
  BY DEF CreditExpiresOverPaidUsage
<1> HIDE DEF Covered
<1> QED
  BY <1>2, <1>3, SpecIInv, PTL DEF Spec

=============================================================================
