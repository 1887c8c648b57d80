-------------------------- MODULE CreditSettlement --------------------------
(***************************************************************************)
(* Prepaid credits on the cycle drafts of one subscription.  A credit pays  *)
(* usage twice over: the expiry job applies an expiring one to open drafts  *)
(* for usage from before its expiry, and finalization takes what is still   *)
(* owed from those not expired at the period's end.  The job plans outside  *)
(* its transaction, drafts are computed outside their row lock, events come *)
(* late, and finalization waits for the job, but not for ever.              *)
(* The wallet is active and prepaid, and a credit is worth one unit.        *)
(***************************************************************************)
EXTENDS Integers, Sequences, FiniteSets, Functions, SequencesExt

CONSTANTS
    Credits,          \* credit transactions of the wallet
    AmountOf,         \* what each of them is worth
    ExpiryOf,         \* and when it expires
    NumPeriods,       \* bound: the subscription's billing periods
    Length,           \* hours in a period
    AddTimes,         \* bound: when credits may be added
    BusyHours,        \* bound: the hours that see usage
    ByHand,           \* bound: the periods whose invoice may be finalized by hand
    MaxUsage,         \* bound: and how much each
    Lateness,         \* bound: hours an event is late at most
    Grace,            \* settlementGracePeriod
    Hold,             \* settlementFinalizationHold
    MaxTime           \* bound: the clock stops here

Periods == 1 .. NumPeriods
Start(p) == (p - 1) * Length
End(p) == p * Length
Hours == 0 .. End(NumPeriods) - 1
Time == 0 .. MaxTime

ASSUME SettlementConstants ==
    /\ IsFiniteSet(Credits)
    /\ AmountOf \in [Credits -> Nat \ {0}] /\ ExpiryOf \in [Credits -> Nat]
    /\ NumPeriods \in Nat /\ Length \in Nat \ {0} /\ MaxUsage \in Nat /\ MaxTime \in Nat
    /\ Lateness \in Nat /\ Grace \in Nat /\ Hold \in Nat
    /\ BusyHours \subseteq Hours /\ AddTimes \subseteq Time /\ ByHand \subseteq Periods
    /\ Lateness <= Grace /\ Grace < Hold

VARIABLES
    now,         \* the clock
    usage,       \* usage events received, by the hour they are dated
    current,     \* the subscription's current period; past the last one when done
    invoice,     \* the cycle invoice of each period
    computing,   \* what a computation of a draft read before it has the row lock
    added,       \* when each credit was added, Never before
    available,   \* credits_available of each credit
    settled,     \* history: what each credit paid on each draft at its expiry
    placed,      \* history: what each credit paid at finalization
    expired,     \* history: what was debited as expired
    excused,     \* history: finalized by hand too early, or past a credit's hold
    job          \* the run of the expiry job

vars == <<now, usage, current, invoice, computing, added, available,
          settled, placed, expired, excused, job>>
ledger == <<added, available, settled, placed, expired>>

Never == MaxTime + 1
NotReading == -1
NoInvoice == [status |-> "none", lines |-> 0, complete |-> FALSE, applied |-> 0]
NoPlan == [p \in Periods |-> 0]
Idle == [queue |-> <<>>, planned |-> FALSE, most |-> NoPlan, seen |-> NoPlan]

Paid(book, p) == FoldFunction(+, 0, book[p])
Total(S, f) == FoldFunctionOnSet(+, 0, f, S)
AtMost(a, b) == IF a < b THEN a ELSE b
AtLeastZero(a) == IF a < 0 THEN 0 ELSE a

UsageIn(from, to) == Total({h \in Hours : from <= h /\ h < to}, usage)
PeriodUsage(p) == UsageIn(Start(p), End(p))
UsageBefore(p, e) == UsageIn(Start(p), AtMost(e, End(p)))

TypeOK ==
    /\ now \in Time
    /\ usage \in [Hours -> 0 .. MaxUsage]
    /\ current \in 1 .. NumPeriods + 1
    /\ invoice \in [Periods -> [status : {"none", "DRAFT", "SKIPPED", "FINALIZED"},
                                lines : Nat, complete : BOOLEAN, applied : Nat]]
    /\ computing \in [Periods -> Nat \cup {NotReading}]
    /\ added \in [Credits -> Time \cup {Never}]
    /\ \A c \in Credits : available[c] \in 0 .. AmountOf[c] /\ expired[c] \in 0 .. AmountOf[c]
    /\ settled \in [Periods -> [Credits -> Nat]]
    /\ placed \in [Periods -> [Credits -> Nat]]
    /\ excused \in [Periods -> BOOLEAN]
    /\ job \in [queue : Seq(Credits), planned : BOOLEAN,
                most : [Periods -> Nat], seen : [Periods -> Nat]]

Init ==
    /\ now = 0
    /\ usage = [h \in Hours |-> 0]
    /\ current = 1
    /\ invoice = [p \in Periods |-> NoInvoice]
    /\ computing = [p \in Periods |-> NotReading]
    /\ added = [c \in Credits |-> Never]
    /\ available = [c \in Credits |-> 0]
    /\ settled = [p \in Periods |-> [c \in Credits |-> 0]]
    /\ placed = settled
    /\ expired = [c \in Credits |-> 0]
    /\ excused = [p \in Periods |-> FALSE]
    /\ job = Idle

-----------------------------------------------------------------------------
(* The customer, and the billing cycle.                                     *)

Tick ==
    /\ now < MaxTime
    /\ now' = now + 1
    /\ UNCHANGED <<usage, current, invoice, computing, ledger, excused, job>>

(* A usage event dated in hour h is received, on time or late.              *)
ReceiveEvent(h) ==
    /\ h <= now /\ now <= h + Lateness
    /\ usage[h] < MaxUsage
    /\ usage' = [usage EXCEPT ![h] = @ + 1]
    /\ UNCHANGED <<now, current, invoice, computing, ledger, excused, job>>

AddCredit(c) ==
    /\ added[c] = Never /\ now < ExpiryOf[c] /\ now \in AddTimes
    /\ added' = [added EXCEPT ![c] = now]
    /\ available' = [available EXCEPT ![c] = AmountOf[c]]
    /\ UNCHANGED <<now, usage, current, invoice, computing, settled, placed, expired,
                   excused, job>>

Draft(i) == IF i.status = "none" THEN [i EXCEPT !.status = "DRAFT"] ELSE i

(* The period ended: its draft is created and the subscription moves on.    *)
RollPeriod ==
    /\ current \in Periods /\ now >= End(current)
    /\ invoice' = [invoice EXCEPT ![current] = Draft(@)]
    /\ current' = current + 1
    /\ UNCHANGED <<now, usage, computing, ledger, excused, job>>

-----------------------------------------------------------------------------
(* ComputeInvoice.                                                          *)

Computable(i) == i.status \in {"DRAFT", "SKIPPED"}

(* What it writes under the row lock, from usage read before.  LastComputedAt *)
(* is the time of the writing; what is asked of it is whether the period was  *)
(* over by then.                                                              *)
Computed(p, lines, applied) ==
    [status   |-> IF lines = 0 /\ applied = 0 THEN "SKIPPED" ELSE "DRAFT",
     lines    |-> lines,
     complete |-> now >= End(p),
     applied  |-> applied]

(* The usage is read without the lock; the current period's draft may be    *)
(* created for it.                                                          *)
StartCompute(p) ==
    LET i == IF p = current THEN Draft(invoice[p]) ELSE invoice[p]
    IN  /\ computing[p] = NotReading
        /\ Computable(i)
        /\ invoice' = [invoice EXCEPT ![p] = i]
        /\ computing' = [computing EXCEPT ![p] = PeriodUsage(p)]
        /\ UNCHANGED <<now, usage, current, ledger, excused, job>>

CreditsForgotten(p) == 0                                 \* mutant of the next

(* The credits applied at expiry survive, as the locked row has them.       *)
CreditsKept(p) == invoice[p].applied

FinishCompute(p) ==
    /\ computing[p] # NotReading
    /\ invoice' = [invoice EXCEPT ![p] =
                      IF Computable(@) THEN Computed(p, computing[p], CreditsKept(p))
                      ELSE @]
    /\ computing' = [computing EXCEPT ![p] = NotReading]
    /\ UNCHANGED <<now, usage, current, ledger, excused, job>>

-----------------------------------------------------------------------------
(* The expiry job.                                                          *)

Due(c) == available[c] > 0 /\ ExpiryOf[c] + Grace <= now

(* Earliest expiry first.                                                   *)
InExpiryOrder(queue) ==
    \A m, n \in DOMAIN queue : m < n => ExpiryOf[queue[m]] <= ExpiryOf[queue[n]]

StartRun ==
    /\ job = Idle
    /\ \E c \in Credits : Due(c)
    /\ \E queue \in SetToSeqs({c \in Credits : Due(c)}) :
          InExpiryOrder(queue) /\ job' = [Idle EXCEPT !.queue = queue]
    /\ UNCHANGED <<now, usage, current, invoice, computing, ledger, excused>>

(* Cycle drafts of earlier periods a credit may pay, ListOpenCycleDrafts.   *)
EarlierDraft(p, c) ==
    /\ invoice[p].status = "DRAFT"
    /\ p < current /\ Start(p) < ExpiryOf[c]
    /\ End(p) > added[c]

(* The current period's, if it has usage before the expiry.                 *)
CurrentDraft(p, c) ==
    /\ p = current /\ Start(p) < ExpiryOf[c]
    /\ UsageIn(Start(p), ExpiryOf[c]) > 0
    /\ invoice[p].status # "FINALIZED"

(* The drafts as the plan leaves them: one of an earlier period is computed *)
(* again only if its usage is older than the period's end.                  *)
Refreshed(c) ==
    [p \in Periods |->
        IF CurrentDraft(p, c) \/ (EarlierDraft(p, c) /\ ~invoice[p].complete)
        THEN Computed(p, PeriodUsage(p), invoice[p].applied)
        ELSE invoice[p]]

(* Usage before the expiry: an earlier period's lines if it ended by then.  *)
BeforeExpiry(p, c, lines) ==
    IF p < current /\ End(p) <= ExpiryOf[c] THEN lines ELSE UsageIn(Start(p), ExpiryOf[c])

(* Mutant of Most: credits already applied to the draft are not counted.    *)
MostOfUsage(p, c, i) == AtMost(BeforeExpiry(p, c, i.lines), i.lines)

(* The most a draft may take: never more than finalization can place.       *)
Most(p, c, i) == AtLeastZero(AtMost(BeforeExpiry(p, c, i.lines), i.lines) - i.applied)

(* settleExpiringCredit, before its transaction.                            *)
PlanSettlement ==
    LET c     == Head(job.queue)
        drafts == Refreshed(c)
        Target(p) == /\ EarlierDraft(p, c) \/ CurrentDraft(p, c)
                     /\ drafts[p].status = "DRAFT"
    IN  /\ job.queue # <<>> /\ ~job.planned
        /\ available[c] > 0
        /\ invoice' = drafts
        /\ job' = [job EXCEPT !.planned = TRUE,
              !.most = [p \in Periods |-> IF Target(p) THEN Most(p, c, drafts[p]) ELSE 0],
              !.seen = [p \in Periods |-> drafts[p].lines]]
        /\ UNCHANGED <<now, usage, current, computing, ledger, excused>>

Done == IF Len(job.queue) = 1 THEN Idle ELSE [Idle EXCEPT !.queue = Tail(job.queue)]

(* ApplyExpiringCreditToInvoice: nothing once the draft is finalized, or    *)
(* when this credit already paid it.                                        *)
Applicable(p, c) == invoice[p].status = "DRAFT" /\ settled[p][c] = 0

(* Mutant of Takes: each draft is offered the whole credit.                 *)
WholeToEach(c) ==
    [p \in Periods |-> IF Applicable(p, c) THEN AtMost(job.most[p], available[c]) ELSE 0]

(* What each draft takes, the oldest period first.                          *)
Takes(c) ==
    LET take[p \in Periods] ==
            IF ~Applicable(p, c) THEN 0
            ELSE AtMost(job.most[p], available[c] - Total(1 .. p - 1, take))
    IN  take

(* One transaction applies the credit and expires the rest.                 *)
Settle ==
    LET c    == Head(job.queue)
        take == Takes(c)
    IN  /\ job.planned
        /\ invoice' = [p \in Periods |-> [invoice[p] EXCEPT !.applied = @ + take[p]]]
        /\ settled' = [p \in Periods |-> [settled[p] EXCEPT ![c] = @ + take[p]]]
        /\ expired' = [expired EXCEPT ![c] = @ + available[c] - Total(Periods, take)]
        /\ available' = [available EXCEPT ![c] = 0]
        /\ job' = Done
        /\ UNCHANGED <<now, usage, current, computing, added, placed, excused>>

(* A failure, a lock timeout or a deadlock: the transaction rolls back and  *)
(* the run goes on with the next credit.                                    *)
SettlementFails ==
    /\ job.queue # <<>>
    /\ job' = Done
    /\ UNCHANGED <<now, usage, current, invoice, computing, ledger, excused>>

-----------------------------------------------------------------------------
(* Finalization.                                                            *)

Unprocessed(p) ==
    {c \in Credits : available[c] > 0 /\ Start(p) < ExpiryOf[c] /\ ExpiryOf[c] < End(p)}

(* Mutants of HasPendingExpiringCredit.                                     *)
NeverWaits(p) == FALSE
WaitsForEver(p) == Unprocessed(p) # {}

HasPendingExpiringCredit(p) == \E c \in Unprocessed(p) : now < ExpiryOf[c] + Hold

(* FindEligibleCredits with the period's end as its reference.              *)
Eligible(p) ==
    {c \in Credits : available[c] > 0 /\ ExpiryOf[c] >= End(p) /\ added[c] < End(p)}

(* The credits that pay `owed`, each emptied before the next.               *)
Consumptions(S, owed) ==
    {take \in [S -> 0 .. owed] :
        /\ \A c \in S : take[c] <= available[c]
        /\ Total(S, take) = AtMost(owed, Total(S, available))
        /\ \A c, d \in S :
              take[d] > 0 /\ ExpiryOf[c] < ExpiryOf[d] => take[c] = available[c]}

(* performFinalizeInvoiceActions: what was applied at expiry leads the pool *)
(* and is not debited again; the wallet pays the rest.                      *)
Finalize(p, byHand) ==
    LET kept == AtMost(invoice[p].applied, invoice[p].lines)
        owed == invoice[p].lines - kept
    IN  /\ invoice[p].status = "DRAFT"
        /\ \E take \in Consumptions(Eligible(p), owed) :
              LET paid == [c \in Credits |-> IF c \in Eligible(p) THEN take[c] ELSE 0]
              IN  /\ available' = [c \in Credits |-> available[c] - paid[c]]
                  /\ placed' = [placed EXCEPT ![p] = paid]
                  /\ invoice' = [invoice EXCEPT ![p].status = "FINALIZED",
                                                ![p].applied = kept + Total(Credits, paid)]
        /\ excused' = [excused EXCEPT ![p] =
              \/ byHand /\ (~invoice[p].complete \/ Unprocessed(p) # {})
              \/ \E c \in Unprocessed(p) : now >= ExpiryOf[c] + Hold]
        /\ UNCHANGED <<now, usage, current, computing, added, settled, expired, job>>

(* The cron's: IsInvoiceFinalizationDue, with auto finalization on.         *)
FinalizeDue(p) ==
    /\ invoice[p].complete
    /\ ~HasPendingExpiringCredit(p)
    /\ Finalize(p, FALSE)

(* The operator's, who waits for neither the computation nor the job.       *)
FinalizeByHand(p) == Finalize(p, TRUE)

-----------------------------------------------------------------------------
Next ==
    \/ Tick
    \/ \E h \in BusyHours : ReceiveEvent(h)
    \/ \E c \in Credits : AddCredit(c)
    \/ RollPeriod
    \/ \E p \in Periods :
          \/ StartCompute(p) \/ FinishCompute(p)
          \/ FinalizeDue(p)
    \/ \E p \in ByHand : FinalizeByHand(p)
    \/ StartRun \/ PlanSettlement \/ Settle \/ SettlementFails

(* The billing run computes an ended period's draft.                        *)
ComputeEnded(p) == StartCompute(p) /\ p < current /\ ~invoice[p].complete

(* The clock goes on, and the schedules keep starting the billing run and   *)
(* the cron's finalization.  That the expiry job ever runs is not assumed.  *)
Spec ==
    /\ Init /\ [][Next]_vars
    /\ WF_vars(Tick \/ RollPeriod)
    /\ \A p \in Periods :
          WF_vars(ComputeEnded(p) \/ FinishCompute(p)) /\ WF_vars(FinalizeDue(p))

-----------------------------------------------------------------------------
(* What a draft says was applied is what its credits were debited for it,   *)
(* and nothing of a credit is lost or spent twice, whatever computation is  *)
(* under way (invoice.go: "credits applied at expiry must survive           *)
(* recompute").                                                             *)
AppliedWasDebited ==
    /\ \A p \in Periods :
          invoice[p].status \in {"DRAFT", "SKIPPED"} => invoice[p].applied = Paid(settled, p)
    /\ \A c \in Credits :
          added[c] # Never =>
              AmountOf[c] = available[c] + expired[c]
                  + Total(Periods, [p \in Periods |-> settled[p][c] + placed[p][c]])

(* An expiring credit pays usage from before its expiry and nothing else:   *)
(* together, the credits expired by e pay no more on a draft than the usage *)
(* from before e, though each was planned outside the lock.                 *)
CreditPaysEarlierUsage ==
    \A p \in Periods, d \in Credits :
        Total({c \in Credits : ExpiryOf[c] <= ExpiryOf[d]}, settled[p])
            <= UsageBefore(p, ExpiryOf[d])

(* A credit does not expire over usage it could have paid: when the rest of *)
(* one is debited as expired, every invoice of a period that was not over   *)
(* when it was added has its usage from before the expiry paid by credits.  *)
(* Excused are invoices finalized by hand too early or past the hold, and   *)
(* drafts computed anew between the plan and the transaction.               *)
CreditExpiresOverPaidUsage ==
    [][\A c \in Credits, p \in Periods :
          /\ expired'[c] > expired[c]
          /\ End(p) > added[c] /\ Start(p) < ExpiryOf[c]
          /\ ~excused[p] /\ invoice[p].lines = job.seen[p]
          => invoice'[p].applied >= AtMost(UsageBefore(p, ExpiryOf[c]), invoice[p].lines)
      ]_vars

(* An ended period is billed although the job keeps failing: its draft is   *)
(* finalized, or skipped, in the end (settlementFinalizationHold).          *)
EndedPeriodIsBilled ==
    \A p \in Periods :
        now >= End(p) ~> invoice[p].status \in {"FINALIZED", "SKIPPED"}
============================================================================
