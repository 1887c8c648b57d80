----------------------------- MODULE RefundProofs -----------------------------
(***************************************************************************)
(* A refund's status tells who has paid it, for any invoice, any number of  *)
(* processes, credit notes and webhooks: a row is planned once, claimed for *)
(* its gateway once, and asked for there once.  The second half is about    *)
(* the money: planning hands out exactly the amount asked for, what was     *)
(* promised is the sum of what its rows are due, nobody pays more than      *)
(* that, and so refunding implements its promise.                           *)
(***************************************************************************)
EXTENDS Refund, SumTheorems, TLAPS

(* TypeOK without the amounts of the invoice, which are sums over the       *)
(* credit notes, and without what a planner found settled.                  *)
Types ==
    /\ notes \in [Notes -> [status : {"none", "DRAFT", "FINALIZED", "VOIDED"},
                            type : {"REFUND", "ADJUSTMENT"}, amount : Nat]]
    /\ rows \in [Refunds -> Rows]
    /\ credited \in [Refunds -> Nat]
    /\ gateway \in [Refunds -> {"none", "accepted", "paid", "failed"}]
    /\ unanswered \subseteq Refunds
    /\ pc \in [Procs -> {"idle", "plan", "next", "wallet", "claim", "call",
                         "accept", "settle", "fail", "fallback"}]
    /\ plan \in [Procs -> Notes \cup {Void, None}]
    /\ todo \in [Procs -> SUBSET Refunds]
    /\ at \in [Procs -> Refunds \cup {None}]

(* Rows exist only for what has been committed, so that a planner, alone    *)
(* under the invoice's lock, overwrites none.                               *)
PlannedOnce ==
    /\ \A p \in Procs : pc[p] = "plan" =>
          /\ lock = p
          /\ plan[p] \in Notes =>
                notes[plan[p]].status = "DRAFT" /\ notes[plan[p]].type = "REFUND"
    /\ \A r \in Refunds : r[1] # Void /\ rows[r].status # "none" =>
          notes[r[1]].status = "FINALIZED" /\ notes[r[1]].type = "REFUND"

(* What a row's status and destination say about the gateway.               *)
AskedAfterClaim ==
    \A r \in Refunds :
        /\ rows[r].status \in {"none", "PENDING"} => gateway[r] = "none"
        /\ r[2] \in Unsupported => gateway[r] = "none"
        /\ r \in unanswered => gateway[r] # "none"
        /\ rows[r].known => rows[r].destination = "GATEWAY" /\ rows[r].status # "none"
        /\ r[3] = 2 /\ rows[r].status # "none" => rows[r].destination = "WALLET"

(* What a process knows of the row it is at.                                *)
AtWork ==
    \A p \in Procs :
        /\ at[p] # None => rows[at[p]].status # "none"
        /\ \A r \in todo[p] : rows[r].status # "none"
        /\ pc[p] \notin {"idle", "plan", "next"} => at[p] # None
        /\ pc[p] = "wallet" => rows[at[p]].destination = "WALLET"
        /\ pc[p] \in {"claim", "call", "accept", "settle", "fail"} =>
              rows[at[p]].destination = "GATEWAY"
        /\ pc[p] = "settle" => gateway[at[p]] = "paid"
        /\ pc[p] = "fail" => \/ at[p][2] \in Unsupported \/ gateway[at[p]] = "failed"
                             \/ at[p] \in unanswered

(* The claim lets one process ask the gateway for a row, and only once.     *)
AskedOnce ==
    \A p \in Procs : pc[p] = "call" =>
        /\ rows[at[p]].status = "PROCESSING" /\ gateway[at[p]] = "none"
        /\ at[p][2] \notin Unsupported
        /\ \A q \in Procs : pc[q] = "call" /\ at[q] = at[p] => q = p

Inv == PlannedOnce /\ AskedAfterClaim /\ AtWork /\ AskedOnce /\ StatusTellsWhoPaid

IInv == Types /\ Inv

LEMMA KeySpace ==
    /\ None \notin Refunds /\ None \notin Procs /\ None \notin Notes /\ None # Void
    /\ Void \notin Notes
    /\ \A r \in Refunds : /\ r[1] \in Notes \cup {Void} /\ r[3] \in {1, 2}
                          /\ Fallback(r) \in Refunds
                          /\ Fallback(r)[1] = r[1] /\ Fallback(r)[3] = 2
  BY RefundConstants DEF Refunds, Fallback

LEMMA Lengths == Rest \in Nat /\ Rest > 0 /\ Payments = 1 .. Rest - 1
<1>1. Len(Amounts) \in Nat /\ DOMAIN Amounts = 1 .. Len(Amounts)
  BY RefundConstants
<1> HIDE DEF Payments
<1>2. Rest = Len(Amounts) + 1
  BY DEF Rest
<1> QED
  BY <1>1, <1>2 DEF Payments

LEMMA RefundsAreFinite == IsFiniteSet(Refunds) /\ IsFiniteSet(Payments)
<1>1. IsFiniteSet(1 .. Rest) /\ IsFiniteSet(1 .. Rest - 1)
  BY Lengths, FS_Interval
<1>2. IsFiniteSet(Notes \cup {Void})
  BY RefundConstants, FS_AddElement
<1>3. IsFiniteSet({1, 2})
  <2>1. IsFiniteSet({}) /\ IsFiniteSet({} \cup {1})
    BY FS_EmptySet, FS_AddElement
  <2>2. IsFiniteSet(({} \cup {1}) \cup {2})
    BY <2>1, FS_AddElement, Zenon
  <2>3. ({} \cup {1}) \cup {2} = {1, 2}
    OBVIOUS
  <2> QED
    BY <2>2, <2>3, Zenon
<1>4. IsFiniteSet((1 .. Rest) \X {1, 2})
  BY <1>1, <1>3, FS_Product
<1> DEFINE S == (Notes \cup {Void}) \X ((1 .. Rest) \X {1, 2})
           f == [q \in S |-> <<q[1], q[2][1], q[2][2]>>]
<1>5. IsFiniteSet(S)
  BY <1>2, <1>4, FS_Product
<1>6. f \in Surjection(S, Refunds)
  <2>1. f \in [S -> Refunds]
    BY DEF Refunds
  <2>2. ASSUME NEW r \in Refunds PROVE \E q \in S : f[q] = r
    <3>1. <<r[1], <<r[2], r[3]>>>> \in S /\ r = <<r[1], r[2], r[3]>>
      BY DEF Refunds
    <3> QED
      BY <3>1
  <2> QED
    BY <2>1, <2>2 DEF Surjection
<1> QED
  BY <1>1, <1>5, <1>6, FS_Surjection, Lengths

LEMMA CapacityType ==
    ASSUME NEW p \in Procs
    PROVE  Capacity(p) \in [Payments -> Nat]
  BY DEF Capacity, Positive

LEMMA UnreturnedType == Unreturned \in Nat
  BY DEF Unreturned, Positive

LEMMA NothingToShare ==
    ASSUME NEW p \in Procs, NEW x \in 1 .. Rest
    PROVE  Share(Capacity(p), 0, x) = 0
<1>1. 1 .. x - 1 \subseteq Payments /\ IsFiniteSet(1 .. x - 1)
  BY Lengths, RefundsAreFinite, FS_Subset
<1>2. Before(Capacity(p), x) \in Nat
  <2>1. \A y \in 1 .. x - 1 : Capacity(p)[y] \in Nat
    BY <1>1, CapacityType
  <2>2. SumOver(Capacity(p), 1 .. x - 1) \in Nat
    BY <1>1, <2>1, SumNat
  <2> QED
    BY <2>2 DEF Before, SumOver
<1>3. Positive(0 - Before(Capacity(p), x)) = 0
  BY <1>2 DEF Positive
<1>4. x # Rest => Capacity(p)[x] \in Nat
  BY Lengths, CapacityType
<1> QED
  BY <1>3, <1>4 DEF Share, Smaller

(* A void that adds rows has found none of its own.                         *)
LEMMA VoidAddsFresh ==
    ASSUME NEW p \in Procs, CommitVoid(p), NEW r \in Refunds
    PROVE  r[1] = Void /\ Share(Capacity(p), Unreturned, r[2]) > 0 => rows[r].status = "none"
<1>1. Unreturned > 0 => ~Planned(Void)
  BY DEF CommitVoid
<1>2. CASE Unreturned > 0
  BY <1>1, <1>2 DEF Planned
<1>3. CASE Unreturned = 0
  <2>1. r[2] \in 1 .. Rest
    BY DEF Refunds
  <2> QED
    BY <1>3, <2>1, NothingToShare
<1> QED
  BY <1>2, <1>3, UnreturnedType

LEMMA NewRows ==
    /\ NoRow \in Rows
    /\ \A amount \in Nat, destination \in {"WALLET", "GATEWAY"} :
          NewRow(amount, destination) \in Rows
  BY DEF NoRow, NewRow, Rows, RefundStatus

(* Planning adds fresh rows for its reason and leaves the others alone.     *)
LEMMA PlannedRowsAdd ==
    ASSUME rows \in [Refunds -> Rows], NEW reason, NEW p \in Procs, NEW amount,
           NEW toSource \in BOOLEAN
    PROVE  LET planned == PlannedRows(reason, Capacity(p), amount, toSource)
           IN  /\ planned \in [Refunds -> Rows]
               /\ \A r \in Refunds :
                     \/ planned[r] = rows[r]
                     \/ /\ r[1] = reason /\ r[3] = 1
                        /\ planned[r].status = "PENDING" /\ ~planned[r].known
                        /\ ~toSource => planned[r].destination = "WALLET"
<1> DEFINE planned == PlannedRows(reason, Capacity(p), amount, toSource)
           share(r) == Share(Capacity(p), amount, r[2])
<1>1. \A r \in Refunds : share(r) \in Nat
  <2> TAKE r \in Refunds
  <2>1. r[2] \in 1 .. Rest
    BY DEF Refunds
  <2>2. r[2] # Rest => Capacity(p)[r[2]] \in Nat
    BY <2>1, RefundConstants DEF Rest, Payments, Capacity, Positive
  <2> QED BY <2>2 DEF Share, Positive, Smaller
<1> HIDE DEF share
<1>2. \A r \in Refunds : \E destination \in {"WALLET", "GATEWAY"} :
         /\ ~toSource => destination = "WALLET"
         /\ \/ planned[r] = rows[r]
            \/ r[1] = reason /\ r[3] = 1 /\ planned[r] = NewRow(share(r), destination)
  BY DEF PlannedRows, share
<1>3. planned = [r \in Refunds |-> planned[r]]
  BY DEF PlannedRows
<1> HIDE DEF planned
<1>4. \A r \in Refunds : planned[r] \in Rows
  BY <1>1, <1>2, NewRows
<1>5. planned \in [Refunds -> Rows]
  BY <1>3, <1>4
<1>6. \A r \in Refunds :
         \/ planned[r] = rows[r]
         \/ /\ r[1] = reason /\ r[3] = 1
            /\ planned[r].status = "PENDING" /\ ~planned[r].known
            /\ ~toSource => planned[r].destination = "WALLET"
  <2> TAKE r \in Refunds
  <2>1. PICK destination \in {"WALLET", "GATEWAY"} :
           /\ ~toSource => destination = "WALLET"
           /\ \/ planned[r] = rows[r]
              \/ r[1] = reason /\ r[3] = 1 /\ planned[r] = NewRow(share(r), destination)
    BY <1>2
  <2>2. LET new == NewRow(share(r), destination)
        IN  new.status = "PENDING" /\ new.known = FALSE /\ new.destination = destination
    BY DEF NewRow
  <2> QED BY <2>1, <2>2
<1> QED BY <1>5, <1>6 DEF planned

LEMMA StatusChange ==
    ASSUME rows \in [Refunds -> Rows], NEW r \in Refunds, NEW status \in RefundStatus
    PROVE  [rows EXCEPT ![r].status = status] \in [Refunds -> Rows]
  BY DEF Rows, RefundStatus

LEMMA VoidRowsAdd ==
    ASSUME rows \in [Refunds -> Rows], NEW p \in Procs
    PROVE  \A r \in Refunds :
              LET planned == PlannedRows(Void, Capacity(p), Unreturned, FALSE)
              IN  /\ planned[r] \in Rows
                  /\ \/ planned[r] = rows[r]
                     \/ /\ r[1] = Void /\ r[3] = 1
                        /\ ~planned[r].known /\ planned[r].destination = "WALLET"
<1> DEFINE planned(toSource) == PlannedRows(Void, Capacity(p), Unreturned, toSource)
<1>1. ASSUME NEW toSource \in BOOLEAN
      PROVE  /\ planned(toSource) \in [Refunds -> Rows]
             /\ \A r \in Refunds :
                   \/ planned(toSource)[r] = rows[r]
                   \/ /\ r[1] = Void /\ r[3] = 1
                      /\ planned(toSource)[r].status = "PENDING" /\ ~planned(toSource)[r].known
                      /\ ~toSource => planned(toSource)[r].destination = "WALLET"
  BY PlannedRowsAdd
<1> HIDE DEF planned
<1>2. \A r \in Refunds :
         /\ planned(FALSE)[r] \in Rows
         /\ \/ planned(FALSE)[r] = rows[r]
            \/ /\ r[1] = Void /\ r[3] = 1
               /\ ~planned(FALSE)[r].known /\ planned(FALSE)[r].destination = "WALLET"
  <2>1. FALSE \in BOOLEAN
    OBVIOUS
  <2> QED BY <2>1, <1>1
<1> QED BY <1>2 DEF planned

(* A row that changes its status keeps the rest.                            *)
LEMMA StatusChanged ==
    ASSUME rows \in [Refunds -> Rows], NEW r \in Refunds, NEW status \in RefundStatus,
           rows' = rows \/ rows' = [rows EXCEPT ![r].status = status]
    PROVE  \A s \in Refunds :
              /\ rows'[s].destination = rows[s].destination
              /\ rows'[s].status = rows[s].status \/ rows'[s].status = status
              /\ s # r => rows'[s] = rows[s]
  BY DEF Rows, RefundStatus

LEMMA KnownChange ==
    ASSUME rows \in [Refunds -> Rows], NEW r \in Refunds, NEW known \in BOOLEAN
    PROVE  LET new == [rows EXCEPT ![r].known = known]
           IN  /\ new \in [Refunds -> Rows]
               /\ \A s \in Refunds :
                     /\ new[s].destination = rows[s].destination
                     /\ new[s].amount = rows[s].amount
                     /\ new[s].status = rows[s].status
                     /\ new[s].known = IF s = r THEN known ELSE rows[s].known
  BY DEF Rows

LEMMA AtARow ==
    ASSUME IInv, NEW p \in Procs, pc[p] \notin {"idle", "plan", "next"}
    PROVE  at[p] \in Refunds
  BY DEF IInv, Inv, Types, AtWork

(* Where a process is after it leaves a row; the others stay where they are.*)
LEMMA Leaving ==
    ASSUME Types, NEW p \in Procs, Leave(p)
    PROVE  /\ pc'[p] \in {"idle", "next"} /\ at'[p] = None
           /\ \A q \in Procs \ {p} : pc'[q] = pc[q] /\ at'[q] = at[q]
  BY DEF Types, Leave, Goto

(* A step of one process leaves what the others know of their rows true, if *)
(* no row changes its destination or vanishes.                              *)
LEMMA StaysAtWork ==
    ASSUME AtWork, NEW p \in Procs, UNCHANGED <<gateway, unanswered, todo>>,
           \A q \in Procs : at[q] # None => at[q] \in Refunds,
           \A q \in Procs : todo[q] \subseteq Refunds,
           \A s \in Refunds : /\ rows'[s].destination = rows[s].destination
                              /\ rows[s].status # "none" => rows'[s].status # "none",
           \A q \in Procs \ {p} : pc'[q] = pc[q] /\ at'[q] = at[q],
           \/ at'[p] = None /\ pc'[p] \in {"idle", "next"}
           \/ at'[p] = at[p] /\ at[p] # None /\ pc'[p] = "fallback"
           \/ at'[p] = at[p] /\ at[p] # None /\ pc'[p] = "call"
              /\ rows[at[p]].destination = "GATEWAY"
    PROVE  AtWork'
<1> SUFFICES ASSUME NEW q \in Procs
             PROVE  /\ at'[q] # None => rows'[at'[q]].status # "none"
                    /\ \A r \in todo'[q] : rows'[r].status # "none"
                    /\ pc'[q] \notin {"idle", "plan", "next"} => at'[q] # None
                    /\ pc'[q] = "wallet" => rows'[at'[q]].destination = "WALLET"
                    /\ pc'[q] \in {"claim", "call", "accept", "settle", "fail"} =>
                          rows'[at'[q]].destination = "GATEWAY"
                    /\ pc'[q] = "settle" => gateway'[at'[q]] = "paid"
                    /\ pc'[q] = "fail" => \/ at'[q][2] \in Unsupported
                                          \/ gateway'[at'[q]] = "failed"
                                          \/ at'[q] \in unanswered'
    BY DEF AtWork
<1>1. \A r \in todo'[q] : rows'[r].status # "none"
  BY DEF AtWork
<1>2. CASE q = p
  BY <1>1, <1>2 DEF AtWork
<1>3. CASE q # p
  BY <1>1, <1>3 DEF AtWork
<1> QED BY <1>2, <1>3

(* A step that claims nothing leaves every claim alone.                     *)
LEMMA StaysAskedOnce ==
    ASSUME AskedOnce, NEW p \in Procs, pc'[p] # "call",
           \A q \in Procs \ {p} : pc'[q] = pc[q] /\ at'[q] = at[q],
           \A q \in Procs \ {p} : pc[q] = "call" =>
              rows'[at[q]].status = rows[at[q]].status /\ gateway'[at[q]] = gateway[at[q]]
    PROVE  AskedOnce'
<1> SUFFICES ASSUME NEW q \in Procs, pc'[q] = "call"
             PROVE  /\ rows'[at'[q]].status = "PROCESSING" /\ gateway'[at'[q]] = "none"
                    /\ at'[q][2] \notin Unsupported
                    /\ \A o \in Procs : pc'[o] = "call" /\ at'[o] = at'[q] => o = q
    BY DEF AskedOnce
<1>1. q # p /\ pc[q] = "call" /\ at'[q] = at[q]
  OBVIOUS
<1> QED BY <1>1 DEF AskedOnce

LEMMA LedgerKeepsTypes ==
    ASSUME IInv, NEW n \in Notes,
           \/ CreateCreditNote(n)
           \/ FinalizeAdjustment(n)
           \/ VoidCreditNote(n)
    PROVE  Types'
<1> USE KeySpace DEF IInv, Types, Goto, Leave, ledger, outside, Open
<1>1. CASE CreateCreditNote(n)
  <2>1. PICK amount \in 1 .. MaxCreditable(NoteType[invoice.payment]) :
           notes' = [notes EXCEPT ![n] =
               [status |-> "DRAFT", type |-> NoteType[invoice.payment], amount |-> amount]]
    BY <1>1 DEF CreateCreditNote
  <2>2. NoteType[invoice.payment] \in {"REFUND", "ADJUSTMENT"}
    BY <1>1 DEF CreateCreditNote, NoteType
  <2>3. MaxCreditable(NoteType[invoice.payment]) \in Nat
    BY DEF MaxCreditable, Positive
  <2>4. amount \in Nat
    BY <2>3
  <2> QED BY <1>1, <2>1, <2>2, <2>4 DEF CreateCreditNote
<1>2. CASE FinalizeAdjustment(n)
  BY <1>2 DEF FinalizeAdjustment
<1>3. CASE VoidCreditNote(n)
  BY <1>3 DEF VoidCreditNote
<1> QED BY <1>1, <1>2, <1>3

LEMMA LedgerKeepsInv ==
    ASSUME IInv, Types', NEW n \in Notes,
           \/ CreateCreditNote(n)
           \/ FinalizeAdjustment(n)
           \/ VoidCreditNote(n)
    PROVE  Inv'
<1> USE KeySpace DEF IInv, Inv, Types, Rows, Goto, Leave, ledger, outside, Open
<1>1. /\ lock = None
      /\ UNCHANGED <<rows, credited, gateway, unanswered, lock, pc, plan, todo, at>>
      /\ \A m \in Notes : notes[m].status = "FINALIZED" /\ notes[m].type = "REFUND" =>
            notes'[m] = notes[m]
  <2>1. CASE CreateCreditNote(n)
    BY <2>1 DEF CreateCreditNote
  <2>2. CASE FinalizeAdjustment(n)
    BY <2>2 DEF FinalizeAdjustment
  <2>3. CASE VoidCreditNote(n)
    BY <2>3 DEF VoidCreditNote
  <2> QED BY <2>1, <2>2, <2>3
<1>2. PlannedOnce'
  BY <1>1 DEF PlannedOnce
<1>3. AskedAfterClaim'
  BY <1>1 DEF AskedAfterClaim
<1>4. AtWork'
  BY <1>1 DEF AtWork
<1>5. AskedOnce'
  BY <1>1 DEF AskedOnce
<1>6. StatusTellsWhoPaid'
  BY <1>1 DEF StatusTellsWhoPaid
<1> QED BY <1>2, <1>3, <1>4, <1>5, <1>6

LEMMA PlanningKeepsTypes ==
    ASSUME IInv, NEW p \in Procs,
           \/ VoidInvoice(p)
           \/ CommitCreditNote(p)
           \/ CommitVoid(p)
           \/ VoidConflicts(p)
           \/ \E n \in Notes : FinalizeCreditNote(p, n)
    PROVE  Types'
<1> USE KeySpace DEF IInv, Types, Goto, Leave, ledger, outside, Open
<1>1. CASE VoidInvoice(p)
  BY <1>1 DEF VoidInvoice, Voidable, BeginPlan
<1>2. CASE CommitCreditNote(p)
  <2>1. PICK toSource \in BOOLEAN : rows' = PlannedRows(plan[p], Capacity(p), notes[plan[p]].amount, toSource)
    BY <1>2 DEF CommitCreditNote
  <2>2. rows' \in [Refunds -> Rows]
    BY <2>1, PlannedRowsAdd
  <2>3. todo' \in [Procs -> SUBSET Refunds]
    BY <1>2 DEF CommitCreditNote
  <2> QED BY <1>2, <2>2, <2>3 DEF CommitCreditNote, Forget
<1>3. CASE CommitVoid(p)
  <2> DEFINE planned == PlannedRows(Void, Capacity(p), Unreturned, FALSE)
  <2>1. planned \in [Refunds -> Rows]
    BY PlannedRowsAdd
  <2>2. \A row \in Rows : /\ row.amount \in Nat
                          /\ [row EXCEPT !.status = "SUCCEEDED"] \in Rows
    BY DEF Rows, RefundStatus
  <2>3. \A r \in Refunds : /\ planned[r] \in Rows /\ planned[r].amount \in Nat
                           /\ [planned[r] EXCEPT !.status = "SUCCEEDED"] \in Rows
    BY <2>1, <2>2
  <2> HIDE DEF planned
  <2>4. rows' = [r \in Refunds |-> IF planned[r] # rows[r]
                                   THEN [planned[r] EXCEPT !.status = "SUCCEEDED"] ELSE rows[r]]
    BY <1>3 DEF CommitVoid, planned
  <2>5. credited' = [r \in Refunds |-> IF planned[r] # rows[r]
                                       THEN credited[r] + planned[r].amount ELSE credited[r]]
    BY <1>3 DEF CommitVoid, planned
  <2>6. rows' \in [Refunds -> Rows] /\ credited' \in [Refunds -> Nat]
    BY <2>3, <2>4, <2>5
  <2> QED BY <1>3, <2>6 DEF CommitVoid, Forget
<1>4. CASE \E n \in Notes : FinalizeCreditNote(p, n)
  BY <1>4 DEF FinalizeCreditNote, BeginPlan
<1>5. CASE VoidConflicts(p)
  BY <1>5 DEF VoidConflicts, Forget
<1> QED BY <1>1, <1>2, <1>3, <1>4, <1>5

LEMMA PlanningKeepsInv ==
    ASSUME IInv, Types', NEW p \in Procs,
           \/ VoidInvoice(p)
           \/ CommitCreditNote(p)
           \/ CommitVoid(p)
           \/ VoidConflicts(p)
           \/ \E n \in Notes : FinalizeCreditNote(p, n)
    PROVE  Inv'
<1> USE KeySpace DEF IInv, Inv, Types, Rows, Goto, Leave, ledger, outside, Open
<1>1. CASE VoidInvoice(p)
  <2>1. /\ pc[p] = "idle" /\ lock = None /\ lock' = p
        /\ pc' = [pc EXCEPT ![p] = "plan"] /\ plan' = [plan EXCEPT ![p] = Void]
        /\ UNCHANGED <<invoice, notes, rows, credited, gateway, unanswered, todo, at>>
    BY <1>1 DEF VoidInvoice, Voidable, BeginPlan
  <2>2. PlannedOnce'
    BY <2>1 DEF PlannedOnce
  <2>3. AskedAfterClaim'
    BY <2>1 DEF AskedAfterClaim
  <2>4. AtWork'
    BY <2>1 DEF AtWork
  <2>5. AskedOnce'
    BY <2>1 DEF AskedOnce
  <2>6. StatusTellsWhoPaid'
    BY <2>1 DEF StatusTellsWhoPaid
  <2> QED BY <2>2, <2>3, <2>4, <2>5, <2>6
<1>2. CASE CommitCreditNote(p)
  <2>1. PICK toSource \in BOOLEAN :
           rows' = PlannedRows(plan[p], Capacity(p), notes[plan[p]].amount, toSource)
    BY <1>2 DEF CommitCreditNote
  <2>2. /\ pc[p] = "plan" /\ lock = p /\ plan[p] \in Notes
        /\ notes[plan[p]].status = "DRAFT" /\ notes[plan[p]].type = "REFUND"
    BY <1>2 DEF CommitCreditNote, PlannedOnce
  <2>3. \A r \in Refunds :
           \/ rows'[r] = rows[r]
           \/ /\ r[1] = plan[p] /\ r[3] = 1 /\ rows[r].status = "none"
              /\ rows'[r].status = "PENDING" /\ ~rows'[r].known
    <3>1. \A r \in Refunds : r[1] = plan[p] => rows[r].status = "none"
      <4>1. PlannedOnce /\ Void \notin Notes
        OBVIOUS
      <4> HIDE KeySpace DEF IInv, Inv, Types, Rows
      <4> QED BY <2>2, <4>1 DEF PlannedOnce
    <3>2. \A r \in Refunds :
             \/ rows'[r] = rows[r]
             \/ /\ r[1] = plan[p] /\ r[3] = 1
                /\ rows'[r].status = "PENDING" /\ ~rows'[r].known
      <4>1. rows \in [Refunds -> Rows]
        OBVIOUS
      <4> HIDE KeySpace DEF IInv, Inv, Types, Rows
      <4> DEFINE amount == notes[plan[p]].amount
                 planned == PlannedRows(plan[p], Capacity(p), amount, toSource)
      <4>2. \A r \in Refunds :
               \/ planned[r] = rows[r]
               \/ /\ r[1] = plan[p] /\ r[3] = 1
                  /\ planned[r].status = "PENDING" /\ ~planned[r].known
        <5> HIDE DEF amount
        <5> QED BY <4>1, PlannedRowsAdd
      <4>3. rows' = planned
        BY <2>1
      <4> HIDE DEF planned
      <4> QED BY <4>2, <4>3
    <3> QED BY <3>1, <3>2
  <2>4. /\ notes' = [notes EXCEPT ![plan[p]].status = "FINALIZED"]
        /\ pc' = [pc EXCEPT ![p] = "next"] /\ lock' = None
        /\ todo' = [todo EXCEPT ![p] = {r \in Refunds : rows'[r] # rows[r]}]
        /\ plan' = [plan EXCEPT ![p] = None]
        /\ UNCHANGED <<credited, gateway, unanswered, at>>
    BY <1>2 DEF CommitCreditNote, Forget
  <2>5. PlannedOnce'
    BY <2>2, <2>3, <2>4 DEF PlannedOnce
  <2>6. AskedAfterClaim'
    BY <2>2, <2>3, <2>4 DEF AskedAfterClaim, AtWork, AskedOnce
  <2>7. AtWork'
    BY <2>2, <2>3, <2>4 DEF AtWork, AskedAfterClaim, AskedOnce
  <2>8. AskedOnce'
    <3>1. pc'[p] # "call" /\ \A q \in Procs \ {p} : pc'[q] = pc[q] /\ at'[q] = at[q]
      BY <2>4
    <3>2. \A q \in Procs : pc[q] = "call" => at[q] \in Refunds /\ rows[at[q]].status = "PROCESSING"
      BY AtARow DEF AskedOnce
    <3>3. \A q \in Procs : pc[q] = "call" => rows'[at[q]] = rows[at[q]]
      BY <2>3, <3>2
    <3> QED BY <2>4, <3>1, <3>3, StaysAskedOnce
  <2>9. StatusTellsWhoPaid'
    BY <2>2, <2>3, <2>4 DEF StatusTellsWhoPaid, AtWork, AskedAfterClaim, AskedOnce
  <2> QED BY <2>5, <2>6, <2>7, <2>8, <2>9
<1>3. CASE CommitVoid(p)
  <2> DEFINE planned == PlannedRows(Void, Capacity(p), Unreturned, FALSE)
  <2>1. pc[p] = "plan" /\ lock = p /\ plan[p] = Void
    BY <1>3 DEF CommitVoid, PlannedOnce
  <2>2. \A r \in Refunds :
           /\ planned[r] \in Rows
           /\ \/ planned[r] = rows[r]
              \/ /\ r[1] = Void /\ r[3] = 1 /\ rows[r].status = "none"
                 /\ ~planned[r].known /\ planned[r].destination = "WALLET"
    <3>1. \A r \in Refunds : planned[r] = rows[r] \/ rows[r].status = "none"
      BY <1>3, VoidAddsFresh DEF PlannedRows
    <3>2. \A r \in Refunds :
             /\ planned[r] \in Rows
             /\ \/ planned[r] = rows[r]
                \/ /\ r[1] = Void /\ r[3] = 1
                   /\ ~planned[r].known /\ planned[r].destination = "WALLET"
      <4>1. rows \in [Refunds -> Rows]
        OBVIOUS
      <4> HIDE KeySpace DEF IInv, Inv, Types, Rows
      <4> QED BY <4>1, VoidRowsAdd
    <3> QED BY <3>1, <3>2
  <2> HIDE DEF planned
  <2>3. \A r \in Refunds :
           \/ rows'[r] = rows[r] /\ credited'[r] = credited[r]
           \/ /\ r[1] = Void /\ r[3] = 1 /\ rows[r].status = "none"
              /\ rows'[r].status = "SUCCEEDED" /\ ~rows'[r].known
              /\ rows'[r].destination = "WALLET" /\ credited'[r] = rows'[r].amount
    <3> TAKE r \in Refunds
    <3>1. CASE planned[r] = rows[r]
      BY <1>3, <3>1 DEF CommitVoid, planned
    <3>2. CASE planned[r] # rows[r]
      <4>1. rows'[r] = [planned[r] EXCEPT !.status = "SUCCEEDED"]
        BY <1>3, <3>2 DEF CommitVoid, planned
      <4>2. credited'[r] = credited[r] + planned[r].amount
        BY <1>3, <3>2 DEF CommitVoid, planned
      <4>3. credited[r] = 0
        BY <2>2, <3>2 DEF StatusTellsWhoPaid
      <4> QED BY <2>2, <3>2, <4>1, <4>2, <4>3
    <3> QED BY <3>1, <3>2
  <2>4. /\ pc' = [pc EXCEPT ![p] = "idle"] /\ lock' = None
        /\ plan' = [plan EXCEPT ![p] = None]
        /\ UNCHANGED <<notes, gateway, unanswered, todo, at>>
    BY <1>3 DEF CommitVoid, Forget
  <2>5. PlannedOnce'
    BY <2>1, <2>3, <2>4 DEF PlannedOnce, AtWork
  <2>6. AskedAfterClaim'
    BY <2>1, <2>3, <2>4 DEF AskedAfterClaim, AtWork, AskedOnce
  <2>7. AtWork'
    BY <2>1, <2>3, <2>4 DEF AtWork, AskedAfterClaim, AskedOnce
  <2>8. AskedOnce'
    <3>1. pc'[p] # "call" /\ \A q \in Procs \ {p} : pc'[q] = pc[q] /\ at'[q] = at[q]
      BY <2>4
    <3>2. \A q \in Procs : pc[q] = "call" => at[q] \in Refunds /\ rows[at[q]].status = "PROCESSING"
      BY AtARow DEF AskedOnce
    <3>3. \A q \in Procs : pc[q] = "call" => rows'[at[q]] = rows[at[q]]
      BY <2>3, <3>2
    <3> QED BY <2>4, <3>1, <3>3, StaysAskedOnce
  <2>9. StatusTellsWhoPaid'
    BY <2>1, <2>3, <2>4 DEF StatusTellsWhoPaid, AtWork, AskedAfterClaim, AskedOnce
  <2> QED BY <2>5, <2>6, <2>7, <2>8, <2>9
<1>4. CASE \E n \in Notes : FinalizeCreditNote(p, n)
  <2>1. PICK n \in Notes : FinalizeCreditNote(p, n)
    BY <1>4
  <2>2. /\ notes[n].status = "DRAFT" /\ notes[n].type = "REFUND"
        /\ pc[p] = "idle" /\ lock = None /\ lock' = p
        /\ pc' = [pc EXCEPT ![p] = "plan"] /\ plan' = [plan EXCEPT ![p] = n]
        /\ UNCHANGED <<invoice, notes, rows, credited, gateway, unanswered, todo, at>>
    BY <2>1 DEF FinalizeCreditNote, BeginPlan
  <2>3. PlannedOnce'
    BY <2>2 DEF PlannedOnce
  <2>4. AskedAfterClaim'
    BY <2>2 DEF AskedAfterClaim
  <2>5. AtWork'
    BY <2>2 DEF AtWork
  <2>6. AskedOnce'
    BY <2>2 DEF AskedOnce
  <2>7. StatusTellsWhoPaid'
    BY <2>2 DEF StatusTellsWhoPaid
  <2> QED BY <2>3, <2>4, <2>5, <2>6, <2>7
<1>5. CASE VoidConflicts(p)
  <2>1. /\ lock' = None /\ pc[p] = "plan"
        /\ pc' = [pc EXCEPT ![p] = "idle"] /\ plan' = [plan EXCEPT ![p] = None]
        /\ UNCHANGED <<notes, rows, credited, gateway, unanswered, todo, at>>
    BY <1>5 DEF VoidConflicts, Forget
  <2>2. PlannedOnce'
    BY <2>1 DEF PlannedOnce
  <2>3. AskedAfterClaim'
    BY <2>1 DEF AskedAfterClaim
  <2>4. AtWork'
    BY <2>1 DEF AtWork
  <2>5. AskedOnce'
    BY <2>1 DEF AskedOnce
  <2>6. StatusTellsWhoPaid'
    BY <2>1 DEF StatusTellsWhoPaid
  <2> QED BY <2>2, <2>3, <2>4, <2>5, <2>6
<1> QED BY <1>1, <1>2, <1>3, <1>4, <1>5

LEMMA DispatchingKeepsTypes ==
    ASSUME IInv, NEW p \in Procs,
           \/ Dispatch(p)
           \/ SettleToWallet(p)
           \/ NotSupported(p)
           \/ ClaimForGateway(p)
           \/ RefundPayment(p)
           \/ RecordGatewayAcceptance(p)
           \/ Settle(p)
           \/ Fail(p)
           \/ RefundToWallet(p)
           \/ Fails(p)
           \/ Crash(p)
    PROVE  Types'
<1> USE KeySpace DEF IInv, Types, Goto, Leave, ledger, outside, Open
<1>1. CASE Dispatch(p)
  BY <1>1 DEF Dispatch
<1>2. CASE SettleToWallet(p)
  <2>1. at[p] \in Refunds
    BY <1>2, AtARow DEF SettleToWallet
  <2>2. [rows EXCEPT ![at[p]].status = "SUCCEEDED"] \in [Refunds -> Rows]
    BY <2>1, StatusChange DEF RefundStatus
  <2>3. rows' \in [Refunds -> Rows]
    BY <1>2, <2>2 DEF SettleToWallet
  <2>4. credited' \in [Refunds -> Nat]
    BY <1>2, <2>1 DEF SettleToWallet, Rows
  <2> QED BY <1>2, <2>3, <2>4 DEF SettleToWallet
<1>3. CASE NotSupported(p)
  BY <1>3 DEF NotSupported
<1>4. CASE ClaimForGateway(p)
  <2>1. at[p] \in Refunds
    BY <1>4, AtARow DEF ClaimForGateway
  <2>2. [rows EXCEPT ![at[p]].status = "PROCESSING"] \in [Refunds -> Rows]
    BY <2>1, StatusChange DEF RefundStatus
  <2>3. rows' \in [Refunds -> Rows]
    BY <1>4, <2>2 DEF ClaimForGateway
  <2>4. pc' \in [Procs -> {"idle", "plan", "next", "wallet", "claim", "call",
                           "accept", "settle", "fail", "fallback"}]
    BY <1>4 DEF ClaimForGateway
  <2>5. at' \in [Procs -> Refunds \cup {None}]
    BY <1>4, <2>1 DEF ClaimForGateway
  <2> QED BY <1>4, <2>3, <2>4, <2>5 DEF ClaimForGateway
<1>5. CASE RefundPayment(p)
  <2>1. at[p] \in Refunds
    BY <1>5, AtARow DEF RefundPayment
  <2>2. PICK answer \in Answers :
           /\ gateway' = [gateway EXCEPT ![at[p]] = answer.does]
           /\ unanswered' \in {unanswered, unanswered \cup {at[p]}}
           /\ pc' = [pc EXCEPT ![p] = answer.next]
    BY <1>5 DEF RefundPayment
  <2>3. /\ answer.does \in {"accepted", "paid", "failed"}
        /\ answer.next \in {"settle", "fail", "accept"}
    BY DEF Answers
  <2> QED BY <1>5, <2>1, <2>2, <2>3 DEF RefundPayment
<1>6. CASE RecordGatewayAcceptance(p)
  <2>1. at[p] \in Refunds
    BY <1>6, AtARow DEF RecordGatewayAcceptance
  <2>2. [rows EXCEPT ![at[p]].known = @ \/ rows[at[p]].status \in Open] \in [Refunds -> Rows]
    BY <2>1, KnownChange DEF Rows
  <2>3. rows' \in [Refunds -> Rows]
    BY <1>6, <2>2 DEF RecordGatewayAcceptance
  <2>4. pc' \in [Procs -> {"idle", "plan", "next", "wallet", "claim", "call",
                           "accept", "settle", "fail", "fallback"}]
    BY <1>6 DEF RecordGatewayAcceptance
  <2>5. at' \in [Procs -> Refunds \cup {None}]
    BY <1>6, <2>1 DEF RecordGatewayAcceptance
  <2> QED BY <1>6, <2>3, <2>4, <2>5 DEF RecordGatewayAcceptance
<1>7. CASE Settle(p)
  <2>1. at[p] \in Refunds
    BY <1>7, AtARow DEF Settle
  <2>2. \A row \in Rows : [row EXCEPT !.status = "SUCCEEDED", !.known = TRUE] \in Rows
    BY DEF Rows, RefundStatus
  <2>3. \/ rows' = rows
        \/ rows' = [rows EXCEPT ![at[p]] =
                        [rows[at[p]] EXCEPT !.status = "SUCCEEDED", !.known = TRUE]]
    BY <1>7, <2>1 DEF Settle
  <2>4. [rows[at[p]] EXCEPT !.status = "SUCCEEDED", !.known = TRUE] \in Rows
    BY <2>1, <2>2
  <2>5. rows' \in [Refunds -> Rows]
    BY <2>3, <2>4
  <2> QED BY <1>7, <2>5 DEF Settle
<1>8. CASE Fail(p)
  <2>1. at[p] \in Refunds
    BY <1>8, AtARow DEF Fail
  <2>2. [rows EXCEPT ![at[p]].status = "FAILED"] \in [Refunds -> Rows]
    BY <2>1, StatusChange DEF RefundStatus
  <2>3. rows' \in [Refunds -> Rows]
    BY <1>8, <2>2 DEF Fail
  <2>4. pc' \in [Procs -> {"idle", "plan", "next", "wallet", "claim", "call",
                           "accept", "settle", "fail", "fallback"}]
    BY <1>8 DEF Fail
  <2>5. at' \in [Procs -> Refunds \cup {None}]
    BY <1>8, <2>1 DEF Fail
  <2> QED BY <1>8, <2>3, <2>4, <2>5 DEF Fail
<1>9. CASE RefundToWallet(p)
  <2>1. at[p] \in Refunds
    BY <1>9, AtARow DEF RefundToWallet
  <2>2. [rows EXCEPT ![Fallback(at[p])] = NewRow(rows[at[p]].amount, "WALLET")] \in [Refunds -> Rows]
    BY <2>1, NewRows DEF Rows
  <2>3. rows' \in [Refunds -> Rows]
    BY <1>9, <2>2 DEF RefundToWallet
  <2>4. pc' \in [Procs -> {"idle", "plan", "next", "wallet", "claim", "call",
                           "accept", "settle", "fail", "fallback"}]
    BY <1>9 DEF RefundToWallet
  <2>5. at' \in [Procs -> Refunds \cup {None}]
    BY <1>9, <2>1 DEF RefundToWallet
  <2> QED BY <1>9, <2>3, <2>4, <2>5 DEF RefundToWallet
<1>10. CASE Fails(p)
  BY <1>10 DEF Fails
<1>11. CASE Crash(p)
  BY <1>11 DEF Crash, Forget
<1> QED BY <1>1, <1>2, <1>3, <1>4, <1>5, <1>6, <1>7, <1>8, <1>9, <1>10, <1>11

(* A row that a process is at is settled, claimed or failed: what its status *)
(* says of the gateway stays true.                                          *)
LEMMA StatusKeepsAsked ==
    ASSUME AskedAfterClaim, rows \in [Refunds -> Rows],
           NEW r \in Refunds, rows[r].status # "none",
           NEW status \in {"PROCESSING", "SUCCEEDED", "FAILED"},
           rows' = rows \/ rows' = [rows EXCEPT ![r].status = status],
           UNCHANGED <<gateway, unanswered>>
    PROVE  AskedAfterClaim'
<1>1. \A s \in Refunds :
         /\ rows'[s].known = rows[s].known /\ rows'[s].destination = rows[s].destination
         /\ rows'[s].status = rows[s].status \/ (s = r /\ rows'[s].status = status)
  <2>1. CASE rows' = rows
    BY <2>1
  <2>2. CASE rows' = [rows EXCEPT ![r].status = status]
    BY <2>2 DEF Rows, RefundStatus
  <2> QED BY <2>1, <2>2
<1>2. ASSUME NEW s \in Refunds
      PROVE  /\ rows'[s].status \in {"none", "PENDING"} => rows[s].status \in {"none", "PENDING"}
             /\ rows'[s].status # "none" <=> rows[s].status # "none"
  BY <1>1
<1> QED BY <1>1, <1>2 DEF AskedAfterClaim

LEMMA DispatchingKeepsInv ==
    ASSUME IInv, Types', NEW p \in Procs,
           \/ Dispatch(p)
           \/ SettleToWallet(p)
           \/ NotSupported(p)
           \/ ClaimForGateway(p)
           \/ RefundPayment(p)
           \/ RecordGatewayAcceptance(p)
           \/ Settle(p)
           \/ Fail(p)
           \/ RefundToWallet(p)
           \/ Fails(p)
           \/ Crash(p)
    PROVE  Inv'
<1> USE KeySpace DEF IInv, Inv, Types, Rows, Goto, Leave, ledger, outside, Open
<1>1. CASE Dispatch(p)
  <2>1. PICK r \in todo[p] :
            /\ pc[p] = "next"
            /\ todo' = [todo EXCEPT ![p] = @ \ {r}]
            /\ at' = [at EXCEPT ![p] = r]
            /\ pc' = [pc EXCEPT ![p] = IF rows[r].destination = "WALLET" THEN "wallet" ELSE "claim"]
    BY <1>1 DEF Dispatch
  <2>2. UNCHANGED <<invoice, notes, rows, credited, gateway, unanswered, lock, plan>>
    BY <1>1 DEF Dispatch
  <2>3. /\ at'[p] = r /\ r \in Refunds /\ rows[r].status # "none"
        /\ rows[r].destination \in {"WALLET", "GATEWAY"}
        /\ pc'[p] = IF rows[r].destination = "WALLET" THEN "wallet" ELSE "claim"
        /\ todo'[p] \subseteq todo[p]
        /\ \A q \in Procs \ {p} : pc'[q] = pc[q] /\ at'[q] = at[q] /\ todo'[q] = todo[q]
    BY <2>1 DEF AtWork
  <2> HIDE KeySpace DEF IInv, Inv, Types, Rows
  <2>4. PlannedOnce /\ AskedAfterClaim /\ AtWork /\ AskedOnce /\ StatusTellsWhoPaid /\ None \notin Refunds
    BY KeySpace DEF IInv, Inv
  <2>5. PlannedOnce'
    BY <2>2, <2>3, <2>4 DEF PlannedOnce
  <2>6. AskedAfterClaim' /\ StatusTellsWhoPaid'
    BY <2>2, <2>4 DEF AskedAfterClaim, StatusTellsWhoPaid
  <2>7. AtWork'
    BY <2>2, <2>3, <2>4 DEF AtWork
  <2>8. AskedOnce'
    BY <2>2, <2>3, <2>4 DEF AskedOnce
  <2> QED BY <2>5, <2>6, <2>7, <2>8 DEF Inv
<1>2. CASE SettleToWallet(p)
  <2>1. PlannedOnce'
    BY <1>2 DEF SettleToWallet, MaySettle, PlannedOnce, AtWork
  <2>2. AskedAfterClaim'
    <3>1. at[p] \in Refunds /\ rows[at[p]].status # "none"
      BY <1>2, AtARow DEF SettleToWallet, AtWork
    <3>2. /\ rows' = rows \/ rows' = [rows EXCEPT ![at[p]].status = "SUCCEEDED"]
          /\ UNCHANGED <<gateway, unanswered>>
      BY <1>2 DEF SettleToWallet
    <3>3. AskedAfterClaim /\ rows \in [Refunds -> Rows]
      OBVIOUS
    <3> HIDE KeySpace DEF IInv, Inv, Types, Rows, Goto, Leave, ledger, outside, Open
    <3> QED BY <3>1, <3>2, <3>3, StatusKeepsAsked
  <2>3. AtWork'
    <3>1. at[p] \in Refunds /\ rows[at[p]].status # "none"
      BY <1>2, AtARow DEF SettleToWallet, AtWork
    <3>2. rows' = rows \/ rows' = [rows EXCEPT ![at[p]].status = "SUCCEEDED"]
      BY <1>2 DEF SettleToWallet
    <3>3. \A s \in Refunds :
             /\ rows'[s].destination = rows[s].destination
             /\ rows[s].status # "none" => rows'[s].status # "none"
      BY <3>1, <3>2, StatusChanged DEF RefundStatus
    <3>4. UNCHANGED <<gateway, unanswered, todo>>
      BY <1>2 DEF SettleToWallet
    <3>5. /\ at'[p] = None /\ pc'[p] \in {"idle", "next"}
          /\ \A q \in Procs \ {p} : pc'[q] = pc[q] /\ at'[q] = at[q]
      BY <1>2, Leaving DEF SettleToWallet, AtWork
    <3>6. \A q \in Procs : (at[q] # None => at[q] \in Refunds) /\ todo[q] \subseteq Refunds
      OBVIOUS
    <3>7. AtWork /\ (at[p] # None)
      BY <3>1
    <3> HIDE KeySpace DEF IInv, Inv, Types, Rows, Goto, Leave, ledger, outside, Open
    <3> QED BY <3>1, <3>3, <3>4, <3>5, <3>6, <3>7, StaysAtWork
  <2>4. AskedOnce'
    <3>1. /\ at[p] \in Refunds /\ rows[at[p]].destination = "WALLET" /\ UNCHANGED gateway
          /\ rows' = rows \/ rows' = [rows EXCEPT ![at[p]].status = "SUCCEEDED"]
      BY <1>2, AtARow DEF SettleToWallet, AtWork
    <3>2. pc'[p] # "call" /\ \A q \in Procs \ {p} : pc'[q] = pc[q] /\ at'[q] = at[q]
      BY <1>2, Leaving DEF SettleToWallet
    <3>3. \A q \in Procs : pc[q] = "call" =>
             at[q] \in Refunds /\ rows[at[q]].destination = "GATEWAY"
      BY AtARow DEF AtWork
    <3>4. \A s \in Refunds : s # at[p] => rows'[s] = rows[s]
      BY <3>1
    <3>5. \A q \in Procs \ {p} : pc[q] = "call" =>
             rows'[at[q]].status = rows[at[q]].status /\ gateway'[at[q]] = gateway[at[q]]
      BY <3>1, <3>3, <3>4
    <3>6. AskedOnce
      OBVIOUS
    <3> HIDE KeySpace DEF IInv, Inv, Types, Rows, Goto, Leave, ledger, outside, Open
    <3> QED BY <3>2, <3>5, <3>6, StaysAskedOnce
  <2>5. StatusTellsWhoPaid'
    <3>1. /\ at[p] \in Refunds /\ rows[at[p]].destination = "WALLET"
          /\ UNCHANGED <<gateway, unanswered>>
      BY <1>2, AtARow DEF SettleToWallet, AtWork
    <3>2. CASE MaySettle(at[p])
      <4>1. /\ rows' = [rows EXCEPT ![at[p]].status = "SUCCEEDED"]
            /\ credited' = [credited EXCEPT ![at[p]] = credited[at[p]] + rows[at[p]].amount]
        BY <1>2, <3>2 DEF SettleToWallet
      <4>2. credited[at[p]] = 0 /\ rows[at[p]].amount \in Nat
        BY <3>1, <3>2 DEF MaySettle, StatusTellsWhoPaid
      <4>3. /\ rows'[at[p]].status = "SUCCEEDED" /\ rows'[at[p]].destination = "WALLET"
            /\ rows'[at[p]].amount = rows[at[p]].amount /\ credited'[at[p]] = rows[at[p]].amount
            /\ \A s \in Refunds \ {at[p]} : rows'[s] = rows[s] /\ credited'[s] = credited[s]
        BY <3>1, <4>1, <4>2
      <4>4. StatusTellsWhoPaid
        OBVIOUS
      <4> HIDE KeySpace DEF IInv, Inv, Types, Rows, Goto, Leave, ledger, outside, Open
      <4> QED BY <3>1, <4>3, <4>4 DEF StatusTellsWhoPaid
    <3>3. CASE ~MaySettle(at[p])
      BY <1>2, <3>1, <3>3 DEF SettleToWallet, StatusTellsWhoPaid
    <3> QED BY <3>2, <3>3
  <2> QED BY <2>1, <2>2, <2>3, <2>4, <2>5
<1>3. CASE NotSupported(p)
  <2>1. /\ pc[p] = "claim" /\ at[p][2] \in Unsupported /\ pc' = [pc EXCEPT ![p] = "fail"]
        /\ UNCHANGED <<invoice, notes, rows, credited, gateway, unanswered, lock, plan, todo, at>>
    BY <1>3 DEF NotSupported
  <2>2. PlannedOnce'
    BY <2>1 DEF PlannedOnce
  <2>3. AskedAfterClaim'
    BY <2>1 DEF AskedAfterClaim
  <2>4. AtWork'
    BY <2>1 DEF AtWork
  <2>5. AskedOnce'
    BY <2>1 DEF AskedOnce
  <2>6. StatusTellsWhoPaid'
    BY <2>1 DEF StatusTellsWhoPaid
  <2> QED BY <2>2, <2>3, <2>4, <2>5, <2>6
<1>4. CASE ClaimForGateway(p)
  <2>1. PlannedOnce'
    BY <1>4 DEF ClaimForGateway, Claimable, PlannedOnce, AtWork
  <2>2. AskedAfterClaim'
    <3>1. at[p] \in Refunds /\ rows[at[p]].status # "none"
      BY <1>4, AtARow DEF ClaimForGateway, AtWork
    <3>2. /\ rows' = rows \/ rows' = [rows EXCEPT ![at[p]].status = "PROCESSING"]
          /\ UNCHANGED <<gateway, unanswered>>
      BY <1>4 DEF ClaimForGateway
    <3>3. AskedAfterClaim /\ rows \in [Refunds -> Rows]
      OBVIOUS
    <3> HIDE KeySpace DEF IInv, Inv, Types, Rows, Goto, Leave, ledger, outside, Open
    <3> QED BY <3>1, <3>2, <3>3, StatusKeepsAsked
  <2>3. AtWork'
    <3>1. at[p] \in Refunds /\ rows[at[p]].status # "none"
      BY <1>4, AtARow DEF ClaimForGateway, AtWork
    <3>2. rows' = rows \/ rows' = [rows EXCEPT ![at[p]].status = "PROCESSING"]
      BY <1>4 DEF ClaimForGateway
    <3>3. \A s \in Refunds :
             /\ rows'[s].destination = rows[s].destination
             /\ rows[s].status # "none" => rows'[s].status # "none"
      BY <3>1, <3>2, StatusChanged DEF RefundStatus
    <3>4. UNCHANGED <<gateway, unanswered, todo>>
      BY <1>4 DEF ClaimForGateway
    <3>5. /\ \/ at'[p] = None /\ pc'[p] \in {"idle", "next"}
             \/ at'[p] = at[p] /\ pc'[p] = "call" /\ rows[at[p]].destination = "GATEWAY"
          /\ \A q \in Procs \ {p} : pc'[q] = pc[q] /\ at'[q] = at[q]
      BY <1>4, Leaving DEF ClaimForGateway, AtWork
    <3>6. \A q \in Procs : (at[q] # None => at[q] \in Refunds) /\ todo[q] \subseteq Refunds
      OBVIOUS
    <3>7. AtWork /\ (at[p] # None)
      BY <3>1
    <3> HIDE KeySpace DEF IInv, Inv, Types, Rows, Goto, Leave, ledger, outside, Open
    <3> QED BY <3>1, <3>3, <3>4, <3>5, <3>6, <3>7, StaysAtWork
  <2>4. AskedOnce'
    <3>1. CASE Claimable(at[p])
      <4>1. at[p] \in Refunds /\ at[p][2] \notin Unsupported /\ rows[at[p]].status = "PENDING"
        BY <1>4, <3>1, AtARow DEF ClaimForGateway, Claimable
      <4>2. gateway[at[p]] = "none" /\ UNCHANGED <<gateway, at>>
        BY <1>4, <3>1, <4>1 DEF ClaimForGateway, AskedAfterClaim
      <4>3. rows' = [rows EXCEPT ![at[p]].status = "PROCESSING"]
        BY <1>4, <3>1 DEF ClaimForGateway
      <4>4. /\ rows'[at[p]].status = "PROCESSING"
            /\ \A s \in Refunds : s # at[p] => rows'[s] = rows[s]
        BY <4>1, <4>3
      <4>5. pc' = [pc EXCEPT ![p] = "call"]
        BY <1>4, <3>1 DEF ClaimForGateway
      <4>6. \A q \in Procs : pc[q] = "call" => at[q] \in Refunds /\ at[q] # at[p]
        BY <4>1, AtARow DEF AskedOnce
      <4> QED BY <4>1, <4>2, <4>4, <4>5, <4>6 DEF AskedOnce
    <3>2. CASE ~Claimable(at[p])
      <4>1. Leave(p) /\ UNCHANGED <<rows, gateway>>
        BY <1>4, <3>2 DEF ClaimForGateway
      <4> QED BY <4>1, Leaving, StaysAskedOnce
    <3> QED BY <3>1, <3>2
  <2>5. StatusTellsWhoPaid'
    BY <1>4 DEF ClaimForGateway, Claimable, StatusTellsWhoPaid, AtWork, AskedAfterClaim, AskedOnce
  <2> QED BY <2>1, <2>2, <2>3, <2>4, <2>5
<1>5. CASE RefundPayment(p)
  <2> DEFINE r == at[p]
  <2>1. /\ r \in Refunds /\ pc[p] = "call"
        /\ rows[r].status = "PROCESSING" /\ rows[r].destination = "GATEWAY"
        /\ gateway[r] = "none" /\ r[2] \notin Unsupported
        /\ \A q \in Procs : pc[q] = "call" /\ at[q] = r => q = p
    BY <1>5, AtARow DEF RefundPayment, AtWork, AskedOnce
  <2>2. /\ UNCHANGED <<invoice, notes, rows, credited, lock, plan, todo, at>>
        /\ \A s \in Refunds : s # r => gateway'[s] = gateway[s] /\ (s \in unanswered' <=> s \in unanswered)
        /\ \A q \in Procs \ {p} : pc'[q] = pc[q]
        /\ gateway'[r] # "none" /\ unanswered \subseteq unanswered'
        /\ \/ pc'[p] = "fail" /\ (gateway'[r] = "failed" \/ r \in unanswered')
           \/ pc'[p] = "settle" /\ gateway'[r] = "paid"
           \/ pc'[p] = "accept"
    BY <1>5, <2>1 DEF RefundPayment, Answers
  <2>3. \A q \in Procs : at[q] # None => at[q] \in Refunds
    OBVIOUS
  <2>4. PlannedOnce /\ AskedAfterClaim /\ AtWork /\ AskedOnce /\ StatusTellsWhoPaid
        /\ None \notin Refunds
    OBVIOUS
  <2> HIDE KeySpace DEF IInv, Inv, Types, Rows, r
  <2>5. PlannedOnce'
    BY <2>2, <2>4 DEF PlannedOnce
  <2>6. AskedAfterClaim'
    BY <2>1, <2>2, <2>4 DEF AskedAfterClaim
  <2>7. AtWork'
    <3> SUFFICES ASSUME NEW q \in Procs
                 PROVE  /\ at[q] # None => rows[at[q]].status # "none"
                        /\ \A s \in todo[q] : rows[s].status # "none"
                        /\ pc'[q] \notin {"idle", "plan", "next"} => at[q] # None
                        /\ pc'[q] = "wallet" => rows[at[q]].destination = "WALLET"
                        /\ pc'[q] \in {"claim", "call", "accept", "settle", "fail"} =>
                              rows[at[q]].destination = "GATEWAY"
                        /\ pc'[q] = "settle" => gateway'[at[q]] = "paid"
                        /\ pc'[q] = "fail" => \/ at[q][2] \in Unsupported \/ gateway'[at[q]] = "failed"
                                              \/ at[q] \in unanswered'
      BY <2>2 DEF AtWork
    <3>1. CASE q = p
      BY <2>1, <2>2, <2>4, <3>1 DEF AtWork, r
    <3>2. CASE q # p
      <4>1. pc'[q] = pc[q]
        BY <2>2, <3>2
      <4>2. pc[q] = "settle" => at[q] # r /\ at[q] \in Refunds
        BY <2>1, <2>3, <2>4 DEF AtWork
      <4>3. pc[q] = "fail" => at[q] \in Refunds /\ (at[q] = r => r \in unanswered)
        BY <2>1, <2>3, <2>4 DEF AtWork
      <4> QED BY <2>2, <2>4, <4>1, <4>2, <4>3 DEF AtWork
    <3> QED BY <3>1, <3>2
  <2>8. AskedOnce'
    <3>1. \A q \in Procs : pc'[q] = "call" => q # p /\ pc[q] = "call" /\ at[q] \in Refunds /\ at[q] # r
      BY <2>1, <2>2, <2>3, <2>4 DEF AtWork
    <3> QED BY <2>2, <2>4, <3>1 DEF AskedOnce
  <2>9. StatusTellsWhoPaid'
    BY <2>1, <2>2, <2>4 DEF StatusTellsWhoPaid
  <2> QED BY <2>5, <2>6, <2>7, <2>8, <2>9 DEF Inv
<1>6. CASE RecordGatewayAcceptance(p)
  <2>1. /\ at[p] \in Refunds /\ at[p] # None /\ rows[at[p]].status # "none"
        /\ rows[at[p]].destination = "GATEWAY"
    BY <1>6, AtARow DEF RecordGatewayAcceptance, AtWork
  <2>2. \A s \in Refunds :
           /\ rows'[s].destination = rows[s].destination /\ rows'[s].amount = rows[s].amount
           /\ rows'[s].status = rows[s].status /\ (rows'[s].known => rows[s].known \/ s = at[p])
    BY <1>6, <2>1 DEF RecordGatewayAcceptance
  <2>3. UNCHANGED <<invoice, notes, credited, gateway, unanswered, lock, plan, todo>>
    BY <1>6 DEF RecordGatewayAcceptance
  <2>4. /\ at'[p] = None /\ pc'[p] \in {"idle", "next"}
        /\ \A q \in Procs \ {p} : pc'[q] = pc[q] /\ at'[q] = at[q]
    BY <1>6, Leaving DEF RecordGatewayAcceptance
  <2>5. /\ \A q \in Procs : (at[q] # None => at[q] \in Refunds) /\ todo[q] \subseteq Refunds
        /\ \A q \in Procs : pc[q] = "call" => at[q] \in Refunds
    BY AtARow
  <2>6. PlannedOnce /\ AskedAfterClaim /\ AtWork /\ AskedOnce /\ StatusTellsWhoPaid
    OBVIOUS
  <2> HIDE KeySpace DEF IInv, Inv, Types, Rows, Goto, Leave, ledger, outside, Open
  <2>7. PlannedOnce'
    <3>1. \A q \in Procs : pc'[q] = "plan" => pc[q] = "plan"
      BY <2>4
    <3> QED BY <2>2, <2>3, <2>6, <3>1 DEF PlannedOnce
  <2>8. AskedAfterClaim'
    BY <2>1, <2>2, <2>3, <2>6 DEF AskedAfterClaim
  <2>9. AtWork'
    BY <2>1, <2>2, <2>3, <2>4, <2>5, <2>6, StaysAtWork
  <2>10. AskedOnce'
    BY <2>2, <2>3, <2>4, <2>5, <2>6, StaysAskedOnce
  <2>11. StatusTellsWhoPaid'
    BY <2>2, <2>3, <2>6 DEF StatusTellsWhoPaid
  <2> QED BY <2>7, <2>8, <2>9, <2>10, <2>11 DEF Inv
<1>7. CASE Settle(p)
  <2>1. /\ at[p] \in Refunds /\ at[p] # None /\ rows[at[p]].status # "none"
        /\ rows[at[p]].destination = "GATEWAY"
    BY <1>7, AtARow DEF Settle, AtWork
  <2>2. \A s \in Refunds :
           /\ rows'[s].destination = rows[s].destination
           /\ \/ rows'[s].status = rows[s].status
              \/ rows[s].status # "none" /\ rows'[s].status = "SUCCEEDED"
           /\ rows'[s].known => rows[s].known \/ s = at[p]
    <3> TAKE s \in Refunds
    <3>1. CASE s = at[p]
      BY <1>7, <2>1, <3>1 DEF Settle, MaySettle
    <3>2. CASE s # at[p]
      BY <1>7, <2>1, <3>2 DEF Settle, MaySettle
    <3> QED BY <3>1, <3>2
  <2>3. UNCHANGED <<gateway, unanswered, todo>>
    BY <1>7 DEF Settle
  <2>4. /\ at'[p] = None /\ pc'[p] \in {"idle", "next"}
        /\ \A q \in Procs \ {p} : pc'[q] = pc[q] /\ at'[q] = at[q]
    BY <1>7, Leaving DEF Settle
  <2>5. PlannedOnce'
    <3>1. \A q \in Procs : pc'[q] = "plan" => pc[q] = "plan"
      BY <2>4
    <3>2. PlannedOnce /\ UNCHANGED <<invoice, notes, lock, plan>>
      BY <1>7 DEF Settle
    <3> HIDE KeySpace DEF IInv, Inv, Types, Rows, Goto, Leave, ledger, outside, Open
    <3> QED BY <2>2, <3>1, <3>2 DEF PlannedOnce
  <2>6. AskedAfterClaim'
    <3>1. AskedAfterClaim
      OBVIOUS
    <3> HIDE KeySpace DEF IInv, Inv, Types, Rows, Goto, Leave, ledger, outside, Open
    <3> QED BY <2>1, <2>2, <2>3, <3>1 DEF AskedAfterClaim
  <2>7. AtWork'
    <3>1. /\ \A q \in Procs : (at[q] # None => at[q] \in Refunds) /\ todo[q] \subseteq Refunds
          /\ AtWork
      OBVIOUS
    <3>2. \A s \in Refunds :
             /\ rows'[s].destination = rows[s].destination
             /\ rows[s].status # "none" => rows'[s].status # "none"
      BY <2>2
    <3> HIDE KeySpace DEF IInv, Inv, Types, Rows, Goto, Leave, ledger, outside, Open
    <3> QED BY <2>1, <2>3, <2>4, <3>1, <3>2, StaysAtWork
  <2>8. AskedOnce'
    <3>1. \A q \in Procs : pc[q] = "call" => at[q] # at[p] /\ at[q] \in Refunds
      <4>1. gateway[at[p]] = "paid"
        BY <1>7 DEF Settle, AtWork
      <4>2. \A q \in Procs : pc[q] = "call" => at[q] \in Refunds /\ gateway[at[q]] = "none"
        BY AtARow DEF AskedOnce
      <4> QED BY <4>1, <4>2
    <3>2. \A s \in Refunds : s # at[p] => rows'[s] = rows[s]
      BY <1>7, <2>1 DEF Settle
    <3>3. AskedOnce /\ pc'[p] # "call"
      BY <2>4
    <3> HIDE KeySpace DEF IInv, Inv, Types, Rows, Goto, Leave, ledger, outside, Open
    <3> QED BY <2>3, <2>4, <3>1, <3>2, <3>3, StaysAskedOnce
  <2>9. StatusTellsWhoPaid'
    <3>1. gateway[at[p]] = "paid" /\ UNCHANGED credited
      BY <1>7 DEF Settle, AtWork
    <3>2. credited[at[p]] = 0 \/ rows' = rows
      BY <1>7, <2>1 DEF Settle, MaySettle, StatusTellsWhoPaid
    <3>3. \A s \in Refunds : s # at[p] => rows'[s] = rows[s]
      BY <1>7, <2>1 DEF Settle
    <3>4. rows' = rows \/ rows'[at[p]].status = "SUCCEEDED"
      BY <1>7, <2>1 DEF Settle
    <3>5. StatusTellsWhoPaid
      OBVIOUS
    <3> HIDE KeySpace DEF IInv, Inv, Types, Rows, Goto, Leave, ledger, outside, Open
    <3> QED BY <2>1, <2>2, <2>3, <3>1, <3>2, <3>3, <3>4, <3>5 DEF StatusTellsWhoPaid
  <2> QED BY <2>5, <2>6, <2>7, <2>8, <2>9
<1>8. CASE Fail(p)
  <2>1. PlannedOnce'
    BY <1>8 DEF Fail, MayFail, PlannedOnce, AtWork
  <2>2. AskedAfterClaim'
    <3>1. at[p] \in Refunds /\ rows[at[p]].status # "none"
      BY <1>8, AtARow DEF Fail, AtWork
    <3>2. /\ rows' = rows \/ rows' = [rows EXCEPT ![at[p]].status = "FAILED"]
          /\ UNCHANGED <<gateway, unanswered>>
      BY <1>8 DEF Fail
    <3>3. AskedAfterClaim /\ rows \in [Refunds -> Rows]
      OBVIOUS
    <3> HIDE KeySpace DEF IInv, Inv, Types, Rows, Goto, Leave, ledger, outside, Open
    <3> QED BY <3>1, <3>2, <3>3, StatusKeepsAsked
  <2>3. AtWork'
    <3>1. at[p] \in Refunds /\ rows[at[p]].status # "none"
      BY <1>8, AtARow DEF Fail, AtWork
    <3>2. rows' = rows \/ rows' = [rows EXCEPT ![at[p]].status = "FAILED"]
      BY <1>8 DEF Fail
    <3>3. \A s \in Refunds :
             /\ rows'[s].destination = rows[s].destination
             /\ rows[s].status # "none" => rows'[s].status # "none"
      BY <3>1, <3>2, StatusChanged DEF RefundStatus
    <3>4. UNCHANGED <<gateway, unanswered, todo>>
      BY <1>8 DEF Fail
    <3>5. /\ \/ at'[p] = None /\ pc'[p] \in {"idle", "next"}
             \/ at'[p] = at[p] /\ pc'[p] = "fallback"
          /\ \A q \in Procs \ {p} : pc'[q] = pc[q] /\ at'[q] = at[q]
      BY <1>8, Leaving DEF Fail, AtWork
    <3>6. \A q \in Procs : (at[q] # None => at[q] \in Refunds) /\ todo[q] \subseteq Refunds
      OBVIOUS
    <3>7. AtWork /\ (at[p] # None)
      BY <3>1
    <3> HIDE KeySpace DEF IInv, Inv, Types, Rows, Goto, Leave, ledger, outside, Open
    <3> QED BY <3>1, <3>3, <3>4, <3>5, <3>6, <3>7, StaysAtWork
  <2>4. AskedOnce'
    <3>1. \A q \in Procs : pc[q] = "call" => at[q] # at[p]
      BY <1>8, AtARow DEF Fail, AtWork, AskedOnce, AskedAfterClaim
    <3>2. \A s \in Refunds : s # at[p] => rows'[s] = rows[s]
      BY <1>8, AtARow DEF Fail
    <3>3. UNCHANGED gateway
      BY <1>8 DEF Fail
    <3>4. /\ pc'[p] # "call"
          /\ \A q \in Procs \ {p} : pc'[q] = pc[q] /\ at'[q] = at[q]
      BY <1>8, Leaving DEF Fail
    <3>5. \A q \in Procs : pc[q] = "call" => at[q] \in Refunds
      BY AtARow
    <3> QED BY <3>1, <3>2, <3>3, <3>4, <3>5, StaysAskedOnce
  <2>5. StatusTellsWhoPaid'
    BY <1>8 DEF Fail, MayFail, StatusTellsWhoPaid, AtWork, AskedAfterClaim, AskedOnce
  <2> QED BY <2>1, <2>2, <2>3, <2>4, <2>5
<1>9. CASE RefundToWallet(p)
  <2>1. at[p] \in Refunds /\ rows[at[p]].status # "none" /\ pc[p] = "fallback"
    BY <1>9, AtARow DEF RefundToWallet, AtWork
  <2>2. /\ Fallback(at[p]) \in Refunds /\ Fallback(at[p])[3] = 2
        /\ Fallback(at[p])[1] = at[p][1]
    BY <2>1
  <2>3. \A s \in Refunds :
           \/ rows'[s] = rows[s]
           \/ /\ s = Fallback(at[p]) /\ rows[s].status = "none" /\ rows'[s].status = "PENDING"
              /\ rows'[s].destination = "WALLET" /\ ~rows'[s].known
    BY <1>9, <2>2 DEF RefundToWallet, NotReplaced, NewRow
  <2>4. rows'[Fallback(at[p])].status # "none"
    BY <1>9, <2>2 DEF RefundToWallet, NotReplaced, NewRow
  <2>5. /\ at' = [at EXCEPT ![p] = Fallback(at[p])] /\ pc' = [pc EXCEPT ![p] = "wallet"]
        /\ UNCHANGED <<invoice, notes, credited, gateway, unanswered, lock, plan, todo>>
    BY <1>9 DEF RefundToWallet
  <2>6. PlannedOnce'
    BY <2>1, <2>2, <2>3, <2>4, <2>5 DEF PlannedOnce, AtWork
  <2>7. AskedAfterClaim'
    BY <2>1, <2>2, <2>3, <2>4, <2>5 DEF AskedAfterClaim, AtWork, AskedOnce
  <2>8. AtWork'
    BY <2>1, <2>2, <2>3, <2>4, <2>5 DEF AtWork, AskedAfterClaim, AskedOnce
  <2>9. AskedOnce'
    <3>1. \A q \in Procs : pc[q] = "call" => at[q] \in Refunds
      BY AtARow
    <3>2. /\ pc'[p] # "call"
          /\ \A q \in Procs \ {p} : pc'[q] = pc[q] /\ at'[q] = at[q]
      BY <2>5
    <3>3. \A q \in Procs : pc[q] = "call" => rows[at[q]].status = "PROCESSING"
      BY DEF AskedOnce
    <3>4. UNCHANGED gateway /\ AskedOnce
      BY <2>5
    <3> HIDE KeySpace DEF IInv, Inv, Types, Rows, Goto, Leave, ledger, outside, Open
    <3>5. \A q \in Procs : pc[q] = "call" => rows'[at[q]].status = rows[at[q]].status
      BY <2>3, <3>1, <3>3
    <3> QED BY <3>2, <3>4, <3>5, StaysAskedOnce
  <2>10. StatusTellsWhoPaid'
    BY <2>1, <2>2, <2>3, <2>4, <2>5 DEF StatusTellsWhoPaid, AtWork, AskedAfterClaim, AskedOnce
  <2> QED BY <2>6, <2>7, <2>8, <2>9, <2>10
<1>10. CASE Fails(p)
  <2>1. /\ pc'[p] \in {"idle", "next"} /\ at'[p] = None
        /\ \A q \in Procs \ {p} : pc'[q] = pc[q] /\ at'[q] = at[q]
        /\ UNCHANGED <<invoice, notes, rows, credited, gateway, unanswered, lock, plan, todo>>
    BY <1>10, Leaving DEF Fails
  <2>2. PlannedOnce'
    BY <2>1 DEF PlannedOnce
  <2>3. AskedAfterClaim'
    BY <2>1 DEF AskedAfterClaim
  <2>4. AtWork'
    BY <2>1 DEF AtWork
  <2>5. AskedOnce'
    BY <2>1 DEF AskedOnce
  <2>6. StatusTellsWhoPaid'
    BY <2>1 DEF StatusTellsWhoPaid
  <2> QED BY <2>2, <2>3, <2>4, <2>5, <2>6
<1>11. CASE Crash(p)
  <2>1. /\ pc' = [pc EXCEPT ![p] = "idle"] /\ at' = [at EXCEPT ![p] = None]
        /\ plan' = [plan EXCEPT ![p] = None] /\ todo' = [todo EXCEPT ![p] = {}]
        /\ lock' = IF lock = p THEN None ELSE lock
        /\ UNCHANGED <<invoice, notes, rows, credited, gateway, unanswered>>
    BY <1>11 DEF Crash, Forget
  <2>2. PlannedOnce'
    BY <2>1 DEF PlannedOnce
  <2>3. AskedAfterClaim'
    BY <2>1 DEF AskedAfterClaim
  <2>4. AtWork'
    BY <2>1 DEF AtWork
  <2>5. AskedOnce'
    BY <2>1 DEF AskedOnce
  <2>6. StatusTellsWhoPaid'
    BY <2>1 DEF StatusTellsWhoPaid
  <2> QED BY <2>2, <2>3, <2>4, <2>5, <2>6
<1> QED BY <1>1, <1>2, <1>3, <1>4, <1>5, <1>6, <1>7, <1>8, <1>9, <1>10, <1>11

LEMMA StartingKeepsTypes ==
    ASSUME IInv, NEW p \in Procs, NEW r \in Refunds,
           \/ RetryRefund(p, r)
           \/ Webhook(p, r)
    PROVE  Types'
<1> USE KeySpace DEF IInv, Types, Goto, Leave, ledger, outside, Open
<1>1. CASE RetryRefund(p, r)
  BY <1>1 DEF RetryRefund, StartWith
<1>2. CASE Webhook(p, r)
  BY <1>2 DEF Webhook, StartWith
<1> QED BY <1>1, <1>2

LEMMA StartingKeepsInv ==
    ASSUME IInv, Types', NEW p \in Procs, NEW r \in Refunds,
           \/ RetryRefund(p, r)
           \/ Webhook(p, r)
    PROVE  Inv'
<1> USE KeySpace DEF IInv, Inv, Types, Rows, Goto, Leave, ledger, outside, Open
<1>1. CASE RetryRefund(p, r)
  <2>1. PlannedOnce'
    BY <1>1 DEF RetryRefund, StartWith, PlannedOnce, AtWork
  <2>2. AskedAfterClaim'
    BY <1>1 DEF RetryRefund, StartWith, AskedAfterClaim, AtWork, AskedOnce
  <2>3. AtWork'
    BY <1>1 DEF RetryRefund, StartWith, AtWork, AskedAfterClaim, AskedOnce
  <2>4. AskedOnce'
    <3>1. pc'[p] # "call" /\ \A q \in Procs \ {p} : pc'[q] = pc[q] /\ at'[q] = at[q]
      BY <1>1 DEF RetryRefund, StartWith
    <3>2. UNCHANGED <<rows, gateway>>
      BY <1>1 DEF RetryRefund, StartWith
    <3> QED BY <3>1, <3>2, StaysAskedOnce
  <2>5. StatusTellsWhoPaid'
    BY <1>1 DEF RetryRefund, StartWith, StatusTellsWhoPaid, AtWork, AskedAfterClaim, AskedOnce
  <2> QED BY <2>1, <2>2, <2>3, <2>4, <2>5
<1>2. CASE Webhook(p, r)
  <2>1. PlannedOnce'
    BY <1>2 DEF Webhook, StartWith, PlannedOnce, AtWork
  <2>2. AskedAfterClaim'
    BY <1>2 DEF Webhook, StartWith, AskedAfterClaim, AtWork, AskedOnce
  <2>3. AtWork'
    BY <1>2 DEF Webhook, StartWith, AtWork, AskedAfterClaim, AskedOnce
  <2>4. AskedOnce'
    BY <1>2 DEF Webhook, StartWith, AskedOnce, AtWork, AskedAfterClaim
  <2>5. StatusTellsWhoPaid'
    BY <1>2 DEF Webhook, StartWith, StatusTellsWhoPaid, AtWork, AskedAfterClaim, AskedOnce
  <2> QED BY <2>1, <2>2, <2>3, <2>4, <2>5
<1> QED BY <1>1, <1>2

-----------------------------------------------------------------------------
LEMMA InvInit == Init => IInv
<1> SUFFICES ASSUME Init PROVE IInv
    OBVIOUS
<1> USE KeySpace DEF Init
<1>1. Types
  BY NewRows DEF Types, NoNote
<1>2. \A r \in Refunds : /\ rows[r].status = "none" /\ ~rows[r].known
                         /\ gateway[r] = "none" /\ credited[r] = 0
  BY DEF NoRow
<1>3. PlannedOnce /\ AskedAfterClaim /\ StatusTellsWhoPaid
  BY <1>2 DEF PlannedOnce, AskedAfterClaim, StatusTellsWhoPaid
<1>4. AtWork /\ AskedOnce
  BY DEF AtWork, AskedOnce
<1> QED BY <1>1, <1>3, <1>4 DEF IInv, Inv

LEMMA InvStep == IInv /\ [Next]_vars => IInv'
<1> SUFFICES ASSUME IInv, [Next]_vars PROVE IInv'
    OBVIOUS
<1>1. CASE UNCHANGED vars
  BY <1>1 DEF vars, IInv, Types, Inv, PlannedOnce, AskedAfterClaim, AtWork, AskedOnce,
     StatusTellsWhoPaid
<1>2. ASSUME NEW x \in Payments, PaymentSucceeds(x) \/ ReadInvoice(x) \/ WriteInvoice(x)
      PROVE  IInv'
  <2>1. UNCHANGED <<notes, rows, credited, gateway, unanswered, lock, pc, plan, todo, at>>
    BY <1>2 DEF PaymentSucceeds, ReadInvoice, WriteInvoice, outside
  <2> QED BY <2>1 DEF IInv, Types, Inv, PlannedOnce, AskedAfterClaim, AtWork, AskedOnce,
             StatusTellsWhoPaid
<1>3. CASE \E n \in Notes : CreateCreditNote(n) \/ FinalizeAdjustment(n) \/ VoidCreditNote(n)
  BY <1>3, LedgerKeepsTypes, LedgerKeepsInv DEF IInv
<1>4. CASE \E p \in Procs : Plans(p)
  BY <1>4, PlanningKeepsTypes, PlanningKeepsInv
  DEF IInv, Plans
<1>5. CASE \E p \in Procs : Works(p)
  BY <1>5, DispatchingKeepsTypes, DispatchingKeepsInv DEF IInv, Works
<1>6. CASE \E p \in Procs, r \in Refunds : RetryRefund(p, r) \/ Webhook(p, r)
  BY <1>6, StartingKeepsTypes, StartingKeepsInv DEF IInv
<1>7. ASSUME NEW r \in Refunds, GatewayDecides(r)
      PROVE  IInv'
  <2>1. PICK outcome \in {"paid", "failed"} : gateway' = [gateway EXCEPT ![r] = outcome]
    BY <1>7 DEF GatewayDecides
  <2>2. gateway[r] = "accepted"
        /\ UNCHANGED <<invoice, notes, rows, credited, unanswered, lock, pc, plan, todo, at>>
    BY <1>7 DEF GatewayDecides, ledger
  <2> QED BY <2>1, <2>2, KeySpace DEF IInv, Types, Inv, PlannedOnce, AskedAfterClaim, AtWork,
             AskedOnce, StatusTellsWhoPaid
<1> QED BY <1>1, <1>2, <1>3, <1>4, <1>5, <1>6, <1>7 DEF Next

LEMMA Invariance == Spec => []IInv
  BY InvInit, InvStep, PTL DEF Spec

(* Whatever retries, webhooks and crashes came together, a refund that      *)
(* succeeded was paid once by who its destination names, and one that did   *)
(* not has put nothing into the wallet (Settle, Fail, settleToWallet).      *)
THEOREM StatusIsTrue == Spec => []StatusTellsWhoPaid
  BY Invariance, PTL DEF IInv, Inv

(* The claim under the row's lock lets one process ask the gateway for a    *)
(* refund, and only once (claimForGateway).                                 *)
THEOREM GatewayAskedOnce == Spec => []AskedOnce
  BY Invariance, PTL DEF IInv, Inv

-----------------------------------------------------------------------------
(* The money: what planning hands out and what is paid for it.              *)

(* The slots a reason's first attempts have up to the k-th.                 *)
Slots(reason, k) == {<<reason, x, 1>> : x \in 1 .. k}

(* What planning adds to each row's amount.                                 *)
Added(reason, capacity, amount) ==
    [r \in Refunds |-> IF r[1] = reason /\ r[3] = 1 THEN Share(capacity, amount, r[2]) ELSE 0]

LEMMA AddedType ==
    ASSUME NEW reason, NEW capacity \in [Payments -> Nat], NEW amount \in Nat
    PROVE  \A r \in Refunds : Added(reason, capacity, amount)[r] \in Nat
<1> SUFFICES ASSUME NEW r \in Refunds PROVE Share(capacity, amount, r[2]) \in Nat
  BY DEF Added
<1>1. r[2] \in 1 .. Rest
  BY DEF Refunds
<1>2. r[2] # Rest => capacity[r[2]] \in Nat
  BY <1>1, Lengths
<1> QED
  BY <1>1, <1>2 DEF Share, Positive, Smaller

LEMMA OneMoreSlot ==
    ASSUME NEW reason \in Notes \cup {Void}, NEW k \in 1 .. Rest
    PROVE  /\ Slots(reason, k) = Slots(reason, k - 1) \cup {<<reason, k, 1>>}
           /\ <<reason, k, 1>> \notin Slots(reason, k - 1)
           /\ Slots(reason, k) \subseteq Refunds /\ Slots(reason, k - 1) \subseteq Refunds
           /\ Slots(reason, 0) = {}
<1>1. /\ 1 .. k \subseteq 1 .. Rest /\ 1 .. k = (1 .. k - 1) \cup {k} /\ k \notin 1 .. k - 1
      /\ 1 .. 0 = {}
  BY Lengths
<1> QED
  BY <1>1 DEF Slots, Refunds

(* The payments up to the k-th take what they can of the amount.            *)
LEMMA SharesOfPayments ==
    ASSUME NEW reason \in Notes \cup {Void}, NEW capacity \in [Payments -> Nat], NEW amount \in Nat,
           NEW k \in 0 .. Rest - 1
    PROVE  SumOver(Added(reason, capacity, amount), Slots(reason, k))
             = Smaller(amount, SumOver(capacity, 1 .. k))
<1> DEFINE add == Added(reason, capacity, amount)
           Fit(j) == SumOver(add, Slots(reason, j)) = Smaller(amount, SumOver(capacity, 1 .. j))
           Bad == {j \in 0 .. Rest - 1 : ~ Fit(j)}
<1> SUFFICES ASSUME Bad # {} PROVE FALSE
  OBVIOUS
<1>1. PICK j \in Bad : \A i \in Bad : j <= i
  <2>1. Bad \in SUBSET (0 .. Rest - 1) /\ Rest - 1 \in Nat
    BY Lengths
  <2> HIDE DEF Bad
  <2> QED
    BY <2>1, SmallestNumber
<1>2. j # 0
  <2>1. 1 .. 0 = {} /\ SumOver(capacity, {}) = 0 /\ SumOver(add, {}) = 0
    BY SumEmpty
  <2>2. Slots(reason, 0) = {}
    BY <2>1 DEF Slots
  <2>3. Smaller(amount, 0) = 0
    BY DEF Smaller
  <2>4. Fit(0)
    BY <2>1, <2>2, <2>3, Zenon
  <2> QED
    BY <2>4, <1>1
<1>3. j \in Nat /\ j > 0 /\ j \in 1 .. Rest - 1 /\ j \in 1 .. Rest /\ Fit(j - 1)
  BY <1>1, <1>2, Lengths
<1> DEFINE slot == <<reason, j, 1>>
           taken == SumOver(capacity, 1 .. j - 1)
<1>4. /\ Slots(reason, j) = Slots(reason, j - 1) \cup {slot} /\ slot \notin Slots(reason, j - 1)
      /\ Slots(reason, j) \subseteq Refunds /\ Slots(reason, j - 1) \subseteq Refunds
  BY <1>3, OneMoreSlot
<1>5. 1 .. j \subseteq Payments /\ j \in Payments /\ 1 .. j - 1 \subseteq Payments
  BY <1>3, Lengths
<1>6. taken \in Nat
  BY <1>5, RefundsAreFinite, SumNat, FS_Subset
<1>7. SumOver(capacity, 1 .. j) = capacity[j] + taken
  <2>1. IsFiniteSet(1 .. j - 1) /\ j \notin 1 .. j - 1 /\ (1 .. j - 1) \cup {j} = 1 .. j
    BY <1>3, OneMore
  <2>2. \A i \in (1 .. j - 1) \cup {j} : capacity[i] \in Int
    BY <1>5
  <2>3. SumOver(capacity, (1 .. j - 1) \cup {j}) = capacity[j] + SumOver(capacity, 1 .. j - 1)
    BY <2>1, <2>2, SumWith
  <2> QED
    BY <2>1, <2>3
<1>8. add[slot] = Smaller(capacity[j], Positive(amount - taken))
  <2>1. slot \in Refunds /\ slot[1] = reason /\ slot[2] = j /\ slot[3] = 1
    BY <1>4
  <2> HIDE DEF slot
  <2>2. add[slot] = Share(capacity, amount, j)
    BY <2>1 DEF Added
  <2>3. j # Rest
    BY <1>3, Lengths
  <2> QED
    BY <2>2, <2>3 DEF Share, Before, SumOver
<1>9. SumOver(add, Slots(reason, j)) = add[slot] + SumOver(add, Slots(reason, j - 1))
  <2>1. IsFiniteSet(Slots(reason, j - 1))
    BY <1>4, RefundsAreFinite, FS_Subset
  <2>2. \A r \in Refunds : add[r] \in Int
    BY AddedType
  <2>3. \A r \in Slots(reason, j - 1) \cup {slot} : add[r] \in Int
    BY <1>4, <2>2
  <2>4. SumOver(add, Slots(reason, j - 1) \cup {slot}) = add[slot] + SumOver(add, Slots(reason, j - 1))
    BY <1>4, <2>1, <2>3, SumWith
  <2> QED
    BY <1>4, <2>4
<1>10. capacity[j] \in Nat
  BY <1>5
<1>11. Fit(j)
  <2> HIDE DEF add, taken, slot
  <2>1. SumOver(add, Slots(reason, j)) = Smaller(capacity[j], Positive(amount - taken)) + Smaller(amount, taken)
    BY <1>3, <1>8, <1>9 DEF taken
  <2>2. SumOver(capacity, 1 .. j) = capacity[j] + taken
    BY <1>7
  <2> QED
    BY <2>1, <2>2, <1>6, <1>10 DEF Smaller, Positive
<1> QED
  BY <1>1, <1>11

(* What no payment can take is taken by the last slot: planning adds        *)
(* exactly the amount it was asked to plan.                                 *)
LEMMA SharesAddUp ==
    ASSUME NEW reason \in Notes \cup {Void}, NEW capacity \in [Payments -> Nat], NEW amount \in Nat
    PROVE  SumOver(Added(reason, capacity, amount), Refunds) = amount
<1> DEFINE add == Added(reason, capacity, amount)
           slot == <<reason, Rest, 1>>
           taken == SumOver(capacity, Payments)
           Slot == Slots(reason, Rest)
           Most == Slots(reason, Rest - 1)
<1>1. \A r \in Refunds : add[r] \in Nat
  BY AddedType
<1>2. Slot = Most \cup {slot} /\ slot \notin Most /\ Slot \subseteq Refunds /\ Most \subseteq Refunds
  BY Lengths, OneMoreSlot
<1>3. taken \in Nat
  BY RefundsAreFinite, SumNat
<1>4. SumOver(add, Most) = Smaller(amount, taken)
  <2>1. Rest - 1 \in 0 .. Rest - 1 /\ 1 .. Rest - 1 = Payments
    BY Lengths
  <2>2. SumOver(add, Most) = Smaller(amount, SumOver(capacity, 1 .. Rest - 1))
    BY <2>1, SharesOfPayments
  <2> QED
    BY <2>1, <2>2
<1>5. add[slot] = Positive(amount - taken)
  <2>1. slot \in Refunds /\ slot[1] = reason /\ slot[2] = Rest /\ slot[3] = 1
    BY <1>2
  <2> HIDE DEF slot
  <2>2. add[slot] = Share(capacity, amount, Rest)
    BY <2>1 DEF Added
  <2> QED
    BY <2>2, Lengths DEF Share, Before, SumOver
<1>6. SumOver(add, Slot) = add[slot] + SumOver(add, Most)
  <2>1. IsFiniteSet(Most) /\ \A r \in Most \cup {slot} : add[r] \in Int
    BY <1>1, <1>2, RefundsAreFinite, FS_Subset
  <2> HIDE DEF add, Most, slot, Slot
  <2> QED
    BY <2>1, <1>2, SumWith
<1>7. \A r \in Refunds \ Slot : add[r] = 0
  <2>1. ASSUME NEW r \in Refunds, r[1] = reason, r[3] = 1 PROVE r \in Slot
    BY <2>1, Lengths DEF Slots, Refunds
  <2> QED
    BY <2>1 DEF Added
<1>8. SumOver(add, Refunds) = SumOver(add, Slot)
  <2> HIDE DEF add, Slot
  <2>1. /\ IsFiniteSet(Slot) /\ IsFiniteSet(Refunds \ Slot) /\ Slot \cap (Refunds \ Slot) = {}
        /\ Slot \cup (Refunds \ Slot) = Refunds
    BY <1>2, RefundsAreFinite, FS_Subset
  <2>2. \A r \in Slot \cup (Refunds \ Slot) : add[r] \in Int
    BY <1>1, <2>1
  <2>3. SumOver(add, Slot \cup (Refunds \ Slot)) = SumOver(add, Slot) + SumOver(add, Refunds \ Slot)
    BY <2>1, <2>2, SumUnion
  <2>4. SumOver(add, Refunds \ Slot) = 0
    BY <1>7, <2>1, SumZero
  <2>5. SumOver(add, Slot) \in Int
    BY <2>1, <2>2, SumType
  <2>6. SumOver(add, Slot \cup (Refunds \ Slot)) = SumOver(add, Refunds)
    BY <2>1, Zenon
  <2> QED
    BY <2>3, <2>4, <2>5, <2>6
<1> HIDE DEF add, taken, Slot, Most, slot
<1>9. SumOver(add, Slot) = amount
  BY <1>3, <1>4, <1>5, <1>6 DEF Positive, Smaller
<1> QED
  BY <1>8, <1>9 DEF add

-----------------------------------------------------------------------------
(* The rest of TypeOK.                                                      *)
OtherTypes ==
    /\ unreported \subseteq received /\ received \subseteq Payments
    /\ copy \in [Payments -> Invoices \cup {None}]
    /\ lock \in Procs \cup {None}
    /\ settled \in [Procs -> [Payments -> Nat]]
    /\ promised \in Nat /\ overtaken \in BOOLEAN

MoneyTypes == invoice \in Invoices /\ OtherTypes

USE DEF Invoices

(* A fallback is minted for a gateway row that has failed and stays failed, *)
(* over the same amount.                                                    *)
Replacing ==
    /\ \A r \in Refunds :
        /\ rows[r].status = "none" => rows[r].amount = 0
        /\ rows[r].status = "FAILED" => rows[r].destination = "GATEWAY"
        /\ Replaced(r) => /\ rows[r].status = "FAILED"
                          /\ rows[Fallback(r)].amount = rows[r].amount
    /\ \A p \in Procs : pc[p] = "fallback" => rows[at[p]].status = "FAILED"

(* A wallet row asks no gateway, a gateway row puts nothing into a wallet.  *)
PaidByOne ==
    \A r \in Refunds : IF rows[r].destination = "WALLET" THEN gateway[r] = "none"
                                                       ELSE credited[r] = 0

(* The amounts of the notes that count, as a sum over all of them.          *)
Counted(type) ==
    [n \in Notes |-> IF notes[n].status = "FINALIZED" /\ notes[n].type = type
                     THEN notes[n].amount ELSE 0]

(* As long as no old copy was written over it, the invoice has the amounts  *)
(* of its finalized credit notes, it has promised what it says is refunded, *)
(* and a note that is being committed is covered by what was paid.          *)
InvoiceAddsUp ==
    /\ invoice.refunded = promised
    /\ invoice.refunded <= invoice.paid + Prepaid
    /\ invoice.status = "FINALIZED" =>
          /\ invoice.refunded = SumOver(Counted("REFUND"), Notes)
          /\ invoice.adjusted = SumOver(Counted("ADJUSTMENT"), Notes)
    /\ \A p \in Procs : pc[p] = "plan" /\ plan[p] \in Notes =>
          invoice.refunded + notes[plan[p]].amount <= invoice.paid

NotesAddUp ==
    /\ \A n \in Notes : notes[n].status # "none" => notes[n].amount > 0
    /\ ~overtaken => InvoiceAddsUp

(* What a row is for: nothing any more once its fallback has replaced it.   *)
Due == [r \in Refunds |-> IF Replaced(r) THEN 0 ELSE rows[r].amount]

DueAddsUp == promised = SumOver(Due, Refunds)

Money == MoneyTypes /\ Replacing /\ PaidByOne /\ NotesAddUp /\ DueAddsUp

(* What a step leaves of a row it only works on.                            *)
RowKept(r) ==
    /\ rows'[r].amount = rows[r].amount /\ rows'[r].destination = rows[r].destination
    /\ rows'[r].status = "none" <=> rows[r].status = "none"
    /\ rows[r].status = "FAILED" => rows'[r].status = "FAILED"
    /\ rows'[r].status = "FAILED" => rows[r].destination = "GATEWAY"

LEMMA RowTypes ==
    ASSUME Types
    PROVE  /\ \A r \in Refunds : rows[r].amount \in Nat
           /\ \A r \in Refunds : rows[r].destination \in {"WALLET", "GATEWAY"}
           /\ \A r \in Refunds : Due[r] \in Nat
  BY DEF Types, Rows, Due

LEMMA PlannedIsDue ==
    ASSUME Types
    PROVE  PromisedIsDue <=> DueAddsUp
<1> DEFINE T == {s \in Refunds : ~Replaced(s)}
           h == [r \in T |-> rows[r].amount]
<1>1. \A r \in T : h[r] = Due[r] /\ Due[r] \in Int
  BY RowTypes DEF Due
<1>2. \A r \in Refunds \ T : Due[r] = 0
  BY DEF Due
<1>3. DOMAIN h = T /\ T \in SUBSET Refunds
  OBVIOUS
<1>4. FoldFunction(+, 0, h) = SumOver(Due, Refunds)
  <2>1. SumOver(h, T) = SumOver(Due, Refunds)
    <3> HIDE DEF h, T
    <3> QED
      BY <1>1, <1>2, <1>3, RefundsAreFinite, SumOverPart
  <2>2. FoldFunction(+, 0, h) = SumOver(h, DOMAIN h)
    BY FunSum
  <2> HIDE DEF h, T
  <2> QED
    BY <1>3, <2>1, <2>2, Zenon
<1> QED
  BY <1>4 DEF PromisedIsDue, DueInTotal, DueAddsUp

LEMMA CountedSum ==
    ASSUME Types, NEW type
    PROVE  FinalizedSum(type) = SumOver(Counted(type), Notes)
<1> DEFINE T == {n \in Notes : notes[n].status = "FINALIZED" /\ notes[n].type = type}
           h == [n \in T |-> notes[n].amount]
<1>1. FinalizedSum(type) = FoldFunction(+, 0, h)
  BY DEF FinalizedSum
<1>2. \A n \in T : h[n] = Counted(type)[n] /\ Counted(type)[n] \in Int
  BY DEF Counted, Types
<1>3. \A n \in Notes \ T : Counted(type)[n] = 0
  BY DEF Counted
<1>4. DOMAIN h = T /\ T \in SUBSET Notes
  OBVIOUS
<1>5. FoldFunction(+, 0, h) = SumOver(Counted(type), Notes)
  <2>1. SumOver(h, T) = SumOver(Counted(type), Notes)
    <3> HIDE DEF h, T
    <3> QED
      BY <1>2, <1>3, <1>4, RefundConstants, SumOverPart
  <2>2. FoldFunction(+, 0, h) = SumOver(h, DOMAIN h)
    BY FunSum
  <2> HIDE DEF h, T
  <2> QED
    BY <1>4, <2>1, <2>2, Zenon
<1> QED
  BY <1>1, <1>5

-----------------------------------------------------------------------------
(* Steps that only work on rows.                                            *)

LEMMA KeptRowsKeepDue ==
    ASSUME \A r \in Refunds : RowKept(r)
    PROVE  /\ Due' = Due
           /\ \A r \in Refunds : Replaced(r)' <=> Replaced(r)
<1>1. \A r \in Refunds : Replaced(r)' <=> Replaced(r)
  BY KeySpace DEF Replaced, RowKept
<1>2. \A r \in Refunds : rows'[r].amount = rows[r].amount
  BY DEF RowKept
<1> QED
  BY <1>1, <1>2 DEF Due

LEMMA SameInvoice ==
    ASSUME Money, MoneyTypes', \A r \in Refunds : RowKept(r), UNCHANGED <<invoice, notes, history>>,
           \A r \in Refunds : IF rows[r].destination = "WALLET" THEN gateway'[r] = gateway[r]
                                                                ELSE credited'[r] = credited[r],
           \A q \in Procs : /\ pc'[q] = "plan" => pc[q] = "plan" /\ plan'[q] = plan[q]
                            /\ pc'[q] = "fallback" => rows'[at'[q]].status = "FAILED"
    PROVE  Money'
<1>2. Replacing'
  <2>1. \A r \in Refunds :
        /\ rows'[r].status = "none" => rows'[r].amount = 0
        /\ rows'[r].status = "FAILED" => rows'[r].destination = "GATEWAY"
    BY DEF RowKept, Money, Replacing
  <2>2. ASSUME NEW r \in Refunds, Replaced(r)'
        PROVE  rows'[r].status = "FAILED" /\ rows'[Fallback(r)].amount = rows'[r].amount
    <3>1. Replaced(r) /\ Fallback(r) \in Refunds
      BY <2>2, KeptRowsKeepDue, KeySpace
    <3>2. rows[r].status = "FAILED" /\ rows[Fallback(r)].amount = rows[r].amount
      BY <3>1 DEF Money, Replacing
    <3> QED
      BY <3>1, <3>2 DEF RowKept
  <2>3. \A r \in Refunds : Fallback(r)' = Fallback(r)
    BY DEF Fallback
  <2> QED
    BY <2>1, <2>2, <2>3 DEF Replacing
<1>3. PaidByOne'
  BY DEF RowKept, Money, PaidByOne
<1>4. NotesAddUp'
  BY DEF Money, NotesAddUp, InvoiceAddsUp, Counted, history
<1>5. DueAddsUp'
  BY KeptRowsKeepDue DEF Money, DueAddsUp, history
<1> QED
  BY <1>2, <1>3, <1>4, <1>5 DEF Money

LEMMA QuietStep ==
    ASSUME Money, \A r \in Refunds : RowKept(r), UNCHANGED ledger,
           \A r \in Refunds : IF rows[r].destination = "WALLET" THEN gateway'[r] = gateway[r]
                                                                ELSE credited'[r] = credited[r],
           \A q \in Procs : /\ pc'[q] = "plan" => pc[q] = "plan" /\ plan'[q] = plan[q]
                            /\ pc'[q] = "fallback" => rows'[at'[q]].status = "FAILED",
           lock' \in Procs \cup {None}, settled' \in [Procs -> [Payments -> Nat]]
    PROVE  Money'
<1>1. UNCHANGED <<invoice, notes, history>>
  BY DEF ledger
<1>2. MoneyTypes'
  BY DEF Money, MoneyTypes, OtherTypes, ledger, reports, history
<1> QED
  BY <1>1, <1>2, SameInvoice

LEMMA NoRowTouched ==
    ASSUME Money, UNCHANGED rows
    PROVE  \A r \in Refunds : RowKept(r)
  BY DEF RowKept, Money, Replacing

LEMMA RowMoves ==
    ASSUME Types, Money, NEW s \in Refunds,
           \A r \in Refunds \ {s} : rows'[r] = rows[r],
           rows'[s].amount = rows[s].amount, rows'[s].destination = rows[s].destination,
           rows'[s].status # "none", rows[s].status \notin {"none", "FAILED"},
           rows'[s].status = "FAILED" => rows[s].destination = "GATEWAY"
    PROVE  \A r \in Refunds : RowKept(r)
  BY DEF RowKept, Money, Replacing

LEMMA StatusMoves ==
    ASSUME Types, Money, NEW s \in Refunds, NEW status \in RefundStatus,
           rows' = [rows EXCEPT ![s].status = status],
           rows[s].status \notin {"none", "FAILED"},
           status = "FAILED" => rows[s].destination = "GATEWAY"
    PROVE  \A r \in Refunds : RowKept(r)
<1>1. /\ rows'[s].amount = rows[s].amount /\ rows'[s].destination = rows[s].destination
      /\ rows'[s].status = status /\ \A r \in Refunds \ {s} : rows'[r] = rows[r]
  BY DEF Types, Rows
<1> QED
  BY <1>1, RowMoves DEF RefundStatus

LEMMA SettledTypes ==
    ASSUME Money, NEW p \in Procs, Forget(p)
    PROVE  /\ settled' \in [Procs -> [Payments -> Nat]]
           /\ \A q \in Procs \ {p} : plan'[q] = plan[q]
  BY DEF Money, MoneyTypes, OtherTypes, Forget

LEMMA LeavingIsQuiet ==
    ASSUME IInv, Money, NEW p \in Procs, Leave(p)
    PROVE  \A q \in Procs : pc'[q] \in {"plan", "fallback"} => pc[q] = pc'[q] /\ q # p /\ at'[q] = at[q]
  BY Leaving DEF IInv

LEMMA WorkKeepsMoney ==
    ASSUME IInv, Money, NEW p \in Procs,
           \/ Dispatch(p)
           \/ SettleToWallet(p)
           \/ NotSupported(p)
           \/ ClaimForGateway(p)
           \/ RefundPayment(p)
           \/ RecordGatewayAcceptance(p)
           \/ Settle(p)
           \/ Fail(p)
           \/ Fails(p)
           \/ Crash(p)
    PROVE  Money'
<1> USE DEF Goto, ledger, outside
<1>0. /\ lock \in Procs \cup {None} /\ settled \in [Procs -> [Payments -> Nat]]
      /\ \A q \in Procs : pc[q] = "fallback" => rows[at[q]].status = "FAILED"
      /\ Types
  BY DEF Money, MoneyTypes, OtherTypes, Replacing, IInv
<1>1. CASE Dispatch(p)
  <2>1. UNCHANGED <<ledger, rows, outside, lock, plan, settled>>
    BY <1>1 DEF Dispatch
  <2>2. \A q \in Procs : pc'[q] \in {"plan", "fallback"} => pc[q] = pc'[q] /\ at'[q] = at[q]
    BY <1>0, <1>1 DEF Dispatch, Types
  <2> QED
    BY <1>0, <2>1, <2>2, NoRowTouched, QuietStep
<1>2. CASE SettleToWallet(p)
  <2>1. at[p] \in Refunds /\ rows[at[p]].destination = "WALLET"
    BY <1>2, AtARow DEF SettleToWallet, IInv, Inv, AtWork
  <2>2. \A r \in Refunds : RowKept(r)
    <3>1. CASE MaySettle(at[p])
      BY <1>0, <1>2, <2>1, <3>1, StatusMoves DEF SettleToWallet, MaySettle, Open, RefundStatus
    <3>2. CASE ~MaySettle(at[p])
      BY <1>2, <3>2, NoRowTouched DEF SettleToWallet
    <3> QED
      BY <3>1, <3>2
  <2>3. \A r \in Refunds \ {at[p]} : credited'[r] = credited[r]
    BY <1>0, <1>2, <2>1 DEF SettleToWallet, Types
  <2>4. Leave(p) /\ UNCHANGED <<ledger, gateway, lock, plan, settled>>
    BY <1>2 DEF SettleToWallet
  <2>5. \A q \in Procs \ {p} : pc[q] = "fallback" => rows'[at[q]].status = "FAILED"
    BY <1>0, <2>2, AtARow DEF RowKept
  <2> QED
    BY <1>0, <2>1, <2>2, <2>3, <2>4, <2>5, LeavingIsQuiet, QuietStep
<1>3. CASE NotSupported(p)
  <2>1. UNCHANGED <<ledger, rows, outside, lock, plan, settled>>
    BY <1>3 DEF NotSupported
  <2>2. \A q \in Procs : pc'[q] \in {"plan", "fallback"} => pc[q] = pc'[q] /\ at'[q] = at[q]
    BY <1>0, <1>3 DEF NotSupported, Types
  <2> QED
    BY <1>0, <2>1, <2>2, NoRowTouched, QuietStep
<1>4. CASE ClaimForGateway(p)
  <2>1. at[p] \in Refunds
    BY <1>4, AtARow DEF ClaimForGateway
  <2>2. \A r \in Refunds : RowKept(r)
    <3>1. CASE Claimable(at[p])
      BY <1>0, <1>4, <2>1, <3>1, StatusMoves DEF ClaimForGateway, Claimable, RefundStatus
    <3>2. CASE ~Claimable(at[p])
      BY <1>4, <3>2, NoRowTouched DEF ClaimForGateway
    <3> QED
      BY <3>1, <3>2
  <2>3. UNCHANGED <<ledger, outside, lock, plan, settled>>
    BY <1>4 DEF ClaimForGateway
  <2>4. \A q \in Procs : pc'[q] \in {"plan", "fallback"} => pc[q] = pc'[q] /\ at'[q] = at[q]
    <3>1. CASE Claimable(at[p])
      BY <1>0, <1>4, <3>1 DEF ClaimForGateway, Types
    <3>2. CASE ~Claimable(at[p])
      BY <1>4, <3>2, LeavingIsQuiet DEF ClaimForGateway
    <3> QED
      BY <3>1, <3>2
  <2>5. \A q \in Procs : pc[q] = "fallback" => rows'[at[q]].status = "FAILED"
    BY <1>0, <2>2, AtARow DEF RowKept
  <2> QED
    BY <1>0, <2>2, <2>3, <2>4, <2>5, QuietStep
<1>5. CASE RefundPayment(p)
  <2>1. at[p] \in Refunds /\ rows[at[p]].destination = "GATEWAY"
    BY <1>5, AtARow DEF RefundPayment, IInv, Inv, AtWork
  <2>2. PICK answer \in Answers : /\ gateway' = [gateway EXCEPT ![at[p]] = answer.does]
                                  /\ pc' = [pc EXCEPT ![p] = answer.next]
    BY <1>5 DEF RefundPayment
  <2>3. answer.next \in {"settle", "fail", "accept"}
    BY DEF Answers
  <2>4. UNCHANGED <<ledger, rows, credited, lock, plan, settled, at>>
    BY <1>5 DEF RefundPayment
  <2>5. \A q \in Procs : pc'[q] \in {"plan", "fallback"} => pc[q] = pc'[q]
    BY <1>0, <2>2, <2>3 DEF Types
  <2>6. \A r \in Refunds : rows[r].destination = "WALLET" => gateway'[r] = gateway[r]
    BY <1>0, <2>1, <2>2 DEF Types
  <2> QED
    BY <1>0, <2>4, <2>5, <2>6, NoRowTouched, QuietStep
<1>6. CASE RecordGatewayAcceptance(p)
  <2>1. at[p] \in Refunds
    BY <1>6, AtARow DEF RecordGatewayAcceptance
  <2>2. rows' = [rows EXCEPT ![at[p]].known = @ \/ rows[at[p]].status \in Open]
    BY <1>6 DEF RecordGatewayAcceptance
  <2>3. \A r \in Refunds : /\ rows'[r].destination = rows[r].destination
                           /\ rows'[r].amount = rows[r].amount
                           /\ rows'[r].status = rows[r].status
    BY <1>0, <2>1, <2>2 DEF Types, Rows
  <2>4. \A r \in Refunds : RowKept(r)
    BY <2>3 DEF RowKept, Money, Replacing
  <2>5. Leave(p) /\ UNCHANGED <<ledger, outside, lock, plan, settled>>
    BY <1>6 DEF RecordGatewayAcceptance
  <2>6. \A q \in Procs : pc[q] = "fallback" => rows'[at[q]].status = "FAILED"
    BY <1>0, <2>4, AtARow DEF RowKept
  <2> QED
    BY <1>0, <2>4, <2>5, <2>6, LeavingIsQuiet, QuietStep
<1>7. CASE Settle(p)
  <2>1. at[p] \in Refunds
    BY <1>7, AtARow DEF Settle
  <2>2. \A r \in Refunds : RowKept(r)
    <3>1. CASE MaySettle(at[p])
      <4>1. rows' = [rows EXCEPT ![at[p]].status = "SUCCEEDED", ![at[p]].known = TRUE]
        BY <1>7, <3>1 DEF Settle
      <4>2. /\ rows'[at[p]].amount = rows[at[p]].amount /\ rows'[at[p]].status = "SUCCEEDED"
            /\ rows'[at[p]].destination = rows[at[p]].destination
            /\ \A r \in Refunds \ {at[p]} : rows'[r] = rows[r]
        BY <1>0, <2>1, <4>1 DEF Types, Rows
      <4> QED
        BY <1>0, <2>1, <3>1, <4>2, RowMoves DEF MaySettle, Open
    <3>2. CASE ~MaySettle(at[p])
      BY <1>7, <3>2, NoRowTouched DEF Settle
    <3> QED
      BY <3>1, <3>2
  <2>3. Leave(p) /\ UNCHANGED <<ledger, outside, lock, plan, settled>>
    BY <1>7 DEF Settle
  <2>4. \A q \in Procs : pc[q] = "fallback" => rows'[at[q]].status = "FAILED"
    BY <1>0, <2>2, AtARow DEF RowKept
  <2> QED
    BY <1>0, <2>2, <2>3, <2>4, LeavingIsQuiet, QuietStep
<1>8. CASE Fail(p)
  <2>1. at[p] \in Refunds /\ rows[at[p]].destination = "GATEWAY"
    BY <1>8, AtARow DEF Fail, IInv, Inv, AtWork
  <2>2. UNCHANGED <<ledger, outside, lock, plan, settled>>
    BY <1>8 DEF Fail
  <2>3. CASE MayFail(at[p])
    <3>1. /\ rows' = [rows EXCEPT ![at[p]].status = "FAILED"]
          /\ pc' = [pc EXCEPT ![p] = "fallback"] /\ UNCHANGED at
      BY <1>8, <2>3 DEF Fail
    <3>2. \A r \in Refunds : RowKept(r)
      BY <1>0, <2>1, <2>3, <3>1, StatusMoves DEF MayFail, Open, RefundStatus
    <3>3. rows'[at[p]].status = "FAILED"
      BY <1>0, <2>1, <3>1 DEF Types, Rows
    <3>4. \A q \in Procs : pc'[q] = "fallback" => rows'[at'[q]].status = "FAILED"
      BY <1>0, <3>1, <3>2, <3>3, AtARow DEF RowKept, Types
    <3>5. \A q \in Procs : pc'[q] = "plan" => pc[q] = "plan"
      BY <1>0, <3>1 DEF Types
    <3> QED
      BY <1>0, <2>2, <3>2, <3>4, <3>5, QuietStep
  <2>4. CASE ~MayFail(at[p])
    <3>1. Leave(p) /\ UNCHANGED rows
      BY <1>8, <2>4 DEF Fail
    <3> QED
      BY <1>0, <2>2, <3>1, NoRowTouched, LeavingIsQuiet, QuietStep
  <2> QED
    BY <2>3, <2>4
<1>9. CASE Fails(p)
  <2>1. Leave(p) /\ UNCHANGED <<ledger, rows, outside, lock, plan, settled>>
    BY <1>9 DEF Fails
  <2> QED
    BY <1>0, <2>1, NoRowTouched, LeavingIsQuiet, QuietStep
<1>10. CASE Crash(p)
  <2>1. /\ pc' = [pc EXCEPT ![p] = "idle"] /\ at' = [at EXCEPT ![p] = None] /\ Forget(p)
        /\ lock' \in {lock, None} /\ UNCHANGED <<ledger, rows, outside>>
    BY <1>10 DEF Crash
  <2>2. \A q \in Procs : pc'[q] \in {"plan", "fallback"} => pc[q] = pc'[q] /\ at'[q] = at[q] /\ q # p
    BY <1>0, <2>1 DEF Types
  <2>3. lock' \in Procs \cup {None}
    BY <1>0, <2>1
  <2> QED
    BY <1>0, <2>1, <2>2, <2>3, SettledTypes, NoRowTouched, QuietStep
<1> QED
  BY <1>1, <1>2, <1>3, <1>4, <1>5, <1>6, <1>7, <1>8, <1>9, <1>10

LEMMA StartKeepsMoney ==
    ASSUME IInv, Money, NEW p \in Procs, NEW r \in Refunds, RetryRefund(p, r) \/ Webhook(p, r)
    PROVE  Money'
<1> USE DEF Goto, ledger, outside
<1>0. /\ lock \in Procs \cup {None} /\ settled \in [Procs -> [Payments -> Nat]]
      /\ \A q \in Procs : pc[q] = "fallback" => rows[at[q]].status = "FAILED"
      /\ Types
  BY DEF Money, MoneyTypes, OtherTypes, Replacing, IInv
<1>1. UNCHANGED <<ledger, rows, outside, lock, plan, settled>>
  BY DEF RetryRefund, Webhook, StartWith
<1>2. PICK label : /\ label # "plan" /\ (label = "fallback" => rows[r].status = "FAILED")
                   /\ pc' = [pc EXCEPT ![p] = label] /\ at' = [at EXCEPT ![p] = r]
  BY DEF RetryRefund, Webhook, StartWith
<1>3. \A q \in Procs : /\ pc'[q] = "plan" => pc[q] = "plan"
                       /\ pc'[q] = "fallback" => rows'[at'[q]].status = "FAILED"
  BY <1>0, <1>1, <1>2 DEF Types
<1> QED
  BY <1>0, <1>1, <1>3, NoRowTouched, QuietStep

LEMMA DecisionKeepsMoney ==
    ASSUME IInv, Money, NEW r \in Refunds, GatewayDecides(r)
    PROVE  Money'
<1>0. /\ lock \in Procs \cup {None} /\ settled \in [Procs -> [Payments -> Nat]]
      /\ \A q \in Procs : pc[q] = "fallback" => rows[at[q]].status = "FAILED"
      /\ Types
  BY DEF Money, MoneyTypes, OtherTypes, Replacing, IInv
<1>1. UNCHANGED <<ledger, rows, credited, lock, pc, plan, settled, at>>
  BY DEF GatewayDecides
<1>2. rows[r].destination = "GATEWAY"
  BY RowTypes, <1>0 DEF Money, PaidByOne, GatewayDecides
<1>3. \A s \in Refunds : rows[s].destination = "WALLET" => gateway'[s] = gateway[s]
  BY <1>0, <1>2 DEF GatewayDecides, Types
<1> QED
  BY <1>0, <1>1, <1>3, NoRowTouched, QuietStep

(* The fallback takes over the amount of the row it replaces.               *)
LEMMA FallbackKeepsMoney ==
    ASSUME IInv, Money, NEW p \in Procs, RefundToWallet(p)
    PROVE  Money'
<1>0. at[p] \in Refunds /\ Fallback(at[p]) \in Refunds
  BY AtARow, KeySpace DEF RefundToWallet
<1> PICK r \in Refunds, b \in Refunds : r = at[p] /\ b = Fallback(at[p])
  BY <1>0
<1>1. /\ r \in Refunds /\ pc[p] = "fallback" /\ rows[r].status = "FAILED"
      /\ rows[r].destination = "GATEWAY"
  BY AtARow DEF RefundToWallet, Money, Replacing
<1>2. r[3] = 1 /\ b \in Refunds /\ b[3] = 2 /\ r # b
  <2>1. r[3] # 2
    BY <1>1 DEF IInv, Inv, AskedAfterClaim
  <2> QED
    BY <1>1, <2>1, KeySpace
<1>3. Types /\ rows[r].amount \in Nat
  BY <1>1, RowTypes DEF IInv
<1>4. /\ UNCHANGED <<ledger, outside, lock, plan, settled>>
      /\ pc' = [pc EXCEPT ![p] = "wallet"] /\ at' = [at EXCEPT ![p] = b]
  BY DEF RefundToWallet, Goto
<1>5. \A q \in Procs : pc'[q] \in {"plan", "fallback"} => pc[q] = pc'[q] /\ at'[q] = at[q] /\ q # p
  BY <1>3, <1>4 DEF Types
<1>6. CASE ~NotReplaced(r)
  <2>1. UNCHANGED rows
    BY <1>6 DEF RefundToWallet
  <2>2. \A q \in Procs : pc'[q] = "fallback" => rows'[at'[q]].status = "FAILED"
    BY <1>5, <2>1 DEF Money, Replacing
  <2> QED
    BY <1>4, <1>5, <2>1, <2>2, NoRowTouched, QuietStep DEF outside, Money, MoneyTypes, OtherTypes
<1>7. CASE NotReplaced(r)
  <2>1. rows' = [rows EXCEPT ![b] = NewRow(rows[r].amount, "WALLET")] /\ rows[b].status = "none"
    BY <1>7 DEF RefundToWallet, NotReplaced
  <2>2. /\ rows'[b].status = "PENDING" /\ rows'[b].amount = rows[r].amount
        /\ rows'[b].destination = "WALLET" /\ \A s \in Refunds \ {b} : rows'[s] = rows[s]
    BY <1>2, <1>3, <2>1 DEF NewRow, Types
  <2>3. rows[b].amount = 0 /\ ~Replaced(r) /\ gateway[b] = "none"
    BY <1>2, <2>1 DEF Money, Replacing, Replaced, IInv, Inv, AskedAfterClaim
  <2>4. b = Fallback(r) /\ \A s \in Refunds : s[3] = 1 /\ Fallback(s) = b => s = r
    BY <1>1, <1>2 DEF Fallback, Refunds
  <2>5. \A s \in Refunds : Fallback(s) \in Refunds
    BY KeySpace
  <2>6. Replaced(r)' /\ \A s \in Refunds \ {r} : Replaced(s)' <=> Replaced(s)
    <3>1. r[3] = 1 /\ rows'[Fallback(r)].status # "none"
      BY <1>2, <2>2, <2>4
    <3>2. \A s \in Refunds \ {r} : s[3] = 1 => Fallback(s) \in Refunds \ {b}
      BY <2>4, <2>5
    <3>3. \A s \in Refunds \ {r} : s[3] = 1 => rows'[Fallback(s)] = rows[Fallback(s)]
      BY <2>2, <3>2
    <3> QED
      BY <3>1, <3>3 DEF Replaced, Fallback
  <2>7. MoneyTypes'
    BY <1>4 DEF Money, MoneyTypes, OtherTypes, ledger, reports, history
  <2>8. Replacing'
    <3>1. \A s \in Refunds :
          /\ rows'[s].status = "none" => rows'[s].amount = 0
          /\ rows'[s].status = "FAILED" => rows'[s].destination = "GATEWAY"
      BY <2>2 DEF Money, Replacing
    <3>2. ASSUME NEW s \in Refunds, Replaced(s)'
          PROVE  rows'[s].status = "FAILED" /\ rows'[Fallback(s)].amount = rows'[s].amount
      <4>1. CASE s = r
        BY <1>1, <1>2, <2>2, <2>4, <4>1
      <4>2. CASE s # r
        <5>1. Replaced(s) /\ rows[s].status = "FAILED" /\ rows[Fallback(s)].amount = rows[s].amount
          BY <2>6, <3>2, <4>2 DEF Money, Replacing
        <5>2. s # b /\ Fallback(s) # b /\ Fallback(s) \in Refunds
          BY <2>1, <2>4, <2>5, <4>2, <5>1 DEF Replaced
        <5> QED
          BY <2>2, <5>1, <5>2
      <4> QED
        BY <4>1, <4>2
    <3>3. \A s \in Refunds : Fallback(s)' = Fallback(s)
      BY DEF Fallback
    <3>4. \A q \in Procs : pc'[q] = "fallback" => rows'[at'[q]].status = "FAILED"
      <4> SUFFICES ASSUME NEW q \in Procs, pc'[q] = "fallback" PROVE rows'[at'[q]].status = "FAILED"
        OBVIOUS
      <4>1. at'[q] = at[q] /\ rows[at[q]].status = "FAILED" /\ at[q] \in Refunds
        BY <1>5, AtARow DEF Money, Replacing
      <4> QED
        BY <4>1, <2>1, <2>2
    <3> QED
      BY <3>1, <3>2, <3>3, <3>4 DEF Replacing
  <2>9. PaidByOne'
    BY <1>4, <2>2, <2>3 DEF Money, PaidByOne, outside
  <2>10. NotesAddUp'
    BY <1>4, <1>5 DEF Money, NotesAddUp, InvoiceAddsUp, Counted, ledger, history
  <2>11. DueAddsUp'
    <3> DEFINE moved == [Due EXCEPT ![r] = 0]
    <3>1. /\ Due[r] = rows[r].amount /\ Due[b] = 0 /\ Due'[r] = 0 /\ Due'[b] = rows[r].amount
          /\ \A s \in Refunds \ {r, b} : Due'[s] = Due[s]
      <4>1. ~Replaced(b) /\ ~Replaced(b)'
        BY <1>2 DEF Replaced
      <4> QED
        BY <1>1, <1>2, <2>2, <2>3, <2>6, <4>1 DEF Due
    <3>2. \A s \in Refunds : Due[s] \in Nat
      BY <1>3, RowTypes
    <3>3. /\ \A s \in Refunds : Due[s] \in Int /\ moved[s] \in Int /\ Due'[s] \in Int
          /\ \A s \in Refunds \ {r} : moved[s] = Due[s]
          /\ \A s \in Refunds \ {b} : Due'[s] = moved[s]
          /\ moved[r] = 0 /\ moved[b] = 0
      <4>1. DOMAIN Due = Refunds
        BY DEF Due
      <4> QED
        BY <1>1, <1>2, <1>3, <3>1, <3>2, <4>1
    <3> HIDE DEF moved
    <3>4. SumOver(moved, Refunds) = SumOver(Due, Refunds) - Due[r] + moved[r]
      BY <1>1, <3>3, RefundsAreFinite, SumUpdate
    <3>5. SumOver(Due', Refunds) = SumOver(moved, Refunds) - moved[b] + Due'[b]
      BY <1>2, <3>3, RefundsAreFinite, SumUpdate
    <3>6. SumOver(Due, Refunds) \in Int
      BY <3>3, RefundsAreFinite, SumType
    <3>7. SumOver(Due', Refunds) = SumOver(Due, Refunds)
      BY <1>3, <3>1, <3>3, <3>4, <3>5, <3>6
    <3> QED
      BY <1>4, <3>7 DEF Money, DueAddsUp, ledger, history
  <2> QED
    BY <2>7, <2>8, <2>9, <2>10, <2>11 DEF Money
<1> QED
  BY <1>6, <1>7

-----------------------------------------------------------------------------
(* Payments and credit notes.                                               *)

LEMMA NobodyPlans ==
    ASSUME IInv, lock = None
    PROVE  \A p \in Procs : pc[p] # "plan"
  BY KeySpace DEF IInv, Inv, PlannedOnce

LEMMA CountedType ==
    ASSUME Types, NEW type
    PROVE  /\ \A n \in Notes : Counted(type)[n] \in Nat
           /\ SumOver(Counted(type), Notes) \in Nat
<1>1. \A n \in Notes : Counted(type)[n] \in Nat
  BY DEF Counted, Types
<1> QED
  BY <1>1, RefundConstants, SumNat

InvoiceStatus == {"FINALIZED", "VOIDED"}
PaymentStatus == {"PENDING", "SUCCEEDED", "OVERPAID", "PARTIALLY_REFUNDED", "REFUNDED"}

LEMMA InvoiceChange ==
    ASSUME invoice' = [status |-> invoice'.status, payment |-> invoice'.payment,
                       paid |-> invoice'.paid, refunded |-> invoice'.refunded,
                       adjusted |-> invoice'.adjusted],
           invoice'.status \in InvoiceStatus, invoice'.payment \in PaymentStatus,
           invoice'.paid \in Nat, invoice'.refunded \in Nat, invoice'.adjusted \in Nat,
           OtherTypes'
    PROVE  MoneyTypes'
  BY DEF MoneyTypes, InvoiceStatus, PaymentStatus

(* A step that leaves the rows and what is promised alone.                  *)
LEMMA LedgerStep ==
    ASSUME IInv, Money, lock = None,
           UNCHANGED <<promised, rows, outside, lock, pc, plan, settled, at>>,
           MoneyTypes',
           \A n \in Notes : notes'[n].status # "none" => notes'[n].amount > 0,
           ~overtaken' =>
              /\ ~overtaken
              /\ invoice'.refunded = invoice.refunded /\ invoice'.paid >= invoice.paid
              /\ invoice'.status = "FINALIZED" =>
                    /\ invoice'.refunded = SumOver(Counted("REFUND")', Notes)
                    /\ invoice'.adjusted = SumOver(Counted("ADJUSTMENT")', Notes)
    PROVE  Money'
<1> USE DEF outside
<1>1. Replacing' /\ PaidByOne'
  BY DEF Money, Replacing, PaidByOne, Replaced, Fallback
<1>2. NotesAddUp'
  <2>1. \A p \in Procs : pc'[p] # "plan"
    BY NobodyPlans
  <2>2. ASSUME ~overtaken' PROVE InvoiceAddsUp'
    <3>1. InvoiceAddsUp
      BY <2>2 DEF Money, NotesAddUp
    <3>2. invoice'.refunded <= invoice'.paid + Prepaid
      BY <2>2, <3>1, RefundConstants DEF Money, MoneyTypes, InvoiceAddsUp
    <3> QED
      BY <2>1, <2>2, <3>1, <3>2 DEF InvoiceAddsUp
  <2> QED
    BY <2>2 DEF NotesAddUp
<1>3. DueAddsUp'
  <2>1. Due' = Due
    BY DEF Due, Replaced, Fallback
  <2> QED
    BY <2>1 DEF Money, DueAddsUp
<1> QED
  BY <1>1, <1>2, <1>3 DEF Money

LEMMA ReportKeepsMoney ==
    ASSUME Money, NEW x \in Payments, PaymentSucceeds(x) \/ ReadInvoice(x)
    PROVE  Money'
<1>1. UNCHANGED <<invoice, notes, history, rows, outside, lock, pc, plan, settled, at>>
  BY DEF PaymentSucceeds, ReadInvoice
<1>2. MoneyTypes'
  <2>1. unreported' \subseteq received' /\ received' \subseteq Payments
    BY DEF PaymentSucceeds, ReadInvoice, Money, MoneyTypes, OtherTypes
  <2>2. copy' \in [Payments -> Invoices \cup {None}]
    <3> HIDE DEF Invoices
    <3> QED
      BY DEF PaymentSucceeds, ReadInvoice, Money, MoneyTypes, OtherTypes
  <2> QED
    BY <1>1, <2>1, <2>2 DEF Money, MoneyTypes, OtherTypes, history
<1>3. \A q \in Procs : pc'[q] = "fallback" => rows'[at'[q]].status = "FAILED"
  BY <1>1 DEF Money, Replacing
<1> QED
  BY <1>1, <1>2, <1>3, NoRowTouched, SameInvoice DEF outside

(* A report that wrote over a later change leaves nothing to be shown.      *)
LEMMA PaymentKeepsMoney ==
    ASSUME IInv, Money, NEW x \in Payments, WriteInvoice(x)
    PROVE  Money'
<1>1. /\ lock = None /\ copy[x] # None
      /\ UNCHANGED <<received, unreported, notes, promised, rows, outside, lock, pc, plan, settled, at>>
      /\ invoice' = Reconciled(copy[x], Amounts[x])
      /\ overtaken' = (overtaken \/ copy[x] # invoice)
      /\ copy' = [copy EXCEPT ![x] = None]
  BY DEF WriteInvoice
<1>2. Amounts[x] \in Nat
  BY RefundConstants DEF Payments
<1> PICK read \in Invoices : read = copy[x]
  <2> HIDE DEF Invoices
  <2> QED
    BY <1>1 DEF Money, MoneyTypes, OtherTypes
<1>3. PICK payment \in {"OVERPAID", "SUCCEEDED"} :
         invoice' = [read EXCEPT !.paid = read.paid + Amounts[x], !.payment = payment]
  BY <1>1 DEF Reconciled
<1>4. /\ read.status \in InvoiceStatus /\ payment \in PaymentStatus /\ read.paid + Amounts[x] \in Nat
      /\ read.refunded \in Nat /\ read.adjusted \in Nat /\ read.paid \in Nat
  BY <1>2 DEF InvoiceStatus, PaymentStatus
<1>5. invoice' = [status |-> read.status, payment |-> payment, paid |-> read.paid + Amounts[x],
                  refunded |-> read.refunded, adjusted |-> read.adjusted]
  BY <1>3
<1>6. OtherTypes'
  <2> HIDE DEF Invoices
  <2> QED
    BY <1>1 DEF Money, MoneyTypes, OtherTypes
<1>7. MoneyTypes'
  BY <1>4, <1>5, <1>6, InvoiceChange
<1>8. Counted("REFUND")' = Counted("REFUND") /\ Counted("ADJUSTMENT")' = Counted("ADJUSTMENT")
  BY <1>1 DEF Counted
<1>9. \A n \in Notes : notes'[n].status # "none" => notes'[n].amount > 0
  BY <1>1 DEF Money, NotesAddUp
<1>10. ASSUME ~overtaken'
       PROVE  /\ ~overtaken
              /\ invoice'.refunded = invoice.refunded /\ invoice'.paid >= invoice.paid
              /\ invoice'.status = "FINALIZED" =>
                    /\ invoice'.refunded = SumOver(Counted("REFUND")', Notes)
                    /\ invoice'.adjusted = SumOver(Counted("ADJUSTMENT")', Notes)
  <2>1. ~overtaken /\ read = invoice
    BY <1>1, <1>10
  <2>2. InvoiceAddsUp
    BY <2>1 DEF Money, NotesAddUp
  <2> QED
    BY <1>2, <1>4, <1>5, <1>8, <2>1, <2>2 DEF InvoiceAddsUp
<1> QED
  BY <1>1, <1>7, <1>9, <1>10, LedgerStep

LEMMA DraftKeepsMoney ==
    ASSUME IInv, IInv', Money, NEW n \in Notes, CreateCreditNote(n)
    PROVE  Money'
<1>1. /\ lock = None
      /\ UNCHANGED <<invoice, reports, history, rows, outside, lock, pc, plan, settled, at>>
      /\ notes[n].status = "none"
  BY DEF CreateCreditNote
<1>2. PICK type, amount :
         /\ amount \in 1 .. MaxCreditable(type)
         /\ notes' = [notes EXCEPT ![n] = [status |-> "DRAFT", type |-> type, amount |-> amount]]
  BY DEF CreateCreditNote
<1>3. amount > 0 /\ notes'[n].amount = amount /\ notes'[n].status = "DRAFT"
      /\ \A m \in Notes \ {n} : notes'[m] = notes[m]
  <2>1. MaxCreditable(type) \in Nat
    BY DEF MaxCreditable, Positive
  <2> QED
    BY <1>2, <2>1 DEF IInv, Types
<1>4. \A m \in Notes : notes'[m].status # "none" => notes'[m].amount > 0
  BY <1>3 DEF Money, NotesAddUp
<1>5. Counted("REFUND")' = Counted("REFUND") /\ Counted("ADJUSTMENT")' = Counted("ADJUSTMENT")
  BY <1>1, <1>3 DEF Counted
<1>6. MoneyTypes' /\ invoice'.paid >= invoice.paid
  BY <1>1 DEF Money, MoneyTypes, OtherTypes, reports, history
<1>7. UNCHANGED <<promised, overtaken>>
  BY <1>1 DEF history
<1> QED
  BY <1>1, <1>4, <1>5, <1>6, <1>7, LedgerStep DEF Money, NotesAddUp, InvoiceAddsUp

(* One note changes: the sum moves by what that note counts.                *)
LEMMA CountMoves ==
    ASSUME Types, Types', NEW n \in Notes, NEW type,
           \A m \in Notes \ {n} : notes'[m] = notes[m]
    PROVE  SumOver(Counted(type)', Notes)
             = SumOver(Counted(type), Notes) - Counted(type)[n] + Counted(type)'[n]
<1>1. \A m \in Notes : Counted(type)[m] \in Int /\ Counted(type)'[m] \in Int
  BY DEF Counted, Types
<1>2. \A m \in Notes \ {n} : Counted(type)'[m] = Counted(type)[m]
  BY DEF Counted
<1> PICK a, b : a = Counted(type) /\ b = Counted(type)'
  OBVIOUS
<1>3. SumOver(b, Notes) = SumOver(a, Notes) - a[n] + b[n]
  BY <1>1, <1>2, RefundConstants, SumUpdate
<1> QED
  BY <1>3

(* One note's status changes; what the others count stays.                  *)
LEMMA NoteMoves ==
    ASSUME Types, Types', NEW n \in Notes, NEW status, NEW type,
           notes' = [notes EXCEPT ![n].status = status]
    PROVE  /\ notes'[n].amount = notes[n].amount /\ notes'[n].type = notes[n].type
           /\ notes'[n].status = status /\ \A m \in Notes \ {n} : notes'[m] = notes[m]
           /\ SumOver(Counted(type)', Notes)
                = SumOver(Counted(type), Notes) - Counted(type)[n] + Counted(type)'[n]
<1>1. /\ notes'[n].amount = notes[n].amount /\ notes'[n].type = notes[n].type
      /\ notes'[n].status = status /\ \A m \in Notes \ {n} : notes'[m] = notes[m]
  BY DEF Types
<1> QED
  BY <1>1, CountMoves

LEMMA AdjustmentKeepsMoney ==
    ASSUME IInv, IInv', Money, NEW n \in Notes, FinalizeAdjustment(n)
    PROVE  Money'
<1>1. /\ lock = None
      /\ UNCHANGED <<reports, history, rows, outside, lock, pc, plan, settled, at>>
      /\ notes[n].status = "DRAFT" /\ notes[n].type = "ADJUSTMENT" /\ Types /\ Types'
  BY DEF FinalizeAdjustment, IInv
<1>0. UNCHANGED <<promised, overtaken>> /\ OtherTypes'
  BY <1>1 DEF Money, MoneyTypes, OtherTypes, reports, history
<1>2. notes' = [notes EXCEPT ![n].status = "FINALIZED"]
  BY DEF FinalizeAdjustment
<1>3. /\ notes'[n].amount = notes[n].amount /\ notes'[n].type = notes[n].type
      /\ notes'[n].status = "FINALIZED" /\ \A m \in Notes \ {n} : notes'[m] = notes[m]
      /\ notes[n].amount \in Nat
  BY <1>1, <1>2, NoteMoves DEF Types
<1>4. \A m \in Notes : notes'[m].status # "none" => notes'[m].amount > 0
  BY <1>1, <1>3 DEF Money, NotesAddUp
<1>5. /\ Counted("REFUND")[n] = 0 /\ Counted("REFUND")'[n] = 0
      /\ Counted("ADJUSTMENT")[n] = 0 /\ Counted("ADJUSTMENT")'[n] = notes[n].amount
  BY <1>1, <1>3 DEF Counted
<1>6. \A type \in {"REFUND", "ADJUSTMENT"} : SumOver(Counted(type), Notes) \in Nat
  BY <1>1, CountedType
<1>7. /\ SumOver(Counted("REFUND")', Notes) = SumOver(Counted("REFUND"), Notes)
                                                - Counted("REFUND")[n] + Counted("REFUND")'[n]
      /\ SumOver(Counted("ADJUSTMENT")', Notes) = SumOver(Counted("ADJUSTMENT"), Notes)
                                                - Counted("ADJUSTMENT")[n] + Counted("ADJUSTMENT")'[n]
  BY <1>1, <1>2, NoteMoves
<1>8. /\ SumOver(Counted("REFUND")', Notes) = SumOver(Counted("REFUND"), Notes)
      /\ SumOver(Counted("ADJUSTMENT")', Notes) = SumOver(Counted("ADJUSTMENT"), Notes) + notes[n].amount
  BY <1>3, <1>5, <1>6, <1>7
<1>9. CASE invoice.status # "FINALIZED"
  <2>1. UNCHANGED invoice
    BY <1>9 DEF FinalizeAdjustment
  <2>2. MoneyTypes' /\ invoice'.paid >= invoice.paid
    BY <1>0, <2>1 DEF Money, MoneyTypes
  <2> QED
    BY <1>0, <1>1, <1>4, <1>9, <2>1, <2>2, LedgerStep
<1>10. CASE invoice.status = "FINALIZED"
  <2>1. PICK payment \in {"SUCCEEDED", invoice.payment} :
           invoice' = [invoice EXCEPT !.adjusted = invoice.adjusted + notes[n].amount,
                                      !.payment = payment]
    BY <1>10 DEF FinalizeAdjustment
  <2>2. /\ MoneyTypes' /\ invoice'.paid >= invoice.paid /\ invoice'.refunded = invoice.refunded
        /\ invoice'.adjusted = invoice.adjusted + notes[n].amount
    <3>1. /\ invoice.status \in InvoiceStatus /\ payment \in PaymentStatus /\ invoice.paid \in Nat
          /\ invoice.refunded \in Nat /\ invoice.adjusted + notes[n].amount \in Nat
      BY <1>3 DEF Money, MoneyTypes, InvoiceStatus, PaymentStatus
    <3>2. invoice' = [status |-> invoice.status, payment |-> payment, paid |-> invoice.paid,
                     refunded |-> invoice.refunded, adjusted |-> invoice.adjusted + notes[n].amount]
      BY <2>1 DEF Money, MoneyTypes
    <3>3. MoneyTypes'
      BY <1>0, <3>1, <3>2, InvoiceChange
    <3> QED
      BY <3>1, <3>2, <3>3
  <2>3. ~overtaken =>
           /\ invoice.refunded = SumOver(Counted("REFUND"), Notes)
           /\ invoice.adjusted = SumOver(Counted("ADJUSTMENT"), Notes)
    BY <1>10 DEF Money, NotesAddUp, InvoiceAddsUp
  <2> QED
    BY <1>0, <1>1, <1>4, <1>8, <2>2, <2>3, LedgerStep
<1> QED
  BY <1>9, <1>10

LEMMA VoidedNoteKeepsMoney ==
    ASSUME IInv, IInv', Money, NEW n \in Notes, VoidCreditNote(n)
    PROVE  Money'
<1>1. /\ lock = None
      /\ UNCHANGED <<reports, history, rows, outside, lock, pc, plan, settled, at>>
      /\ Types /\ Types'
      /\ \/ notes[n].status = "DRAFT"
         \/ notes[n].status = "FINALIZED" /\ notes[n].type = "ADJUSTMENT"
  BY DEF VoidCreditNote, IInv
<1>0. UNCHANGED <<promised, overtaken>> /\ OtherTypes'
  BY <1>1 DEF Money, MoneyTypes, OtherTypes, reports, history
<1>2. notes' = [notes EXCEPT ![n].status = "VOIDED"]
  BY DEF VoidCreditNote
<1>3. /\ notes'[n].amount = notes[n].amount /\ notes'[n].type = notes[n].type
      /\ notes'[n].status = "VOIDED" /\ \A m \in Notes \ {n} : notes'[m] = notes[m]
      /\ notes[n].amount \in Nat
  BY <1>1, <1>2, NoteMoves DEF Types
<1>4. \A m \in Notes : notes'[m].status # "none" => notes'[m].amount > 0
  BY <1>1, <1>3 DEF Money, NotesAddUp
<1>5. /\ Counted("REFUND")[n] = 0 /\ Counted("REFUND")'[n] = 0 /\ Counted("ADJUSTMENT")'[n] = 0
      /\ Counted("ADJUSTMENT")[n] = IF notes[n].status = "FINALIZED" THEN notes[n].amount ELSE 0
  BY <1>1, <1>3 DEF Counted
<1>6. \A type \in {"REFUND", "ADJUSTMENT"} :
         SumOver(Counted(type), Notes) \in Nat /\ SumOver(Counted(type)', Notes) \in Nat
  <2>1. ASSUME NEW type PROVE SumOver(Counted(type), Notes) \in Nat
    BY <1>1, CountedType
  <2>2. ASSUME NEW type PROVE SumOver(Counted(type)', Notes) \in Nat
    <3>1. \A m \in Notes : Counted(type)'[m] \in Nat
      BY <1>1 DEF Counted, Types
    <3> PICK g : g = Counted(type)'
      OBVIOUS
    <3>2. SumOver(g, Notes) \in Nat
      BY <3>1, RefundConstants, SumNat
    <3> QED
      BY <3>2
  <2> QED
    BY <2>1, <2>2
<1>7. /\ SumOver(Counted("REFUND")', Notes) = SumOver(Counted("REFUND"), Notes)
                                                - Counted("REFUND")[n] + Counted("REFUND")'[n]
      /\ SumOver(Counted("ADJUSTMENT")', Notes) = SumOver(Counted("ADJUSTMENT"), Notes)
                                                - Counted("ADJUSTMENT")[n] + Counted("ADJUSTMENT")'[n]
  BY <1>1, <1>2, NoteMoves
<1>8. /\ SumOver(Counted("REFUND")', Notes) = SumOver(Counted("REFUND"), Notes)
      /\ SumOver(Counted("ADJUSTMENT")', Notes)
           = SumOver(Counted("ADJUSTMENT"), Notes) - Counted("ADJUSTMENT")[n]
  BY <1>3, <1>5, <1>6, <1>7
<1>9. CASE notes[n].status = "DRAFT" \/ invoice.status # "FINALIZED"
  <2>1. UNCHANGED invoice
    BY <1>9 DEF VoidCreditNote
  <2>2. MoneyTypes' /\ invoice'.paid >= invoice.paid
    BY <1>0, <2>1 DEF Money, MoneyTypes
  <2>3. ~overtaken /\ invoice.status = "FINALIZED" =>
           /\ invoice.refunded = SumOver(Counted("REFUND"), Notes)
           /\ invoice.adjusted = SumOver(Counted("ADJUSTMENT"), Notes)
           /\ Counted("ADJUSTMENT")[n] = 0
    BY <1>5, <1>9 DEF Money, NotesAddUp, InvoiceAddsUp
  <2>4. ~overtaken' /\ invoice'.status = "FINALIZED" =>
           /\ invoice'.refunded = SumOver(Counted("REFUND")', Notes)
           /\ invoice'.adjusted = SumOver(Counted("ADJUSTMENT")', Notes)
    BY <1>0, <1>6, <1>8, <2>1, <2>3
  <2> QED
    BY <1>0, <1>1, <1>4, <2>1, <2>2, <2>4, LedgerStep
<1>10. CASE notes[n].status = "FINALIZED" /\ invoice.status = "FINALIZED"
  <2>1. PICK payment \in {"OVERPAID", "SUCCEEDED", invoice.payment} :
           invoice' = [invoice EXCEPT !.adjusted = FinalizedSum("ADJUSTMENT") - notes[n].amount,
                                      !.refunded = FinalizedSum("REFUND"), !.payment = payment]
    BY <1>10 DEF VoidCreditNote
  <2>2. /\ FinalizedSum("ADJUSTMENT") = SumOver(Counted("ADJUSTMENT"), Notes)
        /\ FinalizedSum("REFUND") = SumOver(Counted("REFUND"), Notes)
        /\ notes[n].amount = Counted("ADJUSTMENT")[n]
        /\ ~overtaken => invoice.refunded = SumOver(Counted("REFUND"), Notes)
    BY <1>1, <1>5, <1>10, CountedSum DEF Money, NotesAddUp, InvoiceAddsUp
  <2>3. /\ FinalizedSum("ADJUSTMENT") - notes[n].amount = SumOver(Counted("ADJUSTMENT")', Notes)
        /\ FinalizedSum("REFUND") = SumOver(Counted("REFUND")', Notes)
        /\ ~overtaken => FinalizedSum("REFUND") = invoice.refunded
        /\ FinalizedSum("REFUND") \in Nat
        /\ SumOver(Counted("ADJUSTMENT")', Notes) \in Nat
    BY <1>6, <1>8, <2>2
  <2> PICK refunded : refunded = FinalizedSum("REFUND")
    OBVIOUS
  <2>4. invoice' = [invoice EXCEPT !.adjusted = SumOver(Counted("ADJUSTMENT")', Notes),
                                   !.refunded = refunded, !.payment = payment]
    BY <2>1, <2>3
  <2>5. /\ MoneyTypes' /\ invoice'.paid >= invoice.paid /\ invoice'.refunded = refunded
        /\ invoice'.adjusted = SumOver(Counted("ADJUSTMENT")', Notes)
    <3>1. /\ invoice.status \in InvoiceStatus /\ payment \in PaymentStatus /\ invoice.paid \in Nat
          /\ refunded \in Nat /\ SumOver(Counted("ADJUSTMENT")', Notes) \in Nat
      BY <2>3 DEF Money, MoneyTypes, InvoiceStatus, PaymentStatus
    <3>2. invoice' = [status |-> invoice.status, payment |-> payment, paid |-> invoice.paid,
                     refunded |-> refunded, adjusted |-> SumOver(Counted("ADJUSTMENT")', Notes)]
      BY <2>4 DEF Money, MoneyTypes
    <3>3. MoneyTypes'
      BY <1>0, <3>1, <3>2, InvoiceChange
    <3> QED
      BY <3>1, <3>2, <3>3
  <2> QED
    BY <1>0, <1>1, <1>4, <2>3, <2>5, LedgerStep
<1> QED
  BY <1>1, <1>9, <1>10

-----------------------------------------------------------------------------
(* Planning.                                                                *)

LEMMA DrawnType ==
    ASSUME Types, NEW x, NEW statuses
    PROVE  DrawnFrom(x, statuses) \in Nat
<1> DEFINE T == {r \in Refunds : r[2] = x /\ rows[r].status \in statuses}
           h == [r \in T |-> rows[r].amount]
<1>1. DrawnFrom(x, statuses) = FoldFunction(+, 0, h)
  BY DEF DrawnFrom
<1>2. DOMAIN h = T /\ T \in SUBSET Refunds /\ \A r \in T : h[r] \in Nat
  BY RowTypes
<1> HIDE DEF h, T
<1>3. FoldFunction(+, 0, h) = SumOver(h, DOMAIN h)
  BY FunSum
<1>4. SumOver(h, T) \in Nat
  BY <1>2, RefundsAreFinite, FS_Subset, SumNat
<1>5. SumOver(h, DOMAIN h) = SumOver(h, T)
  BY <1>2, Zenon
<1>6. DrawnFrom(x, statuses) = SumOver(h, T)
  BY <1>1, <1>3, <1>5, Zenon
<1> QED
  BY <1>4, <1>6

LEMMA BeginKeepsMoney ==
    ASSUME IInv, Money, NEW p \in Procs,
           VoidInvoice(p) \/ \E n \in Notes : FinalizeCreditNote(p, n)
    PROVE  Money'
<1>1. PICK reason : /\ BeginPlan(p, reason)
                    /\ reason \in Notes => /\ notes[reason].status = "DRAFT"
                                           /\ notes[reason].type = "REFUND"
                                           /\ WithinCapacity(reason)
  BY KeySpace DEF VoidInvoice, FinalizeCreditNote
<1>2. Types /\ MoneyTypes
  BY DEF IInv, Money
<1>3. /\ lock = None /\ lock' = p /\ plan' = [plan EXCEPT ![p] = reason]
      /\ settled' = [settled EXCEPT ![p] = Settled] /\ pc' = [pc EXCEPT ![p] = "plan"]
      /\ UNCHANGED <<ledger, rows, outside, todo, at>>
  BY <1>1 DEF BeginPlan
<1>4. settled' \in [Procs -> [Payments -> Nat]]
  <2>1. Settled \in [Payments -> Nat]
    BY <1>2, DrawnType DEF Settled
  <2> QED
    BY <1>2, <1>3, <2>1 DEF MoneyTypes, OtherTypes
<1>5. MoneyTypes'
  BY <1>2, <1>3, <1>4 DEF MoneyTypes, OtherTypes, ledger, reports, history
<1>6. Replacing'
  <2>1. \A q \in Procs : pc'[q] = "fallback" => pc[q] = "fallback"
    BY <1>2, <1>3 DEF Types
  <2> QED
    BY <1>3, <2>1 DEF Money, Replacing, Replaced, Fallback
<1>7. PaidByOne'
  BY <1>3 DEF Money, PaidByOne, outside
<1>8. NotesAddUp'
  <2>1. \A q \in Procs : pc'[q] = "plan" => q = p /\ plan'[q] = reason
    BY <1>2, <1>3, NobodyPlans DEF Types
  <2>2. reason \in Notes => invoice.refunded + notes[reason].amount <= invoice.paid
    BY <1>1, <1>2 DEF WithinCapacity, MaxCreditable, Positive, Money, NotesAddUp, MoneyTypes, Types
  <2> QED
    BY <1>3, <2>1, <2>2 DEF Money, NotesAddUp, InvoiceAddsUp, Counted, ledger, history
<1>9. DueAddsUp'
  BY <1>3 DEF Money, DueAddsUp, Due, Replaced, Fallback, ledger, history
<1> QED
  BY <1>5, <1>6, <1>7, <1>8, <1>9 DEF Money

(* What planning makes of each row.                                         *)
LEMMA PlannedExactly ==
    ASSUME NEW reason, NEW p \in Procs, NEW amount \in Nat, NEW toSource, NEW r \in Refunds
    PROVE  LET planned == PlannedRows(reason, Capacity(p), amount, toSource)
               add == Added(reason, Capacity(p), amount)
           IN  IF add[r] > 0
               THEN /\ r[1] = reason /\ r[3] = 1
                    /\ planned[r].status = "PENDING" /\ planned[r].amount = add[r]
                    /\ planned[r].destination \in {"WALLET", "GATEWAY"}
               ELSE planned[r] = rows[r]
<1>1. Added(reason, Capacity(p), amount)[r]
        = IF r[1] = reason /\ r[3] = 1 THEN Share(Capacity(p), amount, r[2]) ELSE 0
  BY DEF Added
<1>2. PlannedRows(reason, Capacity(p), amount, toSource)[r]
        = IF r[1] = reason /\ r[3] = 1 /\ Share(Capacity(p), amount, r[2]) > 0
          THEN NewRow(Share(Capacity(p), amount, r[2]),
                      IF toSource /\ r[2] \in Refundable THEN "GATEWAY" ELSE "WALLET")
          ELSE rows[r]
  BY DEF PlannedRows
<1> QED
  BY <1>1, <1>2 DEF NewRow

(* A commit adds to what is due exactly what it adds to what is promised.   *)
LEMMA CommitAdds ==
    ASSUME IInv, Money, NEW reason \in Notes \cup {Void}, NEW add, NEW amount \in Nat,
           \A r \in Refunds : add[r] \in Nat, SumOver(add, Refunds) = amount,
           \A r \in Refunds : add[r] > 0 => rows[r].status = "none",
           \A r \in Refunds :
              IF add[r] > 0
              THEN /\ r[1] = reason /\ r[3] = 1 /\ rows'[r].amount = add[r]
                   /\ rows'[r].status \in {"PENDING", "SUCCEEDED"}
              ELSE rows'[r] = rows[r],
           \A r \in Refunds : IF rows'[r].destination = "WALLET" THEN gateway'[r] = "none"
                                                                 ELSE credited'[r] = 0,
           \A q \in Procs : pc'[q] = "fallback" => pc[q] = "fallback" /\ at'[q] = at[q],
           promised' = promised + amount
    PROVE  Replacing' /\ PaidByOne' /\ DueAddsUp'
<1>1. PaidByOne'
  BY DEF PaidByOne
<1>2. /\ \A s \in Refunds : Fallback(s) \in Refunds /\ Fallback(s)[3] = 2 /\ Fallback(s)[1] = s[1]
      /\ \A s \in Refunds : s[3] = 2 => rows'[s] = rows[s]
  BY KeySpace
<1>3. \A s \in Refunds : Replaced(s)' <=> Replaced(s)
  BY <1>2 DEF Replaced, Fallback
<1>4. \A s \in Refunds : add[s] > 0 => ~Replaced(s) /\ rows[s].amount = 0 /\ rows[s].status = "none"
  BY <1>2 DEF Replaced, Money, Replacing
<1>5. Replacing'
  <2>1. \A s \in Refunds :
        /\ rows'[s].status = "none" => rows'[s].amount = 0
        /\ rows'[s].status = "FAILED" => rows'[s].destination = "GATEWAY"
    BY DEF Money, Replacing
  <2>2. ASSUME NEW s \in Refunds, Replaced(s)'
        PROVE  rows'[s].status = "FAILED" /\ rows'[Fallback(s)].amount = rows'[s].amount
    BY <1>2, <1>3, <1>4, <2>2 DEF Money, Replacing
  <2>3. \A s \in Refunds : Fallback(s)' = Fallback(s)
    BY DEF Fallback
  <2>4. ASSUME NEW q \in Procs, pc'[q] = "fallback" PROVE rows'[at'[q]].status = "FAILED"
    <3>1. pc[q] = "fallback" /\ at'[q] = at[q] /\ at[q] \in Refunds /\ rows[at[q]].status = "FAILED"
      BY <2>4, AtARow DEF Money, Replacing
    <3> QED
      BY <1>4, <3>1
  <2> QED
    BY <2>1, <2>2, <2>3, <2>4 DEF Replacing
<1>6. DueAddsUp'
  <2> PICK f, g : f = Due /\ g = Due'
    OBVIOUS
  <2>1. \A s \in Refunds : f[s] \in Nat
    BY RowTypes DEF IInv
  <2>2. \A s \in Refunds : g[s] = f[s] + add[s]
    <3> SUFFICES ASSUME NEW s \in Refunds PROVE Due'[s] = Due[s] + add[s]
      OBVIOUS
    <3>1. /\ Due[s] = IF Replaced(s) THEN 0 ELSE rows[s].amount
          /\ Due'[s] = IF Replaced(s)' THEN 0 ELSE rows'[s].amount
      BY DEF Due
    <3> QED
      BY <1>3, <1>4, <2>1, <3>1
  <2>3. SumOver(g, Refunds) = SumOver(f, Refunds) + SumOver(add, Refunds)
    <3>1. \A s \in Refunds : f[s] \in Int /\ add[s] \in Int /\ g[s] = f[s] + add[s]
      BY <2>1, <2>2
    <3> QED
      BY <3>1, RefundsAreFinite, SumPlus
  <2> QED
    BY <2>3 DEF Money, DueAddsUp
<1> QED
  BY <1>1, <1>5, <1>6

LEMMA CommitNoteKeepsMoney ==
    ASSUME IInv, IInv', Money, NEW p \in Procs, CommitCreditNote(p)
    PROVE  Money'
<1> PICK n \in Notes : n = plan[p]
  BY DEF CommitCreditNote
<1>1. /\ pc[p] = "plan" /\ lock = p /\ notes[n].status = "DRAFT" /\ notes[n].type = "REFUND"
      /\ Types /\ Types' /\ MoneyTypes
  BY DEF CommitCreditNote, IInv, Inv, PlannedOnce, Money
<1> PICK amount, add : /\ amount \in Nat
                       /\ amount = notes[n].amount
                       /\ add = Added(n, Capacity(p), amount)
  BY <1>1 DEF Types
<1>2. PICK toSource \in BOOLEAN : rows' = PlannedRows(n, Capacity(p), amount, toSource)
  BY DEF CommitCreditNote
<1>3. /\ notes' = [notes EXCEPT ![n].status = "FINALIZED"] /\ lock' = None
      /\ pc' = [pc EXCEPT ![p] = "next"] /\ Forget(p)
      /\ promised' = promised + amount /\ UNCHANGED <<reports, overtaken, outside, at>>
  BY DEF CommitCreditNote
<1>4. PICK payment \in {"REFUNDED", "PARTIALLY_REFUNDED"} :
         invoice' = [invoice EXCEPT !.refunded = invoice.refunded + amount, !.payment = payment]
  BY DEF CommitCreditNote
<1>5. /\ invoice' = [status |-> invoice.status, payment |-> payment, paid |-> invoice.paid,
                     refunded |-> invoice.refunded + amount, adjusted |-> invoice.adjusted]
      /\ invoice.status \in InvoiceStatus /\ payment \in PaymentStatus /\ invoice.paid \in Nat
      /\ invoice.refunded \in Nat /\ invoice.refunded + amount \in Nat /\ invoice.adjusted \in Nat
  <2>1. /\ invoice.status \in InvoiceStatus /\ payment \in PaymentStatus /\ invoice.paid \in Nat
        /\ invoice.refunded \in Nat /\ invoice.refunded + amount \in Nat /\ invoice.adjusted \in Nat
    BY <1>1 DEF MoneyTypes, InvoiceStatus, PaymentStatus
  <2>2. invoice' = [status |-> invoice.status, payment |-> payment, paid |-> invoice.paid,
                    refunded |-> invoice.refunded + amount, adjusted |-> invoice.adjusted]
    BY <1>1, <1>4 DEF MoneyTypes
  <2> QED
    BY <2>1, <2>2
<1>6. MoneyTypes'
  <2>1. settled' \in [Procs -> [Payments -> Nat]]
    BY <1>1, <1>3, SettledTypes DEF MoneyTypes, OtherTypes
  <2>2. OtherTypes'
    BY <1>1, <1>3, <2>1 DEF MoneyTypes, OtherTypes, reports
  <2> QED
    BY <1>5, <2>2, InvoiceChange
<1>7. Replacing' /\ PaidByOne' /\ DueAddsUp'
  <2>1. (\A r \in Refunds : add[r] \in Nat) /\ SumOver(add, Refunds) = amount
    BY CapacityType, AddedType, SharesAddUp
  <2>2. \A r \in Refunds : r[1] = n => rows[r].status = "none"
    BY <1>1, KeySpace DEF IInv, Inv, PlannedOnce
  <2>0. \A r \in Refunds : add[r] > 0 => rows[r].status = "none"
    BY <2>2 DEF Added
  <2>3. \A r \in Refunds :
           IF add[r] > 0
           THEN /\ r[1] = n /\ r[3] = 1 /\ rows'[r].amount = add[r]
                /\ rows'[r].status = "PENDING"
                /\ rows'[r].destination \in {"WALLET", "GATEWAY"}
           ELSE rows'[r] = rows[r]
    BY <1>2, PlannedExactly
  <2>4. \A r \in Refunds : IF rows'[r].destination = "WALLET" THEN gateway'[r] = "none"
                                                              ELSE credited'[r] = 0
    <3>1. \A r \in Refunds : rows[r].status = "none" => gateway[r] = "none" /\ credited[r] = 0
      BY DEF IInv, Inv, AskedAfterClaim, StatusTellsWhoPaid
    <3>2. \A r \in Refunds : gateway'[r] = gateway[r] /\ credited'[r] = credited[r]
      BY <1>3 DEF outside
    <3> QED
      BY <2>2, <2>3, <3>1, <3>2 DEF Money, PaidByOne
  <2>5. \A q \in Procs : pc'[q] = "fallback" => pc[q] = "fallback" /\ at'[q] = at[q]
    BY <1>1, <1>3 DEF Types
  <2> QED
    BY <1>3, <2>0, <2>1, <2>3, <2>4, <2>5, CommitAdds
<1>8. NotesAddUp'
  <2>1. \A q \in Procs : pc'[q] # "plan"
    BY <1>1, <1>3 DEF Types, IInv, Inv, PlannedOnce
  <2>2. /\ \A m \in Notes \ {n} : notes'[m] = notes[m]
        /\ notes'[n].amount = amount /\ notes'[n].status = "FINALIZED" /\ notes'[n].type = "REFUND"
    BY <1>1, <1>3 DEF Types
  <2>3. \A m \in Notes : notes'[m].status # "none" => notes'[m].amount > 0
    BY <1>1, <2>2 DEF Money, NotesAddUp
  <2>4. /\ SumOver(Counted("REFUND")', Notes) = SumOver(Counted("REFUND"), Notes)
                                                  - Counted("REFUND")[n] + Counted("REFUND")'[n]
        /\ SumOver(Counted("ADJUSTMENT")', Notes) = SumOver(Counted("ADJUSTMENT"), Notes)
                                                - Counted("ADJUSTMENT")[n] + Counted("ADJUSTMENT")'[n]
    <3>1. Types /\ Types'
      BY <1>1
    <3>2. SumOver(Counted("REFUND")', Notes)
            = SumOver(Counted("REFUND"), Notes) - Counted("REFUND")[n] + Counted("REFUND")'[n]
      BY <2>2, <3>1, CountMoves
    <3>3. SumOver(Counted("ADJUSTMENT")', Notes)
            = SumOver(Counted("ADJUSTMENT"), Notes)
                - Counted("ADJUSTMENT")[n] + Counted("ADJUSTMENT")'[n]
      BY <2>2, <3>1, CountMoves
    <3> QED
      BY <3>2, <3>3
  <2>5. /\ Counted("REFUND")[n] = 0 /\ Counted("REFUND")'[n] = amount
        /\ Counted("ADJUSTMENT")[n] = 0 /\ Counted("ADJUSTMENT")'[n] = 0
    BY <1>1, <2>2 DEF Counted
  <2>6. \A type \in {"REFUND", "ADJUSTMENT"} : SumOver(Counted(type), Notes) \in Nat
    BY <1>1, CountedType
  <2>7. /\ SumOver(Counted("REFUND")', Notes) = SumOver(Counted("REFUND"), Notes) + amount
        /\ SumOver(Counted("ADJUSTMENT")', Notes) = SumOver(Counted("ADJUSTMENT"), Notes)
    BY <2>4, <2>5, <2>6
  <2>8. ASSUME ~overtaken' PROVE InvoiceAddsUp'
    <3>1. ~overtaken /\ InvoiceAddsUp
      BY <1>3, <2>8 DEF Money, NotesAddUp
    <3>2. invoice.refunded + amount <= invoice.paid /\ invoice.refunded = promised
      BY <1>1, <3>1 DEF InvoiceAddsUp
    <3>3. invoice'.refunded <= invoice'.paid + Prepaid /\ invoice'.refunded = promised'
      BY <1>3, <1>5, <3>2, RefundConstants
    <3>4. invoice'.status = "FINALIZED" =>
             /\ invoice'.refunded = SumOver(Counted("REFUND")', Notes)
             /\ invoice'.adjusted = SumOver(Counted("ADJUSTMENT")', Notes)
      BY <1>5, <2>7, <3>1 DEF InvoiceAddsUp
    <3> QED
      BY <2>1, <3>3, <3>4 DEF InvoiceAddsUp
  <2> QED
    BY <2>3, <2>8 DEF NotesAddUp
<1> QED
  BY <1>6, <1>7, <1>8 DEF Money

(* What a void does to the rows and to what was credited.                   *)
LEMMA VoidedExactly ==
    ASSUME IInv, Money, NEW p \in Procs, CommitVoid(p), NEW add,
           add = Added(Void, Capacity(p), Unreturned)
    PROVE  /\ \A r \in Refunds : add[r] > 0 => rows[r].status = "none"
           /\ \A r \in Refunds : add[r] \in Nat
           /\ SumOver(add, Refunds) = Unreturned
           /\ \A r \in Refunds :
                 IF add[r] > 0
                 THEN /\ r[1] = Void /\ r[3] = 1 /\ rows'[r].amount = add[r]
                      /\ rows'[r].status = "SUCCEEDED" /\ rows'[r].destination = "WALLET"
                      /\ credited[r] = 0 /\ credited'[r] = add[r] /\ gateway[r] = "none"
                 ELSE rows'[r] = rows[r] /\ credited'[r] = credited[r]
<1> PICK amount \in Nat : amount = Unreturned
  BY UnreturnedType
<1> DEFINE planned == PlannedRows(Void, Capacity(p), amount, FALSE)
<1>1. Types
  BY DEF IInv
<1>2. (\A r \in Refunds : add[r] \in Nat) /\ SumOver(add, Refunds) = amount
  BY CapacityType, AddedType, SharesAddUp
<1>3. \A r \in Refunds : add[r] > 0 => rows[r].status = "none"
  BY VoidAddsFresh DEF Added
<1>4. \A r \in Refunds :
         IF add[r] > 0
         THEN /\ r[1] = Void /\ r[3] = 1 /\ planned[r].amount = add[r]
              /\ planned[r].status = "PENDING"
         ELSE planned[r] = rows[r]
  <2> DEFINE rowsOf(toSource) == PlannedRows(Void, Capacity(p), amount, toSource)
  <2>1. ASSUME NEW toSource, NEW r \in Refunds
        PROVE  IF add[r] > 0
               THEN /\ r[1] = Void /\ r[3] = 1 /\ rowsOf(toSource)[r].amount = add[r]
                    /\ rowsOf(toSource)[r].status = "PENDING"
               ELSE rowsOf(toSource)[r] = rows[r]
    BY PlannedExactly
  <2> HIDE DEF rowsOf
  <2>2. \A r \in Refunds :
           IF add[r] > 0
           THEN /\ r[1] = Void /\ r[3] = 1 /\ rowsOf(FALSE)[r].amount = add[r]
                /\ rowsOf(FALSE)[r].status = "PENDING"
           ELSE rowsOf(FALSE)[r] = rows[r]
    BY <2>1
  <2> QED
    BY <2>2 DEF rowsOf
<1>5. \A r \in Refunds : /\ planned[r] \in Rows
                         /\ planned[r] = rows[r] \/ planned[r].destination = "WALLET"
  BY <1>1, VoidRowsAdd DEF Types
<1>6. \A r \in Refunds : rows[r].status = "none" => gateway[r] = "none" /\ credited[r] = 0
  BY DEF IInv, Inv, AskedAfterClaim, StatusTellsWhoPaid
<1>7. ASSUME NEW r \in Refunds
      PROVE  IF add[r] > 0
             THEN /\ r[1] = Void /\ r[3] = 1 /\ rows'[r].amount = add[r]
                  /\ rows'[r].status = "SUCCEEDED" /\ rows'[r].destination = "WALLET"
                  /\ credited[r] = 0 /\ credited'[r] = add[r] /\ gateway[r] = "none"
             ELSE rows'[r] = rows[r] /\ credited'[r] = credited[r]
  <2>1. /\ rows'[r] = IF planned[r] # rows[r] THEN [planned[r] EXCEPT !.status = "SUCCEEDED"]
                                              ELSE rows[r]
        /\ credited'[r] = IF planned[r] # rows[r] THEN credited[r] + planned[r].amount
                                                  ELSE credited[r]
    BY DEF CommitVoid
  <2> HIDE DEF planned
  <2>2. CASE add[r] > 0
    <3>1. /\ r[1] = Void /\ r[3] = 1 /\ planned[r].amount = add[r] /\ planned[r].status = "PENDING"
          /\ rows[r].status = "none"
      BY <1>3, <1>4, <2>2
    <3>2. planned[r] # rows[r] /\ planned[r].destination = "WALLET" /\ planned[r] \in Rows
      BY <1>5, <3>1
    <3>3. rows'[r] = [planned[r] EXCEPT !.status = "SUCCEEDED"] /\ credited'[r] = credited[r] + add[r]
      BY <2>1, <3>1, <3>2
    <3>4. /\ rows'[r].amount = planned[r].amount /\ rows'[r].status = "SUCCEEDED"
          /\ rows'[r].destination = planned[r].destination
      BY <3>2, <3>3 DEF Rows
    <3>5. credited[r] = 0 /\ gateway[r] = "none" /\ add[r] \in Nat
      BY <1>2, <1>6, <3>1
    <3> QED
      BY <2>2, <3>1, <3>2, <3>3, <3>4, <3>5
  <2>3. CASE ~ (add[r] > 0)
    BY <1>4, <2>1, <2>3
  <2> QED
    BY <2>2, <2>3
<1> QED
  BY <1>2, <1>3, <1>7

LEMMA CommitVoidKeepsMoney ==
    ASSUME IInv, IInv', Money, NEW p \in Procs, CommitVoid(p)
    PROVE  Money'
<1> PICK amount, add : /\ amount \in Nat
                       /\ amount = Unreturned
                       /\ add = Added(Void, Capacity(p), Unreturned)
  BY UnreturnedType
<1>1. pc[p] = "plan" /\ lock = p /\ Types /\ MoneyTypes
  BY DEF CommitVoid, IInv, Inv, PlannedOnce, Money
<1>2. /\ lock' = None /\ pc' = [pc EXCEPT ![p] = "idle"] /\ Forget(p)
      /\ promised' = promised + amount
      /\ UNCHANGED <<reports, overtaken, notes, gateway, unanswered, todo, at>>
  BY DEF CommitVoid
<1>3. PICK payment \in {"REFUNDED", invoice.payment} :
         invoice' = [invoice EXCEPT !.status = "VOIDED", !.refunded = invoice.refunded + amount,
                                    !.payment = payment]
  BY DEF CommitVoid
<1>4. /\ invoice' = [status |-> "VOIDED", payment |-> payment, paid |-> invoice.paid,
                     refunded |-> invoice.refunded + amount, adjusted |-> invoice.adjusted]
      /\ payment \in PaymentStatus /\ invoice.paid \in Nat /\ "VOIDED" \in InvoiceStatus
      /\ invoice.refunded \in Nat /\ invoice.refunded + amount \in Nat /\ invoice.adjusted \in Nat
  <2>1. /\ payment \in PaymentStatus /\ invoice.paid \in Nat /\ "VOIDED" \in InvoiceStatus
        /\ invoice.refunded \in Nat /\ invoice.refunded + amount \in Nat /\ invoice.adjusted \in Nat
    BY <1>1 DEF MoneyTypes, InvoiceStatus, PaymentStatus
  <2>2. invoice' = [status |-> "VOIDED", payment |-> payment, paid |-> invoice.paid,
                    refunded |-> invoice.refunded + amount, adjusted |-> invoice.adjusted]
    BY <1>1, <1>3 DEF MoneyTypes
  <2> QED
    BY <2>1, <2>2
<1>5. MoneyTypes'
  <2>1. settled' \in [Procs -> [Payments -> Nat]]
    BY <1>1, <1>2, SettledTypes DEF MoneyTypes, OtherTypes
  <2>2. OtherTypes'
    BY <1>1, <1>2, <2>1 DEF MoneyTypes, OtherTypes, reports
  <2> QED
    BY <1>4, <2>2, InvoiceChange
<1>6. Replacing' /\ PaidByOne' /\ DueAddsUp'
  <2>1. /\ \A r \in Refunds : add[r] > 0 => rows[r].status = "none"
        /\ \A r \in Refunds : add[r] \in Nat
        /\ SumOver(add, Refunds) = amount
        /\ \A r \in Refunds :
              IF add[r] > 0
              THEN /\ r[1] = Void /\ r[3] = 1 /\ rows'[r].amount = add[r]
                   /\ rows'[r].status = "SUCCEEDED" /\ rows'[r].destination = "WALLET"
                   /\ gateway[r] = "none"
              ELSE rows'[r] = rows[r] /\ credited'[r] = credited[r]
    BY VoidedExactly
  <2>2. \A r \in Refunds : IF rows'[r].destination = "WALLET" THEN gateway'[r] = "none"
                                                              ELSE credited'[r] = 0
    BY <1>2, <2>1 DEF Money, PaidByOne
  <2>3. \A q \in Procs : pc'[q] = "fallback" => pc[q] = "fallback" /\ at'[q] = at[q]
    BY <1>1, <1>2 DEF Types
  <2>4. Void \in Notes \cup {Void}
    OBVIOUS
  <2> QED
    BY <1>2, <2>1, <2>2, <2>3, <2>4, CommitAdds
<1>7. NotesAddUp'
  <2>1. \A q \in Procs : pc'[q] # "plan"
    BY <1>1, <1>2 DEF Types, IInv, Inv, PlannedOnce
  <2>2. ~overtaken => /\ invoice.refunded + amount <= invoice.paid + Prepaid
                      /\ invoice.refunded = promised
    BY <1>4, RefundConstants DEF Unreturned, Positive, Money, NotesAddUp, InvoiceAddsUp
  <2>3. /\ invoice'.refunded = invoice.refunded + amount /\ invoice'.paid = invoice.paid
        /\ invoice'.status = "VOIDED"
    BY <1>4
  <2> QED
    BY <1>2, <2>1, <2>2, <2>3 DEF Money, NotesAddUp, InvoiceAddsUp
<1> QED
  BY <1>5, <1>6, <1>7 DEF Money

LEMMA ConflictKeepsMoney ==
    ASSUME IInv, Money, NEW p \in Procs, VoidConflicts(p)
    PROVE  Money'
<1>1. /\ UNCHANGED <<ledger, rows, outside, at>>
      /\ lock' = None /\ pc' = [pc EXCEPT ![p] = "idle"] /\ Forget(p) /\ Types
  BY DEF VoidConflicts, IInv
<1>2. settled' \in [Procs -> [Payments -> Nat]]
  BY <1>1, SettledTypes DEF Money, MoneyTypes, OtherTypes
<1>3. \A q \in Procs : /\ pc'[q] = "plan" => pc[q] = "plan" /\ plan'[q] = plan[q]
                       /\ pc'[q] = "fallback" => pc[q] = "fallback"
  BY <1>1 DEF Types, Forget
<1>4. \A q \in Procs : pc'[q] = "fallback" => rows'[at'[q]].status = "FAILED"
  BY <1>1, <1>3 DEF Money, Replacing
<1> QED
  BY <1>1, <1>2, <1>3, <1>4, NoRowTouched, QuietStep DEF outside

LEMMA MoneyInit == Init => Money
<1> SUFFICES ASSUME Init PROVE Money
  OBVIOUS
<1>1. \A r \in Refunds : rows[r] = NoRow /\ gateway[r] = "none" /\ credited[r] = 0
  BY DEF Init
<1>2. MoneyTypes
  BY DEF Init, MoneyTypes, OtherTypes
<1>3. Replacing /\ PaidByOne
  BY <1>1, KeySpace DEF NoRow, Init, Replacing, Replaced, PaidByOne
<1>4. NotesAddUp
  <2>1. \A type : \A n \in Notes : Counted(type)[n] = 0
    BY DEF Init, NoNote, Counted
  <2>2. \A type : SumOver(Counted(type), Notes) = 0
    BY <2>1, RefundConstants, SumZero
  <2>3. \A n \in Notes : notes[n].status = "none"
    BY DEF Init, NoNote
  <2>4. invoice.refunded = 0 /\ invoice.adjusted = 0 /\ invoice.paid = 0
    BY DEF Init
  <2>5. \A p \in Procs : pc[p] # "plan"
    BY DEF Init
  <2> QED
    BY <2>2, <2>3, <2>4, <2>5, RefundConstants DEF NotesAddUp, InvoiceAddsUp, Init
<1>5. DueAddsUp
  <2>1. \A r \in Refunds : Due[r] = 0
    BY <1>1 DEF Due, NoRow
  <2>2. SumOver(Due, Refunds) = 0
    BY <2>1, RefundsAreFinite, SumZero
  <2> QED
    BY <2>2 DEF DueAddsUp, Init
<1> QED
  BY <1>2, <1>3, <1>4, <1>5 DEF Money

LEMMA MoneyStep == IInv /\ IInv' /\ Money /\ [Next]_vars => Money'
<1> SUFFICES ASSUME IInv, IInv', Money, [Next]_vars PROVE Money'
  OBVIOUS
<1>1. CASE UNCHANGED vars
  <2>1. /\ UNCHANGED <<ledger, rows, outside, lock, pc, plan, settled, at>>
    BY <1>1 DEF vars, ledger, reports, history, outside
  <2>2. /\ lock' \in Procs \cup {None} /\ settled' \in [Procs -> [Payments -> Nat]]
        /\ \A q \in Procs : pc[q] = "fallback" => rows[at[q]].status = "FAILED"
    BY <2>1 DEF Money, MoneyTypes, OtherTypes, Replacing
  <2> QED
    BY <2>1, <2>2, NoRowTouched, QuietStep DEF outside
<1>2. CASE \E x \in Payments : PaymentSucceeds(x) \/ ReadInvoice(x) \/ WriteInvoice(x)
  BY <1>2, ReportKeepsMoney, PaymentKeepsMoney
<1>3. CASE \E n \in Notes : CreateCreditNote(n) \/ FinalizeAdjustment(n) \/ VoidCreditNote(n)
  BY <1>3, DraftKeepsMoney, AdjustmentKeepsMoney, VoidedNoteKeepsMoney
<1>4. CASE \E p \in Procs : Plans(p)
  BY <1>4, BeginKeepsMoney, CommitNoteKeepsMoney, CommitVoidKeepsMoney, ConflictKeepsMoney
  DEF Plans
<1>5. CASE \E p \in Procs : Works(p)
  BY <1>5, WorkKeepsMoney, FallbackKeepsMoney DEF Works
<1>6. CASE \E p \in Procs, r \in Refunds : RetryRefund(p, r) \/ Webhook(p, r)
  BY <1>6, StartKeepsMoney
<1>7. CASE \E r \in Refunds : GatewayDecides(r)
  BY <1>7, DecisionKeepsMoney
<1> QED
  BY <1>1, <1>2, <1>3, <1>4, <1>5, <1>6, <1>7 DEF Next

LEMMA MoneyInvariance == Spec => [](IInv /\ Money)
<1>1. Init => IInv /\ Money
  BY InvInit, MoneyInit
<1>2. IInv /\ Money /\ [Next]_vars => (IInv /\ Money)'
  BY InvStep, MoneyStep
<1> QED
  BY <1>1, <1>2, PTL DEF Spec

(* Every variable keeps its type: in particular voiding an adjustment never *)
(* takes more off the invoice than its notes have put on it, and no sum     *)
(* over refund rows is negative (VoidCreditNote, allocateAcrossPayments).   *)
THEOREM RefundTypes == Spec => []TypeOK
<1>1. IInv /\ Money => TypeOK
  BY DEF IInv, Types, Money, MoneyTypes, OtherTypes, TypeOK
<1> QED
  BY <1>1, MoneyInvariance, PTL

(* What notes and voids promised is what the rows have returned, are        *)
(* returning or still owe, also where reports write old copies of the       *)
(* invoice back: planning hands out exactly the amount asked for, over any  *)
(* payments and wherever they were collected, and a failed row and its      *)
(* fallback count once (CommitCreditNote, CommitVoid, RefundToWallet).      *)
THEOREM NothingPlannedTwice == Spec => []PromisedIsDue
<1>1. IInv /\ Money => PromisedIsDue
  BY PlannedIsDue DEF IInv, Money
<1> QED
  BY <1>1, MoneyInvariance, PTL

(* As long as no report has written an old copy over a note or a void, the  *)
(* invoice says what was promised and never promises more than it was given *)
(* (CommitCreditNote, CommitVoid, VoidCreditNote, WriteInvoice).            *)
THEOREM RefundedIsCurrent == Spec => []RefundedIsPromised
<1>1. IInv /\ Money => RefundedIsPromised
  BY DEF Money, NotesAddUp, InvoiceAddsUp, RefundedIsPromised
<1> QED
  BY <1>1, MoneyInvariance, PTL

-----------------------------------------------------------------------------
(* The promise kept.                                                        *)

PaidRows == [r \in Refunds |-> Paid(r)]

LEMMA ReturnedIsSum == Returned = SumOver(PaidRows, Refunds)
<1> DEFINE h == [r \in Refunds |-> Paid(r)]
<1>1. Returned = FoldFunction(+, 0, h) /\ PaidRows = h /\ DOMAIN h = Refunds
  BY DEF Returned, PaidRows
<1> HIDE DEF h
<1>2. FoldFunction(+, 0, h) = SumOver(h, DOMAIN h)
  BY FunSum
<1> QED
  BY <1>1, <1>2, Zenon

(* Whoever pays for a row pays no more than it is for.                      *)
LEMMA PaidAtMostDue ==
    ASSUME IInv, Money
    PROVE  \A r \in Refunds : PaidRows[r] \in Nat /\ PaidRows[r] <= Due[r]
<1> SUFFICES ASSUME NEW r \in Refunds PROVE Paid(r) \in Nat /\ Paid(r) <= Due[r]
  BY DEF PaidRows
<1>1. /\ rows[r].amount \in Nat /\ credited[r] \in Nat
      /\ rows[r].destination \in {"WALLET", "GATEWAY"}
  BY RowTypes DEF IInv, Types
<1>2. /\ rows[r].destination = "WALLET" => gateway[r] = "none"
      /\ rows[r].destination = "GATEWAY" => credited[r] = 0
  BY DEF Money, PaidByOne
<1>3. /\ credited[r] \in {0, rows[r].amount}
      /\ rows[r].status = "FAILED" => /\ credited[r] = 0
                                      /\ gateway[r] \in {"none", "failed"} \/ r \in unanswered
  <2>1. CASE rows[r].destination = "WALLET"
    BY <2>1 DEF IInv, Inv, StatusTellsWhoPaid
  <2>2. CASE rows[r].destination = "GATEWAY"
    BY <1>2, <2>2 DEF IInv, Inv, StatusTellsWhoPaid
  <2> QED
    BY <1>1, <2>1, <2>2
<1>4. Due[r] = IF Replaced(r) THEN 0 ELSE rows[r].amount
  BY DEF Due
<1>5. Replaced(r) => rows[r].status = "FAILED"
  BY DEF Money, Replacing
<1> QED
  BY <1>1, <1>2, <1>3, <1>4, <1>5 DEF Paid

LEMMA ReturnedWithin ==
    ASSUME IInv, Money
    PROVE  Returned \in Nat /\ Returned <= promised /\ promised \in Nat
<1>1. \A r \in Refunds : /\ PaidRows[r] \in Nat /\ PaidRows[r] \in Int /\ Due[r] \in Int
                         /\ PaidRows[r] <= Due[r]
  BY PaidAtMostDue, RowTypes DEF IInv
<1>2. SumOver(PaidRows, Refunds) \in Nat
  BY <1>1, RefundsAreFinite, SumNat
<1>3. SumOver(PaidRows, Refunds) <= SumOver(Due, Refunds)
  BY <1>1, RefundsAreFinite, SumMonotone
<1>4. promised = SumOver(Due, Refunds) /\ promised \in Nat
  BY DEF Money, MoneyTypes, OtherTypes, DueAddsUp
<1> QED
  BY <1>2, <1>3, <1>4, ReturnedIsSum

(* Nothing paid is taken back.                                              *)
LEMMA PaidStays ==
    ASSUME IInv, IInv', Money, Money',
           \A r \in Refunds : credited'[r] >= credited[r],
           \A r \in Refunds : gateway[r] = "paid" /\ r \notin unanswered =>
              gateway'[r] = "paid" /\ r \notin unanswered' /\ rows'[r].amount = rows[r].amount
    PROVE  Returned' >= Returned
<1> PICK f, g : f = PaidRows /\ g = PaidRows'
  OBVIOUS
<1>1. \A r \in Refunds : f[r] \in Int /\ g[r] \in Int /\ f[r] <= g[r]
  <2> SUFFICES ASSUME NEW r \in Refunds
               PROVE  PaidRows[r] \in Int /\ PaidRows'[r] \in Int /\ PaidRows[r] <= PaidRows'[r]
    OBVIOUS
  <2>1. /\ PaidRows[r] = credited[r]
              + IF gateway[r] = "paid" /\ r \notin unanswered THEN rows[r].amount ELSE 0
        /\ PaidRows'[r] = credited'[r]
              + IF gateway'[r] = "paid" /\ r \notin unanswered' THEN rows'[r].amount ELSE 0
    BY DEF PaidRows, Paid
  <2>2. /\ rows[r].amount \in Nat /\ rows'[r].amount \in Nat
        /\ credited[r] \in Nat /\ credited'[r] \in Nat
    BY DEF IInv, Types, Rows
  <2> QED
    BY <2>1, <2>2
<1>2. SumOver(f, Refunds) <= SumOver(g, Refunds)
  BY <1>1, RefundsAreFinite, SumMonotone
<1>3. Returned = SumOver(f, Refunds) /\ Returned' = SumOver(g, Refunds)
  <2>1. (Returned = SumOver(PaidRows, Refunds))'
    BY ReturnedIsSum, PTL
  <2>2. Returned' = SumOver(PaidRows', Refunds)
    BY <2>1
  <2> QED
    BY <2>2, ReturnedIsSum
<1>4. SumOver(f, Refunds) \in Int /\ SumOver(g, Refunds) \in Int
  BY <1>1, RefundsAreFinite, SumType
<1> QED
  BY <1>2, <1>3, <1>4

(* Working on a row keeps its amount, once it has one, and what was paid.   *)
LEMMA WorkPays ==
    ASSUME IInv, Money, NEW p \in Procs, Works(p)
    PROVE  /\ UNCHANGED ledger
           /\ \A r \in Refunds : credited'[r] >= credited[r]
           /\ \A r \in Refunds : gateway[r] = "paid" /\ r \notin unanswered =>
                 gateway'[r] = "paid" /\ r \notin unanswered' /\ rows'[r].amount = rows[r].amount
<1> DEFINE Keeps == \A r \in Refunds : rows[r].status # "none" => rows'[r].amount = rows[r].amount
<1>0. /\ Types
      /\ \A r \in Refunds : credited[r] \in Nat /\ rows[r].amount \in Nat
      /\ \A r \in Refunds : gateway[r] = "paid" => rows[r].status # "none"
  BY RowTypes DEF IInv, Types, Inv, AskedAfterClaim
<1>1. UNCHANGED ledger
  BY DEF Works, Dispatch, SettleToWallet, ClaimForGateway, NotSupported, RefundPayment,
     RecordGatewayAcceptance, Settle, Fail, RefundToWallet, Fails, Crash
<1>2. CASE RefundPayment(p)
  <2>1. at[p] \in Refunds /\ gateway[at[p]] = "none"
    BY <1>2, AtARow DEF RefundPayment, IInv, Inv, AskedOnce
  <2>2. PICK answer \in Answers :
           /\ gateway' = [gateway EXCEPT ![at[p]] = answer.does]
           /\ unanswered' \in {unanswered, unanswered \cup {at[p]}}
           /\ UNCHANGED <<rows, credited>>
    BY <1>2 DEF RefundPayment
  <2>3. \A r \in Refunds : gateway[r] = "paid" => r # at[p] /\ gateway'[r] = gateway[r]
    BY <1>0, <2>1, <2>2 DEF Types
  <2> QED
    BY <1>0, <1>1, <2>2, <2>3
<1>3. CASE SettleToWallet(p)
  <2>1. at[p] \in Refunds /\ UNCHANGED <<gateway, unanswered>>
    BY <1>3, AtARow DEF SettleToWallet
  <2>2. CASE MaySettle(at[p])
    <3>1. /\ rows' = [rows EXCEPT ![at[p]].status = "SUCCEEDED"]
          /\ credited' = [credited EXCEPT ![at[p]] = @ + rows[at[p]].amount]
      BY <1>3, <2>2 DEF SettleToWallet
    <3>2. \A r \in Refunds : rows'[r].amount = rows[r].amount
      BY <1>0, <2>1, <3>1 DEF Types, Rows
    <3>3. \A r \in Refunds : credited'[r] >= credited[r]
      BY <1>0, <2>1, <3>1 DEF Types
    <3> QED
      BY <1>1, <2>1, <3>2, <3>3
  <2>3. CASE ~MaySettle(at[p])
    BY <1>0, <1>1, <1>3, <2>1, <2>3 DEF SettleToWallet
  <2> QED
    BY <2>2, <2>3
<1>4. CASE UNCHANGED <<rows, outside>>
  BY <1>0, <1>1, <1>4 DEF outside
<1>5. ASSUME UNCHANGED outside, Keeps
      PROVE  /\ \A r \in Refunds : credited'[r] >= credited[r]
             /\ \A r \in Refunds : gateway[r] = "paid" /\ r \notin unanswered =>
                   gateway'[r] = "paid" /\ r \notin unanswered' /\ rows'[r].amount = rows[r].amount
  BY <1>0, <1>5 DEF outside
<1>6. CASE ClaimForGateway(p)
  <2>1. at[p] \in Refunds /\ UNCHANGED outside
        /\ rows' \in {rows, [rows EXCEPT ![at[p]].status = "PROCESSING"]}
    BY <1>6, AtARow DEF ClaimForGateway
  <2>2. Keeps
    BY <1>0, <2>1 DEF Types, Rows
  <2> QED
    BY <1>1, <1>5, <2>1, <2>2
<1>7. CASE RecordGatewayAcceptance(p)
  <2>1. at[p] \in Refunds /\ UNCHANGED outside
        /\ rows' = [rows EXCEPT ![at[p]].known = @ \/ rows[at[p]].status \in Open]
    BY <1>7, AtARow DEF RecordGatewayAcceptance
  <2>2. Keeps
    BY <1>0, <2>1 DEF Types, Rows
  <2> QED
    BY <1>1, <1>5, <2>1, <2>2
<1>8. CASE Settle(p)
  <2>1. at[p] \in Refunds /\ UNCHANGED outside
        /\ \/ rows' = rows
           \/ rows' = [rows EXCEPT ![at[p]].status = "SUCCEEDED", ![at[p]].known = TRUE]
    BY <1>8, AtARow DEF Settle
  <2>2. Keeps
    BY <1>0, <2>1 DEF Types, Rows
  <2> QED
    BY <1>1, <1>5, <2>1, <2>2
<1>9. CASE Fail(p)
  <2>1. at[p] \in Refunds /\ UNCHANGED outside
        /\ rows' \in {rows, [rows EXCEPT ![at[p]].status = "FAILED"]}
    BY <1>9, AtARow DEF Fail
  <2>2. Keeps
    BY <1>0, <2>1 DEF Types, Rows
  <2> QED
    BY <1>1, <1>5, <2>1, <2>2
<1>10. CASE RefundToWallet(p)
  <2>1. /\ at[p] \in Refunds /\ Fallback(at[p]) \in Refunds /\ UNCHANGED outside
        /\ \/ rows' = rows
           \/ /\ rows[Fallback(at[p])].status = "none"
              /\ rows' = [rows EXCEPT ![Fallback(at[p])] = NewRow(rows[at[p]].amount, "WALLET")]
    BY <1>10, AtARow, KeySpace DEF RefundToWallet, NotReplaced
  <2>2. Keeps
    BY <1>0, <2>1 DEF Types
  <2> QED
    BY <1>1, <1>5, <2>1, <2>2
<1>11. CASE Dispatch(p) \/ NotSupported(p) \/ Fails(p) \/ Crash(p)
  <2>1. UNCHANGED <<rows, outside>>
    BY <1>11 DEF Dispatch, NotSupported, Fails, Crash
  <2> QED
    BY <1>4, <2>1
<1> QED
  BY <1>2, <1>3, <1>6, <1>7, <1>8, <1>9, <1>10, <1>11 DEF Works

(* Everything but the two commits gives money back or does nothing the      *)
(* customer sees.                                                           *)
LEMMA PayingStep ==
    ASSUME IInv, IInv', Money, Money',
           promised' = promised,
           \A r \in Refunds : credited'[r] >= credited[r],
           \A r \in Refunds : gateway[r] = "paid" /\ r \notin unanswered =>
              gateway'[r] = "paid" /\ r \notin unanswered' /\ rows'[r].amount = rows[r].amount
    PROVE  [Promise!Next]_(Promise!vars)
<1>1. Returned' >= Returned
  BY PaidStays
<1>2. Returned \in Nat
  BY ReturnedWithin
<1>3. Returned' \in Nat /\ Returned' <= promised'
  <2>1. (IInv /\ Money => Returned \in Nat /\ Returned <= promised)'
    BY ReturnedWithin, PTL
  <2> QED
    BY <2>1
<1> QED
  BY <1>1, <1>2, <1>3 DEF Promise!Next, Promise!vars, Promise!Return

(* A step that leaves the rows, what was paid for them and what was         *)
(* promised.                                                                *)
LEMMA NothingPromised ==
    ASSUME IInv, IInv', Money, Money', UNCHANGED <<promised, rows, outside>>
    PROVE  [Promise!Next]_(Promise!vars)
<1>1. \A r \in Refunds : credited[r] \in Nat
  BY DEF IInv, Types
<1>2. /\ \A r \in Refunds : credited'[r] >= credited[r]
      /\ \A r \in Refunds : gateway[r] = "paid" /\ r \notin unanswered =>
            gateway'[r] = "paid" /\ r \notin unanswered' /\ rows'[r].amount = rows[r].amount
  BY <1>1 DEF outside
<1> QED
  BY <1>2, PayingStep

LEMMA CommitNotePromises ==
    ASSUME IInv, IInv', Money, Money', NEW p \in Procs, CommitCreditNote(p)
    PROVE  [Promise!Next]_(Promise!vars)
<1> PICK n \in Notes : n = plan[p]
  BY DEF CommitCreditNote
<1>1. /\ pc[p] = "plan" /\ lock = p /\ notes[n].status = "DRAFT" /\ notes[n].type = "REFUND"
      /\ Types /\ MoneyTypes
  BY DEF CommitCreditNote, IInv, Inv, PlannedOnce, Money
<1> PICK amount \in Nat : amount = notes[n].amount
  BY <1>1 DEF Types
<1>2. PICK toSource \in BOOLEAN : rows' = PlannedRows(n, Capacity(p), amount, toSource)
  BY DEF CommitCreditNote
<1>3. promised' = promised + amount
  BY DEF CommitCreditNote
<1>4. amount > 0 /\ promised \in Nat
  BY <1>1 DEF Money, MoneyTypes, OtherTypes, NotesAddUp
<1>5. Returned' = Returned
  <2>1. UNCHANGED outside
    BY DEF CommitCreditNote
  <2>2. \A r \in Refunds : r[1] = n => rows[r].status = "none"
    BY <1>1, KeySpace DEF IInv, Inv, PlannedOnce
  <2>3. \A r \in Refunds : rows'[r] = rows[r] \/ r[1] = n
    BY <1>2 DEF PlannedRows
  <2>4. \A r \in Refunds : gateway[r] = "paid" => rows'[r] = rows[r]
    BY <2>2, <2>3 DEF IInv, Inv, AskedAfterClaim
  <2>5. ASSUME NEW r \in Refunds PROVE Paid(r)' = Paid(r)
    BY <2>1, <2>4 DEF Paid, outside
  <2>6. PaidRows' = PaidRows
    BY <2>5 DEF PaidRows
  <2>7. (Returned = SumOver(PaidRows, Refunds))'
    BY ReturnedIsSum, PTL
  <2> QED
    BY <2>6, <2>7, ReturnedIsSum
<1>6. Promise!Promise
  BY <1>3, <1>4, <1>5 DEF Promise!Promise
<1> QED
  BY <1>6 DEF Promise!Next

LEMMA CommitVoidPromises ==
    ASSUME IInv, IInv', Money, Money', NEW p \in Procs, CommitVoid(p)
    PROVE  [Promise!Next]_(Promise!vars)
<1> PICK amount, add : /\ amount \in Nat
                       /\ amount = Unreturned
                       /\ add = Added(Void, Capacity(p), Unreturned)
  BY UnreturnedType
<1>1. promised' = promised + amount
  BY DEF CommitVoid
<1>2. promised \in Nat
  BY DEF Money, MoneyTypes, OtherTypes
<1>3. Returned' = Returned + amount
  <2> PICK f, g : f = PaidRows /\ g = PaidRows'
    OBVIOUS
  <2>1. /\ \A r \in Refunds : add[r] \in Nat
        /\ SumOver(add, Refunds) = amount
        /\ \A r \in Refunds :
              IF add[r] > 0
              THEN credited[r] = 0 /\ credited'[r] = add[r] /\ gateway[r] = "none"
              ELSE rows'[r] = rows[r] /\ credited'[r] = credited[r]
    BY VoidedExactly
  <2>2. UNCHANGED <<gateway, unanswered>>
    BY DEF CommitVoid
  <2>3. \A r \in Refunds : f[r] \in Nat
    BY PaidAtMostDue
  <2>4. \A r \in Refunds : f[r] \in Int /\ add[r] \in Int /\ g[r] = f[r] + add[r]
    <3> SUFFICES ASSUME NEW r \in Refunds
                 PROVE  PaidRows'[r] = PaidRows[r] + add[r]
      BY <2>1, <2>3
    <3>1. /\ PaidRows[r] = credited[r]
                + IF gateway[r] = "paid" /\ r \notin unanswered THEN rows[r].amount ELSE 0
          /\ PaidRows'[r] = credited'[r]
                + IF gateway'[r] = "paid" /\ r \notin unanswered' THEN rows'[r].amount ELSE 0
      BY DEF PaidRows, Paid
    <3>2. add[r] \in Nat /\ PaidRows[r] \in Nat
      BY <2>1, <2>3
    <3>3. CASE add[r] > 0
      BY <2>1, <2>2, <3>1, <3>2, <3>3
    <3>4. CASE ~ (add[r] > 0)
      BY <2>1, <2>2, <3>1, <3>2, <3>4
    <3> QED
      BY <3>3, <3>4
  <2>5. SumOver(g, Refunds) = SumOver(f, Refunds) + SumOver(add, Refunds)
    BY <2>4, RefundsAreFinite, SumPlus
  <2>6. (Returned = SumOver(PaidRows, Refunds))'
    BY ReturnedIsSum, PTL
  <2> QED
    BY <2>1, <2>5, <2>6, ReturnedIsSum
<1>4. Returned \in Nat
  BY ReturnedWithin
<1>5. CASE amount = 0
  BY <1>1, <1>2, <1>3, <1>4, <1>5 DEF Promise!vars
<1>6. CASE amount > 0
  <2>1. Promise!Promise
    BY <1>1, <1>2, <1>3, <1>4, <1>6 DEF Promise!Promise
  <2> QED
    BY <2>1 DEF Promise!Next
<1> QED
  BY <1>5, <1>6

LEMMA PromiseInit == Init => Promise!Init
<1> SUFFICES ASSUME Init PROVE Promise!Init
  OBVIOUS
<1>1. IInv /\ Money
  BY InvInit, MoneyInit
<1>2. promised = 0
  BY DEF Init
<1>3. Returned \in Nat /\ Returned <= 0
  BY <1>1, <1>2, ReturnedWithin
<1> QED
  BY <1>2, <1>3 DEF Promise!Init

LEMMA PromiseStep ==
    IInv /\ IInv' /\ Money /\ Money' /\ [Next]_vars => [Promise!Next]_(Promise!vars)
<1> SUFFICES ASSUME IInv, IInv', Money, Money', [Next]_vars
             PROVE  [Promise!Next]_(Promise!vars)
  OBVIOUS
<1>1. \A r \in Refunds : credited[r] \in Nat
  BY DEF IInv, Types
<1>2. CASE UNCHANGED vars
  BY <1>2, NothingPromised DEF vars, history, outside
<1>3. CASE \E x \in Payments : PaymentSucceeds(x) \/ ReadInvoice(x) \/ WriteInvoice(x)
  <2>1. UNCHANGED <<promised, rows, outside>>
    BY <1>3 DEF PaymentSucceeds, ReadInvoice, WriteInvoice, history
  <2> QED
    BY <2>1, NothingPromised
<1>4. CASE \E n \in Notes : CreateCreditNote(n) \/ FinalizeAdjustment(n) \/ VoidCreditNote(n)
  <2>1. UNCHANGED <<promised, rows, outside>>
    BY <1>4 DEF CreateCreditNote, FinalizeAdjustment, VoidCreditNote, history
  <2> QED
    BY <2>1, NothingPromised
<1>5. CASE \E p \in Procs : Plans(p)
  <2> PICK p \in Procs : Plans(p)
    BY <1>5
  <2>1. CASE VoidInvoice(p) \/ VoidConflicts(p) \/ \E n \in Notes : FinalizeCreditNote(p, n)
    <3>1. UNCHANGED <<promised, rows, outside>>
      BY <2>1 DEF VoidInvoice, VoidConflicts, FinalizeCreditNote, BeginPlan, ledger, history
    <3> QED
      BY <3>1, NothingPromised
  <2>2. CASE CommitCreditNote(p)
    BY <2>2, CommitNotePromises
  <2>3. CASE CommitVoid(p)
    BY <2>3, CommitVoidPromises
  <2> QED
    BY <2>1, <2>2, <2>3 DEF Plans
<1>6. CASE \E p \in Procs : Works(p)
  <2> PICK p \in Procs : Works(p)
    BY <1>6
  <2>1. /\ UNCHANGED ledger
        /\ \A r \in Refunds : credited'[r] >= credited[r]
        /\ \A r \in Refunds : gateway[r] = "paid" /\ r \notin unanswered =>
              gateway'[r] = "paid" /\ r \notin unanswered' /\ rows'[r].amount = rows[r].amount
    BY WorkPays
  <2>2. promised' = promised
    BY <2>1 DEF ledger, history
  <2> QED
    BY <2>1, <2>2, PayingStep
<1>7. CASE \E p \in Procs, r \in Refunds : RetryRefund(p, r) \/ Webhook(p, r)
  <2>1. UNCHANGED <<promised, rows, outside>>
    BY <1>7 DEF RetryRefund, Webhook, StartWith, ledger, history
  <2> QED
    BY <2>1, NothingPromised
<1>8. CASE \E r \in Refunds : GatewayDecides(r)
  <2> PICK s \in Refunds : GatewayDecides(s)
    BY <1>8
  <2>1. /\ UNCHANGED <<promised, rows, credited, unanswered>>
        /\ \A r \in Refunds : gateway[r] = "paid" => gateway'[r] = "paid"
    BY DEF GatewayDecides, ledger, history, IInv, Types
  <2>2. /\ \A r \in Refunds : credited'[r] >= credited[r]
        /\ \A r \in Refunds : gateway[r] = "paid" /\ r \notin unanswered =>
              gateway'[r] = "paid" /\ r \notin unanswered' /\ rows'[r].amount = rows[r].amount
    BY <1>1, <2>1
  <2> QED
    BY <2>1, <2>2, PayingStep
<1> QED
  BY <1>2, <1>3, <1>4, <1>5, <1>6, <1>7, <1>8 DEF Next

(* Refunding implements its promise for every invoice: no more is returned  *)
(* than notes and voids promised and no promise is taken back, by credit    *)
(* notes, voids, wallets, gateways, retries and webhooks in any order, with *)
(* any crashes and any writes of old copies (refund.go, creditnote.go).     *)
THEOREM PromiseImplemented == Spec => ImplementsPromise
<1>1. Init => Promise!Init
  BY PromiseInit
<1>2. (IInv /\ Money) /\ (IInv /\ Money)' /\ [Next]_vars => [Promise!Next]_(Promise!vars)
  BY PromiseStep
<1> QED
  BY <1>1, <1>2, MoneyInvariance, PTL DEF Spec, ImplementsPromise, Promise!Spec

(* Any behaviour that implements the promise gives back no more than was    *)
(* promised.                                                                *)
THEOREM PromiseWithinMeans == Promise!Spec => []Promise!WithinMeans
<1> DEFINE Amounts2 == Promise!WithinMeans /\ promised \in Nat /\ Returned \in Nat
<1>1. Promise!Init => Amounts2
  BY DEF Promise!Init, Promise!WithinMeans
<1>2. Amounts2 /\ [Promise!Next]_(Promise!vars) => Amounts2'
  BY DEF Promise!WithinMeans, Promise!Next, Promise!vars, Promise!Promise, Promise!Return
<1>3. Amounts2 => Promise!WithinMeans
  OBVIOUS
<1> QED BY <1>1, <1>2, <1>3, PTL DEF Promise!Spec
=============================================================================
