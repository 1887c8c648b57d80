-------------------------- MODULE WalletLedgerProofs --------------------------
(***************************************************************************)
(* What holds of the ledger for every set of wallets, every offer and every *)
(* bound.  A bonus shares the fate of the purchase that earned it; every    *)
(* credit is accounted for by what it has left and what debits took of it;  *)
(* with one rate the currency balance follows the credits; every wallet is  *)
(* a WalletAccount; a conversion loses nothing; the audit trail of every    *)
(* wallet is unbroken.                                                      *)
(***************************************************************************)
EXTENDS WalletLedger, SequenceTheorems, SumTheorems, TLAPS

IsSequence(s) == \E S : s \in Seq(S)

(* What the argument reads of a row; every row has these fields.            *)
HasFields(row) == {"wallet", "reason", "status", "parent"} \subseteq DOMAIN row

SameFields(new, old) ==
    /\ HasFields(new)
    /\ new.wallet = old.wallet /\ new.reason = old.reason
    /\ new.status = old.status /\ new.parent = old.parent

(* A row with a parent is the bonus of a purchase that has none.            *)
LinkedTo(s, row) ==
    row.parent # NoParent =>
        /\ row.reason = "BONUS"
        /\ row.parent \in 1 .. Len(s)
        /\ s[row.parent].parent = NoParent
        /\ s[row.parent].status = row.status
        /\ s[row.parent].wallet = row.wallet

(* The inductive invariant.  That only a bonus has a parent tells the       *)
(* purchase a step settles from the rows it leaves alone.                   *)
Linked(s) ==
    /\ IsSequence(s)
    /\ \A i \in 1 .. Len(s) : HasFields(s[i]) /\ LinkedTo(s, s[i])

----------------------------------------------------------------------------
(* Sequences.                                                               *)

LEMMA SequenceDomain ==
    ASSUME NEW s, IsSequence(s)
    PROVE  Len(s) \in Nat /\ DOMAIN s = 1 .. Len(s)
BY LenProperties DEF IsSequence

LEMMA FunctionIsSequence ==
    ASSUME NEW n \in Nat, NEW f, f = [i \in 1 .. n |-> f[i]]
    PROVE  IsSequence(f) /\ Len(f) = n
<1> DEFINE S == {f[i] : i \in 1 .. n}
<1>1. f \in [1 .. n -> S]
  OBVIOUS
<1>2. f \in Seq(S)
  BY <1>1, SeqDef
<1> HIDE DEF S
<1>3. Len(f) \in Nat /\ 1 .. Len(f) = 1 .. n
  BY <1>1, <1>2, LenProperties
<1>4. Len(f) = n
  BY <1>3, SMT
<1> QED
  BY <1>2, <1>4 DEF IsSequence

LEMMA Concatenation ==
    ASSUME NEW s, IsSequence(s), NEW t, IsSequence(t)
    PROVE  /\ IsSequence(s \o t)
           /\ Len(s \o t) = Len(s) + Len(t)
           /\ \A i \in 1 .. Len(s) : (s \o t)[i] = s[i]
           /\ \A i \in 1 .. Len(s \o t) : i \notin 1 .. Len(s) =>
                 i - Len(s) \in 1 .. Len(t) /\ (s \o t)[i] = t[i - Len(s)]
<1>1. PICK S : s \in Seq(S)
  BY DEF IsSequence
<1>2. PICK T : t \in Seq(T)
  BY DEF IsSequence
<1> DEFINE U == S \cup T
<1>3. s \in Seq(U) /\ t \in Seq(U)
  BY <1>1, <1>2, SeqMonotonic
<1> HIDE DEF U
<1>4. Len(s) \in Nat /\ Len(t) \in Nat
  BY <1>3, LenProperties
<1> QED
  BY <1>3, <1>4, ConcatProperties DEF IsSequence

----------------------------------------------------------------------------
(* The three ways a step changes the rows.                                  *)

(* Rows are kept, up to what they still have available, and others follow.  *)
LEMMA AppendKeepsLinks ==
    ASSUME NEW s, Linked(s),
           NEW kept, IsSequence(kept), Len(kept) = Len(s),
           \A i \in 1 .. Len(s) : SameFields(kept[i], s[i]),
           NEW added, IsSequence(added),
           \A k \in 1 .. Len(added) :
               HasFields(added[k]) /\ LinkedTo(kept \o added, added[k])
    PROVE  Linked(kept \o added)
<1> DEFINE t == kept \o added
<1>0. /\ IsSequence(t) /\ Len(t) = Len(kept) + Len(added)
      /\ \A i \in 1 .. Len(kept) : t[i] = kept[i]
      /\ \A i \in 1 .. Len(t) : i \notin 1 .. Len(kept) =>
            i - Len(kept) \in 1 .. Len(added) /\ t[i] = added[i - Len(kept)]
  BY Concatenation, Zenon
<1> HIDE DEF t
<1>1. /\ IsSequence(t) /\ Len(t) = Len(s) + Len(added)
      /\ \A i \in 1 .. Len(s) : t[i] = kept[i]
      /\ \A i \in 1 .. Len(t) : i \notin 1 .. Len(s) =>
            i - Len(s) \in 1 .. Len(added) /\ t[i] = added[i - Len(s)]
  BY <1>0
<1>2. Len(s) \in Nat /\ Len(added) \in Nat
  BY SequenceDomain DEF Linked
<1> SUFFICES ASSUME NEW i \in 1 .. Len(t)
             PROVE  HasFields(t[i]) /\ LinkedTo(t, t[i])
  BY <1>1 DEF Linked, t
<1>3. CASE i \in 1 .. Len(s)
  <2>1. SameFields(t[i], s[i])
    BY <1>1, <1>3
  <2>2. ASSUME t[i].parent # NoParent
        PROVE  /\ s[i].parent \in 1 .. Len(s) /\ s[i].reason = "BONUS"
               /\ SameFields(t[s[i].parent], s[s[i].parent])
               /\ s[s[i].parent].parent = NoParent
               /\ s[s[i].parent].status = s[i].status
               /\ s[s[i].parent].wallet = s[i].wallet
    BY <2>1, <2>2, <1>1, <1>3 DEF Linked, LinkedTo, SameFields
  <2>3. 1 .. Len(s) \subseteq 1 .. Len(t)
    BY <1>1, <1>2
  <2> QED
    BY <2>1, <2>2, <2>3 DEF SameFields, LinkedTo
<1>4. CASE i \notin 1 .. Len(s)
  BY <1>1, <1>4 DEF t
<1> QED
  BY <1>3, <1>4

LEMMA AppendUnlinked ==
    ASSUME NEW s, Linked(s),
           NEW kept, IsSequence(kept), Len(kept) = Len(s),
           \A i \in 1 .. Len(s) : SameFields(kept[i], s[i]),
           NEW added, IsSequence(added),
           \A k \in 1 .. Len(added) : HasFields(added[k]) /\ added[k].parent = NoParent
    PROVE  Linked(kept \o added)
<1>1. \A k \in 1 .. Len(added) : LinkedTo(kept \o added, added[k])
  BY DEF LinkedTo
<1> QED
  BY <1>1, AppendKeepsLinks

(* A purchase and its pending bonuses change status together.               *)
LEMMA SettleKeepsLinks ==
    ASSUME Linked(rows), NEW i \in 1 .. Len(rows), IsPendingPurchase(i),
           NEW status, NEW s, IsSequence(s), Len(s) = Len(rows),
           \A j \in 1 .. Len(rows) :
               /\ HasFields(s[j])
               /\ s[j].wallet = rows[j].wallet /\ s[j].reason = rows[j].reason
               /\ s[j].parent = rows[j].parent
               /\ s[j].status = IF j \in {i} \cup PendingBonus(i)
                                THEN status ELSE rows[j].status
    PROVE  Linked(s)
<1>1. DOMAIN rows = 1 .. Len(rows) /\ Len(rows) \in Nat
  BY SequenceDomain DEF Linked
<1> SUFFICES ASSUME NEW j \in 1 .. Len(s), s[j].parent # NoParent
             PROVE  LinkedTo(s, s[j])
  BY DEF Linked, LinkedTo
<1> DEFINE p == rows[j].parent
<1>2. /\ p \in 1 .. Len(rows) /\ rows[j].reason = "BONUS" /\ p # NoParent
      /\ rows[p].parent = NoParent /\ rows[p].status = rows[j].status
      /\ rows[p].wallet = rows[j].wallet
  BY DEF Linked, LinkedTo
<1>3. i # NoParent /\ rows[i].reason = "PURCHASE" /\ rows[i].status = "PENDING"
  BY <1>1 DEF IsPendingPurchase, NoParent
<1>4. j # i
  BY <1>2, <1>3
<1>5. p \notin PendingBonus(i)
  BY <1>2, <1>3 DEF PendingBonus
<1>6. j \in PendingBonus(i) <=> p = i
  BY <1>1, <1>2, <1>3 DEF PendingBonus
<1>7. s[j].status = s[p].status
  BY <1>2, <1>4, <1>5, <1>6
<1> QED
  BY <1>2, <1>7 DEF LinkedTo

----------------------------------------------------------------------------
(* What the operations write.                                               *)

LEMMA CreditRowFields ==
    ASSUME NEW w, NEW reason, NEW status, NEW offer, NEW parent, NEW before
    PROVE  LET row == CreditRow(w, reason, status, offer, parent, before)
           IN  /\ HasFields(row) /\ row.wallet = w /\ row.reason = reason
               /\ row.status = status /\ row.parent = parent
BY DEF CreditRow, HasFields

LEMMA DebitRowFields ==
    ASSUME NEW w, NEW reason, NEW amount, NEW take, NEW before
    PROVE  LET row == DebitRow(w, reason, amount, take, before)
           IN  HasFields(row) /\ row.parent = NoParent
BY DEF DebitRow, HasFields

LEMMA ConsumeKeepsFields ==
    ASSUME Linked(rows), NEW take
    PROVE  /\ IsSequence(Consume(take)) /\ Len(Consume(take)) = Len(rows)
           /\ \A i \in 1 .. Len(rows) : SameFields(Consume(take)[i], rows[i])
<1>1. Len(rows) \in Nat /\ DOMAIN rows = 1 .. Len(rows)
  BY SequenceDomain DEF Linked
<1>2. Consume(take) = [i \in 1 .. Len(rows) |-> Consume(take)[i]]
  BY <1>1 DEF Consume
<1>3. ASSUME NEW i \in 1 .. Len(rows)
      PROVE  SameFields(Consume(take)[i], rows[i])
  BY <1>1, <1>3 DEF Consume, SameFields, Linked, HasFields
<1> QED
  BY <1>1, <1>2, <1>3, FunctionIsSequence

LEMMA RowsAreUnchanged ==
    ASSUME Linked(rows)
    PROVE  \A i \in 1 .. Len(rows) : SameFields(rows[i], rows[i])
BY DEF Linked, SameFields

LEMMA DebitsKeepLinks ==
    ASSUME Linked(rows), NEW take, NEW debits, IsSequence(debits),
           \A k \in 1 .. Len(debits) : HasFields(debits[k]) /\ debits[k].parent = NoParent
    PROVE  Linked(Consume(take) \o debits)
BY AppendUnlinked, ConsumeKeepsFields

(* A bonus row is the row after its purchase and names it.                  *)
LEMMA PurchaseKeepsLinks ==
    ASSUME Linked(rows), NEW w, NEW reason, NEW status, NEW offer, NEW bonus, NEW before
    PROVE  Linked(rows \o PurchaseRows(w, reason, status, offer, bonus, before))
<1> DEFINE purchase == CreditRow(w, reason, status, offer, NoParent, before)
           grant == CreditRow(w, "BONUS", status, bonus[1], Len(rows) + 1, purchase.after)
           added == PurchaseRows(w, reason, status, offer, bonus, before)
           t == rows \o added
<1>1. /\ HasFields(purchase) /\ purchase.wallet = w
      /\ purchase.status = status /\ purchase.parent = NoParent
  BY CreditRowFields
<1>2. /\ HasFields(grant) /\ grant.wallet = w /\ grant.reason = "BONUS"
      /\ grant.status = status /\ grant.parent = Len(rows) + 1
  BY CreditRowFields
<1>3. added = IF bonus = <<>> THEN <<purchase>> ELSE <<purchase, grant>>
  BY DEF PurchaseRows
<1> HIDE DEF purchase, grant, added
<1>4. IsSequence(rows) /\ Len(rows) \in Nat
  BY SequenceDomain DEF Linked
<1>5. CASE added = <<purchase>>
  <2>1. IsSequence(<<purchase>>)
    <3>1. <<purchase>> \in Seq({purchase})
      OBVIOUS
    <3> QED
      BY <3>1 DEF IsSequence
  <2>2. \A k \in 1 .. Len(<<purchase>>) : <<purchase>>[k] = purchase
    OBVIOUS
  <2>3. Linked(rows \o <<purchase>>)
    BY <1>1, <1>4, <2>1, <2>2, RowsAreUnchanged, AppendUnlinked
  <2> QED
    BY <1>5, <2>3 DEF added
<1>6. CASE added = <<purchase, grant>>
  <2>1. IsSequence(added) /\ Len(added) = 2
    <3>1. <<purchase, grant>> \in Seq({purchase, grant}) /\ Len(<<purchase, grant>>) = 2
      OBVIOUS
    <3> QED
      BY <1>6, <3>1 DEF IsSequence
  <2>2. added[1] = purchase /\ added[2] = grant
    BY <1>6
  <2>3. Len(t) = Len(rows) + 2 /\ t[Len(rows) + 1] = purchase
    <3>1. /\ Len(t) = Len(rows) + Len(added)
          /\ \A i \in 1 .. Len(t) : i \notin 1 .. Len(rows) => t[i] = added[i - Len(rows)]
      BY <1>4, <2>1, Concatenation
    <3> QED
      BY <1>4, <2>1, <2>2, <3>1
  <2>4. LinkedTo(t, purchase)
    BY <1>1 DEF LinkedTo
  <2>5. LinkedTo(t, grant)
    BY <1>1, <1>2, <1>4, <2>3 DEF LinkedTo
  <2>6. \A k \in 1 .. Len(added) : HasFields(added[k]) /\ LinkedTo(t, added[k])
    BY <1>1, <1>2, <2>1, <2>2, <2>4, <2>5
  <2>7. Linked(t)
    BY <1>4, <2>1, <2>6, RowsAreUnchanged, AppendKeepsLinks
  <2> QED
    BY <2>7 DEF added
<1> QED
  BY <1>3, <1>5, <1>6

----------------------------------------------------------------------------
(* The steps, one lemma for each operation that changes rows.               *)

LEMMA OneRow ==
    ASSUME NEW row
    PROVE  IsSequence(<<row>>) /\ Len(<<row>>) = 1 /\ <<row>>[1] = row
<1>1. <<row>> \in Seq({row})
  OBVIOUS
<1> QED
  BY <1>1 DEF IsSequence

LEMMA PostDebitKeepsLinks ==
    ASSUME Linked(rows), NEW w, NEW reason, NEW amount, NEW take,
           PostDebit(w, reason, amount, take)
    PROVE  Linked(rows')
<1> DEFINE row == DebitRow(w, reason, amount, take, creditBalance[w])
<1>1. HasFields(row) /\ row.parent = NoParent
  BY DebitRowFields
<1>2. rows' = Consume(take) \o <<row>>
  BY DEF PostDebit, Post
<1> HIDE DEF row
<1>3. Linked(Consume(take) \o <<row>>)
  BY <1>1, OneRow, DebitsKeepLinks
<1> QED
  BY <1>2, <1>3

LEMMA CreateWalletKeepsLinks ==
    ASSUME Linked(rows), NEW w, NEW load \in Maybe(Offers), CreateWallet(w, load)
    PROVE  Linked(rows')
<1> DEFINE Granted(k) == CreditRow(w, "GRANT", "COMPLETED", load[k], NoParent, 0)
           added == [k \in DOMAIN load |-> Granted(k)]
<1>1. rows' = rows \o added
  BY DEF CreateWallet, Post
<1>2. \A k \in DOMAIN load : HasFields(Granted(k)) /\ Granted(k).parent = NoParent
  BY CreditRowFields
<1> HIDE DEF Granted
<1>3. PICK n \in Nat : DOMAIN load = 1 .. n
  <2>1. CASE load = <<>>
    BY <2>1
  <2>2. CASE \E e \in Offers : load = <<e>>
    BY <2>2
  <2> QED
    BY <2>1, <2>2 DEF Maybe
<1>4. IsSequence(added) /\ Len(added) = n
  BY <1>3, FunctionIsSequence
<1>5. Linked(rows \o added)
  BY <1>2, <1>3, <1>4, RowsAreUnchanged, SequenceDomain, AppendUnlinked DEF Linked
<1> QED
  BY <1>1, <1>5

LEMMA PurchasesKeepLinks ==
    ASSUME Linked(rows), NEW w, NEW offer, NEW bonus,
           \/ CreditWallet(w, offer, bonus)
           \/ RequestPurchase(w, offer, bonus)
           \/ RequestCompletedPurchase(w, offer, bonus)
    PROVE  Linked(rows')
<1>1. CASE CreditWallet(w, offer, bonus)
  BY <1>1, PurchaseKeepsLinks DEF CreditWallet, Post
<1>2. CASE RequestPurchase(w, offer, bonus)
  BY <1>2, PurchaseKeepsLinks DEF RequestPurchase
<1>3. CASE RequestCompletedPurchase(w, offer, bonus)
  BY <1>3, PurchaseKeepsLinks DEF RequestCompletedPurchase
<1> QED
  BY <1>1, <1>2, <1>3

LEMMA ExpireCreditsKeepsLinks ==
    ASSUME Linked(rows), NEW i, NEW applied, ExpireCredits(i, applied)
    PROVE  Linked(rows')
<1> DEFINE w == rows[i].wallet
           all == rows[i].available
           Take(n) == [j \in {i} |-> n]
           spent == DebitRow(w, "SPEND", applied, Take(applied), creditBalance[w])
           expired == DebitRow(w, "EXPIRED", all - applied, Take(all - applied),
                               creditBalance[w] - applied)
           debits == IF applied = 0 THEN <<expired>>
                     ELSE IF applied = all THEN <<spent>> ELSE <<spent, expired>>
           kept == Consume(Take(all))
<1>1. rows' = kept \o debits
  BY DEF ExpireCredits, Post
<1>2. /\ HasFields(spent) /\ spent.parent = NoParent
      /\ HasFields(expired) /\ expired.parent = NoParent
  BY DebitRowFields
<1> HIDE DEF spent, expired
<1>3. IsSequence(debits) /\ \A k \in 1 .. Len(debits) : debits[k] \in {spent, expired}
  <2>1. /\ <<spent>> \in Seq({spent, expired}) /\ <<expired>> \in Seq({spent, expired})
        /\ <<spent, expired>> \in Seq({spent, expired})
    OBVIOUS
  <2>2. debits \in Seq({spent, expired})
    BY <2>1, Zenon
  <2> QED
    BY <2>2, ElementOfSeq DEF IsSequence
<1> HIDE DEF debits
<1>4. Linked(kept \o debits)
  BY <1>2, <1>3, DebitsKeepLinks
<1> QED
  BY <1>1, <1>4

LEMMA ConvertKeepsLinks ==
    ASSUME Linked(rows), NEW w, NEW v, ConvertToPostpaid(w, v)
    PROVE  Linked(rows')
<1> DEFINE held == creditBalance[w]
           out(take) == DebitRow(w, "TERMINATION", held, take, held)
           in == TransferRow(v, held)
<1>1. ASSUME NEW take, rows' = Consume(take) \o <<out(take), in>>
      PROVE  Linked(rows')
  <2>1. HasFields(out(take)) /\ out(take).parent = NoParent
    BY DebitRowFields
  <2>2. HasFields(in) /\ in.parent = NoParent
    BY CreditRowFields DEF TransferRow
  <2> DEFINE o == out(take)
  <2> HIDE DEF out, in
  <2>3. IsSequence(<<o, in>>) /\ \A k \in 1 .. Len(<<o, in>>) : <<o, in>>[k] \in {o, in}
    <3>1. <<o, in>> \in Seq({o, in})
      OBVIOUS
    <3> QED
      BY <3>1, ElementOfSeq DEF IsSequence
  <2> QED
    BY <1>1, <2>1, <2>2, <2>3, DebitsKeepLinks
<1>2. CASE UNCHANGED rows
  BY <1>2
<1>3. UNCHANGED rows \/ \E take : rows' = Consume(take) \o <<out(take), in>>
  BY DEF ConvertToPostpaid
<1> QED
  BY <1>1, <1>2, <1>3

LEMMA TerminateKeepsLinks ==
    ASSUME Linked(rows), NEW w, TerminateWallet(w)
    PROVE  Linked(rows')
<1>1. CASE UNCHANGED rows
  BY <1>1
<1>2. UNCHANGED rows \/ \E take : PostDebit(w, "TERMINATION", creditBalance[w], take)
  BY DEF TerminateWallet
<1> QED
  BY <1>1, <1>2, PostDebitKeepsLinks

LEMMA CompletePurchaseKeepsLinks ==
    ASSUME Linked(rows), NEW i \in 1 .. Len(rows), CompletePurchase(i)
    PROVE  Linked(rows')
<1> DEFINE w == rows[i].wallet
           bonus == PendingBonus(i)
           paid == Completed(rows[i], creditBalance[w])
           earned == [j \in bonus |-> Completed(rows[j], paid.after)]
<1>1. Len(rows) \in Nat /\ DOMAIN rows = 1 .. Len(rows)
  BY SequenceDomain DEF Linked
<1>2. ASSUME NEW j \in 1 .. Len(rows), NEW before
      PROVE  LET row == Completed(rows[j], before)
             IN  /\ HasFields(row) /\ row.status = "COMPLETED"
                 /\ row.wallet = rows[j].wallet /\ row.reason = rows[j].reason
                 /\ row.parent = rows[j].parent
  BY DEF Completed, HasFields, Linked
<1>3. /\ IsPendingPurchase(i)
      /\ rows' = [j \in 1 .. Len(rows) |->
                     IF j = i THEN paid ELSE IF j \in bonus THEN earned[j] ELSE rows[j]]
  BY <1>1 DEF CompletePurchase
<1>4. IsSequence(rows') /\ Len(rows') = Len(rows)
  <2>1. rows' = [j \in 1 .. Len(rows) |-> rows'[j]]
    BY <1>3
  <2> QED
    BY <1>1, <2>1, FunctionIsSequence
<1>5. ASSUME NEW j \in 1 .. Len(rows)
      PROVE  /\ HasFields(rows'[j])
             /\ rows'[j].wallet = rows[j].wallet /\ rows'[j].reason = rows[j].reason
             /\ rows'[j].parent = rows[j].parent
             /\ rows'[j].status = IF j \in {i} \cup bonus THEN "COMPLETED" ELSE rows[j].status
  <2>1. CASE j = i
    BY <1>2, <1>3, <2>1
  <2>2. CASE j # i /\ j \in bonus
    BY <1>2, <1>3, <2>2
  <2>3. CASE j # i /\ j \notin bonus
    BY <1>3, <2>3 DEF Linked
  <2> QED
    BY <2>1, <2>2, <2>3
<1> QED
  BY <1>3, <1>4, <1>5, SettleKeepsLinks

LEMMA FailPurchaseKeepsLinks ==
    ASSUME Linked(rows), NEW i \in 1 .. Len(rows), FailPurchase(i)
    PROVE  Linked(rows')
<1>1. Len(rows) \in Nat /\ DOMAIN rows = 1 .. Len(rows)
  BY SequenceDomain DEF Linked
<1>2. /\ IsPendingPurchase(i)
      /\ rows' = [j \in 1 .. Len(rows) |->
                     IF j \in {i} \cup PendingBonus(i)
                     THEN [rows[j] EXCEPT !.status = "FAILED"] ELSE rows[j]]
  BY <1>1 DEF FailPurchase
<1>3. IsSequence(rows') /\ Len(rows') = Len(rows)
  <2>1. rows' = [j \in 1 .. Len(rows) |-> rows'[j]]
    BY <1>2
  <2> QED
    BY <1>1, <2>1, FunctionIsSequence
<1>4. ASSUME NEW j \in 1 .. Len(rows)
      PROVE  /\ HasFields(rows'[j])
             /\ rows'[j].wallet = rows[j].wallet /\ rows'[j].reason = rows[j].reason
             /\ rows'[j].parent = rows[j].parent
             /\ rows'[j].status = IF j \in {i} \cup PendingBonus(i)
                                  THEN "FAILED" ELSE rows[j].status
  BY <1>2 DEF Linked, HasFields
<1> QED
  BY <1>2, <1>3, <1>4, SettleKeepsLinks

----------------------------------------------------------------------------

RowsAreLinked == Linked(rows)

LEMMA LinkedInit == Init => RowsAreLinked
<1> SUFFICES ASSUME Init PROVE RowsAreLinked
  OBVIOUS
<1>1. <<>> \in Seq({})
  OBVIOUS
<1> QED
  BY <1>1 DEF Init, RowsAreLinked, Linked, IsSequence

LEMMA LinkedStep == RowsAreLinked /\ [Next]_vars => RowsAreLinked'
<1> SUFFICES ASSUME Linked(rows), [Next]_vars PROVE Linked(rows')
  BY DEF RowsAreLinked
<1>0. DOMAIN rows = 1 .. Len(rows)
  BY SequenceDomain DEF Linked
<1>1. ASSUME NEW w \in Wallets, NEW load \in Maybe(Offers), CreateWallet(w, load)
      PROVE  Linked(rows')
  BY <1>1, CreateWalletKeepsLinks
<1>2. ASSUME NEW w \in Wallets, NEW offer \in Offers, NEW bonus \in Maybe(Bonuses),
             \/ CreditWallet(w, offer, bonus)
             \/ RequestPurchase(w, offer, bonus)
             \/ RequestCompletedPurchase(w, offer, bonus)
      PROVE  Linked(rows')
  BY <1>2, PurchasesKeepLinks
<1>3. ASSUME NEW w \in Wallets, NEW amount \in Debits, NEW ref \in 1 .. MaxTime + 1,
             DebitWallet(w, amount, ref)
      PROVE  Linked(rows')
  BY <1>3, PostDebitKeepsLinks DEF DebitWallet
<1>4. ASSUME NEW w \in Wallets, NEW amount \in Debits, ManualBalanceDebit(w, amount)
      PROVE  Linked(rows')
  BY <1>4, PostDebitKeepsLinks DEF ManualBalanceDebit
<1>5. ASSUME NEW w \in Wallets, TerminateWallet(w)
      PROVE  Linked(rows')
  BY <1>5, TerminateKeepsLinks
<1>6. ASSUME NEW w \in Wallets, NEW v \in Wallets, ConvertToPostpaid(w, v)
      PROVE  Linked(rows')
  BY <1>6, ConvertKeepsLinks
<1>7. ASSUME NEW i \in DOMAIN rows, CompletePurchase(i)
      PROVE  Linked(rows')
  BY <1>0, <1>7, CompletePurchaseKeepsLinks
<1>8. ASSUME NEW i \in DOMAIN rows, FailPurchase(i)
      PROVE  Linked(rows')
  BY <1>0, <1>8, FailPurchaseKeepsLinks
<1>9. CASE ExpiryRun
  BY <1>9, ExpireCreditsKeepsLinks DEF ExpiryRun
<1>10. CASE Tick \/ UNCHANGED vars
  BY <1>10 DEF Tick, vars
<1> QED
  BY <1>1, <1>2, <1>3, <1>4, <1>5, <1>6, <1>7, <1>8, <1>9, <1>10 DEF Next

(* A bonus has the status and the wallet of the purchase that earned it, in *)
(* every reachable state: completePurchasedCreditTransaction and            *)
(* FailPurchasedCreditTransaction settle both in one transaction, and       *)
(* nothing else changes the status of either.                               *)
THEOREM BonusFollowsPurchase == Spec => []BonusSharesPurchaseFate
<1>1. RowsAreLinked => BonusSharesPurchaseFate
  BY SequenceDomain DEF RowsAreLinked, Linked, LinkedTo, BonusSharesPurchaseFate
<1> QED
  BY <1>1, LinkedInit, LinkedStep, PTL DEF Spec

----------------------------------------------------------------------------
(* Types, and the rows that accounts are made of.                            *)

(* An offer a row may be created for.                                       *)
Offered == [credits : Nat, lifetime : Nat, priority : Nat]
Reasons == {"GRANT", "PURCHASE", "BONUS", "SPEND", "MANUAL", "EXPIRED", "TERMINATION"}
Statuses == {"PENDING", "COMPLETED", "FAILED"}
Breakdowns == SUBSET [credit : Nat, credits : Nat]

(* The fields of a row have their types.                                    *)
LEMMA RowFields ==
    ASSUME NEW r \in Row
    PROVE  /\ r.wallet \in Wallets /\ r.type \in {"credit", "debit"}
           /\ r.reason \in Reasons /\ r.status \in Statuses
           /\ r.credits \in Nat /\ r.available \in Nat /\ r.expiry \in Nat
           /\ r.priority \in Nat /\ r.created \in Nat
           /\ r.before \in Int /\ r.after \in Int
           /\ r.parent \in Nat /\ r.consumed \in Breakdowns
BY DEF Row, Reasons, Statuses, Breakdowns

LEMMA OffersAreOffered == Offers \subseteq Offered /\ Bonuses \subseteq Offered
BY LedgerConstants DEF Offered

LEMMA TimeIsNat ==
    ASSUME now \in Time
    PROVE  /\ now \in Nat /\ NoExpiry \in Nat
           /\ \A offer \in Offered : ExpiryOf(offer) \in Nat
BY LedgerConstants DEF Time, NoExpiry, ExpiryOf, Offered

LEMMA CreditsAvailableType ==
    ASSUME NEW before \in Int, NEW after \in Int, NEW credits \in Nat
    PROVE  ComputeCreditsAvailable(before, after, credits) \in Nat
BY DEF ComputeCreditsAvailable, NonNegative

LEMMA CreditRowType ==
    ASSUME now \in Time, NEW w \in Wallets, NEW reason \in Reasons, NEW status \in Statuses,
           NEW offer \in Offered, NEW parent \in Nat, NEW before \in Int
    PROVE  CreditRow(w, reason, status, offer, parent, before) \in Row
<1> DEFINE after == IF status = "COMPLETED" THEN before + offer.credits ELSE before
           available == ComputeCreditsAvailable(before, after, offer.credits)
<1>1. offer.credits \in Nat /\ offer.priority \in Nat
  BY DEF Offered
<1>2. after \in Int
  BY <1>1
<1>3. available \in Nat
  BY <1>1, <1>2, CreditsAvailableType
<1>4. now \in Nat /\ ExpiryOf(offer) \in Nat
  BY TimeIsNat
<1>5. {} \in Breakdowns /\ "credit" \in {"credit", "debit"}
  BY DEF Breakdowns
<1>6. CreditRow(w, reason, status, offer, parent, before) =
        [wallet |-> w, type |-> "credit", reason |-> reason, status |-> status,
         credits |-> offer.credits, available |-> available,
         expiry |-> ExpiryOf(offer), priority |-> offer.priority,
         created |-> now, before |-> before, after |-> after,
         parent |-> parent, consumed |-> {}]
  BY DEF CreditRow
<1> HIDE DEF after, available
<1> QED
  BY <1>1, <1>2, <1>3, <1>4, <1>5, <1>6 DEF Row, Reasons, Statuses, Breakdowns

(* What a debit takes from the credits: numbers.                            *)
IsTake(take) ==
    /\ DOMAIN take \subseteq Nat
    /\ \A i \in DOMAIN take : take[i] \in Nat

LEMMA DebitRowType ==
    ASSUME now \in Time, NEW w \in Wallets, NEW reason \in Reasons, NEW amount \in Nat,
           NEW take, IsTake(take), NEW before \in Int
    PROVE  DebitRow(w, reason, amount, take, before) \in Row
<1> DEFINE consumed == {[credit |-> i, credits |-> take[i]] : i \in {j \in DOMAIN take : take[j] > 0}}
<1>1. consumed \in Breakdowns
  BY DEF IsTake, Breakdowns
<1>2. before - amount \in Int
  OBVIOUS
<1>3. now \in Nat /\ NoExpiry \in Nat /\ NoParent \in Nat /\ 0 \in Nat
  BY TimeIsNat DEF NoParent
<1>4. DebitRow(w, reason, amount, take, before) =
        [wallet |-> w, type |-> "debit", reason |-> reason, status |-> "COMPLETED",
         credits |-> amount, available |-> 0, expiry |-> NoExpiry, priority |-> 0,
         created |-> now, before |-> before, after |-> before - amount,
         parent |-> NoParent, consumed |-> consumed]
  BY DEF DebitRow
<1>5. "debit" \in {"credit", "debit"} /\ "COMPLETED" \in Statuses
  BY DEF Statuses
<1> HIDE DEF consumed
<1> QED
  BY <1>1, <1>2, <1>3, <1>4, <1>5 DEF Row, Reasons, Statuses, Breakdowns

LEMMA CompletedType ==
    ASSUME NEW r \in Row, NEW before \in Int
    PROVE  /\ Completed(r, before) \in Row
           /\ Completed(r, before).after = before + r.credits
<1> DEFINE after == before + r.credits
           available == ComputeCreditsAvailable(before, after, r.credits)
<1>1. r.credits \in Nat /\ after \in Int
  BY RowFields
<1>2. available \in Nat
  BY <1>1, CreditsAvailableType
<1>3. Completed(r, before) =
        [r EXCEPT !.status = "COMPLETED", !.before = before, !.after = after,
                  !.available = available]
  BY DEF Completed
<1> HIDE DEF available
<1>4. Completed(r, before) \in Row
  BY <1>1, <1>2, <1>3 DEF Row
<1>5. Completed(r, before).after = after
  BY <1>3 DEF Row
<1> QED
  BY <1>4, <1>5

----------------------------------------------------------------------------
(* The books: what is left of the credits of a sequence of rows, and what   *)
(* its debits consumed.                                                     *)

ConsumeIn(s, take) ==
    [i \in DOMAIN s |->
        IF i \in DOMAIN take THEN [s[i] EXCEPT !.available = @ - take[i]] ELSE s[i]]

Uses(s) == UNION {{<<d, c>> : c \in s[d].consumed} : d \in DOMAIN s}
UsesFrom(s, i) == {u \in Uses(s) : u[2].credit = i}
UseWorth(U) == SumOver([u \in U |-> u[2].credits], U)
TakenIn(s, i) == UseWorth(UsesFrom(s, i))
Worth(C) == SumOver([c \in C |-> c.credits], C)

(* Every consumption is one of a settled credit of the same wallet.         *)
ConsumesSettled(s) ==
    \A d \in 1 .. Len(s) :
        /\ IsFiniteSet(s[d].consumed)
        /\ \A c \in s[d].consumed :
              /\ c.credit \in 1 .. Len(s)
              /\ s[c.credit].type = "credit" /\ s[c.credit].status = "COMPLETED"
              /\ s[c.credit].wallet = s[d].wallet

(* What a credit could pay is what it has left plus what was taken from it. *)
CreditsAddUp(s) ==
    \A i \in 1 .. Len(s) :
        s[i].type = "credit" =>
            s[i].available + TakenIn(s, i) =
                ComputeCreditsAvailable(s[i].before, s[i].after, s[i].credits)

(* A debit consumes its amount; only a manual one may be short of it.       *)
Covered(row) ==
    row.type = "debit" =>
        /\ Worth(row.consumed) <= row.credits
        /\ Worth(row.consumed) < row.credits => row.reason = "MANUAL"

Booked(s) ==
    /\ s \in Seq(Row)
    /\ ConsumesSettled(s)
    /\ CreditsAddUp(s)
    /\ \A d \in 1 .. Len(s) : Covered(s[d])

(* The image of a finite set under a function is finite.                    *)
LEMMA FiniteImage ==
    ASSUME NEW S, IsFiniteSet(S), NEW f
    PROVE  IsFiniteSet({f[x] : x \in S})
<1> DEFINE Img(T) == {f[x] : x \in T}
           Good == {T \in SUBSET S : IsFiniteSet(Img(T))}
<1>1. {} \in Good
  <2>1. Img({}) = {}
    OBVIOUS
  <2> QED
    BY <2>1, FS_EmptySet
<1>2. ASSUME NEW T \in SUBSET S, T \in Good, NEW a \in S \ T
      PROVE  T \cup {a} \in Good
  <2>1. Img(T \cup {a}) = Img(T) \cup {f[a]}
    OBVIOUS
  <2>2. IsFiniteSet(Img(T) \cup {f[a]})
    BY <1>2, FS_AddElement
  <2> QED
    BY <2>1, <2>2
<1>3. S \in Good
  <2> HIDE DEF Good
  <2> QED
    BY <1>1, <1>2, FiniteInduction
<1> QED
  BY <1>3

LEMMA UsesFinite ==
    ASSUME NEW s \in Seq(Row), \A d \in 1 .. Len(s) : IsFiniteSet(s[d].consumed), NEW i
    PROVE  /\ IsFiniteSet(UsesFrom(s, i))
           /\ \A u \in UsesFrom(s, i) :
                 /\ u[1] \in 1 .. Len(s) /\ u[2] \in s[u[1]].consumed
                 /\ u = <<u[1], u[2]>>
                 /\ u[2].credit = i /\ u[2].credits \in Nat
<1>1. Len(s) \in Nat /\ DOMAIN s = 1 .. Len(s) /\ \A d \in 1 .. Len(s) : s[d] \in Row
  BY LenProperties
<1> DEFINE Of(d) == {<<d, c>> : c \in s[d].consumed}
           All == {Of(d) : d \in 1 .. Len(s)}
<1>2. ASSUME NEW d \in 1 .. Len(s) PROVE IsFiniteSet(Of(d))
  <2> DEFINE C == s[d].consumed
             f == [c \in C |-> <<d, c>>]
  <2>1. Of(d) = {f[c] : c \in C}
    OBVIOUS
  <2> HIDE DEF f, Of
  <2> QED
    BY <2>1, FiniteImage
<1>3. IsFiniteSet(All)
  <2> DEFINE g == [d \in 1 .. Len(s) |-> Of(d)]
  <2>1. All = {g[d] : d \in 1 .. Len(s)}
    OBVIOUS
  <2>2. IsFiniteSet(1 .. Len(s))
    BY <1>1, FS_Interval
  <2> HIDE DEF g, All
  <2> QED
    BY <2>1, <2>2, FiniteImage
<1>4. IsFiniteSet(UNION All)
  <2>1. \A T \in All : IsFiniteSet(T)
    BY <1>2
  <2> HIDE DEF All
  <2> QED
    BY <1>3, <2>1, FS_UNION
<1>5. Uses(s) = UNION All
  BY <1>1 DEF Uses
<1>6. IsFiniteSet(UsesFrom(s, i))
  BY <1>4, <1>5, FS_Subset DEF UsesFrom
<1>7. ASSUME NEW u \in UsesFrom(s, i)
      PROVE  /\ u[1] \in 1 .. Len(s) /\ u[2] \in s[u[1]].consumed
             /\ u = <<u[1], u[2]>>
             /\ u[2].credit = i /\ u[2].credits \in Nat
  <2>1. PICK d \in 1 .. Len(s) : u \in Of(d)
    BY <1>5 DEF UsesFrom
  <2>2. PICK c \in s[d].consumed : u = <<d, c>>
    BY <2>1
  <2>3. c \in [credit : Nat, credits : Nat]
    BY <1>1, RowFields DEF Breakdowns
  <2> QED
    BY <2>2, <2>3 DEF UsesFrom
<1> QED
  BY <1>6, <1>7

LEMMA UseWorthAdds ==
    ASSUME NEW U, IsFiniteSet(U), NEW N, IsFiniteSet(N), U \cap N = {},
           \A u \in U \cup N : u[2].credits \in Nat
    PROVE  UseWorth(U \cup N) = UseWorth(U) + UseWorth(N) /\ UseWorth(U) \in Nat
<1> DEFINE f == [u \in U \cup N |-> u[2].credits]
           g == [u \in U |-> u[2].credits]
           h == [u \in N |-> u[2].credits]
<1>1. /\ \A u \in U \cup N : f[u] \in Int
      /\ \A u \in U : g[u] \in Nat /\ g[u] = f[u]
      /\ \A u \in N : h[u] = f[u]
  OBVIOUS
<1>2. UseWorth(U \cup N) = SumOver(f, U \cup N)
  BY DEF UseWorth
<1>3. UseWorth(U) = SumOver(g, U) /\ UseWorth(N) = SumOver(h, N)
  BY DEF UseWorth
<1> HIDE DEF f, g, h
<1>4. SumOver(f, U \cup N) = SumOver(f, U) + SumOver(f, N)
  <2>1. N \cap U = {} /\ U \cap N = {}
    OBVIOUS
  <2> QED
    BY <1>1, <2>1, SumUnion
<1>5. SumOver(g, U) = SumOver(f, U) /\ SumOver(h, N) = SumOver(f, N)
  BY <1>1, SumSame
<1>6. SumOver(g, U) \in Nat
  BY <1>1, SumNat
<1> QED
  BY <1>2, <1>3, <1>4, <1>5, <1>6

LEMMA NoUses ==
    ASSUME NEW U, U = {}
    PROVE  UseWorth(U) = 0
BY SumEmpty DEF UseWorth

LEMMA OneUse ==
    ASSUME NEW u, u[2].credits \in Nat
    PROVE  UseWorth({u}) = u[2].credits
<1> DEFINE f == [v \in {u} |-> v[2].credits]
<1>1. f[u] = u[2].credits
  OBVIOUS
<1>2. UseWorth({u}) = SumOver(f, {u})
  BY DEF UseWorth
<1> HIDE DEF f
<1> QED
  BY <1>1, <1>2, SumOfOne

(* Only the consumptions count.                                             *)
LEMMA SameUses ==
    ASSUME NEW s \in Seq(Row), NEW t \in Seq(Row), Len(t) = Len(s),
           \A d \in 1 .. Len(s) : t[d].consumed = s[d].consumed, NEW i
    PROVE  UsesFrom(t, i) = UsesFrom(s, i)
<1>1. DOMAIN s = 1 .. Len(s) /\ DOMAIN t = 1 .. Len(s)
  BY LenProperties
<1> QED
  BY <1>1 DEF UsesFrom, Uses

(* A row that is added adds its own.                                        *)
LEMMA AddedUses ==
    ASSUME NEW s \in Seq(Row), NEW t \in Seq(Row), Len(t) = Len(s) + 1,
           \A d \in 1 .. Len(s) : t[d].consumed = s[d].consumed, NEW i
    PROVE  UsesFrom(t, i) = UsesFrom(s, i)
               \cup {<<Len(s) + 1, c>> : c \in {b \in t[Len(s) + 1].consumed : b.credit = i}}
<1>1. DOMAIN s = 1 .. Len(s) /\ DOMAIN t = 1 .. Len(s) + 1 /\ Len(s) \in Nat
  BY LenProperties
<1> DEFINE n == Len(s) + 1
<1>2. 1 .. Len(s) + 1 = (1 .. Len(s)) \cup {n}
  BY <1>1
<1>3. Uses(t) = Uses(s) \cup {<<n, c>> : c \in t[n].consumed}
  <2>1. ASSUME NEW u PROVE u \in Uses(t) <=> \E d \in 1 .. n : \E c \in t[d].consumed : u = <<d, c>>
    BY <1>1 DEF Uses
  <2>2. ASSUME NEW u PROVE u \in Uses(s) <=> \E d \in 1 .. Len(s) : \E c \in s[d].consumed : u = <<d, c>>
    BY <1>1 DEF Uses
  <2> HIDE DEF n
  <2>3. ASSUME NEW u
        PROVE  u \in Uses(t) <=> u \in Uses(s) \/ \E c \in t[n].consumed : u = <<n, c>>
    BY <2>1, <2>2, <1>2 DEF n
  <2> QED
    BY <2>3
<1>4. \A c : <<n, c>>[2] = c
  OBVIOUS
<1> HIDE DEF n
<1>5. ASSUME NEW u
      PROVE  u \in UsesFrom(t, i) <=>
                u \in UsesFrom(s, i) \/ u \in {<<n, c>> : c \in {b \in t[n].consumed : b.credit = i}}
  BY <1>3, <1>4 DEF UsesFrom
<1> QED
  BY <1>5 DEF n

(* A row without consumptions changes what was taken from no credit.        *)
LEMMA NothingTaken ==
    ASSUME NEW s \in Seq(Row), NEW t \in Seq(Row), Len(t) = Len(s) + 1,
           \A d \in 1 .. Len(s) : t[d].consumed = s[d].consumed,
           t[Len(s) + 1].consumed = {}, NEW i
    PROVE  TakenIn(t, i) = TakenIn(s, i)
<1> DEFINE N == {<<Len(s) + 1, c>> : c \in {b \in t[Len(s) + 1].consumed : b.credit = i}}
<1>1. N = {}
  OBVIOUS
<1>2. UsesFrom(t, i) = UsesFrom(s, i) \cup N
  BY AddedUses
<1> HIDE DEF N
<1>3. UsesFrom(t, i) = UsesFrom(s, i)
  BY <1>1, <1>2
<1> QED
  BY <1>3 DEF TakenIn

(* What is taken of a row that no row consumes.                             *)
LEMMA TakenOfNew ==
    ASSUME NEW s \in Seq(Row), ConsumesSettled(s), NEW i,
           i \in 1 .. Len(s) => s[i].status # "COMPLETED"
    PROVE  TakenIn(s, i) = 0
<1>1. UsesFrom(s, i) = {}
  BY UsesFinite DEF ConsumesSettled
<1> QED
  BY <1>1, NoUses DEF TakenIn

----------------------------------------------------------------------------
(* Consumptions.                                                            *)

(* What a debit of wallet w may take from the rows s.                       *)
ValidTake(s, w, take) ==
    /\ take = [i \in DOMAIN take |-> take[i]]
    /\ DOMAIN take \subseteq 1 .. Len(s)
    /\ \A i \in DOMAIN take :
          /\ take[i] \in Nat /\ take[i] <= s[i].available
          /\ s[i].type = "credit" /\ s[i].status = "COMPLETED" /\ s[i].wallet = w

Breakdown(take, T) == {[credit |-> i, credits |-> take[i]] : i \in {j \in T : take[j] > 0}}

(* The breakdown a debit records adds up to what it took.                   *)
LEMMA BreakdownWorth ==
    ASSUME NEW take, IsTake(take), IsFiniteSet(DOMAIN take)
    PROVE  LET B == Breakdown(take, DOMAIN take)
           IN  IsFiniteSet(B) /\ Worth(B) = SumOver(take, DOMAIN take)
<1> DEFINE D == DOMAIN take
           Entry(i) == [credit |-> i, credits |-> take[i]]
           value == [c \in Breakdown(take, D) |-> c.credits]
           Good == {T \in SUBSET D : /\ IsFiniteSet(Breakdown(take, T))
                                     /\ SumOver(value, Breakdown(take, T)) = SumOver(take, T)}
<1>1. \A i \in D : i \in Nat /\ take[i] \in Nat
  BY DEF IsTake
<1>2. \A T \in SUBSET D : Breakdown(take, T) \subseteq Breakdown(take, D)
  BY DEF Breakdown
<1>3. \A i \in D : take[i] > 0 => value[Entry(i)] = take[i]
  BY DEF Breakdown
<1>4. \A T \in SUBSET D : \A c \in Breakdown(take, T) : c.credit \in T /\ value[c] \in Nat
  BY <1>1 DEF Breakdown
<1>5. {} \in Good
  <2>1. Breakdown(take, {}) = {}
    BY DEF Breakdown
  <2>2. SumOver(value, {}) = 0 /\ SumOver(take, {}) = 0
    BY SumEmpty
  <2> QED
    BY <2>1, <2>2, FS_EmptySet
<1> HIDE DEF value
<1>6. ASSUME NEW T \in SUBSET D, T \in Good, NEW a \in D \ T
      PROVE  T \cup {a} \in Good
  <2>1. IsFiniteSet(T) /\ a \notin T /\ IsFiniteSet(Breakdown(take, T))
    BY <1>6, FS_Subset
  <2>2. SumOver(take, T \cup {a}) = take[a] + SumOver(take, T) /\ SumOver(take, T) \in Int
    <3>1. \A x \in T \cup {a} : take[x] \in Int
      BY <1>1
    <3> QED
      BY <2>1, <3>1, SumWith, SumType
  <2>3. CASE take[a] > 0
    <3>1. Breakdown(take, T \cup {a}) = Breakdown(take, T) \cup {Entry(a)}
      BY <2>3 DEF Breakdown
    <3>2. Entry(a) \notin Breakdown(take, T)
      <4>1. Entry(a).credit = a
        OBVIOUS
      <4> QED
        BY <1>4, <2>1, <4>1
    <3>3. value[Entry(a)] = take[a] /\ take[a] \in Nat
      BY <1>1, <1>3, <2>3
    <3> DEFINE e == Entry(a)
    <3> HIDE DEF Entry
    <3>4. SumOver(value, Breakdown(take, T) \cup {e}) = value[e] + SumOver(value, Breakdown(take, T))
      <4>1. \A x \in Breakdown(take, T) \cup {e} : value[x] \in Int
        BY <1>4, <3>3
      <4> HIDE DEF e
      <4> QED
        BY <2>1, <3>2, <4>1, SumWith DEF e
    <3>5. IsFiniteSet(Breakdown(take, T) \cup {e})
      BY <2>1, FS_AddElement
    <3> QED
      BY <1>6, <2>2, <3>1, <3>3, <3>4, <3>5
  <2>4. CASE ~ take[a] > 0
    <3>1. Breakdown(take, T \cup {a}) = Breakdown(take, T)
      BY <2>4 DEF Breakdown
    <3>2. take[a] = 0
      BY <1>1, <2>4
    <3> QED
      BY <1>6, <2>2, <3>1, <3>2
  <2> QED
    BY <2>3, <2>4
<1>7. D \in Good
  <2> HIDE DEF Good, D
  <2> QED
    BY <1>5, <1>6, FiniteInduction DEF D
<1>8. Worth(Breakdown(take, D)) = SumOver(value, Breakdown(take, D))
  BY DEF Worth, value
<1> QED
  BY <1>7, <1>8

(* Two rows that may differ in what they have available.                    *)
SameButAvailable(r, q) ==
    /\ r.wallet = q.wallet /\ r.type = q.type /\ r.reason = q.reason /\ r.status = q.status
    /\ r.credits = q.credits /\ r.before = q.before /\ r.after = q.after
    /\ r.consumed = q.consumed /\ r.parent = q.parent

LEMMA ConsumeInType ==
    ASSUME NEW s \in Seq(Row), NEW w, NEW take, ValidTake(s, w, take)
    PROVE  LET t == ConsumeIn(s, take)
           IN  /\ t \in Seq(Row) /\ Len(t) = Len(s)
               /\ \A i \in 1 .. Len(s) :
                     /\ SameButAvailable(t[i], s[i])
                     /\ t[i].available =
                           s[i].available - (IF i \in DOMAIN take THEN take[i] ELSE 0)
<1> DEFINE t == ConsumeIn(s, take)
           n == Len(s)
<1>1. n \in Nat /\ DOMAIN s = 1 .. n /\ \A i \in 1 .. n : s[i] \in Row
  BY LenProperties
<1>2. t = [i \in 1 .. n |-> IF i \in DOMAIN take
                            THEN [s[i] EXCEPT !.available = @ - take[i]] ELSE s[i]]
  BY <1>1 DEF ConsumeIn
<1>3. ASSUME NEW i \in 1 .. n
      PROVE  /\ t[i] \in Row /\ SameButAvailable(t[i], s[i])
             /\ t[i].available = s[i].available - (IF i \in DOMAIN take THEN take[i] ELSE 0)
  <2>1. s[i] \in Row /\ s[i].available \in Nat
    BY <1>1, RowFields
  <2>2. CASE i \in DOMAIN take
    <3>1. t[i] = [s[i] EXCEPT !.available = s[i].available - take[i]]
      BY <1>2, <2>2
    <3> DEFINE rest == s[i].available - take[i]
    <3>2. rest \in Nat
      BY <2>1, <2>2 DEF ValidTake
    <3> HIDE DEF rest, t
    <3> DEFINE r == s[i]
    <3> HIDE DEF r
    <3>3. r \in Row /\ t[i] = [r EXCEPT !.available = rest]
      BY <2>1, <3>1 DEF r, rest
    <3>4. t[i] \in Row /\ SameButAvailable(t[i], r) /\ t[i].available = rest
      BY <3>2, <3>3 DEF Row, SameButAvailable
    <3> QED
      BY <2>2, <3>4 DEF r, rest
  <2>3. CASE i \notin DOMAIN take
    <3>1. t[i] = s[i]
      BY <1>2, <2>3
    <3> QED
      BY <2>1, <2>3, <3>1 DEF SameButAvailable
  <2> QED
    BY <2>2, <2>3
<1>4. t = [i \in 1 .. n |-> t[i]]
  BY <1>2
<1> HIDE DEF t, n
<1>5. t \in [1 .. n -> Row]
  BY <1>3, <1>4
<1>6. t \in Seq(Row)
  BY <1>1, <1>5, SeqDef
<1>7. Len(t) = n
  BY <1>1, <1>4, FunctionIsSequence
<1> QED
  BY <1>3, <1>6, <1>7 DEF t, n

LEMMA AddedRow ==
    ASSUME NEW s \in Seq(Row), NEW row \in Row
    PROVE  LET t == s \o <<row>>
           IN  /\ t \in Seq(Row) /\ Len(t) = Len(s) + 1 /\ Len(s) \in Nat
               /\ \A i \in 1 .. Len(s) : t[i] = s[i]
               /\ t[Len(s) + 1] = row
<1>1. <<row>> \in Seq(Row) /\ Len(<<row>>) = 1 /\ <<row>>[1] = row
  OBVIOUS
<1>2. Len(s) \in Nat
  BY LenProperties
<1> QED
  BY <1>1, <1>2, ConcatProperties

(* A debit that consumes what it may leaves the books in order.             *)
LEMMA DebitIsBooked ==
    ASSUME NEW s, Booked(s), NEW take, NEW row \in Row, ValidTake(s, row.wallet, take),
           row.type = "debit", row.consumed = Breakdown(take, DOMAIN take),
           SumOver(take, DOMAIN take) <= row.credits,
           SumOver(take, DOMAIN take) < row.credits => row.reason = "MANUAL"
    PROVE  Booked(ConsumeIn(s, take) \o <<row>>)
<1> DEFINE k == ConsumeIn(s, take)
           t == k \o <<row>>
           n == Len(s)
           Taken(i) == IF i \in DOMAIN take THEN take[i] ELSE 0
<1>1. s \in Seq(Row) /\ n \in Nat
  BY LenProperties DEF Booked
<1>2. /\ k \in Seq(Row) /\ Len(k) = n
      /\ \A i \in 1 .. n : SameButAvailable(k[i], s[i]) /\ k[i].available = s[i].available - Taken(i)
  BY <1>1, ConsumeInType
<1> HIDE DEF k
<1>3. /\ t \in Seq(Row) /\ Len(t) = n + 1
      /\ \A i \in 1 .. n : t[i] = k[i]
      /\ t[n + 1] = row
  BY <1>2, AddedRow
<1>4. \A i \in 1 .. n : SameButAvailable(t[i], s[i]) /\ t[i].available = s[i].available - Taken(i)
  BY <1>2, <1>3
<1>5. 1 .. n + 1 = (1 .. n) \cup {n + 1}
  BY <1>1
<1>6. IsTake(take) /\ IsFiniteSet(DOMAIN take)
  <2>1. IsFiniteSet(1 .. n)
    BY <1>1, FS_Interval
  <2>2. DOMAIN take \subseteq 1 .. n
    BY DEF ValidTake
  <2> QED
    BY <1>1, <2>1, <2>2, FS_Subset DEF ValidTake, IsTake
<1>7. IsFiniteSet(row.consumed) /\ Worth(row.consumed) = SumOver(take, DOMAIN take)
  BY <1>6, BreakdownWorth
<1>8. \A c \in row.consumed : c.credit \in DOMAIN take /\ c.credits = take[c.credit]
                              /\ take[c.credit] > 0
  BY DEF Breakdown
<1> HIDE DEF t
<1>9. ConsumesSettled(t)
  <2> SUFFICES ASSUME NEW d \in 1 .. n + 1
               PROVE  /\ IsFiniteSet(t[d].consumed)
                      /\ \A c \in t[d].consumed :
                            /\ c.credit \in 1 .. n + 1
                            /\ t[c.credit].type = "credit" /\ t[c.credit].status = "COMPLETED"
                            /\ t[c.credit].wallet = t[d].wallet
    BY <1>3 DEF ConsumesSettled
  <2>1. CASE d \in 1 .. n
    BY <1>1, <1>4, <1>5, <2>1 DEF Booked, ConsumesSettled, SameButAvailable
  <2>2. CASE d = n + 1
    <3>1. \A c \in row.consumed :
             /\ c.credit \in 1 .. n
             /\ s[c.credit].type = "credit" /\ s[c.credit].status = "COMPLETED"
             /\ s[c.credit].wallet = row.wallet
      BY <1>8 DEF ValidTake
    <3> QED
      BY <1>3, <1>4, <1>5, <1>7, <2>2, <3>1 DEF SameButAvailable
  <2> QED
    BY <1>5, <2>1, <2>2
<1>10. \A d \in 1 .. n + 1 : Covered(t[d])
  <2> SUFFICES ASSUME NEW d \in 1 .. n + 1 PROVE Covered(t[d])
    OBVIOUS
  <2>1. CASE d \in 1 .. n
    BY <1>4, <2>1 DEF Booked, Covered, SameButAvailable
  <2>2. CASE d = n + 1
    BY <1>3, <1>7, <2>2 DEF Covered
  <2> QED
    BY <1>5, <2>1, <2>2
<1>11. ASSUME NEW i \in 1 .. n
       PROVE  TakenIn(t, i) = TakenIn(s, i) + Taken(i) /\ TakenIn(s, i) \in Nat
  <2> DEFINE N == {<<n + 1, c>> : c \in {b \in row.consumed : b.credit = i}}
             U == UsesFrom(s, i)
  <2>1. UsesFrom(t, i) = U \cup N
    BY <1>1, <1>3, <1>4, AddedUses DEF SameButAvailable
  <2>2. /\ IsFiniteSet(U)
        /\ \A u \in U : u[1] \in 1 .. n /\ u[2].credits \in Nat
    BY <1>1, UsesFinite DEF Booked, ConsumesSettled
  <2>3. N = IF Taken(i) > 0 THEN {<<n + 1, [credit |-> i, credits |-> take[i]]>>} ELSE {}
    BY DEF Breakdown
  <2>4. Taken(i) \in Nat
    BY DEF ValidTake
  <2>5. IsFiniteSet(N) /\ UseWorth(N) = Taken(i) /\ \A u \in N : u[1] = n + 1 /\ u[2].credits \in Nat
    <3>1. CASE Taken(i) > 0
      <4> DEFINE u == <<n + 1, [credit |-> i, credits |-> take[i]]>>
      <4>1. u[1] = n + 1 /\ u[2].credits = Taken(i) /\ u[2].credits \in Nat
        BY <2>4, <3>1
      <4>2. N = {u}
        BY <2>3, <3>1
      <4> HIDE DEF u, N
      <4>3. IsFiniteSet({u}) /\ UseWorth({u}) = u[2].credits
        BY <4>1, OneUse, FS_Singleton
      <4> QED
        BY <4>1, <4>2, <4>3
    <3>2. CASE ~ Taken(i) > 0
      <4>1. N = {} /\ Taken(i) = 0
        BY <2>3, <2>4, <3>2
      <4> HIDE DEF N
      <4> QED
        BY <4>1, NoUses, FS_EmptySet
    <3> QED
      BY <3>1, <3>2
  <2> HIDE DEF N, U
  <2>6. U \cap N = {}
    BY <1>1, <2>2, <2>5
  <2>7. UseWorth(U \cup N) = UseWorth(U) + UseWorth(N) /\ UseWorth(U) \in Nat
    BY <2>2, <2>5, <2>6, UseWorthAdds
  <2> QED
    BY <2>1, <2>5, <2>7 DEF TakenIn, U
<1>12. CreditsAddUp(t)
  <2> SUFFICES ASSUME NEW i \in 1 .. n + 1, t[i].type = "credit"
               PROVE  t[i].available + TakenIn(t, i) =
                         ComputeCreditsAvailable(t[i].before, t[i].after, t[i].credits)
    BY <1>3 DEF CreditsAddUp
  <2>1. CASE i \in 1 .. n
    <3>1. s[i].available + TakenIn(s, i) =
             ComputeCreditsAvailable(s[i].before, s[i].after, s[i].credits)
      BY <1>4, <2>1 DEF Booked, CreditsAddUp, SameButAvailable
    <3>2. s[i].available \in Nat /\ Taken(i) \in Nat
      <4>1. s[i] \in Row
        BY <1>1, <2>1, ElementOfSeq
      <4> QED
        BY <4>1, RowFields DEF ValidTake
    <3>3. t[i].available + TakenIn(t, i) = s[i].available + TakenIn(s, i)
      BY <1>4, <1>11, <2>1, <3>2
    <3> QED
      BY <1>4, <2>1, <3>1, <3>3 DEF SameButAvailable
  <2>2. CASE i = n + 1
    BY <1>3, <2>2
  <2> QED
    BY <1>5, <2>1, <2>2
<1> QED
  BY <1>3, <1>9, <1>10, <1>12 DEF Booked, t, k

(* A new credit leaves the books in order.                                  *)
LEMMA CreditIsBooked ==
    ASSUME NEW s, Booked(s), NEW row \in Row, row.type = "credit", row.consumed = {},
           row.available = ComputeCreditsAvailable(row.before, row.after, row.credits)
    PROVE  Booked(s \o <<row>>)
<1> DEFINE t == s \o <<row>>
           n == Len(s)
<1>1. s \in Seq(Row)
  BY DEF Booked
<1>2. /\ t \in Seq(Row) /\ Len(t) = n + 1 /\ n \in Nat
      /\ \A i \in 1 .. n : t[i] = s[i]
      /\ t[n + 1] = row
  BY <1>1, AddedRow
<1> HIDE DEF t
<1>3. 1 .. n + 1 = (1 .. n) \cup {n + 1}
  BY <1>2
<1>4. ConsumesSettled(t)
  <2>1. ASSUME NEW d \in 1 .. n
        PROVE  /\ IsFiniteSet(t[d].consumed)
               /\ \A c \in t[d].consumed :
                     /\ c.credit \in 1 .. n + 1
                     /\ t[c.credit].type = "credit" /\ t[c.credit].status = "COMPLETED"
                     /\ t[c.credit].wallet = t[d].wallet
    BY <1>2, <1>3 DEF Booked, ConsumesSettled
  <2>2. IsFiniteSet(t[n + 1].consumed) /\ t[n + 1].consumed = {}
    BY <1>2, FS_EmptySet
  <2> QED
    BY <1>2, <1>3, <2>1, <2>2 DEF ConsumesSettled
<1>5. \A d \in 1 .. n + 1 : Covered(t[d])
  BY <1>2, <1>3 DEF Booked, Covered
<1>6. CreditsAddUp(t)
  <2> SUFFICES ASSUME NEW i \in 1 .. n + 1, t[i].type = "credit"
               PROVE  t[i].available + TakenIn(t, i) =
                         ComputeCreditsAvailable(t[i].before, t[i].after, t[i].credits)
    BY <1>2 DEF CreditsAddUp
  <2>1. TakenIn(t, i) = TakenIn(s, i)
    BY <1>1, <1>2, NothingTaken
  <2>2. CASE i \in 1 .. n
    BY <1>2, <2>1, <2>2 DEF Booked, CreditsAddUp
  <2>3. CASE i = n + 1
    <3>1. i \notin 1 .. n
      BY <1>2, <2>3
    <3>2. TakenIn(s, i) = 0
      BY <1>1, <3>1, TakenOfNew DEF Booked
    <3> QED
      BY <1>2, <2>1, <2>3, <3>2, RowFields
  <2> QED
    BY <1>3, <2>2, <2>3
<1> QED
  BY <1>2, <1>4, <1>5, <1>6 DEF Booked, t

----------------------------------------------------------------------------
(* The operations.                                                          *)

(* The inductive invariant.                                                 *)
BooksInv == TypeOK /\ Booked(rows)

LEMMA TwoRows ==
    ASSUME NEW S, NEW s \in Seq(S), NEW a \in S, NEW b \in S
    PROVE  s \o <<a, b>> = (s \o <<a>>) \o <<b>> /\ <<a, b>> \in Seq(S)
<1>1. <<a>> \in Seq(S) /\ <<b>> \in Seq(S) /\ <<a, b>> \in Seq(S)
  OBVIOUS
<1>2. <<a>> \o <<b>> = <<a, b>>
  <2> DEFINE t == <<a>> \o <<b>>
             u == <<a, b>>
  <2>1. Len(<<a>>) = 1 /\ Len(<<b>>) = 1 /\ Len(u) = 2 /\ <<a>>[1] = a /\ <<b>>[1] = b
        /\ u[1] = a /\ u[2] = b
    OBVIOUS
  <2>2. t \in Seq(S) /\ Len(t) = 2 /\ \A i \in 1 .. 2 : t[i] = u[i]
    <3>1. /\ t \in Seq(S) /\ Len(t) = Len(<<a>>) + Len(<<b>>)
          /\ \A i \in 1 .. Len(<<a>>) + Len(<<b>>) :
                t[i] = IF i <= Len(<<a>>) THEN <<a>>[i] ELSE <<b>>[i - Len(<<a>>)]
      BY <1>1, ConcatProperties
    <3> HIDE DEF t, u
    <3> QED
      BY <2>1, <3>1
  <2> HIDE DEF t, u
  <2>3. t = u
    BY <1>1, <2>1, <2>2, SeqEqual DEF u
  <2> QED
    BY <2>3 DEF t, u
<1>3. (s \o <<a>>) \o <<b>> = s \o (<<a>> \o <<b>>)
  BY <1>1, ConcatAssociative
<1> QED
  BY <1>1, <1>2, <1>3

(* What enters a wallet's balance keeps the types.                          *)
LEMMA PostedType ==
    ASSUME posted \in Seq(DOMAIN rows), rows \in Seq(Row),
           NEW kept \in Seq(Row), Len(kept) = Len(rows), NEW added \in Seq(Row)
    PROVE  posted \o [k \in DOMAIN added |-> Len(rows) + k] \in Seq(DOMAIN (kept \o added))
<1> DEFINE n == Len(rows)
           m == Len(added)
           more == [k \in DOMAIN added |-> n + k]
<1>1. /\ n \in Nat /\ m \in Nat /\ DOMAIN rows = 1 .. n /\ DOMAIN added = 1 .. m
      /\ Len(kept \o added) = n + m /\ kept \o added \in Seq(Row)
  <2>1. n \in Nat /\ m \in Nat /\ DOMAIN rows = 1 .. n /\ DOMAIN added = 1 .. m
    BY LenProperties
  <2>2. Len(kept \o added) = Len(kept) + Len(added) /\ kept \o added \in Seq(Row)
    BY ConcatProperties
  <2> QED
    BY <2>1, <2>2
<1>2. DOMAIN (kept \o added) = 1 .. n + m
  BY <1>1, LenProperties
<1>3. more \in [1 .. m -> 1 .. n + m]
  BY <1>1
<1>4. more \in Seq(1 .. n + m)
  BY <1>1, <1>3, SeqDef
<1>5. posted \in Seq(1 .. n + m)
  <2>1. 1 .. n \subseteq 1 .. n + m
    BY <1>1
  <2> QED
    BY <1>1, <2>1, SeqMonotonic
<1> HIDE DEF more, n, m
<1>6. posted \o more \in Seq(1 .. n + m)
  BY <1>4, <1>5, ConcatProperties
<1> QED
  BY <1>2, <1>6 DEF more, n

LEMMA PostKeepsTypes ==
    ASSUME TypeOK, NEW w \in Wallets, NEW kept \in Seq(Row), Len(kept) = Len(rows),
           NEW added \in Seq(Row), Post(w, kept, added),
           now' = now, walletStatus' \in [Wallets -> {"none", "active", "closed"}]
    PROVE  TypeOK'
<1>1. LastAfter(w, added) \in Int
  <2>1. CASE added = <<>>
    BY <2>1 DEF LastAfter, TypeOK
  <2>2. CASE added # <<>>
    <3>1. Len(added) \in 1 .. Len(added)
      <4>1. Len(added) \in Nat \ {0}
        BY <2>2, EmptySeq
      <4> QED
        BY <4>1
    <3>2. added[Len(added)] \in Row
      BY <3>1, ElementOfSeq
    <3> QED
      BY <2>2, <3>2, RowFields DEF LastAfter
  <2> QED
    BY <2>1, <2>2
<1>2. rows' \in Seq(Row) /\ rows' = kept \o added
  BY ConcatProperties DEF Post
<1>3. posted' \in Seq(DOMAIN rows')
  BY <1>2, PostedType DEF Post, TypeOK
<1>4. creditBalance' \in [Wallets -> Int]
  BY <1>1 DEF Post, TypeOK
<1>5. balance' \in [Wallets -> Int]
  <2>1. LastAfter(w, added) * ConversionRate \in Int
    BY <1>1, LedgerConstants
  <2> QED
    BY <2>1 DEF Post, TypeOK
<1> QED
  BY <1>2, <1>3, <1>4, <1>5 DEF TypeOK

LEMMA ConsumeIsConsumeIn ==
    ASSUME NEW take
    PROVE  Consume(take) = ConsumeIn(rows, take)
BY DEF Consume, ConsumeIn

LEMMA DebitRowIs ==
    ASSUME NEW w, NEW reason, NEW amount, NEW take, NEW before
    PROVE  LET row == DebitRow(w, reason, amount, take, before)
           IN  /\ row.wallet = w /\ row.type = "debit" /\ row.reason = reason
               /\ row.credits = amount /\ row.after = before - amount
               /\ row.consumed = Breakdown(take, DOMAIN take)
BY DEF DebitRow, Breakdown

LEMMA CreditRowIs ==
    ASSUME NEW w, NEW reason, NEW status, NEW offer, NEW parent, NEW before
    PROVE  LET row == CreditRow(w, reason, status, offer, parent, before)
           IN  /\ row.type = "credit" /\ row.consumed = {}
               /\ row.available = ComputeCreditsAvailable(row.before, row.after, row.credits)
BY DEF CreditRow

LEMMA ValidIsTake ==
    ASSUME NEW s \in Seq(Row), NEW w, NEW take, ValidTake(s, w, take)
    PROVE  IsTake(take) /\ IsFiniteSet(DOMAIN take)
<1>1. Len(s) \in Nat
  BY LenProperties
<1>2. IsFiniteSet(1 .. Len(s)) /\ DOMAIN take \subseteq 1 .. Len(s)
  BY <1>1, FS_Interval DEF ValidTake
<1> QED
  BY <1>1, <1>2, FS_Subset DEF ValidTake, IsTake

LEMMA PostDebitBooks ==
    ASSUME BooksInv, now' = now, walletStatus' \in [Wallets -> {"none", "active", "closed"}],
           NEW w \in Wallets, NEW reason \in Reasons, NEW amount \in Nat,
           NEW take, ValidTake(rows, w, take),
           SumOver(take, DOMAIN take) <= amount,
           SumOver(take, DOMAIN take) < amount => reason = "MANUAL",
           PostDebit(w, reason, amount, take)
    PROVE  BooksInv'
<1> DEFINE row == DebitRow(w, reason, amount, take, creditBalance[w])
<1>1. rows \in Seq(Row) /\ now \in Time /\ creditBalance[w] \in Int
  BY DEF BooksInv, TypeOK
<1>2. row \in Row
  BY <1>1, ValidIsTake, DebitRowType
<1>3. /\ row.wallet = w /\ row.type = "debit" /\ row.reason = reason
      /\ row.credits = amount /\ row.consumed = Breakdown(take, DOMAIN take)
  BY DebitRowIs
<1>4. Post(w, ConsumeIn(rows, take), <<row>>)
  BY ConsumeIsConsumeIn DEF PostDebit
<1> HIDE DEF row
<1>5. Booked(ConsumeIn(rows, take) \o <<row>>)
  BY <1>2, <1>3, DebitIsBooked DEF BooksInv
<1>6. rows' = ConsumeIn(rows, take) \o <<row>>
  BY <1>4 DEF Post
<1>7. TypeOK'
  <2>1. <<row>> \in Seq(Row)
    BY <1>2
  <2>2. ConsumeIn(rows, take) \in Seq(Row) /\ Len(ConsumeIn(rows, take)) = Len(rows)
    BY <1>1, ConsumeInType
  <2> QED
    BY <1>4, <2>1, <2>2, PostKeepsTypes DEF BooksInv
<1>8. Booked(rows)'
  BY <1>5, <1>6
<1> QED
  BY <1>7, <1>8 DEF BooksInv

(* A debit's consumptions are valid, and add up to its amount if the        *)
(* eligible credits cover it.                                               *)
LEMMA ConsumptionIsValid ==
    ASSUME BooksInv, NEW w \in Wallets, NEW ref, NEW amount \in Nat,
           NEW take \in Consumptions(EligibleCredits(w, ref), amount)
    PROVE  /\ ValidTake(rows, w, take)
           /\ SumOver(take, DOMAIN take) <= amount
           /\ Available(EligibleCredits(w, ref)) >= amount =>
                 SumOver(take, DOMAIN take) = amount
<1> DEFINE S == EligibleCredits(w, ref)
<1>1. rows \in Seq(Row) /\ DOMAIN rows = 1 .. Len(rows)
  BY LenProperties DEF BooksInv, TypeOK
<1>2. /\ take \in [S -> 0 .. amount]
      /\ \A i \in S : take[i] <= rows[i].available
  BY DEF Consumptions
<1>3. /\ FoldFunction(+, 0, take) <= amount
      /\ FoldFunction(+, 0, take) = amount \/ FoldFunction(+, 0, take) = Available(S)
  BY DEF Consumptions
<1>4. FoldFunction(+, 0, take) = SumOver(take, DOMAIN take)
  BY FunSum
<1>5. \A i \in S : /\ i \in 1 .. Len(rows) /\ rows[i].type = "credit"
                   /\ rows[i].status = "COMPLETED" /\ rows[i].wallet = w
  BY <1>1 DEF EligibleCredits
<1> HIDE DEF S
<1>6. ValidTake(rows, w, take)
  <2>1. DOMAIN take = S /\ take = [i \in DOMAIN take |-> take[i]]
    BY <1>2
  <2>2. \A i \in S : take[i] \in Nat /\ take[i] <= rows[i].available
    BY <1>2
  <2> QED
    BY <1>5, <2>1, <2>2 DEF ValidTake
<1>7. SumOver(take, DOMAIN take) \in Nat
  BY <1>1, <1>6, ValidIsTake, SumNat DEF IsTake
<1> DEFINE total == SumOver(take, DOMAIN take)
           available == Available(S)
<1>8. total \in Nat /\ total <= amount /\ (total = amount \/ total = available)
  BY <1>3, <1>4, <1>7
<1> HIDE DEF total, available
<1>9. available >= amount => total = amount
  BY <1>8
<1> QED
  BY <1>6, <1>8, <1>9 DEF total, available, S

LEMMA PurchaseRowsBooked ==
    ASSUME BooksInv, NEW w \in Wallets, NEW reason \in Reasons, NEW status \in Statuses,
           NEW offer \in Offered, NEW bonus, bonus = <<>> \/ \E b \in Offered : bonus = <<b>>,
           NEW before \in Int
    PROVE  LET added == PurchaseRows(w, reason, status, offer, bonus, before)
           IN  /\ added \in Seq(Row) /\ added # <<>> /\ added[Len(added)] \in Row
               /\ Booked(rows \o added)
<1> DEFINE purchase == CreditRow(w, reason, status, offer, NoParent, before)
           grant == CreditRow(w, "BONUS", status, bonus[1], Len(rows) + 1, purchase.after)
           added == PurchaseRows(w, reason, status, offer, bonus, before)
<1>0. rows \in Seq(Row) /\ now \in Time /\ Len(rows) + 1 \in Nat /\ Booked(rows)
  BY LenProperties DEF BooksInv, TypeOK
<1>1. purchase \in Row
  BY <1>0, CreditRowType DEF NoParent
<1>2. /\ purchase.type = "credit" /\ purchase.consumed = {}
      /\ purchase.available =
            ComputeCreditsAvailable(purchase.before, purchase.after, purchase.credits)
  BY CreditRowIs
<1>3. added = IF bonus = <<>> THEN <<purchase>> ELSE <<purchase, grant>>
  BY DEF PurchaseRows
<1>4. ASSUME bonus # <<>>
      PROVE  /\ grant \in Row /\ grant.type = "credit" /\ grant.consumed = {}
             /\ grant.available =
                   ComputeCreditsAvailable(grant.before, grant.after, grant.credits)
  <2> DEFINE after == purchase.after
  <2>1. after \in Int
    BY <1>1, RowFields
  <2>2. bonus[1] \in Offered /\ "BONUS" \in Reasons
    BY <1>4 DEF Reasons
  <2> HIDE DEF after, purchase
  <2>3. grant \in Row
    BY <1>0, <2>1, <2>2, CreditRowType DEF after
  <2>4. /\ grant.type = "credit" /\ grant.consumed = {}
        /\ grant.available = ComputeCreditsAvailable(grant.before, grant.after, grant.credits)
    BY CreditRowIs
  <2> QED
    BY <2>3, <2>4
<1> HIDE DEF purchase, grant, added
<1>5. Booked(rows \o <<purchase>>)
  BY <1>0, <1>1, <1>2, CreditIsBooked
<1>6. CASE bonus = <<>>
  <2>1. /\ <<purchase>> \in Seq(Row) /\ <<purchase>> # <<>> /\ Len(<<purchase>>) = 1
        /\ <<purchase>>[1] = purchase
    BY <1>1
  <2>2. added = <<purchase>>
    BY <1>3, <1>6
  <2> QED
    BY <1>1, <1>5, <2>1, <2>2 DEF added
<1>7. CASE bonus # <<>>
  <2>1. grant \in Row
    BY <1>4, <1>7
  <2>2. Booked((rows \o <<purchase>>) \o <<grant>>)
    BY <1>4, <1>5, <1>7, CreditIsBooked
  <2>3. /\ rows \o <<purchase, grant>> = (rows \o <<purchase>>) \o <<grant>>
        /\ <<purchase, grant>> \in Seq(Row)
    BY <1>0, <1>1, <2>1, TwoRows
  <2>4. /\ <<purchase, grant>> # <<>> /\ Len(<<purchase, grant>>) = 2
        /\ <<purchase, grant>>[2] = grant
    OBVIOUS
  <2>5. added = <<purchase, grant>>
    BY <1>3, <1>7
  <2> QED
    BY <2>1, <2>2, <2>3, <2>4, <2>5 DEF added
<1> QED
  BY <1>6, <1>7

LEMMA MaybeOffered ==
    ASSUME NEW S \in SUBSET Offered, NEW bonus \in Maybe(S)
    PROVE  bonus = <<>> \/ \E b \in Offered : bonus = <<b>>
BY DEF Maybe

LEMMA CreateWalletBooks ==
    ASSUME BooksInv, NEW w \in Wallets, NEW load \in Maybe(Offers), CreateWallet(w, load)
    PROVE  BooksInv'
<1> DEFINE Granted(k) == CreditRow(w, "GRANT", "COMPLETED", load[k], NoParent, 0)
           added == [k \in DOMAIN load |-> Granted(k)]
<1>1. /\ Post(w, rows, added) /\ now' = now
      /\ walletStatus' \in [Wallets -> {"none", "active", "closed"}]
  BY DEF CreateWallet, BooksInv, TypeOK
<1>2. load = <<>> \/ \E e \in Offered : load = <<e>>
  BY MaybeOffered, OffersAreOffered
<1>3. rows \in Seq(Row) /\ Booked(rows) /\ now \in Time
  BY DEF BooksInv, TypeOK
<1>4. added \in Seq(Row) /\ Booked(rows \o added)
  <2>1. CASE load = <<>>
    <3>1. added = <<>>
      BY <2>1
    <3>2. rows \o <<>> = rows /\ <<>> \in Seq(Row)
      BY <1>3, ConcatEmptySeq, EmptySeq
    <3> HIDE DEF added
    <3> QED
      BY <1>3, <3>1, <3>2
  <2>2. CASE \E e \in Offered : load = <<e>>
    <3>1. PICK e \in Offered : load = <<e>>
      BY <2>2
    <3> DEFINE row == CreditRow(w, "GRANT", "COMPLETED", e, NoParent, 0)
    <3>2. added = <<row>>
      BY <3>1
    <3>3. row \in Row
      BY <1>3, CreditRowType DEF NoParent, Reasons, Statuses
    <3>4. /\ row.type = "credit" /\ row.consumed = {}
          /\ row.available = ComputeCreditsAvailable(row.before, row.after, row.credits)
      BY CreditRowIs
    <3> HIDE DEF row, added
    <3>5. Booked(rows \o <<row>>) /\ <<row>> \in Seq(Row)
      BY <1>3, <3>3, <3>4, CreditIsBooked
    <3> QED
      BY <3>2, <3>5
  <2> QED
    BY <1>2, <2>1, <2>2
<1> HIDE DEF added
<1>5. TypeOK'
  BY <1>1, <1>3, <1>4, PostKeepsTypes DEF BooksInv
<1>6. rows' = rows \o added
  BY <1>1 DEF Post
<1>7. Booked(rows)'
  BY <1>4, <1>6
<1> QED
  BY <1>5, <1>7 DEF BooksInv

LEMMA CreditWalletBooks ==
    ASSUME BooksInv, NEW w \in Wallets, NEW offer \in Offers, NEW bonus \in Maybe(Bonuses),
           CreditWallet(w, offer, bonus)
    PROVE  BooksInv'
<1> DEFINE added == PurchaseRows(w, "GRANT", "COMPLETED", offer, bonus, creditBalance[w])
<1>1. Post(w, rows, added) /\ now' = now /\ walletStatus' = walletStatus
  BY DEF CreditWallet
<1>2. /\ rows \in Seq(Row) /\ creditBalance[w] \in Int
      /\ walletStatus' \in [Wallets -> {"none", "active", "closed"}]
  BY <1>1 DEF BooksInv, TypeOK
<1>3. added \in Seq(Row) /\ Booked(rows \o added)
  <2>1. bonus = <<>> \/ \E b \in Offered : bonus = <<b>>
    BY MaybeOffered, OffersAreOffered
  <2>2. offer \in Offered /\ "GRANT" \in Reasons /\ "COMPLETED" \in Statuses
    BY OffersAreOffered DEF Reasons, Statuses
  <2> QED
    BY <1>2, <2>1, <2>2, PurchaseRowsBooked
<1> HIDE DEF added
<1>4. TypeOK'
  BY <1>1, <1>2, <1>3, PostKeepsTypes DEF BooksInv
<1>5. rows' = rows \o added
  BY <1>1 DEF Post
<1>6. Booked(rows)'
  BY <1>3, <1>5
<1> QED
  BY <1>4, <1>6 DEF BooksInv

LEMMA RequestPurchaseBooks ==
    ASSUME BooksInv, NEW w \in Wallets, NEW offer \in Offers, NEW bonus \in Maybe(Bonuses),
           RequestPurchase(w, offer, bonus)
    PROVE  BooksInv'
<1> DEFINE added == PurchaseRows(w, "PURCHASE", "PENDING", offer, bonus, creditBalance[w])
<1>1. rows' = rows \o added /\ UNCHANGED <<now, walletStatus, balance, creditBalance, posted>>
  BY DEF RequestPurchase
<1>2. rows \in Seq(Row) /\ creditBalance[w] \in Int /\ posted \in Seq(DOMAIN rows)
  BY DEF BooksInv, TypeOK
<1>3. added \in Seq(Row) /\ Booked(rows \o added)
  <2>1. bonus = <<>> \/ \E b \in Offered : bonus = <<b>>
    BY MaybeOffered, OffersAreOffered
  <2>2. offer \in Offered /\ "PURCHASE" \in Reasons /\ "PENDING" \in Statuses
    BY OffersAreOffered DEF Reasons, Statuses
  <2> QED
    BY <1>2, <2>1, <2>2, PurchaseRowsBooked
<1> HIDE DEF added
<1>4. Booked(rows)'
  BY <1>1, <1>3
<1>5. DOMAIN rows \subseteq DOMAIN (rows \o added)
  <2>1. /\ Len(rows \o added) = Len(rows) + Len(added) /\ Len(rows) \in Nat /\ Len(added) \in Nat
        /\ rows \o added \in Seq(Row)
    BY <1>2, <1>3, ConcatProperties, LenProperties
  <2>2. DOMAIN rows = 1 .. Len(rows) /\ DOMAIN (rows \o added) = 1 .. Len(rows \o added)
    BY <1>2, <2>1, LenProperties
  <2> QED
    BY <2>1, <2>2
<1>6. posted' \in Seq(DOMAIN rows')
  BY <1>1, <1>2, <1>5, SeqMonotonic
<1>7. TypeOK'
  BY <1>1, <1>4, <1>6 DEF BooksInv, TypeOK, Booked
<1> QED
  BY <1>4, <1>7 DEF BooksInv

LEMMA RequestCompletedPurchaseBooks ==
    ASSUME BooksInv, NEW w \in Wallets, NEW offer \in Offers, NEW bonus \in Maybe(Bonuses),
           RequestCompletedPurchase(w, offer, bonus)
    PROVE  BooksInv'
<1> DEFINE added == PurchaseRows(w, "PURCHASE", "COMPLETED", offer, bonus, creditBalance[w])
           gained == LastAfter(w, added) - creditBalance[w]
<1>1. /\ rows' = rows \o added /\ UNCHANGED <<now, walletStatus>>
      /\ posted' = posted \o [k \in DOMAIN added |-> Len(rows) + k]
      /\ creditBalance' = [creditBalance EXCEPT ![w] = @ + gained]
      /\ balance' = [balance EXCEPT ![w] = @ + gained * TopupConversionRate]
  BY DEF RequestCompletedPurchase
<1>2. rows \in Seq(Row) /\ creditBalance[w] \in Int /\ posted \in Seq(DOMAIN rows)
  BY DEF BooksInv, TypeOK
<1>3. added \in Seq(Row) /\ added # <<>> /\ added[Len(added)] \in Row /\ Booked(rows \o added)
  <2>1. bonus = <<>> \/ \E b \in Offered : bonus = <<b>>
    BY MaybeOffered, OffersAreOffered
  <2>2. offer \in Offered /\ "PURCHASE" \in Reasons /\ "COMPLETED" \in Statuses
    BY OffersAreOffered DEF Reasons, Statuses
  <2> QED
    BY <1>2, <2>1, <2>2, PurchaseRowsBooked
<1>4. gained \in Int
  <2> HIDE DEF added
  <2> QED
    BY <1>2, <1>3, RowFields DEF LastAfter
<1>5. gained * TopupConversionRate \in Int
  <2> HIDE DEF gained
  <2> QED
    BY <1>4, LedgerConstants
<1> HIDE DEF added, gained
<1>6. Booked(rows)'
  BY <1>1, <1>3
<1>7. posted' \in Seq(DOMAIN rows')
  BY <1>1, <1>2, <1>3, PostedType
<1>8. creditBalance' \in [Wallets -> Int] /\ balance' \in [Wallets -> Int]
  BY <1>1, <1>4, <1>5 DEF BooksInv, TypeOK
<1>9. TypeOK'
  BY <1>1, <1>6, <1>7, <1>8 DEF BooksInv, TypeOK, Booked
<1> QED
  BY <1>6, <1>9 DEF BooksInv

LEMMA StatusStays ==
    ASSUME BooksInv, walletStatus' = walletStatus
    PROVE  walletStatus' \in [Wallets -> {"none", "active", "closed"}]
BY DEF BooksInv, TypeOK

LEMMA DebitWalletBooks ==
    ASSUME BooksInv, NEW w \in Wallets, NEW amount \in Debits, NEW ref,
           DebitWallet(w, amount, ref)
    PROVE  BooksInv'
<1>1. /\ Available(EligibleCredits(w, ref)) >= amount
      /\ now' = now /\ walletStatus' = walletStatus
  BY DEF DebitWallet
<1>2. PICK take \in Consumptions(EligibleCredits(w, ref), amount) :
         PostDebit(w, "SPEND", amount, take)
  BY DEF DebitWallet
<1>3. amount \in Nat /\ "SPEND" \in Reasons
  BY LedgerConstants DEF Reasons
<1>4. ValidTake(rows, w, take) /\ SumOver(take, DOMAIN take) = amount
  BY <1>1, <1>3, ConsumptionIsValid
<1> QED
  BY <1>1, <1>2, <1>3, <1>4, StatusStays, PostDebitBooks

LEMMA ManualBalanceDebitBooks ==
    ASSUME BooksInv, NEW w \in Wallets, NEW amount \in Debits, ManualBalanceDebit(w, amount)
    PROVE  BooksInv'
<1>1. now' = now /\ walletStatus' = walletStatus
  BY DEF ManualBalanceDebit
<1>2. PICK take \in Consumptions(EligibleCredits(w, ThisInstant), amount) :
         PostDebit(w, "MANUAL", amount, take)
  BY DEF ManualBalanceDebit
<1>3. amount \in Nat /\ "MANUAL" \in Reasons
  BY LedgerConstants DEF Reasons
<1>4. ValidTake(rows, w, take) /\ SumOver(take, DOMAIN take) <= amount
  BY <1>3, ConsumptionIsValid
<1> QED
  BY <1>1, <1>2, <1>3, <1>4, StatusStays, PostDebitBooks

LEMMA TerminateWalletBooks ==
    ASSUME BooksInv, NEW w \in Wallets, TerminateWallet(w)
    PROVE  BooksInv'
<1>1. now' = now /\ walletStatus' \in [Wallets -> {"none", "active", "closed"}]
  BY DEF TerminateWallet, BooksInv, TypeOK
<1>2. creditBalance[w] \in Int
  BY DEF BooksInv, TypeOK
<1>3. CASE creditBalance[w] > 0
  <2> DEFINE amount == creditBalance[w]
  <2>1. PICK take \in Consumptions(EligibleCredits(w, ThisInstant), amount) :
           PostDebit(w, "TERMINATION", amount, take)
    BY <1>3 DEF TerminateWallet
  <2>2. Available(EligibleCredits(w, ThisInstant)) >= amount
    BY <1>3 DEF TerminateWallet, CanEmpty
  <2>3. amount \in Nat /\ "TERMINATION" \in Reasons
    BY <1>2, <1>3 DEF Reasons
  <2> HIDE DEF amount
  <2>4. ValidTake(rows, w, take) /\ SumOver(take, DOMAIN take) = amount
    BY <2>1, <2>2, <2>3, ConsumptionIsValid
  <2> QED
    BY <1>1, <2>1, <2>3, <2>4, PostDebitBooks
<1>4. CASE ~ creditBalance[w] > 0
  <2>1. UNCHANGED <<rows, posted, balance, creditBalance>>
    BY <1>4 DEF TerminateWallet
  <2> QED
    BY <1>1, <2>1 DEF BooksInv, TypeOK
<1> QED
  BY <1>3, <1>4

LEMMA ConvertToPostpaidBooks ==
    ASSUME BooksInv, NEW w \in Wallets, NEW v \in Wallets, ConvertToPostpaid(w, v)
    PROVE  BooksInv'
<1> DEFINE held == creditBalance[w]
<1>1. now' = now /\ walletStatus' \in [Wallets -> {"none", "active", "closed"}]
  BY DEF ConvertToPostpaid, BooksInv, TypeOK
<1>2. held \in Int /\ rows \in Seq(Row) /\ now \in Time /\ posted \in Seq(DOMAIN rows)
  BY DEF BooksInv, TypeOK
<1>3. CASE held > 0
  <2> DEFINE out(take) == DebitRow(w, "TERMINATION", held, take, held)
             in == TransferRow(v, held)
  <2>1. PICK take \in Consumptions(EligibleCredits(w, ThisInstant), held) :
           rows' = Consume(take) \o <<out(take), in>>
    BY <1>3 DEF ConvertToPostpaid
  <2>2. /\ Available(EligibleCredits(w, ThisInstant)) >= held
        /\ posted' = posted \o <<Len(rows) + 1, Len(rows) + 2>>
        /\ creditBalance' = [creditBalance EXCEPT ![w] = 0, ![v] = held]
        /\ balance' = [balance EXCEPT ![w] = 0, ![v] = held * ConversionRate]
    BY <1>3 DEF ConvertToPostpaid, CanEmpty
  <2>3. held \in Nat /\ "TERMINATION" \in Reasons
    BY <1>2, <1>3 DEF Reasons
  <2> HIDE DEF held
  <2>4. ValidTake(rows, w, take) /\ SumOver(take, DOMAIN take) = held
    BY <2>1, <2>2, <2>3, ConsumptionIsValid
  <2> DEFINE o == out(take)
             kept == ConsumeIn(rows, take)
  <2>5. o \in Row
    BY <1>2, <2>3, <2>4, ValidIsTake, DebitRowType
  <2>6. /\ o.wallet = w /\ o.type = "debit" /\ o.reason = "TERMINATION"
        /\ o.credits = held /\ o.consumed = Breakdown(take, DOMAIN take)
    BY DebitRowIs
  <2>7. in \in Row
    <3>1. NoExpiryOffer(held) \in Offered
      BY <1>2, <2>3, TimeIsNat DEF NoExpiryOffer, Offered
    <3> QED
      BY <1>2, <3>1, CreditRowType DEF TransferRow, NoParent, Reasons, Statuses
  <2>8. /\ in.type = "credit" /\ in.consumed = {}
        /\ in.available = ComputeCreditsAvailable(in.before, in.after, in.credits)
    BY CreditRowIs DEF TransferRow
  <2>9. rows' = kept \o <<o, in>>
    BY <2>1, ConsumeIsConsumeIn
  <2> HIDE DEF o, in, out
  <2>10. Booked(kept \o <<o>>)
    BY <2>3, <2>4, <2>5, <2>6, DebitIsBooked DEF BooksInv
  <2>11. Booked((kept \o <<o>>) \o <<in>>)
    BY <2>7, <2>8, <2>10, CreditIsBooked
  <2>12. kept \in Seq(Row) /\ Len(kept) = Len(rows)
    BY <1>2, <2>4, ConsumeInType
  <2> HIDE DEF kept
  <2>13. kept \o <<o, in>> = (kept \o <<o>>) \o <<in>> /\ <<o, in>> \in Seq(Row)
    BY <2>5, <2>7, <2>12, TwoRows
  <2>14. Booked(rows)'
    BY <2>9, <2>11, <2>13
  <2>15. posted' \in Seq(DOMAIN rows')
    <3>1. <<Len(rows) + 1, Len(rows) + 2>> = [k \in DOMAIN <<o, in>> |-> Len(rows) + k]
      <4>1. Len(rows) \in Nat
        BY <1>2, LenProperties
      <4> DEFINE n == Len(rows)
      <4> HIDE DEF n
      <4>2. n \in Nat
        BY <4>1 DEF n
      <4>3. DOMAIN <<o, in>> = {1, 2}
        OBVIOUS
      <4>4. <<n + 1, n + 2>> = [k \in {1, 2} |-> n + k]
        BY <4>2
      <4> QED
        BY <4>3, <4>4 DEF n
    <3>2. posted \o [k \in DOMAIN <<o, in>> |-> Len(rows) + k] \in Seq(DOMAIN (kept \o <<o, in>>))
      BY <1>2, <2>12, <2>13, PostedType
    <3> QED
      BY <2>2, <2>9, <3>1, <3>2
  <2>16. creditBalance' \in [Wallets -> Int]
    BY <2>2, <2>3 DEF BooksInv, TypeOK
  <2>17. balance' \in [Wallets -> Int]
    <3>1. held * ConversionRate \in Int
      BY <2>3, LedgerConstants
    <3> QED
      BY <2>2, <3>1 DEF BooksInv, TypeOK
  <2>18. TypeOK'
    BY <1>1, <1>2, <2>14, <2>15, <2>16, <2>17 DEF TypeOK, Booked
  <2> QED
    BY <2>14, <2>18 DEF BooksInv
<1>4. CASE ~ held > 0
  <2>1. UNCHANGED <<rows, posted, balance, creditBalance>>
    BY <1>4 DEF ConvertToPostpaid
  <2> QED
    BY <1>1, <2>1 DEF BooksInv, TypeOK
<1> QED
  BY <1>3, <1>4

(* A debit may take part of one credit.                                     *)
LEMMA TakeOfOne ==
    ASSUME NEW s, NEW i \in 1 .. Len(s), NEW n \in Nat, n <= s[i].available,
           s[i].type = "credit", s[i].status = "COMPLETED"
    PROVE  LET take == [j \in {i} |-> n]
           IN  ValidTake(s, s[i].wallet, take) /\ SumOver(take, DOMAIN take) = n
<1> DEFINE take == [j \in {i} |-> n]
<1>1. ValidTake(s, s[i].wallet, take)
  BY DEF ValidTake
<1>2. DOMAIN take = {i} /\ take[i] = n
  OBVIOUS
<1> HIDE DEF take
<1>3. SumOver(take, {i}) = n
  BY <1>2, SumOfOne
<1> QED
  BY <1>1, <1>2, <1>3 DEF take

IsTakeOf(take, i, n) ==
    take = [j \in DOMAIN take |-> take[j]] /\ DOMAIN take = {i} /\ take[i] = n

LEMMA TakeFromOne ==
    ASSUME NEW s, NEW i \in 1 .. Len(s), NEW w, NEW n, NEW take, IsTakeOf(take, i, n),
           n \in Nat, n <= s[i].available,
           s[i].type = "credit", s[i].status = "COMPLETED", s[i].wallet = w
    PROVE  ValidTake(s, w, take) /\ SumOver(take, DOMAIN take) = n
<1>1. ValidTake(s, w, take)
  BY DEF ValidTake, IsTakeOf
<1>2. SumOver(take, {i}) = n
  BY SumOfOne DEF IsTakeOf
<1> QED
  BY <1>1, <1>2 DEF IsTakeOf

(* Two debits that take one after the other what one takes at once.         *)
LEMMA TakeTwice ==
    ASSUME NEW s \in Seq(Row), NEW i \in 1 .. Len(s), NEW a \in Nat, NEW b \in Nat,
           a + b = s[i].available, NEW row \in Row,
           s[i].type = "credit", s[i].status = "COMPLETED"
    PROVE  ConsumeIn(ConsumeIn(s, [j \in {i} |-> a]) \o <<row>>, [j \in {i} |-> b])
             = ConsumeIn(s, [j \in {i} |-> a + b]) \o <<row>>
<1> DEFINE n == Len(s)
           ta == [j \in {i} |-> a]
           tb == [j \in {i} |-> b]
           tab == [j \in {i} |-> a + b]
           sa == ConsumeIn(s, ta)
           left == ConsumeIn(sa \o <<row>>, tb)
           whole == ConsumeIn(s, tab)
           right == whole \o <<row>>
<1>1. n \in Nat /\ DOMAIN s = 1 .. n /\ s[i] \in Row /\ \A k \in 1 .. n : s[k] \in Row
  BY LenProperties
<1>2. s[i].available \in Nat
  BY <1>1, RowFields
<1>3. ValidTake(s, s[i].wallet, ta) /\ ValidTake(s, s[i].wallet, tab)
  <2>1. a <= s[i].available /\ a + b <= s[i].available /\ a + b \in Nat
    BY <1>2
  <2>2. IsTakeOf(ta, i, a) /\ IsTakeOf(tab, i, a + b)
    BY DEF IsTakeOf
  <2> HIDE DEF ta, tab
  <2>3. ValidTake(s, s[i].wallet, ta)
    BY <2>1, <2>2, TakeFromOne
  <2>4. ValidTake(s, s[i].wallet, tab)
    BY <2>1, <2>2, TakeFromOne
  <2> QED
    BY <2>3, <2>4
<1>4. /\ sa \in Seq(Row) /\ Len(sa) = n /\ sa[i].available = s[i].available - a
      /\ SameButAvailable(sa[i], s[i])
  <2>1. DOMAIN ta = {i} /\ ta[i] = a
    OBVIOUS
  <2> HIDE DEF ta
  <2>2. sa \in Seq(Row) /\ Len(sa) = n
    BY <1>3, ConsumeInType
  <2>3. SameButAvailable(sa[i], s[i]) /\ sa[i].available = s[i].available - ta[i]
    BY <1>3, <2>1, ConsumeInType
  <2> QED
    BY <2>1, <2>2, <2>3
<1>5. whole \in Seq(Row) /\ Len(whole) = n
  <2> HIDE DEF tab
  <2> QED
    BY <1>3, ConsumeInType
<1>6. /\ right \in Seq(Row) /\ Len(right) = n + 1
      /\ \A k \in 1 .. n : right[k] = whole[k]
      /\ right[n + 1] = row
  <2>1. whole \in Seq(Row) /\ Len(whole) = n /\ row \in Row
    BY <1>5
  <2> HIDE DEF whole, n
  <2>2. /\ whole \o <<row>> \in Seq(Row) /\ Len(whole \o <<row>>) = Len(whole) + 1
        /\ \A k \in 1 .. Len(whole) : (whole \o <<row>>)[k] = whole[k]
        /\ (whole \o <<row>>)[Len(whole) + 1] = row
    BY <2>1, AddedRow
  <2> QED
    BY <2>1, <2>2
<1> DEFINE sar == sa \o <<row>>
<1>7. /\ sar \in Seq(Row) /\ Len(sar) = n + 1
      /\ \A k \in 1 .. n : sar[k] = sa[k]
      /\ sar[n + 1] = row
  <2>1. sa \in Seq(Row) /\ Len(sa) = n /\ row \in Row
    BY <1>4
  <2> HIDE DEF sa, n
  <2>2. /\ sa \o <<row>> \in Seq(Row) /\ Len(sa \o <<row>>) = Len(sa) + 1
        /\ \A k \in 1 .. Len(sa) : (sa \o <<row>>)[k] = sa[k]
        /\ (sa \o <<row>>)[Len(sa) + 1] = row
    BY <2>1, AddedRow
  <2> QED
    BY <2>1, <2>2
<1>8. i \in 1 .. n + 1 /\ i # n + 1 /\ 1 .. n + 1 = (1 .. n) \cup {n + 1}
  BY <1>1
<1>9. ValidTake(sar, sar[i].wallet, tb)
  <2>1. /\ sar[i].type = "credit" /\ sar[i].status = "COMPLETED" /\ b <= sar[i].available
        /\ i \in 1 .. Len(sar)
    <3> HIDE DEF sar, sa
    <3> QED
      BY <1>2, <1>4, <1>7, <1>8 DEF SameButAvailable
  <2> HIDE DEF sar
  <2> QED
    BY <2>1, TakeOfOne
<1>10. left \in Seq(Row) /\ Len(left) = n + 1
  <2> HIDE DEF sar, tb
  <2> QED
    BY <1>7, <1>9, ConsumeInType DEF sar
<1>11. ASSUME NEW k \in 1 .. n + 1 PROVE left[k] = right[k]
  <2>1. DOMAIN sar = 1 .. n + 1
    <3> HIDE DEF sar
    <3> QED
      BY <1>7, LenProperties
  <2>2. left[k] = IF k = i THEN [sar[k] EXCEPT !.available = sar[k].available - b] ELSE sar[k]
    <3> HIDE DEF sar
    <3> QED
      BY <2>1 DEF ConsumeIn, sar
  <2>3. CASE k = n + 1
    <3> HIDE DEF sar, right, left
    <3> QED
      BY <1>6, <1>7, <1>8, <2>2, <2>3
  <2>4. CASE k \in 1 .. n
    <3>1. sar[k] = sa[k] /\ right[k] = whole[k]
      BY <1>6, <1>7, <2>4
    <3>2. sa[k] = IF k = i THEN [s[k] EXCEPT !.available = s[k].available - a] ELSE s[k]
      BY <1>1, <2>4 DEF ConsumeIn
    <3>3. whole[k] = IF k = i THEN [s[k] EXCEPT !.available = s[k].available - (a + b)] ELSE s[k]
      BY <1>1, <2>4 DEF ConsumeIn
    <3> HIDE DEF sar, sa, right, left, whole
    <3>4. CASE k # i
      BY <2>2, <3>1, <3>2, <3>3, <3>4
    <3>5. CASE k = i
      <4> DEFINE r == s[i]
      <4>1. r \in Row /\ r.available \in Nat
        BY <1>1, <1>2
      <4> HIDE DEF r
      <4>2. sa[i] = [r EXCEPT !.available = r.available - a]
            /\ whole[i] = [r EXCEPT !.available = r.available - (a + b)]
            /\ left[i] = [sa[i] EXCEPT !.available = sa[i].available - b]
        BY <2>2, <3>1, <3>2, <3>3, <3>5 DEF r
      <4>3. r.available - a - b = r.available - (a + b)
        BY <4>1
      <4>4. sa[i].available = r.available - a
        BY <4>1, <4>2 DEF Row
      <4>5. left[i] = [r EXCEPT !.available = r.available - a - b]
        BY <4>2, <4>4, Zenon
      <4>6. left[i] = whole[i]
        BY <4>2, <4>3, <4>5, Zenon
      <4> QED
        BY <3>1, <3>5, <4>6
    <3> QED
      BY <3>4, <3>5
  <2>5. k = n + 1 \/ k \in 1 .. n
    BY <1>8
  <2> QED
    BY <2>3, <2>4, <2>5
<1> HIDE DEF left, right
<1>12. left = right
  BY <1>6, <1>10, <1>11, SeqEqual
<1> QED
  BY <1>12 DEF left, right

LEMMA ExpireCreditsBooks ==
    ASSUME BooksInv, NEW i \in DOMAIN rows, NEW applied \in 0 .. rows[i].available,
           ExpireCredits(i, applied)
    PROVE  BooksInv'
<1> DEFINE w == rows[i].wallet
           all == rows[i].available
           rest == all - applied
           Take(n) == [j \in {i} |-> n]
           spent == DebitRow(w, "SPEND", applied, Take(applied), creditBalance[w])
           expired == DebitRow(w, "EXPIRED", rest, Take(rest), creditBalance[w] - applied)
           debits == IF applied = 0 THEN <<expired>>
                     ELSE IF applied = all THEN <<spent>> ELSE <<spent, expired>>
           kept == ConsumeIn(rows, Take(all))
<1>1. /\ rows \in Seq(Row) /\ now \in Time /\ DOMAIN rows = 1 .. Len(rows)
      /\ i \in 1 .. Len(rows) /\ rows[i] \in Row
  BY LenProperties DEF BooksInv, TypeOK
<1>2. w \in Wallets /\ all \in Nat /\ applied \in Nat /\ rest \in Nat
      /\ applied + rest = all /\ applied <= all /\ rest <= all
  BY <1>1, RowFields
<1>3. creditBalance[w] \in Int
  BY <1>2 DEF BooksInv, TypeOK
<1>4. rows[i].type = "credit" /\ rows[i].status = "COMPLETED"
  BY DEF ExpireCredits, DueForExpiry
<1>5. /\ Post(w, kept, debits) /\ now' = now /\ walletStatus' = walletStatus
  BY ConsumeIsConsumeIn DEF ExpireCredits
<1>6. ASSUME NEW n \in Nat, n <= all
      PROVE  ValidTake(rows, w, Take(n)) /\ SumOver(Take(n), DOMAIN Take(n)) = n
  BY <1>1, <1>4, <1>6, TakeOfOne
<1>7. kept \in Seq(Row) /\ Len(kept) = Len(rows)
  <2>1. ValidTake(rows, w, Take(all))
    <3>1. all <= all
      BY <1>2
    <3> HIDE DEF Take, w, all
    <3> QED
      BY <1>2, <1>6, <3>1
  <2> HIDE DEF Take
  <2> QED
    BY <1>1, <2>1, ConsumeInType
<1>8. spent \in Row /\ expired \in Row
  <2>1. IsTake(Take(applied)) /\ IsTake(Take(rest))
    BY <1>1, <1>2 DEF IsTake
  <2>2. creditBalance[w] - applied \in Int /\ "SPEND" \in Reasons /\ "EXPIRED" \in Reasons
    BY <1>2, <1>3 DEF Reasons
  <2> HIDE DEF Take, w, rest
  <2> QED
    BY <1>1, <1>2, <1>3, <2>1, <2>2, DebitRowType
<1>9. /\ spent.wallet = w /\ spent.type = "debit" /\ spent.reason = "SPEND"
      /\ spent.credits = applied
      /\ spent.consumed = Breakdown(Take(applied), DOMAIN Take(applied))
  BY DebitRowIs
<1>10. /\ expired.wallet = w /\ expired.type = "debit" /\ expired.reason = "EXPIRED"
       /\ expired.credits = rest
       /\ expired.consumed = Breakdown(Take(rest), DOMAIN Take(rest))
  BY DebitRowIs
<1>11. Booked(ConsumeIn(rows, Take(applied)) \o <<spent>>)
  <2>1. /\ ValidTake(rows, w, Take(applied))
        /\ SumOver(Take(applied), DOMAIN Take(applied)) = applied
    <3> HIDE DEF Take, w, all
    <3> QED
      BY <1>2, <1>6
  <2> HIDE DEF Take, spent, w
  <2> QED
    BY <1>2, <1>8, <1>9, <2>1, DebitIsBooked DEF BooksInv
<1>12. CASE applied = 0
  <2>1. /\ ValidTake(rows, w, Take(rest)) /\ rest = all
        /\ SumOver(Take(rest), DOMAIN Take(rest)) = rest
    <3>1. rest = all
      BY <1>2, <1>12
    <3> HIDE DEF Take, w, all, rest
    <3> QED
      BY <1>2, <1>6, <3>1
  <2> HIDE DEF Take, expired, w, rest
  <2>2. Booked(ConsumeIn(rows, Take(rest)) \o <<expired>>)
    BY <1>2, <1>8, <1>10, <2>1, DebitIsBooked DEF BooksInv
  <2>3. debits = <<expired>> /\ <<expired>> \in Seq(Row)
    BY <1>8, <1>12
  <2>4. Booked(kept \o debits) /\ debits \in Seq(Row)
    BY <2>1, <2>2, <2>3
  <2> QED
    <3> HIDE DEF debits, kept
    <3>1. rows' = kept \o debits
      BY <1>5 DEF Post
    <3>2. Booked(rows)'
      BY <2>4, <3>1
    <3>3. TypeOK'
      BY <1>2, <1>5, <1>7, <2>4, PostKeepsTypes, StatusStays DEF BooksInv
    <3> QED
      BY <3>2, <3>3 DEF BooksInv
<1>13. CASE applied = all /\ applied # 0
  <2>1. debits = <<spent>> /\ <<spent>> \in Seq(Row)
    BY <1>8, <1>13
  <2> HIDE DEF Take, spent
  <2>2. Booked(kept \o debits) /\ debits \in Seq(Row)
    BY <1>11, <1>13, <2>1
  <2> HIDE DEF debits, kept, w
  <2>3. rows' = kept \o debits
    BY <1>5 DEF Post
  <2>4. Booked(rows)'
    BY <2>2, <2>3
  <2>5. TypeOK'
    BY <1>2, <1>5, <1>7, <2>2, PostKeepsTypes, StatusStays DEF BooksInv
  <2> QED
    BY <2>4, <2>5 DEF BooksInv
<1>14. CASE applied # all /\ applied # 0
  <2> DEFINE s == ConsumeIn(rows, Take(applied)) \o <<spent>>
  <2>1. /\ s \in Seq(Row) /\ i \in 1 .. Len(s) /\ s[i].type = "credit"
        /\ s[i].status = "COMPLETED" /\ s[i].wallet = w /\ s[i].available = rest
    <3>1. ValidTake(rows, w, Take(applied)) /\ Take(applied)[i] = applied
          /\ i \in DOMAIN Take(applied)
      BY <1>2, <1>6
    <3> DEFINE t == ConsumeIn(rows, Take(applied))
    <3>2. t \in Seq(Row) /\ Len(t) = Len(rows) /\ SameButAvailable(t[i], rows[i])
          /\ t[i].available = rows[i].available - applied
      <4> HIDE DEF Take, w
      <4> QED
        BY <1>1, <3>1, ConsumeInType
    <3> HIDE DEF t, spent
    <3>3. s \in Seq(Row) /\ Len(s) = Len(rows) + 1 /\ Len(rows) \in Nat /\ s[i] = t[i]
      BY <1>1, <1>8, <3>2, AddedRow DEF t
    <3> QED
      BY <1>1, <1>4, <3>2, <3>3 DEF SameButAvailable
  <2>2. ValidTake(s, w, Take(rest)) /\ SumOver(Take(rest), DOMAIN Take(rest)) = rest
    <3>1. rest \in Nat /\ rest <= s[i].available
      BY <1>2, <2>1
    <3>2. IsTakeOf(Take(rest), i, rest)
      BY DEF IsTakeOf
    <3> HIDE DEF s, w, rest, Take
    <3> QED
      BY <2>1, <3>1, <3>2, TakeFromOne
  <2>3. Booked(ConsumeIn(s, Take(rest)) \o <<expired>>)
    <3> HIDE DEF s, Take, expired, w, rest, spent
    <3> QED
      BY <1>2, <1>8, <1>10, <1>11, <2>2, DebitIsBooked DEF s
  <2>4. ConsumeIn(s, Take(rest)) = kept \o <<spent>>
    <3> HIDE DEF spent
    <3>1. ConsumeIn(s, Take(rest)) = ConsumeIn(rows, Take(applied + rest)) \o <<spent>>
      BY <1>1, <1>2, <1>4, <1>8, TakeTwice
    <3> QED
      BY <1>2, <3>1, Zenon
  <2>5. kept \o <<spent, expired>> = (kept \o <<spent>>) \o <<expired>>
        /\ <<spent, expired>> \in Seq(Row)
    <3> HIDE DEF kept, spent, expired
    <3> QED
      BY <1>7, <1>8, TwoRows
  <2>6. debits = <<spent, expired>>
    BY <1>14
  <2> HIDE DEF debits, kept, w, s, spent, expired, rest
  <2>7. Booked(kept \o debits) /\ debits \in Seq(Row)
    BY <2>3, <2>4, <2>5, <2>6
  <2>8. rows' = kept \o debits
    BY <1>5 DEF Post
  <2>9. Booked(rows)'
    BY <2>7, <2>8
  <2>10. TypeOK'
    BY <1>2, <1>5, <1>7, <2>7, PostKeepsTypes, StatusStays DEF BooksInv
  <2> QED
    BY <2>9, <2>10 DEF BooksInv
<1> QED
  BY <1>12, <1>13, <1>14

(* The fold over a purchase's bonuses sums their credits.                   *)
LEMMA EarnedIs ==
    ASSUME NEW S, IsFiniteSet(S), NEW f, DOMAIN f = S, \A x \in S : f[x].credits \in Nat
    PROVE  /\ FoldFunction(LAMBDA r, n : r.credits + n, 0, f)
                 = SumOver([x \in S |-> f[x].credits], S)
           /\ FoldFunction(LAMBDA r, n : r.credits + n, 0, f) \in Nat
<1> DEFINE v == [x \in S |-> f[x].credits]
           IsRowFold(g) ==
               g = [s \in SUBSET S |-> IF s = {} THEN 0
                                       ELSE f[OneOf(s)].credits + g[s \ {OneOf(s)}]]
<1>1. FoldFunction(LAMBDA r, n : r.credits + n, 0, f) = (CHOOSE g : IsRowFold(g))[S]
  BY DEF FoldFunction, FoldFunctionOnSet, MapThenFoldSet, OneOf
<1>2. ASSUME NEW g PROVE IsRowFold(g) <=> IsFold(g, v, S)
  <2> DEFINE A(s) == IF s = {} THEN 0 ELSE f[OneOf(s)].credits + g[s \ {OneOf(s)}]
             B(s) == IF s = {} THEN 0 ELSE v[OneOf(s)] + g[s \ {OneOf(s)}]
  <2>1. ASSUME NEW s \in SUBSET S PROVE A(s) = B(s)
    <3>1. CASE s = {}
      BY <3>1
    <3>2. CASE s # {}
      <4>1. OneOf(s) \in S
        BY <3>2, SmallerBy
      <4>2. v[OneOf(s)] = f[OneOf(s)].credits
        BY <4>1
      <4> QED
        BY <3>2, <4>2
    <3> QED
      BY <3>1, <3>2
  <2>2. [s \in SUBSET S |-> A(s)] = [s \in SUBSET S |-> B(s)]
    <3> HIDE DEF A, B
    <3> QED
      BY <2>1
  <2> QED
    BY <2>2, Zenon DEF IsFold
<1> HIDE DEF IsRowFold
<1>3. PICK h : IsFold(h, v, S) /\ h = CHOOSE g : IsRowFold(g)
  <2>1. \E g : IsRowFold(g)
    BY <1>2, FoldExists
  <2>2. IsRowFold(CHOOSE g : IsRowFold(g))
    BY <2>1
  <2> QED
    BY <1>2, <2>2
<1>4. SumOver(v, S) = h[S]
  <2>1. IsFold(CHOOSE g : IsFold(g, v, S), v, S)
    BY <1>3
  <2>2. h = CHOOSE g : IsFold(g, v, S)
    BY <1>3, <2>1, FoldUnique
  <2> QED
    BY <2>2, SumIsFold
<1>5. SumOver(v, S) \in Nat
  <2>1. \A x \in S : v[x] \in Nat
    OBVIOUS
  <2> HIDE DEF v
  <2> QED
    BY <2>1, SumNat
<1> QED
  BY <1>1, <1>3, <1>4, <1>5

(* Rows that were pending are settled: no debit has consumed them.          *)
LEMMA SettledIsBooked ==
    ASSUME NEW s, Booked(s), NEW t \in Seq(Row), Len(t) = Len(s),
           \A j \in 1 .. Len(s) :
              \/ t[j] = s[j]
              \/ /\ s[j].status = "PENDING"
                 /\ t[j].wallet = s[j].wallet /\ t[j].type = s[j].type
                 /\ t[j].reason = s[j].reason /\ t[j].credits = s[j].credits
                 /\ t[j].consumed = s[j].consumed
                 /\ \/ t[j].available =
                          ComputeCreditsAvailable(t[j].before, t[j].after, t[j].credits)
                    \/ /\ t[j].available = s[j].available
                       /\ t[j].before = s[j].before /\ t[j].after = s[j].after
    PROVE  Booked(t)
<1> DEFINE n == Len(s)
<1>1. s \in Seq(Row) /\ n \in Nat
  BY LenProperties DEF Booked
<1>2. \A j \in 1 .. n : /\ t[j].wallet = s[j].wallet /\ t[j].type = s[j].type
                        /\ t[j].reason = s[j].reason /\ t[j].credits = s[j].credits
                        /\ t[j].consumed = s[j].consumed
                        /\ s[j].status = "COMPLETED" => t[j].status = "COMPLETED"
  OBVIOUS
<1>3. ConsumesSettled(t)
  BY <1>2 DEF Booked, ConsumesSettled
<1>4. \A d \in 1 .. n : Covered(t[d])
  BY <1>2 DEF Booked, Covered
<1>5. CreditsAddUp(t)
  <2> SUFFICES ASSUME NEW j \in 1 .. n, t[j].type = "credit"
               PROVE  t[j].available + TakenIn(t, j) =
                         ComputeCreditsAvailable(t[j].before, t[j].after, t[j].credits)
    BY DEF CreditsAddUp
  <2>1. TakenIn(t, j) = TakenIn(s, j)
    <3>1. UsesFrom(t, j) = UsesFrom(s, j)
      BY <1>1, <1>2, SameUses
    <3> QED
      BY <3>1 DEF TakenIn
  <2>2. s[j].available + TakenIn(s, j) =
           ComputeCreditsAvailable(s[j].before, s[j].after, s[j].credits)
    BY <1>2 DEF Booked, CreditsAddUp
  <2>3. CASE s[j].status = "PENDING"
    <3>1. TakenIn(s, j) = 0
      BY <1>1, <2>3, TakenOfNew DEF Booked
    <3>2. s[j].available \in Nat /\ t[j].available \in Nat
      <4>1. s[j] \in Row /\ t[j] \in Row
        BY <1>1, ElementOfSeq
      <4> QED
        BY <4>1, RowFields
    <3>3. CASE t[j].available = ComputeCreditsAvailable(t[j].before, t[j].after, t[j].credits)
      BY <2>1, <3>1, <3>2, <3>3
    <3>4. CASE t[j].available = s[j].available /\ t[j].before = s[j].before
               /\ t[j].after = s[j].after
      BY <1>2, <2>1, <2>2, <3>4
    <3>5. CASE t[j] = s[j]
      BY <2>1, <2>2, <3>5
    <3> QED
      BY <3>3, <3>4, <3>5
  <2>4. CASE s[j].status # "PENDING"
    <3>1. t[j] = s[j]
      BY <2>4
    <3> QED
      BY <2>1, <2>2, <3>1
  <2> QED
    BY <2>3, <2>4
<1> QED
  BY <1>3, <1>4, <1>5 DEF Booked

LEMMA CompletedIs ==
    ASSUME NEW r \in Row, NEW before
    PROVE  LET q == Completed(r, before)
           IN  /\ q.wallet = r.wallet /\ q.type = r.type /\ q.reason = r.reason
               /\ q.credits = r.credits /\ q.consumed = r.consumed
               /\ q.available = ComputeCreditsAvailable(q.before, q.after, q.credits)
<1> DEFINE after == before + r.credits
           available == ComputeCreditsAvailable(before, after, r.credits)
<1>1. Completed(r, before) =
        [r EXCEPT !.status = "COMPLETED", !.before = before, !.after = after,
                  !.available = available]
  BY DEF Completed
<1> DEFINE q == [r EXCEPT !.status = "COMPLETED", !.before = before, !.after = after,
                  !.available = available]
<1>2. /\ q.wallet = r.wallet /\ q.type = r.type /\ q.reason = r.reason
      /\ q.credits = r.credits /\ q.consumed = r.consumed
      /\ q.available = available /\ q.before = before /\ q.after = after
  <2> HIDE DEF available, after
  <2> QED
    BY DEF Row
<1> HIDE DEF q, after
<1>3. q.available = ComputeCreditsAvailable(q.before, q.after, q.credits)
  BY <1>2
<1> QED
  BY <1>1, <1>2, <1>3 DEF q, after

LEMMA SequenceOfRows ==
    ASSUME NEW n \in Nat, NEW t, t = [j \in 1 .. n |-> t[j]], \A j \in 1 .. n : t[j] \in Row
    PROVE  t \in Seq(Row) /\ Len(t) = n
<1>1. t \in [1 .. n -> Row]
  OBVIOUS
<1> QED
  BY <1>1, FunctionIsSequence, SeqDef

(* What a completed purchase and its bonuses add to the balance.            *)
LEMMA CompletionGain ==
    ASSUME BooksInv, NEW i \in DOMAIN rows
    PROVE  LET paid == Completed(rows[i], creditBalance[rows[i].wallet])
               earned == [j \in PendingBonus(i) |-> Completed(rows[j], paid.after)]
           IN  rows[i].credits + FoldFunction(LAMBDA r, n : r.credits + n, 0, earned) \in Int
<1> DEFINE w == rows[i].wallet
           bonus == PendingBonus(i)
           paid == Completed(rows[i], creditBalance[w])
           earned == [j \in bonus |-> Completed(rows[j], paid.after)]
           m == Len(rows)
<1>1. /\ rows \in Seq(Row) /\ m \in Nat /\ DOMAIN rows = 1 .. m
      /\ \A j \in 1 .. m : rows[j] \in Row
  BY LenProperties DEF BooksInv, TypeOK
<1>3. bonus \subseteq 1 .. m
  BY <1>1 DEF PendingBonus
<1>4. w \in Wallets /\ creditBalance[w] \in Int /\ rows[i].credits \in Nat
  BY <1>1, RowFields DEF BooksInv, TypeOK
<1>5. paid.after \in Int
  <2>1. paid \in Row
    BY <1>1, <1>4, CompletedType
  <2> HIDE DEF paid
  <2> QED
    BY <2>1, RowFields
<1>6. \A j \in bonus : earned[j] \in Row
  <2> HIDE DEF paid, bonus
  <2> QED
    BY <1>1, <1>3, <1>5, CompletedType
<1> QED
  <2>1. IsFiniteSet(bonus)
    <3>1. IsFiniteSet(1 .. m)
      BY <1>1, FS_Interval
    <3> HIDE DEF bonus
    <3> QED
      BY <1>3, <3>1, FS_Subset
  <2>2. DOMAIN earned = bonus
    OBVIOUS
  <2>3. \A j \in bonus : earned[j].credits \in Nat
    BY <1>6, RowFields
  <2>4. FoldFunction(LAMBDA r, n : r.credits + n, 0, earned) \in Nat
    <3> HIDE DEF earned, bonus
    <3> QED
      BY <2>1, <2>2, <2>3, EarnedIs
  <2> DEFINE others == FoldFunction(LAMBDA r, n : r.credits + n, 0, earned)
  <2>5. others \in Nat
    BY <2>4
  <2> HIDE DEF others
  <2>6. rows[i].credits + others \in Int
    BY <1>4, <2>5
  <2> QED
    BY <2>6 DEF others

LEMMA CompletePurchaseBooks ==
    ASSUME BooksInv, NEW i \in DOMAIN rows, CompletePurchase(i)
    PROVE  BooksInv'
<1> DEFINE w == rows[i].wallet
           bonus == PendingBonus(i)
           paid == Completed(rows[i], creditBalance[w])
           earned == [j \in bonus |-> Completed(rows[j], paid.after)]
           gained == rows[i].credits + FoldFunction(LAMBDA r, n : r.credits + n, 0, earned)
           m == Len(rows)
<1>1. /\ rows \in Seq(Row) /\ m \in Nat /\ DOMAIN rows = 1 .. m
      /\ \A j \in 1 .. m : rows[j] \in Row
      /\ posted \in Seq(DOMAIN rows)
  BY LenProperties DEF BooksInv, TypeOK
<1>2. /\ rows[i].status = "PENDING"
      /\ rows' = [j \in 1 .. m |->
                    IF j = i THEN paid ELSE IF j \in bonus THEN earned[j] ELSE rows[j]]
      /\ posted' = posted \o (IF bonus = {} THEN <<i>> ELSE <<i, CHOOSE j \in bonus : TRUE>>)
      /\ creditBalance' = [creditBalance EXCEPT ![w] = @ + gained]
      /\ balance' = [balance EXCEPT ![w] = @ + gained * TopupConversionRate]
      /\ UNCHANGED <<now, walletStatus>>
  BY <1>1 DEF CompletePurchase, IsPendingPurchase
<1>3. bonus \subseteq 1 .. m /\ \A j \in bonus : rows[j].status = "PENDING"
  BY <1>1 DEF PendingBonus
<1>4. w \in Wallets /\ creditBalance[w] \in Int /\ rows[i].credits \in Nat
  BY <1>1, RowFields DEF BooksInv, TypeOK
<1>5. paid \in Row /\ paid.after \in Int
  <2>1. paid \in Row
    BY <1>1, <1>4, CompletedType
  <2> HIDE DEF paid
  <2> QED
    BY <2>1, RowFields
<1>6. \A j \in bonus : earned[j] \in Row /\ earned[j] = Completed(rows[j], paid.after)
  <2> HIDE DEF paid, bonus
  <2> QED
    BY <1>1, <1>3, <1>5, CompletedType
<1>7. gained \in Int
  BY CompletionGain
<1>8. gained * TopupConversionRate \in Int
  <2> HIDE DEF gained
  <2> QED
    BY <1>7, LedgerConstants
<1> HIDE DEF gained
<1>9. rows' = [j \in 1 .. m |-> rows'[j]]
  BY <1>2
<1>10. ASSUME NEW j \in 1 .. m
       PROVE  /\ rows'[j] \in Row
              /\ \/ rows'[j] = rows[j]
                 \/ /\ rows[j].status = "PENDING"
                    /\ rows'[j].wallet = rows[j].wallet /\ rows'[j].type = rows[j].type
                    /\ rows'[j].reason = rows[j].reason /\ rows'[j].credits = rows[j].credits
                    /\ rows'[j].consumed = rows[j].consumed
                    /\ rows'[j].available = ComputeCreditsAvailable(
                          rows'[j].before, rows'[j].after, rows'[j].credits)
  <2>1. CASE j = i
    <3>1. rows'[j] = Completed(rows[j], creditBalance[w])
      BY <1>2, <2>1
    <3>2. rows[j] \in Row /\ rows[j].status = "PENDING" /\ rows'[j] \in Row
      BY <1>1, <1>2, <1>5, <2>1
    <3> QED
      BY <3>1, <3>2, CompletedIs
  <2>2. CASE j # i /\ j \in bonus
    <3>1. rows'[j] = Completed(rows[j], paid.after) /\ rows'[j] \in Row
      BY <1>2, <1>6, <2>2
    <3>2. rows[j] \in Row /\ rows[j].status = "PENDING"
      BY <1>1, <1>3, <2>2
    <3> QED
      BY <3>1, <3>2, CompletedIs
  <2>3. CASE j # i /\ j \notin bonus
    BY <1>1, <1>2, <2>3
  <2> QED
    BY <2>1, <2>2, <2>3
<1>11. rows' \in Seq(Row) /\ Len(rows') = m
  <2> DEFINE t == rows'
  <2>1. t = [j \in 1 .. m |-> t[j]] /\ \A j \in 1 .. m : t[j] \in Row
    BY <1>9, <1>10
  <2> HIDE DEF t, m
  <2>2. t \in Seq(Row) /\ Len(t) = m
    BY <1>1, <2>1, SequenceOfRows
  <2> QED
    BY <2>2 DEF t
<1>12. Booked(rows)'
  <2> DEFINE t == rows'
  <2>1. /\ t \in Seq(Row) /\ Len(t) = Len(rows)
        /\ \A j \in 1 .. Len(rows) :
              \/ t[j] = rows[j]
              \/ /\ rows[j].status = "PENDING"
                 /\ t[j].wallet = rows[j].wallet /\ t[j].type = rows[j].type
                 /\ t[j].reason = rows[j].reason /\ t[j].credits = rows[j].credits
                 /\ t[j].consumed = rows[j].consumed
                 /\ t[j].available = ComputeCreditsAvailable(t[j].before, t[j].after, t[j].credits)
    BY <1>10, <1>11
  <2> HIDE DEF t
  <2>2. Booked(t)
    BY <2>1, SettledIsBooked DEF BooksInv
  <2> QED
    BY <2>2 DEF t
<1>13. posted' \in Seq(DOMAIN rows')
  <2>1. DOMAIN rows' = DOMAIN rows
    BY <1>1, <1>2
  <2> DEFINE last == CHOOSE j \in bonus : TRUE
  <2>2. bonus # {} => last \in DOMAIN rows
    BY <1>1, <1>3
  <2> HIDE DEF last, bonus
  <2>3. <<i>> \in Seq(DOMAIN rows) /\ (bonus # {} => <<i, last>> \in Seq(DOMAIN rows))
    BY <2>2
  <2>4. (IF bonus = {} THEN <<i>> ELSE <<i, last>>) \in Seq(DOMAIN rows)
    BY <2>3
  <2> DEFINE more == IF bonus = {} THEN <<i>> ELSE <<i, last>>
  <2>5. posted' = posted \o more
    BY <1>2 DEF last
  <2> HIDE DEF more
  <2>6. posted \o more \in Seq(DOMAIN rows)
    BY <1>1, <2>4, ConcatProperties DEF more
  <2> QED
    BY <2>1, <2>5, <2>6
<1>14. creditBalance' \in [Wallets -> Int] /\ balance' \in [Wallets -> Int]
  BY <1>2, <1>4, <1>7, <1>8 DEF BooksInv, TypeOK
<1>15. TypeOK'
  BY <1>2, <1>11, <1>13, <1>14 DEF BooksInv, TypeOK
<1> QED
  BY <1>12, <1>15 DEF BooksInv

LEMMA FailPurchaseBooks ==
    ASSUME BooksInv, NEW i \in DOMAIN rows, FailPurchase(i)
    PROVE  BooksInv'
<1> DEFINE m == Len(rows)
<1>1. /\ rows \in Seq(Row) /\ m \in Nat /\ DOMAIN rows = 1 .. m
      /\ \A j \in 1 .. m : rows[j] \in Row
  BY LenProperties DEF BooksInv, TypeOK
<1>2. /\ \A j \in {i} \cup PendingBonus(i) : rows[j].status = "PENDING"
      /\ rows' = [j \in 1 .. m |-> IF j \in {i} \cup PendingBonus(i)
                                   THEN [rows[j] EXCEPT !.status = "FAILED"] ELSE rows[j]]
      /\ UNCHANGED <<now, walletStatus, balance, creditBalance, posted>>
  BY <1>1 DEF FailPurchase, IsPendingPurchase, PendingBonus
<1>3. rows' = [j \in 1 .. m |-> rows'[j]]
  BY <1>2
<1>4. ASSUME NEW j \in 1 .. m
       PROVE  /\ rows'[j] \in Row
              /\ \/ rows'[j] = rows[j]
                 \/ /\ rows[j].status = "PENDING"
                    /\ rows'[j].wallet = rows[j].wallet /\ rows'[j].type = rows[j].type
                    /\ rows'[j].reason = rows[j].reason /\ rows'[j].credits = rows[j].credits
                    /\ rows'[j].consumed = rows[j].consumed
                    /\ rows'[j].available = rows[j].available
                    /\ rows'[j].before = rows[j].before /\ rows'[j].after = rows[j].after
  <2> DEFINE r == rows[j]
  <2>1. r \in Row
    BY <1>1
  <2>2. CASE j \in {i} \cup PendingBonus(i)
    <3>1. rows'[j] = [r EXCEPT !.status = "FAILED"] /\ r.status = "PENDING"
      BY <1>2, <2>2
    <3> HIDE DEF r
    <3>2. /\ rows'[j] \in Row
          /\ rows'[j].wallet = r.wallet /\ rows'[j].type = r.type
          /\ rows'[j].reason = r.reason /\ rows'[j].credits = r.credits
          /\ rows'[j].consumed = r.consumed /\ rows'[j].available = r.available
          /\ rows'[j].before = r.before /\ rows'[j].after = r.after
      BY <2>1, <3>1 DEF Row
    <3> QED
      BY <3>1, <3>2 DEF r
  <2>3. CASE j \notin {i} \cup PendingBonus(i)
    BY <1>1, <1>2, <2>3
  <2> QED
    BY <2>2, <2>3
<1>5. rows' \in Seq(Row) /\ Len(rows') = m
  <2> DEFINE t == rows'
  <2>1. t = [j \in 1 .. m |-> t[j]] /\ \A j \in 1 .. m : t[j] \in Row
    BY <1>3, <1>4
  <2> HIDE DEF t, m
  <2>2. t \in Seq(Row) /\ Len(t) = m
    BY <1>1, <2>1, SequenceOfRows
  <2> QED
    BY <2>2 DEF t
<1>6. Booked(rows)'
  <2> DEFINE t == rows'
  <2>1. /\ t \in Seq(Row) /\ Len(t) = Len(rows)
        /\ \A j \in 1 .. Len(rows) :
              \/ t[j] = rows[j]
              \/ /\ rows[j].status = "PENDING"
                 /\ t[j].wallet = rows[j].wallet /\ t[j].type = rows[j].type
                 /\ t[j].reason = rows[j].reason /\ t[j].credits = rows[j].credits
                 /\ t[j].consumed = rows[j].consumed
                 /\ t[j].available = rows[j].available
                 /\ t[j].before = rows[j].before /\ t[j].after = rows[j].after
    BY <1>4, <1>5
  <2> HIDE DEF t
  <2>2. Booked(t)
    BY <2>1, SettledIsBooked DEF BooksInv
  <2> QED
    BY <2>2 DEF t
<1>7. TypeOK'
  <2>1. DOMAIN rows' = DOMAIN rows
    BY <1>1, <1>2
  <2> QED
    BY <1>2, <1>5, <2>1 DEF BooksInv, TypeOK
<1> QED
  BY <1>6, <1>7 DEF BooksInv

LEMMA BooksInit == Init => BooksInv
<1> SUFFICES ASSUME Init PROVE BooksInv
  OBVIOUS
<1>1. rows = <<>> /\ posted = <<>> /\ Len(<<>>) = 0
  BY DEF Init
<1>2. TypeOK
  <2>1. rows \in Seq(Row) /\ posted \in Seq(DOMAIN rows)
    BY <1>1, EmptySeq
  <2> QED
    BY <2>1, LedgerConstants DEF Init, TypeOK, Time
<1>3. Booked(rows)
  <2>1. 1 .. Len(rows) = {} /\ rows \in Seq(Row)
    BY <1>1, EmptySeq
  <2> QED
    BY <2>1 DEF Booked, ConsumesSettled, CreditsAddUp
<1> QED
  BY <1>2, <1>3 DEF BooksInv

LEMMA BooksStep == BooksInv /\ [Next]_vars => BooksInv'
<1> SUFFICES ASSUME BooksInv, [Next]_vars PROVE BooksInv'
  OBVIOUS
<1>1. ASSUME NEW w \in Wallets, NEW load \in Maybe(Offers), CreateWallet(w, load)
      PROVE  BooksInv'
  BY <1>1, CreateWalletBooks
<1>2. ASSUME NEW w \in Wallets, NEW offer \in Offers, NEW bonus \in Maybe(Bonuses),
             \/ CreditWallet(w, offer, bonus)
             \/ RequestPurchase(w, offer, bonus)
             \/ RequestCompletedPurchase(w, offer, bonus)
      PROVE  BooksInv'
  BY <1>2, CreditWalletBooks, RequestPurchaseBooks, RequestCompletedPurchaseBooks
<1>3. ASSUME NEW w \in Wallets, NEW amount \in Debits, NEW ref \in 1 .. MaxTime + 1,
             DebitWallet(w, amount, ref)
      PROVE  BooksInv'
  BY <1>3, DebitWalletBooks
<1>4. ASSUME NEW w \in Wallets, NEW amount \in Debits, ManualBalanceDebit(w, amount)
      PROVE  BooksInv'
  BY <1>4, ManualBalanceDebitBooks
<1>5. ASSUME NEW w \in Wallets, TerminateWallet(w)
      PROVE  BooksInv'
  BY <1>5, TerminateWalletBooks
<1>6. ASSUME NEW w \in Wallets, NEW v \in Wallets, ConvertToPostpaid(w, v)
      PROVE  BooksInv'
  BY <1>6, ConvertToPostpaidBooks
<1>7. ASSUME NEW i \in DOMAIN rows, CompletePurchase(i)
      PROVE  BooksInv'
  BY <1>7, CompletePurchaseBooks
<1>8. ASSUME NEW i \in DOMAIN rows, FailPurchase(i)
      PROVE  BooksInv'
  BY <1>8, FailPurchaseBooks
<1>9. CASE ExpiryRun
  BY <1>9, ExpireCreditsBooks DEF ExpiryRun
<1>10. CASE Tick
  <2>1. now' \in Time /\ UNCHANGED <<walletStatus, balance, creditBalance, rows, posted>>
    BY <1>10, LedgerConstants DEF Tick, BooksInv, TypeOK, Time
  <2> QED
    BY <2>1 DEF BooksInv, TypeOK
<1>11. CASE UNCHANGED vars
  BY <1>11 DEF BooksInv, TypeOK, vars
<1> QED
  BY <1>1, <1>2, <1>3, <1>4, <1>5, <1>6, <1>7, <1>8, <1>9, <1>10, <1>11 DEF Next

LEMMA BooksAlways == Spec => []BooksInv
BY BooksInit, BooksStep, PTL DEF Spec

(* The ledger's rows, balances and clock always have their types: no        *)
(* operation makes a credit's availability negative, and the trail of       *)
(* posted rows names rows that exist.                                       *)
THEOREM LedgerTypes == Spec => []TypeOK
<1>1. BooksInv => TypeOK
  BY DEF BooksInv
<1> QED
  BY <1>1, BooksAlways, PTL

LEMMA TakenFromIs ==
    ASSUME NEW i
    PROVE  TakenFrom(i) = TakenIn(rows, i)
<1> DEFINE f == [u \in UsesFrom(rows, i) |-> u[2].credits]
<1>1. TakenFrom(i) = FoldFunction(+, 0, f)
  BY DEF TakenFrom, Sum, UsesFrom, Uses
<1>2. DOMAIN f = UsesFrom(rows, i)
  OBVIOUS
<1>3. TakenIn(rows, i) = SumOver(f, UsesFrom(rows, i))
  BY DEF TakenIn, UseWorth
<1> HIDE DEF f
<1>4. FoldFunction(+, 0, f) = SumOver(f, DOMAIN f)
  BY FunSum
<1> QED
  BY <1>1, <1>2, <1>3, <1>4, Zenon

LEMMA TakenByIs ==
    ASSUME NEW d
    PROVE  TakenBy(d) = Worth(rows[d].consumed)
<1> DEFINE f == [c \in rows[d].consumed |-> c.credits]
<1>1. TakenBy(d) = FoldFunction(+, 0, f)
  BY DEF TakenBy, Sum
<1>2. DOMAIN f = rows[d].consumed
  OBVIOUS
<1>3. Worth(rows[d].consumed) = SumOver(f, rows[d].consumed)
  BY DEF Worth
<1> HIDE DEF f
<1>4. FoldFunction(+, 0, f) = SumOver(f, DOMAIN f)
  BY FunSum
<1> QED
  BY <1>1, <1>2, <1>3, <1>4, Zenon

LEMMA WorthType ==
    ASSUME NEW C \in Breakdowns, IsFiniteSet(C)
    PROVE  Worth(C) \in Nat
<1> DEFINE f == [c \in C |-> c.credits]
<1>1. \A c \in C : f[c] \in Nat
  BY DEF Breakdowns
<1>2. Worth(C) = SumOver(f, C)
  BY DEF Worth
<1> HIDE DEF f
<1> QED
  BY <1>1, <1>2, SumNat

(* No credit is lost and none is spent twice, whatever grants, purchases,   *)
(* debits, expiries, terminations and conversions follow each other: each   *)
(* settled or pending credit is what it has left plus what the debits of    *)
(* its own wallet recorded, and only a manual debit goes uncovered.         *)
THEOREM CreditsAreAccountedFor == Spec => []EveryCreditAccountedFor
<1>1. ASSUME BooksInv PROVE EveryCreditAccountedFor
  <2>1. /\ rows \in Seq(Row) /\ DOMAIN rows = 1 .. Len(rows) /\ Booked(rows)
        /\ \A d \in 1 .. Len(rows) : rows[d] \in Row
    BY <1>1, LenProperties DEF BooksInv, TypeOK
  <2>2. ASSUME NEW i \in DOMAIN rows, rows[i].type = "credit"
        PROVE  rows[i].available + TakenFrom(i) =
                  ComputeCreditsAvailable(rows[i].before, rows[i].after, rows[i].credits)
    BY <2>1, <2>2, TakenFromIs DEF Booked, CreditsAddUp
  <2>3. ASSUME NEW d \in DOMAIN rows, rows[d].type = "debit"
        PROVE  /\ {c.credit : c \in rows[d].consumed} \subseteq CompletedCredits(rows[d].wallet)
               /\ Overdrawn(d) >= 0
               /\ Overdrawn(d) > 0 => rows[d].reason = "MANUAL"
    <3>1. {c.credit : c \in rows[d].consumed} \subseteq CompletedCredits(rows[d].wallet)
      BY <2>1 DEF Booked, ConsumesSettled, CompletedCredits
    <3>2. /\ Worth(rows[d].consumed) <= rows[d].credits
          /\ Worth(rows[d].consumed) < rows[d].credits => rows[d].reason = "MANUAL"
      BY <2>1, <2>3 DEF Booked, Covered
    <3>3. Worth(rows[d].consumed) \in Nat /\ rows[d].credits \in Nat
      BY <2>1, RowFields, WorthType DEF Booked, ConsumesSettled
    <3>4. Overdrawn(d) = rows[d].credits - Worth(rows[d].consumed)
      BY TakenByIs DEF Overdrawn
    <3> QED
      BY <3>1, <3>2, <3>3, <3>4
  <2> QED
    BY <2>2, <2>3 DEF EveryCreditAccountedFor
<1> QED
  BY <1>1, BooksAlways, PTL

----------------------------------------------------------------------------
(* The two balances.                                                        *)

LEMMA Distributes ==
    ASSUME NEW a \in Int, NEW b \in Int, NEW r \in Int
    PROVE  (a + b) * r = a * r + b * r
OBVIOUS

LEMMA PostKeepsRate ==
    ASSUME BooksInv, BalanceMatchesRate, NEW w \in Wallets, NEW kept, NEW added,
           Post(w, kept, added)
    PROVE  BalanceMatchesRate'
<1> DEFINE after == LastAfter(w, added)
<1>1. /\ creditBalance \in [Wallets -> Int] /\ balance \in [Wallets -> Int]
      /\ \A v \in Wallets : balance[v] = creditBalance[v] * ConversionRate
  BY DEF BooksInv, TypeOK, BalanceMatchesRate
<1>2. /\ creditBalance' = [creditBalance EXCEPT ![w] = after]
      /\ balance' = [balance EXCEPT ![w] = IF added = <<>> THEN balance[w]
                                           ELSE after * ConversionRate]
  BY DEF Post
<1>3. added = <<>> => after = creditBalance[w]
  BY DEF LastAfter
<1> HIDE DEF after
<1>4. balance'[w] = creditBalance'[w] * ConversionRate
  BY <1>1, <1>2, <1>3
<1>5. \A v \in Wallets \ {w} : balance'[v] = balance[v] /\ creditBalance'[v] = creditBalance[v]
  BY <1>1, <1>2
<1> QED
  BY <1>1, <1>4, <1>5 DEF BalanceMatchesRate

(* Credits bought enter the currency balance at the top-up rate.            *)
LEMMA GainKeepsRate ==
    ASSUME TopupConversionRate = ConversionRate,
           BooksInv, BalanceMatchesRate, NEW w \in Wallets, NEW gained \in Int,
           creditBalance' = [creditBalance EXCEPT ![w] = @ + gained],
           balance' = [balance EXCEPT ![w] = @ + gained * TopupConversionRate]
    PROVE  BalanceMatchesRate'
<1>1. /\ creditBalance \in [Wallets -> Int] /\ balance \in [Wallets -> Int]
      /\ \A v \in Wallets : balance[v] = creditBalance[v] * ConversionRate
  BY DEF BooksInv, TypeOK, BalanceMatchesRate
<1>2. /\ creditBalance'[w] = creditBalance[w] + gained
      /\ balance'[w] = creditBalance[w] * ConversionRate + gained * ConversionRate
  BY <1>1
<1>3. balance'[w] = creditBalance'[w] * ConversionRate
  <2>1. creditBalance[w] \in Int /\ ConversionRate \in Int
    BY <1>1, LedgerConstants
  <2>2. (creditBalance[w] + gained) * ConversionRate
           = creditBalance[w] * ConversionRate + gained * ConversionRate
    BY <2>1, Distributes
  <2> QED
    BY <1>2, <2>2, Zenon
<1>4. \A v \in Wallets \ {w} : balance'[v] = balance[v] /\ creditBalance'[v] = creditBalance[v]
  BY <1>1
<1> QED
  BY <1>1, <1>3, <1>4 DEF BalanceMatchesRate

LEMMA RateStep ==
    ASSUME TopupConversionRate = ConversionRate, BooksInv, BalanceMatchesRate, [Next]_vars
    PROVE  BalanceMatchesRate'
<1>0. UNCHANGED <<balance, creditBalance>> => BalanceMatchesRate'
  BY DEF BalanceMatchesRate
<1>1. ASSUME NEW w \in Wallets, NEW kept, NEW added, Post(w, kept, added)
      PROVE  BalanceMatchesRate'
  BY <1>1, PostKeepsRate
<1>2. ASSUME NEW w \in Wallets, NEW offer \in Offers, NEW bonus \in Maybe(Bonuses),
             RequestCompletedPurchase(w, offer, bonus)
      PROVE  BalanceMatchesRate'
  <2> DEFINE added == PurchaseRows(w, "PURCHASE", "COMPLETED", offer, bonus, creditBalance[w])
             gained == LastAfter(w, added) - creditBalance[w]
  <2>1. /\ creditBalance' = [creditBalance EXCEPT ![w] = @ + gained]
        /\ balance' = [balance EXCEPT ![w] = @ + gained * TopupConversionRate]
    BY <1>2 DEF RequestCompletedPurchase
  <2>2. creditBalance[w] \in Int
    BY DEF BooksInv, TypeOK
  <2>3. added # <<>> /\ added[Len(added)] \in Row
    <3>1. bonus = <<>> \/ \E b \in Offered : bonus = <<b>>
      BY MaybeOffered, OffersAreOffered
    <3>2. offer \in Offered /\ "PURCHASE" \in Reasons /\ "COMPLETED" \in Statuses
      BY OffersAreOffered DEF Reasons, Statuses
    <3> QED
      BY <2>2, <3>1, <3>2, PurchaseRowsBooked
  <2> HIDE DEF added
  <2>4. gained \in Int
    BY <2>2, <2>3, RowFields DEF LastAfter
  <2> HIDE DEF gained
  <2> QED
    BY <2>1, <2>4, GainKeepsRate
<1>3. ASSUME NEW i \in DOMAIN rows, CompletePurchase(i)
      PROVE  BalanceMatchesRate'
  <2> DEFINE w == rows[i].wallet
             paid == Completed(rows[i], creditBalance[w])
             earned == [j \in PendingBonus(i) |-> Completed(rows[j], paid.after)]
             gained == rows[i].credits + FoldFunction(LAMBDA r, n : r.credits + n, 0, earned)
  <2>1. /\ creditBalance' = [creditBalance EXCEPT ![w] = @ + gained]
        /\ balance' = [balance EXCEPT ![w] = @ + gained * TopupConversionRate]
    BY <1>3 DEF CompletePurchase
  <2>2. gained \in Int
    BY CompletionGain
  <2>3. w \in Wallets
    <3>1. rows[i] \in Row
      BY LenProperties DEF BooksInv, TypeOK
    <3> QED
      BY <3>1, RowFields
  <2> HIDE DEF gained, w
  <2> QED
    BY <2>1, <2>2, <2>3, GainKeepsRate
<1>4. ASSUME NEW w \in Wallets, NEW v \in Wallets, ConvertToPostpaid(w, v)
      PROVE  BalanceMatchesRate'
  <2> DEFINE held == creditBalance[w]
  <2>1. CASE held > 0
    <3>1. /\ creditBalance' = [creditBalance EXCEPT ![w] = 0, ![v] = held]
          /\ balance' = [balance EXCEPT ![w] = 0, ![v] = held * ConversionRate]
          /\ w # v
      BY <1>4, <2>1 DEF ConvertToPostpaid
    <3>2. /\ creditBalance \in [Wallets -> Int] /\ balance \in [Wallets -> Int]
          /\ \A u \in Wallets : balance[u] = creditBalance[u] * ConversionRate
      BY DEF BooksInv, TypeOK, BalanceMatchesRate
    <3> HIDE DEF held
    <3>3. /\ creditBalance'[w] = 0 /\ balance'[w] = 0
          /\ creditBalance'[v] = held /\ balance'[v] = held * ConversionRate
          /\ \A u \in Wallets \ {w, v} : creditBalance'[u] = creditBalance[u]
                                         /\ balance'[u] = balance[u]
      BY <3>1, <3>2
    <3>4. 0 = 0 * ConversionRate
      BY LedgerConstants
    <3> QED
      BY <3>2, <3>3, <3>4 DEF BalanceMatchesRate
  <2>2. CASE ~ held > 0
    BY <1>0, <1>4, <2>2 DEF ConvertToPostpaid
  <2> QED
    BY <2>1, <2>2
<1>5. ASSUME NEW w \in Wallets, TerminateWallet(w)
      PROVE  BalanceMatchesRate'
  <2>1. \/ UNCHANGED <<balance, creditBalance>>
        \/ \E take : PostDebit(w, "TERMINATION", creditBalance[w], take)
    BY <1>5 DEF TerminateWallet
  <2> QED
    BY <1>0, <1>1, <2>1 DEF PostDebit
<1>6. CASE ExpiryRun
  <2>1. PICK i \in DOMAIN rows : \E applied \in 0 .. rows[i].available : ExpireCredits(i, applied)
    BY <1>6 DEF ExpiryRun
  <2>2. rows[i].wallet \in Wallets
    <3>1. rows[i] \in Row
      BY LenProperties DEF BooksInv, TypeOK
    <3> QED
      BY <3>1, RowFields
  <2>3. \E kept, added : Post(rows[i].wallet, kept, added)
    BY <2>1 DEF ExpireCredits
  <2> QED
    BY <1>1, <2>2, <2>3
<1>7. ASSUME NEW w \in Wallets,
             \/ \E load \in Maybe(Offers) : CreateWallet(w, load)
             \/ \E offer \in Offers, bonus \in Maybe(Bonuses) : CreditWallet(w, offer, bonus)
             \/ \E amount \in Debits :
                   \/ \E ref \in 1 .. MaxTime + 1 : DebitWallet(w, amount, ref)
                   \/ ManualBalanceDebit(w, amount)
      PROVE  BalanceMatchesRate'
  <2>1. \E kept, added : Post(w, kept, added)
    BY <1>7 DEF CreateWallet, CreditWallet, DebitWallet, ManualBalanceDebit, PostDebit
  <2> QED
    BY <1>1, <2>1
<1>8. ASSUME NEW w \in Wallets, NEW offer \in Offers, NEW bonus \in Maybe(Bonuses),
             RequestPurchase(w, offer, bonus)
      PROVE  BalanceMatchesRate'
  BY <1>0, <1>8 DEF RequestPurchase
<1>9. ASSUME NEW i \in DOMAIN rows, FailPurchase(i)
      PROVE  BalanceMatchesRate'
  BY <1>0, <1>9 DEF FailPurchase
<1>10. CASE Tick \/ UNCHANGED vars
  BY <1>0, <1>10 DEF Tick, vars
<1> QED
  BY <1>2, <1>3, <1>4, <1>5, <1>6, <1>7, <1>8, <1>9, <1>10 DEF Next

(* With one rate for buying and spending, the currency balance of every     *)
(* wallet stays its credit balance at that rate, as Wallet.Validate demands, *)
(* whichever operations follow each other.  With two rates it does not.     *)
THEOREM OneRateKeepsBalance ==
    ASSUME TopupConversionRate = ConversionRate
    PROVE  Spec => []BalanceMatchesRate
<1>1. Init => BalanceMatchesRate
  <2>1. 0 = 0 * ConversionRate
    BY LedgerConstants
  <2> QED
    BY <2>1 DEF Init, BalanceMatchesRate
<1>2. BooksInv /\ BalanceMatchesRate /\ [Next]_vars => BalanceMatchesRate'
  BY RateStep
<1> QED
  BY <1>1, <1>2, BooksAlways, PTL DEF Spec

----------------------------------------------------------------------------
(* Each wallet is an account: what its rows have available, and what its    *)
(* manual debits took beyond that.                                          *)

IsSettledCredit(r, w) == r.wallet = w /\ r.type = "credit" /\ r.status = "COMPLETED"
Gives(r, w) == IF IsSettledCredit(r, w) THEN r.available ELSE 0
Misses(r, w) == IF r.wallet = w /\ r.reason = "MANUAL" THEN r.credits - Worth(r.consumed) ELSE 0

Given(s, w) == [i \in 1 .. Len(s) |-> Gives(s[i], w)]
Missed(s, w) == [i \in 1 .. Len(s) |-> Misses(s[i], w)]
Spendable(s, w) == SumOver(Given(s, w), 1 .. Len(s))
Short(s, w) == SumOver(Missed(s, w), 1 .. Len(s))

(* The rows of the sequence, and what each counts for.                      *)
LEMMA CountedRows ==
    ASSUME NEW s \in Seq(Row), \A d \in 1 .. Len(s) : IsFiniteSet(s[d].consumed), NEW w
    PROVE  /\ Len(s) \in Nat /\ DOMAIN s = 1 .. Len(s) /\ IsFiniteSet(1 .. Len(s))
           /\ \A i \in 1 .. Len(s) :
                 /\ s[i] \in Row
                 /\ Given(s, w)[i] = Gives(s[i], w) /\ Gives(s[i], w) \in Nat
                 /\ Missed(s, w)[i] = Misses(s[i], w) /\ Misses(s[i], w) \in Int
<1>1. Len(s) \in Nat /\ DOMAIN s = 1 .. Len(s) /\ \A i \in 1 .. Len(s) : s[i] \in Row
  BY LenProperties
<1>2. IsFiniteSet(1 .. Len(s))
  BY <1>1, FS_Interval
<1>3. ASSUME NEW i \in 1 .. Len(s)
      PROVE  /\ Given(s, w)[i] = Gives(s[i], w) /\ Gives(s[i], w) \in Nat
             /\ Missed(s, w)[i] = Misses(s[i], w) /\ Misses(s[i], w) \in Int
  <2>1. s[i].available \in Nat /\ s[i].credits \in Nat /\ s[i].consumed \in Breakdowns
    BY <1>1, RowFields
  <2>2. Worth(s[i].consumed) \in Nat
    BY <2>1, WorthType
  <2> QED
    BY <2>1, <2>2 DEF Given, Missed, Gives, Misses
<1> QED
  BY <1>1, <1>2, <1>3

LEMMA CountsType ==
    ASSUME NEW s \in Seq(Row), \A d \in 1 .. Len(s) : IsFiniteSet(s[d].consumed), NEW w
    PROVE  Spendable(s, w) \in Nat /\ Short(s, w) \in Int
<1>1. \A i \in 1 .. Len(s) : Given(s, w)[i] \in Nat /\ Missed(s, w)[i] \in Int
  <2> TAKE i \in 1 .. Len(s)
  <2>1. /\ Given(s, w)[i] = Gives(s[i], w) /\ Gives(s[i], w) \in Nat
        /\ Missed(s, w)[i] = Misses(s[i], w) /\ Misses(s[i], w) \in Int
    BY CountedRows
  <2> QED
    BY <2>1
<1>2. IsFiniteSet(1 .. Len(s))
  BY CountedRows
<1> QED
  BY <1>1, <1>2, SumNat, SumType DEF Spendable, Short

(* What the model sums up is what is summed up here.                        *)
LEMMA SpendableIs ==
    ASSUME BooksInv, NEW w
    PROVE  /\ Available(CompletedCredits(w)) = Spendable(rows, w)
           /\ Sum(ManualDebits(w), Overdrawn) = Short(rows, w)
<1>0. /\ rows \in Seq(Row) /\ \A d \in 1 .. Len(rows) : IsFiniteSet(rows[d].consumed)
  BY DEF BooksInv, Booked, ConsumesSettled
<1> DEFINE D == 1 .. Len(rows)
<1>1. /\ DOMAIN rows = D /\ IsFiniteSet(D)
      /\ \A i \in D : /\ rows[i] \in Row
                      /\ Given(rows, w)[i] = Gives(rows[i], w) /\ Gives(rows[i], w) \in Nat
                      /\ Missed(rows, w)[i] = Misses(rows[i], w) /\ Misses(rows[i], w) \in Int
  BY <1>0, CountedRows
<1>2. Available(CompletedCredits(w)) = Spendable(rows, w)
  <2> DEFINE C == CompletedCredits(w)
             f == [i \in C |-> rows[i].available]
  <2>1. C \in SUBSET D /\ \A i \in D : i \in C <=> IsSettledCredit(rows[i], w)
    BY <1>1 DEF CompletedCredits, IsSettledCredit
  <2>2. Available(C) = FoldFunction(+, 0, f)
    BY DEF Available
  <2>3. DOMAIN f = C /\ \A i \in C : f[i] = rows[i].available
    OBVIOUS
  <2> HIDE DEF f, C, D
  <2>4. FoldFunction(+, 0, f) = SumOver(f, DOMAIN f)
    BY FunSum
  <2>5. /\ \A i \in C : f[i] = Given(rows, w)[i] /\ Given(rows, w)[i] \in Int
        /\ \A i \in D \ C : Given(rows, w)[i] = 0
    BY <1>1, <2>1, <2>3 DEF Gives
  <2>6. SumOver(f, C) = SumOver(Given(rows, w), D)
    BY <1>1, <2>1, <2>5, SumOverPart
  <2> QED
    BY <2>2, <2>3, <2>4, <2>6, Zenon DEF Spendable, C, D
<1>3. Sum(ManualDebits(w), Overdrawn) = Short(rows, w)
  <2> DEFINE C == ManualDebits(w)
             f == [i \in C |-> Overdrawn(i)]
  <2>1. C \in SUBSET D /\ \A i \in D : i \in C <=> rows[i].wallet = w /\ rows[i].reason = "MANUAL"
    BY <1>1 DEF ManualDebits
  <2>2. Sum(C, Overdrawn) = FoldFunction(+, 0, f)
    BY DEF Sum
  <2>3. DOMAIN f = C /\ \A i \in C : f[i] = rows[i].credits - Worth(rows[i].consumed)
    BY TakenByIs DEF Overdrawn
  <2> HIDE DEF f, C, D
  <2>4. FoldFunction(+, 0, f) = SumOver(f, DOMAIN f)
    BY FunSum
  <2>5. /\ \A i \in C : f[i] = Missed(rows, w)[i] /\ Missed(rows, w)[i] \in Int
        /\ \A i \in D \ C : Missed(rows, w)[i] = 0
    BY <1>1, <2>1, <2>3 DEF Misses
  <2>6. SumOver(f, C) = SumOver(Missed(rows, w), D)
    BY <1>1, <2>1, <2>5, SumOverPart
  <2> QED
    BY <2>2, <2>3, <2>4, <2>6, Zenon DEF Short, C, D
<1> QED
  BY <1>2, <1>3

SumsAgree ==
    BooksInv => \A w \in Wallets : /\ Available(CompletedCredits(w)) = Spendable(rows, w)
                                   /\ Sum(ManualDebits(w), Overdrawn) = Short(rows, w)

LEMMA SumsAlwaysAgree == SumsAgree
BY SpendableIs DEF SumsAgree

(* A row more.                                                              *)
LEMMA CountsAppend ==
    ASSUME NEW s \in Seq(Row), \A d \in 1 .. Len(s) : IsFiniteSet(s[d].consumed),
           NEW row \in Row, IsFiniteSet(row.consumed), NEW w
    PROVE  /\ s \o <<row>> \in Seq(Row)
           /\ \A d \in 1 .. Len(s \o <<row>>) : IsFiniteSet((s \o <<row>>)[d].consumed)
           /\ Spendable(s \o <<row>>, w) = Spendable(s, w) + Gives(row, w)
           /\ Short(s \o <<row>>, w) = Short(s, w) + Misses(row, w)
<1> DEFINE n == Len(s)
           t == s \o <<row>>
<1>1. /\ t \in Seq(Row) /\ Len(t) = n + 1 /\ n \in Nat
      /\ \A i \in 1 .. n : t[i] = s[i]
      /\ t[n + 1] = row
  BY AddedRow
<1> HIDE DEF t
<1>2. /\ IsFiniteSet(1 .. n) /\ n + 1 \notin 1 .. n /\ 1 .. n + 1 = (1 .. n) \cup {n + 1}
  <2>1. IsFiniteSet(1 .. n)
    BY <1>1, FS_Interval
  <2>2. n + 1 \notin 1 .. n /\ 1 .. n + 1 = (1 .. n) \cup {n + 1}
    BY <1>1
  <2> QED
    BY <2>1, <2>2
<1>3. \A d \in 1 .. n + 1 : IsFiniteSet(t[d].consumed)
  BY <1>1, <1>2
<1>4. \A i \in 1 .. n + 1 : /\ Given(t, w)[i] = Gives(t[i], w) /\ Gives(t[i], w) \in Nat
                            /\ Missed(t, w)[i] = Misses(t[i], w) /\ Misses(t[i], w) \in Int
  BY <1>1, <1>3, CountedRows
<1>5. \A i \in 1 .. n : Given(s, w)[i] = Gives(s[i], w) /\ Missed(s, w)[i] = Misses(s[i], w)
  BY CountedRows
<1> DEFINE g == Given(t, w)
           m == Missed(t, w)
<1>6. /\ \A i \in (1 .. n) \cup {n + 1} : g[i] \in Int /\ m[i] \in Int
      /\ g[n + 1] = Gives(row, w) /\ m[n + 1] = Misses(row, w)
      /\ \A i \in 1 .. n : g[i] = Given(s, w)[i] /\ m[i] = Missed(s, w)[i]
  BY <1>1, <1>2, <1>4, <1>5
<1> HIDE DEF g, m
<1>7. /\ SumOver(g, (1 .. n) \cup {n + 1}) = g[n + 1] + SumOver(g, 1 .. n)
      /\ SumOver(m, (1 .. n) \cup {n + 1}) = m[n + 1] + SumOver(m, 1 .. n)
  BY <1>2, <1>6, SumWith
<1>8. SumOver(g, 1 .. n) = Spendable(s, w) /\ SumOver(m, 1 .. n) = Short(s, w)
  BY <1>2, <1>6, SumSame DEF Spendable, Short
<1>9. Spendable(t, w) = SumOver(g, (1 .. n) \cup {n + 1})
      /\ Short(t, w) = SumOver(m, (1 .. n) \cup {n + 1})
  BY <1>1, <1>2, Zenon DEF Spendable, Short, g, m
<1>10. /\ Spendable(s, w) \in Nat /\ Short(s, w) \in Int
       /\ g[n + 1] \in Int /\ m[n + 1] \in Int
  BY <1>6, CountsType
<1>11. /\ Spendable(t, w) = Spendable(s, w) + Gives(row, w)
       /\ Short(t, w) = Short(s, w) + Misses(row, w)
  BY <1>6, <1>7, <1>8, <1>9, <1>10
<1> QED
  BY <1>1, <1>3, <1>11 DEF t

(* Rows that count the same.                                                *)
LEMMA CountsSame ==
    ASSUME NEW s \in Seq(Row), \A d \in 1 .. Len(s) : IsFiniteSet(s[d].consumed),
           NEW t \in Seq(Row), \A d \in 1 .. Len(t) : IsFiniteSet(t[d].consumed),
           Len(t) = Len(s), NEW w,
           \A i \in 1 .. Len(s) : Gives(t[i], w) = Gives(s[i], w) /\ Misses(t[i], w) = Misses(s[i], w)
    PROVE  Spendable(t, w) = Spendable(s, w) /\ Short(t, w) = Short(s, w)
<1> DEFINE D == 1 .. Len(s)
           g == Given(s, w)
           h == Given(t, w)
           m == Missed(s, w)
           k == Missed(t, w)
<1>1. \A i \in D : h[i] = g[i] /\ k[i] = m[i]
  BY DEF Given, Missed
<1>2. IsFiniteSet(D)
  BY CountedRows
<1>3. /\ Spendable(s, w) = SumOver(g, D) /\ Short(s, w) = SumOver(m, D)
      /\ Spendable(t, w) = SumOver(h, D) /\ Short(t, w) = SumOver(k, D)
  BY DEF Spendable, Short
<1> HIDE DEF D, g, h, m, k
<1>4. SumOver(h, D) = SumOver(g, D) /\ SumOver(k, D) = SumOver(m, D)
  BY <1>1, <1>2, SumSame
<1> QED
  BY <1>3, <1>4

(* One row changes.                                                         *)
LEMMA CountsChange ==
    ASSUME NEW s \in Seq(Row), \A d \in 1 .. Len(s) : IsFiniteSet(s[d].consumed),
           NEW t \in Seq(Row), \A d \in 1 .. Len(t) : IsFiniteSet(t[d].consumed),
           Len(t) = Len(s), NEW i \in 1 .. Len(s), \A j \in (1 .. Len(s)) \ {i} : t[j] = s[j], NEW w
    PROVE  /\ Spendable(t, w) = Spendable(s, w) + (Gives(t[i], w) - Gives(s[i], w))
           /\ Short(t, w) = Short(s, w) + (Misses(t[i], w) - Misses(s[i], w))
<1> DEFINE D == 1 .. Len(s)
           g == Given(s, w)
           h == Given(t, w)
           m == Missed(s, w)
           k == Missed(t, w)
<1>1. IsFiniteSet(D) /\ i \in D
  BY CountedRows
<1>2. \A j \in D : /\ g[j] = Gives(s[j], w) /\ g[j] \in Int
                   /\ m[j] = Misses(s[j], w) /\ m[j] \in Int
                   /\ h[j] = Gives(t[j], w) /\ h[j] \in Int
                   /\ k[j] = Misses(t[j], w) /\ k[j] \in Int
  <2>1. \A j \in D : /\ g[j] = Gives(s[j], w) /\ g[j] \in Int
                     /\ m[j] = Misses(s[j], w) /\ m[j] \in Int
    BY CountedRows
  <2>2. \A j \in D : /\ h[j] = Gives(t[j], w) /\ h[j] \in Int
                     /\ k[j] = Misses(t[j], w) /\ k[j] \in Int
    BY CountedRows
  <2> QED
    BY <2>1, <2>2
<1>3. \A j \in D \ {i} : h[j] = g[j] /\ k[j] = m[j]
  BY <1>2
<1>4. /\ Spendable(s, w) = SumOver(g, D) /\ Short(s, w) = SumOver(m, D)
      /\ Spendable(t, w) = SumOver(h, D) /\ Short(t, w) = SumOver(k, D)
  BY DEF Spendable, Short
<1> HIDE DEF D, g, h, m, k
<1>5. SumOver(h, D) = SumOver(g, D) - g[i] + h[i]
  <2>1. DiffersAt(D, i, g, h)
    BY <1>1, <1>2, <1>3 DEF DiffersAt
  <2> QED
    BY <2>1, SumDiffers
<1>6. SumOver(k, D) = SumOver(m, D) - m[i] + k[i]
  <2>1. DiffersAt(D, i, m, k)
    BY <1>1, <1>2, <1>3 DEF DiffersAt
  <2> QED
    BY <2>1, SumDiffers
<1>7. /\ g[i] = Gives(s[i], w) /\ g[i] \in Int /\ m[i] = Misses(s[i], w) /\ m[i] \in Int
      /\ h[i] = Gives(t[i], w) /\ h[i] \in Int /\ k[i] = Misses(t[i], w) /\ k[i] \in Int
  BY <1>1, <1>2
<1>8. SumOver(g, D) \in Int /\ SumOver(m, D) \in Int
  <2>1. Spendable(s, w) \in Nat /\ Short(s, w) \in Int
    BY CountsType
  <2> QED
    BY <1>4, <2>1
<1> QED
  BY <1>4, <1>5, <1>6, <1>7, <1>8

(* A debit takes.                                                           *)
LEMMA CountsConsume ==
    ASSUME NEW s \in Seq(Row), \A d \in 1 .. Len(s) : IsFiniteSet(s[d].consumed),
           NEW w, NEW take, ValidTake(s, w, take), NEW u
    PROVE  LET t == ConsumeIn(s, take)
           IN  /\ t \in Seq(Row) /\ Len(t) = Len(s)
               /\ \A d \in 1 .. Len(t) : IsFiniteSet(t[d].consumed)
               /\ SumOver(take, DOMAIN take) \in Nat
               /\ Spendable(t, u) =
                     Spendable(s, u) - (IF u = w THEN SumOver(take, DOMAIN take) ELSE 0)
               /\ Short(t, u) = Short(s, u)
<1> DEFINE t == ConsumeIn(s, take)
           D == 1 .. Len(s)
           Taken(i) == IF i \in DOMAIN take THEN take[i] ELSE 0
<1>1. /\ t \in Seq(Row) /\ Len(t) = Len(s)
      /\ \A i \in D : SameButAvailable(t[i], s[i]) /\ t[i].available = s[i].available - Taken(i)
  BY ConsumeInType
<1> HIDE DEF t
<1>2. \A i \in D : /\ t[i].wallet = s[i].wallet /\ t[i].type = s[i].type
                   /\ t[i].status = s[i].status /\ t[i].reason = s[i].reason
                   /\ t[i].credits = s[i].credits /\ t[i].consumed = s[i].consumed
  BY <1>1 DEF SameButAvailable
<1>3. \A d \in 1 .. Len(t) : IsFiniteSet(t[d].consumed)
  BY <1>1, <1>2
<1>4. SumOver(take, DOMAIN take) \in Nat /\ IsFiniteSet(DOMAIN take)
      /\ DOMAIN take \in SUBSET D
  <2>1. IsTake(take) /\ IsFiniteSet(DOMAIN take)
    BY ValidIsTake
  <2>2. \A i \in DOMAIN take : take[i] \in Nat
    BY <2>1 DEF IsTake
  <2>3. DOMAIN take \in SUBSET D
    BY DEF ValidTake
  <2> QED
    BY <2>1, <2>2, <2>3, SumNat
<1>5. IsFiniteSet(D) /\ \A i \in D : s[i] \in Row /\ s[i].available \in Int
  <2>1. IsFiniteSet(D) /\ \A i \in D : s[i] \in Row
    BY CountedRows
  <2> QED
    BY <2>1, RowFields
<1>6. \A i \in DOMAIN take : /\ take[i] \in Nat /\ s[i].type = "credit"
                             /\ s[i].status = "COMPLETED" /\ s[i].wallet = w
  BY DEF ValidTake
<1>7. \A i \in D : Misses(t[i], u) = Misses(s[i], u)
  BY <1>2 DEF Misses
<1>8. \A i \in D : Gives(s[i], u) = Gives(t[i], u) + (IF u = w THEN Taken(i) ELSE 0)
  BY <1>1, <1>2, <1>5, <1>6 DEF Gives, IsSettledCredit
<1> DEFINE h == Given(t, u)
           g == Given(s, u)
           x == [i \in D |-> IF u = w THEN Taken(i) ELSE 0]
<1>9. \A i \in D : /\ h[i] = Gives(t[i], u) /\ h[i] \in Int
                   /\ g[i] = Gives(s[i], u)
                   /\ Missed(t, u)[i] = Misses(t[i], u) /\ Missed(s, u)[i] = Misses(s[i], u)
  BY <1>1, <1>3, CountedRows
<1>10. Short(t, u) = Short(s, u)
  <2>1. \A i \in D : Missed(t, u)[i] = Missed(s, u)[i]
    BY <1>7, <1>9
  <2> QED
    BY <1>1, <1>5, <2>1, SumSame DEF Short
<1>11. Spendable(s, u) = SumOver(g, D) /\ Spendable(t, u) = SumOver(h, D)
  BY <1>1 DEF Spendable
<1>12. \A i \in D : x[i] \in Int /\ x[i] = (IF u = w THEN Taken(i) ELSE 0)
  BY <1>6
<1>13. SumOver(x, D) = IF u = w THEN SumOver(take, DOMAIN take) ELSE 0
  <2>1. CASE u = w
    <3> DEFINE T == DOMAIN take
    <3>1. /\ T \in SUBSET D /\ \A i \in T : take[i] = x[i] /\ x[i] \in Int
          /\ \A i \in D \ T : x[i] = 0
      BY <1>4, <1>12, <2>1
    <3> HIDE DEF x, T, D
    <3>2. SumOver(take, T) = SumOver(x, D)
      BY <1>5, <3>1, SumOverPart
    <3> QED
      BY <2>1, <3>2 DEF T
  <2>2. CASE u # w
    <3>1. \A i \in D : x[i] = 0
      BY <1>12, <2>2
    <3> HIDE DEF x
    <3>2. SumOver(x, D) = 0
      BY <1>5, <3>1, SumZero
    <3> QED
      BY <2>2, <3>2
  <2> QED
    BY <2>1, <2>2
<1>14. \A i \in D : h[i] \in Int /\ x[i] \in Int /\ g[i] = h[i] + x[i]
  BY <1>8, <1>9, <1>12
<1> HIDE DEF x, g, h
<1>15. SumOver(g, D) = SumOver(h, D) + SumOver(x, D)
  BY <1>5, <1>14, SumPlus
<1>16. SumOver(h, D) \in Int
  BY <1>5, <1>14, SumType
<1>17. Spendable(t, u) = Spendable(s, u) - (IF u = w THEN SumOver(take, DOMAIN take) ELSE 0)
  BY <1>4, <1>11, <1>13, <1>15, <1>16
<1> QED
  BY <1>1, <1>3, <1>4, <1>10, <1>17 DEF t

(* What n credits posted from a balance of b leave spendable.               *)
Usable(b, n) == IF b < 0 THEN NonNegative(b + n) ELSE n

LEMMA CreditCounts ==
    ASSUME NEW row, row.type = "credit", row.reason # "MANUAL"
    PROVE  \A u : /\ Gives(row, u) = IF u = row.wallet /\ row.status = "COMPLETED"
                                     THEN row.available ELSE 0
                  /\ Misses(row, u) = 0
BY DEF Gives, Misses, IsSettledCredit

LEMMA DebitCounts ==
    ASSUME NEW w, NEW reason, NEW amount \in Int, NEW take, IsTake(take),
           IsFiniteSet(DOMAIN take), NEW before, NEW u
    PROVE  LET row == DebitRow(w, reason, amount, take, before)
           IN  /\ Gives(row, u) = 0
               /\ Misses(row, u) = IF u = w /\ reason = "MANUAL"
                                   THEN amount - SumOver(take, DOMAIN take) ELSE 0
               /\ IsFiniteSet(row.consumed)
               /\ row.after = before - amount
<1> DEFINE row == DebitRow(w, reason, amount, take, before)
<1>1. /\ row.wallet = w /\ row.type = "debit" /\ row.reason = reason
      /\ row.credits = amount /\ row.after = before - amount
      /\ row.consumed = Breakdown(take, DOMAIN take)
  BY DebitRowIs
<1>2. /\ IsFiniteSet(Breakdown(take, DOMAIN take))
      /\ Worth(Breakdown(take, DOMAIN take)) = SumOver(take, DOMAIN take)
  BY BreakdownWorth
<1> HIDE DEF row
<1>3. Gives(row, u) = 0
  BY <1>1 DEF Gives, IsSettledCredit
<1>4. Misses(row, u) = IF u = w /\ reason = "MANUAL"
                       THEN amount - SumOver(take, DOMAIN take) ELSE 0
  BY <1>1, <1>2 DEF Misses
<1> QED
  BY <1>1, <1>2, <1>3, <1>4 DEF row

----------------------------------------------------------------------------
(* A step of the account of wallet w, or none (n = 0).                      *)

GrantedTo(w, n) ==
    /\ creditBalance'[w] = creditBalance[w] + n
    /\ Spendable(rows', w) = Spendable(rows, w) + Usable(creditBalance[w], n)
    /\ Short(rows', w) = Short(rows, w)

TakenAway(w, n, taken) ==
    /\ taken <= n
    /\ creditBalance'[w] = creditBalance[w] - n
    /\ Spendable(rows', w) = Spendable(rows, w) - taken
    /\ Short(rows', w) = Short(rows, w) + (n - taken)

AccountStep(w) ==
    \E n \in Nat : GrantedTo(w, n) \/ \E taken \in Nat : TakenAway(w, n, taken)

AnyAccount(w) == INSTANCE WalletAccount WITH
    Amounts <- Nat \ {0},
    creditBalance <- creditBalance[w],
    available <- Available(CompletedCredits(w)),
    overdraft <- Sum(ManualDebits(w), Overdrawn)

LEMMA StepMaps ==
    ASSUME BooksInv, BooksInv', NEW w \in Wallets, AccountStep(w)
    PROVE  /\ [AnyAccount(w)!AccountNext]_(AnyAccount(w)!accountVars)
           /\ creditBalance'[w] - creditBalance[w] \in -MaxMove .. MaxMove =>
                 [Account(w)!AccountNext]_(Account(w)!accountVars)
<1> DEFINE a == Available(CompletedCredits(w))
           o == Sum(ManualDebits(w), Overdrawn)
           b == creditBalance[w]
           c == creditBalance'[w]
<1>1. /\ rows \in Seq(Row) /\ rows' \in Seq(Row)
      /\ \A d \in 1 .. Len(rows) : IsFiniteSet(rows[d].consumed)
      /\ \A d \in 1 .. Len(rows') : IsFiniteSet(rows'[d].consumed)
      /\ b \in Int /\ c \in Int
  BY DEF BooksInv, Booked, ConsumesSettled, TypeOK
<1>2. /\ a = Spendable(rows, w) /\ o = Short(rows, w)
      /\ a' = Spendable(rows', w) /\ o' = Short(rows', w)
      /\ a \in Nat /\ o \in Int /\ a' \in Nat /\ o' \in Int
  <2>1. /\ a = Spendable(rows, w) /\ o = Short(rows, w)
        /\ Spendable(rows, w) \in Nat /\ Short(rows, w) \in Int
    BY <1>1, SpendableIs, CountsType
  <2>2. SumsAgree'
    BY SumsAlwaysAgree, PTL
  <2>3. a' = Spendable(rows', w) /\ o' = Short(rows', w)
    BY <2>2 DEF SumsAgree, Spendable, Short, Given, Missed
  <2> DEFINE t == rows'
  <2>4. t \in Seq(Row) /\ \A d \in 1 .. Len(t) : IsFiniteSet(t[d].consumed)
    BY <1>1
  <2> HIDE DEF t
  <2>5. Spendable(t, w) \in Nat /\ Short(t, w) \in Int
    BY <2>4, CountsType
  <2> QED
    BY <2>1, <2>3, <2>5 DEF t
<1>3. PICK n \in Nat : GrantedTo(w, n) \/ \E taken \in Nat : TakenAway(w, n, taken)
  BY DEF AccountStep
<1> DEFINE Step(u, v, x, y, z, q) ==
              \/ y = v + n /\ z = u + Usable(v, n) /\ q = x
              \/ y = v - n /\ n <= u /\ z = u - n /\ q = x
              \/ \E taken \in 0 .. n - 1 : /\ taken <= u /\ y = v - n
                                           /\ z = u - taken /\ q = x + (n - taken)
<1>4. Step(a, b, o, c, a', o')
  <2>1. CASE GrantedTo(w, n)
    BY <1>2, <2>1 DEF GrantedTo
  <2>2. ASSUME NEW taken \in Nat, TakenAway(w, n, taken)
        PROVE  Step(a, b, o, c, a', o')
    <3>1. /\ taken <= n /\ c = b - n /\ a' = a - taken /\ o' = o + (n - taken)
      BY <1>2, <2>2 DEF TakenAway
    <3>2. taken <= a
      BY <1>2, <3>1
    <3>3. CASE taken = n
      BY <1>2, <3>1, <3>2, <3>3
    <3>4. CASE taken # n
      <4>1. taken \in 0 .. n - 1
        BY <3>1, <3>4
      <4> QED
        BY <3>1, <3>2, <4>1
    <3> QED
      BY <3>3, <3>4
  <2> QED
    BY <1>3, <2>1, <2>2
<1>5. CASE n = 0
  <2>1. c = b /\ a' = a /\ o' = o
    BY <1>1, <1>2, <1>4, <1>5 DEF Usable, NonNegative
  <2> QED
    BY <2>1 DEF AnyAccount!accountVars, Account!accountVars
<1>6. CASE n # 0
  <2>1. n \in Nat \ {0}
    BY <1>6
  <2>2. c - b \in -MaxMove .. MaxMove => n \in 1 .. MaxMove
    <3>1. c = b + n \/ c = b - n
      BY <1>4
    <3> QED
      BY <1>1, <2>1, <3>1, LedgerConstants
  <2>3. Usable(b, n) = AnyAccount(w)!CreditsUsable(b, b + n)
        /\ Usable(b, n) = Account(w)!CreditsUsable(b, b + n)
    BY <1>1 DEF Usable, NonNegative, AnyAccount!CreditsUsable, AnyAccount!NonNegative,
       Account!CreditsUsable, Account!NonNegative
  <2>4. \/ AnyAccount(w)!Grant(n) /\ Account(w)!Grant(n)
        \/ AnyAccount(w)!Spend(n) /\ Account(w)!Spend(n)
        \/ \E taken \in 0 .. n - 1 :
              AnyAccount(w)!Overdraw(n, taken) /\ Account(w)!Overdraw(n, taken)
    BY <1>4, <2>3 DEF AnyAccount!Grant, Account!Grant, AnyAccount!Spend, Account!Spend,
       AnyAccount!Overdraw, Account!Overdraw
  <2>5. AnyAccount(w)!AccountNext
    BY <2>1, <2>4 DEF AnyAccount!AccountNext
  <2>6. c - b \in -MaxMove .. MaxMove => Account(w)!AccountNext
    BY <2>2, <2>4 DEF Account!AccountNext
  <2> QED
    BY <2>5, <2>6
<1> QED
  BY <1>5, <1>6

LEMMA UsableAdds ==
    ASSUME NEW b \in Int, NEW m \in Nat, NEW n \in Nat
    PROVE  /\ Usable(b, m) + Usable(b + m, n) = Usable(b, m + n)
           /\ Usable(b, m) \in Nat /\ Usable(b, 0) = 0
BY DEF Usable, NonNegative

LEMMA Untouched ==
    ASSUME BooksInv, NEW w \in Wallets, creditBalance'[w] = creditBalance[w],
           Spendable(rows', w) = Spendable(rows, w), Short(rows', w) = Short(rows, w)
    PROVE  AccountStep(w)
<1>1. creditBalance[w] \in Int /\ Spendable(rows, w) \in Nat
  BY CountsType DEF BooksInv, TypeOK, Booked, ConsumesSettled
<1>2. GrantedTo(w, 0)
  <2>1. Usable(creditBalance[w], 0) = 0
    BY <1>1 DEF Usable, NonNegative
  <2> QED
    BY <1>1, <2>1 DEF GrantedTo
<1> QED
  BY <1>2 DEF AccountStep

(* The rows of a purchase, with its bonus, leave n credits more.            *)
PurchaseCountsFor(added, w, status, before, n) ==
    /\ status = "COMPLETED" => added # <<>> /\ added[Len(added)].after = before + n
    /\ \A u : /\ Spendable(rows \o added, u) = Spendable(rows, u) +
                    (IF u = w /\ status = "COMPLETED" THEN Usable(before, n) ELSE 0)
              /\ Short(rows \o added, u) = Short(rows, u)

LEMMA PurchaseCounts ==
    ASSUME BooksInv, NEW w \in Wallets, NEW reason \in {"GRANT", "PURCHASE"},
           NEW status \in Statuses, NEW offer \in Offered,
           NEW bonus, bonus = <<>> \/ \E b \in Offered : bonus = <<b>>, NEW before \in Int
    PROVE  \E n \in Nat :
               PurchaseCountsFor(PurchaseRows(w, reason, status, offer, bonus, before),
                                 w, status, before, n)
<1> DEFINE purchase == CreditRow(w, reason, status, offer, NoParent, before)
           grant == CreditRow(w, "BONUS", status, bonus[1], Len(rows) + 1, purchase.after)
           added == PurchaseRows(w, reason, status, offer, bonus, before)
           m == offer.credits
           n == bonus[1].credits
           Good(x) ==
               /\ status = "COMPLETED" => /\ added # <<>> /\ added[Len(added)].after = before + x
               /\ \A u : /\ Spendable(rows \o added, u) = Spendable(rows, u) +
                               (IF u = w /\ status = "COMPLETED" THEN Usable(before, x) ELSE 0)
                         /\ Short(rows \o added, u) = Short(rows, u)
<1> SUFFICES \E x \in Nat : Good(x)
  BY DEF PurchaseCountsFor
<1>0. /\ rows \in Seq(Row) /\ now \in Time /\ Len(rows) + 1 \in Nat
      /\ \A d \in 1 .. Len(rows) : IsFiniteSet(rows[d].consumed)
  BY LenProperties DEF BooksInv, TypeOK, Booked, ConsumesSettled
<1>1. purchase \in Row
  BY <1>0, CreditRowType DEF NoParent, Reasons
<1>2. /\ purchase.consumed = {}
      /\ status = "COMPLETED" => /\ purchase.after = before + m
                                 /\ purchase.available = Usable(before, m)
      /\ \A u : /\ Gives(purchase, u) = IF u = w /\ status = "COMPLETED"
                                        THEN purchase.available ELSE 0
                /\ Misses(purchase, u) = 0
  <2>1. /\ purchase.type = "credit" /\ purchase.reason = reason /\ purchase.wallet = w
        /\ purchase.status = status /\ purchase.consumed = {}
    BY DEF CreditRow
  <2>2. status = "COMPLETED" => /\ purchase.after = before + m
                                /\ purchase.available = Usable(before, m)
    BY DEF CreditRow, Usable, ComputeCreditsAvailable
  <2> HIDE DEF purchase
  <2> QED
    BY <2>1, <2>2, CreditCounts
<1>3. added = IF bonus = <<>> THEN <<purchase>> ELSE <<purchase, grant>>
  BY DEF PurchaseRows
<1>4. m \in Nat
  BY DEF Offered
<1>5. ASSUME bonus # <<>>
      PROVE  /\ grant \in Row /\ n \in Nat
             /\ grant.consumed = {}
             /\ status = "COMPLETED" => /\ grant.after = before + (m + n)
                                        /\ grant.available = Usable(before + m, n)
             /\ \A u : /\ Gives(grant, u) = IF u = w /\ status = "COMPLETED"
                                            THEN grant.available ELSE 0
                       /\ Misses(grant, u) = 0
  <2> DEFINE after == purchase.after
             b == bonus[1]
  <2>1. after \in Int
    BY <1>1, RowFields
  <2>2. b \in Offered /\ "BONUS" \in Reasons /\ n \in Nat
    BY <1>5 DEF Reasons, Offered
  <2>3. status = "COMPLETED" => after = before + m
    BY <1>2
  <2> HIDE DEF after, purchase, b
  <2>4. grant \in Row
    BY <1>0, <2>1, <2>2, CreditRowType DEF after, b
  <2>5. /\ grant.type = "credit" /\ grant.reason = "BONUS" /\ grant.wallet = w
        /\ grant.status = status /\ grant.consumed = {}
        /\ status = "COMPLETED" => /\ grant.after = after + n
                                   /\ grant.available = Usable(after, n)
    BY DEF CreditRow, Usable, ComputeCreditsAvailable, after, b
  <2> HIDE DEF grant, n
  <2>7. \A u : /\ Gives(grant, u) = IF u = w /\ status = "COMPLETED"
                                    THEN grant.available ELSE 0
               /\ Misses(grant, u) = 0
    BY <2>5, CreditCounts
  <2>6. status = "COMPLETED" => after + n = before + (m + n)
    BY <1>4, <2>2, <2>3
  <2> QED
    BY <2>2, <2>3, <2>4, <2>5, <2>6, <2>7
<1> HIDE DEF purchase, grant, added, m, n
<1> DEFINE s == rows \o <<purchase>>
<1>6. IsFiniteSet(purchase.consumed)
  BY <1>2, FS_EmptySet
<1>7. /\ s \in Seq(Row)
      /\ \A d \in 1 .. Len(s) : IsFiniteSet(s[d].consumed)
      /\ \A u : /\ Spendable(s, u) = Spendable(rows, u) + Gives(purchase, u)
                /\ Short(s, u) = Short(rows, u) + Misses(purchase, u)
  BY <1>0, <1>1, <1>6, CountsAppend
<1>8. \A u : /\ Spendable(rows, u) \in Nat /\ Short(rows, u) \in Int
  BY <1>0, CountsType
<1>9. /\ Usable(before, m) \in Nat
  BY <1>4, UsableAdds
<1>10. \A u : /\ Spendable(s, u) = Spendable(rows, u) +
                       (IF u = w /\ status = "COMPLETED" THEN Usable(before, m) ELSE 0)
              /\ Short(s, u) = Short(rows, u)
  BY <1>2, <1>7, <1>8
<1>11. CASE bonus = <<>>
  <2>1. added = <<purchase>>
    BY <1>3, <1>11
  <2>2. <<purchase>> # <<>> /\ Len(<<purchase>>) = 1 /\ <<purchase>>[1] = purchase
    OBVIOUS
  <2>3. rows \o added = s /\ added # <<>> /\ added[Len(added)] = purchase
    BY <2>1, <2>2
  <2> HIDE DEF s
  <2>4. Good(m)
    BY <1>2, <1>10, <2>3
  <2> HIDE DEF Good
  <2> QED
    BY <1>4, <2>4
<1>12. CASE bonus # <<>>
  <2> DEFINE t == s \o <<grant>>
  <2>1. grant \in Row /\ IsFiniteSet(grant.consumed) /\ n \in Nat /\ m + n \in Nat
    <3>1. grant \in Row /\ grant.consumed = {} /\ n \in Nat
      BY <1>5, <1>12
    <3>2. m + n \in Nat
      BY <1>4, <3>1
    <3> QED
      BY <3>1, <3>2, FS_EmptySet
  <2>2. \A u : /\ Spendable(t, u) = Spendable(s, u) + Gives(grant, u)
               /\ Short(t, u) = Short(s, u) + Misses(grant, u)
    <3> HIDE DEF s
    <3> QED
      BY <1>7, <2>1, CountsAppend
  <2>3. rows \o <<purchase, grant>> = t
    BY <1>0, <1>1, <2>1, TwoRows
  <2>4. /\ <<purchase, grant>> # <<>> /\ Len(<<purchase, grant>>) = 2
        /\ <<purchase, grant>>[2] = grant
    OBVIOUS
  <2>5. added = <<purchase, grant>>
    BY <1>3, <1>12
  <2>6. rows \o added = t /\ added # <<>> /\ added[Len(added)] = grant
    BY <2>3, <2>4, <2>5
  <2> HIDE DEF t, s
  <2>7. /\ Usable(before, m) + Usable(before + m, n) = Usable(before, m + n)
        /\ Usable(before + m, n) \in Nat
    BY <1>4, <2>1, UsableAdds
  <2>8. \A u : /\ Spendable(t, u) = Spendable(rows, u) +
                     (IF u = w /\ status = "COMPLETED" THEN Usable(before, m + n) ELSE 0)
               /\ Short(t, u) = Short(rows, u)
    BY <1>5, <1>8, <1>9, <1>10, <1>12, <2>2, <2>7
  <2>9. status = "COMPLETED" => grant.after = before + (m + n)
    BY <1>5, <1>12
  <2>10. Good(m + n)
    BY <2>6, <2>8, <2>9
  <2> HIDE DEF Good
  <2> QED
    BY <2>1, <2>10
<1> QED
  BY <1>11, <1>12

----------------------------------------------------------------------------
(* What each operation does to the accounts.  A wallet that was never       *)
(* opened has no balance.                                                   *)
Unopened == \A w \in Wallets : walletStatus[w] = "none" => creditBalance[w] = 0

(* Rows are added at wallet w's expense or to its benefit.                  *)
LEMMA OtherAccounts ==
    ASSUME BooksInv, NEW w \in Wallets, NEW c, creditBalance' = [creditBalance EXCEPT ![w] = c]
    PROVE  /\ creditBalance'[w] = c
           /\ \A u \in Wallets \ {w} : creditBalance'[u] = creditBalance[u]
           /\ \A u \in Wallets : creditBalance[u] \in Int
BY DEF BooksInv, TypeOK

LEMMA GrantSteps ==
    ASSUME BooksInv, NEW w \in Wallets, NEW n \in Nat,
           creditBalance'[w] = creditBalance[w] + n,
           \A u \in Wallets \ {w} : creditBalance'[u] = creditBalance[u],
           \A u \in Wallets : /\ Spendable(rows', u) = Spendable(rows, u) +
                                    (IF u = w THEN Usable(creditBalance[w], n) ELSE 0)
                              /\ Short(rows', u) = Short(rows, u)
    PROVE  \A u \in Wallets : AccountStep(u)
<1>1. AccountStep(w)
  <2>1. GrantedTo(w, n)
    BY DEF GrantedTo
  <2> QED
    BY <2>1 DEF AccountStep
<1>2. ASSUME NEW u \in Wallets \ {w} PROVE AccountStep(u)
  <2>1. Spendable(rows, u) \in Nat
    BY CountsType DEF BooksInv, TypeOK, Booked, ConsumesSettled
  <2>2. Spendable(rows', u) = Spendable(rows, u)
    BY <2>1
  <2> QED
    BY <2>2, Untouched
<1> QED
  BY <1>1, <1>2

LEMMA TakeSteps ==
    ASSUME BooksInv, NEW w \in Wallets, NEW n \in Nat, NEW taken \in Nat, taken <= n,
           creditBalance'[w] = creditBalance[w] - n,
           \A u \in Wallets \ {w} : creditBalance'[u] = creditBalance[u],
           \A u \in Wallets : /\ Spendable(rows', u) = Spendable(rows, u) - (IF u = w THEN taken ELSE 0)
                              /\ Short(rows', u) = Short(rows, u) + (IF u = w THEN n - taken ELSE 0)
    PROVE  \A u \in Wallets : AccountStep(u)
<1>1. AccountStep(w)
  <2>1. TakenAway(w, n, taken)
    BY DEF TakenAway
  <2> QED
    BY <2>1 DEF AccountStep
<1>2. ASSUME NEW u \in Wallets \ {w} PROVE AccountStep(u)
  <2>1. Spendable(rows, u) \in Nat /\ Short(rows, u) \in Int
    BY CountsType DEF BooksInv, TypeOK, Booked, ConsumesSettled
  <2>2. Spendable(rows', u) = Spendable(rows, u) /\ Short(rows', u) = Short(rows, u)
    BY <2>1
  <2> QED
    BY <2>2, Untouched
<1> QED
  BY <1>1, <1>2

LEMMA CreateWalletSteps ==
    ASSUME BooksInv, Unopened, NEW w \in Wallets, NEW load \in Maybe(Offers), CreateWallet(w, load)
    PROVE  \A u \in Wallets : AccountStep(u)
<1> DEFINE Granted(k) == CreditRow(w, "GRANT", "COMPLETED", load[k], NoParent, 0)
           added == [k \in DOMAIN load |-> Granted(k)]
<1>1. Post(w, rows, added) /\ creditBalance[w] = 0
  BY DEF CreateWallet, Unopened
<1>2. load = <<>> \/ \E e \in Offered : load = <<e>>
  BY MaybeOffered, OffersAreOffered
<1>3. /\ rows \in Seq(Row) /\ now \in Time
      /\ \A d \in 1 .. Len(rows) : IsFiniteSet(rows[d].consumed)
      /\ \A u : Spendable(rows, u) \in Nat /\ Short(rows, u) \in Int
  BY CountsType DEF BooksInv, TypeOK, Booked, ConsumesSettled
<1>4. rows' = rows \o added /\ creditBalance' = [creditBalance EXCEPT ![w] = LastAfter(w, added)]
  BY <1>1 DEF Post
<1>5. CASE load = <<>>
  <2>1. added = <<>>
    BY <1>5
  <2>2. rows \o <<>> = rows
    BY <1>3, ConcatEmptySeq
  <2> HIDE DEF added
  <2>3. rows' = rows /\ creditBalance' = [creditBalance EXCEPT ![w] = creditBalance[w]]
    BY <1>4, <2>1, <2>2 DEF LastAfter
  <2>4. \A u \in Wallets : creditBalance'[u] = creditBalance[u]
    BY <2>3, OtherAccounts
  <2> QED
    BY <2>3, <2>4, Untouched
<1>6. CASE \E e \in Offered : load = <<e>>
  <2>1. PICK e \in Offered : load = <<e>>
    BY <1>6
  <2> DEFINE row == CreditRow(w, "GRANT", "COMPLETED", e, NoParent, 0)
             n == e.credits
  <2>2. added = <<row>>
    BY <2>1
  <2>3. row \in Row /\ n \in Nat
    BY <1>3, CreditRowType DEF NoParent, Reasons, Statuses, Offered
  <2>4. /\ row.type = "credit" /\ row.reason = "GRANT" /\ row.wallet = w
        /\ row.status = "COMPLETED" /\ row.consumed = {}
        /\ row.after = 0 + n /\ row.available = Usable(0, n)
    BY DEF CreditRow, Usable, ComputeCreditsAvailable
  <2> HIDE DEF row, added, n
  <2>5. \A u : Gives(row, u) = (IF u = w THEN Usable(0, n) ELSE 0) /\ Misses(row, u) = 0
    BY <2>4, CreditCounts
  <2>6. \A u : /\ Spendable(rows \o <<row>>, u) = Spendable(rows, u) + Gives(row, u)
               /\ Short(rows \o <<row>>, u) = Short(rows, u) + Misses(row, u)
    <3>1. IsFiniteSet(row.consumed)
      BY <2>4, FS_EmptySet
    <3> QED
      BY <1>3, <2>3, <3>1, CountsAppend
  <2>7. \A u \in Wallets :
           /\ Spendable(rows', u) = Spendable(rows, u) +
                 (IF u = w THEN Usable(creditBalance[w], n) ELSE 0)
           /\ Short(rows', u) = Short(rows, u)
    <3>1. rows' = rows \o <<row>>
      BY <1>4, <2>2
    <3>2. ASSUME NEW u \in Wallets PROVE Short(rows', u) = Short(rows, u)
      BY <1>3, <2>5, <2>6, <3>1
    <3> QED
      BY <1>1, <2>5, <2>6, <3>1, <3>2
  <2>8. LastAfter(w, <<row>>) = row.after
    BY DEF LastAfter
  <2>9. creditBalance'[w] = creditBalance[w] + n
        /\ \A u \in Wallets \ {w} : creditBalance'[u] = creditBalance[u]
    BY <1>1, <1>4, <2>2, <2>3, <2>4, <2>8, OtherAccounts
  <2> QED
    BY <2>3, <2>7, <2>9, GrantSteps
<1> QED
  BY <1>2, <1>5, <1>6

(* A purchase that enters the balance at once.                              *)
LEMMA PurchaseSteps ==
    ASSUME BooksInv, NEW w \in Wallets, NEW reason \in {"GRANT", "PURCHASE"},
           NEW offer \in Offers, NEW bonus \in Maybe(Bonuses),
           rows' = rows \o PurchaseRows(w, reason, "COMPLETED", offer, bonus, creditBalance[w]),
           creditBalance'[w] =
               LastAfter(w, PurchaseRows(w, reason, "COMPLETED", offer, bonus, creditBalance[w])),
           \A u \in Wallets \ {w} : creditBalance'[u] = creditBalance[u]
    PROVE  \A u \in Wallets : AccountStep(u)
<1> DEFINE before == creditBalance[w]
           added == PurchaseRows(w, reason, "COMPLETED", offer, bonus, before)
<1>1. bonus = <<>> \/ \E b \in Offered : bonus = <<b>>
  BY MaybeOffered, OffersAreOffered
<1>2. offer \in Offered /\ "COMPLETED" \in Statuses /\ before \in Int
  BY OffersAreOffered DEF Statuses, BooksInv, TypeOK
<1>3. PICK n \in Nat : PurchaseCountsFor(added, w, "COMPLETED", before, n)
  BY <1>1, <1>2, PurchaseCounts
<1>4. rows' = rows \o added /\ creditBalance'[w] = LastAfter(w, added)
  OBVIOUS
<1> HIDE DEF added
<1>5. creditBalance'[w] = creditBalance[w] + n
  BY <1>3, <1>4 DEF LastAfter, PurchaseCountsFor
<1>6. \A u \in Wallets : /\ Spendable(rows', u) = Spendable(rows, u) +
                               (IF u = w THEN Usable(creditBalance[w], n) ELSE 0)
                         /\ Short(rows', u) = Short(rows, u)
  BY <1>3, <1>4 DEF PurchaseCountsFor
<1> QED
  BY <1>5, <1>6, GrantSteps

LEMMA CreditWalletSteps ==
    ASSUME BooksInv, NEW w \in Wallets, NEW offer \in Offers, NEW bonus \in Maybe(Bonuses),
           CreditWallet(w, offer, bonus)
    PROVE  \A u \in Wallets : AccountStep(u)
<1> DEFINE added == PurchaseRows(w, "GRANT", "COMPLETED", offer, bonus, creditBalance[w])
           after == LastAfter(w, added)
<1>1. rows' = rows \o added /\ creditBalance' = [creditBalance EXCEPT ![w] = after]
  BY DEF CreditWallet, Post
<1>2. creditBalance'[w] = after /\ \A u \in Wallets \ {w} : creditBalance'[u] = creditBalance[u]
  <2> HIDE DEF after
  <2> QED
    BY <1>1, OtherAccounts
<1> QED
  BY <1>1, <1>2, PurchaseSteps

LEMMA RequestCompletedPurchaseSteps ==
    ASSUME BooksInv, NEW w \in Wallets, NEW offer \in Offers, NEW bonus \in Maybe(Bonuses),
           RequestCompletedPurchase(w, offer, bonus)
    PROVE  \A u \in Wallets : AccountStep(u)
<1> DEFINE added == PurchaseRows(w, "PURCHASE", "COMPLETED", offer, bonus, creditBalance[w])
           after == LastAfter(w, added)
           c == creditBalance[w] + (after - creditBalance[w])
<1>1. rows' = rows \o added /\ creditBalance' = [creditBalance EXCEPT ![w] = c]
  BY DEF RequestCompletedPurchase
<1>2. creditBalance[w] \in Int
  BY DEF BooksInv, TypeOK
<1>3. after \in Int
  <2>1. bonus = <<>> \/ \E b \in Offered : bonus = <<b>>
    BY MaybeOffered, OffersAreOffered
  <2>2. offer \in Offered /\ "PURCHASE" \in Reasons /\ "COMPLETED" \in Statuses
    BY OffersAreOffered DEF Reasons, Statuses
  <2>3. added # <<>> /\ added[Len(added)] \in Row
    BY <1>2, <2>1, <2>2, PurchaseRowsBooked
  <2> HIDE DEF added
  <2> QED
    BY <2>3, RowFields DEF LastAfter
<1>4. c = after
  <2> HIDE DEF after
  <2> QED
    BY <1>2, <1>3
<1>5. creditBalance'[w] = after /\ \A u \in Wallets \ {w} : creditBalance'[u] = creditBalance[u]
  <2> HIDE DEF c, after
  <2> QED
    BY <1>1, <1>4, OtherAccounts
<1> QED
  BY <1>1, <1>5, PurchaseSteps

LEMMA RequestPurchaseSteps ==
    ASSUME BooksInv, NEW w \in Wallets, NEW offer \in Offers, NEW bonus \in Maybe(Bonuses),
           RequestPurchase(w, offer, bonus)
    PROVE  \A u \in Wallets : AccountStep(u)
<1> DEFINE added == PurchaseRows(w, "PURCHASE", "PENDING", offer, bonus, creditBalance[w])
<1>1. rows' = rows \o added /\ creditBalance' = creditBalance
  BY DEF RequestPurchase
<1>2. \A u : /\ Spendable(rows \o added, u) = Spendable(rows, u) + 0
             /\ Short(rows \o added, u) = Short(rows, u)
  <2>1. bonus = <<>> \/ \E b \in Offered : bonus = <<b>>
    BY MaybeOffered, OffersAreOffered
  <2>2. offer \in Offered /\ "PENDING" \in Statuses /\ creditBalance[w] \in Int
    BY OffersAreOffered DEF Statuses, BooksInv, TypeOK
  <2>3. \E n \in Nat : PurchaseCountsFor(added, w, "PENDING", creditBalance[w], n)
    BY <2>1, <2>2, PurchaseCounts
  <2> HIDE DEF added
  <2> QED
    BY <2>3 DEF PurchaseCountsFor
<1>3. \A u : Spendable(rows, u) \in Nat
  BY CountsType DEF BooksInv, TypeOK, Booked, ConsumesSettled
<1> HIDE DEF added
<1>4. ASSUME NEW u \in Wallets
      PROVE  Spendable(rows', u) = Spendable(rows, u) /\ Short(rows', u) = Short(rows, u)
  BY <1>1, <1>2, <1>3
<1> QED
  BY <1>1, <1>4, Untouched

(* A debit takes what it consumes and, if it is manual, may fall short.     *)
LEMMA PostDebitSteps ==
    ASSUME BooksInv, NEW w \in Wallets, NEW reason \in Reasons, NEW amount \in Nat,
           NEW take, ValidTake(rows, w, take),
           SumOver(take, DOMAIN take) <= amount,
           SumOver(take, DOMAIN take) < amount => reason = "MANUAL",
           PostDebit(w, reason, amount, take)
    PROVE  \A u \in Wallets : AccountStep(u)
<1> DEFINE before == creditBalance[w]
           row == DebitRow(w, reason, amount, take, before)
           t == ConsumeIn(rows, take)
           taken == SumOver(take, DOMAIN take)
<1>1. /\ rows \in Seq(Row) /\ now \in Time /\ before \in Int
      /\ \A d \in 1 .. Len(rows) : IsFiniteSet(rows[d].consumed)
      /\ \A u : Spendable(rows, u) \in Nat /\ Short(rows, u) \in Int
  BY CountsType DEF BooksInv, TypeOK, Booked, ConsumesSettled
<1>2. IsTake(take) /\ IsFiniteSet(DOMAIN take)
  BY <1>1, ValidIsTake
<1>3. row \in Row
  <2> HIDE DEF before
  <2> QED
    BY <1>1, <1>2, DebitRowType
<1>4. /\ \A u : /\ Gives(row, u) = 0
                /\ Misses(row, u) = IF u = w /\ reason = "MANUAL" THEN amount - taken ELSE 0
      /\ IsFiniteSet(row.consumed) /\ row.after = before - amount
  <2> HIDE DEF before
  <2> QED
    BY <1>2, DebitCounts
<1>5. /\ t \in Seq(Row) /\ \A d \in 1 .. Len(t) : IsFiniteSet(t[d].consumed)
      /\ taken \in Nat
      /\ \A u : /\ Spendable(t, u) = Spendable(rows, u) - (IF u = w THEN taken ELSE 0)
                /\ Short(t, u) = Short(rows, u)
  BY <1>1, CountsConsume
<1>6. rows' = t \o <<row>> /\ creditBalance' = [creditBalance EXCEPT ![w] = before - amount]
  <2>1. /\ rows' = Consume(take) \o <<row>>
        /\ creditBalance' = [creditBalance EXCEPT ![w] = LastAfter(w, <<row>>)]
    BY DEF PostDebit, Post
  <2>2. LastAfter(w, <<row>>) = row.after
    <3> HIDE DEF row
    <3> QED
      BY DEF LastAfter
  <2> QED
    BY <1>4, <2>1, <2>2, ConsumeIsConsumeIn
<1> HIDE DEF row, t, taken
<1>7. \A u : /\ Spendable(t \o <<row>>, u) = Spendable(t, u) + Gives(row, u)
             /\ Short(t \o <<row>>, u) = Short(t, u) + Misses(row, u)
  BY <1>3, <1>4, <1>5, CountsAppend
<1>8. taken <= amount /\ (taken < amount => reason = "MANUAL")
  BY DEF taken
<1>9. ASSUME NEW u \in Wallets
      PROVE  /\ Spendable(rows', u) = Spendable(rows, u) - (IF u = w THEN taken ELSE 0)
             /\ Short(rows', u) = Short(rows, u) + (IF u = w THEN amount - taken ELSE 0)
  <2>1. /\ Spendable(rows', u) = Spendable(t, u) + Gives(row, u)
        /\ Short(rows', u) = Short(t, u) + Misses(row, u)
    BY <1>6, <1>7
  <2>2. /\ Spendable(t, u) = Spendable(rows, u) - (IF u = w THEN taken ELSE 0)
        /\ Short(t, u) = Short(rows, u)
    BY <1>5
  <2>3. /\ Gives(row, u) = 0
        /\ Misses(row, u) = IF u = w /\ reason = "MANUAL" THEN amount - taken ELSE 0
    BY <1>4
  <2>4. /\ Spendable(rows, u) \in Nat /\ Short(rows, u) \in Int /\ taken \in Nat
        /\ reason # "MANUAL" => amount - taken = 0
    BY <1>1, <1>5, <1>8
  <2> QED
    BY <2>1, <2>2, <2>3, <2>4
<1>10. creditBalance'[w] = creditBalance[w] - amount
       /\ \A u \in Wallets \ {w} : creditBalance'[u] = creditBalance[u]
  BY <1>6, OtherAccounts
<1> QED
  BY <1>5, <1>8, <1>9, <1>10, TakeSteps

LEMMA DebitWalletSteps ==
    ASSUME BooksInv, NEW w \in Wallets, NEW amount \in Debits, NEW ref,
           DebitWallet(w, amount, ref)
    PROVE  \A u \in Wallets : AccountStep(u)
<1>1. Available(EligibleCredits(w, ref)) >= amount
  BY DEF DebitWallet
<1>2. PICK take \in Consumptions(EligibleCredits(w, ref), amount) :
         PostDebit(w, "SPEND", amount, take)
  BY DEF DebitWallet
<1>3. amount \in Nat /\ "SPEND" \in Reasons
  BY LedgerConstants DEF Reasons
<1>4. ValidTake(rows, w, take) /\ SumOver(take, DOMAIN take) = amount
  BY <1>1, <1>3, ConsumptionIsValid
<1> QED
  BY <1>2, <1>3, <1>4, PostDebitSteps

LEMMA ManualBalanceDebitSteps ==
    ASSUME BooksInv, NEW w \in Wallets, NEW amount \in Debits, ManualBalanceDebit(w, amount)
    PROVE  \A u \in Wallets : AccountStep(u)
<1>1. PICK take \in Consumptions(EligibleCredits(w, ThisInstant), amount) :
         PostDebit(w, "MANUAL", amount, take)
  BY DEF ManualBalanceDebit
<1>2. amount \in Nat /\ "MANUAL" \in Reasons
  BY LedgerConstants DEF Reasons
<1>3. ValidTake(rows, w, take) /\ SumOver(take, DOMAIN take) <= amount
  BY <1>2, ConsumptionIsValid
<1> QED
  BY <1>1, <1>2, <1>3, PostDebitSteps

LEMMA TerminateWalletSteps ==
    ASSUME BooksInv, NEW w \in Wallets, TerminateWallet(w)
    PROVE  \A u \in Wallets : AccountStep(u)
<1>1. CASE creditBalance[w] > 0
  <2> DEFINE amount == creditBalance[w]
  <2>1. PICK take \in Consumptions(EligibleCredits(w, ThisInstant), amount) :
           PostDebit(w, "TERMINATION", amount, take)
    BY <1>1 DEF TerminateWallet
  <2>2. Available(EligibleCredits(w, ThisInstant)) >= amount
    BY <1>1 DEF TerminateWallet, CanEmpty
  <2>3. amount \in Nat /\ "TERMINATION" \in Reasons
    BY <1>1 DEF Reasons, BooksInv, TypeOK
  <2> HIDE DEF amount
  <2>4. ValidTake(rows, w, take) /\ SumOver(take, DOMAIN take) = amount
    BY <2>1, <2>2, <2>3, ConsumptionIsValid
  <2> QED
    BY <2>1, <2>3, <2>4, PostDebitSteps
<1>2. CASE ~ creditBalance[w] > 0
  <2>1. UNCHANGED <<rows, creditBalance>>
    BY <1>2 DEF TerminateWallet
  <2> QED
    BY <2>1, Untouched
<1> QED
  BY <1>1, <1>2

(* A debit that is not manual counts for nothing by itself.                 *)
LEMMA CoveredDebit ==
    ASSUME now \in Time, NEW w \in Wallets, NEW reason \in Reasons \ {"MANUAL"},
           NEW amount \in Nat, NEW take, IsTake(take), IsFiniteSet(DOMAIN take), NEW before \in Int
    PROVE  LET row == DebitRow(w, reason, amount, take, before)
           IN  /\ row \in Row /\ IsFiniteSet(row.consumed) /\ row.after = before - amount
               /\ \A u : Gives(row, u) = 0 /\ Misses(row, u) = 0
<1> DEFINE row == DebitRow(w, reason, amount, take, before)
<1>1. row \in Row
  BY DebitRowType
<1>2. /\ IsFiniteSet(row.consumed) /\ row.after = before - amount
      /\ \A u : /\ Gives(row, u) = 0
                /\ Misses(row, u) = IF u = w /\ reason = "MANUAL"
                                    THEN amount - SumOver(take, DOMAIN take) ELSE 0
  BY DebitCounts
<1> QED
  BY <1>1, <1>2

LEMMA ConvertToPostpaidSteps ==
    ASSUME BooksInv, Unopened, NEW w \in Wallets, NEW v \in Wallets, ConvertToPostpaid(w, v)
    PROVE  \A u \in Wallets : AccountStep(u)
<1> DEFINE held == creditBalance[w]
<1>1. /\ held \in Int /\ rows \in Seq(Row) /\ now \in Time
      /\ \A d \in 1 .. Len(rows) : IsFiniteSet(rows[d].consumed)
      /\ \A u : Spendable(rows, u) \in Nat /\ Short(rows, u) \in Int
  BY CountsType DEF BooksInv, TypeOK, Booked, ConsumesSettled
<1>2. CASE held > 0
  <2> DEFINE out(take) == DebitRow(w, "TERMINATION", held, take, held)
             in == TransferRow(v, held)
  <2>1. PICK take \in Consumptions(EligibleCredits(w, ThisInstant), held) :
           rows' = Consume(take) \o <<out(take), in>>
    BY <1>2 DEF ConvertToPostpaid
  <2>2. /\ Available(EligibleCredits(w, ThisInstant)) >= held
        /\ creditBalance' = [creditBalance EXCEPT ![w] = 0, ![v] = held]
        /\ walletStatus[v] = "none" /\ walletStatus[w] = "active"
    BY <1>2 DEF ConvertToPostpaid, CanEmpty, Active
  <2>3. /\ w # v /\ creditBalance[v] = 0 /\ held \in Nat
        /\ "TERMINATION" \in Reasons \ {"MANUAL"}
    BY <1>1, <1>2, <2>2 DEF Unopened, Reasons
  <2> HIDE DEF held
  <2>4. ValidTake(rows, w, take) /\ SumOver(take, DOMAIN take) = held
    BY <2>1, <2>2, <2>3, ConsumptionIsValid
  <2> DEFINE o == out(take)
             kept == ConsumeIn(rows, take)
  <2>5. IsTake(take) /\ IsFiniteSet(DOMAIN take)
    BY <1>1, <2>4, ValidIsTake
  <2>6. /\ o \in Row /\ IsFiniteSet(o.consumed)
        /\ \A u : Gives(o, u) = 0 /\ Misses(o, u) = 0
    <3> HIDE DEF in, kept
    <3>1. held \in Int /\ now \in Time
      BY <1>1
    <3> QED
      BY <2>3, <2>5, <3>1, CoveredDebit
  <2>7. in \in Row
    <3>1. NoExpiryOffer(held) \in Offered
      BY <1>1, <2>3, TimeIsNat DEF NoExpiryOffer, Offered
    <3> QED
      BY <1>1, <3>1, CreditRowType DEF TransferRow, NoParent, Reasons, Statuses
  <2>8. /\ in.type = "credit" /\ in.reason = "GRANT" /\ in.wallet = v
        /\ in.status = "COMPLETED" /\ in.consumed = {} /\ in.available = held
    BY DEF TransferRow, NoExpiryOffer, CreditRow, ComputeCreditsAvailable
  <2>9. rows' = kept \o <<o, in>>
    BY <2>1, ConsumeIsConsumeIn
  <2> HIDE DEF o, in, out
  <2>10. /\ IsFiniteSet(in.consumed)
         /\ \A u : Gives(in, u) = (IF u = v THEN held ELSE 0) /\ Misses(in, u) = 0
    BY <2>8, CreditCounts, FS_EmptySet
  <2>11. /\ kept \in Seq(Row) /\ \A d \in 1 .. Len(kept) : IsFiniteSet(kept[d].consumed)
         /\ \A u : /\ Spendable(kept, u) = Spendable(rows, u) - (IF u = w THEN held ELSE 0)
                   /\ Short(kept, u) = Short(rows, u)
    BY <1>1, <2>4, CountsConsume
  <2> HIDE DEF kept
  <2> DEFINE s == kept \o <<o>>
  <2>12. /\ s \in Seq(Row) /\ \A d \in 1 .. Len(s) : IsFiniteSet(s[d].consumed)
         /\ \A u : /\ Spendable(s, u) = Spendable(kept, u) + Gives(o, u)
                   /\ Short(s, u) = Short(kept, u) + Misses(o, u)
    BY <2>6, <2>11, CountsAppend
  <2>13. kept \o <<o, in>> = s \o <<in>>
    BY <2>6, <2>7, <2>11, TwoRows
  <2> HIDE DEF s
  <2>14. \A u : /\ Spendable(s \o <<in>>, u) = Spendable(s, u) + Gives(in, u)
                /\ Short(s \o <<in>>, u) = Short(s, u) + Misses(in, u)
    BY <2>7, <2>10, <2>12, CountsAppend
  <2>15. ASSUME NEW u
         PROVE  /\ Spendable(rows', u) = (Spendable(rows, u) - (IF u = w THEN held ELSE 0))
                                         + (IF u = v THEN held ELSE 0)
                /\ Short(rows', u) = Short(rows, u)
    <3>1. /\ Spendable(rows', u) = (Spendable(kept, u) + 0) + (IF u = v THEN held ELSE 0)
          /\ Short(rows', u) = (Short(kept, u) + 0) + 0
      BY <2>6, <2>9, <2>10, <2>12, <2>13, <2>14
    <3> QED
      BY <1>1, <2>3, <2>11, <3>1
  <2>16. /\ creditBalance'[w] = 0 /\ creditBalance'[v] = held
         /\ \A u \in Wallets \ {w, v} : creditBalance'[u] = creditBalance[u]
    BY <2>2, <2>3 DEF BooksInv, TypeOK
  <2>17. AccountStep(w)
    <3>1. TakenAway(w, held, held)
      <4>1. creditBalance'[w] = creditBalance[w] - held
        BY <1>1, <2>16 DEF held
      <4>2. Spendable(rows', w) = Spendable(rows, w) - held
        BY <1>1, <2>3, <2>15
      <4>3. Short(rows', w) = Short(rows, w) + (held - held)
        BY <1>1, <2>3, <2>15
      <4> QED
        BY <2>3, <4>1, <4>2, <4>3 DEF TakenAway
    <3> QED
      BY <2>3, <3>1 DEF AccountStep
  <2>18. AccountStep(v)
    <3>1. Usable(creditBalance[v], held) = held
      BY <2>3 DEF Usable
    <3>2. GrantedTo(v, held)
      <4>1. creditBalance'[v] = creditBalance[v] + held
        BY <2>3, <2>16
      <4>2. Spendable(rows', v) = Spendable(rows, v) + held
        BY <1>1, <2>3, <2>15
      <4> QED
        BY <2>15, <3>1, <4>1, <4>2 DEF GrantedTo
    <3> QED
      BY <2>3, <3>2 DEF AccountStep
  <2>19. ASSUME NEW u \in Wallets \ {w, v} PROVE AccountStep(u)
    <3>1. Spendable(rows', u) = Spendable(rows, u) /\ Short(rows', u) = Short(rows, u)
      BY <1>1, <2>15
    <3> QED
      BY <2>16, <3>1, Untouched
  <2> QED
    BY <2>17, <2>18, <2>19
<1>3. CASE ~ held > 0
  <2>1. UNCHANGED <<rows, creditBalance>>
    BY <1>3 DEF ConvertToPostpaid
  <2> QED
    BY <2>1, Untouched
<1> QED
  BY <1>2, <1>3

LEMMA ExpireCreditsSteps ==
    ASSUME BooksInv, NEW i \in DOMAIN rows, NEW applied \in 0 .. rows[i].available,
           ExpireCredits(i, applied)
    PROVE  \A u \in Wallets : AccountStep(u)
<1> DEFINE w == rows[i].wallet
           all == rows[i].available
           rest == all - applied
           b == creditBalance[w]
           left == b - applied
           Take(n) == [j \in {i} |-> n]
           spent == DebitRow(w, "SPEND", applied, Take(applied), b)
           expired == DebitRow(w, "EXPIRED", rest, Take(rest), left)
           debits == IF applied = 0 THEN <<expired>>
                     ELSE IF applied = all THEN <<spent>> ELSE <<spent, expired>>
           whole == Take(all)
           kept == ConsumeIn(rows, whole)
<1>1. /\ rows \in Seq(Row) /\ now \in Time /\ i \in 1 .. Len(rows) /\ rows[i] \in Row
      /\ \A d \in 1 .. Len(rows) : IsFiniteSet(rows[d].consumed)
      /\ \A u : Spendable(rows, u) \in Nat /\ Short(rows, u) \in Int
  BY CountsType, LenProperties DEF BooksInv, TypeOK, Booked, ConsumesSettled
<1>2. /\ w \in Wallets /\ all \in Nat /\ applied \in Nat /\ rest \in Nat
      /\ applied + rest = all
  BY <1>1, RowFields
<1>3. b \in Int /\ left \in Int /\ left = b - applied
  BY <1>2 DEF BooksInv, TypeOK
<1>4. rows[i].type = "credit" /\ rows[i].status = "COMPLETED"
  BY DEF ExpireCredits, DueForExpiry
<1>5. rows' = kept \o debits /\ creditBalance' = [creditBalance EXCEPT ![w] = LastAfter(w, debits)]
  BY ConsumeIsConsumeIn DEF ExpireCredits, Post
<1>6. ValidTake(rows, w, whole) /\ SumOver(whole, DOMAIN whole) = all
  <2>1. ASSUME NEW n \in Nat, n <= all
        PROVE  ValidTake(rows, w, Take(n)) /\ SumOver(Take(n), DOMAIN Take(n)) = n
    BY <1>1, <1>4, <2>1, TakeOfOne
  <2>2. all <= all
    BY <1>2
  <2> HIDE DEF Take, w, all
  <2> QED
    BY <1>2, <2>1, <2>2
<1>7. /\ kept \in Seq(Row) /\ \A d \in 1 .. Len(kept) : IsFiniteSet(kept[d].consumed)
      /\ \A u : /\ Spendable(kept, u) = Spendable(rows, u) - (IF u = w THEN all ELSE 0)
                /\ Short(kept, u) = Short(rows, u)
  <2> HIDE DEF whole, w, all
  <2>1. /\ kept \in Seq(Row) /\ \A d \in 1 .. Len(kept) : IsFiniteSet(kept[d].consumed)
        /\ \A u : /\ Spendable(kept, u) = Spendable(rows, u)
                          - (IF u = w THEN SumOver(whole, DOMAIN whole) ELSE 0)
                  /\ Short(kept, u) = Short(rows, u)
    <3>1. ValidTake(rows, w, whole)
      BY <1>6
    <3>2. rows \in Seq(Row) /\ \A d \in 1 .. Len(rows) : IsFiniteSet(rows[d].consumed)
      BY <1>1
    <3>3. ASSUME NEW u
          PROVE  /\ kept \in Seq(Row) /\ \A d \in 1 .. Len(kept) : IsFiniteSet(kept[d].consumed)
                 /\ Spendable(kept, u) = Spendable(rows, u)
                          - (IF u = w THEN SumOver(whole, DOMAIN whole) ELSE 0)
                 /\ Short(kept, u) = Short(rows, u)
      BY <3>1, <3>2, CountsConsume
    <3> QED
      BY <3>3
  <2> QED
    BY <1>6, <2>1
<1>8. ASSUME NEW n \in Nat PROVE IsTake(Take(n)) /\ IsFiniteSet(DOMAIN Take(n))
  <2>1. IsTake(Take(n)) /\ DOMAIN Take(n) = {i}
    BY <1>1 DEF IsTake
  <2> QED
    BY <2>1, FS_Singleton
<1>9. /\ spent \in Row /\ IsFiniteSet(spent.consumed) /\ spent.after = b - applied
      /\ \A u : Gives(spent, u) = 0 /\ Misses(spent, u) = 0
  <2>1. "SPEND" \in Reasons \ {"MANUAL"}
    BY DEF Reasons
  <2> HIDE DEF Take, w, b, all
  <2> QED
    BY <1>1, <1>2, <1>3, <1>8, <2>1, CoveredDebit
<1>10. /\ expired \in Row /\ IsFiniteSet(expired.consumed)
       /\ expired.after = left - rest
       /\ \A u : Gives(expired, u) = 0 /\ Misses(expired, u) = 0
  <2>1. "EXPIRED" \in Reasons \ {"MANUAL"}
    BY DEF Reasons
  <2> DEFINE take == Take(rest)
  <2>2. IsTake(take) /\ IsFiniteSet(DOMAIN take)
    BY <1>2, <1>8
  <2>3. now \in Time /\ w \in Wallets /\ rest \in Nat /\ left \in Int
    BY <1>1, <1>2, <1>3
  <2> HIDE DEF take, w, left, rest
  <2>4. LET row == DebitRow(w, "EXPIRED", rest, take, left)
        IN  /\ row \in Row /\ IsFiniteSet(row.consumed) /\ row.after = left - rest
            /\ \A u : Gives(row, u) = 0 /\ Misses(row, u) = 0
    BY <2>1, <2>2, <2>3, CoveredDebit
  <2> QED
    BY <2>4 DEF take
<1> HIDE DEF Take, w, b, all, rest, left, spent, expired, whole, kept
<1>11. /\ LastAfter(w, debits) = b - all
       /\ \A u : /\ Spendable(kept \o debits, u) = Spendable(kept, u)
                 /\ Short(kept \o debits, u) = Short(kept, u)
  <2>1. ASSUME NEW row \in {spent, expired}
        PROVE  /\ LastAfter(w, <<row>>) = row.after
               /\ \A u : /\ Spendable(kept \o <<row>>, u) = Spendable(kept, u) + 0
                         /\ Short(kept \o <<row>>, u) = Short(kept, u) + 0
    <3>1. /\ row \in Row /\ IsFiniteSet(row.consumed)
          /\ \A u : Gives(row, u) = 0 /\ Misses(row, u) = 0
      BY <1>9, <1>10
    <3>2. \A u : /\ Spendable(kept \o <<row>>, u) = Spendable(kept, u) + Gives(row, u)
                 /\ Short(kept \o <<row>>, u) = Short(kept, u) + Misses(row, u)
      BY <1>7, <3>1, CountsAppend
    <3>3. LastAfter(w, <<row>>) = row.after
      BY DEF LastAfter
    <3> QED
      BY <3>1, <3>2, <3>3
  <2>2. \A u : Spendable(kept, u) \in Nat /\ Short(kept, u) \in Int
    BY <1>7, CountsType
  <2>3. CASE applied = 0
    <3>1. debits = <<expired>> /\ expired.after = b - all
      BY <1>2, <1>3, <1>10, <2>3
    <3> HIDE DEF debits
    <3> QED
      BY <2>1, <2>2, <3>1
  <2>4. CASE applied = all /\ applied # 0
    <3>1. debits = <<spent>> /\ spent.after = b - all
      BY <1>9, <2>4
    <3> HIDE DEF debits
    <3> QED
      BY <2>1, <2>2, <3>1
  <2>5. CASE applied # all /\ applied # 0
    <3> DEFINE s == kept \o <<spent>>
    <3>1. /\ s \in Seq(Row) /\ \A d \in 1 .. Len(s) : IsFiniteSet(s[d].consumed)
      BY <1>7, <1>9, CountsAppend
    <3>2. \A u : Spendable(s, u) = Spendable(kept, u) + 0 /\ Short(s, u) = Short(kept, u) + 0
      BY <2>1
    <3>3. kept \o <<spent, expired>> = s \o <<expired>>
      BY <1>7, <1>9, <1>10, TwoRows
    <3> HIDE DEF s
    <3>4. \A u : /\ Spendable(s \o <<expired>>, u) = Spendable(s, u) + Gives(expired, u)
                 /\ Short(s \o <<expired>>, u) = Short(s, u) + Misses(expired, u)
      BY <1>10, <3>1, CountsAppend
    <3>5. LastAfter(w, <<spent, expired>>) = b - all
      <4>1. LastAfter(w, <<spent, expired>>) = expired.after
        BY DEF LastAfter
      <4> QED
        BY <1>2, <1>3, <1>10, <4>1
    <3>6. debits = <<spent, expired>>
      BY <2>5
    <3> HIDE DEF debits
    <3>7. ASSUME NEW u
          PROVE  /\ Spendable(kept \o debits, u) = (Spendable(kept, u) + 0) + 0
                 /\ Short(kept \o debits, u) = (Short(kept, u) + 0) + 0
      BY <1>10, <3>2, <3>3, <3>4, <3>6
    <3> QED
      BY <2>2, <3>5, <3>6, <3>7
  <2> QED
    BY <2>3, <2>4, <2>5
<1> HIDE DEF debits
<1>12. creditBalance'[w] = creditBalance[w] - all
       /\ \A u \in Wallets \ {w} : creditBalance'[u] = creditBalance[u]
  BY <1>2, <1>5, <1>11, OtherAccounts DEF b
<1>13. ASSUME NEW u \in Wallets
       PROVE  /\ Spendable(rows', u) = Spendable(rows, u) - (IF u = w THEN all ELSE 0)
              /\ Short(rows', u) = Short(rows, u) + (IF u = w THEN all - all ELSE 0)
  BY <1>1, <1>2, <1>5, <1>7, <1>11
<1> QED
  BY <1>2, <1>12, <1>13, TakeSteps

----------------------------------------------------------------------------
(* What rows and wallets look like, besides.  A purchase and a bonus are    *)
(* credits, a bonus is the row after its purchase, so that a purchase has   *)
(* one at most; and only wallets that were opened have rows and a balance.  *)

Shape(row, k) ==
    /\ row.reason \in {"PURCHASE", "BONUS"} => row.type = "credit"
    /\ row.parent # NoParent => k = row.parent + 1

SameShape(r, q) ==
    r.wallet = q.wallet /\ r.type = q.type /\ r.reason = q.reason /\ r.parent = q.parent

Shaped(s) == \A k \in 1 .. Len(s) : Shape(s[k], k)

ShapeInv ==
    /\ Shaped(rows)
    /\ \A k \in 1 .. Len(rows) : walletStatus[rows[k].wallet] # "none"
    /\ Unopened

(* The rows s became t, the new ones belonging to wallets of W.             *)
RowsGrow(t, s, W) ==
    /\ Len(s) <= Len(t)
    /\ \A k \in 1 .. Len(s) : SameShape(t[k], s[k])
    /\ \A k \in 1 .. Len(t) : k \notin 1 .. Len(s) => Shape(t[k], k) /\ t[k].wallet \in W

(* A step that works on opened wallets W.                                   *)
WorksOn(W) ==
    /\ RowsGrow(rows', rows, W)
    /\ \A u \in Wallets \ W : creditBalance'[u] = creditBalance[u]
    /\ \A u \in Wallets : walletStatus[u] # "none" \/ u \in W => walletStatus'[u] # "none"

LEMMA WorkKeepsShape ==
    ASSUME BooksInv, BooksInv', ShapeInv, NEW W, WorksOn(W)
    PROVE  ShapeInv'
<1>1. /\ Len(rows) \in Nat /\ Len(rows') \in Nat /\ Len(rows) <= Len(rows')
      /\ \A k \in 1 .. Len(rows') : rows'[k].wallet \in Wallets
  <2> DEFINE t == rows'
  <2>1. rows \in Seq(Row) /\ t \in Seq(Row)
    BY DEF BooksInv, TypeOK
  <2> HIDE DEF t
  <2>2. /\ Len(rows) \in Nat /\ Len(t) \in Nat /\ \A k \in 1 .. Len(t) : t[k] \in Row
    BY <2>1, LenProperties
  <2>3. \A k \in 1 .. Len(t) : t[k].wallet \in Wallets
    BY <2>2, RowFields
  <2> QED
    BY <2>2, <2>3 DEF t, WorksOn, RowsGrow
<1>2. ASSUME NEW k \in 1 .. Len(rows')
      PROVE  Shape(rows'[k], k) /\ walletStatus'[rows'[k].wallet] # "none"
  <2>1. CASE k \in 1 .. Len(rows)
    <3>1. SameShape(rows'[k], rows[k]) /\ Shape(rows[k], k)
      BY <2>1 DEF WorksOn, RowsGrow, ShapeInv, Shaped
    <3>2. walletStatus[rows[k].wallet] # "none" /\ rows'[k].wallet \in Wallets
      BY <1>1, <2>1 DEF ShapeInv
    <3> QED
      BY <3>1, <3>2 DEF SameShape, Shape, WorksOn
  <2>2. CASE k \notin 1 .. Len(rows)
    <3>1. Shape(rows'[k], k) /\ rows'[k].wallet \in W /\ rows'[k].wallet \in Wallets
      BY <1>1, <2>2 DEF WorksOn, RowsGrow
    <3> QED
      BY <3>1 DEF WorksOn
  <2> QED
    BY <2>1, <2>2
<1>3. ASSUME NEW u \in Wallets, walletStatus'[u] = "none"
      PROVE  creditBalance'[u] = 0
  BY <1>3 DEF WorksOn, ShapeInv, Unopened
<1> QED
  BY <1>2, <1>3 DEF ShapeInv, Shaped, Unopened

LEMMA GrowBy ==
    ASSUME NEW s, IsSequence(s), NEW kept, IsSequence(kept), Len(kept) = Len(s),
           \A k \in 1 .. Len(s) : SameShape(kept[k], s[k]),
           NEW added, IsSequence(added), NEW W,
           \A k \in 1 .. Len(added) : Shape(added[k], Len(s) + k) /\ added[k].wallet \in W
    PROVE  RowsGrow(kept \o added, s, W)
<1> DEFINE t == kept \o added
<1>1. Len(s) \in Nat /\ Len(added) \in Nat
  BY SequenceDomain
<1>0. /\ Len(t) = Len(kept) + Len(added)
      /\ \A k \in 1 .. Len(kept) : t[k] = kept[k]
      /\ \A k \in 1 .. Len(t) : k \notin 1 .. Len(kept) =>
            k - Len(kept) \in 1 .. Len(added) /\ t[k] = added[k - Len(kept)]
  BY Concatenation, Zenon
<1> HIDE DEF t
<1>2. /\ Len(t) = Len(s) + Len(added)
      /\ \A k \in 1 .. Len(s) : t[k] = kept[k]
      /\ \A k \in 1 .. Len(t) : k \notin 1 .. Len(s) =>
            k - Len(s) \in 1 .. Len(added) /\ t[k] = added[k - Len(s)]
  BY <1>0
<1>3. \A k \in 1 .. Len(t) : k \notin 1 .. Len(s) => Shape(t[k], k) /\ t[k].wallet \in W
  <2> SUFFICES ASSUME NEW k \in 1 .. Len(t), k \notin 1 .. Len(s)
               PROVE  Shape(t[k], k) /\ t[k].wallet \in W
    OBVIOUS
  <2> DEFINE j == k - Len(s)
  <2>1. j \in 1 .. Len(added) /\ t[k] = added[j] /\ Len(s) + j = k
    BY <1>1, <1>2
  <2> HIDE DEF j
  <2> QED
    BY <2>1
<1>4. Len(s) <= Len(t)
  BY <1>1, <1>2
<1>5. \A k \in 1 .. Len(s) : SameShape(t[k], s[k])
  BY <1>2
<1> QED
  BY <1>3, <1>4, <1>5 DEF RowsGrow, t

(* Rows with no parent, after rows that lost some of what they had.         *)
IsPlain(row) ==
    row.parent = NoParent /\ (row.reason \in {"PURCHASE", "BONUS"} => row.type = "credit")

LEMMA GrowByPlain ==
    ASSUME BooksInv, NEW take, NEW added, IsSequence(added), NEW W,
           \A k \in 1 .. Len(added) : IsPlain(added[k]) /\ added[k].wallet \in W
    PROVE  RowsGrow(Consume(take) \o added, rows, W) /\ RowsGrow(rows \o added, rows, W)
<1>1. /\ rows \in Seq(Row) /\ Len(rows) \in Nat /\ DOMAIN rows = 1 .. Len(rows)
      /\ \A k \in 1 .. Len(rows) : rows[k] \in Row
  BY LenProperties DEF BooksInv, TypeOK
<1>2. IsSequence(rows)
  BY <1>1 DEF IsSequence
<1> DEFINE kept == Consume(take)
<1>3. kept = [k \in 1 .. Len(rows) |-> kept[k]]
  BY <1>1 DEF Consume
<1>4. \A k \in 1 .. Len(rows) : SameShape(kept[k], rows[k])
  <2> SUFFICES ASSUME NEW k \in 1 .. Len(rows) PROVE SameShape(kept[k], rows[k])
    OBVIOUS
  <2> DEFINE r == rows[k]
             left == r.available - take[k]
  <2>1. r \in Row /\ kept[k] = IF k \in DOMAIN take THEN [r EXCEPT !.available = left] ELSE r
    BY <1>1 DEF Consume
  <2> HIDE DEF r, left, kept
  <2> QED
    BY <2>1 DEF SameShape, Row, r
<1> HIDE DEF kept
<1>5. IsSequence(kept) /\ Len(kept) = Len(rows)
  BY <1>1, <1>3, FunctionIsSequence
<1>6. \A k \in 1 .. Len(added) : Shape(added[k], Len(rows) + k) /\ added[k].wallet \in W
  BY DEF IsPlain, Shape
<1>7. \A k \in 1 .. Len(rows) : SameShape(rows[k], rows[k])
  BY DEF SameShape
<1>8. RowsGrow(kept \o added, rows, W)
  BY <1>2, <1>4, <1>5, <1>6, GrowBy
<1>9. RowsGrow(rows \o added, rows, W)
  BY <1>2, <1>6, <1>7, GrowBy
<1> QED
  BY <1>8, <1>9 DEF kept

LEMMA GrowByPurchase ==
    ASSUME BooksInv, NEW w, NEW reason, NEW status, NEW offer, NEW bonus, NEW before
    PROVE  RowsGrow(rows \o PurchaseRows(w, reason, status, offer, bonus, before), rows, {w})
<1> DEFINE purchase == CreditRow(w, reason, status, offer, NoParent, before)
           grant == CreditRow(w, "BONUS", status, bonus[1], Len(rows) + 1, purchase.after)
           added == PurchaseRows(w, reason, status, offer, bonus, before)
<1>1. purchase.wallet = w /\ purchase.type = "credit" /\ purchase.parent = NoParent
  BY DEF CreditRow
<1>2. grant.wallet = w /\ grant.type = "credit" /\ grant.parent = Len(rows) + 1
  BY DEF CreditRow
<1>3. added = IF bonus = <<>> THEN <<purchase>> ELSE <<purchase, grant>>
  BY DEF PurchaseRows
<1> HIDE DEF purchase, grant, added
<1>4. IsSequence(rows) /\ Len(rows) \in Nat
  BY LenProperties DEF IsSequence, BooksInv, TypeOK
<1>5. Shape(purchase, Len(rows) + 1) /\ Shape(grant, Len(rows) + 2)
  BY <1>1, <1>2, <1>4 DEF Shape
<1>6. /\ IsSequence(added)
      /\ \A k \in 1 .. Len(added) : Shape(added[k], Len(rows) + k) /\ added[k].wallet \in {w}
  <2>1. CASE bonus = <<>>
    <3>1. added = <<purchase>>
      BY <1>3, <2>1
    <3>2. 1 .. Len(added) = {1} /\ added[1] = purchase
      BY <3>1
    <3>3. IsSequence(added)
      BY <3>1, OneRow
    <3> QED
      BY <1>1, <1>5, <3>2, <3>3
  <2>2. CASE bonus # <<>>
    <3>1. added = <<purchase, grant>>
      BY <1>3, <2>2
    <3>2. 1 .. Len(added) = {1, 2} /\ added[1] = purchase /\ added[2] = grant
      BY <3>1
    <3>3. IsSequence(added)
      <4>1. <<purchase, grant>> \in Seq({purchase, grant})
        OBVIOUS
      <4> QED
        BY <3>1, <4>1 DEF IsSequence
    <3> QED
      BY <1>1, <1>2, <1>5, <3>2, <3>3
  <2> QED
    BY <2>1, <2>2
<1>7. \A k \in 1 .. Len(rows) : SameShape(rows[k], rows[k])
  BY DEF SameShape
<1>8. RowsGrow(rows \o added, rows, {w})
  BY <1>4, <1>6, <1>7, GrowBy
<1> QED
  BY <1>8 DEF added

(* What is posted to an opened wallet.                                      *)
LEMMA PostWorks ==
    ASSUME BooksInv, NEW w \in Wallets, NEW take, NEW added,
           Post(w, Consume(take), added) \/ Post(w, rows, added), IsSequence(added),
           \A k \in 1 .. Len(added) : IsPlain(added[k]) /\ added[k].wallet = w,
           walletStatus'[w] # "none",
           \A u \in Wallets \ {w} : walletStatus'[u] = walletStatus[u]
    PROVE  WorksOn({w})
<1>1. RowsGrow(Consume(take) \o added, rows, {w}) /\ RowsGrow(rows \o added, rows, {w})
  BY GrowByPlain
<1>2. rows' = Consume(take) \o added \/ rows' = rows \o added
  BY DEF Post
<1>3. creditBalance' = [creditBalance EXCEPT ![w] = LastAfter(w, added)]
  BY DEF Post
<1>4. \A u \in Wallets \ {w} : creditBalance'[u] = creditBalance[u]
  BY <1>3, OtherAccounts
<1> QED
  BY <1>1, <1>2, <1>4 DEF WorksOn

LEMMA PlainDebit ==
    ASSUME NEW w, NEW reason, reason \notin {"PURCHASE", "BONUS"}, NEW amount, NEW take, NEW before
    PROVE  LET row == DebitRow(w, reason, amount, take, before)
           IN  IsPlain(row) /\ row.wallet = w
BY DEF DebitRow, IsPlain

LEMMA PlainCredit ==
    ASSUME NEW w, NEW reason, NEW status, NEW offer, NEW before
    PROVE  LET row == CreditRow(w, reason, status, offer, NoParent, before)
           IN  IsPlain(row) /\ row.wallet = w
BY DEF CreditRow, IsPlain

LEMMA PostDebitWorks ==
    ASSUME BooksInv, NEW w \in Wallets, NEW reason, reason \notin {"PURCHASE", "BONUS"},
           NEW amount, NEW take, PostDebit(w, reason, amount, take),
           walletStatus'[w] # "none",
           \A u \in Wallets \ {w} : walletStatus'[u] = walletStatus[u]
    PROVE  WorksOn({w})
<1> DEFINE row == DebitRow(w, reason, amount, take, creditBalance[w])
           added == <<row>>
<1>1. IsPlain(row) /\ row.wallet = w
  BY PlainDebit
<1>2. Post(w, Consume(take), added)
  BY DEF PostDebit
<1> HIDE DEF row
<1>3. IsSequence(added) /\ Len(added) = 1 /\ added[1] = row
  BY OneRow
<1> HIDE DEF added
<1>4. \A k \in 1 .. Len(added) : IsPlain(added[k]) /\ added[k].wallet = w
  BY <1>1, <1>3
<1> QED
  BY <1>2, <1>3, <1>4, PostWorks

LEMMA CreateWalletWorks ==
    ASSUME BooksInv, NEW w \in Wallets, NEW load \in Maybe(Offers), CreateWallet(w, load)
    PROVE  WorksOn({w})
<1> DEFINE Granted(k) == CreditRow(w, "GRANT", "COMPLETED", load[k], NoParent, 0)
           added == [k \in DOMAIN load |-> Granted(k)]
<1>1. Post(w, rows, added)
  BY DEF CreateWallet
<1>2. \A k \in DOMAIN load : IsPlain(Granted(k)) /\ Granted(k).wallet = w
  BY PlainCredit
<1> HIDE DEF Granted
<1>3. PICK n \in Nat : DOMAIN load = 1 .. n
  <2>1. CASE load = <<>>
    BY <2>1
  <2>2. CASE \E e \in Offers : load = <<e>>
    BY <2>2
  <2> QED
    BY <2>1, <2>2 DEF Maybe
<1>4. IsSequence(added) /\ Len(added) = n
  BY <1>3, FunctionIsSequence
<1>5. \A k \in 1 .. Len(added) : IsPlain(added[k]) /\ added[k].wallet = w
  BY <1>2, <1>3, <1>4
<1>6. walletStatus'[w] # "none" /\ \A u \in Wallets \ {w} : walletStatus'[u] = walletStatus[u]
  BY DEF CreateWallet, BooksInv, TypeOK
<1> HIDE DEF added
<1> QED
  BY <1>1, <1>4, <1>5, <1>6, PostWorks

LEMMA PurchasesWork ==
    ASSUME BooksInv, NEW w \in Wallets, NEW offer, NEW bonus,
           \/ CreditWallet(w, offer, bonus)
           \/ RequestPurchase(w, offer, bonus)
           \/ RequestCompletedPurchase(w, offer, bonus)
    PROVE  WorksOn({w})
<1>1. \A u \in Wallets : walletStatus[u] # "none" \/ u \in {w} => walletStatus'[u] # "none"
  BY DEF CreditWallet, RequestPurchase, RequestCompletedPurchase, Exists
<1>2. \E c : creditBalance' = [creditBalance EXCEPT ![w] = c]
  <2>1. creditBalance' = creditBalance => creditBalance' = [creditBalance EXCEPT ![w] = creditBalance[w]]
    BY DEF BooksInv, TypeOK
  <2> QED
    BY <2>1 DEF CreditWallet, RequestPurchase, RequestCompletedPurchase, Post
<1>3. \A u \in Wallets \ {w} : creditBalance'[u] = creditBalance[u]
  BY <1>2, OtherAccounts
<1>4. \E reason, status :
         rows' = rows \o PurchaseRows(w, reason, status, offer, bonus, creditBalance[w])
  BY DEF CreditWallet, RequestPurchase, RequestCompletedPurchase, Post
<1>5. RowsGrow(rows', rows, {w})
  BY <1>4, GrowByPurchase
<1> QED
  BY <1>1, <1>3, <1>5 DEF WorksOn

LEMMA NothingWorks ==
    ASSUME BooksInv, rows' = rows, creditBalance' = creditBalance, NEW W,
           \A u \in Wallets : walletStatus[u] # "none" \/ u \in W => walletStatus'[u] # "none"
    PROVE  WorksOn(W)
<1>1. Len(rows) \in Nat
  BY LenProperties DEF BooksInv, TypeOK
<1> QED
  BY <1>1 DEF WorksOn, RowsGrow, SameShape

LEMMA TerminateWorks ==
    ASSUME BooksInv, NEW w \in Wallets, TerminateWallet(w)
    PROVE  WorksOn({w})
<1>1. walletStatus'[w] # "none" /\ \A u \in Wallets \ {w} : walletStatus'[u] = walletStatus[u]
  BY DEF TerminateWallet, BooksInv, TypeOK
<1>2. CASE UNCHANGED <<rows, creditBalance>>
  BY <1>1, <1>2, NothingWorks
<1>3. ASSUME NEW take, PostDebit(w, "TERMINATION", creditBalance[w], take)
      PROVE  WorksOn({w})
  BY <1>1, <1>3, PostDebitWorks
<1> QED
  BY <1>2, <1>3 DEF TerminateWallet

LEMMA ConvertWorks ==
    ASSUME BooksInv, NEW w \in Wallets, NEW v \in Wallets, ConvertToPostpaid(w, v)
    PROVE  WorksOn({w, v})
<1> DEFINE held == creditBalance[w]
           out(take) == DebitRow(w, "TERMINATION", held, take, held)
           in == TransferRow(v, held)
<1>1. \A u \in Wallets : walletStatus[u] # "none" \/ u \in {w, v} => walletStatus'[u] # "none"
  BY DEF ConvertToPostpaid, BooksInv, TypeOK
<1>2. CASE UNCHANGED <<rows, creditBalance>>
  BY <1>1, <1>2, NothingWorks
<1>3. ASSUME NEW take, rows' = Consume(take) \o <<out(take), in>>,
             creditBalance' = [creditBalance EXCEPT ![w] = 0, ![v] = held]
      PROVE  WorksOn({w, v})
  <2> DEFINE o == out(take)
             added == <<o, in>>
  <2>1. IsPlain(o) /\ o.wallet = w
    BY PlainDebit
  <2>2. IsPlain(in) /\ in.wallet = v
    BY PlainCredit DEF TransferRow
  <2> HIDE DEF out, in, o
  <2>3. IsSequence(added) /\ \A k \in 1 .. Len(added) : added[k] \in {o, in}
    <3>1. added \in Seq({o, in})
      OBVIOUS
    <3> HIDE DEF added
    <3> QED
      BY <3>1, ElementOfSeq DEF IsSequence
  <2>4. \A k \in 1 .. Len(added) : IsPlain(added[k]) /\ added[k].wallet \in {w, v}
    BY <2>1, <2>2, <2>3
  <2>5. rows' = Consume(take) \o added
    BY <1>3 DEF o
  <2> HIDE DEF added
  <2>6. RowsGrow(rows', rows, {w, v})
    BY <2>3, <2>4, <2>5, GrowByPlain
  <2>7. \A u \in Wallets \ {w, v} : creditBalance'[u] = creditBalance[u]
    BY <1>3 DEF BooksInv, TypeOK
  <2> QED
    BY <1>1, <2>6, <2>7 DEF WorksOn
<1> QED
  BY <1>2, <1>3 DEF ConvertToPostpaid

LEMMA ExpireWorks ==
    ASSUME BooksInv, ShapeInv, NEW i \in DOMAIN rows, NEW applied, ExpireCredits(i, applied)
    PROVE  WorksOn({rows[i].wallet})
<1> DEFINE w == rows[i].wallet
           all == rows[i].available
           Take(n) == [j \in {i} |-> n]
           spent == DebitRow(w, "SPEND", applied, Take(applied), creditBalance[w])
           expired == DebitRow(w, "EXPIRED", all - applied, Take(all - applied),
                               creditBalance[w] - applied)
           debits == IF applied = 0 THEN <<expired>>
                     ELSE IF applied = all THEN <<spent>> ELSE <<spent, expired>>
<1>1. Post(w, Consume(Take(all)), debits) /\ walletStatus' = walletStatus
  BY DEF ExpireCredits
<1>2. IsPlain(spent) /\ spent.wallet = w /\ IsPlain(expired) /\ expired.wallet = w
  BY PlainDebit
<1>3. w \in Wallets /\ walletStatus[w] # "none"
  <2>1. i \in 1 .. Len(rows) /\ rows[i] \in Row
    BY LenProperties DEF BooksInv, TypeOK
  <2> QED
    BY <2>1, RowFields DEF ShapeInv
<1> HIDE DEF spent, expired, w
<1>4. IsSequence(debits) /\ \A k \in 1 .. Len(debits) : debits[k] \in {spent, expired}
  <2>1. /\ <<spent>> \in Seq({spent, expired}) /\ <<expired>> \in Seq({spent, expired})
        /\ <<spent, expired>> \in Seq({spent, expired})
    OBVIOUS
  <2>2. debits \in Seq({spent, expired})
    BY <2>1, Zenon
  <2> QED
    BY <2>2, ElementOfSeq DEF IsSequence
<1> HIDE DEF debits
<1>5. \A k \in 1 .. Len(debits) : IsPlain(debits[k]) /\ debits[k].wallet = w
  BY <1>2, <1>4
<1>6. WorksOn({w})
  BY <1>1, <1>3, <1>4, <1>5, PostWorks
<1> QED
  BY <1>6 DEF w

(* Rows that are settled in place.                                          *)
LEMMA InPlace ==
    ASSUME NEW n \in Nat, Len(rows) = n,
           NEW t, t = [k \in 1 .. n |-> t[k]],
           \A k \in 1 .. n : SameShape(t[k], rows[k]), NEW W
    PROVE  RowsGrow(t, rows, W)
<1>1. Len(t) = n
  BY FunctionIsSequence
<1> QED
  BY <1>1 DEF RowsGrow

LEMMA CompletedShape ==
    ASSUME NEW r \in Row, NEW before
    PROVE  SameShape(Completed(r, before), r)
<1> DEFINE after == before + r.credits
           available == ComputeCreditsAvailable(before, after, r.credits)
<1>1. Completed(r, before) =
        [r EXCEPT !.status = "COMPLETED", !.before = before, !.after = after,
                  !.available = available]
  BY DEF Completed
<1> HIDE DEF after, available
<1> QED
  BY <1>1 DEF SameShape, Row

LEMMA CompletePurchaseWorks ==
    ASSUME BooksInv, ShapeInv, NEW i \in DOMAIN rows, CompletePurchase(i)
    PROVE  WorksOn({rows[i].wallet})
<1> DEFINE w == rows[i].wallet
           bonus == PendingBonus(i)
           paid == Completed(rows[i], creditBalance[w])
           earned == [j \in bonus |-> Completed(rows[j], paid.after)]
           gained == rows[i].credits + FoldFunction(LAMBDA r, n : r.credits + n, 0, earned)
           c == creditBalance[w] + gained
           m == Len(rows)
<1>1. /\ m \in Nat /\ DOMAIN rows = 1 .. m /\ \A j \in 1 .. m : rows[j] \in Row
  BY LenProperties DEF BooksInv, TypeOK
<1>2. /\ rows' = [j \in 1 .. m |->
                    IF j = i THEN paid ELSE IF j \in bonus THEN earned[j] ELSE rows[j]]
      /\ creditBalance' = [creditBalance EXCEPT ![w] = c]
      /\ walletStatus' = walletStatus
  BY <1>1 DEF CompletePurchase
<1>3. w \in Wallets /\ walletStatus[w] # "none"
  BY <1>1, RowFields DEF ShapeInv
<1> HIDE DEF c, w
<1>4. \A u \in Wallets \ {w} : creditBalance'[u] = creditBalance[u]
  BY <1>2, <1>3, OtherAccounts
<1>5. ASSUME NEW j \in 1 .. m PROVE SameShape(rows'[j], rows[j])
  <2>1. \/ \E before : rows'[j] = Completed(rows[j], before)
        \/ rows'[j] = rows[j]
    BY <1>2
  <2> QED
    BY <1>1, <2>1, CompletedShape DEF SameShape
<1>6. RowsGrow(rows', rows, {w})
  <2> DEFINE t == rows'
  <2>1. t = [j \in 1 .. m |-> t[j]] /\ \A j \in 1 .. m : SameShape(t[j], rows[j])
    BY <1>2, <1>5
  <2> HIDE DEF t
  <2>2. RowsGrow(t, rows, {w})
    BY <1>1, <2>1, InPlace
  <2> QED
    BY <2>2 DEF t
<1>7. WorksOn({w})
  BY <1>2, <1>3, <1>4, <1>6 DEF WorksOn
<1> QED
  BY <1>7 DEF w

LEMMA FailPurchaseWorks ==
    ASSUME BooksInv, NEW i \in DOMAIN rows, FailPurchase(i)
    PROVE  WorksOn({})
<1> DEFINE m == Len(rows)
<1>1. /\ m \in Nat /\ DOMAIN rows = 1 .. m /\ \A j \in 1 .. m : rows[j] \in Row
  BY LenProperties DEF BooksInv, TypeOK
<1>2. /\ rows' = [j \in 1 .. m |-> IF j \in {i} \cup PendingBonus(i)
                                   THEN [rows[j] EXCEPT !.status = "FAILED"] ELSE rows[j]]
      /\ UNCHANGED <<walletStatus, creditBalance>>
  BY <1>1 DEF FailPurchase
<1>3. ASSUME NEW j \in 1 .. m PROVE SameShape(rows'[j], rows[j])
  <2> DEFINE r == rows[j]
  <2>1. r \in Row /\ (rows'[j] = r \/ rows'[j] = [r EXCEPT !.status = "FAILED"])
    BY <1>1, <1>2
  <2> HIDE DEF r
  <2> QED
    BY <2>1 DEF SameShape, Row, r
<1>4. RowsGrow(rows', rows, {})
  <2> DEFINE t == rows'
  <2>1. t = [j \in 1 .. m |-> t[j]] /\ \A j \in 1 .. m : SameShape(t[j], rows[j])
    BY <1>2, <1>3
  <2> HIDE DEF t
  <2>2. RowsGrow(t, rows, {})
    BY <1>1, <2>1, InPlace
  <2> QED
    BY <2>2 DEF t
<1> QED
  BY <1>2, <1>4 DEF WorksOn

LEMMA ShapeInit == Init => ShapeInv
<1> SUFFICES ASSUME Init PROVE ShapeInv
  OBVIOUS
<1>1. Len(rows) = 0 /\ 1 .. 0 = {}
  BY DEF Init
<1> QED
  BY <1>1 DEF Init, ShapeInv, Shaped, Unopened

LEMMA ShapeStep == BooksInv /\ BooksInv' /\ ShapeInv /\ [Next]_vars => ShapeInv'
<1> SUFFICES ASSUME BooksInv, BooksInv', ShapeInv, [Next]_vars PROVE ShapeInv'
  OBVIOUS
<1> SUFFICES \E W : WorksOn(W)
  BY WorkKeepsShape
<1>1. ASSUME NEW w \in Wallets, NEW load \in Maybe(Offers), CreateWallet(w, load)
      PROVE  WorksOn({w})
  BY <1>1, CreateWalletWorks
<1>2. ASSUME NEW w \in Wallets, NEW offer \in Offers, NEW bonus \in Maybe(Bonuses),
             \/ CreditWallet(w, offer, bonus)
             \/ RequestPurchase(w, offer, bonus)
             \/ RequestCompletedPurchase(w, offer, bonus)
      PROVE  WorksOn({w})
  BY <1>2, PurchasesWork
<1>3. ASSUME NEW w \in Wallets, NEW amount \in Debits,
             \/ \E ref \in 1 .. MaxTime + 1 : DebitWallet(w, amount, ref)
             \/ ManualBalanceDebit(w, amount)
      PROVE  WorksOn({w})
  <2>1. /\ walletStatus' = walletStatus /\ walletStatus[w] = "active"
        /\ \E reason \in {"SPEND", "MANUAL"} : \E take : PostDebit(w, reason, amount, take)
    BY <1>3 DEF DebitWallet, ManualBalanceDebit, Active
  <2> QED
    BY <2>1, PostDebitWorks
<1>4. ASSUME NEW w \in Wallets, TerminateWallet(w)
      PROVE  WorksOn({w})
  BY <1>4, TerminateWorks
<1>5. ASSUME NEW w \in Wallets, NEW v \in Wallets, ConvertToPostpaid(w, v)
      PROVE  WorksOn({w, v})
  BY <1>5, ConvertWorks
<1>6. ASSUME NEW i \in DOMAIN rows, CompletePurchase(i)
      PROVE  WorksOn({rows[i].wallet})
  BY <1>6, CompletePurchaseWorks
<1>7. ASSUME NEW i \in DOMAIN rows, FailPurchase(i)
      PROVE  WorksOn({})
  BY <1>7, FailPurchaseWorks
<1>8. ASSUME ExpiryRun PROVE \E W : WorksOn(W)
  BY <1>8, ExpireWorks DEF ExpiryRun
<1>9. ASSUME Tick \/ UNCHANGED vars PROVE WorksOn({})
  BY <1>9, NothingWorks DEF Tick, vars
<1> QED
  BY <1>1, <1>2, <1>3, <1>4, <1>5, <1>6, <1>7, <1>8, <1>9 DEF Next

LEMMA ShapeAlways == Spec => []ShapeInv
BY ShapeInit, ShapeStep, BooksAlways, PTL DEF Spec

----------------------------------------------------------------------------
(* A purchase settles for what it and its bonus, if it has one, grant.      *)

LEMMA CompletedCounts ==
    ASSUME NEW r \in Row, r.type = "credit", r.status = "PENDING", r.reason # "MANUAL",
           NEW before \in Int
    PROVE  LET q == Completed(r, before)
           IN  /\ q \in Row /\ q.after = before + r.credits /\ q.consumed = r.consumed
               /\ r.credits \in Nat
               /\ \A u : /\ Gives(r, u) = 0 /\ Misses(r, u) = 0 /\ Misses(q, u) = 0
                         /\ Gives(q, u) = IF u = r.wallet THEN Usable(before, r.credits) ELSE 0
<1> DEFINE q == Completed(r, before)
           after == before + r.credits
           available == ComputeCreditsAvailable(before, after, r.credits)
<1>1. q \in Row /\ q.after = before + r.credits
  BY CompletedType
<1>2. q = [r EXCEPT !.status = "COMPLETED", !.before = before, !.after = after,
                    !.available = available]
  BY DEF Completed
<1>3. available = Usable(before, r.credits)
  BY DEF ComputeCreditsAvailable, Usable
<1> HIDE DEF available, after, q
<1>4. /\ q.type = "credit" /\ q.reason = r.reason /\ q.wallet = r.wallet
      /\ q.status = "COMPLETED" /\ q.available = available /\ q.consumed = r.consumed
  BY <1>2 DEF Row
<1>5. \A u : Gives(q, u) = (IF u = r.wallet THEN available ELSE 0) /\ Misses(q, u) = 0
  BY <1>4, CreditCounts
<1>6. \A u : Gives(r, u) = 0 /\ Misses(r, u) = 0
  BY CreditCounts
<1>7. r.credits \in Nat
  BY RowFields
<1> QED
  BY <1>1, <1>3, <1>4, <1>5, <1>6, <1>7 DEF q

LEMMA PendingBonusIs ==
    ASSUME BooksInv, ShapeInv, RowsAreLinked, NEW i \in DOMAIN rows, NEW j \in PendingBonus(i)
    PROVE  /\ j \in 1 .. Len(rows) /\ j = i + 1
           /\ rows[j].status = "PENDING" /\ rows[j].reason = "BONUS"
           /\ rows[j].type = "credit" /\ rows[j].wallet = rows[i].wallet
<1>1. Len(rows) \in Nat /\ DOMAIN rows = 1 .. Len(rows)
  BY LenProperties DEF BooksInv, TypeOK
<1>2. /\ j \in 1 .. Len(rows) /\ rows[j].parent = i /\ rows[j].status = "PENDING"
      /\ i # NoParent
  BY <1>1 DEF PendingBonus, NoParent
<1>3. rows[j].reason = "BONUS" /\ rows[j].wallet = rows[i].wallet
  BY <1>2 DEF RowsAreLinked, Linked, LinkedTo
<1>4. j = i + 1 /\ rows[j].type = "credit"
  BY <1>2, <1>3 DEF ShapeInv, Shaped, Shape
<1> QED
  BY <1>2, <1>3, <1>4

LEMMA CompletePurchaseSteps ==
    ASSUME BooksInv, BooksInv', ShapeInv, RowsAreLinked, NEW i \in DOMAIN rows, CompletePurchase(i)
    PROVE  \A u \in Wallets : AccountStep(u)
<1> DEFINE w == rows[i].wallet
           b == creditBalance[w]
           bonus == PendingBonus(i)
           paid == Completed(rows[i], b)
           earned == [j \in bonus |-> Completed(rows[j], paid.after)]
           others == FoldFunction(LAMBDA r, n : r.credits + n, 0, earned)
           n == rows[i].credits
           c == b + (n + others)
           m == Len(rows)
           s == [j \in 1 .. m |-> IF j = i THEN paid ELSE rows[j]]
<1>1. /\ rows \in Seq(Row) /\ m \in Nat /\ DOMAIN rows = 1 .. m /\ i \in 1 .. m
      /\ \A j \in 1 .. m : rows[j] \in Row /\ IsFiniteSet(rows[j].consumed)
      /\ \A u : Spendable(rows, u) \in Nat /\ Short(rows, u) \in Int
  <2>1. rows \in Seq(Row) /\ \A j \in 1 .. m : IsFiniteSet(rows[j].consumed)
    BY DEF BooksInv, Booked, ConsumesSettled
  <2>2. m \in Nat /\ DOMAIN rows = 1 .. m /\ \A j \in 1 .. m : rows[j] \in Row
    BY <2>1, LenProperties
  <2>3. \A u : Spendable(rows, u) \in Nat /\ Short(rows, u) \in Int
    BY <2>1, CountsType
  <2> QED
    BY <2>1, <2>2, <2>3
<1>2. /\ rows[i].status = "PENDING" /\ rows[i].reason = "PURCHASE"
      /\ rows' = [j \in 1 .. m |->
                    IF j = i THEN paid ELSE IF j \in bonus THEN earned[j] ELSE rows[j]]
      /\ creditBalance' = [creditBalance EXCEPT ![w] = c]
  BY <1>1 DEF CompletePurchase, IsPendingPurchase
<1>3. rows[i].type = "credit"
  BY <1>1, <1>2 DEF ShapeInv, Shaped, Shape
<1>4. w \in Wallets /\ b \in Int
  BY <1>1, RowFields DEF BooksInv, TypeOK
<1>5. /\ paid \in Row /\ paid.after = b + n /\ IsFiniteSet(paid.consumed) /\ n \in Nat
      /\ \A u : /\ Gives(rows[i], u) = 0 /\ Misses(rows[i], u) = 0 /\ Misses(paid, u) = 0
                /\ Gives(paid, u) = IF u = w THEN Usable(b, n) ELSE 0
  <2> DEFINE r == rows[i]
  <2>1. r \in Row /\ r.type = "credit" /\ r.status = "PENDING" /\ r.reason # "MANUAL"
        /\ IsFiniteSet(r.consumed)
    BY <1>1, <1>2, <1>3
  <2> HIDE DEF r, b
  <2>2. LET q == Completed(r, b)
        IN  /\ q \in Row /\ q.after = b + r.credits /\ q.consumed = r.consumed
            /\ r.credits \in Nat
            /\ \A u : /\ Gives(r, u) = 0 /\ Misses(r, u) = 0 /\ Misses(q, u) = 0
                      /\ Gives(q, u) = IF u = r.wallet THEN Usable(b, r.credits) ELSE 0
    BY <1>4, <2>1, CompletedCounts
  <2> QED
    BY <2>1, <2>2 DEF r
<1> HIDE DEF paid
<1>6. /\ s \in Seq(Row) /\ Len(s) = m /\ s[i] = paid
      /\ \A j \in (1 .. m) \ {i} : s[j] = rows[j]
      /\ \A d \in 1 .. Len(s) : IsFiniteSet(s[d].consumed)
  <2>1. s = [j \in 1 .. m |-> s[j]] /\ \A j \in 1 .. m : s[j] \in Row
    BY <1>1, <1>5
  <2>2. s[i] = paid /\ \A j \in (1 .. m) \ {i} : s[j] = rows[j]
    BY <1>1
  <2> HIDE DEF s, m
  <2>3. s \in Seq(Row) /\ Len(s) = m
    BY <1>1, <2>1, SequenceOfRows
  <2> QED
    BY <1>1, <1>5, <2>2, <2>3
<1> HIDE DEF s
<1>7. \A u : /\ Spendable(s, u) = Spendable(rows, u) + (IF u = w THEN Usable(b, n) ELSE 0)
             /\ Short(s, u) = Short(rows, u)
  <2>1. \A u : /\ Spendable(s, u) = Spendable(rows, u) + (Gives(s[i], u) - Gives(rows[i], u))
               /\ Short(s, u) = Short(rows, u) + (Misses(s[i], u) - Misses(rows[i], u))
    <3>1. \A d \in 1 .. Len(rows) : IsFiniteSet(rows[d].consumed)
      BY <1>1
    <3> QED
      BY <1>1, <1>6, <3>1, CountsChange
  <2>2. Usable(b, n) \in Nat
    BY <1>4, <1>5, UsableAdds
  <2> QED
    BY <1>1, <1>5, <1>6, <2>1, <2>2
<1>8. rows' \in Seq(Row) /\ Len(rows') = m
      /\ \A d \in 1 .. Len(rows') : IsFiniteSet(rows'[d].consumed)
  <2> DEFINE t == rows'
  <2>1. t = [j \in 1 .. m |-> t[j]]
    BY <1>2
  <2>2. t \in Seq(Row) /\ \A d \in 1 .. Len(t) : IsFiniteSet(t[d].consumed)
    BY DEF BooksInv, TypeOK, Booked, ConsumesSettled
  <2> HIDE DEF t, m
  <2>3. Len(t) = m
    BY <1>1, <2>1, FunctionIsSequence
  <2> QED
    BY <2>2, <2>3 DEF t
<1>9. \E x \in Nat :
         /\ others = x
         /\ \A u : /\ Spendable(rows', u) =
                         Spendable(s, u) + (IF u = w THEN Usable(b + n, x) ELSE 0)
                   /\ Short(rows', u) = Short(s, u)
  <2>1. CASE bonus = {}
    <3>1. others = 0
      <4>1. others = SumOver([x \in {} |-> earned[x].credits], {})
        <5>1. DOMAIN earned = {}
          BY <2>1
        <5> HIDE DEF earned
        <5> QED
          BY <5>1, EarnedIs, FS_EmptySet
      <4> QED
        BY <4>1, SumEmpty
    <3>2. rows' = s
      BY <1>2, <2>1 DEF s
    <3>3. \A u : Spendable(s, u) \in Nat
      BY <1>6, CountsType
    <3>4. Usable(b + n, 0) = 0
      BY <1>4, <1>5 DEF Usable, NonNegative
    <3> HIDE DEF others
    <3> QED
      BY <3>1, <3>2, <3>3, <3>4
  <2>2. CASE bonus # {}
    <3>1. PICK j \in bonus : TRUE
      BY <2>2
    <3>2. /\ j \in 1 .. m /\ j # i /\ rows[j].status = "PENDING" /\ rows[j].reason = "BONUS"
          /\ rows[j].type = "credit" /\ rows[j].wallet = w
      BY <1>1, PendingBonusIs
    <3>3. bonus = {j}
      BY PendingBonusIs
    <3> DEFINE x == rows[j].credits
               q == earned[j]
    <3>4. q = Completed(rows[j], paid.after)
      BY <3>3
    <3>5. others = x
      <4>1. q.credits = x
        BY <1>1, <3>2, <3>4, CompletedIs
      <4>2. DOMAIN earned = {j}
        BY <3>3
      <4>3. x \in Nat
        BY <1>1, <3>2, RowFields
      <4> HIDE DEF earned, x
      <4> DEFINE v == [y \in {j} |-> earned[y].credits]
      <4>4. others = SumOver(v, {j})
        <5>1. IsFiniteSet({j}) /\ \A y \in {j} : earned[y].credits \in Nat
          BY <4>1, <4>3, FS_Singleton
        <5> QED
          BY <4>2, <5>1, EarnedIs
      <4>5. v[j] = x /\ v[j] \in Int
        BY <4>1, <4>3
      <4> HIDE DEF v
      <4> QED
        BY <4>4, <4>5, SumOfOne
    <3>6. /\ x \in Nat
          /\ \A u : /\ Gives(rows[j], u) = 0 /\ Misses(rows[j], u) = 0 /\ Misses(q, u) = 0
                    /\ Gives(q, u) = IF u = w THEN Usable(b + n, x) ELSE 0
      <4> DEFINE r == rows[j]
                 before == paid.after
      <4>1. r \in Row /\ r.type = "credit" /\ r.status = "PENDING" /\ r.reason # "MANUAL"
        BY <1>1, <3>2
      <4>2. before \in Int /\ before = b + n
        BY <1>4, <1>5
      <4> HIDE DEF r, before, q, b, n, w
      <4>3. LET p == Completed(r, before)
            IN  /\ r.credits \in Nat
                /\ \A u : /\ Gives(r, u) = 0 /\ Misses(r, u) = 0 /\ Misses(p, u) = 0
                          /\ Gives(p, u) = IF u = r.wallet THEN Usable(before, r.credits) ELSE 0
        BY <4>1, <4>2, CompletedCounts
      <4>4. q = Completed(r, before) /\ r.wallet = w
        BY <3>2, <3>4 DEF r, before
      <4> QED
        BY <4>2, <4>3, <4>4 DEF r
    <3>7. /\ rows'[j] = q /\ \A k \in (1 .. m) \ {j} : rows'[k] = s[k]
          /\ s[j] = rows[j]
      BY <1>2, <3>2, <3>3 DEF s
    <3> DEFINE t == rows'
    <3>8. \A u : /\ Spendable(t, u) = Spendable(s, u) + (Gives(t[j], u) - Gives(s[j], u))
                 /\ Short(t, u) = Short(s, u) + (Misses(t[j], u) - Misses(s[j], u))
      <4>1. /\ t \in Seq(Row) /\ Len(t) = Len(s) /\ j \in 1 .. Len(s)
            /\ \A d \in 1 .. Len(t) : IsFiniteSet(t[d].consumed)
            /\ \A k \in (1 .. Len(s)) \ {j} : t[k] = s[k]
        BY <1>6, <1>8, <3>2, <3>7
      <4> HIDE DEF t
      <4> QED
        BY <1>6, <4>1, CountsChange
    <3>9. Usable(b + n, x) \in Nat
      <4> DEFINE before == b + n
      <4>1. before \in Int
        BY <1>4, <1>5
      <4> HIDE DEF before, x
      <4>2. Usable(before, x) \in Nat
        BY <3>6, <4>1, UsableAdds
      <4> QED
        BY <4>2 DEF before
    <3>10. \A u : Spendable(s, u) \in Nat /\ Short(s, u) \in Int
      BY <1>6, CountsType
    <3> HIDE DEF q, x, others
    <3>11. \A u : /\ Spendable(rows', u) =
                        Spendable(s, u) + (IF u = w THEN Usable(b + n, x) ELSE 0)
                  /\ Short(rows', u) = Short(s, u)
      BY <3>6, <3>7, <3>8, <3>9, <3>10
    <3> QED
      BY <3>5, <3>6, <3>11
  <2> QED
    BY <2>1, <2>2
<1>10. PICK x \in Nat :
         /\ others = x
         /\ \A u : /\ Spendable(rows', u) =
                         Spendable(s, u) + (IF u = w THEN Usable(b + n, x) ELSE 0)
                   /\ Short(rows', u) = Short(s, u)
  BY <1>9
<1>11. n + x \in Nat /\ c = b + (n + x)
  <2> HIDE DEF b, n, others
  <2> QED
    BY <1>5, <1>10
<1> HIDE DEF c, n, others
<1>12. Usable(b, n) + Usable(b + n, x) = Usable(b, n + x)
       /\ Usable(b, n) \in Nat /\ Usable(b + n, x) \in Nat
  <2>1. b + n \in Int
    BY <1>4, <1>5
  <2> HIDE DEF b
  <2> QED
    BY <1>4, <1>5, <2>1, UsableAdds
<1>13. creditBalance'[w] = creditBalance[w] + (n + x)
       /\ \A u \in Wallets \ {w} : creditBalance'[u] = creditBalance[u]
  BY <1>2, <1>4, <1>11, OtherAccounts
<1>14. ASSUME NEW u \in Wallets
       PROVE  /\ Spendable(rows', u) = Spendable(rows, u) +
                       (IF u = w THEN Usable(creditBalance[w], n + x) ELSE 0)
              /\ Short(rows', u) = Short(rows, u)
  BY <1>1, <1>7, <1>10, <1>12
<1> QED
  BY <1>4, <1>11, <1>13, <1>14, GrantSteps

LEMMA FailPurchaseSteps ==
    ASSUME BooksInv, BooksInv', NEW i \in DOMAIN rows, FailPurchase(i)
    PROVE  \A u \in Wallets : AccountStep(u)
<1> DEFINE m == Len(rows)
<1>1. /\ rows \in Seq(Row) /\ m \in Nat /\ DOMAIN rows = 1 .. m
      /\ \A j \in 1 .. m : rows[j] \in Row /\ IsFiniteSet(rows[j].consumed)
  BY LenProperties DEF BooksInv, TypeOK, Booked, ConsumesSettled
<1>2. /\ \A j \in {i} \cup PendingBonus(i) : rows[j].status = "PENDING"
      /\ rows' = [j \in 1 .. m |-> IF j \in {i} \cup PendingBonus(i)
                                   THEN [rows[j] EXCEPT !.status = "FAILED"] ELSE rows[j]]
      /\ creditBalance' = creditBalance
  BY <1>1 DEF FailPurchase, IsPendingPurchase, PendingBonus
<1>3. ASSUME NEW j \in 1 .. m, NEW u
      PROVE  Gives(rows'[j], u) = Gives(rows[j], u) /\ Misses(rows'[j], u) = Misses(rows[j], u)
  <2> DEFINE r == rows[j]
             q == [r EXCEPT !.status = "FAILED"]
  <2>1. /\ r \in Row
        /\ rows'[j] = r \/ (r.status = "PENDING" /\ rows'[j] = q)
    BY <1>1, <1>2
  <2>2. /\ q.status = "FAILED" /\ q.wallet = r.wallet /\ q.reason = r.reason
        /\ q.credits = r.credits /\ q.consumed = r.consumed
    BY <2>1 DEF Row
  <2> HIDE DEF r, q
  <2> QED
    BY <2>1, <2>2 DEF Gives, Misses, IsSettledCredit, r
<1>4. ASSUME NEW u \in Wallets
      PROVE  Spendable(rows', u) = Spendable(rows, u) /\ Short(rows', u) = Short(rows, u)
  <2> DEFINE t == rows'
  <2>1. t = [j \in 1 .. m |-> t[j]]
    BY <1>2
  <2>2. t \in Seq(Row) /\ \A d \in 1 .. Len(t) : IsFiniteSet(t[d].consumed)
    BY DEF BooksInv, TypeOK, Booked, ConsumesSettled
  <2>3. \A j \in 1 .. m : Gives(t[j], u) = Gives(rows[j], u) /\ Misses(t[j], u) = Misses(rows[j], u)
    BY <1>3
  <2> HIDE DEF t
  <2>4. Len(t) = m
    BY <1>1, <2>1, FunctionIsSequence
  <2>5. \A d \in 1 .. Len(rows) : IsFiniteSet(rows[d].consumed)
    BY <1>1
  <2>6. Spendable(t, u) = Spendable(rows, u) /\ Short(t, u) = Short(rows, u)
    BY <1>1, <2>2, <2>3, <2>4, <2>5, CountsSame
  <2> QED
    BY <2>6 DEF t
<1> QED
  BY <1>2, <1>4, Untouched

LEMMA AccountsStep ==
    ASSUME BooksInv, BooksInv', ShapeInv, RowsAreLinked, [Next]_vars
    PROVE  \A u \in Wallets : AccountStep(u)
<1>0. Unopened
  BY DEF ShapeInv
<1>1. ASSUME NEW w \in Wallets, NEW load \in Maybe(Offers), CreateWallet(w, load)
      PROVE  \A u \in Wallets : AccountStep(u)
  BY <1>0, <1>1, CreateWalletSteps
<1>2. ASSUME NEW w \in Wallets, NEW offer \in Offers, NEW bonus \in Maybe(Bonuses),
             \/ CreditWallet(w, offer, bonus)
             \/ RequestPurchase(w, offer, bonus)
             \/ RequestCompletedPurchase(w, offer, bonus)
      PROVE  \A u \in Wallets : AccountStep(u)
  BY <1>2, CreditWalletSteps, RequestPurchaseSteps, RequestCompletedPurchaseSteps
<1>3. ASSUME NEW w \in Wallets, NEW amount \in Debits,
             \/ \E ref \in 1 .. MaxTime + 1 : DebitWallet(w, amount, ref)
             \/ ManualBalanceDebit(w, amount)
      PROVE  \A u \in Wallets : AccountStep(u)
  BY <1>3, DebitWalletSteps, ManualBalanceDebitSteps
<1>4. ASSUME NEW w \in Wallets, TerminateWallet(w)
      PROVE  \A u \in Wallets : AccountStep(u)
  BY <1>4, TerminateWalletSteps
<1>5. ASSUME NEW w \in Wallets, NEW v \in Wallets, ConvertToPostpaid(w, v)
      PROVE  \A u \in Wallets : AccountStep(u)
  BY <1>0, <1>5, ConvertToPostpaidSteps
<1>6. ASSUME NEW i \in DOMAIN rows, CompletePurchase(i)
      PROVE  \A u \in Wallets : AccountStep(u)
  BY <1>6, CompletePurchaseSteps
<1>7. ASSUME NEW i \in DOMAIN rows, FailPurchase(i)
      PROVE  \A u \in Wallets : AccountStep(u)
  BY <1>7, FailPurchaseSteps
<1>8. CASE ExpiryRun
  BY <1>8, ExpireCreditsSteps DEF ExpiryRun
<1>9. CASE Tick \/ UNCHANGED vars
  BY <1>9, Untouched DEF Tick, vars
<1> QED
  BY <1>1, <1>2, <1>3, <1>4, <1>5, <1>6, <1>7, <1>8, <1>9 DEF Next

LEMMA AccountsInit ==
    ASSUME Init
    PROVE  \A w \in Wallets : AnyAccount(w)!AccountInit /\ Account(w)!AccountInit
<1> SUFFICES ASSUME NEW w \in Wallets
             PROVE  AnyAccount(w)!AccountInit /\ Account(w)!AccountInit
  OBVIOUS
<1>1. BooksInv
  BY BooksInit
<1>2. 1 .. Len(rows) = {} /\ creditBalance[w] = 0
  BY DEF Init
<1>3. Spendable(rows, w) = 0 /\ Short(rows, w) = 0
  BY <1>2, SumEmpty DEF Spendable, Short
<1>4. Available(CompletedCredits(w)) = 0 /\ Sum(ManualDebits(w), Overdrawn) = 0
  BY <1>1, <1>3, SpendableIs
<1> QED
  BY <1>2, <1>4 DEF AnyAccount!AccountInit, Account!AccountInit

LEMMA LinkedAlways == Spec => []RowsAreLinked
BY LinkedInit, LinkedStep, PTL DEF Spec

(* Each wallet moves as its account does, whatever the amount.              *)
AccountsMove == \A w \in Wallets : [AnyAccount(w)!AccountNext]_(AnyAccount(w)!accountVars)

LEMMA AccountsMoveStep ==
    ASSUME BooksInv, BooksInv', ShapeInv, RowsAreLinked, [Next]_vars
    PROVE  AccountsMove
<1> SUFFICES ASSUME NEW w \in Wallets
             PROVE  [AnyAccount(w)!AccountNext]_(AnyAccount(w)!accountVars)
  BY DEF AccountsMove
<1> QED
  BY AccountsStep, StepMaps

(* No operation moves more than MaxMove credits, the bound a run sets.      *)
MovesAreBounded ==
    [][\A w \in Wallets : creditBalance'[w] - creditBalance[w] \in -MaxMove .. MaxMove]_vars

(* Every wallet is an account, for every history of the service: whatever   *)
(* operation commits, the stored balance and the credits its rows have      *)
(* available move together, by a grant, a spend they cover or a manual      *)
(* overdraft (processWalletOperation, completePurchasedCreditTransaction,   *)
(* ExpireCredits, convertToPostpaid).                                       *)
THEOREM WalletsAreAccounts ==
    Spec => (\A w \in Wallets : AnyAccount(w)!AccountInit) /\ [][AccountsMove]_vars
<1>1. Init => \A w \in Wallets : AnyAccount(w)!AccountInit
  BY AccountsInit
<1>2. BooksInv /\ BooksInv' /\ ShapeInv /\ RowsAreLinked /\ [Next]_vars => AccountsMove
  BY AccountsMoveStep
<1> QED
  BY <1>1, <1>2, BooksAlways, ShapeAlways, LinkedAlways, PTL DEF Spec

(* The same of the accounts a run checks, which move at most MaxMove        *)
(* credits at a time: as long as the ledger does, it implements them.       *)
THEOREM LedgerImplementsAccounts == Spec /\ MovesAreBounded => ImplementsAccount
<1> DEFINE Bounded == \A w \in Wallets : creditBalance'[w] - creditBalance[w] \in -MaxMove .. MaxMove
           Moves == \A w \in Wallets : [Account(w)!AccountNext]_(Account(w)!accountVars)
<1>1. Init => \A w \in Wallets : Account(w)!AccountInit
  BY AccountsInit
<1>2. BooksInv /\ BooksInv' /\ ShapeInv /\ RowsAreLinked /\ [Next]_vars /\ [Bounded]_vars
         => [Moves]_vars
  <2> SUFFICES ASSUME BooksInv, BooksInv', ShapeInv, RowsAreLinked, [Next]_vars, Bounded,
                      NEW w \in Wallets
               PROVE  [Account(w)!AccountNext]_(Account(w)!accountVars)
    OBVIOUS
  <2> QED
    BY AccountsStep, StepMaps
<1> QED
  BY <1>1, <1>2, BooksAlways, ShapeAlways, LinkedAlways, PTL
  DEF Spec, MovesAreBounded, ImplementsAccount

EveryAccountSafe == \A w \in Wallets : AnyAccount(w)!AccountSafety

(* No balance promises more than the wallet's rows can pay, and only manual *)
(* overdrafts separate the two: the account's safety, of every wallet.      *)
THEOREM BalancesAreBacked == Spec => []EveryAccountSafe
<1>1. (\A w \in Wallets : AnyAccount(w)!AccountInit) => EveryAccountSafe
  BY DEF EveryAccountSafe, AnyAccount!AccountInit, AnyAccount!AccountSafety,
     AnyAccount!AccountTypeOK, AnyAccount!BalanceBackedByCredits, AnyAccount!GapIsOverdraft
<1>2. EveryAccountSafe /\ AccountsMove => EveryAccountSafe'
  <2> SUFFICES ASSUME EveryAccountSafe, AccountsMove, NEW w \in Wallets
               PROVE  AnyAccount(w)!AccountSafety'
    BY DEF EveryAccountSafe
  <2> DEFINE a == Available(CompletedCredits(w))
             o == Sum(ManualDebits(w), Overdrawn)
             b == creditBalance[w]
  <2>1. b \in Int /\ a \in Nat /\ o \in Nat /\ b <= a /\ a - b <= o
    BY DEF EveryAccountSafe, AnyAccount!AccountSafety,
       AnyAccount!AccountTypeOK, AnyAccount!BalanceBackedByCredits, AnyAccount!GapIsOverdraft
  <2>2. [AnyAccount(w)!AccountNext]_(AnyAccount(w)!accountVars)
    BY DEF AccountsMove
  <2> SUFFICES b' \in Int /\ a' \in Nat /\ o' \in Nat /\ b' <= a' /\ a' - b' <= o'
    BY DEF AnyAccount!AccountSafety,
       AnyAccount!AccountTypeOK, AnyAccount!BalanceBackedByCredits, AnyAccount!GapIsOverdraft
  <2> HIDE DEF a, o, b
  <2>3. CASE UNCHANGED AnyAccount(w)!accountVars
    BY <2>1, <2>3 DEF AnyAccount!accountVars, a, o, b
  <2>4. ASSUME NEW n \in Nat \ {0}, AnyAccount(w)!Grant(n)
        PROVE  b' \in Int /\ a' \in Nat /\ o' \in Nat /\ b' <= a' /\ a' - b' <= o'
    <3>1. b' = b + n /\ o' = o /\ a' = a + AnyAccount(w)!CreditsUsable(b, b + n)
      BY <2>4 DEF AnyAccount!Grant, a, o, b
    <3>2. AnyAccount(w)!CreditsUsable(b, b + n)
            = IF b < 0 THEN (IF b + n < 0 THEN 0 ELSE b + n) ELSE b + n - b
      BY <2>1 DEF AnyAccount!CreditsUsable, AnyAccount!NonNegative
    <3> QED
      BY <2>1, <3>1, <3>2
  <2>5. ASSUME NEW n \in Nat \ {0}, AnyAccount(w)!Spend(n)
        PROVE  b' \in Int /\ a' \in Nat /\ o' \in Nat /\ b' <= a' /\ a' - b' <= o'
    <3>1. b' = b - n /\ o' = o /\ a' = a - n /\ n <= a
      BY <2>5 DEF AnyAccount!Spend, a, o, b
    <3> QED
      BY <2>1, <3>1
  <2>6. ASSUME NEW n \in Nat \ {0}, NEW taken \in 0 .. n - 1, AnyAccount(w)!Overdraw(n, taken)
        PROVE  b' \in Int /\ a' \in Nat /\ o' \in Nat /\ b' <= a' /\ a' - b' <= o'
    <3>1. b' = b - n /\ o' = o + (n - taken) /\ a' = a - taken /\ taken <= a
      BY <2>6 DEF AnyAccount!Overdraw, a, o, b
    <3> QED
      BY <2>1, <3>1
  <2> QED
    BY <2>2, <2>3, <2>4, <2>5, <2>6 DEF AnyAccount!AccountNext
<1>3. BooksInv /\ BooksInv' /\ ShapeInv /\ RowsAreLinked /\ [Next]_vars => AccountsMove
  BY AccountsMoveStep
<1>4. Init => \A w \in Wallets : AnyAccount(w)!AccountInit
  BY AccountsInit
<1> QED
  BY <1>1, <1>2, <1>3, <1>4, BooksAlways, ShapeAlways, LinkedAlways, PTL DEF Spec

----------------------------------------------------------------------------
(* A conversion.                                                            *)

(* Two of its terms change and their sum does not: nor does the whole.      *)
LEMMA SumOfTwoChanges ==
    ASSUME NEW S, IsFiniteSet(S), NEW f, NEW g, NEW a \in S, NEW b \in S, a # b,
           \A x \in S : f[x] \in Int /\ g[x] \in Int,
           \A x \in S \ {a, b} : g[x] = f[x],
           g[a] + g[b] = f[a] + f[b]
    PROVE  SumOver(g, S) = SumOver(f, S)
<1> DEFINE R == (S \ {a}) \ {b}
<1>1. IsFiniteSet(S \ {a}) /\ IsFiniteSet(R) /\ b \in S \ {a}
  BY FS_RemoveElement
<1>2. SumOver(f, S) = f[a] + SumOver(f, S \ {a}) /\ SumOver(g, S) = g[a] + SumOver(g, S \ {a})
  BY SumWithout
<1>3. /\ SumOver(f, S \ {a}) = f[b] + SumOver(f, R)
      /\ SumOver(g, S \ {a}) = g[b] + SumOver(g, R)
  <2>1. \A x \in S \ {a} : f[x] \in Int /\ g[x] \in Int
    OBVIOUS
  <2> QED
    BY <1>1, <2>1, SumWithout
<1>4. SumOver(f, R) = SumOver(g, R)
  <2>1. \A x \in R : f[x] = g[x]
    OBVIOUS
  <2> HIDE DEF R
  <2> QED
    BY <1>1, <2>1, SumSame
<1>5. SumOver(f, R) \in Int
  <2>1. \A x \in R : f[x] \in Int
    OBVIOUS
  <2> HIDE DEF R
  <2> QED
    BY <1>1, <2>1, SumType
<1> DEFINE sf == SumOver(f, S)
           sg == SumOver(g, S)
           rf == SumOver(f, R)
           rg == SumOver(g, R)
<1>6. sf = f[a] + (f[b] + rf) /\ sg = g[a] + (g[b] + rg) /\ rf = rg /\ rf \in Int
  BY <1>2, <1>3, <1>4, <1>5
<1>7. f[a] \in Int /\ f[b] \in Int /\ g[a] \in Int /\ g[b] \in Int
  OBVIOUS
<1> HIDE DEF sf, sg, rf, rg
<1>8. sg = sf
  BY <1>6, <1>7
<1> QED
  BY <1>8 DEF sf, sg

(* Only a conversion closes one wallet and opens another.                   *)
LEMMA OnlyConversions ==
    ASSUME BooksInv, [Next]_vars, NEW w \in Wallets, NEW v \in Wallets,
           Active(w), ~Active(w)', ~Exists(v), Active(v)'
    PROVE  ConvertToPostpaid(w, v)
<1>1. /\ walletStatus \in [Wallets -> {"none", "active", "closed"}]
      /\ walletStatus[w] = "active" /\ walletStatus'[w] # "active"
      /\ walletStatus[v] = "none" /\ walletStatus'[v] = "active"
  BY DEF BooksInv, TypeOK, Active, Exists
<1>2. walletStatus' # walletStatus
  BY <1>1
<1>3. ASSUME NEW x \in Wallets, NEW load \in Maybe(Offers), CreateWallet(x, load)
      PROVE  FALSE
  <2>1. walletStatus[x] = "none" /\ walletStatus' = [walletStatus EXCEPT ![x] = "active"]
    BY <1>3 DEF CreateWallet
  <2> QED
    BY <1>1, <2>1
<1>4. ASSUME NEW x \in Wallets, TerminateWallet(x)
      PROVE  FALSE
  <2>1. walletStatus[x] = "active" /\ walletStatus' = [walletStatus EXCEPT ![x] = "closed"]
    BY <1>4 DEF TerminateWallet, Active
  <2> QED
    BY <1>1, <2>1
<1>5. ASSUME NEW x \in Wallets, NEW y \in Wallets, ConvertToPostpaid(x, y)
      PROVE  x = w /\ y = v
  <2>1. /\ walletStatus[x] = "active" /\ walletStatus[y] = "none"
        /\ walletStatus' = [walletStatus EXCEPT ![x] = "closed", ![y] = "active"]
    BY <1>5 DEF ConvertToPostpaid, Active
  <2> QED
    BY <1>1, <2>1
<1>6. ASSUME NEW x \in Wallets, NEW offer \in Offers, NEW bonus \in Maybe(Bonuses),
             \/ CreditWallet(x, offer, bonus)
             \/ RequestPurchase(x, offer, bonus)
             \/ RequestCompletedPurchase(x, offer, bonus)
      PROVE  FALSE
  BY <1>2, <1>6 DEF CreditWallet, RequestPurchase, RequestCompletedPurchase
<1>7. ASSUME NEW x \in Wallets, NEW amount \in Debits,
             \/ \E ref \in 1 .. MaxTime + 1 : DebitWallet(x, amount, ref)
             \/ ManualBalanceDebit(x, amount)
      PROVE  FALSE
  BY <1>2, <1>7 DEF DebitWallet, ManualBalanceDebit
<1>8. ASSUME NEW i \in DOMAIN rows, CompletePurchase(i) \/ FailPurchase(i)
      PROVE  FALSE
  BY <1>2, <1>8 DEF CompletePurchase, FailPurchase
<1>9. ASSUME NEW i \in DOMAIN rows, NEW applied \in 0 .. rows[i].available,
             ExpireCredits(i, applied)
      PROVE  FALSE
  BY <1>2, <1>9 DEF ExpireCredits
<1>10. ~ Tick /\ ~ UNCHANGED vars
  BY <1>2 DEF Tick, vars
<1> QED
  BY <1>3, <1>4, <1>5, <1>6, <1>7, <1>8, <1>9, <1>10 DEF Next, ExpiryRun

(* The balances after a conversion: the two wallets' change places.         *)
LEMMA ConversionBalances ==
    ASSUME BooksInv, ShapeInv, NEW w \in Wallets, NEW v \in Wallets, ConvertToPostpaid(w, v)
    PROVE  /\ w # v /\ creditBalance[v] = 0
           /\ \A u \in Wallets : creditBalance[u] \in Int /\ creditBalance'[u] \in Int
           /\ \A u \in Wallets : u # w /\ u # v => creditBalance'[u] = creditBalance[u]
           /\ creditBalance'[w] + creditBalance'[v] = creditBalance[w] + creditBalance[v]
<1>1. creditBalance \in [Wallets -> Int]
  BY DEF BooksInv, TypeOK
<1>2. walletStatus[v] = "none" /\ walletStatus[w] = "active"
  BY DEF ConvertToPostpaid, Active
<1>3. w # v /\ creditBalance[v] = 0
  BY <1>2 DEF ShapeInv, Unopened
<1>4. CASE creditBalance[w] > 0
  <2>1. creditBalance' = [creditBalance EXCEPT ![w] = 0, ![v] = creditBalance[w]]
    BY <1>4 DEF ConvertToPostpaid
  <2> QED
    BY <1>1, <1>3, <2>1
<1>5. CASE ~(creditBalance[w] > 0)
  <2>1. creditBalance' = creditBalance
    BY <1>5 DEF ConvertToPostpaid
  <2> QED
    BY <1>1, <1>3, <2>1
<1> QED
  BY <1>4, <1>5

TotalBalance == Sum(Wallets, LAMBDA u : creditBalance[u])
TotalIs == TotalBalance = SumOver([u \in Wallets |-> creditBalance[u]], Wallets)

LEMMA TotalAlwaysIs == TotalIs
<1> DEFINE f == [u \in Wallets |-> creditBalance[u]]
<1>1. TotalBalance = FoldFunction(+, 0, f)
  BY DEF TotalBalance, Sum
<1>2. DOMAIN f = Wallets
  OBVIOUS
<1> HIDE DEF f
<1>3. FoldFunction(+, 0, f) = SumOver(f, Wallets)
  BY <1>2, FunSum
<1> QED
  BY <1>1, <1>3 DEF TotalIs, f

LEMMA ConversionKeepsTotal ==
    ASSUME BooksInv, ShapeInv, IsFiniteSet(Wallets),
           NEW w \in Wallets, NEW v \in Wallets, ConvertToPostpaid(w, v)
    PROVE  TotalBalance' = TotalBalance
<1> DEFINE f == [u \in Wallets |-> creditBalance[u]]
           g == [u \in Wallets |-> creditBalance'[u]]
<1>1. TotalBalance = SumOver(f, Wallets)
  BY TotalAlwaysIs DEF TotalIs
<1>2. TotalIs'
  BY TotalAlwaysIs, PTL
<1>3. TotalBalance' = SumOver(g, Wallets)
  BY <1>2 DEF TotalIs
<1>4. /\ \A u \in Wallets : f[u] \in Int /\ g[u] \in Int
      /\ \A u \in Wallets : u # w /\ u # v => g[u] = f[u]
      /\ g[w] + g[v] = f[w] + f[v] /\ w # v
  BY ConversionBalances
<1> HIDE DEF f, g
<1>5. SumOver(g, Wallets) = SumOver(f, Wallets)
  <2>1. \A u \in Wallets \ {w, v} : g[u] = f[u]
    BY <1>4
  <2>2. w # v /\ \A u \in Wallets : f[u] \in Int /\ g[u] \in Int
    BY <1>4
  <2>3. g[w] + g[v] = f[w] + f[v]
    BY <1>4
  <2> QED
    BY <2>1, <2>2, <2>3, SumOfTwoChanges
<1> QED
  BY <1>1, <1>3, <1>5

EligibleIn(s, u, ref) ==
    {i \in DOMAIN s : /\ s[i].wallet = u /\ s[i].type = "credit" /\ s[i].status = "COMPLETED"
                      /\ s[i].available > 0 /\ s[i].expiry >= ref /\ s[i].created < ref}
AvailableIn(s, S) == SumOver([i \in S |-> s[i].available], S)

EligibleSumIs ==
    \A u : Available(EligibleCredits(u, ThisInstant))
             = AvailableIn(rows, EligibleIn(rows, u, ThisInstant))

LEMMA EligibleSumAlwaysIs == EligibleSumIs
<1> SUFFICES ASSUME NEW u
             PROVE  Available(EligibleCredits(u, ThisInstant))
                      = AvailableIn(rows, EligibleIn(rows, u, ThisInstant))
  BY DEF EligibleSumIs
<1> DEFINE S == EligibleCredits(u, ThisInstant)
           f == [i \in S |-> rows[i].available]
<1>1. S = EligibleIn(rows, u, ThisInstant)
  BY DEF EligibleCredits, EligibleIn
<1>2. DOMAIN f = S /\ Available(S) = FoldFunction(+, 0, f)
  BY DEF Available
<1> HIDE DEF f
<1>3. FoldFunction(+, 0, f) = SumOver(f, DOMAIN f)
  BY FunSum
<1> QED
  BY <1>1, <1>2, <1>3 DEF AvailableIn, f

(* The wallet a conversion opens had no row, so the transfer is all it can  *)
(* spend: what the old wallet held, at once.                                *)
LEMMA ConversionCredits ==
    ASSUME BooksInv, ShapeInv, NEW w \in Wallets, NEW v \in Wallets, ConvertToPostpaid(w, v)
    PROVE  AvailableIn(rows', EligibleIn(rows', v, now + 1)) = NonNegative(creditBalance[w])
<1> DEFINE held == creditBalance[w]
           n == Len(rows)
<1>1. /\ held \in Int /\ rows \in Seq(Row) /\ now \in Time /\ walletStatus[v] = "none"
      /\ now \in Nat /\ MaxTime \in Nat
  BY TimeIsNat, LedgerConstants DEF BooksInv, TypeOK, ConvertToPostpaid, Time
<1>2. n \in Nat /\ DOMAIN rows = 1 .. n /\ \A k \in 1 .. n : rows[k] \in Row
  BY <1>1, LenProperties
<1>3. \A k \in 1 .. n : rows[k].wallet # v
  BY <1>1 DEF ShapeInv
<1>4. CASE held > 0
  <2> DEFINE out(take) == DebitRow(w, "TERMINATION", held, take, held)
             in == TransferRow(v, held)
  <2>1. PICK take \in Consumptions(EligibleCredits(w, ThisInstant), held) :
           rows' = Consume(take) \o <<out(take), in>>
    BY <1>4 DEF ConvertToPostpaid
  <2>2. Available(EligibleCredits(w, ThisInstant)) >= held
    BY <1>4 DEF ConvertToPostpaid, CanEmpty
  <2>3. held \in Nat /\ "TERMINATION" \in Reasons
    BY <1>1, <1>4 DEF Reasons
  <2>4. /\ in.type = "credit" /\ in.wallet = v /\ in.status = "COMPLETED"
        /\ in.available = held /\ in.created = now /\ in.expiry = NoExpiry
    <3>1. in.type = "credit" /\ in.wallet = v /\ in.status = "COMPLETED" /\ in.available = held
      BY DEF TransferRow, NoExpiryOffer, CreditRow, ComputeCreditsAvailable
    <3>2. in.created = now /\ in.expiry = ExpiryOf(NoExpiryOffer(held))
      BY DEF TransferRow, CreditRow
    <3>3. NoExpiryOffer(held).lifetime = MaxTime + 1
      BY DEF NoExpiryOffer, NoExpiry
    <3>4. ExpiryOf(NoExpiryOffer(held)) = NoExpiry
      BY <1>1, <3>3 DEF ExpiryOf
    <3> QED
      BY <3>1, <3>2, <3>4
  <2> DEFINE o == out(take)
             kept == ConsumeIn(rows, take)
  <2> HIDE DEF held, n
  <2>5. ValidTake(rows, w, take)
    BY <2>1, <2>2, <2>3, ConsumptionIsValid DEF held
  <2>6. o.type = "debit"
    BY DEF DebitRow
  <2>7. rows' = kept \o <<o, in>>
    BY <2>1, ConsumeIsConsumeIn
  <2> HIDE DEF o, in, out
  <2>8. /\ kept \in Seq(Row) /\ Len(kept) = n
        /\ \A k \in 1 .. n : kept[k].wallet = rows[k].wallet
    BY <1>1, <2>5, ConsumeInType DEF SameButAvailable, n
  <2> HIDE DEF kept
  <2>9. /\ Len(rows') = n + 2 /\ DOMAIN rows' = 1 .. n + 2
        /\ \A k \in 1 .. n : rows'[k].wallet # v
        /\ rows'[n + 1] = o /\ rows'[n + 2] = in
    <3>1. /\ Len(kept \o <<o, in>>) = n + 2
          /\ \A k \in 1 .. n : (kept \o <<o, in>>)[k] = kept[k]
          /\ (kept \o <<o, in>>)[n + 1] = o /\ (kept \o <<o, in>>)[n + 2] = in
          /\ DOMAIN (kept \o <<o, in>>) = 1 .. n + 2
      BY <1>2, <2>8
    <3> QED
      BY <1>3, <2>7, <2>8, <3>1
  <2> DEFINE t == rows'
             E == EligibleIn(t, v, now + 1)
             f == [i \in E |-> t[i].available]
  <2>10. E = {n + 2}
    <3>1. n + 2 \in E
      <4>1. n + 2 \in DOMAIN t /\ t[n + 2] = in
        BY <1>2, <2>9
      <4>2. held > 0 /\ NoExpiry >= now + 1 /\ now < now + 1
        BY <1>1, <1>4 DEF NoExpiry, Time, held
      <4> QED
        BY <2>4, <4>1, <4>2 DEF EligibleIn
    <3>2. ASSUME NEW i \in E PROVE i = n + 2
      <4>1. i \in 1 .. n + 2 /\ t[i].wallet = v /\ t[i].type = "credit"
        BY <2>9 DEF EligibleIn
      <4> QED
        BY <1>2, <2>6, <2>9, <4>1
    <3> QED
      BY <3>1, <3>2
  <2>11. f[n + 2] = held
    BY <2>4, <2>9, <2>10
  <2> HIDE DEF f, E
  <2>12. SumOver(f, {n + 2}) = held
    <3>1. IsFiniteSet({n + 2}) /\ n + 2 \in {n + 2} /\ {n + 2} \ {n + 2} = {}
      BY FS_Singleton
    <3>2. \A x \in {n + 2} : f[x] \in Int
      BY <2>3, <2>11
    <3>3. SumOver(f, {n + 2}) = f[n + 2] + SumOver(f, {n + 2} \ {n + 2})
      BY <3>1, <3>2, SumWithout
    <3>4. SumOver(f, {n + 2} \ {n + 2}) = 0
      BY <3>1, SumEmpty
    <3>5. SumOver(f, {n + 2}) = held + 0
      BY <2>11, <3>3, <3>4
    <3> QED
      BY <2>3, <3>5
  <2>13. AvailableIn(t, E) = SumOver(f, E)
    BY DEF AvailableIn, f
  <2>14. NonNegative(held) = held
    BY <1>4, <2>3 DEF NonNegative, held
  <2> QED
    BY <2>10, <2>12, <2>13, <2>14 DEF E, held
<1>5. CASE ~(held > 0)
  <2>1. rows' = rows
    BY <1>5 DEF ConvertToPostpaid
  <2>2. EligibleIn(rows, v, now + 1) = {}
    BY <1>2, <1>3 DEF EligibleIn
  <2>3. AvailableIn(rows, {}) = 0
    BY SumEmpty DEF AvailableIn
  <2>4. NonNegative(held) = 0
    BY <1>1, <1>5 DEF NonNegative
  <2> QED
    BY <2>1, <2>2, <2>3, <2>4
<1> QED
  BY <1>4, <1>5

(* A conversion loses nothing and nobody pays twice: the balances of the    *)
(* customer's wallets add up to the same, and the new wallet can spend at   *)
(* once what the old one held, for every number of wallets and whatever     *)
(* the rows of the old one are (convertToPostpaid).                         *)
THEOREM ConversionLosesNothing ==
    ASSUME IsFiniteSet(Wallets)
    PROVE  Spec => ConversionKeepsTheCredits
<1> DEFINE Kept ==
      \A w, v \in Wallets :
        LET total == Sum(Wallets, LAMBDA u : creditBalance[u])
        IN  /\ Active(w) /\ ~Active(w)'
            /\ ~Exists(v) /\ Active(v)'
            => /\ total' = total
               /\ Available(EligibleCredits(v, ThisInstant))' = NonNegative(creditBalance[w])
<1>1. BooksInv /\ ShapeInv /\ [Next]_vars => Kept
  <2> SUFFICES ASSUME BooksInv, ShapeInv, [Next]_vars, NEW w \in Wallets, NEW v \in Wallets,
                      Active(w), ~Active(w)', ~Exists(v), Active(v)'
               PROVE  /\ TotalBalance' = TotalBalance
                      /\ Available(EligibleCredits(v, ThisInstant))' = NonNegative(creditBalance[w])
    BY DEF TotalBalance
  <2>1. ConvertToPostpaid(w, v)
    BY OnlyConversions
  <2>2. TotalBalance' = TotalBalance
    BY <2>1, ConversionKeepsTotal
  <2>3. EligibleSumIs'
    BY EligibleSumAlwaysIs, PTL
  <2>4. now' = now
    BY <2>1 DEF ConvertToPostpaid
  <2>5. Available(EligibleCredits(v, ThisInstant))'
          = AvailableIn(rows', EligibleIn(rows', v, now + 1))
    BY <2>3, <2>4 DEF EligibleSumIs, AvailableIn, EligibleIn, ThisInstant
  <2> QED
    BY <2>1, <2>2, <2>5, ConversionCredits
<1> QED
  BY <1>1, BooksAlways, ShapeAlways, PTL DEF Spec, ConversionKeepsTheCredits

----------------------------------------------------------------------------
(* The audit trail: of rows s, of which those of p were posted in that      *)
(* order, with credit balances c.                                           *)

Trail(s, p, w) == {k \in 1 .. Len(p) : s[p[k]].wallet = w}

(* What the trail of wallet w before place n left is `credits`.             *)
LeftAt(s, p, w, n, credits) ==
    \/ /\ credits = 0
       /\ \A k \in Trail(s, p, w) : ~(k < n)
    \/ \E last \in Trail(s, p, w) :
          /\ last < n /\ s[p[last]].after = credits
          /\ \A k \in Trail(s, p, w) : k < n => k <= last

PostedOnce(s, p) ==
    /\ \A j, k \in 1 .. Len(p) : p[j] = p[k] => j = k
    /\ \A k \in 1 .. Len(p) : p[k] \in 1 .. Len(s) /\ s[p[k]].status = "COMPLETED"
    /\ \A i \in 1 .. Len(s) : s[i].status = "COMPLETED" => \E k \in 1 .. Len(p) : p[k] = i

Chained(s, p, c) ==
    /\ IsSequence(p)
    /\ PostedOnce(s, p)
    /\ \A w \in Wallets :
          /\ \A k \in Trail(s, p, w) : LeftAt(s, p, w, k, s[p[k]].before)
          /\ LeftAt(s, p, w, Len(p) + 1, c[w])

(* The settled rows of s are those of t but for the rows of I.              *)
SameEntry(r, q) ==
    r.status = "COMPLETED" /\ r.wallet = q.wallet /\ r.before = q.before /\ r.after = q.after
Settles(t, s, I) ==
    /\ Len(s) \in Nat /\ Len(t) \in Nat /\ Len(s) <= Len(t)
    /\ \A i \in 1 .. Len(s) : s[i].status = "COMPLETED" => SameEntry(t[i], s[i])
    /\ \A i \in 1 .. Len(t) :
          t[i].status = "COMPLETED" => i \in I \/ (i \in 1 .. Len(s) /\ s[i].status = "COMPLETED")

LEMMA LeftStays ==
    ASSUME NEW s, NEW t, NEW p, NEW q, NEW I, Settles(t, s, I), PostedOnce(s, p),
           Len(p) \in Nat, Len(q) \in Nat, Len(p) <= Len(q),
           \A k \in 1 .. Len(p) : q[k] = p[k],
           NEW w, NEW n \in Nat, NEW credits,
           \A k \in Trail(t, q, w) : k < n => k <= Len(p),
           LeftAt(s, p, w, n, credits)
    PROVE  LeftAt(t, q, w, n, credits)
<1>1. \A k \in 1 .. Len(p) : SameEntry(t[q[k]], s[p[k]])
  BY DEF Settles, PostedOnce
<1>2. \A k \in 1 .. Len(p) : k \in Trail(t, q, w) <=> k \in Trail(s, p, w)
  BY <1>1 DEF Trail, SameEntry
<1>3. \A k \in Trail(t, q, w) : k < n => k \in Trail(s, p, w)
  <2>1. \A k \in Trail(t, q, w) : k \in 1 .. Len(q)
    BY DEF Trail
  <2> QED
    BY <1>2, <2>1
<1>4. CASE credits = 0 /\ \A k \in Trail(s, p, w) : ~(k < n)
  <2>1. \A k \in Trail(t, q, w) : ~(k < n)
    BY <1>3, <1>4
  <2> QED
    BY <1>4, <2>1 DEF LeftAt
<1>5. CASE \E last \in Trail(s, p, w) :
             /\ last < n /\ s[p[last]].after = credits
             /\ \A k \in Trail(s, p, w) : k < n => k <= last
  <2>1. PICK last \in Trail(s, p, w) :
               /\ last < n /\ s[p[last]].after = credits
               /\ \A k \in Trail(s, p, w) : k < n => k <= last
    BY <1>5
  <2>2. last \in 1 .. Len(p)
    BY DEF Trail
  <2>3. last \in Trail(t, q, w) /\ t[q[last]].after = credits
    BY <1>1, <1>2, <2>1, <2>2 DEF SameEntry
  <2>4. \A k \in Trail(t, q, w) : k < n => k <= last
    BY <1>3, <2>1
  <2> QED
    BY <2>1, <2>3, <2>4 DEF LeftAt
<1> QED
  BY <1>4, <1>5 DEF LeftAt

(* Rows change or are added, but none is settled.                           *)
LEMMA ChainStays ==
    ASSUME NEW s, NEW t, NEW p, NEW c, NEW d, Chained(s, p, c), Settles(t, s, {}),
           \A w \in Wallets : d[w] = c[w]
    PROVE  Chained(t, p, d)
<1>1. IsSequence(p) /\ Len(p) \in Nat /\ PostedOnce(s, p)
  BY SequenceDomain DEF Chained
<1>2. \A k \in 1 .. Len(p) : SameEntry(t[p[k]], s[p[k]]) /\ p[k] \in 1 .. Len(t)
  <2>1. \A k \in 1 .. Len(p) : p[k] \in 1 .. Len(s) /\ s[p[k]].status = "COMPLETED"
    BY <1>1 DEF PostedOnce
  <2>2. /\ Len(s) \in Nat /\ Len(t) \in Nat /\ Len(s) <= Len(t)
        /\ \A i \in 1 .. Len(s) : s[i].status = "COMPLETED" => SameEntry(t[i], s[i])
    BY DEF Settles
  <2> QED
    BY <2>1, <2>2
<1>3. PostedOnce(t, p)
  <2>1. \A i \in 1 .. Len(t) : t[i].status = "COMPLETED" => \E k \in 1 .. Len(p) : p[k] = i
    BY <1>1 DEF Settles, PostedOnce
  <2>2. \A k \in 1 .. Len(p) : p[k] \in 1 .. Len(t) /\ t[p[k]].status = "COMPLETED"
    BY <1>2 DEF SameEntry
  <2>3. \A j, k \in 1 .. Len(p) : p[j] = p[k] => j = k
    BY <1>1 DEF PostedOnce
  <2> QED
    BY <2>1, <2>2, <2>3 DEF PostedOnce
<1>4. ASSUME NEW w \in Wallets, NEW k \in Trail(t, p, w)
      PROVE  LeftAt(t, p, w, k, t[p[k]].before)
  <2>1. k \in 1 .. Len(p)
    BY DEF Trail
  <2>2. k \in Trail(s, p, w) /\ t[p[k]].before = s[p[k]].before
    BY <1>2, <2>1 DEF Trail, SameEntry
  <2>3. LeftAt(s, p, w, k, s[p[k]].before)
    BY <2>2 DEF Chained
  <2>4. \A j \in Trail(t, p, w) : j < k => j <= Len(p)
    BY <1>1, <2>1 DEF Trail
  <2>5. k \in Nat /\ Len(p) <= Len(p)
    BY <1>1, <2>1
  <2>6. LeftAt(t, p, w, k, s[p[k]].before)
    BY <1>1, <2>3, <2>4, <2>5, LeftStays
  <2> QED
    BY <2>2, <2>6
<1>5. ASSUME NEW w \in Wallets
      PROVE  LeftAt(t, p, w, Len(p) + 1, d[w])
  <2>1. LeftAt(s, p, w, Len(p) + 1, c[w])
    BY DEF Chained
  <2>2. \A j \in Trail(t, p, w) : j < Len(p) + 1 => j <= Len(p)
    BY <1>1 DEF Trail
  <2>3. Len(p) + 1 \in Nat /\ Len(p) <= Len(p)
    BY <1>1
  <2>4. LeftAt(t, p, w, Len(p) + 1, c[w])
    <3> DEFINE n == Len(p) + 1
    <3>1. /\ LeftAt(s, p, w, n, c[w]) /\ n \in Nat
          /\ \A j \in Trail(t, p, w) : j < n => j <= Len(p)
      BY <2>1, <2>2, <2>3
    <3> HIDE DEF n
    <3>2. LeftAt(t, p, w, n, c[w])
      BY <1>1, <2>3, <3>1, LeftStays
    <3> QED
      BY <3>2 DEF n
  <2> QED
    BY <2>4
<1> QED
  BY <1>1, <1>3, <1>4, <1>5 DEF Chained

(* Row i is settled: it starts where its wallet's trail ended.              *)
LEMMA ChainGrows ==
    ASSUME NEW s, NEW t, NEW p, NEW c, NEW d, Chained(s, p, c),
           NEW i, Settles(t, s, {i}), i \in 1 .. Len(t), t[i].status = "COMPLETED",
           i \in 1 .. Len(s) => s[i].status # "COMPLETED",
           t[i].wallet \in Wallets, t[i].before = c[t[i].wallet], d[t[i].wallet] = t[i].after,
           \A w \in Wallets \ {t[i].wallet} : d[w] = c[w]
    PROVE  Chained(t, p \o <<i>>, d)
<1> DEFINE q == p \o <<i>>
           n == Len(p)
<1>1. IsSequence(p) /\ n \in Nat /\ PostedOnce(s, p)
  BY SequenceDomain DEF Chained
<1>2. /\ IsSequence(q) /\ Len(q) = n + 1 /\ q[n + 1] = i
      /\ \A k \in 1 .. n : q[k] = p[k]
  BY <1>1, OneRow, Concatenation
<1> HIDE DEF q
<1>3. \A k \in 1 .. n : SameEntry(t[q[k]], s[p[k]]) /\ q[k] \in 1 .. Len(t) /\ q[k] # i
  <2>1. \A k \in 1 .. n : /\ q[k] = p[k] /\ p[k] \in 1 .. Len(s)
                            /\ s[p[k]].status = "COMPLETED"
    BY <1>1, <1>2 DEF PostedOnce
  <2>2. /\ 1 .. Len(s) \subseteq 1 .. Len(t)
        /\ \A j \in 1 .. Len(s) : s[j].status = "COMPLETED" => SameEntry(t[j], s[j])
    BY DEF Settles
  <2> QED
    BY <2>1, <2>2
<1>4. \A k \in 1 .. n + 1 : k \in 1 .. n \/ k = n + 1
  BY <1>1
<1>5. PostedOnce(t, q)
  <2>1. ASSUME NEW j \in 1 .. n + 1, NEW k \in 1 .. n + 1, q[j] = q[k] PROVE j = k
    BY <1>1, <1>2, <1>3, <1>4, <2>1 DEF PostedOnce
  <2>2. \A k \in 1 .. n + 1 : q[k] \in 1 .. Len(t) /\ t[q[k]].status = "COMPLETED"
    BY <1>2, <1>3, <1>4 DEF SameEntry
  <2>3. ASSUME NEW k \in 1 .. Len(t), t[k].status = "COMPLETED"
        PROVE  \E j \in 1 .. n + 1 : q[j] = k
    <3>1. CASE k = i
      BY <1>1, <1>2, <3>1
    <3>2. CASE k \in 1 .. Len(s) /\ s[k].status = "COMPLETED"
      <4>1. PICK j \in 1 .. n : p[j] = k
        BY <1>1, <3>2 DEF PostedOnce
      <4> QED
        BY <1>1, <1>2, <4>1
    <3> QED
      BY <2>3, <3>1, <3>2 DEF Settles
  <2> QED
    BY <1>2, <2>1, <2>2, <2>3 DEF PostedOnce
<1>6. ASSUME NEW w \in Wallets, NEW m \in Nat, m <= n + 1, NEW credits, LeftAt(s, p, w, m, credits)
      PROVE  LeftAt(t, q, w, m, credits)
  <2>1. \A k \in Trail(t, q, w) : k < m => k <= n
    BY <1>1, <1>2, <1>6 DEF Trail
  <2>2. Len(q) \in Nat /\ n <= Len(q)
    BY <1>1, <1>2
  <2> QED
    BY <1>1, <1>2, <1>6, <2>1, <2>2, LeftStays
<1>7. ASSUME NEW w \in Wallets, NEW k \in Trail(t, q, w)
      PROVE  LeftAt(t, q, w, k, t[q[k]].before)
  <2>1. k \in 1 .. n + 1 /\ t[q[k]].wallet = w
    BY <1>2 DEF Trail
  <2>2. CASE k \in 1 .. n
    <3>1. k \in Trail(s, p, w) /\ t[q[k]].before = s[p[k]].before
      BY <1>3, <2>1, <2>2 DEF Trail, SameEntry
    <3>2. LeftAt(s, p, w, k, s[p[k]].before)
      BY <3>1 DEF Chained
    <3>3. k \in Nat /\ k <= n + 1
      BY <1>1, <2>2
    <3> QED
      BY <1>6, <3>1, <3>2, <3>3
  <2>3. CASE k = n + 1
    <3>1. w = t[i].wallet /\ t[q[k]].before = c[w]
      BY <1>2, <2>1, <2>3
    <3>2. LeftAt(s, p, w, n + 1, c[w])
      BY DEF Chained
    <3>3. n + 1 \in Nat /\ n + 1 <= n + 1
      BY <1>1
    <3> QED
      BY <1>6, <2>3, <3>1, <3>2, <3>3
  <2> QED
    BY <1>4, <2>1, <2>2, <2>3
<1>8. ASSUME NEW w \in Wallets
      PROVE  LeftAt(t, q, w, n + 2, d[w])
  <2>1. CASE w = t[i].wallet
    <3>1. n + 1 \in Trail(t, q, w) /\ t[q[n + 1]].after = d[w]
      BY <1>1, <1>2, <2>1 DEF Trail
    <3>2. \A k \in Trail(t, q, w) : k < n + 2 => k <= n + 1
      BY <1>1, <1>2 DEF Trail
    <3>3. n + 1 < n + 2
      BY <1>1
    <3> QED
      BY <3>1, <3>2, <3>3 DEF LeftAt
  <2>2. CASE w # t[i].wallet
    <3>1. LeftAt(s, p, w, n + 1, c[w]) /\ d[w] = c[w]
      BY <2>2 DEF Chained
    <3>2. LeftAt(t, q, w, n + 1, d[w])
      <4>1. n + 1 \in Nat /\ n + 1 <= n + 1
        BY <1>1
      <4> QED
        BY <1>6, <3>1, <4>1
    <3>3. \A k \in Trail(t, q, w) : k \in 1 .. n
      BY <1>2, <1>4, <2>2 DEF Trail
    <3>4. \A k \in Trail(t, q, w) : k < n + 1 /\ k < n + 2
      BY <1>1, <3>3
    <3> QED
      BY <3>2, <3>4 DEF LeftAt
  <2> QED
    BY <2>1, <2>2
<1>9. Len(q) + 1 = n + 2
  BY <1>1, <1>2
<1> QED
  BY <1>2, <1>5, <1>7, <1>8, <1>9 DEF Chained, q

----------------------------------------------------------------------------
(* The audit trail under each way the rows change.                          *)

LEMMA ConsumeChains ==
    ASSUME NEW s \in Seq(Row), NEW p, NEW c, Chained(s, p, c),
           NEW w, NEW take, ValidTake(s, w, take)
    PROVE  LET t == ConsumeIn(s, take)
           IN  t \in Seq(Row) /\ Len(t) = Len(s) /\ Chained(t, p, c)
<1> DEFINE t == ConsumeIn(s, take)
<1>1. /\ t \in Seq(Row) /\ Len(t) = Len(s) /\ Len(s) \in Nat
      /\ \A i \in 1 .. Len(s) : SameButAvailable(t[i], s[i])
  BY ConsumeInType, LenProperties
<1> HIDE DEF t
<1>2. Settles(t, s, {})
  BY <1>1 DEF Settles, SameEntry, SameButAvailable
<1>3. Chained(t, p, c)
  BY <1>2, ChainStays
<1> QED
  BY <1>1, <1>3 DEF t

LEMMA AppendSettles ==
    ASSUME NEW s \in Seq(Row), NEW row \in Row
    PROVE  LET t == s \o <<row>>
               n == Len(s)
           IN  /\ t \in Seq(Row) /\ n \in Nat /\ Len(t) = n + 1 /\ t[n + 1] = row
               /\ Settles(t, s, {n + 1})
               /\ row.status # "COMPLETED" => Settles(t, s, {})
<1> DEFINE t == s \o <<row>>
           n == Len(s)
<1>1. /\ t \in Seq(Row) /\ Len(t) = n + 1 /\ n \in Nat /\ t[n + 1] = row
      /\ \A i \in 1 .. n : t[i] = s[i]
  BY AddedRow, LenProperties
<1> HIDE DEF t, n
<1>2. /\ n <= n + 1 /\ n + 1 \in Nat
      /\ \A i \in 1 .. n + 1 : i \in 1 .. n \/ i = n + 1
  BY <1>1
<1>3. \A i \in 1 .. n : s[i].status = "COMPLETED" => SameEntry(t[i], s[i])
  BY <1>1 DEF SameEntry
<1>4. /\ \A i \in 1 .. n + 1 : i \in {n + 1} \/ (i \in 1 .. n /\ t[i] = s[i])
      /\ \A i \in 1 .. n + 1 :
            t[i].status = "COMPLETED" => i \in {n + 1} \/ (i \in 1 .. n /\ s[i].status = "COMPLETED")
  BY <1>1, <1>2
<1>5. Settles(t, s, {n + 1})
  BY <1>1, <1>2, <1>3, <1>4 DEF Settles, n
<1>6. ASSUME row.status # "COMPLETED" PROVE Settles(t, s, {})
  <2>1. \A i \in 1 .. n + 1 :
           t[i].status = "COMPLETED" => i \in 1 .. n /\ s[i].status = "COMPLETED"
    BY <1>1, <1>4, <1>6
  <2> QED
    BY <1>1, <1>2, <1>3, <2>1 DEF Settles, n
<1> QED
  BY <1>1, <1>5, <1>6 DEF t, n

LEMMA AppendChains ==
    ASSUME NEW s \in Seq(Row), NEW p, NEW c, NEW d, Chained(s, p, c),
           NEW row \in Row, row.status = "COMPLETED",
           row.before = c[row.wallet], d[row.wallet] = row.after,
           \A w \in Wallets \ {row.wallet} : d[w] = c[w]
    PROVE  s \o <<row>> \in Seq(Row) /\ Chained(s \o <<row>>, p \o <<Len(s) + 1>>, d)
<1> DEFINE t == s \o <<row>>
           n == Len(s)
<1>1. /\ t \in Seq(Row) /\ n \in Nat /\ Len(t) = n + 1 /\ t[n + 1] = row
      /\ Settles(t, s, {n + 1})
  BY AppendSettles
<1> HIDE DEF t
<1>2. n + 1 \in 1 .. Len(t) /\ n + 1 \notin 1 .. n
  BY <1>1
<1>3. row.wallet \in Wallets
  BY RowFields
<1>4. /\ t[n + 1].status = "COMPLETED" /\ t[n + 1].wallet \in Wallets
      /\ t[n + 1].before = c[t[n + 1].wallet] /\ d[t[n + 1].wallet] = t[n + 1].after
      /\ \A w \in Wallets \ {t[n + 1].wallet} : d[w] = c[w]
  BY <1>1, <1>3
<1>5. Chained(t, p \o <<n + 1>>, d)
  BY <1>1, <1>2, <1>4, ChainGrows
<1> QED
  BY <1>1, <1>5 DEF t

LEMMA AppendPendingChains ==
    ASSUME NEW s \in Seq(Row), NEW p, NEW c, Chained(s, p, c),
           NEW row \in Row, row.status # "COMPLETED"
    PROVE  s \o <<row>> \in Seq(Row) /\ Chained(s \o <<row>>, p, c)
<1>1. s \o <<row>> \in Seq(Row) /\ Settles(s \o <<row>>, s, {})
  BY AppendSettles
<1> QED
  BY <1>1, ChainStays

(* One row, or two of which the second starts where the first ended.        *)
IsPosting(w, before, added) ==
    \/ \E a \in Row : /\ added = <<a>> /\ a.wallet = w /\ a.status = "COMPLETED"
                      /\ a.before = before
    \/ \E a, b \in Row : /\ added = <<a, b>> /\ a.wallet = w /\ b.wallet = w
                         /\ a.status = "COMPLETED" /\ b.status = "COMPLETED"
                         /\ a.before = before /\ b.before = a.after

LEMMA PlacesOfNew ==
    ASSUME NEW n \in Nat, NEW a, NEW b
    PROVE  /\ [k \in DOMAIN <<a>> |-> n + k] = <<n + 1>>
           /\ [k \in DOMAIN <<a, b>> |-> n + k] = <<n + 1, n + 2>>
<1>1. DOMAIN <<a>> = 1 .. 1 /\ DOMAIN <<a, b>> = 1 .. 2
  OBVIOUS
<1>2. <<n + 1>> = [k \in 1 .. 1 |-> n + k]
  OBVIOUS
<1>3. <<n + 1, n + 2>> = [k \in 1 .. 2 |-> n + k]
  OBVIOUS
<1> QED
  BY <1>1, <1>2, <1>3

LEMMA TwoPlaces ==
    ASSUME NEW p, IsSequence(p), NEW j, NEW k
    PROVE  p \o <<j, k>> = (p \o <<j>>) \o <<k>>
<1>1. PICK S : p \in Seq(S)
  BY DEF IsSequence
<1> DEFINE T == S \cup {j, k}
<1>2. p \in Seq(T) /\ j \in T /\ k \in T
  BY <1>1, SeqMonotonic
<1> HIDE DEF T
<1> QED
  BY <1>2, TwoRows

LEMMA PostingChains ==
    ASSUME NEW s \in Seq(Row), NEW p, NEW c, NEW d, Chained(s, p, c),
           NEW w \in Wallets, NEW added, IsPosting(w, c[w], added),
           d[w] = added[Len(added)].after, \A u \in Wallets \ {w} : d[u] = c[u]
    PROVE  Chained(s \o added, p \o [k \in DOMAIN added |-> Len(s) + k], d)
<1> DEFINE n == Len(s)
<1>0. n \in Nat /\ IsSequence(p)
  BY LenProperties DEF Chained
<1>1. CASE \E a \in Row : /\ added = <<a>> /\ a.wallet = w /\ a.status = "COMPLETED"
                          /\ a.before = c[w]
  <2>1. PICK a \in Row : /\ added = <<a>> /\ a.wallet = w /\ a.status = "COMPLETED"
                         /\ a.before = c[w]
    BY <1>1
  <2>2. d[w] = a.after
    BY <2>1
  <2>3. Chained(s \o <<a>>, p \o <<n + 1>>, d)
    BY <2>1, <2>2, AppendChains
  <2>4. [k \in DOMAIN added |-> n + k] = <<n + 1>>
    BY <1>0, <2>1, PlacesOfNew
  <2> QED
    BY <2>1, <2>3, <2>4
<1>2. CASE \E a, b \in Row : /\ added = <<a, b>> /\ a.wallet = w /\ b.wallet = w
                             /\ a.status = "COMPLETED" /\ b.status = "COMPLETED"
                             /\ a.before = c[w] /\ b.before = a.after
  <2>1. PICK a \in Row, b \in Row :
                /\ added = <<a, b>> /\ a.wallet = w /\ b.wallet = w
                /\ a.status = "COMPLETED" /\ b.status = "COMPLETED"
                /\ a.before = c[w] /\ b.before = a.after
    BY <1>2
  <2>2. d[w] = b.after
    BY <2>1
  <2> DEFINE e == [u \in Wallets |-> IF u = w THEN a.after ELSE c[u]]
             t == s \o <<a>>
             q == p \o <<n + 1>>
  <2>3. e[w] = a.after /\ \A u \in Wallets \ {w} : e[u] = c[u] /\ d[u] = e[u]
    OBVIOUS
  <2> HIDE DEF e
  <2>4. t \in Seq(Row) /\ Chained(t, q, e)
    BY <2>1, <2>3, AppendChains
  <2>5. Len(t) = n + 1
    BY AppendSettles
  <2> HIDE DEF t, q
  <2>6. Chained(t \o <<b>>, q \o <<Len(t) + 1>>, d)
    <3>1. /\ b \in Row /\ b.status = "COMPLETED" /\ b.before = e[b.wallet]
          /\ d[b.wallet] = b.after /\ \A u \in Wallets \ {b.wallet} : d[u] = e[u]
      BY <2>1, <2>2, <2>3
    <3> QED
      BY <2>4, <3>1, AppendChains
  <2>7. Len(t) + 1 = n + 2
    BY <1>0, <2>5
  <2>8. s \o <<a, b>> = t \o <<b>>
    BY TwoRows DEF t
  <2>9. p \o <<n + 1, n + 2>> = q \o <<n + 2>>
    BY <1>0, TwoPlaces DEF q
  <2>10. [k \in DOMAIN added |-> n + k] = <<n + 1, n + 2>>
    BY <1>0, <2>1, PlacesOfNew
  <2> QED
    BY <2>1, <2>6, <2>7, <2>8, <2>9, <2>10
<1> QED
  BY <1>1, <1>2 DEF IsPosting

ChainInv == Chained(rows, posted, creditBalance)

LEMMA PostKeepsChain ==
    ASSUME BooksInv, NEW kept \in Seq(Row), Len(kept) = Len(rows),
           Chained(kept, posted, creditBalance),
           NEW w \in Wallets, NEW added, IsPosting(w, creditBalance[w], added),
           Post(w, kept, added)
    PROVE  ChainInv'
<1>1. /\ rows' = kept \o added
      /\ posted' = posted \o [k \in DOMAIN added |-> Len(kept) + k]
      /\ creditBalance' = [creditBalance EXCEPT ![w] = LastAfter(w, added)]
  BY DEF Post
<1>2. LastAfter(w, added) = added[Len(added)].after
  <2>1. added # <<>>
    <3>1. ASSUME NEW a PROVE <<a>> # <<>>
      OBVIOUS
    <3>2. ASSUME NEW a, NEW b PROVE <<a, b>> # <<>>
      OBVIOUS
    <3> QED
      BY <3>1, <3>2 DEF IsPosting
  <2> QED
    BY <2>1 DEF LastAfter
<1>3. /\ creditBalance'[w] = added[Len(added)].after
      /\ \A u \in Wallets \ {w} : creditBalance'[u] = creditBalance[u]
  BY <1>1, <1>2, OtherAccounts
<1> DEFINE d == creditBalance'
<1>4. /\ d[w] = added[Len(added)].after /\ \A u \in Wallets \ {w} : d[u] = creditBalance[u]
  BY <1>3
<1> HIDE DEF d
<1>5. Chained(kept \o added, posted \o [k \in DOMAIN added |-> Len(kept) + k], d)
  BY <1>4, PostingChains
<1> QED
  BY <1>1, <1>5 DEF ChainInv, d

LEMMA CreditEntry ==
    ASSUME NEW w, NEW reason, NEW status, NEW offer, NEW parent, NEW before
    PROVE  LET row == CreditRow(w, reason, status, offer, parent, before)
           IN  row.wallet = w /\ row.status = status /\ row.before = before
BY DEF CreditRow

LEMMA DebitEntry ==
    ASSUME NEW w, NEW reason, NEW amount, NEW take, NEW before
    PROVE  LET row == DebitRow(w, reason, amount, take, before)
           IN  /\ row.wallet = w /\ row.status = "COMPLETED"
               /\ row.before = before /\ row.after = before - amount
BY DEF DebitRow

LEMMA PurchasePosts ==
    ASSUME BooksInv, NEW w \in Wallets, NEW reason \in Reasons, NEW status \in Statuses,
           NEW offer \in Offered, NEW bonus, bonus = <<>> \/ \E b \in Offered : bonus = <<b>>,
           NEW before \in Int
    PROVE  LET added == PurchaseRows(w, reason, status, offer, bonus, before)
           IN  /\ status = "COMPLETED" => IsPosting(w, before, added)
               /\ \/ \E a \in Row : added = <<a>> /\ a.status = status
                  \/ \E a, b \in Row : added = <<a, b>> /\ a.status = status /\ b.status = status
<1> DEFINE purchase == CreditRow(w, reason, status, offer, NoParent, before)
           grant == CreditRow(w, "BONUS", status, bonus[1], Len(rows) + 1, purchase.after)
           added == PurchaseRows(w, reason, status, offer, bonus, before)
<1>0. rows \in Seq(Row) /\ now \in Time /\ Len(rows) + 1 \in Nat
  BY LenProperties DEF BooksInv, TypeOK
<1>1. purchase \in Row
  BY <1>0, CreditRowType DEF NoParent
<1>2. purchase.wallet = w /\ purchase.status = status /\ purchase.before = before
  BY CreditEntry
<1>3. added = IF bonus = <<>> THEN <<purchase>> ELSE <<purchase, grant>>
  BY DEF PurchaseRows
<1>4. CASE bonus = <<>>
  <2>1. added = <<purchase>>
    BY <1>3, <1>4
  <2> HIDE DEF purchase, added
  <2> QED
    BY <1>1, <1>2, <2>1 DEF IsPosting, added
<1>5. CASE bonus # <<>>
  <2> DEFINE after == purchase.after
  <2>1. after \in Int
    BY <1>1, RowFields
  <2>2. bonus[1] \in Offered /\ "BONUS" \in Reasons
    BY <1>5 DEF Reasons
  <2>3. added = <<purchase, grant>>
    BY <1>3, <1>5
  <2> HIDE DEF after, purchase, added
  <2>4. grant \in Row
    BY <1>0, <2>1, <2>2, CreditRowType DEF after
  <2>5. grant.wallet = w /\ grant.status = status /\ grant.before = purchase.after
    BY CreditEntry
  <2> HIDE DEF grant
  <2> QED
    BY <1>1, <1>2, <2>3, <2>4, <2>5 DEF IsPosting, added
<1> QED
  BY <1>4, <1>5

LEMMA PurchaseChains ==
    ASSUME BooksInv, ChainInv, NEW w \in Wallets, NEW offer \in Offers, NEW bonus \in Maybe(Bonuses),
           \/ CreditWallet(w, offer, bonus)
           \/ RequestPurchase(w, offer, bonus)
           \/ RequestCompletedPurchase(w, offer, bonus)
    PROVE  ChainInv'
<1> DEFINE Added(reason, status) == PurchaseRows(w, reason, status, offer, bonus, creditBalance[w])
<1>0. /\ rows \in Seq(Row) /\ creditBalance[w] \in Int
      /\ bonus = <<>> \/ \E b \in Offered : bonus = <<b>>
      /\ offer \in Offered
  BY MaybeOffered, OffersAreOffered DEF BooksInv, TypeOK
<1>1. CASE CreditWallet(w, offer, bonus)
  <2> DEFINE added == Added("GRANT", "COMPLETED")
  <2>1. IsPosting(w, creditBalance[w], added)
    BY <1>0, PurchasePosts DEF Reasons, Statuses
  <2>2. Post(w, rows, added)
    BY <1>1 DEF CreditWallet
  <2> HIDE DEF added
  <2> QED
    BY <1>0, <2>1, <2>2, PostKeepsChain DEF ChainInv
<1>2. CASE RequestCompletedPurchase(w, offer, bonus)
  <2> DEFINE added == Added("PURCHASE", "COMPLETED")
             last == added[Len(added)].after
  <2>1. IsPosting(w, creditBalance[w], added)
    BY <1>0, PurchasePosts DEF Reasons, Statuses
  <2>2. added # <<>> /\ added[Len(added)] \in Row
    BY <1>0, PurchaseRowsBooked DEF Reasons, Statuses
  <2>3. /\ rows' = rows \o added
        /\ posted' = posted \o [k \in DOMAIN added |-> Len(rows) + k]
        /\ creditBalance' = [creditBalance EXCEPT ![w] = @ + (LastAfter(w, added) - @)]
    BY <1>2 DEF RequestCompletedPurchase
  <2> HIDE DEF added
  <2>4. last \in Int
    BY <2>2, RowFields
  <2>5. LastAfter(w, added) = last
    BY <2>2 DEF LastAfter
  <2> HIDE DEF last
  <2>6. creditBalance[w] + (last - creditBalance[w]) = last
    BY <1>0, <2>4
  <2>7. creditBalance' = [creditBalance EXCEPT ![w] = last]
    BY <2>3, <2>5, <2>6
  <2> DEFINE d == creditBalance'
  <2>8. d[w] = last /\ \A u \in Wallets \ {w} : d[u] = creditBalance[u]
    BY <2>7, OtherAccounts
  <2> HIDE DEF d
  <2>9. Chained(rows \o added, posted \o [k \in DOMAIN added |-> Len(rows) + k], d)
    BY <1>0, <2>1, <2>8, PostingChains DEF ChainInv, last
  <2> QED
    BY <2>3, <2>9 DEF ChainInv, d
<1>3. CASE RequestPurchase(w, offer, bonus)
  <2> DEFINE added == Added("PURCHASE", "PENDING")
  <2>1. \/ \E a \in Row : added = <<a>> /\ a.status = "PENDING"
        \/ \E a, b \in Row : added = <<a, b>> /\ a.status = "PENDING" /\ b.status = "PENDING"
    BY <1>0, PurchasePosts DEF Reasons, Statuses
  <2>2. rows' = rows \o added /\ posted' = posted /\ creditBalance' = creditBalance
    BY <1>3 DEF RequestPurchase
  <2> HIDE DEF added
  <2>3. Chained(rows \o added, posted, creditBalance)
    <3>1. CASE \E a \in Row : added = <<a>> /\ a.status = "PENDING"
      BY <1>0, <3>1, AppendPendingChains DEF ChainInv
    <3>2. CASE \E a, b \in Row : added = <<a, b>> /\ a.status = "PENDING" /\ b.status = "PENDING"
      <4>1. PICK a \in Row, b \in Row :
                   added = <<a, b>> /\ a.status # "COMPLETED" /\ b.status # "COMPLETED"
        BY <3>2
      <4> DEFINE t == rows \o <<a>>
      <4>2. t \in Seq(Row) /\ Chained(t, posted, creditBalance)
        BY <1>0, <4>1, AppendPendingChains DEF ChainInv
      <4>3. rows \o <<a, b>> = t \o <<b>>
        BY <1>0, TwoRows
      <4> HIDE DEF t
      <4>4. Chained(t \o <<b>>, posted, creditBalance)
        BY <4>1, <4>2, AppendPendingChains
      <4> QED
        BY <4>1, <4>3, <4>4
    <3> QED
      BY <2>1, <3>1, <3>2
  <2> QED
    BY <2>2, <2>3 DEF ChainInv
<1> QED
  BY <1>1, <1>2, <1>3

LEMMA PostDebitChains ==
    ASSUME BooksInv, ChainInv, NEW w \in Wallets, NEW reason \in Reasons, NEW amount \in Nat,
           NEW take, ValidTake(rows, w, take), PostDebit(w, reason, amount, take)
    PROVE  ChainInv'
<1> DEFINE row == DebitRow(w, reason, amount, take, creditBalance[w])
           kept == ConsumeIn(rows, take)
<1>1. rows \in Seq(Row) /\ now \in Time /\ creditBalance[w] \in Int
  BY DEF BooksInv, TypeOK
<1>2. row \in Row
  BY <1>1, ValidIsTake, DebitRowType
<1>3. row.wallet = w /\ row.status = "COMPLETED" /\ row.before = creditBalance[w]
  BY DebitEntry
<1>4. Post(w, kept, <<row>>)
  BY ConsumeIsConsumeIn DEF PostDebit
<1>5. kept \in Seq(Row) /\ Len(kept) = Len(rows) /\ Chained(kept, posted, creditBalance)
  BY <1>1, ConsumeChains DEF ChainInv
<1> HIDE DEF row, kept
<1>6. IsPosting(w, creditBalance[w], <<row>>)
  BY <1>2, <1>3 DEF IsPosting
<1> QED
  BY <1>4, <1>5, <1>6, PostKeepsChain

LEMMA DebitsChain ==
    ASSUME BooksInv, ChainInv, NEW w \in Wallets, NEW amount \in Debits,
           \/ \E ref \in 1 .. MaxTime + 1 : DebitWallet(w, amount, ref)
           \/ ManualBalanceDebit(w, amount)
    PROVE  ChainInv'
<1>1. amount \in Nat /\ "SPEND" \in Reasons /\ "MANUAL" \in Reasons
  BY LedgerConstants DEF Reasons
<1>2. ASSUME NEW ref, DebitWallet(w, amount, ref)
      PROVE  ChainInv'
  <2>1. PICK take \in Consumptions(EligibleCredits(w, ref), amount) :
           PostDebit(w, "SPEND", amount, take)
    BY <1>2 DEF DebitWallet
  <2>2. ValidTake(rows, w, take)
    BY <1>1, ConsumptionIsValid
  <2> QED
    BY <1>1, <2>1, <2>2, PostDebitChains
<1>3. CASE ManualBalanceDebit(w, amount)
  <2>1. PICK take \in Consumptions(EligibleCredits(w, ThisInstant), amount) :
           PostDebit(w, "MANUAL", amount, take)
    BY <1>3 DEF ManualBalanceDebit
  <2>2. ValidTake(rows, w, take)
    BY <1>1, ConsumptionIsValid
  <2> QED
    BY <1>1, <2>1, <2>2, PostDebitChains
<1> QED
  BY <1>2, <1>3

LEMMA TerminateChains ==
    ASSUME BooksInv, ChainInv, NEW w \in Wallets, TerminateWallet(w)
    PROVE  ChainInv'
<1>1. CASE creditBalance[w] > 0
  <2>1. creditBalance[w] \in Nat /\ "TERMINATION" \in Reasons
    BY <1>1 DEF BooksInv, TypeOK, Reasons
  <2>2. PICK take \in Consumptions(EligibleCredits(w, ThisInstant), creditBalance[w]) :
           PostDebit(w, "TERMINATION", creditBalance[w], take)
    BY <1>1 DEF TerminateWallet
  <2>3. ValidTake(rows, w, take)
    BY <2>1, ConsumptionIsValid
  <2> QED
    BY <2>1, <2>2, <2>3, PostDebitChains
<1>2. CASE ~(creditBalance[w] > 0)
  <2>1. UNCHANGED <<rows, posted, creditBalance>>
    BY <1>2 DEF TerminateWallet
  <2> QED
    BY <2>1 DEF ChainInv
<1> QED
  BY <1>1, <1>2

LEMMA CreateWalletChains ==
    ASSUME BooksInv, ChainInv, Unopened,
           NEW w \in Wallets, NEW load \in Maybe(Offers), CreateWallet(w, load)
    PROVE  ChainInv'
<1> DEFINE Granted(k) == CreditRow(w, "GRANT", "COMPLETED", load[k], NoParent, 0)
           added == [k \in DOMAIN load |-> Granted(k)]
<1>1. Post(w, rows, added) /\ creditBalance[w] = 0
  BY DEF CreateWallet, Unopened
<1>2. load = <<>> \/ \E e \in Offered : load = <<e>>
  BY MaybeOffered, OffersAreOffered
<1>3. rows \in Seq(Row) /\ now \in Time /\ posted \in Seq(DOMAIN rows)
      /\ creditBalance \in [Wallets -> Int]
  BY DEF BooksInv, TypeOK
<1>4. CASE load = <<>>
  <2>1. added = <<>> /\ [k \in DOMAIN <<>> |-> Len(rows) + k] = <<>>
    BY <1>4
  <2>2. /\ rows' = rows \o <<>> /\ posted' = posted \o <<>>
        /\ creditBalance' = [creditBalance EXCEPT ![w] = creditBalance[w]]
    BY <1>1, <2>1 DEF Post, LastAfter
  <2>3. rows' = rows /\ posted' = posted /\ creditBalance' = creditBalance
    BY <1>3, <2>2, ConcatEmptySeq
  <2> QED
    BY <2>3 DEF ChainInv
<1>5. CASE \E e \in Offered : load = <<e>>
  <2>1. PICK e \in Offered : load = <<e>>
    BY <1>5
  <2> DEFINE row == CreditRow(w, "GRANT", "COMPLETED", e, NoParent, 0)
  <2>2. added = <<row>>
    BY <2>1
  <2>3. row \in Row
    BY <1>3, CreditRowType DEF NoParent, Reasons, Statuses
  <2>4. row.wallet = w /\ row.status = "COMPLETED" /\ row.before = 0
    BY CreditEntry
  <2> HIDE DEF row, added
  <2>5. IsPosting(w, creditBalance[w], added)
    BY <1>1, <2>2, <2>3, <2>4 DEF IsPosting
  <2> QED
    BY <1>1, <1>3, <2>5, PostKeepsChain DEF ChainInv
<1> QED
  BY <1>2, <1>4, <1>5

LEMMA ConvertChains ==
    ASSUME BooksInv, ChainInv, Unopened,
           NEW w \in Wallets, NEW v \in Wallets, ConvertToPostpaid(w, v)
    PROVE  ChainInv'
<1> DEFINE held == creditBalance[w]
           n == Len(rows)
<1>1. /\ held \in Int /\ rows \in Seq(Row) /\ now \in Time /\ n \in Nat
      /\ walletStatus[v] = "none" /\ walletStatus[w] = "active"
      /\ creditBalance \in [Wallets -> Int]
  BY LenProperties DEF BooksInv, TypeOK, ConvertToPostpaid, Active
<1>2. w # v /\ creditBalance[v] = 0
  BY <1>1 DEF Unopened
<1>3. CASE held > 0
  <2> DEFINE out(take) == DebitRow(w, "TERMINATION", held, take, held)
             in == TransferRow(v, held)
  <2>1. PICK take \in Consumptions(EligibleCredits(w, ThisInstant), held) :
           rows' = Consume(take) \o <<out(take), in>>
    BY <1>3 DEF ConvertToPostpaid
  <2>2. /\ posted' = posted \o <<n + 1, n + 2>>
        /\ creditBalance' = [creditBalance EXCEPT ![w] = 0, ![v] = held]
    BY <1>3 DEF ConvertToPostpaid
  <2>3. held \in Nat /\ "TERMINATION" \in Reasons
    BY <1>1, <1>3 DEF Reasons
  <2> HIDE DEF held
  <2>4. ValidTake(rows, w, take)
    BY <2>1, <2>3, ConsumptionIsValid
  <2> DEFINE o == out(take)
             kept == ConsumeIn(rows, take)
  <2>5. o \in Row
    BY <1>1, <2>3, <2>4, ValidIsTake, DebitRowType
  <2>6. /\ o.wallet = w /\ o.status = "COMPLETED" /\ o.before = held /\ o.after = 0
    <3>1. o.wallet = w /\ o.status = "COMPLETED" /\ o.before = held /\ o.after = held - held
      BY DebitEntry
    <3> QED
      BY <2>3, <3>1
  <2>7. in \in Row
    <3>1. NoExpiryOffer(held) \in Offered
      BY <1>1, <2>3, TimeIsNat DEF NoExpiryOffer, Offered
    <3> QED
      BY <1>1, <3>1, CreditRowType DEF TransferRow, NoParent, Reasons, Statuses
  <2>8. in.wallet = v /\ in.status = "COMPLETED" /\ in.before = 0 /\ in.after = held
    <3>1. /\ in.wallet = v /\ in.status = "COMPLETED" /\ in.before = 0
          /\ in.after = 0 + held
      BY DEF TransferRow, NoExpiryOffer, CreditRow
    <3> QED
      BY <2>3, <3>1
  <2>9. rows' = kept \o <<o, in>>
    BY <2>1, ConsumeIsConsumeIn
  <2>10. kept \in Seq(Row) /\ Len(kept) = n /\ Chained(kept, posted, creditBalance)
    BY <1>1, <2>4, ConsumeChains DEF ChainInv
  <2> HIDE DEF o, in, out, kept
  <2> DEFINE e == [u \in Wallets |-> IF u = w THEN 0 ELSE creditBalance[u]]
             d == creditBalance'
             s == kept \o <<o>>
             p == posted \o <<n + 1>>
  <2>11. e[w] = 0 /\ e[v] = 0 /\ \A u \in Wallets \ {w} : e[u] = creditBalance[u]
    BY <1>2
  <2>12. d[v] = held /\ \A u \in Wallets \ {v} : d[u] = e[u]
    BY <1>1, <1>2, <2>2
  <2> HIDE DEF d, e
  <2>13. s \in Seq(Row) /\ Chained(s, p, e)
    <3>1. o.before = creditBalance[o.wallet] /\ e[o.wallet] = o.after
          /\ \A u \in Wallets \ {o.wallet} : e[u] = creditBalance[u]
      BY <2>6, <2>11 DEF held
    <3> QED
      BY <2>5, <2>6, <2>10, <3>1, AppendChains
  <2>14. Len(s) = n + 1
    BY <2>5, <2>10, AppendSettles
  <2> HIDE DEF s, p
  <2>15. Chained(s \o <<in>>, p \o <<Len(s) + 1>>, d)
    <3>1. in.before = e[in.wallet] /\ d[in.wallet] = in.after
          /\ \A u \in Wallets \ {in.wallet} : d[u] = e[u]
      BY <2>8, <2>11, <2>12
    <3> QED
      BY <2>7, <2>8, <2>13, <3>1, AppendChains
  <2>16. Len(s) + 1 = n + 2
    BY <1>1, <2>14
  <2>17. kept \o <<o, in>> = s \o <<in>>
    BY <2>5, <2>7, <2>10, TwoRows DEF s
  <2>18. posted \o <<n + 1, n + 2>> = p \o <<n + 2>>
    <3>1. IsSequence(posted)
      BY DEF ChainInv, Chained
    <3> QED
      BY <3>1, TwoPlaces DEF p
  <2> QED
    BY <2>2, <2>9, <2>15, <2>16, <2>17, <2>18 DEF ChainInv, d
<1>4. CASE ~(held > 0)
  <2>1. UNCHANGED <<rows, posted, creditBalance>>
    BY <1>4 DEF ConvertToPostpaid
  <2> QED
    BY <2>1 DEF ChainInv
<1> QED
  BY <1>3, <1>4

LEMMA FailPurchaseChains ==
    ASSUME BooksInv, ChainInv, NEW i \in DOMAIN rows, FailPurchase(i)
    PROVE  ChainInv'
<1> DEFINE m == Len(rows)
           t == rows'
<1>1. m \in Nat /\ DOMAIN rows = 1 .. m /\ \A j \in 1 .. m : rows[j] \in Row
  BY LenProperties DEF BooksInv, TypeOK
<1>2. /\ t = [j \in 1 .. m |-> IF j \in {i} \cup PendingBonus(i)
                               THEN [rows[j] EXCEPT !.status = "FAILED"] ELSE rows[j]]
      /\ \A j \in {i} \cup PendingBonus(i) : rows[j].status = "PENDING"
      /\ posted' = posted /\ creditBalance' = creditBalance
  BY <1>1 DEF FailPurchase, IsPendingPurchase, PendingBonus
<1>3. t = [j \in 1 .. m |-> t[j]]
  BY <1>2
<1>4. ASSUME NEW j \in 1 .. m
      PROVE  \/ t[j] = rows[j]
             \/ rows[j].status = "PENDING" /\ t[j].status = "FAILED"
  <2> DEFINE r == rows[j]
  <2>1. r \in Row
    BY <1>1
  <2>2. t[j] = r \/ (r.status = "PENDING" /\ t[j] = [r EXCEPT !.status = "FAILED"])
    BY <1>2
  <2> HIDE DEF r, t
  <2>3. t[j] = r \/ (r.status = "PENDING" /\ t[j].status = "FAILED")
    BY <2>1, <2>2 DEF Row
  <2> QED
    BY <2>3 DEF r
<1> HIDE DEF t
<1>5. Len(t) = m
  BY <1>1, <1>3, FunctionIsSequence
<1>6. Settles(t, rows, {})
  BY <1>1, <1>4, <1>5 DEF Settles, SameEntry
<1>7. Chained(t, posted, creditBalance)
  BY <1>6, ChainStays DEF ChainInv
<1> QED
  BY <1>2, <1>7 DEF ChainInv, t

LEMMA ExpireChains ==
    ASSUME BooksInv, ChainInv, NEW i \in DOMAIN rows, NEW applied \in 0 .. rows[i].available,
           ExpireCredits(i, applied)
    PROVE  ChainInv'
<1> DEFINE w == rows[i].wallet
           all == rows[i].available
           rest == all - applied
           Take(n) == [j \in {i} |-> n]
           spent == DebitRow(w, "SPEND", applied, Take(applied), creditBalance[w])
           expired == DebitRow(w, "EXPIRED", rest, Take(rest), creditBalance[w] - applied)
           debits == IF applied = 0 THEN <<expired>>
                     ELSE IF applied = all THEN <<spent>> ELSE <<spent, expired>>
           kept == ConsumeIn(rows, Take(all))
<1>1. /\ rows \in Seq(Row) /\ now \in Time /\ DOMAIN rows = 1 .. Len(rows)
      /\ i \in 1 .. Len(rows) /\ rows[i] \in Row
  BY LenProperties DEF BooksInv, TypeOK
<1>2. w \in Wallets /\ all \in Nat /\ applied \in Nat /\ rest \in Nat
  BY <1>1, RowFields
<1>3. creditBalance[w] \in Int
  BY <1>2 DEF BooksInv, TypeOK
<1>4. rows[i].type = "credit" /\ rows[i].status = "COMPLETED"
  BY DEF ExpireCredits, DueForExpiry
<1>5. Post(w, kept, debits)
  BY ConsumeIsConsumeIn DEF ExpireCredits
<1>6. kept \in Seq(Row) /\ Len(kept) = Len(rows) /\ Chained(kept, posted, creditBalance)
  <2>1. ValidTake(rows, w, Take(all))
    <3>1. all <= all /\ all = rows[i].available /\ w = rows[i].wallet
      BY <1>2
    <3>2. IsTakeOf(Take(all), i, all)
      BY DEF IsTakeOf
    <3> HIDE DEF Take, w, all
    <3> QED
      BY <1>1, <1>2, <1>4, <3>1, <3>2, TakeFromOne
  <2> HIDE DEF Take, w, all
  <2> QED
    BY <1>1, <2>1, ConsumeChains DEF ChainInv
<1>7. spent \in Row /\ expired \in Row
  <2>1. IsTake(Take(applied)) /\ IsTake(Take(rest))
    BY <1>1, <1>2 DEF IsTake
  <2>2. creditBalance[w] - applied \in Int /\ "SPEND" \in Reasons /\ "EXPIRED" \in Reasons
    BY <1>2, <1>3 DEF Reasons
  <2> HIDE DEF Take, w, rest
  <2> QED
    BY <1>1, <1>2, <1>3, <2>1, <2>2, DebitRowType
<1>8. /\ spent.wallet = w /\ spent.status = "COMPLETED"
      /\ spent.before = creditBalance[w] /\ spent.after = creditBalance[w] - applied
  BY DebitEntry
<1>9. /\ expired.wallet = w /\ expired.status = "COMPLETED"
      /\ expired.before = creditBalance[w] - applied
  BY DebitEntry
<1> HIDE DEF spent, expired, kept, w
<1>10. IsPosting(w, creditBalance[w], debits)
  <2>1. CASE applied = 0
    <3>1. creditBalance[w] - applied = creditBalance[w]
      BY <1>3, <2>1
    <3>2. debits = <<expired>>
      BY <2>1
    <3> QED
      BY <1>7, <1>9, <3>1, <3>2 DEF IsPosting
  <2>2. CASE applied # 0 /\ applied = all
    <3>1. debits = <<spent>>
      BY <2>2
    <3> QED
      BY <1>7, <1>8, <3>1 DEF IsPosting
  <2>3. CASE applied # 0 /\ applied # all
    <3>1. debits = <<spent, expired>>
      BY <2>3
    <3> QED
      BY <1>7, <1>8, <1>9, <3>1 DEF IsPosting
  <2> QED
    BY <2>1, <2>2, <2>3
<1> HIDE DEF debits
<1> QED
  BY <1>2, <1>5, <1>6, <1>10, PostKeepsChain

LEMMA CompletedEntry ==
    ASSUME NEW r \in Row, NEW before \in Int
    PROVE  LET q == Completed(r, before)
           IN  /\ q.wallet = r.wallet /\ q.status = "COMPLETED"
               /\ q.before = before /\ q.after = before + r.credits
<1> DEFINE after == before + r.credits
           available == ComputeCreditsAvailable(before, after, r.credits)
<1>1. Completed(r, before) =
        [r EXCEPT !.status = "COMPLETED", !.before = before, !.after = after,
                  !.available = available]
  BY DEF Completed
<1> HIDE DEF after, available
<1> QED
  BY <1>1 DEF Row, after

(* Row i of s is settled in place.                                          *)
LEMMA SettleChains ==
    ASSUME NEW s, NEW t, NEW p, NEW c, NEW d, Chained(s, p, c), NEW m \in Nat,
           Len(s) = m, Len(t) = m, NEW i \in 1 .. m, s[i].status # "COMPLETED",
           t[i].status = "COMPLETED", t[i].wallet \in Wallets,
           t[i].before = c[t[i].wallet], d[t[i].wallet] = t[i].after,
           \A j \in (1 .. m) \ {i} : t[j] = s[j],
           \A w \in Wallets \ {t[i].wallet} : d[w] = c[w]
    PROVE  Chained(t, p \o <<i>>, d)
<1>1. \A j \in 1 .. m : s[j].status = "COMPLETED" => SameEntry(t[j], s[j])
  BY DEF SameEntry
<1>2. Settles(t, s, {i})
  BY <1>1 DEF Settles
<1> QED
  BY <1>2, ChainGrows

LEMMA CompletePurchaseChains ==
    ASSUME BooksInv, ChainInv, ShapeInv, RowsAreLinked,
           NEW i \in DOMAIN rows, CompletePurchase(i)
    PROVE  ChainInv'
<1> DEFINE w == rows[i].wallet
           b == creditBalance[w]
           bonus == PendingBonus(i)
           paid == Completed(rows[i], b)
           earned == [j \in bonus |-> Completed(rows[j], paid.after)]
           others == FoldFunction(LAMBDA r, n : r.credits + n, 0, earned)
           c == b + (rows[i].credits + others)
           m == Len(rows)
           s == [j \in 1 .. m |-> IF j = i THEN paid ELSE rows[j]]
           t == rows'
           d == creditBalance'
           e == [u \in Wallets |-> IF u = w THEN paid.after ELSE creditBalance[u]]
<1>1. /\ rows \in Seq(Row) /\ m \in Nat /\ DOMAIN rows = 1 .. m /\ i \in 1 .. m
      /\ \A j \in 1 .. m : rows[j] \in Row
  BY LenProperties DEF BooksInv, TypeOK
<1>2. /\ rows[i].status = "PENDING"
      /\ t = [j \in 1 .. m |->
                    IF j = i THEN paid ELSE IF j \in bonus THEN earned[j] ELSE rows[j]]
      /\ posted' = posted \o (IF bonus = {} THEN <<i>> ELSE <<i, CHOOSE j \in bonus : TRUE>>)
      /\ creditBalance' = [creditBalance EXCEPT ![w] = c]
  BY <1>1 DEF CompletePurchase, IsPendingPurchase
<1>3. w \in Wallets /\ b \in Int /\ rows[i].credits \in Nat
  BY <1>1, RowFields DEF BooksInv, TypeOK
<1>4. /\ paid.wallet = w /\ paid.status = "COMPLETED" /\ paid.before = b
      /\ paid.after = b + rows[i].credits /\ paid.after \in Int
  <2> DEFINE r == rows[i]
  <2>1. r \in Row
    BY <1>1
  <2> HIDE DEF r, b
  <2>2. LET q == Completed(r, b)
        IN  /\ q.wallet = r.wallet /\ q.status = "COMPLETED"
            /\ q.before = b /\ q.after = b + r.credits
    BY <1>3, <2>1, CompletedEntry
  <2>3. b + r.credits \in Int
    BY <1>3 DEF r
  <2> QED
    BY <2>2, <2>3 DEF r
<1>5. d[w] = c /\ \A u \in Wallets \ {w} : d[u] = creditBalance[u]
  <2> HIDE DEF c, w, t
  <2> QED
    BY <1>2, <1>3, OtherAccounts
<1> HIDE DEF paid
<1>6. /\ Len(s) = m /\ s[i] = paid /\ \A j \in (1 .. m) \ {i} : s[j] = rows[j]
  <2>1. s = [j \in 1 .. m |-> s[j]] /\ s[i] = paid /\ \A j \in (1 .. m) \ {i} : s[j] = rows[j]
    BY <1>1
  <2> HIDE DEF s, m
  <2> QED
    BY <1>1, <2>1, FunctionIsSequence
<1>7. Len(t) = m
  <2>1. t = [j \in 1 .. m |-> t[j]]
    BY <1>2
  <2> HIDE DEF t, m
  <2> QED
    BY <1>1, <2>1, FunctionIsSequence
<1>8. /\ e[w] = paid.after /\ \A u \in Wallets \ {w} : e[u] = creditBalance[u] /\ d[u] = e[u]
  BY <1>3, <1>5
<1> HIDE DEF s, e, d
<1>9. Chained(s, posted \o <<i>>, e)
  <2>1. rows[i].status # "COMPLETED"
    BY <1>2
  <2>2. /\ s[i].status = "COMPLETED" /\ s[i].wallet \in Wallets
        /\ s[i].before = creditBalance[s[i].wallet] /\ e[s[i].wallet] = s[i].after
        /\ \A u \in Wallets \ {s[i].wallet} : e[u] = creditBalance[u]
    BY <1>3, <1>4, <1>6, <1>8
  <2> HIDE DEF m, w
  <2> QED
    BY <1>1, <1>6, <2>1, <2>2, SettleChains DEF ChainInv, m
<1>10. CASE bonus = {}
  <2>1. others = 0
    <3>1. DOMAIN earned = {}
      BY <1>10
    <3> HIDE DEF earned
    <3>2. others = SumOver([x \in {} |-> earned[x].credits], {})
      BY <3>1, EarnedIs, FS_EmptySet
    <3> QED
      BY <3>2, SumEmpty
  <2>2. t = s
    BY <1>2, <1>10 DEF s
  <2> HIDE DEF others
  <2>3. c = paid.after
    BY <1>3, <1>4, <2>1
  <2>4. \A u \in Wallets : d[u] = e[u]
    BY <1>5, <1>8, <2>3
  <2>5. Settles(s, s, {})
    BY <1>1, <1>6 DEF Settles, SameEntry
  <2>6. Chained(s, posted \o <<i>>, d)
    BY <1>9, <2>4, <2>5, ChainStays
  <2>7. posted' = posted \o <<i>>
    BY <1>2, <1>10
  <2> QED
    BY <2>2, <2>6, <2>7 DEF ChainInv, d
<1>11. CASE bonus # {}
  <2>1. PICK j \in bonus : TRUE
    BY <1>11
  <2>2. /\ j \in 1 .. m /\ j # i /\ rows[j].status = "PENDING" /\ rows[j].wallet = w
    BY <1>1, PendingBonusIs
  <2>3. bonus = {j}
    BY PendingBonusIs
  <2> DEFINE x == rows[j].credits
             q == earned[j]
  <2>4. q = Completed(rows[j], paid.after)
    BY <2>3
  <2>5. rows[j] \in Row /\ x \in Nat
    BY <1>1, <2>2, RowFields
  <2>6. q.credits = x
    BY <2>4, <2>5, CompletedIs
  <2>7. others = x
    <3>1. DOMAIN earned = {j}
      BY <2>3
    <3> HIDE DEF earned, x
    <3> DEFINE v == [y \in {j} |-> earned[y].credits]
    <3>2. others = SumOver(v, {j})
      <4>1. IsFiniteSet({j}) /\ \A y \in {j} : earned[y].credits \in Nat
        BY <2>5, <2>6, FS_Singleton
      <4> QED
        BY <3>1, <4>1, EarnedIs
    <3>3. v[j] = x /\ v[j] \in Int
      BY <2>5, <2>6
    <3> HIDE DEF v
    <3> QED
      BY <3>2, <3>3, SumOfOne
  <2>8. /\ q.wallet = w /\ q.status = "COMPLETED" /\ q.before = paid.after
        /\ q.after = paid.after + x
    <3> DEFINE r == rows[j]
               before == paid.after
    <3>1. r \in Row /\ before \in Int
      BY <1>4, <2>5
    <3> HIDE DEF r, before
    <3>2. LET y == Completed(r, before)
          IN  /\ y.wallet = r.wallet /\ y.status = "COMPLETED"
              /\ y.before = before /\ y.after = before + r.credits
      BY <3>1, CompletedEntry
    <3> QED
      BY <2>2, <2>4, <3>2 DEF r, before
  <2>9. /\ t[j] = q /\ \A k \in (1 .. m) \ {j} : t[k] = s[k]
    BY <1>2, <1>6, <2>2, <2>3
  <2>10. s[j].status # "COMPLETED"
    BY <1>6, <2>2
  <2> HIDE DEF q, t, others, x
  <2>11. c = q.after
    BY <1>3, <1>4, <2>5, <2>7, <2>8
  <2> HIDE DEF c
  <2>12. /\ t[j].status = "COMPLETED" /\ t[j].wallet \in Wallets
         /\ t[j].before = e[t[j].wallet] /\ d[t[j].wallet] = t[j].after
         /\ \A u \in Wallets \ {t[j].wallet} : d[u] = e[u]
    BY <1>3, <1>5, <1>8, <2>8, <2>9, <2>11
  <2> DEFINE p == posted \o <<i>>
  <2>13. Chained(s, p, e)
    BY <1>9
  <2> HIDE DEF p, m
  <2>14. Chained(t, p \o <<j>>, d)
    BY <1>1, <1>6, <1>7, <2>2, <2>9, <2>10, <2>12, <2>13, SettleChains
  <2>15. posted' = posted \o <<i, j>>
    <3>1. (CHOOSE k \in bonus : TRUE) = j
      BY <2>3
    <3> QED
      BY <1>2, <1>11, <3>1
  <2>16. posted \o <<i, j>> = p \o <<j>>
    <3>1. IsSequence(posted)
      BY DEF ChainInv, Chained
    <3> QED
      BY <3>1, TwoPlaces DEF p
  <2> QED
    BY <2>14, <2>15, <2>16 DEF ChainInv, t, d
<1> QED
  BY <1>10, <1>11

LEMMA ChainInit == Init => ChainInv
<1> SUFFICES ASSUME Init PROVE ChainInv
  OBVIOUS
<1>1. /\ rows = <<>> /\ posted = <<>> /\ \A w \in Wallets : creditBalance[w] = 0
      /\ IsSequence(posted) /\ Len(rows) = 0 /\ Len(posted) = 0 /\ 1 .. 0 = {}
  BY EmptySeq DEF Init, IsSequence
<1>2. PostedOnce(rows, posted)
  BY <1>1 DEF PostedOnce
<1>3. \A w : Trail(rows, posted, w) = {}
  BY <1>1 DEF Trail
<1> QED
  BY <1>1, <1>2, <1>3 DEF ChainInv, Chained, LeftAt

LEMMA ChainStep == BooksInv /\ ShapeInv /\ RowsAreLinked /\ ChainInv /\ [Next]_vars => ChainInv'
<1> SUFFICES ASSUME BooksInv, ShapeInv, RowsAreLinked, ChainInv, [Next]_vars
             PROVE  ChainInv'
  OBVIOUS
<1>0. Unopened
  BY DEF ShapeInv
<1>1. ASSUME NEW w \in Wallets, NEW load \in Maybe(Offers), CreateWallet(w, load)
      PROVE  ChainInv'
  BY <1>0, <1>1, CreateWalletChains
<1>2. ASSUME NEW w \in Wallets, NEW offer \in Offers, NEW bonus \in Maybe(Bonuses),
             \/ CreditWallet(w, offer, bonus)
             \/ RequestPurchase(w, offer, bonus)
             \/ RequestCompletedPurchase(w, offer, bonus)
      PROVE  ChainInv'
  BY <1>2, PurchaseChains
<1>3. ASSUME NEW w \in Wallets, NEW amount \in Debits,
             \/ \E ref \in 1 .. MaxTime + 1 : DebitWallet(w, amount, ref)
             \/ ManualBalanceDebit(w, amount)
      PROVE  ChainInv'
  BY <1>3, DebitsChain
<1>4. ASSUME NEW w \in Wallets, TerminateWallet(w)
      PROVE  ChainInv'
  BY <1>4, TerminateChains
<1>5. ASSUME NEW w \in Wallets, NEW v \in Wallets, ConvertToPostpaid(w, v)
      PROVE  ChainInv'
  BY <1>0, <1>5, ConvertChains
<1>6. ASSUME NEW i \in DOMAIN rows, CompletePurchase(i)
      PROVE  ChainInv'
  BY <1>6, CompletePurchaseChains
<1>7. ASSUME NEW i \in DOMAIN rows, FailPurchase(i)
      PROVE  ChainInv'
  BY <1>7, FailPurchaseChains
<1>8. CASE ExpiryRun
  BY <1>8, ExpireChains DEF ExpiryRun
<1>9. CASE Tick \/ UNCHANGED vars
  <2>1. UNCHANGED <<rows, posted, creditBalance>>
    BY <1>9 DEF Tick, vars
  <2> QED
    BY <2>1 DEF ChainInv
<1> QED
  BY <1>1, <1>2, <1>3, <1>4, <1>5, <1>6, <1>7, <1>8, <1>9 DEF Next

(* The audit trail of every wallet is complete and has no gap, whatever     *)
(* operations follow each other: a settled row is posted once, it starts at *)
(* the balance the wallet's previous one left, and the last one left the    *)
(* balance on the wallet (credit_balance_before and credit_balance_after).  *)
THEOREM AuditTrailIsUnbroken == Spec => []AuditTrailChains
<1>1. BooksInv /\ ChainInv => AuditTrailChains
  <2> SUFFICES ASSUME BooksInv, ChainInv PROVE AuditTrailChains
    OBVIOUS
  <2>1. /\ DOMAIN rows = 1 .. Len(rows) /\ DOMAIN posted = 1 .. Len(posted)
        /\ Len(posted) \in Nat
        /\ PostedOnce(rows, posted)
    BY LenProperties DEF BooksInv, TypeOK, ChainInv, Chained
  <2>2. IsInjective(posted)
    BY <2>1 DEF IsInjective, PostedOnce
  <2>3. Range(posted) = {i \in DOMAIN rows : rows[i].status = "COMPLETED"}
    <3>1. \A i \in Range(posted) : i \in DOMAIN rows /\ rows[i].status = "COMPLETED"
      BY <2>1 DEF Range, PostedOnce
    <3>2. ASSUME NEW i \in DOMAIN rows, rows[i].status = "COMPLETED" PROVE i \in Range(posted)
      <4>1. PICK k \in DOMAIN posted : posted[k] = i
        BY <2>1, <3>2 DEF PostedOnce
      <4> QED
        BY <4>1 DEF Range
    <3> QED
      BY <3>1, <3>2
  <2> DEFINE trail(w) == {k \in DOMAIN posted : rows[posted[k]].wallet = w}
             earlier(w, n) == {k \in trail(w) : k < n}
             Left(w, n, credits) ==
                IF earlier(w, n) = {} THEN credits = 0
                ELSE \E last \in earlier(w, n) : /\ \A k \in earlier(w, n) : k <= last
                                                 /\ rows[posted[last]].after = credits
  <2>4. ASSUME NEW w \in Wallets, NEW n, NEW credits, LeftAt(rows, posted, w, n, credits)
        PROVE  Left(w, n, credits)
    <3>1. trail(w) = Trail(rows, posted, w)
      BY <2>1 DEF Trail
    <3> HIDE DEF trail
    <3>2. CASE credits = 0 /\ \A k \in Trail(rows, posted, w) : ~(k < n)
      BY <3>1, <3>2
    <3>3. CASE \E last \in Trail(rows, posted, w) :
                 /\ last < n /\ rows[posted[last]].after = credits
                 /\ \A k \in Trail(rows, posted, w) : k < n => k <= last
      BY <3>1, <3>3
    <3> QED
      BY <2>4, <3>2, <3>3 DEF LeftAt
  <2>5. ASSUME NEW w \in Wallets
        PROVE  /\ \A k \in trail(w) : Left(w, k, rows[posted[k]].before)
               /\ Left(w, Len(posted) + 1, creditBalance[w])
    <3>1. trail(w) = Trail(rows, posted, w)
      BY <2>1 DEF Trail
    <3>2. /\ \A k \in Trail(rows, posted, w) : LeftAt(rows, posted, w, k, rows[posted[k]].before)
          /\ LeftAt(rows, posted, w, Len(posted) + 1, creditBalance[w])
      BY DEF ChainInv, Chained
    <3> HIDE DEF trail, Left
    <3> QED
      BY <2>4, <3>1, <3>2
  <2> QED
    BY <2>2, <2>3, <2>5 DEF AuditTrailChains
<1> QED
  BY <1>1, ChainInit, ChainStep, BooksAlways, ShapeAlways, LinkedAlways, PTL DEF Spec

=============================================================================
