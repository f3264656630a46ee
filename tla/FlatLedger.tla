----------------------------- MODULE FlatLedger -----------------------------
(***************************************************************************)
(* What one flat owes and has paid ahead: App/src/billing and settlement.  *)
(*                                                                         *)
(* A month's bill is generated, published and closed with its billing      *)
(* period; payments settle the flat's published bills oldest month first   *)
(* and what is left becomes advance credit, which a later publish spends;  *)
(* overdue bills are fined once, fines are waived, bills adjusted, opening *)
(* dues entered and corrected, credit refunded.                            *)
(*                                                                         *)
(* Every transaction that moves money locks the flat, then its bills, so   *)
(* each is one step here, but for one: a publish locks only the flats that *)
(* hold credit as it begins, and of any other it reads the credit while    *)
(* payments go on, then spends what it read.  The period's status is read  *)
(* before the transaction that relies on it, so generate, publish, close,  *)
(* delete and adjust are two steps: the check and the write.               *)
(***************************************************************************)
EXTENDS Integers, FiniteSets, Summation

CONSTANTS
    LastMonth,      \* the society's months are 1 .. LastMonth, oldest first
    BillAmounts,    \* what a generated bill may come to
    Amounts,        \* amounts of payments, refunds and opening dues
    Adjustments,    \* one-off amounts an admin may add to a bill
    FeeSettings,    \* late fine settings the society may have
    Admins,         \* concurrent requests that change a billing period
    Ops,            \* which of the optional operations occur
    MaxPayments,    \* bound: payments submitted
    MaxBills,       \* bound: bills ever created
    MaxTotal        \* bound: how far adjustments take a bill's total, up or down

AllOps == {"fine", "waive", "adjust", "opening", "correct", "refund"}
Opening == 0        \* the period of opening dues: older than every month
Months == 1 .. LastMonth
Periods == {Opening} \cup Months

ASSUME MonthsCounted == LastMonth \in Nat
ASSUME AmountsNatural == BillAmounts \subseteq Nat /\ Amounts \subseteq Nat \ {0}
ASSUME AdjustmentsSigned == Adjustments \subseteq Int
ASSUME FeesTyped ==
    FeeSettings \subseteq [type : {"FIXED", "PERCENTAGE"}, value : Nat \ {0}, max : Nat]
ASSUME OpsKnown == Ops \subseteq AllOps
ASSUME BoundsNatural == MaxPayments \in Nat /\ MaxBills \in Nat /\ MaxTotal \in Nat

VARIABLES
    status,     \* billing_periods.status; "NONE" is no such period
    totals,     \* billing_periods: billed, collected and pending
    bill,       \* the flat's bill of each period
    credit,     \* flats.creditBalance
    entries,    \* the sum of the flat's credit entries
    waiting,    \* payments submitted and not decided, by the bill they name
    named,      \* bills some decided payment row names
    received,   \* history: money approved payments brought in
    refunded,   \* history: advance money paid back
    made,       \* bills ever created: the next one's id
    submitted,  \* payments ever submitted
    req         \* what each admin request checked and is about to do

vars == <<status, totals, bill, credit, entries, waiting, named, received,
          refunded, made, submitted, req>>

NoBill == [id |-> 0, total |-> 0, paid |-> 0, pending |-> 0, isPaid |-> FALSE,
           published |-> FALSE, fee |-> 0, fined |-> FALSE]
NewBill(amt) == [NoBill EXCEPT !.id = made + 1, !.total = amt, !.pending = amt]
Bill == [id : Nat, total : Int, paid : Nat, pending : Nat, isPaid : BOOLEAN,
         published : BOOLEAN, fee : Nat, fined : BOOLEAN]

Sums == [billed : Int, collected : Int, pending : Int]
NoSums == [billed |-> 0, collected |-> 0, pending |-> 0]
Statuses == {"NONE", "DRAFT", "CALCULATED", "PUBLISHED", "CLOSED"}
\* A publish that found no credit to lock goes on to "show" the bill, then to
\* "take" what credit it has "seen" by then.
Request == [op : {"idle", "generate", "publish", "show", "take", "close", "delete", "adjust"},
            period : Periods, id : Nat, seen : Nat]
Idle == [op |-> "idle", period |-> Opening, id |-> 0, seen |-> 0]

TypeOK ==
    /\ status \in [Periods -> Statuses]
    /\ totals \in [Periods -> Sums]
    /\ bill \in [Periods -> Bill]
    /\ credit \in Nat
    /\ entries \in Int
    /\ waiting \subseteq [period : Periods, amt : Amounts]
    /\ named \subseteq [period : Periods, live : BOOLEAN]
    /\ received \in Nat /\ refunded \in Nat
    /\ made \in 0 .. MaxBills
    /\ submitted \in 0 .. MaxPayments
    /\ req \in [Admins -> Request]

Init ==
    /\ status = [p \in Periods |-> "NONE"]
    /\ totals = [p \in Periods |-> NoSums]
    /\ bill = [p \in Periods |-> NoBill]
    /\ credit = 0 /\ entries = 0
    /\ waiting = {} /\ named = {}
    /\ received = 0 /\ refunded = 0
    /\ made = 0 /\ submitted = 0
    /\ req = [a \in Admins |-> Idle]

-----------------------------------------------------------------------------
(* Bills.                                                                  *)

Exists(b) == b.id # 0
Smaller(x, y) == IF x < y THEN x ELSE y
NotBelowZero(x) == IF x < 0 THEN 0 ELSE x

\* pendingAmount and isPaid follow from the total and what was paid.
Refigure(b) == [b EXCEPT !.pending = NotBelowZero(b.total - b.paid),
                         !.isPaid = b.total - b.paid <= 0]
PaidMore(b, amt) == Refigure([b EXCEPT !.paid = @ + amt])

OpenBill(b) == Exists(b) /\ b.published /\ ~b.isPaid
Owing(bs) == {p \in Periods : OpenBill(bs[p]) /\ bs[p].pending > 0}
Owed(bs, ps) == SumOver([p \in Owing(bs) \cap ps |-> bs[p].pending])

\* (Variant with a seeded fault: the oldest bill takes all that is left.)
AllocatedWhole(bs, amt, p) ==
    IF p \in Owing(bs) THEN NotBelowZero(amt - Owed(bs, {q \in Periods : q < p})) ELSE 0

\* (Variant with a seeded fault: newest month first.)
AllocatedNewestFirst(bs, amt, p) ==
    IF p \in Owing(bs)
    THEN Smaller(bs[p].pending, NotBelowZero(amt - Owed(bs, {q \in Periods : q > p})))
    ELSE 0

\* planAllocation: what a payment of amt puts on the bill of p, once every
\* older open month has had its share.
Allocated(bs, amt, p) ==
    IF p \in Owing(bs)
    THEN Smaller(bs[p].pending, NotBelowZero(amt - Owed(bs, {q \in Periods : q < p})))
    ELSE 0

\* (Variant with a seeded fault: the totals are written once and never again.)
RefreshedNever(bs, ps) == totals

\* refreshPeriodTotals, of the periods ps.
Refreshed(bs, ps) ==
    [p \in Periods |-> IF p \notin ps THEN totals[p]
                       ELSE [billed |-> bs[p].total, collected |-> bs[p].paid,
                             pending |-> bs[p].pending]]

\* applyCreditToPeriod: the credit "have" pays what it can of the bill of p.
CreditFor(bs, have, p) ==
    IF Exists(bs[p]) /\ ~bs[p].isPaid /\ bs[p].pending > 0
    THEN Smaller(have, bs[p].pending) ELSE 0

PutTo(bs, use, p) == IF use > 0 THEN [bs EXCEPT ![p] = PaidMore(@, use)] ELSE bs

\* (Variant with a seeded fault: the credit put to a bill stays credit.)
SpendAndKeep(bs, have, p) ==
    /\ bill' = PutTo(bs, CreditFor(bs, have, p), p)
    /\ credit' = have

Spend(bs, have, p) ==
    /\ bill' = PutTo(bs, CreditFor(bs, have, p), p)
    /\ credit' = have - CreditFor(bs, have, p)

-----------------------------------------------------------------------------
(* Billing periods: the check of a request, then its write.                *)

MayGenerate(s) == s \in {"DRAFT", "CALCULATED"}
MayPublish(s) == s = "CALCULATED"
MayClose(s) == s = "PUBLISHED"
MayDelete(s) == s \in {"DRAFT", "CALCULATED"}
MayAdjust(s) == s \notin {"CLOSED", "PUBLISHED"}

money == <<credit, entries, received, refunded>>
payments == <<waiting, named, submitted>>

CreatePeriod(m) ==
    /\ status[m] = "NONE"
    /\ status' = [status EXCEPT ![m] = "DRAFT"]
    /\ totals' = [totals EXCEPT ![m] = NoSums]
    /\ UNCHANGED <<bill, money, payments, made, req>>

Check(a, m) ==
    /\ req[a] = Idle
    /\ status[m] # "NONE"
    /\ \E op \in {"generate", "publish", "close", "delete", "adjust"} :
          /\ CASE op = "generate" -> MayGenerate(status[m])
               [] op = "publish" -> MayPublish(status[m])
               [] op = "close" -> MayClose(status[m])
               [] op = "delete" -> MayDelete(status[m]) /\ ~Exists(bill[m])
               [] OTHER -> MayAdjust(status[m]) /\ Exists(bill[m]) /\ "adjust" \in Ops
          /\ req' = [req EXCEPT ![a] = [op |-> op, period |-> m, id |-> bill[m].id, seen |-> 0]]
    /\ UNCHANGED <<status, totals, bill, money, payments, made>>

Working(a, op, m) == req[a].op = op /\ req[a].period = m
Finish(a) == req' = [req EXCEPT ![a] = Idle]

\* A publish that has not committed holds the row of the bill it showed.
BillHeld(p) == \E a \in Admins : req[a].op = "take" /\ req[a].period = p

NamedBill(m) == \/ \E w \in waiting : w.period = m
                \/ \E n \in named : n.period = m

\* Every bill of the period is deleted and made again; the database refuses
\* when a payment row names one.
GenerateBills(a, m) ==
    /\ Working(a, "generate", m)
    /\ status[m] # "NONE"
    /\ ~NamedBill(m) /\ ~BillHeld(m)
    /\ made < MaxBills
    /\ \E amt \in BillAmounts :
          /\ bill' = [bill EXCEPT ![m] = NewBill(amt)]
          /\ totals' = [totals EXCEPT ![m] =
                           [billed |-> amt, collected |-> 0, pending |-> amt]]
    /\ made' = made + 1
    /\ status' = [status EXCEPT ![m] = "CALCULATED"]
    /\ Finish(a)
    /\ UNCHANGED <<money, payments>>

AsShown(m) == IF Exists(bill[m]) THEN [bill EXCEPT ![m].published = TRUE] ELSE bill

\* (Variant with a seeded fault: the credit is not put to the bill.)
PublishOnly(a, m) ==
    /\ Working(a, "publish", m)
    /\ status[m] # "NONE"
    /\ credit > 0 /\ ~BillHeld(m)
    /\ bill' = AsShown(m)
    /\ status' = [status EXCEPT ![m] = "PUBLISHED"]
    /\ Finish(a)
    /\ UNCHANGED <<totals, money, payments, made>>

\* A flat that holds credit is locked first: its bill becomes visible and the
\* credit is put to it in one step.
PublishPeriod(a, m) ==
    /\ Working(a, "publish", m)
    /\ status[m] # "NONE"
    /\ credit > 0 /\ ~BillHeld(m)
    /\ LET use == CreditFor(AsShown(m), credit, m)
       IN  /\ Spend(AsShown(m), credit, m)
           /\ entries' = entries - use
           /\ totals' = IF use > 0 THEN Refreshed(bill', {m}) ELSE totals
    /\ status' = [status EXCEPT ![m] = "PUBLISHED"]
    /\ Finish(a)
    /\ UNCHANGED <<received, refunded, payments, made>>

\* A flat without credit is not locked: payments, refunds and the like go on.
PublishUnlocked(a, m) ==
    /\ Working(a, "publish", m)
    /\ credit = 0
    /\ req' = [req EXCEPT ![a].op = "show"]
    /\ UNCHANGED <<status, totals, bill, money, payments, made>>

\* The bill is shown, to this transaction only, and what credit has come
\* meanwhile is read.
ReadCredit(a, m) ==
    /\ Working(a, "show", m)
    /\ ~BillHeld(m)
    /\ req' = [req EXCEPT ![a].op = "take", ![a].seen = credit]
    /\ UNCHANGED <<status, totals, bill, money, payments, made>>

\* The credit that was read is put to the bill and taken off what the flat
\* holds by now; the database refuses a credit below zero.
TakeCredit(a, m) ==
    /\ Working(a, "take", m)
    /\ status[m] # "NONE"
    /\ LET use == CreditFor(AsShown(m), req[a].seen, m)
       IN  /\ use <= credit
           /\ bill' = PutTo(AsShown(m), use, m)
           /\ credit' = credit - use
           /\ entries' = entries - use
           /\ totals' = IF use > 0 THEN Refreshed(bill', {m}) ELSE totals
    /\ status' = [status EXCEPT ![m] = "PUBLISHED"]
    /\ Finish(a)
    /\ UNCHANGED <<received, refunded, payments, made>>

ClosePeriod(a, m) ==
    /\ Working(a, "close", m)
    /\ status[m] # "NONE"
    /\ status' = [status EXCEPT ![m] = "CLOSED"]
    /\ Finish(a)
    /\ UNCHANGED <<totals, bill, money, payments, made>>

\* The foreign key of a bill made meanwhile refuses the delete.
DeletePeriod(a, m) ==
    /\ Working(a, "delete", m)
    /\ status[m] # "NONE"
    /\ ~Exists(bill[m])
    /\ status' = [status EXCEPT ![m] = "NONE"]
    /\ Finish(a)
    /\ UNCHANGED <<totals, bill, money, payments, made>>

\* The bill is found by its id: a regenerated one is another bill.
AdjustBill(a, m) ==
    /\ Working(a, "adjust", m)
    /\ bill[m].id = req[a].id /\ ~BillHeld(m)
    /\ \E x \in Adjustments :
          /\ bill[m].total + x \in -MaxTotal .. MaxTotal
          /\ bill' = [bill EXCEPT ![m] = Refigure([@ EXCEPT !.total = bill[m].total + x])]
    /\ Finish(a)
    /\ UNCHANGED <<status, totals, money, payments, made>>

\* The write is refused by the database, or the server died.
RequestFails(a) ==
    /\ req[a] # Idle
    /\ Finish(a)
    /\ UNCHANGED <<status, totals, bill, money, payments, made>>

-----------------------------------------------------------------------------
(* Payments.                                                               *)

\* Any bill of the flat may be named; what the flat owes, and twelve times the
\* bill, bound the amount.
Submit(p, amt) ==
    /\ submitted < MaxPayments
    /\ Exists(bill[p])
    /\ amt <= Owed(bill, Periods) + 12 * bill[p].total
    /\ [period |-> p, amt |-> amt] \notin waiting
    /\ waiting' = waiting \cup {[period |-> p, amt |-> amt]}
    /\ submitted' = submitted + 1
    /\ UNCHANGED <<status, totals, bill, money, named, made, req>>

\* settleOldestFirst, as the payment is approved.
Approve(w) ==
    /\ w \in waiting
    /\ LET owing == Owing(bill)
           share == [p \in Periods |-> Allocated(bill, w.amt, p)]
           excess == NotBelowZero(w.amt - Owed(bill, Periods))
           settled == {p \in owing : share[p] > 0}
       IN  /\ \A p \in owing : ~BillHeld(p)
           /\ bill' = [p \in Periods |-> IF p \in settled THEN PaidMore(bill[p], share[p])
                                         ELSE bill[p]]
           /\ totals' = Refreshed(bill', settled)
           /\ credit' = credit + excess
           /\ entries' = entries + excess
    /\ received' = received + w.amt
    /\ waiting' = waiting \ {w}
    /\ named' = named \cup {[period |-> w.period, live |-> TRUE]}
    /\ UNCHANGED <<status, refunded, made, submitted, req>>

Reject(w) ==
    /\ w \in waiting
    /\ waiting' = waiting \ {w}
    /\ named' = named \cup {[period |-> w.period, live |-> FALSE]}
    /\ UNCHANGED <<status, totals, bill, money, made, submitted, req>>

-----------------------------------------------------------------------------
(* Fines, opening dues, refunds.                                           *)

\* lateFeeAmount, in whole paise: half a paisa rounds up, and a maximum of 0 is
\* none.
LateFee(s, unpaid) ==
    LET fee == IF s.type = "FIXED" THEN s.value ELSE (unpaid * s.value + 50) \div 100
    IN  IF unpaid <= 0 THEN 0
        ELSE IF s.max > 0 THEN Smaller(fee, s.max) ELSE fee

\* (Variant with a seeded fault: the stamp is not looked at.)
FineAgain(p) ==
    /\ "fine" \in Ops /\ ~BillHeld(p)
    /\ OpenBill(bill[p]) /\ bill[p].pending > 0 /\ bill[p].fee < 3
    /\ \E s \in FeeSettings :
          LET fee == LateFee(s, bill[p].pending)
          IN  /\ bill' = [bill EXCEPT ![p].fined = TRUE, ![p].fee = @ + fee,
                             ![p].total = @ + fee, ![p].pending = @ + fee]
              /\ totals' = IF fee > 0 THEN Refreshed(bill', {p}) ELSE totals
    /\ UNCHANGED <<status, money, payments, made, req>>

\* One bill of the hourly pass.  The claim stamps the bill even when the fine
\* comes to nothing; the due date is abstracted to any moment after publishing.
Fine(p) ==
    /\ "fine" \in Ops /\ ~BillHeld(p)
    /\ OpenBill(bill[p]) /\ bill[p].pending > 0 /\ ~bill[p].fined
    /\ \E s \in FeeSettings :
          LET fee == LateFee(s, bill[p].pending)
          IN  /\ bill' = [bill EXCEPT ![p].fined = TRUE, ![p].fee = @ + fee,
                             ![p].total = @ + fee, ![p].pending = @ + fee]
              /\ totals' = IF fee > 0 THEN Refreshed(bill', {p}) ELSE totals
    /\ UNCHANGED <<status, money, payments, made, req>>

Waive(p) ==
    /\ "waive" \in Ops /\ ~BillHeld(p)
    /\ status[p] # "CLOSED"
    /\ bill[p].fee > 0
    /\ bill' = [bill EXCEPT ![p] = Refigure([@ EXCEPT !.total = bill[p].total - bill[p].fee,
                                                      !.fee = 0, !.fined = TRUE])]
    /\ totals' = Refreshed(bill', {p})
    /\ UNCHANGED <<status, money, payments, made, req>>

\* An opening due is locked once money or an undecided payment is against it.
Locked == \/ bill[Opening].paid > 0
          \/ \E w \in waiting : w.period = Opening
          \/ [period |-> Opening, live |-> TRUE] \in named

\* save, of one row: the flat's opening due is entered or changed, and an
\* advance the flat holds goes against it.
SaveOpening(amt) ==
    /\ "opening" \in Ops
    /\ IF Exists(bill[Opening])
       THEN /\ ~Locked
            /\ made' = made
       ELSE /\ made < MaxBills
            /\ made' = made + 1
    /\ LET entered == IF Exists(bill[Opening])
                      THEN [bill EXCEPT ![Opening].total = amt, ![Opening].pending = amt]
                      ELSE [bill EXCEPT ![Opening] = [NewBill(amt) EXCEPT
                               !.published = TRUE, !.fined = TRUE]]
       IN  /\ Spend(entered, credit, Opening)
           /\ entries' = entries - CreditFor(entered, credit, Opening)
    /\ totals' = Refreshed(bill', {Opening})
    /\ status' = [status EXCEPT ![Opening] = "PUBLISHED"]
    /\ UNCHANGED <<received, refunded, payments, req>>

\* save, of a row with amount 0; a rejected payment's row still holds the bill.
RemoveOpening ==
    /\ "opening" \in Ops
    /\ Exists(bill[Opening])
    /\ ~NamedBill(Opening) /\ ~Locked
    /\ bill' = [bill EXCEPT ![Opening] = NoBill]
    /\ totals' = Refreshed(bill', {Opening})
    /\ UNCHANGED <<status, money, payments, made, req>>

\* correct: what was paid beyond the new amount becomes advance, and an advance
\* goes against what the new amount leaves owing.
CorrectOpening(amt) ==
    /\ "correct" \in Ops
    /\ Exists(bill[Opening])
    /\ bill[Opening].total # amt
    /\ LET paid == Smaller(bill[Opening].paid, amt)
           excess == bill[Opening].paid - paid
           fixed == [bill EXCEPT ![Opening] = Refigure([@ EXCEPT !.total = amt,
                                                                 !.paid = paid])]
       IN  /\ Spend(fixed, credit + excess, Opening)
           /\ entries' = entries + excess - CreditFor(fixed, credit + excess, Opening)
    /\ totals' = Refreshed(bill', {Opening})
    /\ UNCHANGED <<status, received, refunded, payments, made, req>>

\* (Variant with a seeded fault: more than the flat holds goes back.)
RefundAnything(amt) ==
    /\ "refund" \in Ops
    /\ credit > 0
    /\ credit' = credit - amt
    /\ entries' = entries - amt
    /\ refunded' = refunded + amt
    /\ UNCHANGED <<status, totals, bill, received, payments, made, req>>

\* Never more than the flat holds in advance; the account it is paid from is in
\* LedgerLocks.
Refund(amt) ==
    /\ "refund" \in Ops
    /\ amt <= credit
    /\ credit' = credit - amt
    /\ entries' = entries - amt
    /\ refunded' = refunded + amt
    /\ UNCHANGED <<status, totals, bill, received, payments, made, req>>

-----------------------------------------------------------------------------
PeriodStep(a, m) ==
    \/ Check(a, m) \/ GenerateBills(a, m) \/ PublishPeriod(a, m)
    \/ PublishUnlocked(a, m) \/ ReadCredit(a, m) \/ TakeCredit(a, m)
    \/ ClosePeriod(a, m) \/ DeletePeriod(a, m) \/ AdjustBill(a, m)

Next ==
    \/ \E m \in Months : CreatePeriod(m)
    \/ \E a \in Admins : RequestFails(a) \/ \E m \in Months : PeriodStep(a, m)
    \/ \E p \in Periods : Fine(p) \/ Waive(p)
    \/ \E p \in Periods, amt \in Amounts : Submit(p, amt)
    \/ \E w \in waiting : Approve(w) \/ Reject(w)
    \/ \E amt \in Amounts : SaveOpening(amt) \/ CorrectOpening(amt) \/ Refund(amt)
    \/ RemoveOpening

Spec == Init /\ [][Next]_vars

-----------------------------------------------------------------------------
(* What the ledger promises.                                               *)

\* Every rupee an approved payment brought in is on a bill of the flat, in its
\* advance credit, or was refunded, and the credit is the sum of its entries:
\* no order of payments, publishing, corrections and refunds loses or doubles
\* money.
MoneyKept ==
    /\ received = SumOver([p \in Periods |-> bill[p].paid]) + credit + refunded
    /\ entries = credit

\* Money taken beyond a bill's total becomes credit; only a fine waived after it
\* was paid leaves some on the bill.
OverpaidOnlyByWaiver ==
    \A p \in Periods : bill[p].paid > NotBelowZero(bill[p].total)
        => bill[p].fined /\ bill[p].fee = 0

\* What the period's page says was collected is what its bills were paid, whichever
\* operation paid or unpaid them ("so 'Collected' stayed at zero however much was
\* paid").  What it says was billed is not that of an adjusted bill: adjustBill does
\* not refresh the totals.
CollectedMatches ==
    \A p \in Periods : Exists(bill[p]) => totals[p].collected = bill[p].paid

\* An approved payment reaches a bill only once every older month is clear,
\* whichever bill the payer named.
OldestFirst ==
    [][\A p, q \in Periods :
          received' > received /\ bill'[p].paid > bill[p].paid /\ q < p
              => q \notin Owing(bill')]_vars

\* No payment leaves the flat ahead while a published bill of it is open, and no
\* publish leaves it holding credit beside the open bill it published, but for
\* credit that came after the publish read a flat it had not locked: of what it
\* read, nothing is left.  (A corrected opening due leaves credit beside an open
\* bill too: what it frees waits for the next publish.)
CreditPutToWork ==
    [][/\ received' > received /\ credit' > credit => Owing(bill') = {}
       /\ \A p \in Months : bill'[p].published /\ ~bill[p].published
             => \/ credit' = 0 \/ bill'[p].pending = 0
                \/ \E a \in Admins : /\ Working(a, "take", p)
                                     /\ credit' = credit - req[a].seen]_vars

\* A bill that was fined, or whose fine was waived, is never fined again ("The bill
\* is still counted as fined, so it is not fined again").
FinedOnce ==
    [][\A p \in Periods : bill[p].fined /\ bill'[p].id = bill[p].id
          => bill'[p].fined /\ bill'[p].fee <= bill[p].fee]_vars

\* A bill residents have seen is never deleted ("Delete existing draft bills
\* for this period"), as long as one request at a time changes the periods.
PublishedStays ==
    [][\A m \in Months : bill[m].published => bill'[m].id = bill[m].id]_vars
=============================================================================
