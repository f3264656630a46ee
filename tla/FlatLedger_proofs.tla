------------------------- MODULE FlatLedger_proofs -------------------------
(***************************************************************************)
(* What FlatLedger promises for every number of months, bills, payments    *)
(* and admins, and every fine setting.                                     *)
(***************************************************************************)
EXTENDS FlatLedger, Summation_proofs

\* What a bill of period p is once n bills were made: none, or one whose pending amount is what its
\* total leaves unpaid; an opening due is never fined and comes to something.
Figures(b) == /\ b.pending = NotBelowZero(b.total - b.paid)
              /\ b.isPaid => b.total <= b.paid
BillFits(b, n, p) ==
    /\ Exists(b) \/ b = NoBill
    /\ b.id <= n
    /\ Figures(b)
    /\ p = Opening /\ Exists(b) => b.total > 0 /\ b.fined /\ b.fee = 0
BillsFit == \A p \in Periods : BillFits(bill[p], made, p)

\* A month's bill has not been shown, and nothing was paid on it, unless its period is published or
\* closed.
Shown(s) == s \in {"PUBLISHED", "CLOSED"}
Hidden(b) == ~b.published /\ b.paid = 0
Unseen == \A m \in Months : ~Shown(status[m]) => Hidden(bill[m])

\* An adjustment names a bill there was.
BillNamed == \A a \in Admins : req[a].op = "adjust" => req[a].id # 0

IInv == TypeOK /\ BillsFit /\ Unseen /\ BillNamed /\ CollectedMatches

-----------------------------------------------------------------------------
(* Facts about single definitions.                                         *)

LEMMA PeriodsKnown ==
    /\ Opening \in Periods /\ Months \subseteq Periods /\ Opening \notin Months
    /\ Periods = 0 .. LastMonth /\ IsFiniteSet(Periods)
  <1>1. Periods = 0 .. LastMonth
    BY MonthsCounted DEF Periods, Months, Opening
  <1>3. Opening \in Periods /\ Months \subseteq Periods /\ Opening \notin Months
    BY MonthsCounted DEF Periods, Months, Opening
  <1>2. IsFiniteSet(0 .. LastMonth)
    BY MonthsCounted, FS_Interval
  <1> QED
    BY <1>1, <1>2, <1>3

\* y is the bill x with other amounts.
SameBill(x, y) == y.id = x.id /\ y.published = x.published
SameFee(x, y) == y.fee = x.fee /\ y.fined = x.fined

LEMMA Refigured ==
    ASSUME NEW b \in Bill
    PROVE  /\ Refigure(b) \in Bill /\ Figures(Refigure(b))
           /\ SameBill(b, Refigure(b)) /\ SameFee(b, Refigure(b))
           /\ Refigure(b).total = b.total /\ Refigure(b).paid = b.paid
  <1> DEFINE left == b.total - b.paid
             y == [b EXCEPT !.pending = NotBelowZero(left), !.isPaid = left <= 0]
  <1>1. b.total \in Int /\ b.paid \in Nat /\ left \in Int
    BY DEF Bill
  <1>2. NotBelowZero(left) \in Nat
    BY <1>1 DEF NotBelowZero
  <1>3. /\ y \in Bill /\ y.pending = NotBelowZero(left) /\ (y.isPaid => left <= 0)
        /\ SameBill(b, y) /\ SameFee(b, y) /\ y.total = b.total /\ y.paid = b.paid
    <2> DEFINE none == left <= 0
               rest == NotBelowZero(left)
    <2>1. none \in BOOLEAN /\ rest \in Nat
      BY <1>2
    <2> HIDE DEF left, none, rest
    <2>2. /\ [b EXCEPT !.pending = rest, !.isPaid = none] \in Bill
          /\ SameBill(b, [b EXCEPT !.pending = rest, !.isPaid = none])
          /\ SameFee(b, [b EXCEPT !.pending = rest, !.isPaid = none])
          /\ [b EXCEPT !.pending = rest, !.isPaid = none].total = b.total
          /\ [b EXCEPT !.pending = rest, !.isPaid = none].paid = b.paid
          /\ [b EXCEPT !.pending = rest, !.isPaid = none].pending = rest
          /\ [b EXCEPT !.pending = rest, !.isPaid = none].isPaid = none
      BY <2>1 DEF Bill, SameBill, SameFee
    <2> QED
      BY <2>2 DEF none, rest
  <1>4. Refigure(b) = y
    BY DEF Refigure
  <1>5. left <= 0 => b.total <= b.paid
    BY <1>1
  <1> HIDE DEF y
  <1> QED
    BY <1>3, <1>4, <1>5 DEF Figures

\* y is the bill x, with amt more paid on it.
Pays(x, y, amt) == /\ y \in Bill /\ SameBill(x, y) /\ SameFee(x, y) /\ y.total = x.total
                   /\ y.paid = x.paid + amt /\ Figures(y)

LEMMA PaidMoreFits ==
    ASSUME NEW b \in Bill, NEW amt \in Nat
    PROVE  Pays(b, PaidMore(b, amt), amt)
  <1> DEFINE x == [b EXCEPT !.paid = @ + amt]
  <1>1. b.paid \in Nat /\ b.paid + amt \in Nat
    BY DEF Bill
  <1>2. /\ x \in Bill /\ SameBill(b, x) /\ SameFee(b, x) /\ x.total = b.total /\ x.paid = b.paid + amt
    BY <1>1 DEF Bill, SameBill, SameFee
  <1>3. PaidMore(b, amt) = Refigure(x)
    BY DEF PaidMore
  <1> HIDE DEF x
  <1> QED
    BY <1>2, <1>3, Refigured DEF Pays, SameBill, SameFee

LEMMA NewBillFits ==
    ASSUME made \in Nat, NEW amt \in Nat, NEW p, NEW n \in Nat, n = made + 1
    PROVE  /\ NewBill(amt) \in Bill /\ NewBill(amt).id = n /\ NewBill(amt).paid = 0
           /\ NewBill(amt).total = amt /\ NewBill(amt).pending = amt /\ ~NewBill(amt).published
           /\ ~NewBill(amt).isPaid /\ NewBill(amt).fee = 0
           /\ Figures(NewBill(amt)) /\ Exists(NewBill(amt))
  <1> DEFINE b == NewBill(amt)
  <1>1. /\ b.id = n /\ b.paid = 0 /\ b.total = amt /\ b.pending = amt /\ b.published = FALSE
        /\ b.isPaid = FALSE /\ b.fee = 0 /\ b \in Bill
    <2>1. b = [id |-> n, total |-> amt, paid |-> 0, pending |-> amt, isPaid |-> FALSE,
               published |-> FALSE, fee |-> 0, fined |-> FALSE]
      <3>1. b = [NoBill EXCEPT !.id = n, !.total = amt, !.pending = amt]
        BY DEF NewBill
      <3> HIDE DEF b
      <3> QED
        BY <3>1 DEF NoBill
    <2> HIDE DEF b
    <2>2. b \in Bill
      BY <2>1 DEF Bill
    <2> QED
      BY <2>1, <2>2
  <1> HIDE DEF b
  <1>2. Figures(b) /\ Exists(b)
    BY <1>1 DEF Figures, NotBelowZero, Exists
  <1> QED
    BY <1>1, <1>2 DEF b

LEMMA NoBillFits == ASSUME NEW p, NEW n \in Nat PROVE NoBill \in Bill /\ BillFits(NoBill, n, p) /\ ~Exists(NoBill)
  BY DEF NoBill, Bill, Figures, NotBelowZero, Exists, BillFits

LEMMA RefreshedTyped ==
    ASSUME totals \in [Periods -> Sums], NEW bs \in [Periods -> Bill], NEW ps
    PROVE  /\ Refreshed(bs, ps) \in [Periods -> Sums]
           /\ \A p \in Periods : Refreshed(bs, ps)[p].collected = IF p \in ps THEN bs[p].paid
                                                                  ELSE totals[p].collected
  <1>1. \A p \in Periods : bs[p].total \in Int /\ bs[p].paid \in Int /\ bs[p].pending \in Int
    BY DEF Bill
  <1> QED
    BY <1>1 DEF Refreshed, Sums

\* What the advance pays of a bill, and what it leaves.
Spent(x, y, use, have) == /\ use \in Nat /\ use <= have /\ Pays(x, y, use)
                          /\ use > 0 => Exists(x) /\ use <= x.pending
                          /\ y.published => have - use = 0 \/ y.pending = 0 

LEMMA Spending ==
    ASSUME NEW bs \in [Periods -> Bill], NEW p \in Periods, Figures(bs[p]), NEW have \in Nat,
           Exists(bs[p]) \/ bs[p] = NoBill, bill' = PutTo(bs, CreditFor(bs, have, p), p)
    PROVE  \E y \in Bill, use \in Nat :
               /\ bill' = [bs EXCEPT ![p] = y]
               /\ use = CreditFor(bs, have, p) /\ Spent(bs[p], y, use, have)
               /\ use = 0 => y = bs[p]
  <1> DEFINE x == bs[p]
             use == CreditFor(bs, have, p)
             y == IF use > 0 THEN PaidMore(x, use) ELSE x
  <1>1. x \in Bill /\ x.pending \in Nat /\ x.total \in Int /\ x.paid \in Nat
    BY DEF Bill
  <1>2. use \in Nat /\ use <= have /\ (use > 0 => Exists(x) /\ use <= x.pending)
    BY <1>1 DEF CreditFor, Smaller
  <1>3. Pays(x, y, use)
    <2>1. CASE use > 0
      BY <1>1, <1>2, <2>1, PaidMoreFits
    <2>2. CASE use = 0
      BY <1>1, <2>2 DEF Pays, SameBill, SameFee
    <2> QED
      BY <1>2, <2>1, <2>2
  <1>4. have - use = 0 \/ y.pending = 0
    <2>1. CASE Exists(x) /\ ~x.isPaid /\ x.pending > 0
      <3>1. use = Smaller(have, x.pending)
        BY <2>1 DEF CreditFor
      <3>2. y.pending = NotBelowZero(x.total - (x.paid + use)) /\ x.pending = NotBelowZero(x.total - x.paid)
        BY <1>3 DEF Pays, Figures
      <3> HIDE DEF use, y, x
      <3> QED
        BY <1>1, <3>1, <3>2 DEF Smaller, NotBelowZero
    <2>2. CASE ~(Exists(x) /\ ~x.isPaid /\ x.pending > 0)
      <3>1. use = 0 /\ y = x
        BY <2>2 DEF CreditFor
      <3>2. x.pending = 0
        <4>1. ~Exists(x) => x.pending = 0
          BY DEF NoBill
        <4>2. x.isPaid => x.pending = 0
          <5>1. Figures(x)
            OBVIOUS
          <5> HIDE DEF x
          <5> QED
            BY <1>1, <5>1 DEF Figures, NotBelowZero
        <4> QED
          BY <1>1, <2>2, <4>1, <4>2
      <3> QED
        BY <3>1, <3>2
    <2> QED
      BY <2>1, <2>2
  <1>5. bill' = [bs EXCEPT ![p] = y]
    BY DEF PutTo
  <1>6. y \in Bill /\ (use = 0 => y = x)
    BY <1>3 DEF Pays
  <1>7. Spent(x, y, use, have)
    BY <1>2, <1>3, <1>4 DEF Spent
  <1>8. use = CreditFor(bs, have, p)
    OBVIOUS
  <1> HIDE DEF y, use
  <1> QED
    BY <1>2, <1>5, <1>6, <1>7, <1>8

-----------------------------------------------------------------------------
(* planAllocation: how a payment is shared out.                            *)

Below(n) == {q \in Periods : q < n}
Due(bs) == [p \in Periods |-> bs[p].pending]
Share(bs, amt) == [p \in Periods |-> Allocated(bs, amt, p)]

LEMMA OwedPart == ASSUME NEW bs, NEW ps PROVE Owed(bs, ps) = Part(Due(bs), Owing(bs) \cap ps)
  <1>1. Owing(bs) \subseteq Periods
    BY DEF Owing
  <1>2. [p \in Owing(bs) \cap ps |-> bs[p].pending] = [p \in Owing(bs) \cap ps |-> Due(bs)[p]]
    BY <1>1 DEF Due
  <1> QED
    BY <1>2 DEF Owed, Part

\* What is owed of months up to one includes what is owed of those before it and of itself.
LEMMA OwedGrows ==
    ASSUME NEW bs \in [Periods -> Bill], NEW ps
    PROVE  /\ Owed(bs, ps) \in Nat
           /\ \A q \in Owing(bs) \cap ps : \A rs \in SUBSET (ps \ {q}) :
                 Owed(bs, rs) + bs[q].pending <= Owed(bs, ps)
  <1> DEFINE D == Due(bs)
             O == Owing(bs)
  <1>1. \A p \in Periods : bs[p].pending \in Nat
    BY DEF Bill
  <1>2. D \in [Periods -> Nat] /\ D \in [Periods -> Int] /\ \A p \in Periods : D[p] = bs[p].pending
    BY <1>1 DEF Due
  <1>3. O \subseteq Periods
    BY DEF Owing
  <1>4. Owed(bs, ps) = Part(D, O \cap ps)
    BY OwedPart
  <1> HIDE DEF D, O
  <1>5. Part(D, O \cap ps) \in Nat
    BY <1>2, <1>3, PeriodsKnown, PartsGrow
  <1>6. ASSUME NEW q \in O \cap ps, NEW rs \in SUBSET (ps \ {q})
        PROVE  Owed(bs, rs) + bs[q].pending <= Part(D, O \cap ps)
    <2> DEFINE U == O \cap ps
               T == O \cap rs
    <2>1. Owed(bs, rs) = Part(D, T)
      BY OwedPart DEF D, O
    <2>2. q \in U /\ U \subseteq Periods /\ T \subseteq U \ {q} /\ U \ {q} \subseteq Periods
      BY <1>3
    <2> HIDE DEF U, T
    <2>3. Part(D, U) = D[q] + Part(D, U \ {q})
      <3>1. U \in SUBSET Periods /\ q \in U
        BY <2>2
      <3>2. Takes(D, U, q)
        BY <1>2, <3>1, PeriodsKnown, PartTakes
      <3> QED
        BY <3>2 DEF Takes
    <2>4. Part(D, T) <= Part(D, U \ {q}) /\ Part(D, U \ {q}) \in Nat /\ Part(D, T) \in Nat
      BY <1>2, <2>2, PeriodsKnown, PartsGrow
    <2>5. D[q] = bs[q].pending /\ D[q] \in Nat
      BY <1>2, <2>2
    <2>6. Part(D, T) + D[q] <= Part(D, U)
      BY <2>3, <2>4, <2>5
    <2> QED
      BY <2>1, <2>5, <2>6 DEF U
  <1> QED
    BY <1>4, <1>5, <1>6 DEF O

\* A share is what its bill can take, of what older months left.
LEMMA ShareTyped ==
    ASSUME NEW bs \in [Periods -> Bill], NEW amt \in Nat, NEW p \in Periods
    PROVE  /\ Share(bs, amt)[p] = Allocated(bs, amt, p)
           /\ Allocated(bs, amt, p) \in Nat /\ Allocated(bs, amt, p) <= bs[p].pending
           /\ p \notin Owing(bs) => Allocated(bs, amt, p) = 0
  <1>1. bs[p].pending \in Nat
    BY DEF Bill
  <1>2. Owed(bs, {q \in Periods : q < p}) \in Nat
    BY OwedGrows
  <1> QED
    BY <1>1, <1>2 DEF Share, Allocated, Smaller, NotBelowZero

\* An open bill gets less than it lacks only when the payment ends with it or before it.
LEMMA FilledBefore ==
    ASSUME NEW bs \in [Periods -> Bill], NEW amt \in Nat, NEW q \in Owing(bs), NEW ps,
           q \in ps, Below(q) \subseteq ps, Owed(bs, ps) < amt
    PROVE  Allocated(bs, amt, q) = bs[q].pending
  <1>1. q \in Periods /\ q \notin Below(q)
    BY PeriodsKnown DEF Owing, Below
  <1>2. bs[q].pending \in Nat
    BY <1>1 DEF Bill
  <1>3. Owed(bs, Below(q)) + bs[q].pending <= Owed(bs, ps)
    BY <1>1, OwedGrows
  <1>4. Owed(bs, Below(q)) \in Nat /\ Owed(bs, ps) \in Nat
    BY OwedGrows
  <1>5. Allocated(bs, amt, q) = Smaller(bs[q].pending, NotBelowZero(amt - Owed(bs, Below(q))))
    BY DEF Allocated, Below
  <1> QED
    BY <1>2, <1>3, <1>4, <1>5 DEF Smaller, NotBelowZero

\* Shared out up to a month is the payment, or what is owed up to it if that is less.
LEMMA SharedOut ==
    ASSUME NEW bs \in [Periods -> Bill], NEW amt \in Nat
    PROVE  SumOver(Share(bs, amt)) = Smaller(amt, Owed(bs, Periods))
  <1> DEFINE S == Share(bs, amt)
             Out(n) == Part(S, Below(n))
             Lacking(n) == Owed(bs, Below(n))
             N == {n \in Nat : Out(n) = Smaller(amt, Lacking(n))}
  <1>1. /\ S \in [Periods -> Nat] /\ S \in [Periods -> Int]
        /\ \A p \in Periods : S[p] = Allocated(bs, amt, p)
    BY ShareTyped DEF Share
  <1>2. \A n : Below(n) \subseteq Periods
    BY DEF Below
  <1>3. ASSUME NEW n \in Nat PROVE Out(n) \in Nat /\ Lacking(n) \in Nat
    <2>1. Below(n) \in SUBSET Periods
      BY <1>2
    <2> HIDE DEF S
    <2> QED
      BY <1>1, <2>1, PeriodsKnown, PartsGrow, OwedGrows
  <1>4. 0 \in N
    <2>1. Below(0) = {}
      BY PeriodsKnown DEF Below
    <2>2. Part(S, {}) = 0
      <3> HIDE DEF S
      <3> QED
        BY <1>1, PeriodsKnown, PartsAdd
    <2>3. Lacking(0) = 0
      <3> DEFINE e == [p \in Owing(bs) \cap {} |-> bs[p].pending]
      <3>1. DOMAIN e = {}
        OBVIOUS
      <3>2. SumOver(e) = 0
        <4> HIDE DEF e
        <4> QED
          BY <3>1, SumEmpty
      <3> QED
        BY <2>1, <3>2 DEF Owed
    <2> QED
      BY <2>1, <2>2, <2>3 DEF Smaller
  <1>5. ASSUME NEW n \in Nat, n \in N PROVE n + 1 \in N
    <2>1. Out(n) = Smaller(amt, Lacking(n)) /\ Out(n) \in Nat /\ Lacking(n) \in Nat
      BY <1>3, <1>5
    <2>2. CASE n \notin Periods
      <3>1. Below(n + 1) = Below(n)
        BY <2>2, PeriodsKnown, MonthsCounted DEF Below
      <3> QED
        BY <2>1, <3>1
    <2>3. CASE n \in Periods
      <3>1. n \in Below(n + 1) /\ Below(n + 1) \ {n} = Below(n)
        BY <2>3, PeriodsKnown, MonthsCounted DEF Below
      <3>2. Out(n + 1) = S[n] + Out(n)
        <4>1. Below(n + 1) \in SUBSET Periods
          BY <1>2
        <4> HIDE DEF S
        <4>2. Takes(S, Below(n + 1), n)
          BY <1>1, <3>1, <4>1, PeriodsKnown, PartTakes
        <4> QED
          BY <3>1, <4>2 DEF Takes
      <3>3. CASE n \notin Owing(bs)
        <4>1. Owing(bs) \cap Below(n + 1) = Owing(bs) \cap Below(n)
          BY <3>1, <3>3
        <4>2. Lacking(n + 1) = Lacking(n)
          BY <4>1 DEF Owed
        <4>3. S[n] = 0
          BY <1>1, <2>3, <3>3, ShareTyped
        <4> QED
          BY <2>1, <3>2, <4>2, <4>3
      <3>4. CASE n \in Owing(bs)
        <4> DEFINE R == Owing(bs) \cap Below(n)
                   f == [p \in R |-> bs[p].pending]
                   g == [p \in R \cup {n} |-> bs[p].pending]
        <4>1. \A p \in Periods : bs[p].pending \in Int
          BY DEF Bill
        <4>2. Owing(bs) \cap Below(n + 1) = R \cup {n} /\ n \notin R /\ R \subseteq Periods
          BY <1>2, <3>1, <3>4
        <4>3. Lacking(n) = SumOver(f) /\ Lacking(n + 1) = SumOver(g)
          BY <4>2 DEF Owed
        <4> HIDE DEF R
        <4>4. IsFiniteSet(R)
          BY <4>2, PeriodsKnown, FS_Subset
        <4>5. SumOver(g) = SumOver(f) + bs[n].pending
          <5>1. /\ f \in [R -> Int] /\ g \in [R \cup {n} -> Int]
                /\ g[n] = bs[n].pending /\ \A y \in R : g[y] = f[y]
            BY <2>3, <4>1, <4>2
          <5> HIDE DEF f, g
          <5>2. SumOver(g) = SumOver(f) + g[n]
            BY <4>2, <4>4, <5>1, SumInsert
          <5> QED
            BY <5>1, <5>2
        <4>6. Lacking(n + 1) = Lacking(n) + bs[n].pending
          BY <4>3, <4>5
        <4>7. S[n] = Smaller(bs[n].pending, NotBelowZero(amt - Lacking(n)))
          BY <1>1, <2>3, <3>4 DEF Allocated, Below
        <4>8. bs[n].pending \in Nat
          BY <2>3 DEF Bill
        <4> HIDE DEF S, Out, Lacking
        <4>9. Out(n + 1) = Smaller(amt, Lacking(n + 1))
          BY <2>1, <3>2, <4>6, <4>7, <4>8 DEF Smaller, NotBelowZero
        <4> QED
          BY <4>9
      <3> QED
        BY <3>3, <3>4
    <2> QED
      BY <2>2, <2>3
  <1>6. LastMonth + 1 \in N
    <2> HIDE DEF N
    <2>1. Nat \subseteq N
      BY <1>4, <1>5, NatSetInduction
    <2> QED
      BY <2>1, MonthsCounted
  <1>7. Below(LastMonth + 1) = Periods
    BY PeriodsKnown, MonthsCounted DEF Below
  <1>8. Part(S, Periods) = SumOver(S)
    <2>1. S = [p \in Periods |-> S[p]]
      BY <1>1
    <2> HIDE DEF S
    <2> QED
      BY <2>1, PartWhole
  <1> QED
    BY <1>6, <1>7, <1>8

-----------------------------------------------------------------------------
(* What a step does to the bills.                                          *)

Collected(p) == Exists(bill[p]) => totals[p].collected = bill[p].paid

\* A bill is shown with all the credit there is put to it, as far as it takes credit; of a flat that
\* was not locked, all that was read.
NothingLeft(p) ==
    \/ credit' = 0 \/ bill'[p].pending = 0
    \/ \E a \in Admins : Working(a, "take", p) /\ credit' = credit - req[a].seen

\* A step that changes at most the bill of p, to one that fits and is not fined again, brings in no
\* payment, and if it shows the bill leaves no credit it knows of beside what it lacks.
BillStep(p) ==
    /\ bill' \in [Periods -> Bill]
    /\ \A q \in Periods : q # p => /\ bill'[q] = bill[q] /\ status'[q] = status[q]
                                  /\ totals'[q].collected = totals[q].collected
    /\ made <= made' /\ BillFits(bill'[p], made', p)
    /\ p \in Months => \/ bill'[p].id = bill[p].id
                      \/ \E a \in Admins : Working(a, "generate", p)
    /\ p \in Months /\ ~Shown(status'[p]) => Hidden(bill'[p])
    /\ Collected(p)'
    /\ bill[p].fined /\ bill'[p].id = bill[p].id => bill'[p].fined /\ bill'[p].fee <= bill[p].fee
    /\ p \in Months /\ bill'[p].published /\ ~bill[p].published => NothingLeft(p)
    /\ received' = received

\* More than its total is on a bill only when a fine of it was waived.
FairlyPaid(b) == b.paid > NotBelowZero(b.total) => b.fined /\ b.fee = 0

\* What leaves the bill of p is in the advance, or was paid back.
MoneyStep(p) ==
    /\ bill'[p].paid + credit' + refunded' = bill[p].paid + credit + refunded
    /\ entries' = entries + (credit' - credit)
    /\ FairlyPaid(bill[p]) => FairlyPaid(bill'[p])

\* The bills fit afterwards.
Fits == BillsFit /\ Unseen /\ CollectedMatches

LEMMA BillsStayFit ==
    ASSUME IInv, NEW p \in Periods, BillStep(p), made' \in Nat
    PROVE  Fits'
  <1>1. ASSUME NEW q \in Periods, q # p PROVE BillFits(bill'[q], made', q)
    <2>1. /\ bill'[q] = bill[q] /\ bill[q] \in Bill /\ BillFits(bill[q], made, q)
          /\ made \in Nat /\ made <= made'
      BY <1>1 DEF BillStep, IInv, TypeOK, BillsFit
    <2>2. bill[q].id \in Nat
      BY <2>1 DEF Bill
    <2> QED
      BY <2>1, <2>2 DEF BillFits
  <1>2. BillFits(bill'[p], made', p)
    BY DEF BillStep
  <1>3. BillsFit'
    BY <1>1, <1>2 DEF BillsFit
  <1>4. Unseen'
    BY PeriodsKnown DEF BillStep, IInv, Unseen
  <1>5. CollectedMatches'
    BY DEF BillStep, IInv, CollectedMatches, Collected
  <1> QED
    BY <1>3, <1>4, <1>5 DEF Fits

\* Nothing is done to the bills.
LEMMA BillsUnmoved ==
    ASSUME IInv, NEW p \in Periods, UNCHANGED <<bill, made, received>>,
           \A q \in Periods : q # p => status'[q] = status[q] /\ totals'[q].collected = totals[q].collected,
           p \in Months /\ ~Shown(status'[p]) => Hidden(bill[p]),
           \/ totals'[p].collected = totals[p].collected
           \/ totals'[p].collected = 0 /\ bill[p].paid = 0
    PROVE  /\ BillStep(p)
           /\ UNCHANGED <<credit, entries, refunded>> => MoneyStep(p)
  <1>1. /\ made \in Nat /\ BillFits(bill[p], made, p) /\ bill[p] \in Bill
        /\ bill \in [Periods -> Bill]
    BY DEF IInv, TypeOK, BillsFit
  <1>2. bill[p].fee <= bill[p].fee
    BY <1>1 DEF Bill
  <1>3. Collected(p)'
    BY DEF IInv, CollectedMatches, Collected
  <1>4. BillStep(p)
    BY <1>1, <1>2, <1>3 DEF BillStep
  <1>5. UNCHANGED <<credit, entries, refunded>> => MoneyStep(p)
    <2>1. credit \in Int /\ entries \in Int
      BY DEF IInv, TypeOK
    <2> QED
      BY <2>1 DEF MoneyStep
  <1> QED
    BY <1>4, <1>5

LEMMA IdleTyped == Idle \in Request /\ Idle.op = "idle"
  BY PeriodsKnown DEF Idle, Request

LEMMA NamedStays ==
    ASSUME IInv, UNCHANGED req \/ \E a : Finish(a)
    PROVE  BillNamed' /\ req' \in [Admins -> Request]
  BY IdleTyped DEF IInv, TypeOK, BillNamed, Finish

\* A request checked or given up, a payment submitted or refused, credit refunded: no bill changes.
LEMMA PlainSafe ==
    ASSUME IInv, NEW a, NEW m, NEW p, NEW amt, NEW w,
           \/ m \in Months /\ Check(a, m)
           \/ a \in Admins /\ (PublishUnlocked(a, m) \/ ReadCredit(a, m))
           \/ RequestFails(a)
           \/ p \in Periods /\ amt \in Amounts /\ Submit(p, amt)
           \/ Reject(w)
           \/ amt \in Amounts /\ Refund(amt)
    PROVE  TypeOK' /\ BillNamed' /\ BillStep(Opening) /\ MoneyStep(Opening)
  <1>1. UNCHANGED <<bill, made, received, status, totals>>
    BY DEF Check, PublishUnlocked, ReadCredit, RequestFails, Submit, Reject, Refund, money
  <1>2. /\ BillStep(Opening)
        /\ UNCHANGED <<credit, entries, refunded>> => MoneyStep(Opening)
    BY <1>1, PeriodsKnown, BillsUnmoved
  <1>3. (m \in Months => m \in Periods) /\ TypeOK
    BY PeriodsKnown DEF IInv
  <1>5. CASE m \in Months /\ Check(a, m)
    <2>1. PICK op \in {"generate", "publish", "close", "delete", "adjust"} :
             /\ op = "adjust" => Exists(bill[m])
             /\ req' = [req EXCEPT ![a] = [op |-> op, period |-> m, id |-> bill[m].id, seen |-> 0]]
      BY <1>5 DEF Check
    <2>2. [op |-> op, period |-> m, id |-> bill[m].id, seen |-> 0] \in Request
      BY <1>3, <1>5 DEF Request, TypeOK, Bill
    <2>3. BillNamed'
      BY <1>3, <1>5, <2>1 DEF IInv, BillNamed, TypeOK, Exists
    <2>4. TypeOK'
      BY <1>1, <1>3, <1>5, <2>1, <2>2 DEF Check, TypeOK, money, payments
    <2> QED
      BY <1>2, <1>5, <2>3, <2>4 DEF Check, money
  <1>4. CASE a \in Admins /\ (PublishUnlocked(a, m) \/ ReadCredit(a, m))
    <2>1. \/ req' = [req EXCEPT ![a].op = "show"]
          \/ req' = [req EXCEPT ![a].op = "take", ![a].seen = credit]
      BY <1>4 DEF PublishUnlocked, ReadCredit
    <2>2. req' \in [Admins -> Request]
      <3>1. req[a] \in Request /\ credit \in Nat /\ req \in [Admins -> Request]
        BY <1>3, <1>4 DEF TypeOK
      <3>2. /\ [req[a] EXCEPT !.op = "show"] \in Request
            /\ [req[a] EXCEPT !.op = "take", !.seen = credit] \in Request
        BY <3>1 DEF Request
      <3> QED
        BY <2>1, <3>1, <3>2
    <2>3. \A b \in Admins : req'[b].op = "adjust" => req'[b] = req[b]
      BY <1>3, <1>4, <2>1 DEF TypeOK, Request
    <2>4. BillNamed'
      BY <2>3 DEF IInv, BillNamed
    <2>5. UNCHANGED <<money, payments>>
      BY <1>4 DEF PublishUnlocked, ReadCredit
    <2>6. TypeOK'
      BY <1>1, <1>3, <2>2, <2>5 DEF TypeOK, money, payments
    <2> QED
      BY <1>2, <2>4, <2>5, <2>6 DEF money
  <1>6. CASE RequestFails(a)
    BY <1>1, <1>2, <1>3, <1>6, NamedStays DEF RequestFails, TypeOK, money, payments
  <1>7. CASE p \in Periods /\ amt \in Amounts /\ Submit(p, amt)
    BY <1>1, <1>2, <1>3, <1>7, BoundsNatural, NamedStays DEF Submit, TypeOK, money, payments
  <1>8. CASE Reject(w)
    <2>1. [period |-> w.period, live |-> FALSE] \in [period : Periods, live : BOOLEAN]
      BY <1>3, <1>8 DEF Reject, TypeOK
    <2>2. UNCHANGED <<credit, entries, refunded, submitted, req>>
      BY <1>8 DEF Reject, money
    <2>3. waiting' = waiting \ {w} /\ named' = named \cup {[period |-> w.period, live |-> FALSE]}
      BY <1>8 DEF Reject
    <2>4. TypeOK'
      BY <1>1, <1>3, <2>1, <2>2, <2>3 DEF TypeOK
    <2> QED
      BY <1>2, <2>2, <2>4, NamedStays
  <1>9. CASE amt \in Amounts /\ Refund(amt)
    <2>1. amt \in Nat /\ amt <= credit
      BY <1>9, AmountsNatural DEF Refund
    <2>2. TypeOK'
      BY <1>1, <1>3, <1>9, <2>1 DEF Refund, TypeOK, payments
    <2>3. bill[Opening].paid \in Int /\ credit \in Int /\ entries \in Int /\ refunded \in Int
      BY <1>3, PeriodsKnown DEF TypeOK, Bill
    <2>4. MoneyStep(Opening)
      BY <1>1, <1>9, <2>1, <2>3 DEF MoneyStep, Refund
    <2> QED
      BY <1>2, <1>9, <2>2, <2>4, NamedStays DEF Refund
  <1> QED
    BY <1>4, <1>5, <1>6, <1>7, <1>8, <1>9

\* A period made, closed or deleted: no bill changes.
LEMMA PeriodSafe ==
    ASSUME IInv, NEW a, NEW m \in Months,
           CreatePeriod(m) \/ ClosePeriod(a, m) \/ DeletePeriod(a, m)
    PROVE  TypeOK' /\ BillNamed' /\ BillStep(m) /\ MoneyStep(m)
  <1>1. UNCHANGED <<bill, made, received, credit, entries, refunded>>
    BY DEF CreatePeriod, ClosePeriod, DeletePeriod, money
  <1>2. m \in Periods /\ TypeOK /\ NoSums \in Sums /\ NoSums.collected = 0
    BY PeriodsKnown DEF IInv, NoSums, Sums
  <1>3. ~Shown(status'[m]) => Hidden(bill[m])
    <2>1. CASE CreatePeriod(m)
      BY <1>2, <2>1 DEF CreatePeriod, Unseen, IInv, Shown
    <2>2. CASE ClosePeriod(a, m)
      BY <1>2, <2>2 DEF ClosePeriod, Shown, TypeOK
    <2>3. CASE DeletePeriod(a, m)
      <3>1. bill[m] = NoBill
        BY <1>2, <2>3 DEF DeletePeriod, IInv, BillsFit, BillFits
      <3> QED
        BY <3>1 DEF NoBill, Hidden
    <2> QED
      BY <2>1, <2>2, <2>3
  <1>4. \/ totals'[m].collected = totals[m].collected
        \/ totals'[m].collected = 0 /\ bill[m].paid = 0
    BY <1>2 DEF CreatePeriod, ClosePeriod, DeletePeriod, TypeOK, IInv, Unseen, Shown, Hidden
  <1>5. \A q \in Periods : q # m => status'[q] = status[q] /\ totals'[q].collected = totals[q].collected
    BY <1>2 DEF CreatePeriod, ClosePeriod, DeletePeriod, TypeOK
  <1>6. BillStep(m) /\ MoneyStep(m)
    BY <1>1, <1>2, <1>3, <1>4, <1>5, BillsUnmoved
  <1>7. TypeOK' /\ BillNamed'
    <2>1. UNCHANGED <<waiting, named, submitted>>
      BY DEF CreatePeriod, ClosePeriod, DeletePeriod, payments
    <2>2. status' \in [Periods -> Statuses] /\ totals' \in [Periods -> Sums]
      BY <1>2 DEF CreatePeriod, ClosePeriod, DeletePeriod, TypeOK, Statuses
    <2>3. BillNamed' /\ req' \in [Admins -> Request]
      BY NamedStays DEF CreatePeriod, ClosePeriod, DeletePeriod
    <2> QED
      BY <1>1, <1>2, <2>1, <2>2, <2>3 DEF TypeOK
  <1> QED
    BY <1>6, <1>7

LEMMA GenerateSafe ==
    ASSUME IInv, NEW a \in Admins, NEW m \in Months, GenerateBills(a, m)
    PROVE  TypeOK' /\ BillNamed' /\ BillStep(m) /\ (bill[m].paid = 0 => MoneyStep(m))
  <1>1. m \in Periods /\ m # Opening /\ TypeOK /\ made \in Nat /\ made + 1 \in 0 .. MaxBills
    BY PeriodsKnown, BoundsNatural DEF GenerateBills, IInv, TypeOK
  <1>2. PICK amt \in BillAmounts :
          /\ bill' = [bill EXCEPT ![m] = NewBill(amt)]
          /\ totals' = [totals EXCEPT ![m] = [billed |-> amt, collected |-> 0, pending |-> amt]]
    BY DEF GenerateBills
  <1>3. amt \in Nat /\ made' = made + 1
    BY AmountsNatural DEF GenerateBills
  <1> DEFINE b == NewBill(amt)
  <1>4. /\ b \in Bill /\ b.id = made + 1 /\ b.paid = 0 /\ b.total = amt /\ ~b.published
        /\ Figures(b) /\ Exists(b)
    BY <1>1, <1>3, NewBillFits
  <1> HIDE DEF b
  <1>5. bill'[m] = b /\ bill' \in [Periods -> Bill] /\ \A q \in Periods : q # m => bill'[q] = bill[q]
    BY <1>1, <1>2, <1>4 DEF TypeOK, b
  <1>6. bill[m].id <= made /\ bill[m] \in Bill
    BY <1>1 DEF IInv, BillsFit, BillFits, TypeOK
  <1>7. b.id # bill[m].id
    BY <1>1, <1>4, <1>6 DEF Bill
  <1>8. [billed |-> amt, collected |-> 0, pending |-> amt] \in Sums
    BY <1>3 DEF Sums
  <1>9. /\ totals'[m].collected = 0 /\ \A q \in Periods : q # m => totals'[q] = totals[q]
        /\ \A q \in Periods : q # m => status'[q] = status[q]
    BY <1>1, <1>2 DEF TypeOK, GenerateBills
  <1>10. BillStep(m)
    BY <1>1, <1>3, <1>4, <1>5, <1>7, <1>9 DEF BillStep, BillFits, GenerateBills, money, Hidden, Collected
  <1>11. TypeOK'
    BY <1>1, <1>2, <1>3, <1>5, <1>8, IdleTyped
    DEF GenerateBills, Finish, TypeOK, Statuses, money, payments
  <1>12. bill[m].paid = 0 => MoneyStep(m)
    <2>1. credit \in Int /\ entries \in Int
      BY <1>1 DEF TypeOK
    <2>2. ~(b.paid > NotBelowZero(b.total))
      BY <1>3, <1>4 DEF NotBelowZero
    <2> QED
      BY <1>4, <1>5, <2>1, <2>2 DEF MoneyStep, FairlyPaid, GenerateBills, money
  <1>13. BillNamed'
    BY NamedStays DEF GenerateBills
  <1> QED
    BY <1>10, <1>11, <1>12, <1>13

\* A bill that is paid no more than it lacks is not overpaid by it.
LEMMA PaysFairly ==
    ASSUME NEW x \in Bill, NEW y, NEW amt \in Nat, Figures(x), Pays(x, y, amt), amt <= x.pending
    PROVE  FairlyPaid(x) => FairlyPaid(y)
  <1>1. x.total \in Int /\ x.paid \in Nat /\ x.pending \in Nat /\ x.pending = NotBelowZero(x.total - x.paid)
    BY DEF Bill, Figures
  <1>2. y.total = x.total /\ y.paid = x.paid + amt /\ SameFee(x, y)
    BY DEF Pays
  <1>3. CASE amt = 0
    BY <1>1, <1>2, <1>3 DEF FairlyPaid, SameFee
  <1>4. CASE amt > 0
    BY <1>1, <1>2, <1>4 DEF FairlyPaid, NotBelowZero
  <1> QED
    BY <1>3, <1>4

\* The advance "have" is put to the bill of p, as "bs" has it.
LEMMA SpendSafe ==
    ASSUME IInv, NEW bs, NEW p \in Periods, NEW have \in Nat, NEW n \in Nat,
           bs \in [Periods -> Bill], BillFits(bs[p], n, p), \A q \in Periods : q # p => bs[q] = bill[q],
           bill' = PutTo(bs, CreditFor(bs, have, p), p)
    PROVE  \E y \in Bill, use \in Nat :
               /\ bill' \in [Periods -> Bill] /\ bill'[p] = y
               /\ \A q \in Periods : q # p => bill'[q] = bill[q]
               /\ use = CreditFor(bs, have, p) /\ use <= have
               /\ BillFits(y, n, p) /\ SameBill(bs[p], y) /\ SameFee(bs[p], y)
               /\ y.paid = bs[p].paid + use /\ y.total = bs[p].total /\ (use = 0 => y = bs[p])
               /\ FairlyPaid(bs[p]) => FairlyPaid(y)
               /\ y.published => have - use = 0 \/ y.pending = 0
  <1>1. Figures(bs[p]) /\ (Exists(bs[p]) \/ bs[p] = NoBill) /\ bs[p] \in Bill
    BY DEF BillFits
  <1>2. PICK y \in Bill, use \in Nat :
               /\ bill' = [bs EXCEPT ![p] = y]
               /\ use = CreditFor(bs, have, p) /\ Spent(bs[p], y, use, have)
               /\ use = 0 => y = bs[p]
    BY <1>1, Spending
  <1>3. bill' \in [Periods -> Bill] /\ bill'[p] = y /\ \A q \in Periods : q # p => bill'[q] = bill[q]
    BY <1>2
  <1>4. /\ use <= have /\ Pays(bs[p], y, use) /\ (use > 0 => Exists(bs[p]) /\ use <= bs[p].pending)
        /\ (y.published => have - use = 0 \/ y.pending = 0)
    BY <1>2 DEF Spent
  <1>5. /\ SameBill(bs[p], y) /\ SameFee(bs[p], y) /\ y.total = bs[p].total
        /\ y.paid = bs[p].paid + use /\ Figures(y)
    BY <1>4 DEF Pays
  <1>6. bs[p].pending \in Nat
    BY <1>1 DEF Bill
  <1>7. FairlyPaid(bs[p]) => FairlyPaid(y)
    BY <1>1, <1>4, <1>6, PaysFairly
  <1>8. Exists(y) \/ y = NoBill
    BY <1>1, <1>2, <1>4, <1>5 DEF SameBill, Exists
  <1>9. BillFits(y, n, p)
    BY <1>5, <1>8 DEF BillFits, SameBill, SameFee, Exists
  <1> QED
    BY <1>2, <1>3, <1>4, <1>5, <1>7, <1>9

\* The bill of m is shown, and the advance "have", which the flat holds or which was read before, is
\* put to it.
LEMMA ShowingSafe ==
    ASSUME IInv, NEW a \in Admins, NEW m \in Months, NEW have \in Nat,
           have = credit \/ (Working(a, "take", m) /\ have = req[a].seen),
           bill' = PutTo(AsShown(m), CreditFor(AsShown(m), have, m), m),
           CreditFor(AsShown(m), have, m) <= credit,
           credit' = credit - CreditFor(AsShown(m), have, m),
           entries' = entries - CreditFor(AsShown(m), have, m),
           totals' = IF CreditFor(AsShown(m), have, m) > 0 THEN Refreshed(bill', {m}) ELSE totals,
           status' = [status EXCEPT ![m] = "PUBLISHED"], Finish(a),
           UNCHANGED <<received, refunded, payments, made>>
    PROVE  TypeOK' /\ BillNamed' /\ BillStep(m) /\ MoneyStep(m)
  <1>1. /\ m \in Periods /\ m # Opening /\ TypeOK /\ made \in Nat /\ made <= made /\ credit \in Nat
        /\ entries \in Int /\ refunded \in Nat /\ bill[m] \in Bill /\ BillFits(bill[m], made, m)
        /\ Collected(m)
    BY PeriodsKnown, BoundsNatural DEF IInv, TypeOK, BillsFit, CollectedMatches, Collected
  <1> DEFINE bs == AsShown(m)
  <1>2. /\ bs \in [Periods -> Bill] /\ BillFits(bs[m], made, m)
        /\ \A q \in Periods : q # m => bs[q] = bill[q]
        /\ bs[m].id = bill[m].id /\ bs[m].paid = bill[m].paid /\ bs[m].total = bill[m].total
        /\ SameFee(bill[m], bs[m])
    <2>1. CASE Exists(bill[m])
      <3> DEFINE x == [bill[m] EXCEPT !.published = TRUE]
      <3>1. /\ x \in Bill /\ x.id = bill[m].id /\ x.paid = bill[m].paid /\ x.total = bill[m].total
            /\ SameFee(bill[m], x) /\ x.pending = bill[m].pending /\ x.isPaid = bill[m].isPaid
        BY <1>1 DEF Bill, SameFee
      <3>2. bs = [bill EXCEPT ![m] = x] /\ bs[m] = x
        BY <1>1, <2>1 DEF TypeOK, AsShown
      <3> HIDE DEF x
      <3>3. bs \in [Periods -> Bill] /\ \A q \in Periods : q # m => bs[q] = bill[q]
        BY <1>1, <3>1, <3>2 DEF TypeOK
      <3>4. BillFits(x, made, m)
        BY <1>1, <2>1, <3>1 DEF BillFits, Figures, Exists
      <3> HIDE DEF bs
      <3> QED
        BY <3>1, <3>2, <3>3, <3>4
    <2>2. CASE ~Exists(bill[m])
      BY <1>1, <2>2 DEF TypeOK, SameFee, AsShown
    <2> QED
      BY <2>1, <2>2
  <1>3. bill' = PutTo(bs, CreditFor(bs, have, m), m)
    OBVIOUS
  <1> DEFINE spent == CreditFor(bs, have, m)
  <1>4. /\ entries' = entries - spent /\ totals' = IF spent > 0 THEN Refreshed(bill', {m}) ELSE totals
        /\ credit' = credit - spent /\ spent <= credit
    OBVIOUS
  <1>5. /\ received' = received /\ refunded' = refunded /\ UNCHANGED <<waiting, named, submitted, made>>
        /\ status' = [status EXCEPT ![m] = "PUBLISHED"] /\ Finish(a)
    BY DEF payments
  <1> HIDE DEF bs, spent
  <1>6. PICK y \in Bill, use \in Nat :
               /\ bill' \in [Periods -> Bill] /\ bill'[m] = y
               /\ \A q \in Periods : q # m => bill'[q] = bill[q]
               /\ use = CreditFor(bs, have, m) /\ use <= have
               /\ BillFits(y, made, m) /\ SameBill(bs[m], y) /\ SameFee(bs[m], y)
               /\ y.paid = bs[m].paid + use /\ y.total = bs[m].total /\ (use = 0 => y = bs[m])
               /\ FairlyPaid(bs[m]) => FairlyPaid(y)
               /\ y.published => have - use = 0 \/ y.pending = 0
    BY <1>1, <1>2, <1>3, SpendSafe
  <1>7. use = spent /\ credit' = credit - use /\ credit' \in Nat
    BY <1>1, <1>4, <1>6 DEF spent
  <1>16. bill'[m].published => NothingLeft(m)
    BY <1>1, <1>6, <1>7 DEF NothingLeft
  <1>8. /\ Refreshed(bill', {m}) \in [Periods -> Sums]
        /\ Refreshed(bill', {m})[m].collected = bill'[m].paid
        /\ \A q \in Periods : q # m => Refreshed(bill', {m})[q].collected = totals[q].collected
    BY <1>1, <1>6, RefreshedTyped DEF TypeOK
  <1>9. /\ totals' \in [Periods -> Sums]
        /\ \A q \in Periods : q # m => totals'[q].collected = totals[q].collected
    BY <1>1, <1>4, <1>8 DEF TypeOK
  <1>10. Collected(m)'
    <2>1. CASE use > 0
      BY <1>4, <1>7, <1>8, <2>1 DEF Collected
    <2>2. CASE use = 0
      BY <1>1, <1>2, <1>4, <1>6, <1>7, <2>2 DEF Collected, Exists
    <2> QED
      BY <2>1, <2>2
  <1>11. Shown(status'[m]) /\ \A q \in Periods : q # m => status'[q] = status[q]
    BY <1>1, <1>5 DEF Shown, TypeOK
  <1>12. y.fee <= bill[m].fee /\ (bill[m].fined => y.fined)
    BY <1>1, <1>2, <1>6 DEF SameFee, Bill
  <1>13. BillStep(m)
    <2>1. bill'[m].id = bill[m].id
      BY <1>2, <1>6 DEF SameBill
    <2> QED
      BY <1>1, <1>5, <1>6, <1>9, <1>10, <1>11, <1>12, <1>16, <2>1 DEF BillStep
  <1>14. MoneyStep(m)
    <2>1. bill[m].paid \in Nat
      BY <1>1 DEF Bill
    <2>2. FairlyPaid(bill[m]) => FairlyPaid(bs[m])
      BY <1>2 DEF FairlyPaid, SameFee
    <2>3. entries' = entries + (credit' - credit)
      BY <1>1, <1>4, <1>6, <1>7
    <2>4. y.paid + credit' + refunded' = bill[m].paid + credit + refunded
      BY <1>1, <1>2, <1>5, <1>6, <1>7, <2>1
    <2> QED
      BY <1>6, <2>2, <2>3, <2>4 DEF MoneyStep
  <1>15. TypeOK' /\ BillNamed'
    <2>1. status' \in [Periods -> Statuses]
      BY <1>1, <1>5 DEF TypeOK, Statuses
    <2>2. BillNamed' /\ req' \in [Admins -> Request]
      BY <1>5, NamedStays
    <2>3. entries' \in Int
      BY <1>1, <1>4, <1>6, <1>7
    <2> QED
      BY <1>1, <1>5, <1>6, <1>7, <1>9, <2>1, <2>2, <2>3 DEF TypeOK
  <1> QED
    BY <1>13, <1>14, <1>15

LEMMA PublishSafe ==
    ASSUME IInv, NEW a \in Admins, NEW m \in Months, PublishPeriod(a, m) \/ TakeCredit(a, m)
    PROVE  TypeOK' /\ BillNamed' /\ BillStep(m) /\ MoneyStep(m)
  <1>1. credit \in Nat /\ req[a].seen \in Nat /\ bill \in [Periods -> Bill] /\ m \in Periods
    BY PeriodsKnown DEF IInv, TypeOK, Request
  <1>2. CASE PublishPeriod(a, m)
    <2>1. AsShown(m)[m].pending \in Nat
      BY <1>1 DEF AsShown, Bill
    <2>2. CreditFor(AsShown(m), credit, m) <= credit
      BY <1>1, <2>1 DEF CreditFor, Smaller
    <2> QED
      BY <1>1, <1>2, <2>2, ShowingSafe DEF PublishPeriod, Spend
  <1>3. CASE TakeCredit(a, m)
    BY <1>1, <1>3, ShowingSafe DEF TakeCredit
  <1> QED
    BY <1>2, <1>3

\* A bill is charged other amounts, and keeps what was paid on it.
LEMMA ChargeSafe ==
    ASSUME IInv, NEW p \in Periods, NEW y \in Bill, bill' = [bill EXCEPT ![p] = y],
           BillFits(y, made, p), SameBill(bill[p], y), y.paid = bill[p].paid,
           bill[p].fined => y.fined /\ y.fee <= bill[p].fee,
           totals' = totals \/ totals' = Refreshed(bill', {p}),
           UNCHANGED <<status, money, payments, made>>, UNCHANGED req \/ \E a : Finish(a),
           FairlyPaid(bill[p]) => FairlyPaid(y)
    PROVE  TypeOK' /\ BillNamed' /\ BillStep(p) /\ MoneyStep(p)
  <1>1. /\ TypeOK /\ made \in Nat /\ bill[p] \in Bill /\ BillFits(bill[p], made, p) /\ Collected(p)
        /\ p \in Months /\ ~Shown(status[p]) => Hidden(bill[p])
    BY BoundsNatural DEF IInv, TypeOK, BillsFit, CollectedMatches, Collected, Unseen
  <1>2. bill'[p] = y /\ bill' \in [Periods -> Bill] /\ \A q \in Periods : q # p => bill'[q] = bill[q]
    BY <1>1 DEF TypeOK
  <1>3. /\ Refreshed(bill', {p}) \in [Periods -> Sums]
        /\ Refreshed(bill', {p})[p].collected = bill'[p].paid
        /\ \A q \in Periods : q # p => Refreshed(bill', {p})[q].collected = totals[q].collected
    <2>1. ASSUME NEW bs \in [Periods -> Bill]
          PROVE  /\ Refreshed(bs, {p}) \in [Periods -> Sums]
                 /\ \A q \in Periods : Refreshed(bs, {p})[q].collected = IF q = p THEN bs[p].paid
                                                                        ELSE totals[q].collected
      BY <1>1, RefreshedTyped DEF TypeOK
    <2> QED
      BY <1>2, <2>1
  <1>4. totals' \in [Periods -> Sums] /\ \A q \in Periods : q # p => totals'[q].collected = totals[q].collected
    BY <1>1, <1>3 DEF TypeOK
  <1>5. Collected(p)'
    BY <1>1, <1>2, <1>3 DEF Collected, SameBill, Exists
  <1>6. y.published = bill[p].published /\ y.id = bill[p].id
    BY DEF SameBill
  <1>7. p \in Months /\ ~Shown(status'[p]) => Hidden(y)
    BY <1>1, <1>6 DEF Hidden
  <1>8. BillStep(p)
    BY <1>1, <1>2, <1>4, <1>5, <1>6, <1>7 DEF BillStep, money
  <1>9. MoneyStep(p)
    <2>1. credit \in Int /\ entries \in Int
      BY <1>1 DEF TypeOK
    <2> QED
      BY <1>2, <2>1 DEF MoneyStep, money
  <1>10. TypeOK'
    BY <1>1, <1>2, <1>4, NamedStays DEF TypeOK, money, payments
  <1> QED
    BY <1>8, <1>9, <1>10, NamedStays

LEMMA AdjustSafe ==
    ASSUME IInv, NEW a \in Admins, NEW m \in Months, AdjustBill(a, m)
    PROVE  /\ TypeOK' /\ BillNamed' /\ BillStep(m)
           /\ bill[m].paid = 0 => MoneyStep(m)
  <1>1. /\ m \in Periods /\ m # Opening /\ TypeOK /\ made \in Nat /\ bill[m] \in Bill
        /\ BillFits(bill[m], made, m) /\ Exists(bill[m])
    BY PeriodsKnown, BoundsNatural DEF IInv, TypeOK, BillsFit, AdjustBill, Working, BillNamed, Exists
  <1>2. PICK x \in Adjustments : bill' = [bill EXCEPT ![m] = Refigure([@ EXCEPT !.total = bill[m].total + x])]
    BY DEF AdjustBill
  <1> DEFINE z == [bill[m] EXCEPT !.total = @ + x]
             y == Refigure(z)
  <1>3. x \in Int /\ bill[m].total \in Int
    BY <1>1, AdjustmentsSigned DEF Bill
  <1>4. z \in Bill /\ SameBill(bill[m], z) /\ SameFee(bill[m], z) /\ z.paid = bill[m].paid
    BY <1>1, <1>3 DEF Bill, SameBill, SameFee
  <1>5. bill' = [bill EXCEPT ![m] = y]
    BY <1>2
  <1> HIDE DEF z
  <1>6. /\ y \in Bill /\ Figures(y) /\ SameBill(bill[m], y) /\ SameFee(bill[m], y) /\ y.paid = bill[m].paid
    BY <1>4, Refigured DEF SameBill, SameFee
  <1> HIDE DEF y
  <1>7. BillFits(y, made, m)
    BY <1>1, <1>6 DEF BillFits, SameBill, Exists
  <1>8. bill[m].fined => y.fined /\ y.fee <= bill[m].fee
    BY <1>1, <1>6 DEF SameFee, Bill
  <1>9. UNCHANGED <<status, totals, money, payments, made>> /\ Finish(a)
    BY DEF AdjustBill
  <1>10. CASE bill[m].paid = 0
    <2>1. FairlyPaid(y)
      BY <1>6, <1>10 DEF FairlyPaid, NotBelowZero, Bill
    <2> QED
      BY <1>1, <1>5, <1>6, <1>7, <1>8, <1>9, <2>1, ChargeSafe
  <1>11. CASE bill[m].paid # 0
    <2>1. bill'[m] = y /\ bill' \in [Periods -> Bill] /\ \A q \in Periods : q # m => bill'[q] = bill[q]
      BY <1>1, <1>5, <1>6 DEF TypeOK
    <2>2. Collected(m)'
      BY <1>1, <1>6, <1>9, <2>1 DEF IInv, CollectedMatches, Collected
    <2>3. ~Shown(status[m]) => Hidden(bill[m])
      BY <1>1 DEF IInv, Unseen
    <2>4. BillStep(m)
      BY <1>1, <1>6, <1>7, <1>8, <1>9, <2>1, <2>2, <2>3 DEF BillStep, money, Hidden, SameBill
    <2>5. TypeOK'
      BY <1>1, <1>9, <2>1, NamedStays DEF TypeOK, money, payments
    <2> QED
      BY <1>9, <1>11, <2>4, <2>5, NamedStays
  <1> QED
    BY <1>10, <1>11

LEMMA LateFeeTyped ==
    ASSUME NEW s \in FeeSettings, NEW unpaid \in Nat
    PROVE  LateFee(s, unpaid) \in Nat
  <1>1. s.value \in Nat /\ s.max \in Nat
    BY FeesTyped
  <1>2. unpaid * s.value \in Nat
    BY <1>1
  <1> DEFINE k == unpaid * s.value
  <1>3. (k + 50) \div 100 \in Nat
    <2> HIDE DEF k
    <2> QED
      BY <1>2 DEF k
  <1> DEFINE share == (k + 50) \div 100
             fee == IF s.type = "FIXED" THEN s.value ELSE share
  <1> HIDE DEF k
  <1>4. LateFee(s, unpaid) = IF unpaid <= 0 THEN 0 ELSE IF s.max > 0 THEN Smaller(fee, s.max) ELSE fee
    BY DEF LateFee, k
  <1>5. fee \in Nat
    BY <1>1, <1>3
  <1> HIDE DEF fee
  <1> QED
    BY <1>1, <1>4, <1>5 DEF Smaller

LEMMA FineSafe ==
    ASSUME IInv, NEW p \in Periods, Fine(p)
    PROVE  TypeOK' /\ BillNamed' /\ BillStep(p) /\ MoneyStep(p)
  <1>1. /\ TypeOK /\ made \in Nat /\ bill[p] \in Bill /\ BillFits(bill[p], made, p)
    BY BoundsNatural DEF IInv, TypeOK, BillsFit
  <1>2. OpenBill(bill[p]) /\ bill[p].pending > 0 /\ ~bill[p].fined
    BY DEF Fine
  <1>3. p # Opening /\ Exists(bill[p]) /\ ~bill[p].isPaid
    BY <1>1, <1>2 DEF BillFits, OpenBill
  <1>4. PICK s \in FeeSettings :
          /\ bill' = [bill EXCEPT ![p].fined = TRUE, ![p].fee = @ + LateFee(s, bill[p].pending),
                         ![p].total = @ + LateFee(s, bill[p].pending),
                         ![p].pending = @ + LateFee(s, bill[p].pending)]
          /\ totals' = totals \/ totals' = Refreshed(bill', {p})
    BY DEF Fine
  <1> DEFINE fee == LateFee(s, bill[p].pending)
             y == [bill[p] EXCEPT !.fined = TRUE, !.fee = @ + fee, !.total = @ + fee, !.pending = @ + fee]
  <1>5. fee \in Nat
    BY <1>1, LateFeeTyped DEF Bill
  <1>6. bill' = [bill EXCEPT ![p] = y]
    BY <1>1, <1>4 DEF TypeOK
  <1> HIDE DEF fee
  <1>7. /\ bill[p].total \in Int /\ bill[p].paid \in Nat /\ bill[p].pending \in Nat /\ bill[p].fee \in Nat
        /\ bill[p].pending = NotBelowZero(bill[p].total - bill[p].paid)
    BY <1>1 DEF Bill, BillFits, Figures
  <1>8. /\ y \in Bill /\ SameBill(bill[p], y) /\ y.paid = bill[p].paid /\ y.fined
        /\ y.total = bill[p].total + fee /\ y.pending = bill[p].pending + fee /\ y.isPaid = bill[p].isPaid
    <2> DEFINE due == bill[p].total + fee
               rest == bill[p].pending + fee
               fees == bill[p].fee + fee
    <2>1. due \in Int /\ rest \in Nat /\ fees \in Nat
      BY <1>5, <1>7
    <2>2. y = [bill[p] EXCEPT !.fined = TRUE, !.fee = fees, !.total = due, !.pending = rest]
      OBVIOUS
    <2> HIDE DEF y, due, rest, fees
    <2>3. /\ y \in Bill /\ SameBill(bill[p], y) /\ y.paid = bill[p].paid /\ y.fined
          /\ y.total = due /\ y.pending = rest /\ y.isPaid = bill[p].isPaid
      BY <1>1, <2>1, <2>2 DEF Bill, SameBill
    <2> QED
      BY <2>3 DEF due, rest
  <1> HIDE DEF y
  <1>9. Figures(y) /\ FairlyPaid(y)
    BY <1>2, <1>3, <1>5, <1>7, <1>8 DEF Figures, FairlyPaid, NotBelowZero
  <1>10. BillFits(y, made, p)
    BY <1>1, <1>3, <1>8, <1>9 DEF BillFits, SameBill, Exists
  <1>11. UNCHANGED <<status, money, payments, made, req>>
    BY DEF Fine
  <1> QED
    BY <1>2, <1>4, <1>6, <1>8, <1>9, <1>10, <1>11, ChargeSafe

LEMMA WaiveSafe ==
    ASSUME IInv, NEW p \in Periods, Waive(p)
    PROVE  TypeOK' /\ BillNamed' /\ BillStep(p) /\ MoneyStep(p)
  <1>1. /\ TypeOK /\ made \in Nat /\ bill[p] \in Bill /\ BillFits(bill[p], made, p)
        /\ bill[p].fee > 0
    BY BoundsNatural DEF IInv, TypeOK, BillsFit, Waive
  <1>2. Exists(bill[p]) /\ p # Opening
    BY <1>1 DEF BillFits, NoBill
  <1> DEFINE z == [bill[p] EXCEPT !.total = @ - bill[p].fee, !.fee = 0, !.fined = TRUE]
             y == Refigure(z)
  <1>3. bill' = [bill EXCEPT ![p] = y]
    BY DEF Waive
  <1>4. z \in Bill /\ SameBill(bill[p], z) /\ z.paid = bill[p].paid /\ z.fee = 0 /\ z.fined
    <2> DEFINE less == bill[p].total - bill[p].fee
    <2>1. less \in Int
      BY <1>1 DEF Bill
    <2> HIDE DEF less
    <2>2. z = [bill[p] EXCEPT !.total = less, !.fee = 0, !.fined = TRUE]
      BY DEF less
    <2> HIDE DEF z
    <2> QED
      BY <1>1, <2>1, <2>2 DEF Bill, SameBill
  <1> HIDE DEF z
  <1>5. /\ y \in Bill /\ Figures(y) /\ SameBill(bill[p], y) /\ y.paid = bill[p].paid /\ y.fee = 0 /\ y.fined
    BY <1>4, Refigured DEF SameBill, SameFee
  <1> HIDE DEF y
  <1>6. BillFits(y, made, p) /\ FairlyPaid(y)
    BY <1>1, <1>2, <1>5 DEF BillFits, SameBill, Exists, FairlyPaid
  <1>7. bill[p].fined => y.fined /\ y.fee <= bill[p].fee
    BY <1>1, <1>5 DEF Bill
  <1>8. totals' = Refreshed(bill', {p}) /\ UNCHANGED <<status, money, payments, made, req>>
    BY DEF Waive
  <1> QED
    BY <1>3, <1>5, <1>6, <1>7, <1>8, ChargeSafe

\* An opening due is entered, changed or corrected to what "bs" has, and the advance goes against it.
LEMMA OpeningSpends ==
    ASSUME IInv, NEW bs \in [Periods -> Bill], NEW have \in Nat, Exists(bs[Opening]),
           made' \in Nat, made <= made', BillFits(bs[Opening], made', Opening),
           \A q \in Periods : q # Opening => bs[q] = bill[q] /\ status'[q] = status[q],
           Spend(bs, have, Opening), totals' = Refreshed(bill', {Opening}),
           entries' = entries + (have - credit) - CreditFor(bs, have, Opening),
           UNCHANGED <<received, refunded>>,
           bs[Opening].paid + have = bill[Opening].paid + credit, FairlyPaid(bs[Opening])
    PROVE  /\ BillStep(Opening) /\ MoneyStep(Opening)
           /\ bill' \in [Periods -> Bill] /\ totals' \in [Periods -> Sums]
           /\ credit' \in Nat /\ entries' \in Int
  <1>1. PICK y \in Bill, use \in Nat :
               /\ bill' \in [Periods -> Bill] /\ bill'[Opening] = y
               /\ \A q \in Periods : q # Opening => bill'[q] = bill[q]
               /\ use = CreditFor(bs, have, Opening) /\ use <= have
               /\ BillFits(y, made', Opening) /\ SameBill(bs[Opening], y) /\ SameFee(bs[Opening], y)
               /\ y.paid = bs[Opening].paid + use /\ y.total = bs[Opening].total /\ (use = 0 => y = bs[Opening])
               /\ FairlyPaid(bs[Opening]) => FairlyPaid(y)
               /\ y.published => have - use = 0 \/ y.pending = 0
    <2> DEFINE n == made'
    <2>3. bill' = PutTo(bs, CreditFor(bs, have, Opening), Opening)
      BY DEF Spend
    <2>1. n \in Nat /\ BillFits(bs[Opening], n, Opening) /\ Opening \in Periods
      BY PeriodsKnown
    <2>2. \A q \in Periods : q # Opening => bs[q] = bill[q]
      OBVIOUS
    <2> HIDE DEF n
    <2> QED
      BY <2>1, <2>2, <2>3, SpendSafe DEF n
  <1>10. credit' = have - use /\ credit' \in Nat
    BY <1>1 DEF Spend
  <1>2. /\ credit \in Nat /\ entries \in Int /\ refunded \in Nat /\ bill[Opening] \in Bill
        /\ totals \in [Periods -> Sums]
    BY PeriodsKnown DEF IInv, TypeOK
  <1>3. /\ totals' \in [Periods -> Sums] /\ totals'[Opening].collected = y.paid
        /\ \A q \in Periods : q # Opening => totals'[q].collected = totals[q].collected
    <2>1. ASSUME NEW cs \in [Periods -> Bill]
          PROVE  /\ Refreshed(cs, {Opening}) \in [Periods -> Sums]
                 /\ \A q \in Periods : Refreshed(cs, {Opening})[q].collected =
                       IF q \in {Opening} THEN cs[q].paid ELSE totals[q].collected
      BY <1>2, RefreshedTyped
    <2> QED
      BY <1>1, <2>1, PeriodsKnown
  <1>4. bs[Opening].paid \in Nat /\ bill[Opening].paid \in Nat /\ bill[Opening].fee \in Nat
    BY <1>2, PeriodsKnown DEF Bill
  <1>5. y.fined /\ y.fee = 0
    BY <1>1, PeriodsKnown DEF BillFits, SameBill, Exists
  <1>6. BillStep(Opening)
    <2>1. Collected(Opening)'
      BY <1>1, <1>3 DEF Collected
    <2>2. y.fee <= bill[Opening].fee
      BY <1>4, <1>5
    <2>3. Opening \notin Months
      BY PeriodsKnown
    <2> HIDE DEF Opening
    <2> QED
      BY <1>1, <1>3, <1>5, <2>1, <2>2, <2>3 DEF BillStep
  <1>7. y.paid + credit' + refunded' = bill[Opening].paid + credit + refunded
    BY <1>1, <1>2, <1>4, <1>10
  <1>8. entries' = entries + (credit' - credit) /\ entries' \in Int
    BY <1>1, <1>2, <1>10
  <1>9. MoneyStep(Opening)
    BY <1>1, <1>5, <1>7, <1>8 DEF MoneyStep, FairlyPaid
  <1> QED
    BY <1>1, <1>3, <1>6, <1>8, <1>9, <1>10

LEMMA SaveOpeningSafe ==
    ASSUME IInv, NEW amt \in Amounts, SaveOpening(amt)
    PROVE  TypeOK' /\ BillNamed' /\ BillStep(Opening) /\ MoneyStep(Opening)
  <1>1. /\ TypeOK /\ made \in 0 .. MaxBills /\ credit \in Nat /\ entries \in Int /\ Opening \in Periods
        /\ bill \in [Periods -> Bill] /\ bill[Opening] \in Bill /\ BillFits(bill[Opening], made, Opening)
    BY PeriodsKnown DEF IInv, TypeOK, BillsFit
  <1>2. amt \in Nat /\ amt > 0
    BY AmountsNatural
  <1> DEFINE x == bill[Opening]
             n == made + 1
             old == [x EXCEPT !.total = amt, !.pending = amt]
             new == [NewBill(amt) EXCEPT !.published = TRUE, !.fined = TRUE]
             bs == IF Exists(x) THEN [bill EXCEPT ![Opening].total = amt, ![Opening].pending = amt]
                   ELSE [bill EXCEPT ![Opening] = new]
  <1>3. /\ Spend(bs, credit, Opening) /\ entries' = entries - CreditFor(bs, credit, Opening)
        /\ totals' = Refreshed(bill', {Opening}) /\ status' = [status EXCEPT ![Opening] = "PUBLISHED"]
        /\ UNCHANGED <<received, refunded, payments, req>>
    BY DEF SaveOpening
  <1>4. /\ made' \in 0 .. MaxBills /\ made <= made'
        /\ Exists(x) => made' = made /\ ~Locked
        /\ ~Exists(x) => made' = n
    BY <1>1, BoundsNatural DEF SaveOpening
  <1> DEFINE GoodBill(b) == /\ b \in Bill /\ BillFits(b, made', Opening) /\ Exists(b)
                            /\ b.paid = x.paid /\ FairlyPaid(b)
  <1>5. GoodBill(bs[Opening]) /\ bs \in [Periods -> Bill] /\ \A q \in Periods : q # Opening => bs[q] = bill[q]
    <2>1. CASE Exists(x)
      <3>1. bs = [bill EXCEPT ![Opening] = old]
        BY <1>1, <2>1
      <3>2. x.paid = 0 /\ x.fined /\ x.fee = 0 /\ x.id <= made /\ Figures(x) /\ x.total > 0
        <4>1. ~(x.paid > 0) /\ x.paid \in Nat
          BY <1>1, <1>4, <2>1 DEF Locked, Bill
        <4> QED
          BY <1>1, <2>1, <4>1 DEF BillFits
      <3>3. ~x.isPaid
        BY <1>1, <3>2 DEF Figures, Bill
      <3>4. /\ old \in Bill /\ old.id = x.id /\ old.paid = x.paid /\ old.total = amt /\ old.pending = amt
            /\ old.isPaid = x.isPaid /\ old.fined = x.fined /\ old.fee = x.fee
        <4>1. x \in Bill /\ amt \in Int /\ amt \in Nat
          BY <1>1, <1>2
        <4> HIDE DEF x
        <4> QED
          BY <4>1 DEF Bill
      <3>5. bs \in [Periods -> Bill] /\ bs[Opening] = old /\ \A q \in Periods : q # Opening => bs[q] = bill[q]
        <4> HIDE DEF old, bs
        <4> QED
          BY <1>1, <3>1, <3>4
      <3> HIDE DEF old, bs
      <3>6. Figures(old)
        BY <1>2, <3>2, <3>3, <3>4 DEF Figures, NotBelowZero
      <3>7. BillFits(old, made', Opening) /\ Exists(old)
        BY <1>2, <1>4, <2>1, <3>2, <3>4, <3>6 DEF BillFits, Exists
      <3>8. FairlyPaid(old)
        BY <3>2, <3>4 DEF FairlyPaid
      <3> QED
        BY <3>4, <3>5, <3>7, <3>8
    <2>2. CASE ~Exists(x)
      <3> DEFINE b == NewBill(amt)
      <3>1. made' = n /\ n \in Nat /\ made \in Nat
        BY <1>1, <1>4, <2>2, BoundsNatural
      <3>2. /\ b \in Bill /\ b.id = n /\ b.paid = 0 /\ b.total = amt /\ b.pending = amt
            /\ ~b.isPaid /\ b.fee = 0
        BY <1>2, <3>1, NewBillFits
      <3>3. new = [b EXCEPT !.published = TRUE, !.fined = TRUE]
        OBVIOUS
      <3> HIDE DEF b, n
      <3>4. /\ new \in Bill /\ new.id = n /\ new.paid = 0 /\ new.total = amt /\ new.pending = amt
            /\ ~new.isPaid /\ new.fee = 0 /\ new.fined
        <4> HIDE DEF new
        <4> QED
          BY <3>2, <3>3 DEF Bill
      <3>5. bs \in [Periods -> Bill] /\ bs[Opening] = new /\ \A q \in Periods : q # Opening => bs[q] = bill[q]
        <4> HIDE DEF new
        <4> QED
          BY <1>1, <2>2, <3>4
      <3> HIDE DEF new, bs
      <3>6. Exists(new)
        BY <1>1, <3>1, <3>4 DEF Exists, n
      <3>7. BillFits(new, made', Opening) /\ FairlyPaid(new)
        BY <1>2, <3>1, <3>4, <3>6 DEF BillFits, Figures, NotBelowZero, FairlyPaid
      <3>8. x.paid = 0
        BY <1>1, <2>2 DEF BillFits, NoBill
      <3> QED
        BY <3>4, <3>5, <3>6, <3>7, <3>8
    <2> QED
      BY <2>1, <2>2
  <1>6. \A q \in Periods : q # Opening => status'[q] = status[q]
    BY <1>1, <1>3 DEF TypeOK
  <1> HIDE DEF bs
  <1>7. entries' = entries + (credit - credit) - CreditFor(bs, credit, Opening)
    <2>1. CreditFor(bs, credit, Opening) \in Int
      BY <1>1, <1>5 DEF CreditFor, Smaller, Bill
    <2> QED
      BY <1>1, <1>3, <2>1
  <1>8. made' \in Nat
    BY <1>4, BoundsNatural
  <1>9. /\ BillStep(Opening) /\ MoneyStep(Opening)
        /\ bill' \in [Periods -> Bill] /\ totals' \in [Periods -> Sums]
        /\ credit' \in Nat /\ entries' \in Int
    BY <1>1, <1>3, <1>4, <1>5, <1>6, <1>7, <1>8, OpeningSpends
  <1>10. TypeOK'
    BY <1>1, <1>3, <1>4, <1>9 DEF TypeOK, Statuses, payments
  <1> QED
    BY <1>3, <1>9, <1>10, NamedStays

LEMMA CorrectOpeningSafe ==
    ASSUME IInv, NEW amt \in Amounts, CorrectOpening(amt)
    PROVE  TypeOK' /\ BillNamed' /\ BillStep(Opening) /\ MoneyStep(Opening)
  <1>1. /\ TypeOK /\ made \in Nat /\ credit \in Nat /\ entries \in Int /\ Opening \in Periods
        /\ bill \in [Periods -> Bill] /\ bill[Opening] \in Bill /\ BillFits(bill[Opening], made, Opening)
        /\ Exists(bill[Opening])
    BY PeriodsKnown, BoundsNatural DEF IInv, TypeOK, BillsFit, CorrectOpening
  <1>2. amt \in Nat /\ amt > 0
    BY AmountsNatural
  <1> DEFINE x == bill[Opening]
             paid == Smaller(x.paid, amt)
             have == credit + (x.paid - paid)
             z == [x EXCEPT !.total = amt, !.paid = paid]
             y == Refigure(z)
             bs == [bill EXCEPT ![Opening] = y]
  <1>3. /\ Spend(bs, have, Opening)
        /\ entries' = entries + (x.paid - paid) - CreditFor(bs, have, Opening)
        /\ totals' = Refreshed(bill', {Opening})
        /\ UNCHANGED <<status, received, refunded, payments, made, req>>
    BY DEF CorrectOpening
  <1>4. paid \in Nat /\ paid <= x.paid /\ paid <= amt /\ x.paid \in Nat
    BY <1>1, <1>2 DEF Smaller, Bill
  <1> HIDE DEF paid
  <1>5. have \in Nat /\ x.paid - paid = have - credit /\ paid + have = x.paid + credit
    BY <1>1, <1>4
  <1> HIDE DEF have
  <1>6. z \in Bill /\ SameBill(x, z) /\ SameFee(x, z) /\ z.total = amt /\ z.paid = paid
    <2>1. x \in Bill /\ amt \in Int
      BY <1>1, <1>2
    <2> HIDE DEF x
    <2> QED
      BY <1>4, <2>1 DEF Bill, SameBill, SameFee
  <1> HIDE DEF z
  <1>7. /\ y \in Bill /\ Figures(y) /\ SameBill(x, y) /\ SameFee(x, y) /\ y.total = amt /\ y.paid = paid
    BY <1>6, Refigured DEF SameBill, SameFee
  <1> HIDE DEF y
  <1>8. /\ bs \in [Periods -> Bill] /\ bs[Opening] = y
        /\ \A q \in Periods : q # Opening => bs[q] = bill[q]
    BY <1>1, <1>7
  <1>9. BillFits(y, made, Opening) /\ Exists(y)
    BY <1>1, <1>2, <1>7 DEF BillFits, SameBill, SameFee, Exists
  <1>10. FairlyPaid(y)
    BY <1>2, <1>4, <1>7 DEF FairlyPaid, NotBelowZero
  <1> HIDE DEF bs
  <1>11. entries' = entries + (have - credit) - CreditFor(bs, have, Opening)
    BY <1>3, <1>5
  <1>12. made' \in Nat /\ made <= made'
    BY <1>1, <1>3
  <1>13. /\ BillStep(Opening) /\ MoneyStep(Opening)
         /\ bill' \in [Periods -> Bill] /\ totals' \in [Periods -> Sums]
         /\ credit' \in Nat /\ entries' \in Int
    BY <1>3, <1>5, <1>7, <1>8, <1>9, <1>10, <1>11, <1>12, OpeningSpends
  <1>14. TypeOK'
    BY <1>1, <1>3, <1>13 DEF TypeOK, payments
  <1> QED
    BY <1>3, <1>13, <1>14, NamedStays

LEMMA RemoveOpeningSafe ==
    ASSUME IInv, RemoveOpening
    PROVE  TypeOK' /\ BillNamed' /\ BillStep(Opening) /\ MoneyStep(Opening)
  <1>1. /\ TypeOK /\ made \in Nat /\ credit \in Int /\ entries \in Int /\ Opening \in Periods
        /\ bill \in [Periods -> Bill] /\ bill[Opening] \in Bill /\ totals \in [Periods -> Sums]
        /\ BillFits(bill[Opening], made, Opening)
    BY PeriodsKnown, BoundsNatural DEF IInv, TypeOK, BillsFit
  <1>2. /\ bill' = [bill EXCEPT ![Opening] = NoBill] /\ totals' = Refreshed(bill', {Opening})
        /\ UNCHANGED <<status, money, payments, made, req>> /\ Exists(bill[Opening])
    BY DEF RemoveOpening
  <1>3. bill[Opening].paid = 0 /\ bill[Opening].id # 0
    <2>1. ~(bill[Opening].paid > 0) /\ bill[Opening].paid \in Nat
      BY <1>1 DEF RemoveOpening, Locked, Bill
    <2> QED
      BY <1>2, <2>1 DEF Exists
  <1>4. NoBill \in Bill /\ BillFits(NoBill, made, Opening) /\ ~Exists(NoBill)
    BY <1>1, NoBillFits
  <1>5. NoBill.paid = 0 /\ NoBill.total = 0 /\ NoBill.id = 0
    BY DEF NoBill
  <1>6. /\ bill' \in [Periods -> Bill] /\ bill'[Opening] = NoBill
        /\ \A q \in Periods : q # Opening => bill'[q] = bill[q]
    BY <1>1, <1>2, <1>4
  <1>7. /\ totals' \in [Periods -> Sums]
        /\ \A q \in Periods : q # Opening => totals'[q].collected = totals[q].collected
    <2>1. ASSUME NEW cs \in [Periods -> Bill]
          PROVE  /\ Refreshed(cs, {Opening}) \in [Periods -> Sums]
                 /\ \A q \in Periods : Refreshed(cs, {Opening})[q].collected =
                       IF q \in {Opening} THEN cs[q].paid ELSE totals[q].collected
      BY <1>1, RefreshedTyped
    <2> QED
      BY <1>2, <1>6, <2>1
  <1>8. BillStep(Opening)
    <2>1. Collected(Opening)'
      BY <1>4, <1>6 DEF Collected
    <2>2. Opening \notin Months /\ NoBill.id # bill[Opening].id
      BY <1>3, <1>5, PeriodsKnown
    <2>3. /\ made' = made /\ made <= made /\ received' = received
          /\ \A q \in Periods : status'[q] = status[q]
      BY <1>1, <1>2 DEF money
    <2> HIDE DEF Opening
    <2> QED
      BY <1>4, <1>6, <1>7, <2>1, <2>2, <2>3 DEF BillStep
  <1>9. MoneyStep(Opening)
    BY <1>1, <1>2, <1>3, <1>5, <1>6 DEF MoneyStep, FairlyPaid, NotBelowZero, money
  <1>10. TypeOK'
    BY <1>1, <1>2, <1>6, <1>7 DEF TypeOK, money, payments
  <1> QED
    BY <1>2, <1>8, <1>9, <1>10, NamedStays

\* The bill x gets its share of a payment.
Given(x, y, share) == Pays(x, y, share) /\ (share = 0 => y = x)

LEMMA Approved ==
    ASSUME IInv, NEW w, Approve(w)
    PROVE  /\ w \in waiting /\ w.amt \in Nat /\ w.period \in Periods
           /\ bill' \in [Periods -> Bill]
           /\ \A p \in Periods : Given(bill[p], bill'[p], Share(bill, w.amt)[p])
           /\ credit' = credit + NotBelowZero(w.amt - Owed(bill, Periods))
           /\ entries' = entries + NotBelowZero(w.amt - Owed(bill, Periods))
           /\ received' = received + w.amt
           /\ totals' = Refreshed(bill', {p \in Owing(bill) : Share(bill, w.amt)[p] > 0})
           /\ UNCHANGED <<status, refunded, made, submitted, req>>
  <1> DEFINE amt == w.amt
             S == Share(bill, amt)
             paid == {p \in Owing(bill) : S[p] > 0}
  <1>1. w \in waiting /\ amt \in Nat /\ w.period \in Periods
    <2>1. w \in [period : Periods, amt : Amounts]
      BY DEF IInv, TypeOK, Approve
    <2>2. w.amt \in Amounts /\ w.period \in Periods
      BY <2>1
    <2> QED
      BY <2>2, AmountsNatural DEF Approve
  <1>2. bill \in [Periods -> Bill] /\ \A p \in Owing(bill) : p \in Periods
    BY DEF IInv, TypeOK, Owing
  <1>3. S = [p \in Periods |-> Allocated(bill, w.amt, p)]
    BY DEF Share
  <1>4. /\ bill' = [p \in Periods |-> IF p \in paid THEN PaidMore(bill[p], S[p]) ELSE bill[p]]
        /\ totals' = Refreshed(bill', paid)
        /\ credit' = credit + NotBelowZero(amt - Owed(bill, Periods))
        /\ entries' = entries + NotBelowZero(amt - Owed(bill, Periods))
        /\ received' = received + w.amt
        /\ UNCHANGED <<status, refunded, made, submitted, req>>
    BY <1>3 DEF Approve
  <1>5. ASSUME NEW p \in Periods
        PROVE  /\ Given(bill[p], bill'[p], S[p]) /\ bill'[p] \in Bill
               /\ bill'[p] = IF p \in paid THEN PaidMore(bill[p], S[p]) ELSE bill[p]
    <2>1. S[p] \in Nat /\ (p \notin Owing(bill) => S[p] = 0)
      BY <1>1, <1>2, ShareTyped
    <2>2. bill'[p] = IF p \in paid THEN PaidMore(bill[p], S[p]) ELSE bill[p]
      BY <1>4
    <2>3. bill[p] \in Bill /\ Figures(bill[p])
      BY <1>2 DEF IInv, BillsFit, BillFits
    <2>4. CASE p \in paid
      <3>1. S[p] > 0 /\ bill'[p] = PaidMore(bill[p], S[p])
        BY <2>2, <2>4
      <3> HIDE DEF S, paid
      <3>2. Pays(bill[p], bill'[p], S[p])
        BY <2>1, <2>3, <3>1, PaidMoreFits
      <3> QED
        BY <2>1, <2>2, <3>1, <3>2 DEF Given, Pays
    <2>5. CASE p \notin paid
      <3>1. S[p] = 0 /\ bill'[p] = bill[p]
        BY <2>1, <2>2, <2>5
      <3> HIDE DEF S, paid
      <3>2. bill[p].paid + 0 = bill[p].paid
        BY <2>3 DEF Bill
      <3> QED
        BY <2>2, <2>3, <2>5, <3>1, <3>2 DEF Given, Pays, SameBill, SameFee
    <2> QED
      BY <2>4, <2>5
  <1>6. bill' \in [Periods -> Bill]
    <2>1. \A p \in Periods : bill'[p] \in Bill
      BY <1>5
    <2>2. bill' = [p \in Periods |-> bill'[p]]
      <3> HIDE DEF S, paid
      <3> QED
        BY <1>4
    <2> QED
      BY <2>1, <2>2
  <1> QED
    BY <1>1, <1>4, <1>5, <1>6

LEMMA ApproveSafe ==
    ASSUME IInv, NEW w, Approve(w)
    PROVE  TypeOK' /\ BillNamed' /\ Fits'
  <1> DEFINE amt == w.amt
             S == Share(bill, amt)
             paid == {p \in Owing(bill) : S[p] > 0}
             over == NotBelowZero(amt - Owed(bill, Periods))
  <1>1. /\ w \in waiting /\ amt \in Nat /\ w.period \in Periods
        /\ bill' \in [Periods -> Bill] /\ \A p \in Periods : Given(bill[p], bill'[p], S[p])
        /\ credit' = credit + over /\ entries' = entries + over
        /\ received' = received + amt
        /\ totals' = Refreshed(bill', paid)
        /\ UNCHANGED <<status, refunded, made, submitted, req>>
    BY Approved
  <1>2. /\ bill \in [Periods -> Bill] /\ credit \in Nat /\ entries \in Int /\ received \in Nat
        /\ totals \in [Periods -> Sums] /\ made \in Nat
    BY BoundsNatural DEF IInv, TypeOK
  <1>3. over \in Nat
    <2>1. Owed(bill, Periods) \in Nat
      BY <1>2, OwedGrows
    <2> QED
      BY <1>1, <2>1 DEF NotBelowZero
  <1>4. /\ totals' \in [Periods -> Sums]
        /\ \A p \in Periods : totals'[p].collected = IF p \in paid THEN bill'[p].paid
                                                     ELSE totals[p].collected
    <2>1. ASSUME NEW cs \in [Periods -> Bill]
          PROVE  /\ Refreshed(cs, paid) \in [Periods -> Sums]
                 /\ \A p \in Periods : Refreshed(cs, paid)[p].collected =
                       IF p \in paid THEN cs[p].paid ELSE totals[p].collected
      <3> HIDE DEF paid
      <3> QED
        BY <1>2, RefreshedTyped
    <2> HIDE DEF paid
    <2> QED
      BY <1>1, <2>1
  <1>5. ASSUME NEW p \in Periods
        PROVE  /\ S[p] \in Nat /\ (p \notin Owing(bill) => S[p] = 0)
               /\ Pays(bill[p], bill'[p], S[p]) /\ (S[p] = 0 => bill'[p] = bill[p])
               /\ bill[p] \in Bill /\ BillFits(bill[p], made, p) /\ Collected(p)
    <2>1. S[p] \in Nat /\ (p \notin Owing(bill) => S[p] = 0)
      <3>1. /\ Share(bill, w.amt)[p] = Allocated(bill, w.amt, p) /\ Allocated(bill, w.amt, p) \in Nat
            /\ p \notin Owing(bill) => Allocated(bill, w.amt, p) = 0
        <4>1. w.amt \in Nat
          BY <1>1
        <4> QED
          BY <1>2, <4>1, ShareTyped
      <3> QED
        BY <3>1
    <2> HIDE DEF S
    <2>2. Pays(bill[p], bill'[p], S[p]) /\ (S[p] = 0 => bill'[p] = bill[p])
      BY <1>1 DEF Given
    <2>3. bill[p] \in Bill /\ BillFits(bill[p], made, p) /\ Collected(p)
      BY <1>2 DEF IInv, BillsFit, CollectedMatches, Collected
    <2> QED
      BY <2>1, <2>2, <2>3
  <1> HIDE DEF S, over
  <1>6. ASSUME NEW p \in Periods PROVE BillFits(bill'[p], made', p)
    <2>1. /\ SameBill(bill[p], bill'[p]) /\ SameFee(bill[p], bill'[p]) /\ Figures(bill'[p])
          /\ bill'[p].total = bill[p].total
      BY <1>5 DEF Pays
    <2>2. Exists(bill'[p]) \/ bill'[p] = NoBill
      <3>1. p \in Owing(bill) => Exists(bill[p])
        BY DEF Owing, OpenBill
      <3> QED
        BY <1>5, <2>1, <3>1 DEF BillFits, SameBill, Exists
    <2> QED
      BY <1>1, <1>5, <2>1, <2>2 DEF BillFits, SameBill, SameFee, Exists
  <1>7. ASSUME NEW m \in Months, ~Shown(status'[m]) PROVE Hidden(bill'[m])
    <2>1. m \in Periods /\ Hidden(bill[m])
      BY <1>1, <1>7, PeriodsKnown DEF IInv, Unseen
    <2>2. m \notin Owing(bill)
      BY <2>1 DEF Owing, OpenBill, Hidden
    <2> QED
      BY <1>5, <2>1, <2>2
  <1>8. ASSUME NEW p \in Periods PROVE Collected(p)'
    <2>1. CASE p \in paid
      BY <1>4, <2>1 DEF Collected
    <2>2. CASE p \notin paid
      <3>1. S[p] = 0
        BY <1>5, <2>2
      <3> QED
        BY <1>4, <1>5, <2>2, <3>1 DEF Collected
    <2> QED
      BY <2>1, <2>2
  <1>9. Fits'
    BY <1>6, <1>7, <1>8 DEF Fits, BillsFit, Unseen, CollectedMatches, Collected
  <1>10. waiting' = waiting \ {w} /\ named' = named \cup {[period |-> w.period, live |-> TRUE]}
    BY DEF Approve
  <1>11. TypeOK'
    <2>1. credit' \in Nat /\ entries' \in Int /\ received' \in Nat
      BY <1>1, <1>2, <1>3
    <2> HIDE DEF paid
    <2>2. waiting' \subseteq [period : Periods, amt : Amounts]
      BY <1>10 DEF IInv, TypeOK
    <2>3. [period |-> w.period, live |-> TRUE] \in [period : Periods, live : BOOLEAN]
      BY <1>1
    <2>4. named' \subseteq [period : Periods, live : BOOLEAN]
      BY <1>10, <2>3 DEF IInv, TypeOK
    <2> QED
      BY <1>1, <1>4, <2>1, <2>2, <2>4 DEF IInv, TypeOK
  <1> QED
    BY <1>1, <1>9, <1>11, NamedStays

-----------------------------------------------------------------------------
(* The invariant, and what every step does.                                *)

\* A step is an approval, or changes one bill as BillStep says.
LEMMA StepSafe ==
    ASSUME IInv, Next
    PROVE  IInv' /\ ((\E w \in waiting : Approve(w)) \/ \E p \in Periods : BillStep(p))
  <1> DEFINE Good(p) == TypeOK' /\ BillNamed' /\ BillStep(p)
  <1>1. ASSUME NEW p \in Periods, Good(p) PROVE IInv' /\ BillStep(p)
    <2>1. made' \in Nat
      BY <1>1, BoundsNatural DEF TypeOK
    <2> QED
      BY <1>1, <2>1, BillsStayFit DEF IInv, Fits
  <1>2. CASE \E w \in waiting : Approve(w)
    BY <1>2, ApproveSafe DEF IInv, Fits
  <1>3. CASE \E p \in Periods : Good(p)
    BY <1>1, <1>3
  <1>4. Opening \in Periods /\ Months \subseteq Periods
    BY PeriodsKnown
  <1> SUFFICES ASSUME ~\E w \in waiting : Approve(w)
               PROVE  \E p \in Periods : Good(p)
    BY <1>2, <1>3
  <1>5. CASE \E m \in Months : CreatePeriod(m)
    BY <1>4, <1>5, PeriodSafe
  <1>6. CASE \E a \in Admins : RequestFails(a)
    BY <1>4, <1>6, PlainSafe
  <1>7. CASE \E a \in Admins, m \in Months : PeriodStep(a, m)
    <2>1. PICK a \in Admins, m \in Months : PeriodStep(a, m)
      BY <1>7
    <2>2. CASE Check(a, m) \/ PublishUnlocked(a, m) \/ ReadCredit(a, m)
      BY <1>4, <2>2, PlainSafe
    <2>3. CASE ClosePeriod(a, m) \/ DeletePeriod(a, m)
      BY <1>4, <2>3, PeriodSafe
    <2> QED
      BY <1>4, <2>1, <2>2, <2>3, GenerateSafe, PublishSafe, AdjustSafe DEF PeriodStep
  <1>8. CASE \E p \in Periods : Fine(p) \/ Waive(p)
    BY <1>8, FineSafe, WaiveSafe
  <1>9. CASE \E p \in Periods, amt \in Amounts : Submit(p, amt)
    BY <1>4, <1>9, PlainSafe
  <1>10. CASE \E w \in waiting : Reject(w)
    BY <1>4, <1>10, PlainSafe
  <1>11. CASE \E amt \in Amounts : SaveOpening(amt) \/ CorrectOpening(amt) \/ Refund(amt)
    BY <1>4, <1>11, PlainSafe, SaveOpeningSafe, CorrectOpeningSafe
  <1>12. CASE RemoveOpening
    BY <1>4, <1>12, RemoveOpeningSafe
  <1> QED
    BY <1>5, <1>6, <1>7, <1>8, <1>9, <1>10, <1>11, <1>12 DEF Next

LEMMA Started == Init => IInv
  <1> SUFFICES ASSUME Init PROVE IInv
    OBVIOUS
  <1>1. TypeOK
    <2>1. 0 \in 0 .. MaxBills /\ 0 \in 0 .. MaxPayments
      BY BoundsNatural
    <2>2. NoBill \in Bill /\ NoSums \in Sums
      BY NoBillFits DEF NoSums, Sums
    <2> QED
      BY <2>1, <2>2, IdleTyped DEF Init, TypeOK, Statuses
  <1>2. BillsFit
    <2>1. ASSUME NEW p \in Periods PROVE BillFits(NoBill, 0, p)
      BY NoBillFits
    <2> QED
      BY <2>1 DEF Init, BillsFit
  <1>3. Unseen /\ CollectedMatches
    BY PeriodsKnown DEF Init, Unseen, Hidden, CollectedMatches, NoBill, Exists
  <1>4. BillNamed
    BY IdleTyped DEF Init, BillNamed
  <1> QED
    BY <1>1, <1>2, <1>3, <1>4 DEF IInv

LEMMA Invariance == Spec => []IInv
  <1>1. ASSUME IInv, UNCHANGED vars PROVE IInv'
    BY <1>1 DEF IInv, TypeOK, BillsFit, BillFits, Figures, Unseen, Hidden, BillNamed, CollectedMatches,
                vars, Exists, NotBelowZero
  <1>2. IInv /\ [Next]_vars => IInv'
    BY <1>1, StepSafe
  <1> QED
    BY <1>2, Started, PTL DEF Spec

\* Type correctness, for every number of months, bills, payments and admins.
THEOREM TypeCorrect == Spec => []TypeOK
  BY Invariance, PTL DEF IInv

\* What a period's page says was collected is what its bill was paid, whichever of billing, settlement,
\* opening dues or fines touched the bill last, and however the admins' requests interleave.
THEOREM CollectedAgrees == Spec => []CollectedMatches
  BY Invariance, PTL DEF IInv

-----------------------------------------------------------------------------
(* What an approval does to the months.                                    *)

LEMMA OpenBillLacks ==
    ASSUME IInv, NEW p \in Periods, NEW y, bill[p].pending > 0, Pays(bill[p], y, bill[p].pending)
    PROVE  y.pending = 0
  <1>1. bill[p] \in Bill /\ Figures(bill[p])
    BY DEF IInv, TypeOK, BillsFit, BillFits
  <1>2. bill[p].pending = NotBelowZero(bill[p].total - bill[p].paid)
    BY <1>1 DEF Figures
  <1>3. y.pending = NotBelowZero(bill[p].total - (bill[p].paid + bill[p].pending))
    BY DEF Pays, Figures
  <1>4. bill[p].total \in Int /\ bill[p].paid \in Int
    BY <1>1 DEF Bill
  <1> QED
    BY <1>2, <1>3, <1>4 DEF NotBelowZero

\* Once more than what is owed by the months ps was paid, none of them is open.
LEMMA Filled ==
    ASSUME IInv, NEW w, Approve(w), NEW ps, \A q \in ps : Below(q) \subseteq ps,
           Owed(bill, ps) < w.amt, NEW q \in Periods, q \in ps
    PROVE  q \notin Owing(bill')
  <1> DEFINE s == Share(bill, w.amt)[q]
  <1>1. w.amt \in Nat /\ Given(bill[q], bill'[q], s)
    BY Approved
  <1>2. bill \in [Periods -> Bill]
    BY DEF IInv, TypeOK
  <1>3. CASE q \notin Owing(bill)
    <2>1. s = 0
      BY <1>1, <1>2, <1>3, ShareTyped
    <2>2. bill'[q] = bill[q]
      BY <1>1, <2>1 DEF Given
    <2> QED
      BY <1>3, <2>2 DEF Owing
  <1>4. CASE q \in Owing(bill)
    <2>1. s = bill[q].pending
      BY <1>1, <1>2, <1>4, ShareTyped, FilledBefore
    <2>2. bill[q].pending > 0
      BY <1>4 DEF Owing
    <2>3. Pays(bill[q], bill'[q], bill[q].pending)
      BY <1>1, <2>1 DEF Given
    <2>4. bill'[q].pending = 0
      BY <2>2, <2>3, OpenBillLacks
    <2> QED
      BY <2>4 DEF Owing
  <1> QED
    BY <1>3, <1>4

LEMMA OldestPaidFirst ==
    ASSUME IInv, NEW w, Approve(w), NEW p \in Periods, NEW q \in Periods, bill'[p].paid > bill[p].paid, q < p
    PROVE  q \notin Owing(bill')
  <1>1. bill \in [Periods -> Bill]
    BY DEF IInv, TypeOK
  <1>2. w.amt \in Nat /\ Given(bill[p], bill'[p], Share(bill, w.amt)[p])
    BY Approved
  <1>3. /\ Share(bill, w.amt)[p] = Allocated(bill, w.amt, p) /\ Allocated(bill, w.amt, p) \in Nat
        /\ p \notin Owing(bill) => Allocated(bill, w.amt, p) = 0
    BY <1>1, <1>2, ShareTyped
  <1>4. bill[p].paid \in Nat /\ bill[p].pending \in Nat
    BY <1>1 DEF Bill
  <1>5. Allocated(bill, w.amt, p) > 0
    BY <1>2, <1>3, <1>4 DEF Given, Pays
  <1>6. Owed(bill, Below(p)) \in Nat
    BY <1>1, OwedGrows
  <1>7. Allocated(bill, w.amt, p) = Smaller(bill[p].pending, NotBelowZero(w.amt - Owed(bill, Below(p))))
    BY <1>3, <1>5 DEF Allocated, Below
  <1>8. Owed(bill, Below(p)) < w.amt
    BY <1>2, <1>4, <1>5, <1>6, <1>7 DEF Smaller, NotBelowZero
  <1>9. \A r \in Below(p) : Below(r) \subseteq Below(p)
    BY PeriodsKnown, MonthsCounted DEF Below
  <1>10. q \in Below(p)
    BY DEF Below
  <1> QED
    BY <1>8, <1>9, <1>10, Filled

LEMMA NoneLeftOpen ==
    ASSUME IInv, NEW w, Approve(w), credit' > credit
    PROVE  Owing(bill') = {}
  <1>1. bill \in [Periods -> Bill] /\ credit \in Nat
    BY DEF IInv, TypeOK
  <1>2. w.amt \in Nat /\ credit' = credit + NotBelowZero(w.amt - Owed(bill, Periods))
    BY Approved
  <1>3. Owed(bill, Periods) \in Nat
    BY <1>1, OwedGrows
  <1>4. Owed(bill, Periods) < w.amt
    BY <1>1, <1>2, <1>3 DEF NotBelowZero
  <1>5. \A q \in Periods : q \notin Owing(bill')
    <2>1. \A q \in Periods : Below(q) \subseteq Periods
      BY DEF Below
    <2> QED
      BY <1>4, <2>1, Filled
  <1> QED
    BY <1>5 DEF Owing

LEMMA FeesKept ==
    ASSUME IInv, NEW w, Approve(w), NEW p \in Periods
    PROVE  SameFee(bill[p], bill'[p]) /\ bill'[p].published = bill[p].published
           /\ bill'[p].fee <= bill[p].fee
  <1>1. SameFee(bill[p], bill'[p]) /\ SameBill(bill[p], bill'[p]) /\ bill[p] \in Bill
    BY Approved DEF Given, Pays, IInv, TypeOK
  <1> QED
    BY <1>1 DEF SameFee, SameBill, Bill

\* A step that is no approval brings in nothing; of the bills it changes one.
LEMMA OtherStep ==
    ASSUME IInv, NEW p \in Periods, BillStep(p)
    PROVE  /\ ~(received' > received)
           /\ \A q \in Months : bill'[q].published /\ ~bill[q].published => NothingLeft(q)
           /\ \A q \in Periods : bill[q].fined /\ bill'[q].id = bill[q].id
                                 => bill'[q].fined /\ bill'[q].fee <= bill[q].fee
  <1>1. \A q \in Periods : bill[q].fee <= bill[q].fee
    BY DEF IInv, TypeOK, Bill
  <1>2. received \in Nat
    BY DEF IInv, TypeOK
  <1> QED
    BY <1>1, <1>2, PeriodsKnown DEF BillStep

\* An approved payment reaches a bill only once every older month is clear, whichever bill the payer
\* named and however many are open.
THEOREM OldestPaid == Spec => OldestFirst
  <1> DEFINE First == \A p, q \in Periods :
                 received' > received /\ bill'[p].paid > bill[p].paid /\ q < p => q \notin Owing(bill')
  <1>1. ASSUME IInv, Next PROVE First
    BY <1>1, StepSafe, OtherStep, OldestPaidFirst
  <1>2. ASSUME IInv, UNCHANGED vars PROVE First
    <2>1. received' = received /\ received \in Nat
      BY <1>2 DEF vars, IInv, TypeOK
    <2> QED
      BY <2>1
  <1>3. IInv /\ [Next]_vars => [First]_vars
    BY <1>1, <1>2
  <1> QED
    BY <1>3, Invariance, PTL DEF Spec, OldestFirst

\* No payment leaves the flat in advance beside an open bill it could have paid, and no publish leaves
\* it holding credit beside the open bill it published, but credit that came after the publish read
\* that of a flat it had not locked; whatever payments, refunds and other requests come in between.
THEOREM CreditWorks == Spec => CreditPutToWork
  <1> DEFINE Works == /\ received' > received /\ credit' > credit => Owing(bill') = {}
                      /\ \A p \in Months : bill'[p].published /\ ~bill[p].published
                            => \/ credit' = 0 \/ bill'[p].pending = 0
                               \/ \E a \in Admins : /\ Working(a, "take", p)
                                                    /\ credit' = credit - req[a].seen
             Worked == \A p \in Months : bill'[p].published /\ ~bill[p].published => NothingLeft(p)
  <1>1. ASSUME IInv, Next PROVE Works
    <2>1. ASSUME NEW w, Approve(w) PROVE Works
      BY <1>1, <2>1, NoneLeftOpen, FeesKept, PeriodsKnown
    <2>2. ASSUME NEW p \in Periods, BillStep(p) PROVE Works
      <3>1. Worked /\ ~(received' > received)
        BY <1>1, <2>2, OtherStep
      <3> QED
        BY <3>1 DEF NothingLeft
    <2> HIDE DEF Works
    <2> QED
      BY <1>1, <2>1, <2>2, StepSafe
  <1>2. ASSUME IInv, UNCHANGED vars PROVE Works
    <2>1. received' = received /\ received \in Nat /\ bill' = bill
      BY <1>2 DEF vars, IInv, TypeOK
    <2> QED
      BY <2>1
  <1>3. IInv /\ [Next]_vars => [Works]_vars
    BY <1>1, <1>2
  <1> QED
    BY <1>3, Invariance, PTL DEF Spec, CreditPutToWork

\* A bill that was fined, or whose fine was waived, is never fined again.
THEOREM NotFinedTwice == Spec => FinedOnce
  <1> DEFINE Once == \A p \in Periods : bill[p].fined /\ bill'[p].id = bill[p].id
                        => bill'[p].fined /\ bill'[p].fee <= bill[p].fee
  <1>1. ASSUME IInv, Next PROVE Once
    <2>1. ASSUME NEW w, Approve(w) PROVE Once
      BY <1>1, <2>1, FeesKept DEF SameFee
    <2> QED
      BY <1>1, <2>1, StepSafe, OtherStep
  <1>2. ASSUME IInv, UNCHANGED vars PROVE Once
    <2>1. bill' = bill /\ \A p \in Periods : bill[p].fee \in Nat
      BY <1>2 DEF vars, IInv, TypeOK, Bill
    <2> QED
      BY <2>1
  <1>3. IInv /\ [Next]_vars => [Once]_vars
    BY <1>1, <1>2
  <1> QED
    BY <1>3, Invariance, PTL DEF Spec, FinedOnce

-----------------------------------------------------------------------------
(* One admin's request at a time.                                          *)

\* No two admins change the billing periods at once; payments, fines, opening dues and refunds come at
\* any moment.  (Of two admins, one can generate a period's bills again after the other published it:
\* what was paid is then on no bill.)
OneAtATime == \A a, b \in Admins : a = b

\* What a request checked still holds.
ChecksHold == \A a \in Admins : /\ req[a].op # "idle" => req[a].period \in Months
                                /\ req[a].op \in {"generate", "adjust"} => ~Shown(status[req[a].period])

OneInv == IInv /\ ChecksHold /\ MoneyKept /\ OverpaidOnlyByWaiver

LEMMA ChecksKept ==
    ASSUME OneAtATime, IInv, ChecksHold, Next
    PROVE  ChecksHold'
  <1>1. /\ req \in [Admins -> Request] /\ status \in [Periods -> Statuses] /\ Opening \in Periods
        /\ Months \subseteq Periods /\ Opening \notin Months
    BY PeriodsKnown DEF IInv, TypeOK
  <1>2. ASSUME NEW a \in Admins, Finish(a) PROVE ChecksHold'
    <2>1. \A b \in Admins : req'[b] = Idle
      BY <1>1, <1>2 DEF OneAtATime, Finish
    <2> QED
      BY <2>1, IdleTyped DEF ChecksHold
  <1>3. ASSUME UNCHANGED <<req, status>> PROVE ChecksHold'
    BY <1>3 DEF ChecksHold
  <1>4. ASSUME NEW m \in Months, CreatePeriod(m) PROVE ChecksHold'
    BY <1>1, <1>4 DEF CreatePeriod, ChecksHold, Shown
  <1>5. ASSUME NEW amt, SaveOpening(amt) PROVE ChecksHold'
    <2>1. req' = req /\ \A m \in Months : status'[m] = status[m]
      BY <1>1, <1>5 DEF SaveOpening
    <2> QED
      BY <2>1 DEF ChecksHold
  <1>6. ASSUME NEW a \in Admins, NEW m \in Months, Check(a, m) PROVE ChecksHold'
    <2>1. PICK op \in {"generate", "publish", "close", "delete", "adjust"} :
             /\ op = "generate" => MayGenerate(status[m])
             /\ op = "adjust" => MayAdjust(status[m])
             /\ req' = [req EXCEPT ![a] = [op |-> op, period |-> m, id |-> bill[m].id, seen |-> 0]]
      BY <1>6 DEF Check
    <2>2. \A b \in Admins : req'[b] = [op |-> op, period |-> m, id |-> bill[m].id, seen |-> 0]
      BY <1>1, <2>1 DEF OneAtATime
    <2>3. status' = status
      BY <1>6 DEF Check
    <2>4. op \in {"generate", "adjust"} => ~Shown(status[m])
      BY <2>1 DEF MayGenerate, MayAdjust, Shown
    <2> QED
      BY <2>2, <2>3, <2>4 DEF ChecksHold
  <1>10. ASSUME NEW a \in Admins, NEW m \in Months, PublishUnlocked(a, m) \/ ReadCredit(a, m)
         PROVE  ChecksHold'
    <2>1. /\ Working(a, "publish", m) \/ Working(a, "show", m)
          /\ \/ req' = [req EXCEPT ![a].op = "show"]
             \/ req' = [req EXCEPT ![a].op = "take", ![a].seen = credit]
      BY <1>10 DEF PublishUnlocked, ReadCredit
    <2>2. req'[a].period = m /\ req'[a].op \in {"show", "take"} /\ \A b \in Admins : b = a
      BY <1>1, <2>1 DEF OneAtATime, Working, Request
    <2> QED
      BY <2>2 DEF ChecksHold
  <1>7. ASSUME NEW a \in Admins, NEW m \in Months, PeriodStep(a, m) PROVE ChecksHold'
    BY <1>2, <1>6, <1>7, <1>10
    DEF PeriodStep, GenerateBills, PublishPeriod, TakeCredit, ClosePeriod, DeletePeriod, AdjustBill
  <1>8. CASE \E a \in Admins : RequestFails(a)
    BY <1>2, <1>8 DEF RequestFails
  <1>9. CASE \/ \E p \in Periods : Fine(p) \/ Waive(p)
             \/ \E p \in Periods, amt \in Amounts : Submit(p, amt)
             \/ \E w \in waiting : Approve(w) \/ Reject(w)
             \/ \E amt \in Amounts : CorrectOpening(amt) \/ Refund(amt)
             \/ RemoveOpening
    BY <1>3, <1>9 DEF Fine, Waive, Submit, Approve, Reject, CorrectOpening, Refund, RemoveOpening
  <1> QED
    BY <1>4, <1>5, <1>7, <1>8, <1>9 DEF Next

LEMMA MoneyMoves ==
    ASSUME IInv, NEW p \in Periods, BillStep(p), MoneyStep(p), MoneyKept, OverpaidOnlyByWaiver, TypeOK'
    PROVE  (MoneyKept /\ OverpaidOnlyByWaiver)'
  <1> DEFINE f == [q \in Periods |-> bill[q].paid]
             g == [q \in Periods |-> bill'[q].paid]
  <1>1. \A q \in Periods : bill[q].paid \in Int /\ bill'[q].paid \in Int
    BY DEF IInv, TypeOK, Bill
  <1>2. f \in [Periods -> Int] /\ g \in [Periods -> Int] /\ \A q \in Periods \ {p} : g[q] = f[q]
    BY <1>1 DEF BillStep
  <1>3. f[p] = bill[p].paid /\ g[p] = bill'[p].paid
    OBVIOUS
  <1>4. received = SumOver(f) + credit + refunded /\ entries = credit
    BY DEF MoneyKept
  <1>5. MoneyKept' <=> received' = SumOver(g) + credit' + refunded' /\ entries' = credit'
    BY DEF MoneyKept
  <1>6. /\ bill'[p].paid + credit' + refunded' = bill[p].paid + credit + refunded
        /\ entries' = entries + (credit' - credit) /\ received' = received
    BY DEF MoneyStep, BillStep
  <1>7. /\ credit \in Int /\ credit' \in Int /\ refunded \in Int /\ refunded' \in Int /\ received \in Int
        /\ entries \in Int
    BY DEF IInv, TypeOK
  <1> HIDE DEF f, g
  <1>8. SumOver(g) = SumOver(f) - f[p] + g[p] /\ SumOver(f) \in Int
    BY <1>2, PeriodsKnown, SumUpdate, SumType
  <1>9. MoneyKept'
    <2>1. bill[p].paid \in Int /\ bill'[p].paid \in Int
      BY <1>1
    <2>2. SumOver(g) = SumOver(f) - bill[p].paid + bill'[p].paid
      BY <1>3, <1>8
    <2>3. received' = SumOver(g) + credit' + refunded'
      BY <1>4, <1>6, <1>7, <1>8, <2>1, <2>2
    <2>4. credit + (credit' - credit) = credit'
      <3>1. \A c, d \in Int : c + (d - c) = d
        OBVIOUS
      <3>2. credit \in Int /\ credit' \in Int
        BY <1>7
      <3> QED
        BY <3>1, <3>2
    <2>5. entries' = credit'
      BY <1>4, <1>6, <2>4, Zenon
    <2> QED
      BY <1>5, <2>3, <2>5
  <1>10. \A q \in Periods : FairlyPaid(bill'[q])
    <2>1. \A q \in Periods : FairlyPaid(bill[q])
      BY DEF OverpaidOnlyByWaiver, FairlyPaid
    <2> QED
      BY <2>1 DEF BillStep, MoneyStep
  <1>11. OverpaidOnlyByWaiver'
    BY <1>10 DEF OverpaidOnlyByWaiver, FairlyPaid
  <1> QED
    BY <1>9, <1>11

LEMMA ApprovalMoves ==
    ASSUME IInv, NEW w, Approve(w), MoneyKept, OverpaidOnlyByWaiver
    PROVE  (MoneyKept /\ OverpaidOnlyByWaiver)'
  <1> DEFINE f == [q \in Periods |-> bill[q].paid]
             g == [q \in Periods |-> bill'[q].paid]
             S == Share(bill, w.amt)
             over == NotBelowZero(w.amt - Owed(bill, Periods))
  <1>1. bill \in [Periods -> Bill] /\ w.amt \in Nat /\ \A p \in Periods : Given(bill[p], bill'[p], S[p])
    BY Approved DEF IInv, TypeOK
  <1>2. \A q \in Periods : S[q] \in Nat /\ S[q] <= bill[q].pending
    BY <1>1, ShareTyped
  <1>3. S = [p \in Periods |-> S[p]]
    BY DEF Share
  <1>4. received = SumOver(f) + credit + refunded /\ entries = credit
    BY DEF MoneyKept
  <1>5. MoneyKept' <=> received' = SumOver(g) + credit' + refunded' /\ entries' = credit'
    BY DEF MoneyKept
  <1>6. SumOver(S) = Smaller(w.amt, Owed(bill, Periods))
    BY <1>1, SharedOut
  <1>7. /\ credit' = credit + over /\ entries' = entries + over /\ received' = received + w.amt
        /\ refunded' = refunded
    BY Approved
  <1>8. SumOver(S) + over = w.amt /\ over \in Nat /\ SumOver(S) \in Int
    <2>1. Owed(bill, Periods) \in Nat
      BY <1>1, OwedGrows
    <2> HIDE DEF S
    <2> QED
      BY <1>1, <1>6, <2>1 DEF Smaller, NotBelowZero
  <1> HIDE DEF S, over
  <1>9. \A q \in Periods : bill[q].paid \in Int /\ bill'[q].paid = bill[q].paid + S[q]
    BY <1>1 DEF Given, Pays, Bill
  <1>10. /\ f \in [Periods -> Int] /\ S \in [Periods -> Int] /\ g \in [Periods -> Int]
         /\ \A q \in Periods : g[q] = f[q] + S[q]
    BY <1>2, <1>3, <1>9
  <1> HIDE DEF f, g
  <1>11. SumOver(g) = SumOver(f) + SumOver(S) /\ SumOver(f) \in Int
    <2>1. IsFiniteSet(Periods)
      BY PeriodsKnown
    <2>2. SumOver(f) \in Int
      BY <1>10, <2>1, SumType
    <2>3. SumOver(g) = SumOver(f) + SumOver(S)
      BY <1>10, <2>1, SumPlus
    <2> QED
      BY <2>2, <2>3
  <1>12. credit \in Int /\ refunded \in Int /\ received \in Int
    BY DEF IInv, TypeOK
  <1>13. MoneyKept'
    BY <1>1, <1>4, <1>5, <1>7, <1>8, <1>11, <1>12
  <1>14. \A q \in Periods : FairlyPaid(bill'[q])
    <2>1. \A q \in Periods : FairlyPaid(bill[q]) /\ bill[q] \in Bill /\ Figures(bill[q])
      BY DEF OverpaidOnlyByWaiver, FairlyPaid, IInv, TypeOK, BillsFit, BillFits
    <2> QED
      BY <1>1, <1>2, <2>1, PaysFairly DEF Given
  <1>15. OverpaidOnlyByWaiver'
    BY <1>14 DEF OverpaidOnlyByWaiver, FairlyPaid
  <1> QED
    BY <1>13, <1>15

LEMMA OneStep ==
    ASSUME OneAtATime, OneInv, Next
    PROVE  OneInv'
  <1>1. IInv /\ ChecksHold /\ MoneyKept /\ OverpaidOnlyByWaiver /\ IInv' /\ TypeOK'
    BY StepSafe DEF OneInv, IInv
  <1>2. ChecksHold'
    BY <1>1, ChecksKept
  <1> DEFINE Moves == (MoneyKept /\ OverpaidOnlyByWaiver)'
  <1> SUFFICES Moves
    BY <1>1, <1>2 DEF OneInv
  <1>3. Opening \in Periods /\ Months \subseteq Periods
    BY PeriodsKnown
  <1>4. ASSUME NEW p \in Periods, BillStep(p), MoneyStep(p) PROVE Moves
    BY <1>1, <1>4, MoneyMoves
  <1>5. CASE \E m \in Months : CreatePeriod(m)
    BY <1>1, <1>3, <1>4, <1>5, PeriodSafe
  <1>6. CASE \E a \in Admins : RequestFails(a)
    BY <1>1, <1>3, <1>4, <1>6, PlainSafe
  <1>7. ASSUME NEW a \in Admins, NEW m \in Months, PeriodStep(a, m) PROVE Moves
    <2>1. ASSUME Working(a, "generate", m) \/ Working(a, "adjust", m) PROVE bill[m].paid = 0
      BY <1>1, <2>1 DEF Working, ChecksHold, IInv, Unseen, Hidden
    <2>2. CASE Check(a, m) \/ PublishUnlocked(a, m) \/ ReadCredit(a, m)
      BY <1>1, <1>3, <1>4, <2>2, PlainSafe
    <2>3. CASE ClosePeriod(a, m) \/ DeletePeriod(a, m)
      BY <1>1, <1>3, <1>4, <2>3, PeriodSafe
    <2>4. CASE GenerateBills(a, m)
      BY <1>1, <1>3, <1>4, <2>1, <2>4, GenerateSafe DEF GenerateBills
    <2>5. CASE AdjustBill(a, m)
      BY <1>1, <1>3, <1>4, <2>1, <2>5, AdjustSafe DEF AdjustBill
    <2>6. CASE PublishPeriod(a, m) \/ TakeCredit(a, m)
      BY <1>1, <1>3, <1>4, <2>6, PublishSafe
    <2> QED
      BY <1>7, <2>2, <2>3, <2>4, <2>5, <2>6 DEF PeriodStep
  <1>8. CASE \E p \in Periods : Fine(p) \/ Waive(p)
    BY <1>1, <1>4, <1>8, FineSafe, WaiveSafe
  <1>9. CASE \E p \in Periods, amt \in Amounts : Submit(p, amt)
    BY <1>1, <1>3, <1>4, <1>9, PlainSafe
  <1>10. CASE \E w \in waiting : Approve(w) \/ Reject(w)
    BY <1>1, <1>3, <1>4, <1>10, PlainSafe, ApprovalMoves
  <1>11. CASE \E amt \in Amounts : SaveOpening(amt) \/ CorrectOpening(amt) \/ Refund(amt)
    BY <1>1, <1>3, <1>4, <1>11, PlainSafe, SaveOpeningSafe, CorrectOpeningSafe
  <1>12. CASE RemoveOpening
    BY <1>1, <1>3, <1>4, <1>12, RemoveOpeningSafe
  <1> QED
    BY <1>5, <1>6, <1>7, <1>8, <1>9, <1>10, <1>11, <1>12 DEF Next

LEMMA OneStarted == Init => OneInv
  <1> SUFFICES ASSUME Init PROVE OneInv
    OBVIOUS
  <1>1. \A p \in Periods : bill[p].paid = 0
    BY DEF Init, NoBill
  <1> DEFINE f == [p \in Periods |-> bill[p].paid]
  <1>2. f \in [Periods -> Int] /\ \A p \in Periods : f[p] = 0
    BY <1>1
  <1>3. SumOver(f) = 0
    <2> HIDE DEF f
    <2> QED
      BY <1>2, PeriodsKnown, SumZero
  <1>4. MoneyKept
    BY <1>3 DEF Init, MoneyKept
  <1>5. OverpaidOnlyByWaiver
    BY <1>1 DEF OverpaidOnlyByWaiver, NotBelowZero, Init, NoBill
  <1>6. ChecksHold
    BY IdleTyped DEF Init, ChecksHold
  <1> QED
    BY <1>4, <1>5, <1>6, Started DEF OneInv

LEMMA OneInvariance == ASSUME OneAtATime PROVE Spec => []OneInv
  <1>1. ASSUME OneInv, UNCHANGED vars PROVE OneInv'
    <2>1. IInv'
      BY <1>1 DEF OneInv, IInv, TypeOK, BillsFit, BillFits, Figures, Unseen, Hidden, BillNamed,
                  CollectedMatches, vars, Exists, NotBelowZero
    <2>2. UNCHANGED <<bill, received, credit, refunded, entries, req, status>>
      BY <1>1 DEF vars
    <2> QED
      BY <1>1, <2>1, <2>2 DEF OneInv, ChecksHold, MoneyKept, OverpaidOnlyByWaiver
  <1>2. OneInv /\ [Next]_vars => OneInv'
    BY <1>1, OneStep
  <1> QED
    BY <1>2, OneStarted, PTL DEF Spec

\* Every rupee an approved payment brought in is on a bill of the flat, in its advance, or was paid
\* back, and the advance is the sum of its entries, for every number of months, bills and payments,
\* as long as one admin at a time works on the billing periods.
THEOREM NoMoneyLost == OneAtATime => (Spec => []MoneyKept)
  <1> SUFFICES ASSUME OneAtATime PROVE Spec => []MoneyKept
    OBVIOUS
  <1> QED
    BY OneInvariance, PTL DEF OneInv

\* What is paid on a bill beyond its total was a fine waived after it was paid.
THEOREM OverpaidByWaiver == OneAtATime => (Spec => []OverpaidOnlyByWaiver)
  <1> SUFFICES ASSUME OneAtATime PROVE Spec => []OverpaidOnlyByWaiver
    OBVIOUS
  <1> QED
    BY OneInvariance, PTL DEF OneInv

\* A bill residents have seen is never deleted.  The hypothesis is needed: with two admins a run finds
\* a published bill made again.
THEOREM SeenStays == OneAtATime => (Spec => PublishedStays)
  <1> SUFFICES ASSUME OneAtATime PROVE Spec => PublishedStays
    OBVIOUS
  <1> DEFINE Stays == \A m \in Months : bill[m].published => bill'[m].id = bill[m].id
  <1>1. ASSUME OneInv, Next PROVE Stays
    <2>1. IInv /\ ChecksHold
      BY <1>1 DEF OneInv
    <2>2. ASSUME NEW w, Approve(w), NEW m \in Months PROVE bill'[m].id = bill[m].id
      BY <2>1, <2>2, PeriodsKnown, Approved DEF Given, Pays, SameBill
    <2>3. ASSUME NEW p \in Periods, BillStep(p), NEW m \in Months, bill[m].published
          PROVE  bill'[m].id = bill[m].id
      <3>1. ~\E a \in Admins : Working(a, "generate", m)
        BY <2>1, <2>3 DEF Working, ChecksHold, IInv, Unseen, Hidden
      <3> QED
        BY <2>3, <3>1, PeriodsKnown DEF BillStep
    <2> QED
      BY <1>1, <2>1, <2>2, <2>3, StepSafe
  <1>2. ASSUME OneInv, UNCHANGED vars PROVE Stays
    BY <1>2 DEF vars
  <1>3. OneInv /\ [Next]_vars => [Stays]_vars
    BY <1>1, <1>2
  <1> QED
    BY <1>3, OneInvariance, PTL DEF Spec, PublishedStays
=============================================================================
