---------------------------- MODULE LedgerLocks ----------------------------
(***************************************************************************)
(* The transactions that move a flat's money, statement by statement.      *)
(*                                                                         *)
(* FlatLedger takes each of them as one step.  Here a settlement, a fine,  *)
(* a refund and a publish run as Postgres runs them at READ COMMITTED (no  *)
(* transaction asks for more): a statement sees what was committed when it *)
(* starts and what its own transaction wrote, a write takes its row's lock *)
(* and keeps it to the end, and a statement that needs a locked row waits. *)
(* The share lock a bill takes on its flat does not conflict with the      *)
(* NO KEY UPDATE locks used here and is left out.                          *)
(***************************************************************************)
EXTENDS Integers, FiniteSets, Summation

CONSTANTS
    Txns,       \* the concurrent requests, one transaction each
    Kinds,      \* which kinds of transaction each request may be
    LastFlat,   \* flats 1 .. LastFlat: the order of their ids
    LastMonth,  \* months 1 .. LastMonth; bill ids are taken to be in order too
    Drafts,     \* months whose bills are not published yet
    Accounts,
    Amounts,    \* amounts of payments and refunds
    Due,        \* what each bill comes to
    Credits     \* advance credit a flat may hold at the start

Flats == 1 .. LastFlat
Months == 1 .. LastMonth
AllKinds == {"settle", "fine", "refund", "publish"}

ASSUME SizesNatural == LastFlat \in Nat /\ LastMonth \in Nat
ASSUME MoneyNatural == Amounts \subseteq Nat \ {0} /\ Due \in Nat /\ Credits \subseteq Nat
ASSUME AccountsFinite == IsFiniteSet(Accounts) /\ Accounts # {}
ASSUME KindsKnown == Kinds \in [Txns -> SUBSET AllKinds] /\ Drafts \subseteq Months

Nobody == "nobody"
ASSUME NobodyElse == Nobody \notin Txns

FlatRow(f) == <<"flat", f>>
BillRow(f, m) == <<"bill", f, m>>
PeriodRow(m) == <<"period", m>>
AccountRow(a) == <<"account", a>>
FlatRows == {FlatRow(f) : f \in Flats}
BillRows == {BillRow(f, m) : f \in Flats, m \in Months}
PeriodRows == {PeriodRow(m) : m \in Months}
AccountRows == {AccountRow(a) : a \in Accounts}
Rows == FlatRows \cup BillRows \cup PeriodRows \cup AccountRows

VARIABLES
    table,      \* the committed value of each row
    draft,      \* the value its holder gave a locked row
    holder,     \* who holds each row's lock
    txn,        \* each transaction: its arguments and the statement it is at
    received,   \* history: payments committed, those before the start included
    refunded    \* history: refunds committed

vars == <<table, draft, holder, txn, received, refunded>>

\* A flat's value is its credit, an account's its balance, a period's the sum
\* of what its bills still owe.
BillValue == [total : Nat, paid : Nat, pub : BOOLEAN, fined : BOOLEAN]
Value(r) == IF r \in BillRows THEN BillValue ELSE Nat

\* A transaction's "queue" holds the ids it has yet to lock or to sum, "todo" the
\* bills it has yet to write; "seen" is a number it read and will write.
Settlements ==
    [kind : {"settle"}, flat : Flats, acct : Accounts, amt : Amounts,
     pc : {"account", "flat", "list", "lock", "plan", "pay", "excess", "sums",
           "period", "commit"},
     queue : SUBSET Months, todo : SUBSET Months, share : [Months -> Nat], seen : Nat]
Fines == [kind : {"fine"}, pc : {"sums", "period", "commit"},
          queue : SUBSET Months, seen : Nat]
Refunds == [kind : {"refund"}, pc : {"account", "commit"}, flat : Flats,
            acct : Accounts, amt : Amounts]
Publishes ==
    [kind : {"publish"}, month : Drafts, queue : SUBSET (Flats \cup Months),
     pc : {"lock", "show", "pick", "spend", "take", "sums", "period", "status",
           "commit"},
     todo : SUBSET Flats, seen : Nat]
Waiting == [kind : {"none"}, pc : {"begin"}]
Done == [kind : AllKinds, pc : {"done"}]
Request == Waiting \cup Settlements \cup Fines \cup Refunds \cup Publishes \cup Done

TypeOK ==
    /\ table = [r \in Rows |-> table[r]] /\ draft = [r \in Rows |-> draft[r]]
    /\ \A r \in Rows : {table[r], draft[r]} \subseteq Value(r)
    /\ holder \in [Rows -> Txns \cup {Nobody}]
    /\ txn \in [Txns -> Request]
    /\ received \in Nat /\ refunded \in Nat

\* A flat with credit has paid every bill it was shown; the money that came in so
\* far is in one account, and which one does not matter: requests name any.
Init ==
    /\ \E c \in [Flats -> Credits] :
          LET home == CHOOSE a \in Accounts : TRUE
              paid(f, m) == IF c[f] > 0 /\ m \notin Drafts THEN Due ELSE 0
              owed(m) == SumOver([f \in Flats |-> Due - paid(f, m)])
          IN  /\ received = SumOver([f \in Flats |-> c[f]])
                    + SumOver([fm \in Flats \X Months |-> paid(fm[1], fm[2])])
              /\ table = [r \in Rows |->
                     IF r \in BillRows
                     THEN [total |-> Due, paid |-> paid(r[2], r[3]),
                           pub |-> r[3] \notin Drafts, fined |-> FALSE]
                     ELSE IF r[1] = "flat" THEN c[r[2]]
                     ELSE IF r[1] = "period" THEN owed(r[2])
                     ELSE IF r[2] = home THEN received ELSE 0]
    /\ draft = table
    /\ holder = [r \in Rows |-> Nobody]
    /\ txn = [t \in Txns |-> [kind |-> "none", pc |-> "begin"]]
    /\ refunded = 0

-----------------------------------------------------------------------------
(* Reading, locking, writing.                                              *)

View(t, r) == IF holder[r] = t THEN draft[r] ELSE table[r]
Free(t, r) == holder[r] \in {Nobody, t}
Pending(b) == IF b.total > b.paid THEN b.total - b.paid ELSE 0
OpenBill(b) == b.pub /\ Pending(b) > 0
Owing(t, f) == {m \in Months : OpenBill(View(t, BillRow(f, m)))}
Smaller(x, y) == IF x < y THEN x ELSE y
Oldest(ids) == CHOOSE x \in ids : \A y \in ids : x <= y
\* (Variant with a seeded fault: a settlement takes them in the order they lie in.)
TurnAsStored(t) ==
    IF txn[t].kind = "settle" /\ txn[t].flat = 1
    THEN CHOOSE x \in txn[t].queue : \A y \in txn[t].queue : y <= x
    ELSE Oldest(txn[t].queue)
\* "ORDER BY id": which of the rows it lists a transaction turns to next.
Turn(t) == Oldest(txn[t].queue)

\* The row's lock is taken, and the write applies to the value it has then.
Write(t, r, v) == /\ Free(t, r)
                  /\ holder' = [holder EXCEPT ![r] = t]
                  /\ draft' = [draft EXCEPT ![r] = v]
\* (Variant with a seeded fault: rows are selected without their locks.)
LockNothing(t, r) == UNCHANGED <<draft, holder>>

Lock(t, r) == Write(t, r, View(t, r))

At(t, kind, label) == txn[t].kind = kind /\ txn[t].pc = label
Goto(t, label) == txn' = [txn EXCEPT ![t].pc = label]
Kept == UNCHANGED <<table, received, refunded>>

\* The end of a transaction: its locks go and what it wrote, if not committed.
End(t) ==
    /\ holder' = [r \in Rows |-> IF holder[r] = t THEN Nobody ELSE holder[r]]
    /\ draft' = [r \in Rows |-> IF holder[r] = t THEN table'[r] ELSE draft[r]]
    /\ txn' = [txn EXCEPT ![t] = [kind |-> txn[t].kind, pc |-> "done"]]

Abort(t) == Kept /\ End(t)

Commit(t) ==
    /\ txn[t].pc = "commit"
    /\ table' = [r \in Rows |-> View(t, r)]
    /\ received' = IF txn[t].kind = "settle" THEN received + txn[t].amt ELSE received
    /\ refunded' = IF txn[t].kind = "refund" THEN refunded + txn[t].amt ELSE refunded
    /\ End(t)

-----------------------------------------------------------------------------
(* approve: the account, then settleOldestFirst.                           *)

BeginSettle(t) ==
    /\ txn[t].pc = "begin" /\ "settle" \in Kinds[t]
    /\ \E f \in Flats, a \in Accounts, amt \in Amounts :
          txn' = [txn EXCEPT ![t] = [kind |-> "settle", pc |-> "account", flat |-> f,
                     acct |-> a, amt |-> amt, queue |-> {}, todo |-> {},
                     share |-> [m \in Months |-> 0], seen |-> 0]]
    /\ UNCHANGED <<draft, holder>> /\ Kept

CreditAccount(t) ==
    /\ At(t, "settle", "account")
    /\ LET r == AccountRow(txn[t].acct) IN Write(t, r, View(t, r) + txn[t].amt)
    /\ Goto(t, "flat") /\ Kept

LockFlat(t) ==
    /\ At(t, "settle", "flat")
    /\ Lock(t, FlatRow(txn[t].flat))
    /\ Goto(t, "list") /\ Kept

\* The open bills the flat has when this statement starts, locked in order.
ListBills(t) ==
    /\ At(t, "settle", "list")
    /\ txn' = [txn EXCEPT ![t].pc = "lock",
                  ![t].queue = Owing(t, txn[t].flat)]
    /\ UNCHANGED <<draft, holder>> /\ Kept

LockBill(t) ==
    /\ At(t, "settle", "lock")
    /\ IF txn[t].queue = {}
       THEN Goto(t, "plan") /\ UNCHANGED <<draft, holder>>
       ELSE /\ Lock(t, BillRow(txn[t].flat, Turn(t)))
            /\ txn' = [txn EXCEPT ![t].queue = @ \ {Turn(t)}]
    /\ Kept

\* planAllocation: of what is still lacking month by month, each month's share of
\* an amount, oldest first, and what is left of it.
Lacks(t, f) ==
    [m \in Months |-> LET b == View(t, BillRow(f, m)) IN IF b.pub THEN Pending(b) ELSE 0]
Upto(lacks, m) == SumOver([k \in 1 .. m |-> lacks[k]])
Rest(amt, gone) == IF amt > gone THEN amt - gone ELSE 0
Shares(lacks, amt) ==
    [m \in Months |-> Smaller(Rest(amt, Upto(lacks, m - 1)), lacks[m])]

\* The bills are read again before they are planned for.
Plan(t) ==
    /\ At(t, "settle", "plan")
    /\ LET lacks == Lacks(t, txn[t].flat)
           share == Shares(lacks, txn[t].amt)
           paid == {m \in Months : share[m] > 0}
       IN  txn' = [txn EXCEPT ![t].pc = "pay", ![t].share = share,
                      ![t].todo = paid, ![t].queue = paid,
                      ![t].seen = Rest(txn[t].amt, Upto(lacks, LastMonth))]
    /\ UNCHANGED <<draft, holder>> /\ Kept

\* paidAmount: { increment }
More(b, amt) == [b EXCEPT !.paid = b.paid + amt]

Pay(t) ==
    /\ At(t, "settle", "pay")
    /\ IF txn[t].todo = {}
       THEN Goto(t, "excess") /\ UNCHANGED <<draft, holder>>
       ELSE LET m == Oldest(txn[t].todo)
                r == BillRow(txn[t].flat, m)
            IN  /\ Write(t, r, More(View(t, r), txn[t].share[m]))
                /\ txn' = [txn EXCEPT ![t].todo = @ \ {m}]
    /\ Kept

\* (Variant with a seeded fault: the credit is set, not increased.)
KeepExcessOnly(t) ==
    /\ At(t, "settle", "excess")
    /\ IF txn[t].seen > 0 THEN Write(t, FlatRow(txn[t].flat), txn[t].seen)
       ELSE UNCHANGED <<draft, holder>>
    /\ Goto(t, "sums") /\ Kept

\* The rest is the flat's credit; the months settled are queued for their sums.
KeepExcess(t) ==
    /\ At(t, "settle", "excess")
    /\ LET flat == FlatRow(txn[t].flat) IN Write(t, flat, View(t, flat) + txn[t].seen)
    /\ Goto(t, "sums") /\ Kept

-----------------------------------------------------------------------------
(* refreshPeriodTotals: the sums are read, then written to the period's    *)
(* row, which other transactions may have rewritten in between.            *)

ReadSums(t) ==
    /\ txn[t].pc = "sums"
    /\ IF txn[t].queue = {}
       THEN Goto(t, IF txn[t].kind = "publish" THEN "status" ELSE "commit")
       ELSE txn' = [txn EXCEPT ![t].pc = "period",
                       ![t].seen = SumOver([f \in Flats |->
                           Pending(View(t, BillRow(f, Turn(t))))])]
    /\ UNCHANGED <<draft, holder>> /\ Kept

WriteSums(t) ==
    /\ txn[t].pc = "period"
    /\ Write(t, PeriodRow(Turn(t)), txn[t].seen)
    /\ txn' = [txn EXCEPT ![t].pc = "sums", ![t].queue = @ \ {Turn(t)}]
    /\ Kept

-----------------------------------------------------------------------------
(* The late fine on one bill, and the refund of an advance.                *)

\* The claim is a conditional update: it waits for the bill, then looks again.
Fine(t) ==
    /\ txn[t].pc = "begin" /\ "fine" \in Kinds[t]
    /\ \E f \in Flats, m \in Months :
          LET r == BillRow(f, m)
              b == View(t, r)
          IN  /\ OpenBill(b) /\ ~b.fined
              /\ Write(t, r, [b EXCEPT !.total = b.total + 1, !.fined = TRUE])
              /\ txn' = [txn EXCEPT ![t] = [kind |-> "fine", pc |-> "sums",
                                            queue |-> {m}, seen |-> 0]]
    /\ Kept

BeginRefund(t) ==
    /\ txn[t].pc = "begin" /\ "refund" \in Kinds[t]
    /\ \E f \in Flats, a \in Accounts, amt \in Amounts :
          /\ Lock(t, FlatRow(f))
          /\ txn' = [txn EXCEPT ![t] = [kind |-> "refund", pc |-> "account", flat |-> f,
                        acct |-> a, amt |-> amt]]
    /\ Kept

Covered(t) == View(t, FlatRow(txn[t].flat)) >= txn[t].amt
Give(t) ==
    LET purse == AccountRow(txn[t].acct)
        flat == FlatRow(txn[t].flat)
    IN  /\ holder' = [holder EXCEPT ![purse] = t]
        /\ draft' = [draft EXCEPT ![purse] = View(t, purse) - txn[t].amt,
                                  ![flat] = View(t, flat) - txn[t].amt]
        /\ Goto(t, "commit") /\ Kept

\* (Variant with a seeded fault: the flat is not asked whether it holds as much.)
PayBackUncovered(t) ==
    /\ At(t, "refund", "account")
    /\ LET purse == AccountRow(txn[t].acct)
       IN  /\ Free(t, purse)
           /\ IF View(t, purse) >= txn[t].amt THEN Give(t) ELSE Abort(t)

\* (Variant with a seeded fault: a refused refund does not end its transaction.)
PayBackOrHang(t) ==
    /\ At(t, "refund", "account")
    /\ LET purse == AccountRow(txn[t].acct)
       IN  /\ Covered(t)
           /\ Free(t, purse) /\ View(t, purse) >= txn[t].amt
           /\ Give(t)

\* Refused unless the flat holds that much in advance; the account gives it
\* only if it has it.
PayBack(t) ==
    /\ At(t, "refund", "account")
    /\ LET purse == AccountRow(txn[t].acct)
       IN  IF ~Covered(t) THEN Abort(t)
           ELSE /\ Free(t, purse)
                /\ IF View(t, purse) >= txn[t].amt THEN Give(t) ELSE Abort(t)

-----------------------------------------------------------------------------
(* publishPeriod: the flats with credit, the bills, the credit.            *)

BeginPublish(t) ==
    /\ txn[t].pc = "begin" /\ "publish" \in Kinds[t]
    /\ \E m \in Drafts :
          txn' = [txn EXCEPT ![t] = [kind |-> "publish", pc |-> "lock", month |-> m,
                     queue |-> {f \in Flats : View(t, FlatRow(f)) > 0},
                     todo |-> Flats, seen |-> 0]]
    /\ UNCHANGED <<draft, holder>> /\ Kept

LockCreditFlat(t) ==
    /\ At(t, "publish", "lock")
    /\ IF txn[t].queue = {}
       THEN Goto(t, "show") /\ UNCHANGED <<draft, holder>>
       ELSE /\ Lock(t, FlatRow(Turn(t)))
            /\ txn' = [txn EXCEPT ![t].queue = @ \ {Turn(t)}]
    /\ Kept

\* One statement publishes every bill; two such statements are taken to walk the
\* rows in the same order.
ShowBill(t) ==
    /\ At(t, "publish", "show")
    /\ IF txn[t].todo = {}
       THEN Goto(t, "pick") /\ UNCHANGED <<draft, holder>>
       ELSE LET f == Oldest(txn[t].todo)
                r == BillRow(f, txn[t].month)
            IN  /\ Write(t, r, [View(t, r) EXCEPT !.pub = TRUE])
                /\ txn' = [txn EXCEPT ![t].todo = @ \ {f}]
    /\ Kept

\* applyCreditToPeriod: the bills of the flats that hold credit now, which a
\* payment may have given one since the flats were locked.
PickBills(t) ==
    /\ At(t, "publish", "pick")
    /\ LET holds(f) == /\ OpenBill(View(t, BillRow(f, txn[t].month)))
                       /\ View(t, FlatRow(f)) > 0
           picked == {f \in Flats : holds(f)}
       IN  txn' = [txn EXCEPT ![t].pc = "spend", ![t].todo = picked]
    /\ UNCHANGED <<draft, holder>> /\ Kept

\* Bill by bill, in the order of the flats: the credit is read without a lock ...
ReadCredit(t) ==
    /\ At(t, "publish", "spend")
    /\ IF txn[t].todo = {} THEN Goto(t, "sums")
       ELSE LET f == Oldest(txn[t].todo)
                use == Smaller(View(t, FlatRow(f)),
                               Pending(View(t, BillRow(f, txn[t].month))))
            IN  txn' = IF use > 0
                       THEN [txn EXCEPT ![t].pc = "take", ![t].seen = use]
                       ELSE [txn EXCEPT ![t].todo = @ \ {f}]
    /\ UNCHANGED <<draft, holder>> /\ Kept

\* ... and taken off the flat and put to the bill; the table's check refuses a
\* credit below zero, and with it the publish.
TakeCredit(t) ==
    /\ At(t, "publish", "take")
    /\ LET f == Oldest(txn[t].todo)
           b == BillRow(f, txn[t].month)
           left == View(t, FlatRow(f)) - txn[t].seen
       IN  /\ Free(t, FlatRow(f))
           /\ IF left < 0 THEN Abort(t)
              ELSE /\ holder' = [holder EXCEPT ![FlatRow(f)] = t]
                   /\ draft' = [draft EXCEPT ![FlatRow(f)] = left,
                                             ![b] = More(draft[b], txn[t].seen)]
                   /\ txn' = [txn EXCEPT ![t].pc = "spend", ![t].todo = @ \ {f},
                                         ![t].queue = {txn[t].month}]
                   /\ Kept

\* Last, the period's row gets its new status, which is not in the model: the row's
\* lock is.
MarkPublished(t) ==
    /\ txn[t].pc = "status"
    /\ Lock(t, PeriodRow(txn[t].month))
    /\ Goto(t, "commit") /\ Kept

-----------------------------------------------------------------------------
(* Waiting.                                                                *)

\* The row a transaction's next statement needs.
Needs(t) ==
    CASE txn[t].pc = "account" ->
            IF txn[t].kind = "refund" /\ ~Covered(t) THEN {}
            ELSE {AccountRow(txn[t].acct)}
      [] txn[t].pc = "flat" -> {FlatRow(txn[t].flat)}
      [] txn[t].pc = "period" -> {PeriodRow(Turn(t))}
      [] txn[t].pc = "status" -> {PeriodRow(txn[t].month)}
      [] txn[t].pc = "lock" /\ txn[t].queue # {} ->
            {IF txn[t].kind = "settle" THEN BillRow(txn[t].flat, Turn(t))
             ELSE FlatRow(Turn(t))}
      [] txn[t].pc = "pay" /\ txn[t].todo # {} ->
            {BillRow(txn[t].flat, Oldest(txn[t].todo))}
      [] txn[t].pc = "show" /\ txn[t].todo # {} ->
            {BillRow(Oldest(txn[t].todo), txn[t].month)}
      [] txn[t].pc = "take" -> {FlatRow(Oldest(txn[t].todo))}
      [] OTHER -> {}

\* Transactions each of which waits for a row another of them holds.
Stuck(ts) ==
    /\ ts # {}
    /\ \A t \in ts : /\ Needs(t) # {}
                     /\ \A r \in Needs(t) : holder[r] \in ts \ {t}

\* Postgres ends a deadlock by failing one of the transactions in it.
DeadlockVictim(t) ==
    /\ \E ts \in SUBSET Txns : t \in ts /\ Stuck(ts)
    /\ Abort(t)

Settle(t) == \/ BeginSettle(t) \/ CreditAccount(t) \/ LockFlat(t) \/ ListBills(t)
             \/ LockBill(t) \/ Plan(t) \/ Pay(t) \/ KeepExcess(t)
Refund(t) == BeginRefund(t) \/ PayBack(t)
Publish(t) == \/ BeginPublish(t) \/ LockCreditFlat(t) \/ ShowBill(t) \/ PickBills(t)
              \/ ReadCredit(t) \/ TakeCredit(t) \/ MarkPublished(t)
Step(t) == \/ Settle(t) \/ Fine(t) \/ Refund(t) \/ Publish(t)
           \/ ReadSums(t) \/ WriteSums(t) \/ Commit(t)

Next == \E t \in Txns : Step(t) \/ DeadlockVictim(t)

Spec == Init /\ [][Next]_vars

\* Some transaction that was begun takes its next statement while any can, and a
\* deadlock is detected.
FairSpec == /\ Spec
            /\ WF_vars(\E t \in Txns : txn[t].pc # "begin" /\ Step(t))
            /\ WF_vars(\E t \in Txns : DeadlockVictim(t))

-----------------------------------------------------------------------------
(* What the locks are for.                                                 *)

Resting == \A t \in Txns : txn[t].pc \in {"begin", "done"}
Money(r) == IF r \in BillRows THEN table[r].paid ELSE table[r]
Total(rows) == SumOver([r \in rows |-> Money(r)])

\* However the statements of payments, refunds, fines and publishes interleave,
\* and whichever of them is failed, what flats hold and have paid is what came in
\* less what went back, and so is what the accounts hold: no update is lost and
\* no credit spent twice.
MoneyMoved ==
    /\ Total(FlatRows \cup BillRows) = received - refunded
    /\ Total(AccountRows) = received - refunded

\* Two payments approved at once do not pay a bill twice over ("what keeps two
\* payments approved at the same moment from jointly overpaying").
NeverOverpaid == \A r \in BillRows : table[r].paid <= table[r].total

\* A circle: nobody in it waits for less.
Circle(ts) == Stuck(ts) /\ \A us \in SUBSET ts : Stuck(us) => us = ts

\* A publish of a month that another request has published already: nothing looks at
\* the period's status again after the publish's transaction has begun.
Republish(t) == /\ txn[t].kind = "publish"
                /\ \E f \in Flats : table[BillRow(f, txn[t].month)].pub

\* A payment being approved may wait for a publish, a fine or another payment, but
\* not in a circle with them ("so the two can never deadlock").  It can with a refund:
\* approve takes the account before the flat, refund the flat before the account.  And
\* it can with the second of two publishes of one month: the bills the second holds are
\* open to the payment, and a flat that got credit meanwhile is taken after them.
PaymentNeverDeadlocks ==
    \A ts \in SUBSET Txns :
        Circle(ts) /\ (\E t \in ts : txn[t].kind = "settle")
            => \E t \in ts : txn[t].kind = "refund" \/ Republish(t)

\* Every transaction begun ends, committed or failed: whatever waits for whom,
\* nothing stays under way for ever.
EveryOneEnds == []<>Resting

\* Once nothing is under way a period's totals are those of its bills ("keeps
\* the period totals in step").
TotalsInStep ==
    Resting => \A m \in Months :
        table[PeriodRow(m)] = SumOver([f \in Flats |-> Pending(table[BillRow(f, m)])])
=============================================================================
