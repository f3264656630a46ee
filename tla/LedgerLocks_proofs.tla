------------------------- MODULE LedgerLocks_proofs -------------------------
(***************************************************************************)
(* What the row locks of LedgerLocks are good for, for any number of       *)
(* flats, months, accounts and concurrent transactions.                    *)
(***************************************************************************)
EXTENDS LedgerLocks, Summation_proofs

USE SizesNatural, MoneyNatural, AccountsFinite, KindsKnown, NobodyElse

-----------------------------------------------------------------------------
(* Rows, and the first of a set of ids.                                    *)

LEMMA RowsApart ==
    /\ \A f, g : FlatRow(f) = FlatRow(g) => f = g
    /\ \A f, m, g, n : BillRow(f, m) = BillRow(g, n) => f = g /\ m = n
    /\ \A m, n : PeriodRow(m) = PeriodRow(n) => m = n
    /\ \A a, b : AccountRow(a) = AccountRow(b) => a = b
    /\ \A f, g, m : FlatRow(f) # BillRow(g, m)
    /\ \A f, m : FlatRow(f) # PeriodRow(m)
    /\ \A f, a : FlatRow(f) # AccountRow(a)
    /\ \A f, m, n : BillRow(f, m) # PeriodRow(n)
    /\ \A f, m, a : BillRow(f, m) # AccountRow(a)
    /\ \A m, a : PeriodRow(m) # AccountRow(a)
  BY DEF FlatRow, BillRow, PeriodRow, AccountRow

LEMMA RowsKnown ==
    /\ \A f \in Flats : FlatRow(f) \in Rows /\ FlatRow(f) \in FlatRows /\ FlatRow(f) \notin BillRows
    /\ \A f \in Flats, m \in Months : BillRow(f, m) \in Rows /\ BillRow(f, m) \in BillRows
    /\ \A m \in Months : PeriodRow(m) \in Rows /\ PeriodRow(m) \notin BillRows
    /\ \A a \in Accounts : /\ AccountRow(a) \in Rows /\ AccountRow(a) \notin BillRows
                           /\ AccountRow(a) \in AccountRows
  BY RowsApart DEF Rows, FlatRows, BillRows, PeriodRows, AccountRows

\* A set of ids that is not empty has a first one.
LEMMA FirstOf ==
    ASSUME NEW n \in Nat, NEW ids \in SUBSET (1 .. n), ids # {}
    PROVE  Oldest(ids) \in ids /\ \A x \in ids : Oldest(ids) <= x
  <1> DEFINE P == {T \in SUBSET (1 .. n) : T = {} \/ \E x \in T : \A y \in T : x <= y}
  <1>1. {} \in P
    OBVIOUS
  <1>2. ASSUME NEW T \in SUBSET (1 .. n), \A x \in T : T \ {x} \in P, T # {} PROVE T \in P
    <2>1. PICK x \in T : TRUE
      BY <1>2
    <2>2. CASE T \ {x} = {}
      <3>1. \A y \in T : x <= y
        BY <2>1, <2>2
      <3> QED
        BY <2>1, <3>1
    <2>3. CASE T \ {x} # {}
      <3>1. PICK z \in T \ {x} : \A y \in T \ {x} : z <= y
        BY <1>2, <2>1, <2>3
      <3>2. CASE x <= z
        <4>1. \A y \in T : x <= y
          BY <2>1, <3>1, <3>2
        <4> QED
          BY <2>1, <4>1
      <3>3. CASE ~(x <= z)
        <4>1. \A y \in T : z <= y
          BY <2>1, <3>1, <3>3
        <4> QED
          BY <3>1, <4>1
      <3> QED
        BY <3>2, <3>3
    <2> QED
      BY <2>2, <2>3
  <1>3. SUBSET (1 .. n) \subseteq P
    <2>1. IsFiniteSet(1 .. n)
      BY FS_Interval
    <2> HIDE DEF P
    <2> QED
      BY <1>1, <1>2, <2>1, SizeInduction
  <1>4. \E x \in ids : \A y \in ids : x <= y
    BY <1>3
  <1> QED
    BY <1>4 DEF Oldest

LEMMA TurnOf ==
    ASSUME NEW t, txn[t].queue \subseteq Months \/ txn[t].queue \subseteq Flats, txn[t].queue # {}
    PROVE  Turn(t) \in txn[t].queue /\ \A x \in txn[t].queue : Turn(t) <= x
  <1> DEFINE q == txn[t].queue
  <1>1. q \in SUBSET (1 .. LastMonth) \/ q \in SUBSET (1 .. LastFlat)
    BY DEF Months, Flats
  <1> HIDE DEF q
  <1>2. q # {} => Oldest(q) \in q /\ \A x \in q : Oldest(q) <= x
    BY <1>1, FirstOf
  <1> QED
    BY <1>2 DEF q, Turn

\* The same for the last.
LEMMA LastOf ==
    ASSUME NEW n \in Nat, NEW ids \in SUBSET (1 .. n), ids # {}
    PROVE  \E x \in ids : \A y \in ids : y <= x
  <1> DEFINE back == {n + 1 - x : x \in ids}
             z == Oldest(back)
  <1>1. back \in SUBSET (1 .. n) /\ back # {}
    <2>1. PICK x \in ids : TRUE
      OBVIOUS
    <2>2. n + 1 - x \in back
      BY <2>1
    <2>3. \A y \in ids : n + 1 - y \in 1 .. n
      OBVIOUS
    <2> QED
      BY <2>2, <2>3
  <1>2. z \in back /\ \A y \in back : z <= y
    <2> HIDE DEF back
    <2> QED
      BY <1>1, FirstOf
  <1> HIDE DEF z
  <1>3. PICK x \in ids : z = n + 1 - x
    BY <1>2
  <1>4. \A y \in ids : n + 1 - y \in back
    OBVIOUS
  <1>5. \A y \in ids : y <= x
    BY <1>2, <1>3, <1>4
  <1> QED
    BY <1>5

-----------------------------------------------------------------------------
(* Types.                                                                  *)

\* What a transaction is, by its kind.
LEMMA KindsOf ==
    ASSUME NEW w \in Request
    PROVE  /\ w.pc = "begin" => w \in Waiting
           /\ w.pc # "done" /\ w.kind = "settle" => w \in Settlements
           /\ w.pc # "done" /\ w.kind = "fine" => w \in Fines
           /\ w.pc # "done" /\ w.kind = "refund" => w \in Refunds
           /\ w.pc # "done" /\ w.kind = "publish" => w \in Publishes
           /\ w.pc \in {"plan", "pay", "excess", "list", "flat"} => w \in Settlements
           /\ w.pc \in {"show", "pick", "spend", "take", "status"} => w \in Publishes
           /\ w.pc = "lock" => w \in Settlements \cup Publishes
           /\ w.pc \in {"sums", "period"} => w \in Settlements \cup Fines \cup Publishes
           /\ w.pc = "account" => w \in Settlements \cup Refunds
           /\ w.pc = "commit" => w \in Settlements \cup Fines \cup Refunds \cup Publishes
           /\ w \in Done \/ w.pc # "done"
           /\ w.kind \in AllKinds \cup {"none"} /\ (w.kind = "none" <=> w.pc = "begin")
  BY DEF Request, Waiting, Settlements, Fines, Refunds, Publishes, Done, AllKinds

\* What a transaction's lists hold at a statement that reads them.
ListsFit(w) ==
    /\ w.pc = "period" => w.queue # {}
    /\ w.pc = "take" => w.todo # {}
    /\ w.kind = "publish" /\ w.pc = "lock" => w.queue \subseteq Flats
    /\ w.kind = "publish" /\ w.pc \notin {"lock", "done"} => w.queue \subseteq {w.month}
    /\ w.kind = "publish" /\ w.pc \in {"status", "commit"} => w.queue = {}

RowsTyped ==
    /\ table = [r \in Rows |-> table[r]] /\ draft = [r \in Rows |-> draft[r]]
    /\ \A r \in Rows : {table[r], draft[r]} \subseteq Value(r)
    /\ holder \in [Rows -> Txns \cup {Nobody}]
    /\ received \in Nat /\ refunded \in Nat

TypeInv == TypeOK /\ \A t \in Txns : ListsFit(txn[t])

\* What every step but the last of a transaction leaves alone, and the last.
LEMMA ViewTyped ==
    ASSUME TypeOK, NEW t \in Txns, NEW r \in Rows
    PROVE  /\ View(t, r) \in Value(r) /\ draft[r] \in Value(r) /\ table[r] \in Value(r)
           /\ r \in BillRows => View(t, r) \in BillValue
           /\ r \notin BillRows => View(t, r) \in Nat
  BY DEF TypeOK, View, Value

LEMMA WriteTyped ==
    ASSUME TypeOK, NEW t \in Txns, NEW r \in Rows, NEW v \in Value(r), Write(t, r, v), Kept
    PROVE  RowsTyped'
  <1>1. table' = table /\ received' = received /\ refunded' = refunded
    BY DEF Kept
  <1>2. draft' = [draft EXCEPT ![r] = v] /\ holder' = [holder EXCEPT ![r] = t]
    BY DEF Write
  <1>3. draft' = [x \in Rows |-> draft'[x]] /\ \A x \in Rows : draft'[x] = IF x = r THEN v ELSE draft[x]
    BY <1>2 DEF TypeOK
  <1>4. table' = [x \in Rows |-> table'[x]]
    BY <1>1 DEF TypeOK
  <1> QED
    BY <1>1, <1>2, <1>3, <1>4 DEF TypeOK, RowsTyped

LEMMA QuietTyped ==
    ASSUME TypeOK, UNCHANGED <<draft, holder>>, Kept
    PROVE  RowsTyped'
  BY DEF TypeOK, RowsTyped, Kept

\* Enough for a step of t: its rows are typed and so is what t becomes.
LEMMA TypedStep ==
    ASSUME TypeInv, NEW t \in Txns, NEW w \in Request, ListsFit(w),
           txn' = [txn EXCEPT ![t] = w], RowsTyped'
    PROVE  TypeInv'
  <1>1. /\ txn' \in [Txns -> Request]
        /\ \A u \in Txns : txn'[u] = IF u = t THEN w ELSE txn[u]
    BY DEF TypeInv, TypeOK
  <1>2. \A u \in Txns : ListsFit(txn'[u])
    BY <1>1 DEF TypeInv
  <1> QED
    BY <1>1, <1>2 DEF TypeInv, TypeOK, RowsTyped, ListsFit, Value, BillValue


-----------------------------------------------------------------------------
(* What each statement does: which row it writes, and what becomes of its  *)
(* transaction.                                                            *)

Turned(t) == txn' = [txn EXCEPT ![t] = txn'[t]]
Quiet == UNCHANGED <<draft, holder>> /\ Kept
Writes(t, r, v) == r \in Rows /\ v \in Value(r) /\ Write(t, r, v) /\ Kept
SameSettlement(w, n) ==
    /\ w \in Settlements /\ n \in Settlements
    /\ n.flat = w.flat /\ n.acct = w.acct /\ n.amt = w.amt
SamePublish(w, n) == w \in Publishes /\ n \in Publishes /\ n.month = w.month

LEMMA TypedChange ==
    ASSUME TypeInv, NEW t \in Txns, Turned(t), txn'[t] \in Request, ListsFit(txn'[t]),
           Quiet \/ \E r \in Rows : \E v \in Value(r) : Writes(t, r, v)
    PROVE  TypeInv'
  <1> DEFINE w == txn'[t]
  <1>0. TypeOK
    BY DEF TypeInv
  <1>1. RowsTyped'
    <2>1. CASE Quiet
      BY <1>0, <2>1, QuietTyped DEF Quiet
    <2>2. ASSUME NEW r \in Rows, NEW v \in Value(r), Writes(t, r, v)
          PROVE  RowsTyped'
      BY <1>0, <2>2, WriteTyped DEF Writes
    <2> QED
      BY <2>1, <2>2
  <1>2. txn' = [txn EXCEPT ![t] = w] /\ w \in Request /\ ListsFit(w)
    BY DEF Turned
  <1> HIDE DEF w
  <1> QED
    BY <1>1, <1>2, TypedStep

LEMMA TxnTyped ==
    ASSUME TypeInv, NEW t \in Txns
    PROVE  txn[t] \in Request /\ ListsFit(txn[t])
  BY DEF TypeInv, TypeOK

LEMMA DidBeginSettle ==
    ASSUME TypeInv, NEW t \in Txns, BeginSettle(t)
    PROVE  /\ txn[t] \in Waiting
           /\ txn'[t] \in Settlements /\ txn'[t].pc = "account"
           /\ Turned(t) /\ Quiet /\ ListsFit(txn'[t])
  <1>1. PICK f \in Flats, a \in Accounts, amt \in Amounts :
          txn' = [txn EXCEPT ![t] = [kind |-> "settle", pc |-> "account", flat |-> f,
                     acct |-> a, amt |-> amt, queue |-> {}, todo |-> {},
                     share |-> [m \in Months |-> 0], seen |-> 0]]
    BY DEF BeginSettle
  <1>2. txn'[t] = [kind |-> "settle", pc |-> "account", flat |-> f,
                     acct |-> a, amt |-> amt, queue |-> {}, todo |-> {},
                     share |-> [m \in Months |-> 0], seen |-> 0]
    BY <1>1 DEF TypeInv, TypeOK
  <1>3. txn'[t] \in Settlements /\ txn'[t].pc = "account"
    <2> DEFINE z == [m \in Months |-> 0]
    <2>1. z \in [Months -> Nat]
      OBVIOUS
    <2> HIDE DEF z
    <2> QED
      BY <1>2, <2>1 DEF Settlements, z
  <1>4. txn[t] \in Waiting
    BY TxnTyped, KindsOf DEF BeginSettle
  <1> QED
    BY <1>1, <1>2, <1>3, <1>4 DEF BeginSettle, Turned, Quiet, ListsFit, Settlements

LEMMA DidCreditAccount ==
    ASSUME TypeInv, NEW t \in Txns, CreditAccount(t)
    PROVE  /\ SameSettlement(txn[t], txn'[t]) /\ txn[t].pc = "account" /\ txn'[t].pc = "flat"
           /\ Writes(t, AccountRow(txn[t].acct), View(t, AccountRow(txn[t].acct)) + txn[t].amt)
           /\ Turned(t) /\ ListsFit(txn'[t])
  <1> DEFINE w == txn[t]
             r == AccountRow(w.acct)
  <1>1. w \in Settlements /\ w.pc = "account" /\ txn \in [Txns -> Request]
    BY TxnTyped, KindsOf DEF CreditAccount, At, TypeInv, TypeOK
  <1>2. txn'[t] = [w EXCEPT !.pc = "flat"] /\ Turned(t)
    BY <1>1 DEF CreditAccount, Goto, Turned
  <1>3. SameSettlement(w, txn'[t]) /\ txn'[t].pc = "flat" /\ ListsFit(txn'[t])
    BY <1>1, <1>2 DEF SameSettlement, Settlements, ListsFit
  <1>4. r \in Rows /\ r \notin BillRows
    BY <1>1, RowsKnown DEF Settlements
  <1>5. View(t, r) \in Nat /\ w.amt \in Nat
    BY <1>1, <1>4, ViewTyped DEF TypeInv, Settlements
  <1>6. View(t, r) + w.amt \in Value(r)
    BY <1>4, <1>5 DEF Value
  <1>7. Writes(t, r, View(t, r) + w.amt)
    BY <1>4, <1>6 DEF CreditAccount, Writes
  <1> QED
    BY <1>1, <1>2, <1>3, <1>7



LEMMA DidLockFlat ==
    ASSUME TypeInv, NEW t \in Txns, LockFlat(t)
    PROVE  /\ SameSettlement(txn[t], txn'[t]) /\ txn[t].pc = "flat" /\ txn'[t].pc = "list"
           /\ Writes(t, FlatRow(txn[t].flat), View(t, FlatRow(txn[t].flat)))
           /\ Turned(t) /\ ListsFit(txn'[t])
  <1> DEFINE w == txn[t]
             r == FlatRow(w.flat)
  <1>1. w \in Settlements /\ w.pc = "flat" /\ txn \in [Txns -> Request]
    BY TxnTyped, KindsOf DEF LockFlat, At, TypeInv, TypeOK
  <1>2. txn'[t] = [w EXCEPT !.pc = "list"] /\ Turned(t)
    BY <1>1 DEF LockFlat, Goto, Turned
  <1>3. SameSettlement(w, txn'[t]) /\ txn'[t].pc = "list" /\ ListsFit(txn'[t])
    BY <1>1, <1>2 DEF SameSettlement, Settlements, ListsFit
  <1>4. r \in Rows /\ r \notin BillRows
    BY <1>1, RowsKnown DEF Settlements
  <1>5. Writes(t, r, View(t, r))
    BY <1>4, ViewTyped DEF LockFlat, Lock, Writes, TypeInv
  <1> QED
    BY <1>1, <1>2, <1>3, <1>5

LEMMA DidListBills ==
    ASSUME TypeInv, NEW t \in Txns, ListBills(t)
    PROVE  /\ SameSettlement(txn[t], txn'[t]) /\ txn[t].pc = "list" /\ txn'[t].pc = "lock"
           /\ txn'[t].queue = Owing(t, txn[t].flat)
           /\ Quiet /\ Turned(t) /\ ListsFit(txn'[t])
  <1> DEFINE w == txn[t]
             q == Owing(t, w.flat)
  <1>1. w \in Settlements /\ w.pc = "list" /\ txn \in [Txns -> Request]
    BY TxnTyped, KindsOf DEF ListBills, At, TypeInv, TypeOK
  <1>2. q \in SUBSET Months
    BY DEF Owing
  <1>3. txn' = [txn EXCEPT ![t].pc = "lock", ![t].queue = q]
    BY DEF ListBills
  <1> HIDE DEF q
  <1>4. txn'[t] = [w EXCEPT !.pc = "lock", !.queue = q] /\ Turned(t)
    BY <1>1, <1>3 DEF Turned
  <1>5. SameSettlement(w, txn'[t]) /\ txn'[t].pc = "lock" /\ txn'[t].queue = q /\ ListsFit(txn'[t])
    BY <1>1, <1>2, <1>4 DEF SameSettlement, Settlements, ListsFit
  <1> QED
    BY <1>1, <1>4, <1>5 DEF ListBills, Quiet, q

LEMMA DidLockBill ==
    ASSUME TypeInv, NEW t \in Txns, LockBill(t)
    PROVE  /\ SameSettlement(txn[t], txn'[t]) /\ txn[t].pc = "lock"
           /\ Turned(t) /\ ListsFit(txn'[t])
           /\ \/ Quiet /\ txn'[t].pc = "plan"
              \/ /\ txn'[t].pc = "lock" /\ txn'[t].queue \subseteq txn[t].queue
                 /\ Turn(t) \in txn[t].queue
                 /\ Writes(t, BillRow(txn[t].flat, Turn(t)), View(t, BillRow(txn[t].flat, Turn(t))))
  <1> DEFINE w == txn[t]
             r == BillRow(w.flat, Turn(t))
  <1>1. w \in Settlements /\ w.pc = "lock" /\ txn \in [Txns -> Request]
    BY TxnTyped, KindsOf DEF LockBill, At, TypeInv, TypeOK, Publishes, Settlements
  <1>2. CASE w.queue = {}
    <2>1. txn'[t] = [w EXCEPT !.pc = "plan"] /\ Turned(t) /\ Quiet
      BY <1>1, <1>2 DEF LockBill, Goto, Turned, Quiet
    <2>2. SameSettlement(w, txn'[t]) /\ txn'[t].pc = "plan" /\ ListsFit(txn'[t])
      BY <1>1, <2>1 DEF SameSettlement, Settlements, ListsFit
    <2> QED
      BY <1>1, <2>1, <2>2
  <1>3. CASE w.queue # {}
    <2> DEFINE x == Turn(t)
    <2>1. x \in w.queue /\ x \in Months
      BY <1>1, <1>3, TurnOf DEF Settlements
    <2>2. txn' = [txn EXCEPT ![t].queue = @ \ {x}] /\ Lock(t, r) /\ Kept
      BY <1>3 DEF LockBill
    <2> HIDE DEF x
    <2>3. txn'[t] = [w EXCEPT !.queue = w.queue \ {x}] /\ Turned(t)
      BY <1>1, <2>2 DEF Turned
    <2>4. SameSettlement(w, txn'[t]) /\ txn'[t].pc = "lock" /\ ListsFit(txn'[t]) /\ txn'[t].queue = w.queue \ {x}
      BY <1>1, <2>3 DEF SameSettlement, Settlements, ListsFit
    <2>5. r \in Rows /\ r \in BillRows
      BY <1>1, <2>1, RowsKnown DEF Settlements, x
    <2>6. Writes(t, r, View(t, r))
      BY <2>2, <2>5, ViewTyped DEF Lock, Writes, TypeInv
    <2> QED
      BY <1>1, <2>1, <2>3, <2>4, <2>6 DEF x
  <1> QED
    BY <1>2, <1>3

LEMMA SharesTyped ==
    ASSUME NEW lacks \in [Months -> Nat], NEW amt \in Nat
    PROVE  /\ Shares(lacks, amt) \in [Months -> Nat]
           /\ \A m \in 0 .. LastMonth : Upto(lacks, m) \in Nat /\ Rest(amt, Upto(lacks, m)) \in Nat
  <1>1. ASSUME NEW m \in 0 .. LastMonth PROVE Upto(lacks, m) \in Nat
    <2> DEFINE k == [x \in 1 .. m |-> lacks[x]]
    <2>1. k \in [1 .. m -> Nat] /\ IsFiniteSet(1 .. m)
      <3>1. IsFiniteSet(1 .. m)
        BY FS_Interval
      <3>2. \A x \in 1 .. m : x \in Months
        BY DEF Months
      <3> QED
        BY <3>1, <3>2
    <2> HIDE DEF k
    <2>2. SumOver(k) \in Nat
      BY <2>1, SumNatural
    <2> QED
      BY <2>2 DEF Upto, k
  <1>2. \A m \in 0 .. LastMonth : Rest(amt, Upto(lacks, m)) \in Nat
    BY <1>1 DEF Rest
  <1>3. \A m \in Months : m - 1 \in 0 .. LastMonth
    BY DEF Months
  <1>4. \A m \in Months : Smaller(Rest(amt, Upto(lacks, m - 1)), lacks[m]) \in Nat
    BY <1>2, <1>3 DEF Smaller
  <1> QED
    BY <1>1, <1>2, <1>4 DEF Shares

LEMMA LacksTyped ==
    ASSUME TypeInv, NEW t \in Txns, NEW f \in Flats
    PROVE  Lacks(t, f) \in [Months -> Nat]
  <1>1. ASSUME NEW m \in Months PROVE View(t, BillRow(f, m)) \in BillValue
    BY RowsKnown, ViewTyped DEF TypeInv
  <1> QED
    BY <1>1 DEF Lacks, Pending, BillValue

LEMMA DidPlan ==
    ASSUME TypeInv, NEW t \in Txns, Plan(t)
    PROVE  /\ SameSettlement(txn[t], txn'[t]) /\ txn[t].pc = "plan" /\ txn'[t].pc = "pay"
           /\ txn'[t].share = Shares(Lacks(t, txn[t].flat), txn[t].amt)
           /\ txn'[t].todo = {m \in Months : txn'[t].share[m] > 0}
           /\ txn'[t].seen = Rest(txn[t].amt, Upto(Lacks(t, txn[t].flat), LastMonth))
           /\ Quiet /\ Turned(t) /\ ListsFit(txn'[t])
  <1> DEFINE w == txn[t]
             lacks == Lacks(t, w.flat)
             share == Shares(lacks, w.amt)
             paid == {m \in Months : share[m] > 0}
             rest == Rest(w.amt, Upto(lacks, LastMonth))
  <1>1. w \in Settlements /\ w.pc = "plan" /\ txn \in [Txns -> Request]
    BY TxnTyped, KindsOf DEF Plan, At, TypeInv, TypeOK
  <1>2. share \in [Months -> Nat] /\ rest \in Nat /\ paid \in SUBSET Months
    <2>1. lacks \in [Months -> Nat] /\ w.amt \in Nat
      BY <1>1, LacksTyped DEF Settlements
    <2> HIDE DEF lacks
    <2>2. LastMonth \in 0 .. LastMonth
      OBVIOUS
    <2> QED
      BY <2>1, <2>2, SharesTyped
  <1>3. txn' = [txn EXCEPT ![t].pc = "pay", ![t].share = share, ![t].todo = paid,
                           ![t].queue = paid, ![t].seen = rest]
    BY DEF Plan
  <1>4. paid = {m \in Months : share[m] > 0}
    OBVIOUS
  <1> HIDE DEF share, paid, rest
  <1>5. txn'[t] = [w EXCEPT !.pc = "pay", !.share = share, !.todo = paid,
                            !.queue = paid, !.seen = rest] /\ Turned(t)
    BY <1>1, <1>3 DEF Turned
  <1>6. /\ SameSettlement(w, txn'[t]) /\ txn'[t].pc = "pay" /\ ListsFit(txn'[t])
        /\ txn'[t].share = share /\ txn'[t].todo = paid /\ txn'[t].seen = rest
    BY <1>1, <1>2, <1>5 DEF SameSettlement, Settlements, ListsFit
  <1> QED
    BY <1>1, <1>4, <1>5, <1>6 DEF Plan, Quiet, share, rest

LEMMA MoreTyped ==
    ASSUME NEW b \in BillValue, NEW amt \in Nat
    PROVE  /\ More(b, amt) \in BillValue /\ More(b, amt).paid = b.paid + amt
           /\ More(b, amt).total = b.total /\ More(b, amt).pub = b.pub
  <1> DEFINE sum == b.paid + amt
  <1>1. sum \in Nat
    BY DEF BillValue
  <1> HIDE DEF sum
  <1>2. More(b, amt) = [b EXCEPT !.paid = sum]
    BY DEF More, sum
  <1>3. More(b, amt) \in BillValue /\ More(b, amt).paid = sum
        /\ More(b, amt).total = b.total /\ More(b, amt).pub = b.pub
    BY <1>1, <1>2 DEF BillValue
  <1> QED
    BY <1>3 DEF sum

LEMMA DidPay ==
    ASSUME TypeInv, NEW t \in Txns, Pay(t)
    PROVE  LET w == txn[t]
               m == Oldest(w.todo)
               r == BillRow(w.flat, m)
           IN  /\ SameSettlement(w, txn'[t]) /\ w.pc = "pay"
               /\ Turned(t) /\ ListsFit(txn'[t])
               /\ txn'[t].share = w.share /\ txn'[t].seen = w.seen
               /\ \/ Quiet /\ txn'[t].pc = "excess" /\ w.todo = {}
                  \/ /\ txn'[t].pc = "pay" /\ txn'[t].todo = w.todo \ {m} /\ m \in w.todo
                     /\ Writes(t, r, More(View(t, r), w.share[m]))
  <1> DEFINE w == txn[t]
             m == Oldest(w.todo)
             r == BillRow(w.flat, m)
  <1>1. w \in Settlements /\ w.pc = "pay" /\ txn \in [Txns -> Request]
    BY TxnTyped, KindsOf DEF Pay, At, TypeInv, TypeOK
  <1>2. CASE w.todo = {}
    <2>1. txn'[t] = [w EXCEPT !.pc = "excess"] /\ Turned(t) /\ Quiet
      BY <1>1, <1>2 DEF Pay, Goto, Turned, Quiet
    <2>2. /\ SameSettlement(w, txn'[t]) /\ txn'[t].pc = "excess" /\ ListsFit(txn'[t])
          /\ txn'[t].share = w.share /\ txn'[t].seen = w.seen
      BY <1>1, <2>1 DEF SameSettlement, Settlements, ListsFit
    <2> QED
      BY <1>1, <1>2, <2>1, <2>2
  <1>3. CASE w.todo # {}
    <2>1. w.todo \in SUBSET (1 .. LastMonth)
      BY <1>1 DEF Settlements, Months
    <2>2. m \in w.todo /\ m \in Months
      BY <1>3, <2>1, FirstOf DEF Months
    <2>3. txn' = [txn EXCEPT ![t].todo = @ \ {m}] /\ Write(t, r, More(View(t, r), w.share[m])) /\ Kept
      BY <1>3 DEF Pay
    <2>4. r \in Rows /\ r \in BillRows
      BY <1>1, <2>2, RowsKnown DEF Settlements
    <2>5. w.share[m] \in Nat /\ View(t, r) \in BillValue
      BY <1>1, <2>2, <2>4, ViewTyped DEF TypeInv, Settlements
    <2> HIDE DEF m
    <2>6. More(View(t, r), w.share[m]) \in Value(r)
      BY <2>4, <2>5, MoreTyped DEF Value
    <2>7. Writes(t, r, More(View(t, r), w.share[m]))
      BY <2>3, <2>4, <2>6 DEF Writes
    <2>8. txn'[t] = [w EXCEPT !.todo = w.todo \ {m}] /\ Turned(t)
      BY <1>1, <2>3 DEF Turned
    <2>9. /\ SameSettlement(w, txn'[t]) /\ txn'[t].pc = "pay" /\ ListsFit(txn'[t])
          /\ txn'[t].todo = w.todo \ {m} /\ txn'[t].share = w.share /\ txn'[t].seen = w.seen
      BY <1>1, <2>8 DEF SameSettlement, Settlements, ListsFit
    <2> QED
      BY <1>1, <2>2, <2>7, <2>8, <2>9 DEF m
  <1> QED
    BY <1>2, <1>3

LEMMA DidKeepExcess ==
    ASSUME TypeInv, NEW t \in Txns, KeepExcess(t)
    PROVE  /\ SameSettlement(txn[t], txn'[t]) /\ txn[t].pc = "excess" /\ txn'[t].pc = "sums"
           /\ Writes(t, FlatRow(txn[t].flat), View(t, FlatRow(txn[t].flat)) + txn[t].seen)
           /\ Turned(t) /\ ListsFit(txn'[t])
  <1> DEFINE w == txn[t]
             r == FlatRow(w.flat)
  <1>1. w \in Settlements /\ w.pc = "excess" /\ txn \in [Txns -> Request]
    BY TxnTyped, KindsOf DEF KeepExcess, At, TypeInv, TypeOK
  <1>2. txn'[t] = [w EXCEPT !.pc = "sums"] /\ Turned(t)
    BY <1>1 DEF KeepExcess, Goto, Turned
  <1>3. SameSettlement(w, txn'[t]) /\ txn'[t].pc = "sums" /\ ListsFit(txn'[t])
    BY <1>1, <1>2 DEF SameSettlement, Settlements, ListsFit
  <1>4. r \in Rows /\ r \notin BillRows
    BY <1>1, RowsKnown DEF Settlements
  <1>5. View(t, r) \in Nat /\ w.seen \in Nat
    BY <1>1, <1>4, ViewTyped DEF TypeInv, Settlements
  <1>6. View(t, r) + w.seen \in Value(r)
    BY <1>4, <1>5 DEF Value
  <1>7. Writes(t, r, View(t, r) + w.seen)
    BY <1>4, <1>6 DEF KeepExcess, Writes
  <1> QED
    BY <1>1, <1>2, <1>3, <1>7

\* Of whatever kind it is, a transaction that is at its sums stays what it is.
SameSummer(w, n) ==
    /\ w \in Settlements \cup Fines \cup Publishes /\ n.kind = w.kind
    /\ w \in Settlements => SameSettlement(w, n)
    /\ w \in Fines => n \in Fines
    /\ w \in Publishes => SamePublish(w, n)

LEMMA SummerTyped ==
    ASSUME NEW w \in Request, w.pc \in {"sums", "period"}, NEW n,
           \/ \E c \in Nat : n = [w EXCEPT !.pc = "period", !.seen = c]
           \/ n = [w EXCEPT !.pc = IF w.kind = "publish" THEN "status" ELSE "commit"]
    PROVE  SameSummer(w, n) /\ n.queue = w.queue
  <1>1. CASE w.kind = "settle"
    <2>1. w \in Settlements
      BY <1>1, KindsOf
    <2> QED
      BY <1>1, <2>1 DEF SameSummer, SameSettlement, Settlements, Fines, Publishes
  <1>2. CASE w.kind = "fine"
    <2>1. w \in Fines
      BY <1>2, KindsOf
    <2> QED
      BY <1>2, <2>1 DEF SameSummer, SameSettlement, Settlements, Fines, Publishes
  <1>3. CASE w.kind = "publish"
    <2>1. w \in Publishes
      BY <1>3, KindsOf
    <2> QED
      BY <1>3, <2>1 DEF SameSummer, SamePublish, Settlements, Fines, Publishes
  <1> QED
    BY <1>1, <1>2, <1>3, KindsOf DEF Settlements, Fines, Publishes

LEMMA SumsWritten ==
    ASSUME NEW w \in Request, w.pc = "period", NEW q, q \subseteq w.queue
    PROVE  /\ SameSummer(w, [w EXCEPT !.pc = "sums", !.queue = q])
           /\ [w EXCEPT !.pc = "sums", !.queue = q].queue = q
  <1>1. CASE w.kind = "settle"
    <2>1. w \in Settlements
      BY <1>1, KindsOf
    <2> QED
      BY <1>1, <2>1 DEF SameSummer, SameSettlement, Settlements, Fines, Publishes
  <1>2. CASE w.kind = "fine"
    <2>1. w \in Fines
      BY <1>2, KindsOf
    <2> QED
      BY <1>2, <2>1 DEF SameSummer, SameSettlement, Settlements, Fines, Publishes
  <1>3. CASE w.kind = "publish"
    <2>1. w \in Publishes
      BY <1>3, KindsOf
    <2> QED
      BY <1>3, <2>1 DEF SameSummer, SamePublish, Settlements, Fines, Publishes
  <1> QED
    BY <1>1, <1>2, <1>3, KindsOf DEF Settlements, Fines, Publishes

LEMMA DidReadSums ==
    ASSUME TypeInv, NEW t \in Txns, ReadSums(t)
    PROVE  LET w == txn[t]
               n == txn'[t]
           IN  /\ SameSummer(w, n) /\ w.pc = "sums" /\ n.queue = w.queue
               /\ \/ n.pc = "period"
                  \/ w.queue = {} /\ n.pc = IF w.kind = "publish" THEN "status" ELSE "commit"
               /\ Quiet /\ Turned(t) /\ ListsFit(n)
  <1> DEFINE w == txn[t]
             n == txn'[t]
             next == IF w.kind = "publish" THEN "status" ELSE "commit"
             owed == [f \in Flats |-> Pending(View(t, BillRow(f, Turn(t))))]
             c == SumOver(owed)
  <1>1. /\ w \in Request /\ w.pc = "sums" /\ txn \in [Txns -> Request] /\ ListsFit(w)
        /\ w \in Settlements \cup Fines \cup Publishes
    BY TxnTyped, KindsOf DEF ReadSums, At, TypeInv, TypeOK
  <1>2. Quiet
    BY DEF ReadSums, Quiet
  <1>3. CASE w.queue = {}
    <2>1. txn' = [txn EXCEPT ![t].pc = next]
      BY <1>3 DEF ReadSums, Goto
    <2>2. next = IF w.kind = "publish" THEN "status" ELSE "commit"
      OBVIOUS
    <2> HIDE DEF next
    <2>3. n = [w EXCEPT !.pc = next] /\ Turned(t)
      BY <1>1, <2>1 DEF Turned
    <2>4. SameSummer(w, n) /\ n.queue = w.queue
      <3>1. w.queue \in SUBSET w.queue /\ w.pc \in {"sums", "period"}
        BY <1>1
      <3> HIDE DEF w, n
      <3> QED
        BY <1>1, <2>2, <2>3, <3>1, SummerTyped
    <2>5. n.pc = next
      BY <1>1, <2>3 DEF Settlements, Fines, Publishes
    <2> QED
      BY <1>1, <1>2, <1>3, <2>2, <2>3, <2>4, <2>5 DEF ListsFit, SameSummer, SamePublish
  <1>4. CASE w.queue # {}
    <2>1. w.queue \subseteq Months
      BY <1>1 DEF Settlements, Fines, Publishes, ListsFit
    <2>2. Turn(t) \in Months
      BY <1>4, <2>1, TurnOf
    <2>3. c \in Nat
      <3>1. \A f \in Flats : View(t, BillRow(f, Turn(t))) \in BillValue
        BY <2>2, RowsKnown, ViewTyped DEF TypeInv
      <3>2. owed \in [Flats -> Nat] /\ IsFiniteSet(Flats)
        <4>1. \A f \in Flats : Pending(View(t, BillRow(f, Turn(t)))) \in Nat
          BY <3>1 DEF Pending, BillValue
        <4>2. IsFiniteSet(Flats)
          BY FS_Interval DEF Flats
        <4> QED
          BY <4>1, <4>2
      <3> HIDE DEF owed
      <3> QED
        BY <3>2, SumNatural
    <2>4. txn' = [txn EXCEPT ![t].pc = "period", ![t].seen = c]
      BY <1>4 DEF ReadSums
    <2> HIDE DEF c
    <2>5. n = [w EXCEPT !.pc = "period", !.seen = c] /\ Turned(t)
      BY <1>1, <2>4 DEF Turned
    <2>6. SameSummer(w, n) /\ n.queue = w.queue
      <3>1. w.queue \in SUBSET w.queue /\ w.pc \in {"sums", "period"}
        BY <1>1
      <3> HIDE DEF w, n
      <3> QED
        BY <1>1, <2>3, <2>5, <3>1, SummerTyped
    <2>7. n.pc = "period"
      BY <1>1, <2>5 DEF Settlements, Fines, Publishes
    <2> QED
      BY <1>1, <1>2, <1>4, <2>5, <2>6, <2>7 DEF ListsFit, SameSummer, SamePublish
  <1> QED
    BY <1>3, <1>4

LEMMA DidWriteSums ==
    ASSUME TypeInv, NEW t \in Txns, WriteSums(t)
    PROVE  LET w == txn[t]
               n == txn'[t]
           IN  /\ SameSummer(w, n) /\ w.pc = "period" /\ n.pc = "sums"
               /\ Turn(t) \in w.queue /\ \A x \in w.queue : Turn(t) <= x
               /\ w.queue \subseteq Months /\ n.queue = w.queue \ {Turn(t)}
               /\ Writes(t, PeriodRow(Turn(t)), w.seen)
               /\ Turned(t) /\ ListsFit(n)
  <1> DEFINE w == txn[t]
             n == txn'[t]
             m == Turn(t)
             q == w.queue \ {m}
  <1>1. /\ w \in Request /\ w.pc = "period" /\ txn \in [Txns -> Request] /\ ListsFit(w)
        /\ w \in Settlements \cup Fines \cup Publishes
    BY TxnTyped, KindsOf DEF WriteSums, At, TypeInv, TypeOK
  <1>2. w.queue \subseteq Months /\ w.queue # {}
    BY <1>1 DEF Settlements, Fines, Publishes, ListsFit
  <1>3. m \in w.queue /\ \A x \in w.queue : m <= x
    BY <1>2, TurnOf
  <1>4. txn' = [txn EXCEPT ![t].pc = "sums", ![t].queue = @ \ {m}]
    BY DEF WriteSums
  <1>5. PeriodRow(m) \in Rows /\ w.seen \in Value(PeriodRow(m))
    BY <1>1, <1>2, <1>3, RowsKnown DEF Settlements, Fines, Publishes, Value
  <1>6. Writes(t, PeriodRow(m), w.seen)
    BY <1>5 DEF WriteSums, Writes
  <1> HIDE DEF m
  <1>7. n = [w EXCEPT !.pc = "sums", !.queue = q] /\ Turned(t)
    BY <1>1, <1>4 DEF Turned
  <1>8. SameSummer(w, n) /\ n.queue = q
    <2>1. q \subseteq w.queue /\ w.pc = "period"
      BY <1>1
    <2>2. w \in Request /\ n = [w EXCEPT !.pc = "sums", !.queue = q]
      BY <1>1, <1>7
    <2> HIDE DEF q, w, n
    <2>3. SameSummer(w, n) /\ n.queue = q
      BY <2>1, <2>2, SumsWritten
    <2> QED
      BY <2>3
  <1>9. n.pc = "sums"
    BY <1>1, <1>7 DEF Settlements, Fines, Publishes
  <1> QED
    BY <1>1, <1>2, <1>3, <1>6, <1>7, <1>8, <1>9 DEF m, ListsFit, SameSummer, SamePublish

Fined(b) == [b EXCEPT !.total = b.total + 1, !.fined = TRUE]

LEMMA FinedTyped ==
    ASSUME NEW b \in BillValue
    PROVE  /\ Fined(b) \in BillValue /\ Fined(b).paid = b.paid
           /\ Fined(b).total = b.total + 1 /\ Fined(b).pub = b.pub
  <1> DEFINE sum == b.total + 1
  <1>1. sum \in Nat
    BY DEF BillValue
  <1> HIDE DEF sum
  <1>2. Fined(b) = [b EXCEPT !.total = sum, !.fined = TRUE]
    BY DEF Fined, sum
  <1>3. Fined(b) \in BillValue /\ Fined(b).paid = b.paid /\ Fined(b).total = sum /\ Fined(b).pub = b.pub
    BY <1>1, <1>2 DEF BillValue
  <1> QED
    BY <1>3 DEF sum

LEMMA DidFine ==
    ASSUME TypeInv, NEW t \in Txns, Fine(t)
    PROVE  /\ txn[t] \in Waiting /\ txn'[t] \in Fines /\ txn'[t].pc = "sums"
           /\ \E f \in Flats, m \in Months :
                 /\ View(t, BillRow(f, m)).pub
                 /\ Writes(t, BillRow(f, m), Fined(View(t, BillRow(f, m))))
           /\ Turned(t) /\ ListsFit(txn'[t])
  <1>1. txn[t] \in Waiting /\ txn \in [Txns -> Request]
    BY TxnTyped, KindsOf DEF Fine, TypeInv, TypeOK
  <1>2. PICK f \in Flats, m \in Months :
          /\ OpenBill(View(t, BillRow(f, m)))
          /\ Write(t, BillRow(f, m), Fined(View(t, BillRow(f, m))))
          /\ txn' = [txn EXCEPT ![t] = [kind |-> "fine", pc |-> "sums", queue |-> {m}, seen |-> 0]]
    BY DEF Fine, Fined
  <1> DEFINE r == BillRow(f, m)
  <1>3. r \in Rows /\ r \in BillRows /\ View(t, r) \in BillValue
    BY RowsKnown, ViewTyped DEF TypeInv
  <1>4. Fined(View(t, r)) \in Value(r)
    BY <1>3, FinedTyped DEF Value
  <1>5. Writes(t, r, Fined(View(t, r)))
    BY <1>2, <1>3, <1>4 DEF Fine, Writes
  <1>6. txn'[t] = [kind |-> "fine", pc |-> "sums", queue |-> {m}, seen |-> 0] /\ Turned(t)
    BY <1>1, <1>2 DEF Turned
  <1>7. txn'[t] \in Fines /\ txn'[t].pc = "sums" /\ ListsFit(txn'[t])
    BY <1>6 DEF Fines, ListsFit
  <1> QED
    BY <1>1, <1>2, <1>5, <1>6, <1>7 DEF OpenBill

LEMMA DidBeginRefund ==
    ASSUME TypeInv, NEW t \in Txns, BeginRefund(t)
    PROVE  /\ txn[t] \in Waiting /\ txn'[t] \in Refunds /\ txn'[t].pc = "account"
           /\ Writes(t, FlatRow(txn'[t].flat), View(t, FlatRow(txn'[t].flat)))
           /\ Turned(t) /\ ListsFit(txn'[t])
  <1>1. txn[t] \in Waiting /\ txn \in [Txns -> Request]
    BY TxnTyped, KindsOf DEF BeginRefund, TypeInv, TypeOK
  <1>2. PICK f \in Flats, a \in Accounts, amt \in Amounts :
          /\ Lock(t, FlatRow(f))
          /\ txn' = [txn EXCEPT ![t] = [kind |-> "refund", pc |-> "account", flat |-> f,
                        acct |-> a, amt |-> amt]]
    BY DEF BeginRefund
  <1>3. Writes(t, FlatRow(f), View(t, FlatRow(f)))
    <2>1. FlatRow(f) \in Rows
      BY RowsKnown
    <2> QED
      BY <1>2, <2>1, ViewTyped DEF BeginRefund, Lock, Writes, TypeInv
  <1>4. /\ txn'[t] = [kind |-> "refund", pc |-> "account", flat |-> f, acct |-> a, amt |-> amt]
        /\ Turned(t)
    BY <1>1, <1>2 DEF Turned
  <1>5. txn'[t] \in Refunds /\ txn'[t].pc = "account" /\ txn'[t].flat = f /\ ListsFit(txn'[t])
    BY <1>4 DEF Refunds, ListsFit
  <1> QED
    BY <1>1, <1>3, <1>4, <1>5

\* A statement that writes a row it waits for and one its transaction holds already.
WritesTwo(t, r, v, held, x) ==
    /\ r \in Rows /\ v \in Value(r) /\ held \in Rows /\ x \in Value(held) /\ r # held
    /\ Free(t, r)
    /\ holder' = [holder EXCEPT ![r] = t]
    /\ draft' = [draft EXCEPT ![r] = v, ![held] = x]
    /\ Kept

LEMMA TwoTyped ==
    ASSUME TypeInv, NEW t \in Txns, Turned(t), txn'[t] \in Request, ListsFit(txn'[t]),
           NEW r, NEW v, NEW held, NEW x, WritesTwo(t, r, v, held, x)
    PROVE  TypeInv'
  <1> DEFINE w == txn'[t]
  <1>1. table' = table /\ received' = received /\ refunded' = refunded
    BY DEF WritesTwo, Kept
  <1>2. /\ draft' = [y \in Rows |-> draft'[y]]
        /\ \A y \in Rows : draft'[y] = IF y = held THEN x ELSE IF y = r THEN v ELSE draft[y]
    BY DEF WritesTwo, TypeInv, TypeOK
  <1>3. table' = [y \in Rows |-> table'[y]] /\ holder' \in [Rows -> Txns \cup {Nobody}]
    BY <1>1 DEF WritesTwo, TypeInv, TypeOK
  <1>4. \A y \in Rows : {table'[y], draft'[y]} \subseteq Value(y)
    BY <1>1, <1>2 DEF WritesTwo, TypeInv, TypeOK
  <1>5. RowsTyped'
    BY <1>1, <1>2, <1>3, <1>4 DEF RowsTyped, TypeInv, TypeOK
  <1>6. txn' = [txn EXCEPT ![t] = w] /\ w \in Request /\ ListsFit(w)
    BY DEF Turned
  <1> HIDE DEF w
  <1> QED
    BY <1>5, <1>6, TypedStep

SameRefund(w, n) ==
    /\ w \in Refunds /\ n \in Refunds /\ n.flat = w.flat /\ n.acct = w.acct /\ n.amt = w.amt

LEMMA DidPayBack ==
    ASSUME TypeInv, NEW t \in Txns, PayBack(t)
    PROVE  LET w == txn[t]
               n == txn'[t]
               purse == AccountRow(w.acct)
               flat == FlatRow(w.flat)
           IN  /\ w \in Refunds /\ w.pc = "account"
               /\ \/ Abort(t)
                  \/ /\ SameRefund(w, n) /\ n.pc = "commit"
                     /\ WritesTwo(t, purse, View(t, purse) - w.amt, flat, View(t, flat) - w.amt)
                     /\ Turned(t) /\ ListsFit(n)
  <1> DEFINE w == txn[t]
             n == txn'[t]
             purse == AccountRow(w.acct)
             flat == FlatRow(w.flat)
  <1>1. w \in Refunds /\ w.pc = "account" /\ txn \in [Txns -> Request]
    BY TxnTyped, KindsOf DEF PayBack, At, TypeInv, TypeOK, Settlements, Refunds
  <1>2. SUFFICES ASSUME ~Abort(t)
                 PROVE  /\ SameRefund(w, n) /\ n.pc = "commit"
                        /\ WritesTwo(t, purse, View(t, purse) - w.amt, flat, View(t, flat) - w.amt)
                        /\ Turned(t) /\ ListsFit(n)
    BY <1>1
  <1>3. Free(t, purse) /\ View(t, purse) >= w.amt /\ View(t, flat) >= w.amt /\ Give(t)
    BY <1>2 DEF PayBack, Covered
  <1>4. /\ purse \in Rows /\ purse \notin BillRows /\ flat \in Rows /\ flat \notin BillRows
        /\ purse # flat
    BY <1>1, RowsKnown, RowsApart DEF Refunds
  <1>5. View(t, purse) \in Nat /\ View(t, flat) \in Nat /\ w.amt \in Nat
    BY <1>1, <1>4, ViewTyped DEF TypeInv, Refunds
  <1>6. View(t, purse) - w.amt \in Value(purse) /\ View(t, flat) - w.amt \in Value(flat)
    BY <1>3, <1>4, <1>5 DEF Value
  <1>7. WritesTwo(t, purse, View(t, purse) - w.amt, flat, View(t, flat) - w.amt)
    BY <1>3, <1>4, <1>6 DEF Give, WritesTwo
  <1>8. n = [w EXCEPT !.pc = "commit"] /\ Turned(t)
    BY <1>1, <1>3 DEF Give, Goto, Turned
  <1>9. SameRefund(w, n) /\ n.pc = "commit" /\ ListsFit(n)
    BY <1>1, <1>8 DEF SameRefund, Refunds, ListsFit
  <1> QED
    BY <1>7, <1>8, <1>9

LEMMA DidBeginPublish ==
    ASSUME TypeInv, NEW t \in Txns, BeginPublish(t)
    PROVE  /\ txn[t] \in Waiting /\ txn'[t] \in Publishes /\ txn'[t].pc = "lock"
           /\ txn'[t].todo = Flats /\ Quiet /\ Turned(t) /\ ListsFit(txn'[t])
  <1>1. txn[t] \in Waiting /\ txn \in [Txns -> Request]
    BY TxnTyped, KindsOf DEF BeginPublish, TypeInv, TypeOK
  <1> DEFINE q == {f \in Flats : View(t, FlatRow(f)) > 0}
  <1>2. q \subseteq Flats
    OBVIOUS
  <1>3. PICK m \in Drafts :
          txn' = [txn EXCEPT ![t] = [kind |-> "publish", pc |-> "lock", month |-> m,
                     queue |-> q, todo |-> Flats, seen |-> 0]]
    BY DEF BeginPublish
  <1> HIDE DEF q
  <1>4. /\ txn'[t] = [kind |-> "publish", pc |-> "lock", month |-> m,
                     queue |-> q, todo |-> Flats, seen |-> 0]
        /\ Turned(t)
    BY <1>1, <1>3 DEF Turned
  <1>5. txn'[t] \in Publishes /\ txn'[t].pc = "lock" /\ txn'[t].todo = Flats /\ ListsFit(txn'[t])
    BY <1>2, <1>4 DEF Publishes, ListsFit
  <1> QED
    BY <1>1, <1>4, <1>5 DEF BeginPublish, Quiet

LEMMA DidLockCreditFlat ==
    ASSUME TypeInv, NEW t \in Txns, LockCreditFlat(t)
    PROVE  /\ SamePublish(txn[t], txn'[t]) /\ txn[t].pc = "lock"
           /\ \/ Quiet /\ txn'[t].pc = "show"
              \/ /\ txn'[t].pc = "lock" /\ Turn(t) \in Flats
                 /\ Writes(t, FlatRow(Turn(t)), View(t, FlatRow(Turn(t))))
           /\ txn'[t].todo = txn[t].todo /\ Turned(t) /\ ListsFit(txn'[t])
  <1> DEFINE w == txn[t]
  <1>1. w \in Publishes /\ w.pc = "lock" /\ txn \in [Txns -> Request] /\ ListsFit(w)
    BY TxnTyped, KindsOf DEF LockCreditFlat, At, TypeInv, TypeOK, Publishes, Settlements
  <1>2. CASE w.queue = {}
    <2>1. txn'[t] = [w EXCEPT !.pc = "show"] /\ Turned(t) /\ Quiet
      BY <1>1, <1>2 DEF LockCreditFlat, Goto, Turned, Quiet
    <2>2. SamePublish(w, txn'[t]) /\ txn'[t].pc = "show" /\ ListsFit(txn'[t]) /\ txn'[t].todo = w.todo
      BY <1>1, <1>2, <2>1 DEF SamePublish, Publishes, ListsFit
    <2> QED
      BY <1>1, <2>1, <2>2
  <1>3. CASE w.queue # {}
    <2> DEFINE x == Turn(t)
               r == FlatRow(x)
    <2>1. x \in w.queue /\ x \in Flats
      BY <1>1, <1>3, TurnOf DEF Publishes, ListsFit
    <2>2. txn' = [txn EXCEPT ![t].queue = @ \ {x}] /\ Lock(t, r) /\ Kept
      BY <1>3 DEF LockCreditFlat
    <2>3. Writes(t, r, View(t, r))
      <3>1. r \in Rows
        BY <2>1, RowsKnown
      <3> QED
        BY <2>2, <3>1, ViewTyped DEF Lock, Writes, TypeInv
    <2> HIDE DEF x
    <2>4. txn'[t] = [w EXCEPT !.queue = w.queue \ {x}] /\ Turned(t)
      BY <1>1, <2>2 DEF Turned
    <2>5. SamePublish(w, txn'[t]) /\ txn'[t].pc = "lock" /\ ListsFit(txn'[t]) /\ txn'[t].todo = w.todo
      BY <1>1, <2>4 DEF SamePublish, Publishes, ListsFit
    <2> QED
      BY <1>1, <2>1, <2>3, <2>4, <2>5 DEF x
  <1> QED
    BY <1>2, <1>3

Shown(b) == [b EXCEPT !.pub = TRUE]

LEMMA ShownTyped ==
    ASSUME NEW b \in BillValue
    PROVE  /\ Shown(b) \in BillValue /\ Shown(b).paid = b.paid
           /\ Shown(b).total = b.total /\ Shown(b).pub
  BY DEF Shown, BillValue

LEMMA DidShowBill ==
    ASSUME TypeInv, NEW t \in Txns, ShowBill(t)
    PROVE  LET w == txn[t]
               n == txn'[t]
               f == Oldest(w.todo)
               r == BillRow(f, w.month)
           IN  /\ SamePublish(w, n) /\ w.pc = "show"
               /\ \/ Quiet /\ n.pc = "pick" /\ w.todo = {}
                  \/ /\ n.pc = "show" /\ f \in w.todo /\ n.todo = w.todo \ {f}
                     /\ Writes(t, r, Shown(View(t, r)))
               /\ Turned(t) /\ ListsFit(n)
  <1> DEFINE w == txn[t]
             n == txn'[t]
             f == Oldest(w.todo)
             r == BillRow(f, w.month)
  <1>1. w \in Publishes /\ w.pc = "show" /\ txn \in [Txns -> Request] /\ ListsFit(w)
    BY TxnTyped, KindsOf DEF ShowBill, At, TypeInv, TypeOK
  <1>2. CASE w.todo = {}
    <2>1. n = [w EXCEPT !.pc = "pick"] /\ Turned(t) /\ Quiet
      BY <1>1, <1>2 DEF ShowBill, Goto, Turned, Quiet
    <2>2. SamePublish(w, n) /\ n.pc = "pick" /\ ListsFit(n)
      BY <1>1, <2>1 DEF SamePublish, Publishes, ListsFit
    <2> QED
      BY <1>1, <1>2, <2>1, <2>2
  <1>3. CASE w.todo # {}
    <2>1. w.todo \in SUBSET (1 .. LastFlat) /\ w.month \in Months
      BY <1>1 DEF Publishes, Flats
    <2>2. f \in w.todo /\ f \in Flats
      BY <1>3, <2>1, FirstOf DEF Flats
    <2>3. txn' = [txn EXCEPT ![t].todo = @ \ {f}] /\ Write(t, r, Shown(View(t, r))) /\ Kept
      BY <1>3 DEF ShowBill, Shown
    <2>4. r \in Rows /\ r \in BillRows /\ View(t, r) \in BillValue
      BY <2>1, <2>2, RowsKnown, ViewTyped DEF TypeInv
    <2>5. Writes(t, r, Shown(View(t, r)))
      BY <2>3, <2>4, ShownTyped DEF Writes, Value
    <2> HIDE DEF f
    <2>6. n = [w EXCEPT !.todo = w.todo \ {f}] /\ Turned(t)
      BY <1>1, <2>3 DEF Turned
    <2>7. SamePublish(w, n) /\ n.pc = "show" /\ n.todo = w.todo \ {f} /\ ListsFit(n)
      BY <1>1, <2>6 DEF SamePublish, Publishes, ListsFit
    <2> QED
      BY <1>1, <2>2, <2>5, <2>6, <2>7 DEF f
  <1> QED
    BY <1>2, <1>3

LEMMA DidPickBills ==
    ASSUME TypeInv, NEW t \in Txns, PickBills(t)
    PROVE  /\ SamePublish(txn[t], txn'[t]) /\ txn[t].pc = "pick" /\ txn'[t].pc = "spend"
           /\ txn'[t].queue = txn[t].queue /\ Quiet /\ Turned(t) /\ ListsFit(txn'[t])
  <1> DEFINE w == txn[t]
             picked == {f \in Flats : OpenBill(View(t, BillRow(f, w.month))) /\ View(t, FlatRow(f)) > 0}
  <1>1. w \in Publishes /\ w.pc = "pick" /\ txn \in [Txns -> Request] /\ ListsFit(w)
    BY TxnTyped, KindsOf DEF PickBills, At, TypeInv, TypeOK
  <1>2. picked \in SUBSET Flats
    OBVIOUS
  <1>3. txn' = [txn EXCEPT ![t].pc = "spend", ![t].todo = picked]
    BY DEF PickBills
  <1> HIDE DEF picked
  <1>4. txn'[t] = [w EXCEPT !.pc = "spend", !.todo = picked] /\ Turned(t)
    BY <1>1, <1>3 DEF Turned
  <1>5. SamePublish(w, txn'[t]) /\ txn'[t].pc = "spend" /\ txn'[t].queue = w.queue /\ ListsFit(txn'[t])
    BY <1>1, <1>2, <1>4 DEF SamePublish, Publishes, ListsFit
  <1> QED
    BY <1>1, <1>4, <1>5 DEF PickBills, Quiet

LEMMA DidReadCredit ==
    ASSUME TypeInv, NEW t \in Txns, ReadCredit(t)
    PROVE  LET w == txn[t]
               n == txn'[t]
               f == Oldest(w.todo)
               b == View(t, BillRow(f, w.month))
           IN  /\ SamePublish(w, n) /\ w.pc = "spend" /\ n.queue = w.queue
               /\ \/ n.pc = "sums" \/ n.pc = "spend"
                  \/ /\ n.pc = "take" /\ n.todo = w.todo /\ f \in Flats
                     /\ n.seen > 0 /\ n.seen <= Pending(b)
               /\ Quiet /\ Turned(t) /\ ListsFit(n)
  <1> DEFINE w == txn[t]
             n == txn'[t]
             f == Oldest(w.todo)
             b == View(t, BillRow(f, w.month))
             use == Smaller(View(t, FlatRow(f)), Pending(b))
  <1>1. w \in Publishes /\ w.pc = "spend" /\ txn \in [Txns -> Request] /\ ListsFit(w)
    BY TxnTyped, KindsOf DEF ReadCredit, At, TypeInv, TypeOK
  <1>2. Quiet
    BY DEF ReadCredit, Quiet
  <1>3. CASE w.todo = {}
    <2>1. n = [w EXCEPT !.pc = "sums"] /\ Turned(t)
      BY <1>1, <1>3 DEF ReadCredit, Goto, Turned
    <2>2. SamePublish(w, n) /\ n.pc = "sums" /\ n.queue = w.queue /\ ListsFit(n)
      BY <1>1, <2>1 DEF SamePublish, Publishes, ListsFit
    <2> QED
      BY <1>1, <1>2, <2>1, <2>2
  <1>4. CASE w.todo # {}
    <2>1. w.todo \in SUBSET (1 .. LastFlat) /\ w.month \in Months
      BY <1>1 DEF Publishes, Flats
    <2>2. f \in w.todo /\ f \in Flats
      BY <1>4, <2>1, FirstOf DEF Flats
    <2>3. b \in BillValue /\ View(t, FlatRow(f)) \in Nat
      BY <2>1, <2>2, RowsKnown, ViewTyped DEF TypeInv
    <2>4. use \in Nat /\ use <= Pending(b)
      BY <2>3 DEF Smaller, Pending, BillValue
    <2>5. txn' = IF use > 0 THEN [txn EXCEPT ![t].pc = "take", ![t].seen = use]
                 ELSE [txn EXCEPT ![t].todo = @ \ {f}]
      BY <1>4 DEF ReadCredit
    <2>6. Pending(b) \in Nat
      BY <2>3 DEF Pending, BillValue
    <2> HIDE DEF use, f
    <2>7. CASE use > 0
      <3>1. n = [w EXCEPT !.pc = "take", !.seen = use] /\ Turned(t)
        BY <1>1, <2>5, <2>7 DEF Turned
      <3>2. /\ SamePublish(w, n) /\ n.pc = "take" /\ n.queue = w.queue /\ n.todo = w.todo
            /\ n.seen = use /\ ListsFit(n)
        BY <1>1, <1>4, <2>4, <3>1 DEF SamePublish, Publishes, ListsFit
      <3> QED
        BY <1>1, <1>2, <2>2, <2>4, <2>7, <3>1, <3>2 DEF f
    <2>8. CASE ~(use > 0)
      <3>1. n = [w EXCEPT !.todo = w.todo \ {f}] /\ Turned(t)
        BY <1>1, <2>5, <2>8 DEF Turned
      <3>2. SamePublish(w, n) /\ n.pc = "spend" /\ n.queue = w.queue /\ ListsFit(n)
        BY <1>1, <3>1 DEF SamePublish, Publishes, ListsFit
      <3> QED
        BY <1>1, <1>2, <3>1, <3>2
    <2> QED
      BY <2>7, <2>8
  <1> QED
    BY <1>3, <1>4

LEMMA DidTakeCredit ==
    ASSUME TypeInv, NEW t \in Txns, TakeCredit(t)
    PROVE  LET w == txn[t]
               n == txn'[t]
               f == Oldest(w.todo)
               b == BillRow(f, w.month)
           IN  /\ w \in Publishes /\ w.pc = "take" /\ f \in w.todo /\ f \in Flats
               /\ \/ Abort(t)
                  \/ /\ SamePublish(w, n) /\ n.pc = "spend"
                     /\ WritesTwo(t, FlatRow(f), View(t, FlatRow(f)) - w.seen, b, More(draft[b], w.seen))
                     /\ Turned(t) /\ ListsFit(n)
  <1> DEFINE w == txn[t]
             n == txn'[t]
             f == Oldest(w.todo)
             b == BillRow(f, w.month)
             left == View(t, FlatRow(f)) - w.seen
  <1>1. w \in Publishes /\ w.pc = "take" /\ txn \in [Txns -> Request] /\ ListsFit(w)
    BY TxnTyped, KindsOf DEF TakeCredit, At, TypeInv, TypeOK
  <1>2. w.todo \in SUBSET (1 .. LastFlat) /\ w.month \in Months /\ w.todo # {} /\ w.seen \in Nat
    BY <1>1 DEF Publishes, Flats, ListsFit
  <1>3. f \in w.todo /\ f \in Flats
    BY <1>2, FirstOf DEF Flats
  <1>4. SUFFICES ASSUME ~Abort(t)
                 PROVE  /\ SamePublish(w, n) /\ n.pc = "spend"
                        /\ WritesTwo(t, FlatRow(f), left, b, More(draft[b], w.seen))
                        /\ Turned(t) /\ ListsFit(n)
    BY <1>1, <1>3
  <1>5. /\ b \in Rows /\ b \in BillRows /\ FlatRow(f) \in Rows /\ FlatRow(f) \notin BillRows
        /\ FlatRow(f) # b
    BY <1>2, <1>3, RowsKnown, RowsApart
  <1>6. View(t, FlatRow(f)) \in Nat /\ draft[b] \in BillValue
    BY <1>5, ViewTyped DEF TypeInv, Value
  <1>7. /\ ~(left < 0) /\ Free(t, FlatRow(f)) /\ Kept
        /\ holder' = [holder EXCEPT ![FlatRow(f)] = t]
        /\ draft' = [draft EXCEPT ![FlatRow(f)] = left, ![b] = More(draft[b], w.seen)]
        /\ txn' = [txn EXCEPT ![t].pc = "spend", ![t].todo = @ \ {f}, ![t].queue = {w.month}]
    BY <1>4 DEF TakeCredit
  <1>8. left \in Value(FlatRow(f)) /\ More(draft[b], w.seen) \in Value(b)
    <2>1. left \in Nat
      BY <1>2, <1>6, <1>7
    <2>2. More(draft[b], w.seen) \in BillValue
      BY <1>2, <1>6, MoreTyped
    <2> QED
      BY <1>5, <2>1, <2>2 DEF Value
  <1>9. WritesTwo(t, FlatRow(f), left, b, More(draft[b], w.seen))
    BY <1>5, <1>7, <1>8 DEF WritesTwo
  <1> HIDE DEF f
  <1>10. n = [w EXCEPT !.pc = "spend", !.todo = w.todo \ {f}, !.queue = {w.month}] /\ Turned(t)
    BY <1>1, <1>7 DEF Turned
  <1>11. SamePublish(w, n) /\ n.pc = "spend" /\ ListsFit(n)
    <2> DEFINE q == {w.month}
               p == w.todo \ {f}
    <2>1. q \in SUBSET (Flats \cup Months) /\ q = {w.month} /\ p \in SUBSET Flats
      BY <1>1, <1>2 DEF Publishes
    <2>2. n = [w EXCEPT !.pc = "spend", !.todo = p, !.queue = q]
      BY <1>10
    <2> HIDE DEF q, p
    <2>3. SamePublish(w, n) /\ n.pc = "spend" /\ n.kind = "publish" /\ n.queue = q
      BY <1>1, <2>1, <2>2 DEF SamePublish, Publishes
    <2> QED
      BY <2>1, <2>3 DEF ListsFit, SamePublish
  <1> QED
    BY <1>9, <1>10, <1>11

LEMMA DidMarkPublished ==
    ASSUME TypeInv, NEW t \in Txns, MarkPublished(t)
    PROVE  /\ SamePublish(txn[t], txn'[t]) /\ txn[t].pc = "status" /\ txn'[t].pc = "commit"
           /\ txn'[t].queue = txn[t].queue
           /\ Writes(t, PeriodRow(txn[t].month), View(t, PeriodRow(txn[t].month)))
           /\ Turned(t) /\ ListsFit(txn'[t])
  <1> DEFINE w == txn[t]
             r == PeriodRow(w.month)
  <1>1. w \in Publishes /\ w.pc = "status" /\ txn \in [Txns -> Request] /\ ListsFit(w)
    BY TxnTyped, KindsOf DEF MarkPublished, TypeInv, TypeOK
  <1>2. txn'[t] = [w EXCEPT !.pc = "commit"] /\ Turned(t)
    BY <1>1 DEF MarkPublished, Goto, Turned
  <1>3. SamePublish(w, txn'[t]) /\ txn'[t].pc = "commit" /\ txn'[t].queue = w.queue /\ ListsFit(txn'[t])
    BY <1>1, <1>2 DEF SamePublish, Publishes, ListsFit
  <1>4. r \in Rows
    BY <1>1, RowsKnown DEF Publishes
  <1>5. Writes(t, r, View(t, r))
    BY <1>4, ViewTyped DEF MarkPublished, Lock, Writes, TypeInv
  <1> QED
    BY <1>1, <1>2, <1>3, <1>5

\* The end of a transaction, committed or not.
Ends(t) ==
    /\ holder' = [r \in Rows |-> IF holder[r] = t THEN Nobody ELSE holder[r]]
    /\ draft' = [r \in Rows |-> IF holder[r] = t THEN table'[r] ELSE draft[r]]
    /\ txn'[t] \in Done /\ Turned(t)

LEMMA DidEnd ==
    ASSUME TypeInv, NEW t \in Txns, txn[t].kind \in AllKinds, End(t),
           table' = [r \in Rows |-> table'[r]], \A r \in Rows : table'[r] \in Value(r),
           received' \in Nat, refunded' \in Nat
    PROVE  Ends(t) /\ TypeInv'
  <1> DEFINE n == [kind |-> txn[t].kind, pc |-> "done"]
  <1>1. n \in Done /\ n \in Request /\ ListsFit(n)
    BY DEF Done, Request, ListsFit
  <1>2. txn' = [txn EXCEPT ![t] = n]
    BY DEF End
  <1> HIDE DEF n
  <1>3. txn'[t] = n
    BY <1>2 DEF TypeInv, TypeOK
  <1>4. Ends(t)
    BY <1>1, <1>2, <1>3 DEF End, Ends, Turned
  <1>5. RowsTyped'
    <2>1. draft' = [r \in Rows |-> draft'[r]] /\ \A r \in Rows : draft'[r] \in Value(r)
      BY DEF End, TypeInv, TypeOK
    <2>2. holder' \in [Rows -> Txns \cup {Nobody}]
      BY DEF End, TypeInv, TypeOK
    <2> QED
      BY <2>1, <2>2 DEF RowsTyped
  <1> QED
    BY <1>1, <1>2, <1>4, <1>5, TypedStep

LEMMA DidAbort ==
    ASSUME TypeInv, NEW t \in Txns, txn[t].kind \in AllKinds, Abort(t)
    PROVE  Ends(t) /\ Kept /\ TypeInv'
  BY DidEnd DEF Abort, Kept, TypeInv, TypeOK

LEMMA DidCommit ==
    ASSUME TypeInv, NEW t \in Txns, Commit(t)
    PROVE  LET w == txn[t]
           IN  /\ Ends(t) /\ TypeInv' /\ w.pc = "commit"
               /\ w \in Settlements \cup Fines \cup Refunds \cup Publishes
               /\ table' = [r \in Rows |-> View(t, r)]
               /\ received' = IF w \in Settlements THEN received + w.amt ELSE received
               /\ refunded' = IF w \in Refunds THEN refunded + w.amt ELSE refunded
  <1> DEFINE w == txn[t]
  <1>1. w.pc = "commit" /\ w \in Settlements \cup Fines \cup Refunds \cup Publishes
    BY TxnTyped, KindsOf DEF Commit
  <1>2. /\ w.kind \in AllKinds /\ (w.kind = "settle" <=> w \in Settlements)
        /\ (w.kind = "refund" <=> w \in Refunds)
    BY <1>1 DEF AllKinds, Settlements, Fines, Refunds, Publishes
  <1>3. (w \in Settlements => w.amt \in Nat) /\ (w \in Refunds => w.amt \in Nat)
    BY DEF Settlements, Refunds
  <1>4. /\ received' = IF w \in Settlements THEN received + w.amt ELSE received
        /\ refunded' = IF w \in Refunds THEN refunded + w.amt ELSE refunded
    BY <1>2 DEF Commit
  <1>5. received' \in Nat /\ refunded' \in Nat
    <2>1. received \in Nat /\ refunded \in Nat
      BY DEF TypeInv, TypeOK
    <2> QED
      BY <1>3, <1>4, <2>1
  <1>6. table' = [r \in Rows |-> View(t, r)] /\ End(t)
    BY DEF Commit
  <1>7. table' = [r \in Rows |-> table'[r]] /\ \A r \in Rows : table'[r] \in Value(r)
    BY <1>6, ViewTyped DEF TypeInv
  <1>8. Ends(t) /\ TypeInv'
    BY <1>2, <1>5, <1>6, <1>7, DidEnd
  <1> QED
    BY <1>1, <1>4, <1>6, <1>8

LEMMA DidDeadlockVictim ==
    ASSUME TypeInv, NEW t \in Txns, DeadlockVictim(t)
    PROVE  Ends(t) /\ Kept /\ TypeInv'
  <1>1. Needs(t) # {}
    BY DEF DeadlockVictim, Stuck
  <1>2. txn[t].pc # "begin"
    BY <1>1 DEF Needs
  <1>3. txn[t].kind \in AllKinds
    BY <1>2, TxnTyped, KindsOf
  <1> QED
    BY <1>3, DidAbort DEF DeadlockVictim

-----------------------------------------------------------------------------
(* The variables keep their types.                                         *)

LEMMA StepTyped ==
    ASSUME TypeInv, NEW t \in Txns, Step(t) \/ DeadlockVictim(t)
    PROVE  TypeInv'
  <1> DEFINE n == txn'[t]
             Kinded == n \in Waiting \cup Settlements \cup Fines \cup Refunds \cup Publishes
             OneRow == \E r \in Rows : \E v \in Value(r) : Writes(t, r, v)
  <1>1. ASSUME Kinded, Turned(t), ListsFit(n), Quiet \/ OneRow PROVE TypeInv'
    <2>1. n \in Request
      BY <1>1 DEF Request
    <2> QED
      BY <1>1, <2>1, TypedChange
  <1>2. ASSUME Kinded, Turned(t), ListsFit(n), NEW r, NEW v, NEW held, NEW x, WritesTwo(t, r, v, held, x)
        PROVE  TypeInv'
    <2>1. n \in Request
      BY <1>2 DEF Request
    <2> QED
      BY <1>2, <2>1, TwoTyped
  <1>3. ASSUME NEW r, NEW v, Writes(t, r, v) PROVE OneRow
    BY <1>3 DEF Writes
  <1> HIDE DEF OneRow
  <1>4. CASE BeginSettle(t)
    BY <1>1, <1>4, DidBeginSettle DEF SameSettlement, SamePublish, SameSummer
  <1>5. CASE CreditAccount(t)
    BY <1>1, <1>3, <1>5, DidCreditAccount DEF SameSettlement, SamePublish, SameSummer
  <1>6. CASE LockFlat(t)
    BY <1>1, <1>3, <1>6, DidLockFlat DEF SameSettlement, SamePublish, SameSummer
  <1>7. CASE ListBills(t)
    BY <1>1, <1>7, DidListBills DEF SameSettlement, SamePublish, SameSummer
  <1>8. CASE LockBill(t)
    BY <1>1, <1>3, <1>8, DidLockBill DEF SameSettlement, SamePublish, SameSummer
  <1>9. CASE Plan(t)
    BY <1>1, <1>9, DidPlan DEF SameSettlement, SamePublish, SameSummer
  <1>10. CASE Pay(t)
    BY <1>1, <1>3, <1>10, DidPay DEF SameSettlement, SamePublish, SameSummer
  <1>11. CASE KeepExcess(t)
    BY <1>1, <1>3, <1>11, DidKeepExcess DEF SameSettlement, SamePublish, SameSummer
  <1>12. CASE Fine(t)
    <2>1. /\ n \in Fines /\ Turned(t) /\ ListsFit(n)
          /\ \E f \in Flats, m \in Months : Writes(t, BillRow(f, m), Fined(View(t, BillRow(f, m))))
      BY <1>12, DidFine
    <2> QED
      BY <1>1, <1>3, <2>1
  <1>13. CASE BeginRefund(t)
    BY <1>1, <1>3, <1>13, DidBeginRefund DEF SameSettlement, SamePublish, SameSummer
  <1>14. CASE PayBack(t)
    <2>1. txn[t].kind \in AllKinds
      BY <1>14, DidPayBack DEF Refunds, Publishes, AllKinds
    <2>2. CASE Abort(t)
      BY <2>1, <2>2, DidAbort
    <2>3. CASE ~Abort(t)
      BY <1>2, <1>14, <2>3, DidPayBack DEF SameRefund, SamePublish
    <2> QED
      BY <2>2, <2>3
  <1>15. CASE BeginPublish(t)
    BY <1>1, <1>15, DidBeginPublish DEF SameSettlement, SamePublish, SameSummer
  <1>16. CASE LockCreditFlat(t)
    BY <1>1, <1>3, <1>16, DidLockCreditFlat DEF SameSettlement, SamePublish, SameSummer
  <1>17. CASE ShowBill(t)
    BY <1>1, <1>3, <1>17, DidShowBill DEF SameSettlement, SamePublish, SameSummer
  <1>18. CASE PickBills(t)
    BY <1>1, <1>18, DidPickBills DEF SameSettlement, SamePublish, SameSummer
  <1>19. CASE ReadCredit(t)
    BY <1>1, <1>19, DidReadCredit DEF SameSettlement, SamePublish, SameSummer
  <1>20. CASE TakeCredit(t)
    <2>1. txn[t].kind \in AllKinds
      BY <1>20, DidTakeCredit DEF Refunds, Publishes, AllKinds
    <2>2. CASE Abort(t)
      BY <2>1, <2>2, DidAbort
    <2>3. CASE ~Abort(t)
      BY <1>2, <1>20, <2>3, DidTakeCredit DEF SameRefund, SamePublish
    <2> QED
      BY <2>2, <2>3
  <1>21. CASE MarkPublished(t)
    BY <1>1, <1>3, <1>21, DidMarkPublished DEF SameSettlement, SamePublish, SameSummer
  <1>22. CASE ReadSums(t)
    BY <1>1, <1>22, DidReadSums DEF SameSettlement, SamePublish, SameSummer
  <1>23. CASE WriteSums(t)
    BY <1>1, <1>3, <1>23, DidWriteSums DEF SameSettlement, SamePublish, SameSummer
  <1>24. CASE Commit(t)
    BY <1>24, DidCommit
  <1>25. CASE DeadlockVictim(t)
    BY <1>25, DidDeadlockVictim
  <1> QED
    BY <1>4, <1>5, <1>6, <1>7, <1>8, <1>9, <1>10, <1>11, <1>12, <1>13, <1>14, <1>15, <1>16, <1>17, <1>18, <1>19, <1>20, <1>21, <1>22, <1>23, <1>24, <1>25
       DEF Step, Settle, Refund, Publish

PaidBefore(c, f, m) == IF c[f] > 0 /\ m \notin Drafts THEN Due ELSE 0
Lent(c) == [f \in Flats |-> c[f]]
Gone(c) == [fm \in Flats \X Months |-> PaidBefore(c, fm[1], fm[2])]
Home == CHOOSE a \in Accounts : TRUE

LEMMA FlatsAndMonthsFinite == IsFiniteSet(Flats) /\ IsFiniteSet(Months) /\ IsFiniteSet(Flats \X Months)
  <1>1. IsFiniteSet(Flats) /\ IsFiniteSet(Months)
    BY FS_Interval DEF Flats, Months
  <1> QED
    BY <1>1, FS_Product

LEMMA StartsFrom ==
    ASSUME Init
    PROVE  \E c \in [Flats -> Credits] :
             /\ table = [r \in Rows |-> table[r]]
             /\ \A f \in Flats : table[FlatRow(f)] = c[f]
             /\ \A f \in Flats, m \in Months : table[BillRow(f, m)] =
                   [total |-> Due, paid |-> PaidBefore(c, f, m), pub |-> m \notin Drafts, fined |-> FALSE]
             /\ \A m \in Months : table[PeriodRow(m)] \in Nat
             /\ \A a \in Accounts : table[AccountRow(a)] = IF a = Home THEN received ELSE 0
             /\ received = SumOver(Lent(c)) + SumOver(Gone(c)) /\ received \in Nat
  <1>1. PICK c \in [Flats -> Credits] :
          LET home == CHOOSE a \in Accounts : TRUE
              paid(f, m) == IF c[f] > 0 /\ m \notin Drafts THEN Due ELSE 0
              owed(m) == SumOver([f \in Flats |-> Due - paid(f, m)])
          IN  /\ received = SumOver([f \in Flats |-> c[f]])
                    + SumOver([fm \in Flats \X Months |-> paid(fm[1], fm[2])])
              /\ table = [r \in Rows |->
                     IF r \in BillRows
                     THEN [total |-> Due, paid |-> paid(r[2], r[3]),
                           pub |-> r[3] \notin Drafts, fined |-> FALSE]
                     ELSE IF r[1] = "flat" THEN c[r[2]]
                     ELSE IF r[1] = "period" THEN owed(r[2])
                     ELSE IF r[2] = home THEN received ELSE 0]
    BY DEF Init
  <1> DEFINE owed(m) == [f \in Flats |-> Due - PaidBefore(c, f, m)]
  <1>2. /\ Lent(c) \in [Flats -> Nat] /\ Gone(c) \in [Flats \X Months -> Nat]
        /\ \A m : owed(m) \in [Flats -> Nat]
    <2>1. \A f, m : PaidBefore(c, f, m) \in {0, Due}
      BY DEF PaidBefore
    <2>2. \A f, m : PaidBefore(c, f, m) \in Nat /\ Due - PaidBefore(c, f, m) \in Nat
      BY <2>1
    <2>3. Lent(c) \in [Flats -> Nat]
      BY DEF Lent
    <2>4. Gone(c) \in [Flats \X Months -> Nat]
      BY <2>2 DEF Gone
    <2>5. \A m : owed(m) \in [Flats -> Nat]
      BY <2>2
    <2> QED
      BY <2>3, <2>4, <2>5
  <1>3. SumOver(Lent(c)) \in Nat /\ SumOver(Gone(c)) \in Nat
    BY <1>2, FlatsAndMonthsFinite, SumNatural
  <1>4. \A m : SumOver(owed(m)) \in Nat
    <2> TAKE m
    <2> DEFINE o == owed(m)
    <2>1. o \in [Flats -> Nat]
      BY <1>2
    <2> HIDE DEF o
    <2>2. SumOver(o) \in Nat
      BY <2>1, FlatsAndMonthsFinite, SumNatural
    <2> QED
      BY <2>2 DEF o
  <1>5. received = SumOver(Lent(c)) + SumOver(Gone(c))
    BY <1>1 DEF Lent, Gone, PaidBefore
  <1>6. received \in Nat
    BY <1>3, <1>5
  <1>7. table = [r \in Rows |-> table[r]]
    BY <1>1
  <1>8. ASSUME NEW f \in Flats PROVE table[FlatRow(f)] = c[f]
    <2>1. FlatRow(f) \in Rows /\ FlatRow(f) \notin BillRows
      BY RowsKnown
    <2> QED
      BY <1>1, <2>1 DEF FlatRow
  <1>9. ASSUME NEW f \in Flats, NEW m \in Months
        PROVE  table[BillRow(f, m)] = [total |-> Due, paid |-> PaidBefore(c, f, m),
                                       pub |-> m \notin Drafts, fined |-> FALSE]
    <2>1. BillRow(f, m) \in Rows /\ BillRow(f, m) \in BillRows
      BY RowsKnown
    <2>2. BillRow(f, m)[2] = f /\ BillRow(f, m)[3] = m
      BY DEF BillRow
    <2> QED
      BY <1>1, <2>1, <2>2 DEF PaidBefore
  <1>10. ASSUME NEW m \in Months PROVE table[PeriodRow(m)] \in Nat
    <2>1. PeriodRow(m) \in Rows /\ PeriodRow(m) \notin BillRows
      BY RowsKnown
    <2>2. PeriodRow(m)[1] = "period" /\ PeriodRow(m)[2] = m
      BY DEF PeriodRow
    <2>3. table[PeriodRow(m)] = SumOver(owed(m))
      BY <1>1, <2>1, <2>2 DEF PaidBefore
    <2> QED
      BY <1>4, <2>3
  <1>11. ASSUME NEW a \in Accounts PROVE table[AccountRow(a)] = IF a = Home THEN received ELSE 0
    <2>1. AccountRow(a) \in Rows /\ AccountRow(a) \notin BillRows
      BY RowsKnown
    <2>2. AccountRow(a)[1] = "account" /\ AccountRow(a)[2] = a
      BY DEF AccountRow
    <2> QED
      BY <1>1, <2>1, <2>2 DEF Home
  <1> QED
    BY <1>5, <1>6, <1>7, <1>8, <1>9, <1>10, <1>11

LEMMA StartedTyped == Init => TypeInv
  <1> SUFFICES ASSUME Init PROVE TypeInv
    OBVIOUS
  <1>1. PICK c \in [Flats -> Credits] :
             /\ table = [r \in Rows |-> table[r]]
             /\ \A f \in Flats : table[FlatRow(f)] = c[f]
             /\ \A f \in Flats, m \in Months : table[BillRow(f, m)] =
                   [total |-> Due, paid |-> PaidBefore(c, f, m), pub |-> m \notin Drafts, fined |-> FALSE]
             /\ \A m \in Months : table[PeriodRow(m)] \in Nat
             /\ \A a \in Accounts : table[AccountRow(a)] = IF a = Home THEN received ELSE 0
             /\ received \in Nat
    BY StartsFrom
  <1>2. \A f \in Flats, m \in Months : table[BillRow(f, m)] \in BillValue
    <2> SUFFICES ASSUME NEW f \in Flats, NEW m \in Months PROVE table[BillRow(f, m)] \in BillValue
      OBVIOUS
    <2>1. PaidBefore(c, f, m) \in Nat
      BY DEF PaidBefore
    <2>2. table[BillRow(f, m)] =
            [total |-> Due, paid |-> PaidBefore(c, f, m), pub |-> m \notin Drafts, fined |-> FALSE]
      BY <1>1
    <2> QED
      BY <2>1, <2>2 DEF BillValue
  <1>3. \A r \in Rows : table[r] \in Value(r)
    <2> SUFFICES ASSUME NEW r \in Rows PROVE table[r] \in Value(r)
      OBVIOUS
    <2>1. CASE \E f \in Flats, m \in Months : r = BillRow(f, m)
      BY <1>2, <2>1, RowsKnown DEF Value
    <2>2. CASE \E f \in Flats : r = FlatRow(f)
      BY <1>1, <2>2, RowsKnown DEF Value
    <2>3. CASE \E m \in Months : r = PeriodRow(m)
      BY <1>1, <2>3, RowsKnown DEF Value
    <2>4. CASE \E a \in Accounts : r = AccountRow(a)
      BY <1>1, <2>4, RowsKnown DEF Value
    <2> QED
      BY <2>1, <2>2, <2>3, <2>4 DEF Rows, FlatRows, BillRows, PeriodRows, AccountRows
  <1>4. /\ draft = table /\ refunded = 0 /\ holder = [r \in Rows |-> Nobody]
        /\ txn = [t \in Txns |-> [kind |-> "none", pc |-> "begin"]]
    BY DEF Init
  <1>5. txn \in [Txns -> Request] /\ \A t \in Txns : ListsFit(txn[t])
    BY <1>4 DEF Request, Waiting, ListsFit
  <1> QED
    BY <1>1, <1>3, <1>4, <1>5 DEF TypeInv, TypeOK

LEMMA Typed == Spec => []TypeInv
  <1>1. TypeInv /\ [Next]_vars => TypeInv'
    <2>1. ASSUME TypeInv, Next PROVE TypeInv'
      BY <2>1, StepTyped DEF Next
    <2>2. ASSUME TypeInv, UNCHANGED vars PROVE TypeInv'
      BY <2>2 DEF TypeInv, TypeOK, vars, ListsFit, Value, BillValue
    <2> QED
      BY <2>1, <2>2
  <1> QED
    BY <1>1, StartedTyped, PTL DEF Spec

\* In every instance, with any number of transactions under way, the variables keep
\* their types: above all no statement takes a flat's credit or an account below zero.
THEOREM TypeCorrect == Spec => []TypeOK
  <1>1. TypeInv => TypeOK
    BY DEF TypeInv
  <1> QED
    BY <1>1, Typed, PTL

-----------------------------------------------------------------------------
(* Who holds which locks, and when.                                        *)

FlatTaken == {"list", "lock", "plan", "pay", "excess", "sums", "period", "commit"}

\* Of t, being w, with the locks given as h: the rows it may hold and those it must.
MayHoldFlat(w, f) ==
    \/ w.kind = "settle" /\ w.pc \in FlatTaken /\ w.flat = f
    \/ w.kind \in {"refund", "publish"} /\ w.pc # "done"
MayHoldBill(w, f, m) ==
    \/ w.kind = "settle" /\ w.pc \in FlatTaken /\ w.flat = f
    \/ w.kind = "fine" /\ w.pc # "done"
    \/ w.kind = "publish" /\ w.pc # "done" /\ w.month = m
MayHoldAccount(w) ==
    \/ w.kind = "settle" /\ w.pc \notin {"account", "done"}
    \/ w.kind = "refund" /\ w.pc # "done"
MayHoldPeriod(w, k) ==
    \/ /\ w.kind \in {"settle", "fine"} /\ w.pc \in {"sums", "period", "commit"}
       /\ \A q \in w.queue : k < q
    \/ w.kind = "publish" /\ w.pc \in {"sums", "status", "commit"} /\ w.month = k /\ w.queue = {}
HoldsWhatItMay(t, w, h) ==
    /\ \A f \in Flats : h[FlatRow(f)] = t => MayHoldFlat(w, f)
    /\ \A f \in Flats, m \in Months : h[BillRow(f, m)] = t => MayHoldBill(w, f, m)
    /\ \A a \in Accounts : h[AccountRow(a)] = t => MayHoldAccount(w)
    /\ \A k \in Months : h[PeriodRow(k)] = t => MayHoldPeriod(w, k)
HoldsWhatItMust(t, w, h) ==
    /\ w.kind = "settle" /\ w.pc \in FlatTaken => h[FlatRow(w.flat)] = t
    /\ w.kind = "refund" /\ w.pc # "done" => h[FlatRow(w.flat)] = t
    /\ w.kind = "publish" /\ w.pc = "lock" => w.todo = Flats
    /\ w.kind = "publish" /\ w.pc = "show" =>
          \A f \in Flats : h[BillRow(f, w.month)] = t \/ f \in w.todo
    /\ w.kind = "publish" /\ w.pc \in {"pick", "spend", "take"} =>
          \A f \in Flats : h[BillRow(f, w.month)] = t
LocksFit(t, w, h) == HoldsWhatItMay(t, w, h) /\ HoldsWhatItMust(t, w, h)
LocksInv == \A t \in Txns : LocksFit(t, txn[t], holder)

LEMMA KindNamed ==
    ASSUME NEW w
    PROVE  /\ w \in Waiting => w.kind = "none" /\ w.pc = "begin"
           /\ w \in Settlements => /\ w.kind = "settle" /\ w.pc # "done" /\ w.flat \in Flats
                                   /\ w.acct \in Accounts
           /\ w \in Fines => w.kind = "fine" /\ w.pc # "done"
           /\ w \in Refunds => /\ w.kind = "refund" /\ w.pc # "done" /\ w.flat \in Flats
                               /\ w.acct \in Accounts
           /\ w \in Publishes => w.kind = "publish" /\ w.pc # "done" /\ w.month \in Months
           /\ w \in Done => w.pc = "done"
  BY DEF Waiting, Settlements, Fines, Refunds, Publishes, Done

LEMMA SameLocks ==
    ASSUME NEW t, NEW w, NEW h, NEW g, LocksFit(t, w, h),
           \A r \in Rows : g[r] = t <=> h[r] = t,
           w \in Request
    PROVE  LocksFit(t, w, g)
  <1>1. HoldsWhatItMay(t, w, g)
    BY RowsKnown DEF LocksFit, HoldsWhatItMay
  <1>2. HoldsWhatItMust(t, w, g)
    <2>1. w.kind = "settle" /\ w.pc \in FlatTaken => FlatRow(w.flat) \in Rows
      BY KindsOf, KindNamed, RowsKnown DEF FlatTaken
    <2>2. w.kind = "refund" /\ w.pc # "done" => FlatRow(w.flat) \in Rows
      BY KindsOf, KindNamed, RowsKnown
    <2>3. w.kind = "publish" /\ w.pc # "done" => w.month \in Months
      BY KindsOf, KindNamed
    <2> QED
      BY <2>1, <2>2, <2>3, RowsKnown DEF LocksFit, HoldsWhatItMust
  <1> QED
    BY <1>1, <1>2 DEF LocksFit

\* A step of t takes no lock from another transaction and gives it none.
Untouched(t) ==
    \A u \in Txns : u # t =>
        /\ txn'[u] = txn[u]
        /\ \A r \in Rows : /\ holder'[r] = u <=> holder[r] = u
                           /\ holder[r] = u => draft'[r] = draft[r]

LEMMA TurnsAlone ==
    ASSUME TypeInv, NEW t \in Txns, Turned(t)
    PROVE  \A u \in Txns : u # t => txn'[u] = txn[u]
  <1> DEFINE n == txn'[t]
  <1>1. txn' = [txn EXCEPT ![t] = n] /\ txn \in [Txns -> Request]
    BY DEF Turned, TypeInv, TypeOK
  <1> HIDE DEF n
  <1> QED
    BY <1>1

LEMMA WritesAlone ==
    ASSUME TypeInv, NEW t \in Txns, Turned(t), NEW r, NEW v, Writes(t, r, v)
    PROVE  /\ Untouched(t)
           /\ \A x \in Rows : /\ holder'[x] = t <=> x = r \/ holder[x] = t
                              /\ draft'[x] = IF x = r THEN v ELSE draft[x]
           /\ r \in Rows /\ Free(t, r)
  BY TurnsAlone DEF Untouched, Writes, Write, Free, TypeInv, TypeOK

LEMMA TwoAlone ==
    ASSUME TypeInv, NEW t \in Txns, Turned(t), NEW r, NEW v, NEW held, NEW x,
           WritesTwo(t, r, v, held, x), holder[held] = t
    PROVE  /\ Untouched(t)
           /\ \A y \in Rows : /\ holder'[y] = t <=> y = r \/ holder[y] = t
                              /\ draft'[y] = IF y = held THEN x ELSE IF y = r THEN v ELSE draft[y]
  BY TurnsAlone DEF Untouched, WritesTwo, Free, TypeInv, TypeOK

LEMMA QuietAlone ==
    ASSUME TypeInv, NEW t \in Txns, Turned(t), Quiet
    PROVE  Untouched(t) /\ holder' = holder /\ draft' = draft
  BY TurnsAlone DEF Untouched, Quiet

LEMMA EndsAlone ==
    ASSUME TypeInv, NEW t \in Txns, Ends(t)
    PROVE  Untouched(t) /\ (\A r \in Rows : holder'[r] # t)
  BY TurnsAlone DEF Untouched, Ends, TypeInv, TypeOK

LEMMA EndsLocks ==
    ASSUME TypeInv, NEW t \in Txns, Ends(t)
    PROVE  LocksFit(t, txn'[t], holder')
  <1>1. txn'[t].pc = "done"
    BY KindNamed DEF Ends
  <1>2. \A r \in Rows : holder'[r] # t
    BY EndsAlone
  <1> QED
    BY <1>1, <1>2, RowsKnown DEF LocksFit, HoldsWhatItMay, HoldsWhatItMust, FlatTaken

LEMMA LocksStep ==
    ASSUME LocksInv, TypeInv, NEW t \in Txns, Untouched(t), LocksFit(t, txn'[t], holder')
    PROVE  LocksInv'
  <1>1. ASSUME NEW u \in Txns, u # t PROVE LocksFit(u, txn'[u], holder')
    <2>1. LocksFit(u, txn[u], holder) /\ txn[u] \in Request /\ txn'[u] = txn[u]
      BY <1>1 DEF LocksInv, TypeInv, TypeOK, Untouched
    <2>2. \A r \in Rows : holder'[r] = u <=> holder[r] = u
      <3> SUFFICES ASSUME NEW r \in Rows PROVE holder'[r] = u <=> holder[r] = u
        OBVIOUS
      <3>1. holder'[r] = u => holder[r] = u
        BY <1>1 DEF Untouched
      <3>2. holder[r] = u => holder'[r] = u
        BY <1>1 DEF Untouched
      <3> QED
        BY <3>1, <3>2
    <2> QED
      BY <2>1, <2>2, SameLocks
  <1> QED
    BY <1>1 DEF LocksInv

LEMMA LocksKept ==
    ASSUME TypeInv, LocksInv, NEW t \in Txns, Step(t) \/ DeadlockVictim(t)
    PROVE  LocksInv'
  <1> DEFINE w == txn[t]
             n == txn'[t]
             May == HoldsWhatItMay(t, n, holder')
             Must == HoldsWhatItMust(t, n, holder')
  <1>0. HoldsWhatItMay(t, w, holder) /\ HoldsWhatItMust(t, w, holder) /\ ListsFit(w) /\ w \in Request
    BY TxnTyped DEF LocksInv, LocksFit
  <1>1. ASSUME Untouched(t), May, Must PROVE LocksInv'
    BY <1>1, LocksStep DEF LocksFit
  <1>2. ASSUME Ends(t) PROVE LocksInv'
    BY <1>2, EndsAlone, EndsLocks, LocksStep
  <1>3. CASE BeginSettle(t)
    <2>1. Untouched(t) /\ holder' = holder
      BY <1>3, DidBeginSettle, QuietAlone
    <2>2. May
      BY <1>0, <1>3, <2>1, DidBeginSettle, KindNamed DEF HoldsWhatItMay, HoldsWhatItMust, MayHoldFlat, MayHoldBill, MayHoldAccount, MayHoldPeriod, FlatTaken, SameSettlement, SamePublish, SameSummer
    <2>3. Must
      BY <1>0, <1>3, <2>1, DidBeginSettle, KindNamed DEF HoldsWhatItMay, HoldsWhatItMust, MayHoldFlat, MayHoldBill, MayHoldAccount, MayHoldPeriod, FlatTaken, SameSettlement, SamePublish, SameSummer
    <2> QED
      BY <1>1, <2>1, <2>2, <2>3
  <1>4. CASE CreditAccount(t)
    <2> DEFINE r == AccountRow(w.acct)
    <2>1. Untouched(t) /\ r \in Rows /\ \A x \in Rows : holder'[x] = t <=> x = r \/ holder[x] = t
      BY <1>4, DidCreditAccount, WritesAlone
    <2>2. May
      BY <1>0, <1>4, <2>1, DidCreditAccount, KindNamed, RowsKnown, RowsApart DEF HoldsWhatItMay, HoldsWhatItMust, MayHoldFlat, MayHoldBill, MayHoldAccount, MayHoldPeriod, FlatTaken, SameSettlement, SamePublish, SameSummer
    <2>3. Must
      BY <1>0, <1>4, <2>1, DidCreditAccount, KindNamed, RowsKnown, RowsApart DEF HoldsWhatItMay, HoldsWhatItMust, MayHoldFlat, MayHoldBill, MayHoldAccount, MayHoldPeriod, FlatTaken, SameSettlement, SamePublish, SameSummer
    <2> QED
      BY <1>1, <2>1, <2>2, <2>3
  <1>5. CASE LockFlat(t)
    <2> DEFINE r == FlatRow(w.flat)
    <2>1. Untouched(t) /\ r \in Rows /\ \A x \in Rows : holder'[x] = t <=> x = r \/ holder[x] = t
      BY <1>5, DidLockFlat, WritesAlone
    <2>2. May
      BY <1>0, <1>5, <2>1, DidLockFlat, KindNamed, RowsKnown, RowsApart DEF HoldsWhatItMay, HoldsWhatItMust, MayHoldFlat, MayHoldBill, MayHoldAccount, MayHoldPeriod, FlatTaken, SameSettlement, SamePublish, SameSummer
    <2>3. Must
      BY <1>0, <1>5, <2>1, DidLockFlat, KindNamed, RowsKnown, RowsApart DEF HoldsWhatItMay, HoldsWhatItMust, MayHoldFlat, MayHoldBill, MayHoldAccount, MayHoldPeriod, FlatTaken, SameSettlement, SamePublish, SameSummer
    <2> QED
      BY <1>1, <2>1, <2>2, <2>3
  <1>6. CASE ListBills(t)
    <2>1. Untouched(t) /\ holder' = holder
      BY <1>6, DidListBills, QuietAlone
    <2>2. May
      BY <1>0, <1>6, <2>1, DidListBills, KindNamed DEF HoldsWhatItMay, HoldsWhatItMust, MayHoldFlat, MayHoldBill, MayHoldAccount, MayHoldPeriod, FlatTaken, SameSettlement, SamePublish, SameSummer
    <2>3. Must
      BY <1>0, <1>6, <2>1, DidListBills, KindNamed DEF HoldsWhatItMay, HoldsWhatItMust, MayHoldFlat, MayHoldBill, MayHoldAccount, MayHoldPeriod, FlatTaken, SameSettlement, SamePublish, SameSummer
    <2> QED
      BY <1>1, <2>1, <2>2, <2>3
  <1>7. CASE Plan(t)
    <2>1. Untouched(t) /\ holder' = holder
      BY <1>7, DidPlan, QuietAlone
    <2>2. May
      BY <1>0, <1>7, <2>1, DidPlan, KindNamed DEF HoldsWhatItMay, HoldsWhatItMust, MayHoldFlat, MayHoldBill, MayHoldAccount, MayHoldPeriod, FlatTaken, SameSettlement, SamePublish, SameSummer
    <2>3. Must
      BY <1>0, <1>7, <2>1, DidPlan, KindNamed DEF HoldsWhatItMay, HoldsWhatItMust, MayHoldFlat, MayHoldBill, MayHoldAccount, MayHoldPeriod, FlatTaken, SameSettlement, SamePublish, SameSummer
    <2> QED
      BY <1>1, <2>1, <2>2, <2>3
  <1>8. CASE KeepExcess(t)
    <2> DEFINE r == FlatRow(w.flat)
    <2>1. Untouched(t) /\ r \in Rows /\ \A x \in Rows : holder'[x] = t <=> x = r \/ holder[x] = t
      BY <1>8, DidKeepExcess, WritesAlone
    <2>2. May
      BY <1>0, <1>8, <2>1, DidKeepExcess, KindNamed, RowsKnown, RowsApart DEF HoldsWhatItMay, HoldsWhatItMust, MayHoldFlat, MayHoldBill, MayHoldAccount, MayHoldPeriod, FlatTaken, SameSettlement, SamePublish, SameSummer
    <2>3. Must
      BY <1>0, <1>8, <2>1, DidKeepExcess, KindNamed, RowsKnown, RowsApart DEF HoldsWhatItMay, HoldsWhatItMust, MayHoldFlat, MayHoldBill, MayHoldAccount, MayHoldPeriod, FlatTaken, SameSettlement, SamePublish, SameSummer
    <2> QED
      BY <1>1, <2>1, <2>2, <2>3
  <1>9. CASE WriteSums(t)
    <2> DEFINE r == PeriodRow(Turn(t))
    <2>1. Untouched(t) /\ r \in Rows /\ \A x \in Rows : holder'[x] = t <=> x = r \/ holder[x] = t
      BY <1>9, DidWriteSums, WritesAlone
    <2>2. May
      <3> DEFINE m == Turn(t)
      <3>1. /\ SameSummer(w, n) /\ w.pc = "period" /\ n.pc = "sums" /\ r = PeriodRow(m)
            /\ m \in w.queue /\ n.queue = w.queue \ {m} /\ m \in Months /\ n.kind = w.kind
        BY <1>9, DidWriteSums DEF SameSummer
      <3>2. \A q \in n.queue : m < q
        BY <1>9, <3>1, DidWriteSums DEF Months
      <3> HIDE DEF m, r
      <3>3. /\ \A f \in Flats : holder'[FlatRow(f)] = t => holder[FlatRow(f)] = t
            /\ \A f \in Flats, k \in Months : holder'[BillRow(f, k)] = t => holder[BillRow(f, k)] = t
            /\ \A a \in Accounts : holder'[AccountRow(a)] = t => holder[AccountRow(a)] = t
            /\ \A k \in Months : holder'[PeriodRow(k)] = t => k = m \/ holder[PeriodRow(k)] = t
        BY <2>1, <3>1, RowsKnown, RowsApart
      <3>4. CASE w \in Settlements
        BY <1>0, <3>1, <3>2, <3>3, <3>4, KindNamed DEF SameSummer, SameSettlement, HoldsWhatItMay, MayHoldFlat, MayHoldBill, MayHoldAccount, MayHoldPeriod, FlatTaken
      <3>5. CASE w \in Fines
        BY <1>0, <3>1, <3>2, <3>3, <3>5, KindNamed DEF SameSummer, HoldsWhatItMay, MayHoldFlat, MayHoldBill, MayHoldAccount, MayHoldPeriod, FlatTaken
      <3>6. CASE w \in Publishes
        <4>1. w.queue \subseteq {w.month}
          BY <1>0, <3>1, <3>6, KindNamed DEF ListsFit
        <4>2. n.queue = {} /\ m = w.month
          BY <3>1, <4>1
        <4> QED
          BY <1>0, <3>1, <3>3, <3>6, <4>2, KindNamed DEF SameSummer, SamePublish, HoldsWhatItMay, MayHoldFlat, MayHoldBill, MayHoldAccount, MayHoldPeriod, FlatTaken
      <3> QED
        BY <3>1, <3>4, <3>5, <3>6 DEF SameSummer
    <2>3. Must
      BY <1>0, <1>9, <2>1, DidWriteSums, KindNamed, RowsKnown, RowsApart DEF HoldsWhatItMay, HoldsWhatItMust, MayHoldFlat, MayHoldBill, MayHoldAccount, MayHoldPeriod, FlatTaken, SameSettlement, SamePublish, SameSummer
    <2> QED
      BY <1>1, <2>1, <2>2, <2>3
  <1>10. CASE BeginRefund(t)
    <2> DEFINE r == FlatRow(n.flat)
    <2>1. Untouched(t) /\ r \in Rows /\ \A x \in Rows : holder'[x] = t <=> x = r \/ holder[x] = t
      BY <1>10, DidBeginRefund, WritesAlone
    <2>2. May
      BY <1>0, <1>10, <2>1, DidBeginRefund, KindNamed, RowsKnown, RowsApart DEF HoldsWhatItMay, HoldsWhatItMust, MayHoldFlat, MayHoldBill, MayHoldAccount, MayHoldPeriod, FlatTaken, SameSettlement, SamePublish, SameSummer
    <2>3. Must
      BY <1>0, <1>10, <2>1, DidBeginRefund, KindNamed, RowsKnown, RowsApart DEF HoldsWhatItMay, HoldsWhatItMust, MayHoldFlat, MayHoldBill, MayHoldAccount, MayHoldPeriod, FlatTaken, SameSettlement, SamePublish, SameSummer
    <2> QED
      BY <1>1, <2>1, <2>2, <2>3
  <1>11. CASE BeginPublish(t)
    <2>1. Untouched(t) /\ holder' = holder
      BY <1>11, DidBeginPublish, QuietAlone
    <2>2. May
      BY <1>0, <1>11, <2>1, DidBeginPublish, KindNamed DEF HoldsWhatItMay, HoldsWhatItMust, MayHoldFlat, MayHoldBill, MayHoldAccount, MayHoldPeriod, FlatTaken, SameSettlement, SamePublish, SameSummer
    <2>3. Must
      BY <1>0, <1>11, <2>1, DidBeginPublish, KindNamed DEF HoldsWhatItMay, HoldsWhatItMust, MayHoldFlat, MayHoldBill, MayHoldAccount, MayHoldPeriod, FlatTaken, SameSettlement, SamePublish, SameSummer
    <2> QED
      BY <1>1, <2>1, <2>2, <2>3
  <1>12. CASE PickBills(t)
    <2>1. Untouched(t) /\ holder' = holder
      BY <1>12, DidPickBills, QuietAlone
    <2>2. May
      BY <1>0, <1>12, <2>1, DidPickBills, KindNamed DEF HoldsWhatItMay, HoldsWhatItMust, MayHoldFlat, MayHoldBill, MayHoldAccount, MayHoldPeriod, FlatTaken, SameSettlement, SamePublish, SameSummer
    <2>3. Must
      BY <1>0, <1>12, <2>1, DidPickBills, KindNamed DEF HoldsWhatItMay, HoldsWhatItMust, MayHoldFlat, MayHoldBill, MayHoldAccount, MayHoldPeriod, FlatTaken, SameSettlement, SamePublish, SameSummer
    <2> QED
      BY <1>1, <2>1, <2>2, <2>3
  <1>13. CASE ReadCredit(t)
    <2>1. Untouched(t) /\ holder' = holder
      BY <1>13, DidReadCredit, QuietAlone
    <2>2. May
      BY <1>0, <1>13, <2>1, DidReadCredit, KindNamed DEF HoldsWhatItMay, HoldsWhatItMust, MayHoldFlat, MayHoldBill, MayHoldAccount, MayHoldPeriod, FlatTaken, SameSettlement, SamePublish, SameSummer
    <2>3. Must
      BY <1>0, <1>13, <2>1, DidReadCredit, KindNamed DEF HoldsWhatItMay, HoldsWhatItMust, MayHoldFlat, MayHoldBill, MayHoldAccount, MayHoldPeriod, FlatTaken, SameSettlement, SamePublish, SameSummer
    <2> QED
      BY <1>1, <2>1, <2>2, <2>3
  <1>14. CASE ReadSums(t)
    <2>1. Untouched(t) /\ holder' = holder
      BY <1>14, DidReadSums, QuietAlone
    <2>2. May
      BY <1>0, <1>14, <2>1, DidReadSums, KindNamed DEF HoldsWhatItMay, HoldsWhatItMust, MayHoldFlat, MayHoldBill, MayHoldAccount, MayHoldPeriod, FlatTaken, SameSettlement, SamePublish, SameSummer, ListsFit
    <2>3. Must
      BY <1>0, <1>14, <2>1, DidReadSums, KindNamed DEF HoldsWhatItMay, HoldsWhatItMust, MayHoldFlat, MayHoldBill, MayHoldAccount, MayHoldPeriod, FlatTaken, SameSettlement, SamePublish, SameSummer
    <2> QED
      BY <1>1, <2>1, <2>2, <2>3
  <1>15. CASE MarkPublished(t)
    <2> DEFINE r == PeriodRow(w.month)
    <2>1. Untouched(t) /\ r \in Rows /\ \A x \in Rows : holder'[x] = t <=> x = r \/ holder[x] = t
      BY <1>15, DidMarkPublished, WritesAlone
    <2>2. May
      BY <1>0, <1>15, <2>1, DidMarkPublished, KindNamed, RowsKnown, RowsApart DEF HoldsWhatItMay, HoldsWhatItMust, MayHoldFlat, MayHoldBill, MayHoldAccount, MayHoldPeriod, FlatTaken, SameSettlement, SamePublish, SameSummer, ListsFit
    <2>3. Must
      BY <1>0, <1>15, <2>1, DidMarkPublished, KindNamed, RowsKnown, RowsApart DEF HoldsWhatItMay, HoldsWhatItMust, MayHoldFlat, MayHoldBill, MayHoldAccount, MayHoldPeriod, FlatTaken, SameSettlement, SamePublish, SameSummer
    <2> QED
      BY <1>1, <2>1, <2>2, <2>3
  <1>16. CASE LockBill(t)
    <2> DEFINE r == BillRow(w.flat, Turn(t))
    <2>1. CASE Quiet
      <3>1. Untouched(t) /\ holder' = holder
        BY <1>16, <2>1, DidLockBill, QuietAlone
      <3>2. May
        BY <1>0, <1>16, <3>1, DidLockBill, KindNamed, RowsKnown, RowsApart DEF HoldsWhatItMay, HoldsWhatItMust, MayHoldFlat, MayHoldBill, MayHoldAccount, MayHoldPeriod, FlatTaken, SameSettlement, SamePublish, SameSummer, SameRefund, ListsFit
      <3>3. Must
        BY <1>0, <1>16, <3>1, DidLockBill, KindNamed, RowsKnown, RowsApart DEF HoldsWhatItMay, HoldsWhatItMust, MayHoldFlat, MayHoldBill, MayHoldAccount, MayHoldPeriod, FlatTaken, SameSettlement, SamePublish, SameSummer, SameRefund, ListsFit
      <3> QED
        BY <1>1, <3>1, <3>2, <3>3
    <2>2. CASE n.pc = w.pc
      <3>1. Untouched(t) /\ r \in Rows /\ \A x \in Rows : holder'[x] = t <=> x = r \/ holder[x] = t
        BY <1>16, <2>2, DidLockBill, WritesAlone
      <3>2. May
        BY <1>0, <1>16, <3>1, DidLockBill, KindNamed, RowsKnown, RowsApart DEF HoldsWhatItMay, HoldsWhatItMust, MayHoldFlat, MayHoldBill, MayHoldAccount, MayHoldPeriod, FlatTaken, SameSettlement, SamePublish, SameSummer, SameRefund, ListsFit
      <3>3. Must
        BY <1>0, <1>16, <3>1, DidLockBill, KindNamed, RowsKnown, RowsApart DEF HoldsWhatItMay, HoldsWhatItMust, MayHoldFlat, MayHoldBill, MayHoldAccount, MayHoldPeriod, FlatTaken, SameSettlement, SamePublish, SameSummer, SameRefund, ListsFit
      <3> QED
        BY <1>1, <3>1, <3>2, <3>3
    <2> QED
      BY <1>16, <2>1, <2>2, DidLockBill
  <1>17. CASE Pay(t)
    <2> DEFINE r == BillRow(w.flat, Oldest(w.todo))
    <2>1. CASE Quiet
      <3>1. Untouched(t) /\ holder' = holder
        BY <1>17, <2>1, DidPay, QuietAlone
      <3>2. May
        BY <1>0, <1>17, <3>1, DidPay, KindNamed, RowsKnown, RowsApart DEF HoldsWhatItMay, HoldsWhatItMust, MayHoldFlat, MayHoldBill, MayHoldAccount, MayHoldPeriod, FlatTaken, SameSettlement, SamePublish, SameSummer, SameRefund, ListsFit
      <3>3. Must
        BY <1>0, <1>17, <3>1, DidPay, KindNamed, RowsKnown, RowsApart DEF HoldsWhatItMay, HoldsWhatItMust, MayHoldFlat, MayHoldBill, MayHoldAccount, MayHoldPeriod, FlatTaken, SameSettlement, SamePublish, SameSummer, SameRefund, ListsFit
      <3> QED
        BY <1>1, <3>1, <3>2, <3>3
    <2>2. CASE n.pc = w.pc
      <3>1. Untouched(t) /\ r \in Rows /\ \A x \in Rows : holder'[x] = t <=> x = r \/ holder[x] = t
        BY <1>17, <2>2, DidPay, WritesAlone
      <3>2. May
        BY <1>0, <1>17, <3>1, DidPay, KindNamed, RowsKnown, RowsApart DEF HoldsWhatItMay, HoldsWhatItMust, MayHoldFlat, MayHoldBill, MayHoldAccount, MayHoldPeriod, FlatTaken, SameSettlement, SamePublish, SameSummer, SameRefund, ListsFit
      <3>3. Must
        BY <1>0, <1>17, <3>1, DidPay, KindNamed, RowsKnown, RowsApart DEF HoldsWhatItMay, HoldsWhatItMust, MayHoldFlat, MayHoldBill, MayHoldAccount, MayHoldPeriod, FlatTaken, SameSettlement, SamePublish, SameSummer, SameRefund, ListsFit
      <3> QED
        BY <1>1, <3>1, <3>2, <3>3
    <2> QED
      BY <1>17, <2>1, <2>2, DidPay
  <1>18. CASE LockCreditFlat(t)
    <2> DEFINE r == FlatRow(Turn(t))
    <2>1. CASE Quiet
      <3>1. Untouched(t) /\ holder' = holder
        BY <1>18, <2>1, DidLockCreditFlat, QuietAlone
      <3>2. May
        BY <1>0, <1>18, <3>1, DidLockCreditFlat, KindNamed, RowsKnown, RowsApart DEF HoldsWhatItMay, HoldsWhatItMust, MayHoldFlat, MayHoldBill, MayHoldAccount, MayHoldPeriod, FlatTaken, SameSettlement, SamePublish, SameSummer, SameRefund, ListsFit
      <3>3. Must
        BY <1>0, <1>18, <3>1, DidLockCreditFlat, KindNamed, RowsKnown, RowsApart DEF HoldsWhatItMay, HoldsWhatItMust, MayHoldFlat, MayHoldBill, MayHoldAccount, MayHoldPeriod, FlatTaken, SameSettlement, SamePublish, SameSummer, SameRefund, ListsFit
      <3> QED
        BY <1>1, <3>1, <3>2, <3>3
    <2>2. CASE n.pc = w.pc
      <3>1. Untouched(t) /\ r \in Rows /\ \A x \in Rows : holder'[x] = t <=> x = r \/ holder[x] = t
        BY <1>18, <2>2, DidLockCreditFlat, WritesAlone
      <3>2. May
        BY <1>0, <1>18, <3>1, DidLockCreditFlat, KindNamed, RowsKnown, RowsApart DEF HoldsWhatItMay, HoldsWhatItMust, MayHoldFlat, MayHoldBill, MayHoldAccount, MayHoldPeriod, FlatTaken, SameSettlement, SamePublish, SameSummer, SameRefund, ListsFit
      <3>3. Must
        BY <1>0, <1>18, <3>1, DidLockCreditFlat, KindNamed, RowsKnown, RowsApart DEF HoldsWhatItMay, HoldsWhatItMust, MayHoldFlat, MayHoldBill, MayHoldAccount, MayHoldPeriod, FlatTaken, SameSettlement, SamePublish, SameSummer, SameRefund, ListsFit
      <3> QED
        BY <1>1, <3>1, <3>2, <3>3
    <2> QED
      BY <1>18, <2>1, <2>2, DidLockCreditFlat
  <1>19. CASE ShowBill(t)
    <2> DEFINE r == BillRow(Oldest(w.todo), w.month)
    <2>1. CASE n.pc = "pick"
      <3>1. Untouched(t) /\ holder' = holder /\ w.todo = {}
        BY <1>19, <2>1, DidShowBill, QuietAlone
      <3>2. May
        BY <1>0, <1>19, <3>1, DidShowBill, KindNamed, RowsKnown, RowsApart DEF HoldsWhatItMay, HoldsWhatItMust, MayHoldFlat, MayHoldBill, MayHoldAccount, MayHoldPeriod, FlatTaken, SameSettlement, SamePublish, SameSummer, SameRefund, ListsFit
      <3>3. Must
        BY <1>0, <1>19, <3>1, DidShowBill, KindNamed, RowsKnown, RowsApart DEF HoldsWhatItMay, HoldsWhatItMust, MayHoldFlat, MayHoldBill, MayHoldAccount, MayHoldPeriod, FlatTaken, SameSettlement, SamePublish, SameSummer, SameRefund, ListsFit
      <3> QED
        BY <1>1, <3>1, <3>2, <3>3
    <2>2. CASE n.pc = w.pc
      <3>1. Untouched(t) /\ r \in Rows /\ \A x \in Rows : holder'[x] = t <=> x = r \/ holder[x] = t
        BY <1>19, <2>2, DidShowBill, WritesAlone
      <3>2. May
        BY <1>0, <1>19, <3>1, DidShowBill, KindNamed, RowsKnown, RowsApart DEF HoldsWhatItMay, HoldsWhatItMust, MayHoldFlat, MayHoldBill, MayHoldAccount, MayHoldPeriod, FlatTaken, SameSettlement, SamePublish, SameSummer, SameRefund, ListsFit
      <3>3. Must
        BY <1>0, <1>19, <3>1, DidShowBill, KindNamed, RowsKnown, RowsApart DEF HoldsWhatItMay, HoldsWhatItMust, MayHoldFlat, MayHoldBill, MayHoldAccount, MayHoldPeriod, FlatTaken, SameSettlement, SamePublish, SameSummer, SameRefund, ListsFit
      <3> QED
        BY <1>1, <3>1, <3>2, <3>3
    <2> QED
      BY <1>19, <2>1, <2>2, DidShowBill
  <1>20. CASE PayBack(t)
    <2> DEFINE r == AccountRow(w.acct)
    <2>1. CASE Abort(t)
      BY <1>20, <2>1, <1>2, DidPayBack, DidAbort, KindNamed DEF AllKinds
    <2>2. CASE ~Abort(t)
      <3>0. holder[FlatRow(w.flat)] = t
        BY <1>0, <1>20, DidPayBack, KindNamed DEF HoldsWhatItMust
      <3>1. Untouched(t) /\ \A x \in Rows : holder'[x] = t <=> x = r \/ holder[x] = t
        BY <1>20, <2>2, <3>0, DidPayBack, TwoAlone
      <3>2. May
        BY <1>0, <1>20, <2>2, <3>1, DidPayBack, KindNamed, RowsKnown, RowsApart DEF HoldsWhatItMay, HoldsWhatItMust, MayHoldFlat, MayHoldBill, MayHoldAccount, MayHoldPeriod, FlatTaken, SameSettlement, SamePublish, SameSummer, SameRefund, ListsFit
      <3>3. Must
        BY <1>0, <1>20, <2>2, <3>1, DidPayBack, KindNamed, RowsKnown, RowsApart DEF HoldsWhatItMay, HoldsWhatItMust, MayHoldFlat, MayHoldBill, MayHoldAccount, MayHoldPeriod, FlatTaken, SameSettlement, SamePublish, SameSummer, SameRefund, ListsFit
      <3> QED
        BY <1>1, <3>1, <3>2, <3>3
    <2> QED
      BY <2>1, <2>2
  <1>21. CASE TakeCredit(t)
    <2> DEFINE r == FlatRow(Oldest(w.todo))
    <2>1. CASE Abort(t)
      BY <1>21, <2>1, <1>2, DidTakeCredit, DidAbort, KindNamed DEF AllKinds
    <2>2. CASE ~Abort(t)
      <3>0. holder[BillRow(Oldest(w.todo), w.month)] = t
        BY <1>0, <1>21, DidTakeCredit, KindNamed DEF HoldsWhatItMust
      <3>1. Untouched(t) /\ \A x \in Rows : holder'[x] = t <=> x = r \/ holder[x] = t
        BY <1>21, <2>2, <3>0, DidTakeCredit, TwoAlone
      <3>2. May
        BY <1>0, <1>21, <2>2, <3>1, DidTakeCredit, KindNamed, RowsKnown, RowsApart DEF HoldsWhatItMay, HoldsWhatItMust, MayHoldFlat, MayHoldBill, MayHoldAccount, MayHoldPeriod, FlatTaken, SameSettlement, SamePublish, SameSummer, SameRefund, ListsFit
      <3>3. Must
        BY <1>0, <1>21, <2>2, <3>1, DidTakeCredit, KindNamed, RowsKnown, RowsApart DEF HoldsWhatItMay, HoldsWhatItMust, MayHoldFlat, MayHoldBill, MayHoldAccount, MayHoldPeriod, FlatTaken, SameSettlement, SamePublish, SameSummer, SameRefund, ListsFit
      <3> QED
        BY <1>1, <3>1, <3>2, <3>3
    <2> QED
      BY <2>1, <2>2
  <1>22. CASE Fine(t)
    <2>1. PICK f \in Flats, m \in Months : Writes(t, BillRow(f, m), Fined(View(t, BillRow(f, m))))
      BY <1>22, DidFine
    <2> DEFINE r == BillRow(f, m)
    <2>2. CASE TRUE
      <3>1. Untouched(t) /\ r \in Rows /\ \A x \in Rows : holder'[x] = t <=> x = r \/ holder[x] = t
        BY <1>22, <2>1, DidFine, WritesAlone
      <3>2. May
        BY <1>0, <1>22, <3>1, DidFine, KindNamed, RowsKnown, RowsApart DEF HoldsWhatItMay, HoldsWhatItMust, MayHoldFlat, MayHoldBill, MayHoldAccount, MayHoldPeriod, FlatTaken, SameSettlement, SamePublish, SameSummer, SameRefund, ListsFit
      <3>3. Must
        BY <1>0, <1>22, <3>1, DidFine, KindNamed, RowsKnown, RowsApart DEF HoldsWhatItMay, HoldsWhatItMust, MayHoldFlat, MayHoldBill, MayHoldAccount, MayHoldPeriod, FlatTaken, SameSettlement, SamePublish, SameSummer, SameRefund, ListsFit
      <3> QED
        BY <1>1, <3>1, <3>2, <3>3
    <2> QED
      BY <2>2
  <1>23. CASE Commit(t)
    BY <1>2, <1>23, DidCommit
  <1>24. CASE DeadlockVictim(t)
    BY <1>2, <1>24, DidDeadlockVictim
  <1> QED
    BY <1>3, <1>4, <1>5, <1>6, <1>7, <1>8, <1>9, <1>10, <1>11, <1>12, <1>13, <1>14, <1>15, <1>16, <1>17, <1>18, <1>19, <1>20, <1>21, <1>22, <1>23, <1>24
       DEF Step, Settle, Refund, Publish

LEMMA StartedLocks == Init => LocksInv
  <1> SUFFICES ASSUME Init, NEW t \in Txns PROVE LocksFit(t, txn[t], holder)
    BY DEF LocksInv
  <1>1. txn[t].kind = "none" /\ txn[t].pc = "begin"
    BY DEF Init
  <1>2. \A r \in Rows : holder[r] # t
    BY DEF Init
  <1> QED
    BY <1>1, <1>2, RowsKnown DEF LocksFit, HoldsWhatItMay, HoldsWhatItMust

LEMMA LocksRest ==
    ASSUME LocksInv, UNCHANGED vars
    PROVE  LocksInv'
  <1>1. txn' = txn /\ holder' = holder
    BY DEF vars
  <1> QED
    BY <1>1 DEF LocksInv

-----------------------------------------------------------------------------
(* What is paid on a bill, and what is shown of it.                        *)

RoomFor(b, amt) == b.paid + amt <= b.total
SeenBy(t, r, h, d, tb) == IF h[r] = t THEN d[r] ELSE tb[r]

\* Of a bill of flat f: the value b a transaction t gave it, or read, where c is
\* committed.  Only who holds the flat pays.
Fair(t, w, b, c, f, h) ==
    /\ b.paid <= b.total /\ b.total >= c.total
    /\ c.pub => b.pub
    /\ w.kind = "settle" /\ b.pub => c.pub
    /\ b.paid # c.paid => h[FlatRow(f)] = t
OwnBills(t, w, h, d, tb) ==
    \A f \in Flats, m \in Months :
        h[BillRow(f, m)] = t => Fair(t, w, d[BillRow(f, m)], tb[BillRow(f, m)], f, h)
\* What a transaction is about to pay fits the bills as it sees them.
Plans(t, w, h, d, tb) ==
    /\ w.kind = "settle" /\ w.pc = "lock" =>
          \A m \in w.queue : tb[BillRow(w.flat, m)].pub
    /\ w.kind = "settle" /\ w.pc = "pay" =>
          \A m \in w.todo : /\ tb[BillRow(w.flat, m)].pub
                            /\ RoomFor(SeenBy(t, BillRow(w.flat, m), h, d, tb), w.share[m])
    /\ w.kind = "publish" /\ w.pc = "take" =>
          RoomFor(d[BillRow(Oldest(w.todo), w.month)], w.seen)
BillsFit(t, w, h, d, tb) == OwnBills(t, w, h, d, tb) /\ Plans(t, w, h, d, tb)
TableFits(tb) == \A f \in Flats, m \in Months : tb[BillRow(f, m)].paid <= tb[BillRow(f, m)].total
BillsInv ==
    /\ TableFits(table)
    /\ \A t \in Txns : BillsFit(t, txn[t], holder, draft, table)

LEMMA RoomIs ==
    /\ \A b \in BillValue : \A amt \in Nat : amt > 0 /\ amt <= Pending(b) => RoomFor(b, amt)
    /\ \A b \in BillValue : \A amt \in Nat : RoomFor(b, amt) => More(b, amt).paid <= More(b, amt).total
    /\ \A b \in BillValue : \A c \in BillValue : \A amt \in Nat :
          RoomFor(b, amt) /\ c.paid = b.paid /\ c.total >= b.total => RoomFor(c, amt)
  <1>1. ASSUME NEW b \in BillValue, NEW amt \in Nat, amt > 0, amt <= Pending(b) PROVE RoomFor(b, amt)
    BY <1>1 DEF RoomFor, Pending, BillValue
  <1>2. ASSUME NEW b \in BillValue, NEW amt \in Nat, RoomFor(b, amt)
        PROVE  More(b, amt).paid <= More(b, amt).total
    <2>1. More(b, amt).paid = b.paid + amt /\ More(b, amt).total = b.total
      BY MoreTyped
    <2> QED
      BY <1>2, <2>1 DEF RoomFor
  <1>3. ASSUME NEW b \in BillValue, NEW c \in BillValue, NEW amt \in Nat,
               RoomFor(b, amt), c.paid = b.paid, c.total >= b.total
        PROVE  RoomFor(c, amt)
    BY <1>3 DEF RoomFor, BillValue
  <1> QED
    BY <1>1, <1>2, <1>3

LEMMA BillsTyped ==
    ASSUME TypeInv, NEW f \in Flats, NEW m \in Months
    PROVE  /\ BillRow(f, m) \in Rows /\ FlatRow(f) \in Rows
           /\ table[BillRow(f, m)] \in BillValue /\ draft[BillRow(f, m)] \in BillValue
           /\ \A t : View(t, BillRow(f, m)) \in BillValue
  BY RowsKnown DEF TypeInv, TypeOK, Value, View

\* A bill as t sees it is fair whoever holds it.
LEMMA ViewFair ==
    ASSUME TypeInv, BillsInv, NEW t \in Txns, NEW f \in Flats, NEW m \in Months
    PROVE  Fair(t, txn[t], View(t, BillRow(f, m)), table[BillRow(f, m)], f, holder)
  <1> DEFINE r == BillRow(f, m)
  <1>1. CASE holder[r] = t
    BY <1>1 DEF View, BillsInv, BillsFit, OwnBills
  <1>2. CASE holder[r] # t
    <2>1. View(t, r) = table[r] /\ table[r].paid <= table[r].total /\ table[r] \in BillValue
      BY <1>2, BillsTyped DEF View, BillsInv, TableFits
    <2> QED
      BY <2>1 DEF Fair, BillValue
  <1> QED
    BY <1>1, <1>2

\* What is fair stays so: for the transaction itself while it takes more locks ...
LEMMA OwnKept ==
    ASSUME TypeInv, TypeInv', NEW t \in Txns, OwnBills(t, txn[t], holder, draft, table),
           txn'[t].kind = txn[t].kind, table' = table,
           \A f \in Flats : holder[FlatRow(f)] = t => holder'[FlatRow(f)] = t,
           \A f \in Flats, m \in Months : holder'[BillRow(f, m)] = t =>
               \/ /\ holder[BillRow(f, m)] = t /\ draft'[BillRow(f, m)] = draft[BillRow(f, m)]
               \/ Fair(t, txn'[t], draft'[BillRow(f, m)], table'[BillRow(f, m)], f, holder')
    PROVE  OwnBills(t, txn'[t], holder', draft', table')
  <1> SUFFICES ASSUME NEW f \in Flats, NEW m \in Months, holder'[BillRow(f, m)] = t
               PROVE  Fair(t, txn'[t], draft'[BillRow(f, m)], table'[BillRow(f, m)], f, holder')
    BY DEF OwnBills
  <1>1. CASE holder[BillRow(f, m)] = t /\ draft'[BillRow(f, m)] = draft[BillRow(f, m)]
    <2>1. Fair(t, txn[t], draft[BillRow(f, m)], table[BillRow(f, m)], f, holder)
      BY <1>1 DEF OwnBills
    <2> QED
      BY <1>1, <2>1 DEF Fair
  <1> QED
    BY <1>1

\* The bill a publish is about to put credit to.
LEMMA NextTaken ==
    ASSUME NEW w \in Request, ListsFit(w), w.kind = "publish", w.pc = "take"
    PROVE  w \in Publishes /\ Oldest(w.todo) \in w.todo /\ Oldest(w.todo) \in Flats /\ w.month \in Months
  <1>1. w \in Publishes
    BY KindsOf
  <1>2. w.todo \in SUBSET (1 .. LastFlat) /\ w.todo # {}
    BY <1>1 DEF Publishes, Flats, ListsFit
  <1>3. Oldest(w.todo) \in w.todo
    BY <1>2, FirstOf
  <1> QED
    BY <1>1, <1>2, <1>3, KindNamed DEF Flats

LEMMA PlansSame ==
    ASSUME TypeInv, LocksInv, NEW u \in Txns, NEW h, NEW d,
           \A r \in Rows : (h[r] = u <=> holder[r] = u) /\ (holder[r] = u => d[r] = draft[r]),
           Plans(u, txn[u], holder, draft, table)
    PROVE  Plans(u, txn[u], h, d, table)
  <1> DEFINE w == txn[u]
  <1>0. w \in Request /\ ListsFit(w) /\ HoldsWhatItMust(u, w, holder)
    BY TxnTyped DEF LocksInv, LocksFit
  <1>1. ASSUME w.kind = "settle", w.pc = "pay", NEW m \in w.todo
        PROVE  SeenBy(u, BillRow(w.flat, m), h, d, table) = SeenBy(u, BillRow(w.flat, m), holder, draft, table)
    <2>1. BillRow(w.flat, m) \in Rows
      BY <1>0, <1>1, KindsOf, RowsKnown DEF Settlements
    <2> QED
      BY <2>1 DEF SeenBy
  <1>2. ASSUME w.kind = "publish", w.pc = "take"
        PROVE  d[BillRow(Oldest(w.todo), w.month)] = draft[BillRow(Oldest(w.todo), w.month)]
    <2>1. Oldest(w.todo) \in Flats /\ w.month \in Months
      BY <1>0, <1>2, NextTaken
    <2>2. holder[BillRow(Oldest(w.todo), w.month)] = u
      BY <1>0, <1>2, <2>1 DEF HoldsWhatItMust
    <2> QED
      BY <2>1, <2>2, RowsKnown
  <1> HIDE DEF w
  <1>3. Plans(u, w, holder, draft, table)
    BY DEF w
  <1>4. Plans(u, w, h, d, table)
    BY <1>1, <1>2, <1>3 DEF Plans
  <1> QED
    BY <1>4 DEF w

\* ... and for the others.
LEMMA OthersKept ==
    ASSUME TypeInv, LocksInv, NEW t \in Txns, NEW u \in Txns, u # t, Untouched(t), table' = table,
           BillsFit(u, txn[u], holder, draft, table)
    PROVE  BillsFit(u, txn'[u], holder', draft', table')
  <1> DEFINE w == txn[u]
  <1>1. txn'[u] = w /\ \A r \in Rows : (holder'[r] = u <=> holder[r] = u) /\ (holder[r] = u => draft'[r] = draft[r])
    BY DEF Untouched
  <1> HIDE DEF w
  <1>2. OwnBills(u, w, holder', draft', table')
    <2> SUFFICES ASSUME NEW f \in Flats, NEW m \in Months, holder'[BillRow(f, m)] = u
                 PROVE  Fair(u, w, draft'[BillRow(f, m)], table'[BillRow(f, m)], f, holder')
      BY DEF OwnBills
    <2>1. Fair(u, w, draft[BillRow(f, m)], table[BillRow(f, m)], f, holder) /\ draft'[BillRow(f, m)] = draft[BillRow(f, m)]
      BY <1>1, RowsKnown DEF BillsFit, OwnBills, w
    <2>2. holder[FlatRow(f)] = u => holder'[FlatRow(f)] = u
      BY <1>1, RowsKnown
    <2> QED
      BY <2>1, <2>2 DEF Fair
  <1>3. Plans(u, w, holder', draft', table')
    <2> DEFINE h == holder'
               d == draft'
    <2>1. \A r \in Rows : (h[r] = u <=> holder[r] = u) /\ (holder[r] = u => d[r] = draft[r])
      BY <1>1
    <2>2. Plans(u, txn[u], holder, draft, table)
      BY DEF BillsFit
    <2> HIDE DEF h, d
    <2>3. Plans(u, txn[u], h, d, table)
      BY <2>1, <2>2, PlansSame
    <2> QED
      BY <2>3 DEF w, h, d
  <1> QED
    BY <1>1, <1>2, <1>3 DEF BillsFit

LEMMA BillsStep ==
    ASSUME TypeInv, LocksInv, BillsInv, NEW t \in Txns, Untouched(t), table' = table,
           BillsFit(t, txn'[t], holder', draft', table')
    PROVE  BillsInv'
  <1>1. ASSUME NEW u \in Txns, u # t PROVE BillsFit(u, txn'[u], holder', draft', table')
    BY <1>1, OthersKept DEF BillsInv
  <1>2. TableFits(table')
    BY DEF BillsInv
  <1> QED
    BY <1>1, <1>2 DEF BillsInv

\* A commit is fair to what the others hold and plan.
LEMMA BillsCommit ==
    ASSUME TypeInv, LocksInv, BillsInv, NEW t \in Txns, Commit(t), TypeInv'
    PROVE  BillsInv'
  <1>1. Ends(t) /\ table' = [r \in Rows |-> View(t, r)]
    BY DidCommit
  <1>2. Untouched(t) /\ \A r \in Rows : holder'[r] # t
    BY <1>1, EndsAlone
  <1>3. ASSUME NEW f \in Flats, NEW m \in Months
        PROVE  /\ Fair(t, txn[t], table'[BillRow(f, m)], table[BillRow(f, m)], f, holder)
               /\ table'[BillRow(f, m)] = View(t, BillRow(f, m))
    BY <1>1, BillsTyped, ViewFair
  <1>4. TableFits(table')
    BY <1>3 DEF TableFits, Fair
  <1>5. BillsFit(t, txn'[t], holder', draft', table')
    <2>1. txn'[t].pc = "done"
      BY <1>1, KindNamed DEF Ends
    <2> QED
      BY <1>2, <2>1, BillsTyped DEF BillsFit, OwnBills, Plans
  <1>6. ASSUME NEW u \in Txns, u # t PROVE BillsFit(u, txn'[u], holder', draft', table')
    <2> DEFINE w == txn[u]
    <2>0. txn'[u] = w
      BY <1>2, <1>6 DEF Untouched
    <2>1. \A r \in Rows : (holder'[r] = u <=> holder[r] = u) /\ (holder[r] = u => draft'[r] = draft[r] /\ table'[r] = table[r])
      BY <1>1, <1>2, <1>6 DEF Untouched, View, TypeInv, TypeOK
    <2>2. w \in Request /\ ListsFit(w) /\ HoldsWhatItMust(u, w, holder) /\ BillsFit(u, w, holder, draft, table)
      BY TxnTyped DEF LocksInv, LocksFit, BillsInv
    <2>3. OwnBills(u, w, holder', draft', table')
      <3> SUFFICES ASSUME NEW f \in Flats, NEW m \in Months, holder'[BillRow(f, m)] = u
                   PROVE  Fair(u, w, draft'[BillRow(f, m)], table'[BillRow(f, m)], f, holder')
        BY DEF OwnBills
      <3> HIDE DEF w
      <3>1. Fair(u, w, draft[BillRow(f, m)], table[BillRow(f, m)], f, holder)
        BY <2>1, <2>2, BillsTyped DEF BillsFit, OwnBills
      <3> QED
        BY <2>1, <3>1, BillsTyped DEF Fair
    <2>4. ASSUME w.kind = "settle", w.pc \in {"lock", "pay"}, NEW m \in Months
          PROVE  LET r == BillRow(w.flat, m)
                 IN  /\ table[r].pub => table'[r].pub
                     /\ table'[r].paid = table[r].paid /\ table'[r].total >= table[r].total
                     /\ r \in Rows /\ table[r] \in BillValue /\ table'[r] \in BillValue
      <3>1. w.flat \in Flats /\ holder[FlatRow(w.flat)] = u
        BY <2>2, <2>4, KindsOf, KindNamed DEF HoldsWhatItMust, FlatTaken
      <3> DEFINE f == w.flat
      <3> HIDE DEF w, f
      <3>2. holder[FlatRow(f)] # t
        BY <1>6, <3>1 DEF f
      <3>3. table'[BillRow(f, m)] \in BillValue /\ table[BillRow(f, m)] \in BillValue /\ BillRow(f, m) \in Rows
        BY <1>3, <3>1, BillsTyped DEF f
      <3> QED
        BY <1>3, <3>1, <3>2, <3>3 DEF Fair, f
    <2>5. Plans(u, w, holder', draft', table')
      <3>1. CASE w.kind = "settle" /\ w.pc = "lock"
        <4>1. w.queue \subseteq Months
          BY <2>2, <3>1, KindsOf DEF Settlements
        <4> HIDE DEF w
        <4> QED
          BY <2>2, <2>4, <3>1, <4>1 DEF Plans, BillsFit
      <3>2. CASE w.kind = "settle" /\ w.pc = "pay"
        <4>1. w.todo \subseteq Months /\ w.share \in [Months -> Nat]
          BY <2>2, <3>2, KindsOf DEF Settlements
        <4> HIDE DEF w
        <4>2. ASSUME NEW m \in w.todo
              PROVE  /\ table'[BillRow(w.flat, m)].pub
                     /\ RoomFor(SeenBy(u, BillRow(w.flat, m), holder', draft', table'), w.share[m])
          <5> DEFINE r == BillRow(w.flat, m)
                     a == w.share[m]
                     old == SeenBy(u, r, holder, draft, table)
                     new == SeenBy(u, r, holder', draft', table')
          <5>1. table[r].pub /\ RoomFor(old, a) /\ a \in Nat
            BY <2>2, <3>2, <4>1 DEF Plans, BillsFit
          <5>2. /\ table[r].pub => table'[r].pub
                /\ table'[r].paid = table[r].paid /\ table'[r].total >= table[r].total
                /\ r \in Rows /\ table[r] \in BillValue /\ table'[r] \in BillValue
            BY <2>4, <3>2, <4>1
          <5> HIDE DEF r, a
          <5>3. new = old \/ (old = table[r] /\ new = table'[r])
            BY <2>1, <5>2 DEF SeenBy
          <5> HIDE DEF old, new
          <5>4. RoomFor(new, a)
            BY <5>1, <5>2, <5>3, RoomIs
          <5> QED
            BY <5>1, <5>2, <5>4 DEF r, a, new
        <4> QED
          BY <3>2, <4>2 DEF Plans
      <3>3. CASE w.kind = "publish" /\ w.pc = "take"
        <4> DEFINE r == BillRow(Oldest(w.todo), w.month)
        <4>1. Oldest(w.todo) \in Flats /\ w.month \in Months
          BY <2>2, <3>3, NextTaken
        <4>2. r \in Rows /\ holder[r] = u
          BY <2>2, <3>3, <4>1, RowsKnown DEF HoldsWhatItMust
        <4>3. draft'[r] = draft[r]
          BY <2>1, <4>2
        <4>4. RoomFor(draft[r], w.seen)
          BY <2>2, <3>3 DEF BillsFit, Plans
        <4> HIDE DEF w
        <4> QED
          BY <3>3, <4>3, <4>4 DEF Plans
      <3>4. CASE ~(w.kind = "settle" /\ w.pc \in {"lock", "pay"}) /\ ~(w.kind = "publish" /\ w.pc = "take")
        BY <3>4 DEF Plans
      <3> QED
        BY <3>1, <3>2, <3>3, <3>4
    <2> QED
      BY <2>0, <2>3, <2>5 DEF BillsFit
  <1> QED
    BY <1>4, <1>5, <1>6 DEF BillsInv

LEMMA SharesSmall ==
    ASSUME NEW lacks \in [Months -> Nat], NEW amt \in Nat, NEW m \in Months
    PROVE  Shares(lacks, amt)[m] \in Nat /\ Shares(lacks, amt)[m] <= lacks[m]
  <1> DEFINE rest == Rest(amt, Upto(lacks, m - 1))
  <1>1. m - 1 \in 0 .. LastMonth
    BY DEF Months
  <1>2. rest \in Nat
    BY <1>1, SharesTyped
  <1>3. Shares(lacks, amt)[m] = Smaller(rest, lacks[m])
    BY DEF Shares
  <1> HIDE DEF rest
  <1> QED
    BY <1>2, <1>3 DEF Smaller

\* What a settlement plans for a bill is no more than the bill lacks.
LEMMA PlannedFits ==
    ASSUME TypeInv, BillsInv, NEW t \in Txns, Plan(t), NEW m \in txn'[t].todo
    PROVE  /\ table[BillRow(txn[t].flat, m)].pub
           /\ RoomFor(View(t, BillRow(txn[t].flat, m)), txn'[t].share[m])
  <1> DEFINE w == txn[t]
             n == txn'[t]
             lacks == Lacks(t, w.flat)
             b == View(t, BillRow(w.flat, m))
  <1>1. /\ w \in Settlements /\ n.share = Shares(lacks, w.amt)
        /\ n.todo = {k \in Months : n.share[k] > 0}
    BY DidPlan DEF SameSettlement
  <1>2. m \in Months /\ n.share[m] > 0
    BY <1>1
  <1>3. w.flat \in Flats /\ w.amt \in Nat /\ w.kind = "settle"
    BY <1>1 DEF Settlements
  <1>4. lacks \in [Months -> Nat]
    BY <1>3, LacksTyped
  <1>5. n.share[m] \in Nat /\ n.share[m] <= lacks[m]
    <2> HIDE DEF lacks, n, w
    <2> QED
      BY <1>1, <1>2, <1>3, <1>4, SharesSmall
  <1>6. lacks[m] = IF b.pub THEN Pending(b) ELSE 0
    BY <1>2 DEF Lacks
  <1>7. b \in BillValue /\ Fair(t, w, b, table[BillRow(w.flat, m)], w.flat, holder)
    BY <1>2, <1>3, BillsTyped, ViewFair
  <1> HIDE DEF b, lacks, n
  <1>8. b.pub /\ n.share[m] <= Pending(b)
    BY <1>2, <1>5, <1>6
  <1> QED
    BY <1>2, <1>3, <1>5, <1>7, <1>8, RoomIs DEF b, n, Fair

LEMMA BillsKept ==
    ASSUME TypeInv, TypeInv', LocksInv, BillsInv, NEW t \in Txns, Step(t) \/ DeadlockVictim(t)
    PROVE  BillsInv'
  <1> DEFINE w == txn[t]
             n == txn'[t]
             Own == OwnBills(t, n, holder', draft', table')
             Planned == Plans(t, n, holder', draft', table')
             Idle == ~(n.kind = "settle" /\ n.pc \in {"lock", "pay"}) /\ ~(n.kind = "publish" /\ n.pc = "take")
  <1>0. /\ HoldsWhatItMay(t, w, holder) /\ HoldsWhatItMust(t, w, holder) /\ ListsFit(w) /\ w \in Request
        /\ OwnBills(t, w, holder, draft, table) /\ Plans(t, w, holder, draft, table)
        /\ ListsFit(n) /\ n \in Request
    <2>1. HoldsWhatItMay(t, w, holder) /\ HoldsWhatItMust(t, w, holder) /\ ListsFit(w) /\ w \in Request
      BY TxnTyped DEF LocksInv, LocksFit
    <2>2. OwnBills(t, w, holder, draft, table) /\ Plans(t, w, holder, draft, table)
      BY DEF BillsInv, BillsFit
    <2>3. ListsFit(n) /\ n \in Request
      BY DEF TypeInv, TypeOK
    <2> QED
      BY <2>1, <2>2, <2>3
  <1>1. ASSUME Untouched(t), table' = table, Own, Planned PROVE BillsInv'
    BY <1>1, BillsStep DEF BillsFit
  <1>2. ASSUME Idle PROVE Planned
    BY <1>2 DEF Plans
  <1>3. ASSUME Ends(t), Kept PROVE BillsInv'
    <2>1. Untouched(t) /\ \A r \in Rows : holder'[r] # t
      BY <1>3, EndsAlone
    <2>2. Own
      BY <2>1, RowsKnown DEF OwnBills
    <2>3. n.pc = "done"
      BY <1>3, KindNamed DEF Ends
    <2>4. Planned
      BY <1>2, <2>3
    <2> HIDE DEF Own, Planned
    <2> QED
      BY <1>1, <1>3, <2>1, <2>2, <2>4 DEF Kept
  \* a statement that writes nothing
  <1>4. ASSUME Quiet, Turned(t), n.kind = w.kind PROVE Untouched(t) /\ table' = table /\ Own
    <2>1. Untouched(t) /\ holder' = holder /\ draft' = draft /\ table' = table
      BY <1>4, QuietAlone DEF Quiet, Kept
    <2> QED
      BY <1>0, <1>4, <2>1, OwnKept
  \* one that writes no bill
  <1>5. ASSUME NEW r, NEW v, Writes(t, r, v), Turned(t), r \notin BillRows, n.kind = w.kind
        PROVE  Untouched(t) /\ table' = table /\ Own
    <2>1. /\ Untouched(t) /\ table' = table
          /\ \A x \in Rows : /\ holder'[x] = t <=> x = r \/ holder[x] = t
                             /\ draft'[x] = IF x = r THEN v ELSE draft[x]
      BY <1>5, WritesAlone DEF Writes, Kept
    <2>2. \A f \in Flats, m \in Months : holder'[BillRow(f, m)] = t =>
            holder[BillRow(f, m)] = t /\ draft'[BillRow(f, m)] = draft[BillRow(f, m)]
      BY <1>5, <2>1, RowsKnown
    <2>3. \A f \in Flats : holder[FlatRow(f)] = t => holder'[FlatRow(f)] = t
      BY <2>1, RowsKnown
    <2>4. Own
      BY <1>0, <1>5, <2>1, <2>2, <2>3, OwnKept
    <2> QED
      BY <2>1, <2>4
  \* one that writes a bill, and a fair value
  <1>6. ASSUME NEW f \in Flats, NEW m \in Months, NEW v, Writes(t, BillRow(f, m), v), Turned(t),
               n.kind = w.kind, Fair(t, w, v, table[BillRow(f, m)], f, holder)
        PROVE  /\ Untouched(t) /\ table' = table /\ Own
               /\ holder'[BillRow(f, m)] = t /\ draft'[BillRow(f, m)] = v
               /\ \A x \in Rows : x # BillRow(f, m) => (holder'[x] = t <=> holder[x] = t) /\ draft'[x] = draft[x]
    <2> DEFINE r == BillRow(f, m)
    <2>1. /\ Untouched(t) /\ table' = table /\ r \in Rows
          /\ \A x \in Rows : /\ holder'[x] = t <=> x = r \/ holder[x] = t
                             /\ draft'[x] = IF x = r THEN v ELSE draft[x]
      BY <1>6, WritesAlone DEF Writes, Kept
    <2>2. \A g \in Flats : holder[FlatRow(g)] = t => holder'[FlatRow(g)] = t
      BY <2>1, RowsKnown
    <2>3. Fair(t, n, draft'[r], table'[r], f, holder')
      BY <1>6, <2>1, <2>2 DEF Fair
    <2>4. ASSUME NEW g \in Flats, NEW k \in Months, holder'[BillRow(g, k)] = t
          PROVE  \/ holder[BillRow(g, k)] = t /\ draft'[BillRow(g, k)] = draft[BillRow(g, k)]
                 \/ Fair(t, n, draft'[BillRow(g, k)], table'[BillRow(g, k)], g, holder')
      <3>1. CASE BillRow(g, k) = r
        <4>1. g = f /\ k = m
          BY <3>1, RowsApart
        <4> QED
          BY <2>3, <4>1
      <3>2. CASE BillRow(g, k) # r
        BY <2>1, <2>4, <3>2, RowsKnown
      <3> QED
        BY <3>1, <3>2
    <2>5. Own
      BY <1>0, <1>6, <2>1, <2>2, <2>4, OwnKept
    <2> QED
      BY <2>1, <2>5
  <1>7. w \in Waiting => \A r \in Rows : holder[r] # t
    <2> SUFFICES ASSUME w \in Waiting PROVE \A r \in Rows : holder[r] # t
      OBVIOUS
    <2>1. w.kind = "none"
      BY KindNamed
    <2>2. /\ \A f \in Flats : holder[FlatRow(f)] # t
          /\ \A f \in Flats, m \in Months : holder[BillRow(f, m)] # t
          /\ \A a \in Accounts : holder[AccountRow(a)] # t
          /\ \A k \in Months : holder[PeriodRow(k)] # t
      BY <1>0, <2>1 DEF HoldsWhatItMay, MayHoldFlat, MayHoldBill, MayHoldAccount, MayHoldPeriod
    <2> QED
      BY <2>2 DEF Rows, FlatRows, BillRows, PeriodRows, AccountRows
  <1>8. CASE BeginSettle(t)
    <2>1. Untouched(t) /\ holder' = holder /\ table' = table /\ w \in Waiting
      BY <1>8, DidBeginSettle, QuietAlone DEF Quiet, Kept
    <2>2. Own
      BY <1>7, <2>1, RowsKnown DEF OwnBills
    <2>3. Idle
      BY <1>8, DidBeginSettle, KindNamed
    <2> HIDE DEF n, w, Own, Planned, Idle
    <2> QED
      BY <1>1, <1>2, <2>1, <2>2, <2>3
  <1>9. CASE BeginPublish(t)
    <2>1. Untouched(t) /\ holder' = holder /\ table' = table /\ w \in Waiting
      BY <1>9, DidBeginPublish, QuietAlone DEF Quiet, Kept
    <2>2. Own
      BY <1>7, <2>1, RowsKnown DEF OwnBills
    <2>3. Idle
      BY <1>9, DidBeginPublish, KindNamed
    <2> HIDE DEF n, w, Own, Planned, Idle
    <2> QED
      BY <1>1, <1>2, <2>1, <2>2, <2>3
  <1>10. CASE CreditAccount(t)
    <2> DEFINE r == AccountRow(w.acct)
               v == View(t, r) + w.amt
    <2>1. Writes(t, r, v) /\ Turned(t) /\ n.kind = w.kind /\ Idle /\ r \notin BillRows
      BY <1>10, DidCreditAccount, KindNamed, RowsKnown DEF SameSettlement, SamePublish, SameSummer, SameRefund
    <2> HIDE DEF n, w, Own, Planned, Idle, r, v
    <2> QED
      BY <1>1, <1>2, <1>5, <2>1
  <1>11. CASE LockFlat(t)
    <2> DEFINE r == FlatRow(w.flat)
               v == View(t, r)
    <2>1. Writes(t, r, v) /\ Turned(t) /\ n.kind = w.kind /\ Idle /\ r \notin BillRows
      BY <1>11, DidLockFlat, KindNamed, RowsKnown DEF SameSettlement, SamePublish, SameSummer, SameRefund
    <2> HIDE DEF n, w, Own, Planned, Idle, r, v
    <2> QED
      BY <1>1, <1>2, <1>5, <2>1
  <1>12. CASE KeepExcess(t)
    <2> DEFINE r == FlatRow(w.flat)
               v == View(t, r) + w.seen
    <2>1. Writes(t, r, v) /\ Turned(t) /\ n.kind = w.kind /\ Idle /\ r \notin BillRows
      BY <1>12, DidKeepExcess, KindNamed, RowsKnown DEF SameSettlement, SamePublish, SameSummer, SameRefund
    <2> HIDE DEF n, w, Own, Planned, Idle, r, v
    <2> QED
      BY <1>1, <1>2, <1>5, <2>1
  <1>13. CASE WriteSums(t)
    <2> DEFINE r == PeriodRow(Turn(t))
               v == w.seen
    <2>1. Writes(t, r, v) /\ Turned(t) /\ n.kind = w.kind /\ Idle /\ r \notin BillRows
      BY <1>13, DidWriteSums, KindNamed, RowsKnown DEF SameSettlement, SamePublish, SameSummer, SameRefund
    <2> HIDE DEF n, w, Own, Planned, Idle, r, v
    <2> QED
      BY <1>1, <1>2, <1>5, <2>1
  <1>14. CASE MarkPublished(t)
    <2> DEFINE r == PeriodRow(w.month)
               v == View(t, r)
    <2>1. Writes(t, r, v) /\ Turned(t) /\ n.kind = w.kind /\ Idle /\ r \notin BillRows
      BY <1>14, DidMarkPublished, KindNamed, RowsKnown DEF SameSettlement, SamePublish, SameSummer, SameRefund
    <2> HIDE DEF n, w, Own, Planned, Idle, r, v
    <2> QED
      BY <1>1, <1>2, <1>5, <2>1
  <1>15. CASE ReadSums(t)
    <2>1. Quiet /\ Turned(t) /\ n.kind = w.kind /\ Idle
      BY <1>15, DidReadSums, KindNamed DEF SameSettlement, SamePublish, SameSummer, SameRefund
    <2> HIDE DEF n, w, Own, Planned, Idle
    <2> QED
      BY <1>1, <1>2, <1>4, <2>1
  <1>16. CASE PickBills(t)
    <2>1. Quiet /\ Turned(t) /\ n.kind = w.kind /\ Idle
      BY <1>16, DidPickBills, KindNamed DEF SameSettlement, SamePublish, SameSummer, SameRefund
    <2> HIDE DEF n, w, Own, Planned, Idle
    <2> QED
      BY <1>1, <1>2, <1>4, <2>1
  <1>17. CASE ListBills(t)
    <2>1. /\ Quiet /\ Turned(t) /\ n.kind = w.kind /\ n.kind = "settle" /\ n.pc = "lock"
          /\ n.flat = w.flat /\ w.flat \in Flats /\ n.queue = Owing(t, w.flat)
      BY <1>17, DidListBills, KindNamed DEF SameSettlement
    <2>2. Untouched(t) /\ table' = table /\ Own
      BY <1>4, <2>1
    <2>3. ASSUME NEW m \in n.queue PROVE table'[BillRow(n.flat, m)].pub
      <3>1. m \in Months /\ View(t, BillRow(w.flat, m)).pub
        BY <2>1 DEF Owing, OpenBill
      <3>2. Fair(t, w, View(t, BillRow(w.flat, m)), table[BillRow(w.flat, m)], w.flat, holder)
        BY <2>1, <3>1, ViewFair
      <3> QED
        BY <2>1, <2>2, <3>1, <3>2 DEF Fair
    <2>4. Planned
      BY <2>1, <2>3 DEF Plans
    <2> HIDE DEF Own, Planned
    <2> QED
      BY <1>1, <2>2, <2>4
  <1>18. CASE LockBill(t)
    <2> DEFINE r == BillRow(w.flat, Turn(t))
    <2>0. SameSettlement(w, n) /\ w.pc = "lock" /\ Turned(t) /\ n.kind = w.kind /\ w.kind = "settle"
      BY <1>18, DidLockBill, KindNamed DEF SameSettlement
    <2>1. CASE Quiet /\ n.pc = "plan"
      <3>1. Idle
        BY <2>1
      <3> HIDE DEF n, w, Own, Planned, Idle
      <3> QED
        BY <1>1, <1>2, <1>4, <2>0, <2>1, <3>1
    <2>2. CASE n.queue \subseteq w.queue /\ Turn(t) \in w.queue /\ Writes(t, r, View(t, r)) /\ n.pc = "lock"
      <3>1. w.flat \in Flats /\ Turn(t) \in Months /\ n.flat = w.flat
        BY <2>0, <2>2 DEF SameSettlement, Settlements
      <3>2. Fair(t, w, View(t, r), table[r], w.flat, holder)
        BY <3>1, ViewFair
      <3>3. Untouched(t) /\ table' = table /\ Own
        BY <1>6, <2>0, <2>2, <3>1, <3>2
      <3>4. Planned
        BY <1>0, <2>0, <2>2, <3>1, <3>3 DEF Plans
      <3> HIDE DEF Own, Planned
      <3> QED
        BY <1>1, <3>3, <3>4
    <2> QED
      BY <1>18, <2>1, <2>2, DidLockBill
  <1>19. CASE Plan(t)
    <2>1. /\ Quiet /\ Turned(t) /\ n.kind = w.kind /\ n.kind = "settle" /\ n.pc = "pay" /\ n.flat = w.flat
      BY <1>19, DidPlan, KindNamed DEF SameSettlement
    <2>2. Untouched(t) /\ table' = table /\ Own /\ holder' = holder /\ draft' = draft
      BY <1>4, <2>1 DEF Quiet
    <2>3. \A m \in n.todo : /\ table[BillRow(w.flat, m)].pub
                            /\ RoomFor(View(t, BillRow(w.flat, m)), n.share[m])
      BY <1>19, PlannedFits
    <2>4. Planned
      BY <2>1, <2>2, <2>3 DEF Plans, SeenBy, View
    <2> HIDE DEF Own, Planned
    <2> QED
      BY <1>1, <2>2, <2>4
  <1>20. CASE Pay(t)
    <2> DEFINE m == Oldest(w.todo)
               r == BillRow(w.flat, m)
               v == More(View(t, r), w.share[m])
    <2>0. /\ SameSettlement(w, n) /\ w.pc = "pay" /\ Turned(t) /\ n.kind = w.kind /\ w.kind = "settle"
          /\ n.share = w.share
      BY <1>20, DidPay, KindNamed DEF SameSettlement
    <2>1. CASE Quiet /\ n.pc = "excess"
      <3>1. Idle
        BY <2>1
      <3> HIDE DEF n, w, Own, Planned, Idle
      <3> QED
        BY <1>1, <1>2, <1>4, <2>0, <2>1, <3>1
    <2>2. CASE n.pc = "pay" /\ n.todo = w.todo \ {m} /\ m \in w.todo /\ Writes(t, r, v)
      <3>1. w.flat \in Flats /\ m \in Months /\ n.flat = w.flat /\ w.share[m] \in Nat /\ w.todo \subseteq Months
        BY <2>0, <2>2 DEF SameSettlement, Settlements
      <3>2. Fair(t, w, View(t, r), table[r], w.flat, holder) /\ View(t, r) \in BillValue
        BY <3>1, ViewFair, BillsTyped
      <3>3. RoomFor(View(t, r), w.share[m])
        BY <1>0, <2>0, <2>2 DEF Plans, SeenBy, View
      <3>4. holder[FlatRow(w.flat)] = t
        BY <1>0, <2>0 DEF HoldsWhatItMust, FlatTaken
      <3>5. Fair(t, w, v, table[r], w.flat, holder)
        <4> DEFINE b == View(t, r)
                   a == w.share[m]
        <4> HIDE DEF b, a
        <4>1. b \in BillValue /\ a \in Nat /\ RoomFor(b, a) /\ Fair(t, w, b, table[r], w.flat, holder)
          BY <3>1, <3>2, <3>3 DEF a, b
        <4>2. /\ More(b, a).paid <= More(b, a).total /\ More(b, a).total = b.total
              /\ More(b, a).pub = b.pub
          BY <4>1, RoomIs, MoreTyped
        <4>3. Fair(t, w, More(b, a), table[r], w.flat, holder)
          BY <3>4, <4>1, <4>2 DEF Fair
        <4> QED
          BY <4>3 DEF a, b
      <3> HIDE DEF v
      <3>6. /\ Untouched(t) /\ table' = table /\ Own
            /\ \A x \in Rows : x # r => (holder'[x] = t <=> holder[x] = t) /\ draft'[x] = draft[x]
        BY <1>6, <2>0, <2>2, <3>1, <3>5
      <3>7. ASSUME NEW k \in n.todo
            PROVE  /\ table'[BillRow(n.flat, k)].pub
                   /\ RoomFor(SeenBy(t, BillRow(n.flat, k), holder', draft', table'), n.share[k])
        <4>1. k \in w.todo /\ k # m /\ k \in Months
          BY <2>2, <3>1
        <4>2. BillRow(w.flat, k) # r /\ BillRow(w.flat, k) \in Rows
          BY <3>1, <4>1, RowsApart, RowsKnown
        <4>3. SeenBy(t, BillRow(w.flat, k), holder', draft', table') = SeenBy(t, BillRow(w.flat, k), holder, draft, table)
          BY <3>6, <4>2 DEF SeenBy
        <4>4. table[BillRow(w.flat, k)].pub /\ RoomFor(SeenBy(t, BillRow(w.flat, k), holder, draft, table), w.share[k])
          BY <1>0, <2>0, <4>1 DEF Plans
        <4> QED
          BY <2>0, <3>1, <3>6, <4>3, <4>4
      <3>8. Planned
        BY <2>0, <2>2, <3>7 DEF Plans
      <3> HIDE DEF Own, Planned
      <3> QED
        BY <1>1, <3>6, <3>8
    <2> QED
      BY <1>20, <2>1, <2>2, DidPay
  <1>21. CASE Fine(t)
    <2>1. PICK f \in Flats, m \in Months : Writes(t, BillRow(f, m), Fined(View(t, BillRow(f, m))))
      BY <1>21, DidFine
    <2> DEFINE r == BillRow(f, m)
    <2>2. w \in Waiting /\ n.kind = "fine" /\ n.pc = "sums" /\ Turned(t) /\ w.kind = "none"
      BY <1>21, DidFine, KindNamed
    <2>3. /\ Untouched(t) /\ table' = table /\ r \in Rows
          /\ \A x \in Rows : /\ holder'[x] = t <=> x = r \/ holder[x] = t
                             /\ draft'[x] = IF x = r THEN Fined(View(t, r)) ELSE draft[x]
      BY <2>1, <2>2, WritesAlone DEF Writes, Kept
    <2>4. View(t, r) \in BillValue /\ Fair(t, w, View(t, r), table[r], f, holder) /\ table[r] \in BillValue
          /\ View(t, r) = table[r]
      BY <1>7, <2>2, <2>3, ViewFair, BillsTyped DEF View
    <2>5. Fair(t, n, Fined(table[r]), table[r], f, holder')
      <3> DEFINE b == table[r]
      <3> HIDE DEF b
      <3>1. b \in BillValue /\ Fair(t, w, b, b, f, holder)
        BY <2>4 DEF b
      <3>2. /\ Fined(b) \in BillValue /\ Fined(b).paid = b.paid
            /\ Fined(b).total = b.total + 1 /\ Fined(b).pub = b.pub
        BY <3>1, FinedTyped
      <3>3. Fined(b).paid <= Fined(b).total /\ Fined(b).total >= b.total
        BY <3>1, <3>2 DEF Fair, BillValue
      <3>4. Fair(t, n, Fined(b), b, f, holder')
        BY <2>2, <3>2, <3>3 DEF Fair
      <3> QED
        BY <3>4 DEF b
    <2>6. Own
      <3> SUFFICES ASSUME NEW g \in Flats, NEW k \in Months, holder'[BillRow(g, k)] = t
                   PROVE  Fair(t, n, draft'[BillRow(g, k)], table'[BillRow(g, k)], g, holder')
        BY DEF OwnBills
      <3>1. BillRow(g, k) = r
        BY <1>7, <2>2, <2>3, RowsKnown
      <3>2. g = f
        BY <3>1, RowsApart
      <3> QED
        BY <2>3, <2>4, <2>5, <3>1, <3>2
    <2>7. Idle
      BY <2>2
    <2> HIDE DEF n, w, Own, Planned, Idle
    <2> QED
      BY <1>1, <1>2, <2>3, <2>6, <2>7
  <1>22. CASE BeginRefund(t)
    <2> DEFINE r == FlatRow(n.flat)
    <2>1. w \in Waiting /\ n \in Refunds /\ Turned(t) /\ Writes(t, r, View(t, r))
      BY <1>22, DidBeginRefund
    <2>2. r \notin BillRows
      BY <2>1, KindNamed, RowsKnown
    <2>3. /\ Untouched(t) /\ table' = table
          /\ \A x \in Rows : holder'[x] = t <=> x = r \/ holder[x] = t
      BY <2>1, WritesAlone DEF Writes, Kept
    <2>4. Own
      BY <1>7, <2>1, <2>2, <2>3, RowsKnown DEF OwnBills
    <2>5. Idle
      BY <2>1, KindNamed
    <2> HIDE DEF n, w, Own, Planned, Idle
    <2> QED
      BY <1>1, <1>2, <2>3, <2>4, <2>5
  <1>23. CASE PayBack(t)
    <2> DEFINE r == AccountRow(w.acct)
               flat == FlatRow(w.flat)
    <2>1. CASE Abort(t)
      BY <1>3, <1>23, <2>1, DidPayBack, DidAbort, KindNamed DEF AllKinds
    <2>2. CASE ~Abort(t)
      <3>1. /\ SameRefund(w, n) /\ n.pc = "commit" /\ Turned(t) /\ n.kind = w.kind /\ w.kind = "refund"
            /\ w.flat \in Flats /\ w.acct \in Accounts
            /\ WritesTwo(t, r, View(t, r) - w.amt, flat, View(t, flat) - w.amt)
        BY <1>23, <2>2, DidPayBack, KindNamed DEF SameRefund
      <3>2. holder[flat] = t
        BY <1>0, <3>1 DEF HoldsWhatItMust, SameRefund, Refunds
      <3>3. /\ Untouched(t) /\ table' = table
            /\ \A x \in Rows : /\ holder'[x] = t <=> x = r \/ holder[x] = t
                               /\ x \notin {r, flat} => draft'[x] = draft[x]
        <4> DEFINE left == View(t, r) - w.amt
                   rest == View(t, flat) - w.amt
        <4> HIDE DEF left, rest
        <4>1. WritesTwo(t, r, left, flat, rest)
          BY <3>1 DEF left, rest
        <4> HIDE DEF r, flat
        <4>2. /\ Untouched(t)
              /\ \A y \in Rows : /\ holder'[y] = t <=> y = r \/ holder[y] = t
                                 /\ draft'[y] = IF y = flat THEN rest ELSE IF y = r THEN left ELSE draft[y]
          BY <3>1, <3>2, <4>1, TwoAlone
        <4>3. table' = table
          BY <4>1 DEF WritesTwo, Kept
        <4> QED
          BY <4>2, <4>3
      <3>4. \A f \in Flats, m \in Months : holder'[BillRow(f, m)] = t =>
              holder[BillRow(f, m)] = t /\ draft'[BillRow(f, m)] = draft[BillRow(f, m)]
        BY <3>1, <3>3, RowsKnown
      <3>5. \A f \in Flats : holder[FlatRow(f)] = t => holder'[FlatRow(f)] = t
        BY <3>3, RowsKnown
      <3>6. Own
        BY <1>0, <3>1, <3>3, <3>4, <3>5, OwnKept
      <3>7. Idle
        BY <3>1
      <3> HIDE DEF n, w, Own, Planned, Idle
      <3> QED
        BY <1>1, <1>2, <3>3, <3>6, <3>7
    <2> QED
      BY <2>1, <2>2
  <1>24. CASE LockCreditFlat(t)
    <2> DEFINE r == FlatRow(Turn(t))
    <2>0. Turned(t) /\ n.kind = w.kind /\ n.kind = "publish" /\ n.pc \in {"show", "lock"}
      BY <1>24, DidLockCreditFlat, KindNamed DEF SamePublish
    <2>1. Idle
      BY <2>0
    <2>2. CASE Quiet
      <3> HIDE DEF n, w, Own, Planned, Idle
      <3> QED
        BY <1>1, <1>2, <1>4, <2>0, <2>1, <2>2
    <2>3. CASE Turn(t) \in Flats /\ Writes(t, r, View(t, r))
      <3>1. r \notin BillRows
        BY <2>3, RowsKnown
      <3> HIDE DEF n, w, Own, Planned, Idle, r
      <3> QED
        BY <1>1, <1>2, <1>5, <2>0, <2>1, <2>3, <3>1
    <2> QED
      BY <1>24, <2>2, <2>3, DidLockCreditFlat
  <1>25. CASE ShowBill(t)
    <2> DEFINE f == Oldest(w.todo)
               r == BillRow(f, w.month)
               v == Shown(View(t, r))
    <2>0. SamePublish(w, n) /\ Turned(t) /\ n.kind = w.kind /\ n.kind = "publish" /\ n.pc \in {"show", "pick"}
      BY <1>25, DidShowBill, KindNamed DEF SamePublish
    <2>1. Idle
      BY <2>0
    <2>2. CASE Quiet
      <3> HIDE DEF n, w, Own, Planned, Idle
      <3> QED
        BY <1>1, <1>2, <1>4, <2>0, <2>1, <2>2
    <2>3. CASE f \in w.todo /\ Writes(t, r, v)
      <3>1. f \in Flats /\ w.month \in Months
        BY <2>0, <2>3, KindNamed DEF SamePublish, Publishes
      <3>2. Fair(t, w, View(t, r), table[r], f, holder) /\ View(t, r) \in BillValue
        BY <3>1, ViewFair, BillsTyped
      <3>3. Fair(t, w, v, table[r], f, holder)
        BY <2>0, <3>2, ShownTyped DEF Fair
      <3>4. Untouched(t) /\ table' = table /\ Own
        BY <1>6, <2>0, <2>3, <3>1, <3>3
      <3> HIDE DEF n, w, Own, Planned, Idle
      <3> QED
        BY <1>1, <1>2, <2>1, <3>4
    <2> QED
      BY <1>25, <2>2, <2>3, DidShowBill
  <1>26. CASE ReadCredit(t)
    <2> DEFINE f == Oldest(w.todo)
               r == BillRow(f, w.month)
    <2>0. SamePublish(w, n) /\ Turned(t) /\ n.kind = w.kind /\ n.kind = "publish" /\ Quiet /\ w.pc = "spend"
      BY <1>26, DidReadCredit, KindNamed DEF SamePublish
    <2>1. Untouched(t) /\ table' = table /\ Own /\ draft' = draft
      BY <1>4, <2>0 DEF Quiet
    <2>2. CASE n.pc # "take"
      <3>1. Idle
        BY <2>0, <2>2
      <3> HIDE DEF n, w, Own, Planned, Idle
      <3> QED
        BY <1>1, <1>2, <2>1, <3>1
    <2>3. CASE n.pc = "take"
      <3>1. n.todo = w.todo /\ f \in Flats /\ n.seen > 0 /\ n.seen <= Pending(View(t, r)) /\ n.month = w.month
        BY <1>26, <2>0, <2>3, DidReadCredit DEF SamePublish
      <3>2. w.month \in Months /\ n.seen \in Nat
        BY <2>0, KindNamed DEF SamePublish, Publishes
      <3>3. holder[r] = t /\ View(t, r) = draft[r]
        BY <1>0, <2>0, <3>1 DEF HoldsWhatItMust, View
      <3>4. draft[r] \in BillValue
        BY <3>1, <3>2, BillsTyped
      <3>5. RoomFor(draft[r], n.seen)
        BY <3>1, <3>2, <3>3, <3>4, RoomIs
      <3>6. Planned
        BY <2>0, <2>1, <2>3, <3>1, <3>5 DEF Plans
      <3> HIDE DEF Own, Planned
      <3> QED
        BY <1>1, <2>1, <3>6
    <2> QED
      BY <2>2, <2>3
  <1>27. CASE TakeCredit(t)
    <2> DEFINE f == Oldest(w.todo)
               flat == FlatRow(f)
               r == BillRow(f, w.month)
               v == More(draft[r], w.seen)
    <2>0. w \in Publishes /\ w.pc = "take" /\ f \in Flats /\ w.month \in Months /\ w.kind = "publish" /\ w.seen \in Nat
      BY <1>27, DidTakeCredit, KindNamed DEF Publishes
    <2>1. CASE Abort(t)
      BY <1>3, <2>0, <2>1, DidAbort DEF AllKinds
    <2>2. CASE ~Abort(t)
      <3>1. /\ SamePublish(w, n) /\ n.pc = "spend" /\ Turned(t) /\ n.kind = w.kind
            /\ WritesTwo(t, flat, View(t, flat) - w.seen, r, v)
        BY <1>27, <2>0, <2>2, DidTakeCredit, KindNamed DEF SamePublish
      <3>2. holder[r] = t /\ r \in Rows /\ flat \in Rows /\ flat # r
        BY <1>0, <2>0, RowsKnown, RowsApart DEF HoldsWhatItMust
      <3> HIDE DEF v
      <3>3. /\ Untouched(t) /\ table' = table
            /\ \A x \in Rows : /\ holder'[x] = t <=> x = flat \/ holder[x] = t
                               /\ x \notin {r, flat} => draft'[x] = draft[x]
            /\ draft'[r] = v /\ holder'[flat] = t
        <4> DEFINE left == View(t, flat) - w.seen
        <4> HIDE DEF left
        <4>1. WritesTwo(t, flat, left, r, v)
          BY <3>1 DEF left
        <4> HIDE DEF r, flat
        <4>2. /\ Untouched(t)
              /\ \A y \in Rows : /\ holder'[y] = t <=> y = flat \/ holder[y] = t
                                 /\ draft'[y] = IF y = r THEN v ELSE IF y = flat THEN left ELSE draft[y]
          BY <3>1, <3>2, <4>1, TwoAlone
        <4>3. table' = table
          BY <4>1 DEF WritesTwo, Kept
        <4> QED
          BY <3>2, <4>2, <4>3
      <3>4. Fair(t, n, v, table[r], f, holder')
        <4> DEFINE b == draft[r]
                   a == w.seen
        <4>1. RoomFor(b, a)
          BY <1>0, <2>0 DEF Plans
        <4>2. b \in BillValue /\ Fair(t, w, b, table[r], f, holder)
          BY <1>0, <2>0, <3>2, BillsTyped DEF OwnBills
        <4> HIDE DEF b, a
        <4>3. a \in Nat
          BY <2>0 DEF a
        <4>4. More(b, a).paid <= More(b, a).total /\ More(b, a).total = b.total /\ More(b, a).pub = b.pub
          BY <4>1, <4>2, <4>3, RoomIs, MoreTyped
        <4>5. Fair(t, n, More(b, a), table[r], f, holder')
          BY <2>0, <3>1, <3>3, <4>2, <4>4 DEF Fair
        <4> QED
          BY <4>5 DEF a, b, v
      <3>5. ASSUME NEW g \in Flats, NEW k \in Months, holder'[BillRow(g, k)] = t
            PROVE  \/ holder[BillRow(g, k)] = t /\ draft'[BillRow(g, k)] = draft[BillRow(g, k)]
                   \/ Fair(t, n, draft'[BillRow(g, k)], table'[BillRow(g, k)], g, holder')
        <4>1. CASE BillRow(g, k) = r
          <5>1. g = f /\ k = w.month
            BY <4>1, RowsApart
          <5> QED
            BY <3>3, <3>4, <5>1
        <4>2. CASE BillRow(g, k) # r
          BY <2>0, <3>3, <3>5, <4>2, RowsKnown, RowsApart
        <4> QED
          BY <4>1, <4>2
      <3>6. \A g \in Flats : holder[FlatRow(g)] = t => holder'[FlatRow(g)] = t
        BY <3>3, RowsKnown
      <3>7. Own
        BY <1>0, <3>1, <3>3, <3>5, <3>6, OwnKept
      <3>8. Idle
        BY <3>1
      <3> HIDE DEF n, w, Own, Planned, Idle
      <3> QED
        BY <1>1, <1>2, <3>3, <3>7, <3>8
    <2> QED
      BY <2>1, <2>2
  <1>28. CASE Commit(t)
    BY <1>28, BillsCommit
  <1>29. CASE DeadlockVictim(t)
    BY <1>3, <1>29, DidDeadlockVictim
  <1> QED
    BY <1>8, <1>9, <1>10, <1>11, <1>12, <1>13, <1>14, <1>15, <1>16, <1>17, <1>18, <1>19, <1>20, <1>21, <1>22, <1>23, <1>24, <1>25, <1>26, <1>27, <1>28, <1>29
       DEF Step, Settle, Refund, Publish

LEMMA StartedBills == Init => BillsInv
  <1> SUFFICES ASSUME Init PROVE BillsInv
    OBVIOUS
  <1>1. PICK c \in [Flats -> Credits] :
          \A f \in Flats, m \in Months : table[BillRow(f, m)] =
             [total |-> Due, paid |-> PaidBefore(c, f, m), pub |-> m \notin Drafts, fined |-> FALSE]
    BY StartsFrom
  <1>2. ASSUME NEW f \in Flats, NEW m \in Months PROVE table[BillRow(f, m)].paid <= table[BillRow(f, m)].total
    <2>1. table[BillRow(f, m)] =
             [total |-> Due, paid |-> PaidBefore(c, f, m), pub |-> m \notin Drafts, fined |-> FALSE]
      BY <1>1
    <2>2. PaidBefore(c, f, m) = Due \/ PaidBefore(c, f, m) = 0
      BY DEF PaidBefore
    <2> QED
      BY <2>1, <2>2
  <1>3. ASSUME NEW t \in Txns PROVE BillsFit(t, txn[t], holder, draft, table)
    <2>1. txn[t].kind = "none" /\ \A r \in Rows : holder[r] # t
      BY DEF Init
    <2> QED
      BY <2>1, RowsKnown DEF BillsFit, OwnBills, Plans
  <1> QED
    BY <1>2, <1>3 DEF BillsInv, TableFits

LEMMA BillsRest ==
    ASSUME BillsInv, UNCHANGED vars
    PROVE  BillsInv'
  <1>1. txn' = txn /\ holder' = holder /\ draft' = draft /\ table' = table
    BY DEF vars
  <1> QED
    BY <1>1 DEF BillsInv

Held == TypeInv /\ LocksInv /\ BillsInv

LEMMA HeldAlways == Spec => []Held
  <1>1. Init => Held
    BY StartedTyped, StartedLocks, StartedBills DEF Held
  <1>2. Held /\ [Next]_vars => Held'
    <2>1. ASSUME Held, Next PROVE Held'
      <3>1. PICK t \in Txns : Step(t) \/ DeadlockVictim(t)
        BY <2>1 DEF Next
      <3>2. TypeInv /\ LocksInv /\ BillsInv
        BY <2>1 DEF Held
      <3>3. TypeInv'
        BY <3>1, <3>2, StepTyped
      <3>4. LocksInv'
        BY <3>1, <3>2, LocksKept
      <3>5. BillsInv'
        BY <3>1, <3>2, <3>3, BillsKept
      <3> QED
        BY <3>3, <3>4, <3>5 DEF Held
    <2>2. ASSUME Held, UNCHANGED vars PROVE Held'
      <3>1. TypeInv'
        BY <2>2 DEF Held, TypeInv, TypeOK, vars, ListsFit, Value, BillValue
      <3> QED
        BY <2>2, <3>1, LocksRest, BillsRest DEF Held
    <2> QED
      BY <2>1, <2>2
  <1> QED
    BY <1>1, <1>2, PTL DEF Spec

\* Whatever payments are approved, fines levied and months published at once, no bill
\* is paid more than it comes to: the flat's lock is taken before its bills are read,
\* and who does not hold the flat pays none of its bills.
THEOREM BillsNotOverpaid == Spec => []NeverOverpaid
  <1>1. Held => NeverOverpaid
    BY DEF Held, BillsInv, TableFits, NeverOverpaid, BillRows
  <1> QED
    BY <1>1, HeldAlways, PTL

-----------------------------------------------------------------------------
(* Who waits for whom.                                                     *)

WaitsIn(t, ts) == Needs(t) # {} /\ \A r \in Needs(t) : holder[r] \in ts \ {t}

\* A row someone waits for, and who: what it says of both.
LEMMA NeedsBySort ==
    ASSUME Held, NEW t \in Txns, Needs(t) # {}
    PROVE  \/ /\ txn[t].kind \in {"settle", "refund"} /\ txn[t].pc = "account"
              /\ \E a \in Accounts : Needs(t) = {AccountRow(a)}
           \/ /\ txn[t].kind = "settle" /\ txn[t].pc = "flat"
              /\ \E f \in Flats : Needs(t) = {FlatRow(f)}
           \/ /\ txn[t].pc = "period" /\ txn[t].kind \in {"settle", "fine", "publish"}
              /\ Turn(t) \in txn[t].queue /\ Turn(t) \in Months /\ Needs(t) = {PeriodRow(Turn(t))}
           \/ /\ txn[t].pc = "status" /\ txn[t].kind = "publish" /\ txn[t].queue = {}
              /\ txn[t].month \in Months /\ Needs(t) = {PeriodRow(txn[t].month)}
           \/ /\ txn[t].kind = "settle" /\ txn[t].pc \in {"lock", "pay"} /\ txn[t].flat \in Flats
              /\ \E m \in Months : /\ Needs(t) = {BillRow(txn[t].flat, m)}
                                   /\ table[BillRow(txn[t].flat, m)].pub
           \/ /\ txn[t].kind = "publish" /\ txn[t].pc \in {"lock", "take"}
              /\ \E f \in Flats : Needs(t) = {FlatRow(f)}
           \/ /\ txn[t].kind = "publish" /\ txn[t].pc = "show"
              /\ \E f \in Flats, m \in Months : Needs(t) = {BillRow(f, m)}
  <1> DEFINE w == txn[t]
  <1>0. w \in Request /\ ListsFit(w) /\ Plans(t, w, holder, draft, table)
    BY TxnTyped DEF Held, BillsInv, BillsFit
  <1>1. CASE w.pc = "account"
    <2>1. w \in Settlements \/ w \in Refunds
      BY <1>0, <1>1, KindsOf
    <2>2. w.acct \in Accounts /\ w.kind \in {"settle", "refund"}
      BY <2>1, KindNamed
    <2>3. Needs(t) = {AccountRow(w.acct)}
      BY <1>1 DEF Needs
    <2> QED
      BY <1>1, <2>2, <2>3
  <1>2. CASE w.pc = "flat"
    <2>1. w.flat \in Flats /\ w.kind = "settle"
      BY <1>0, <1>2, KindsOf, KindNamed
    <2>2. Needs(t) = {FlatRow(w.flat)}
      BY <1>2 DEF Needs
    <2> QED
      BY <1>2, <2>1, <2>2
  <1>3. CASE w.pc = "period"
    <2>1. w \in Settlements \cup Fines \cup Publishes /\ w.queue # {}
      BY <1>0, <1>3, KindsOf DEF ListsFit
    <2>2. w.queue \subseteq Months /\ w.kind \in {"settle", "fine", "publish"}
      <3>1. w \in Publishes => w.queue \subseteq {w.month} /\ w.month \in Months
        BY <1>0, <1>3, KindNamed DEF ListsFit
      <3>2. w \in Settlements \cup Fines => w.queue \subseteq Months
        BY DEF Settlements, Fines
      <3> QED
        BY <2>1, <3>1, <3>2, KindNamed
    <2>3. Turn(t) \in w.queue
      BY <2>1, <2>2, TurnOf
    <2>4. Needs(t) = {PeriodRow(Turn(t))}
      BY <1>3 DEF Needs
    <2> QED
      BY <1>3, <2>2, <2>3, <2>4
  <1>4. CASE w.pc = "status"
    <2>1. w.kind = "publish" /\ w.month \in Months /\ w.queue = {}
      BY <1>0, <1>4, KindsOf, KindNamed DEF ListsFit
    <2>2. Needs(t) = {PeriodRow(w.month)}
      BY <1>4 DEF Needs
    <2> QED
      BY <1>4, <2>1, <2>2
  <1>5. CASE w.pc = "lock"
    <2>0. w \in Settlements \/ w \in Publishes
      BY <1>0, <1>5, KindsOf
    <2>1. w.queue # {}
      BY <1>5 DEF Needs
    <2>2. CASE w \in Settlements
      <3>1. w.kind = "settle" /\ w.flat \in Flats /\ w.queue \subseteq Months
        BY <2>2, KindNamed DEF Settlements
      <3>2. Turn(t) \in w.queue
        BY <2>1, <3>1, TurnOf
      <3>3. Needs(t) = {BillRow(w.flat, Turn(t))}
        BY <1>5, <2>1, <3>1 DEF Needs
      <3>4. table[BillRow(w.flat, Turn(t))].pub
        BY <1>0, <1>5, <3>1, <3>2 DEF Plans
      <3> QED
        BY <1>5, <3>1, <3>2, <3>3, <3>4
    <2>3. CASE w \in Publishes
      <3>1. w.kind = "publish" /\ w.queue \subseteq Flats
        BY <1>0, <1>5, <2>3, KindNamed DEF ListsFit
      <3>2. Turn(t) \in w.queue
        BY <2>1, <3>1, TurnOf
      <3>3. Needs(t) = {FlatRow(Turn(t))}
        BY <1>5, <2>1, <3>1 DEF Needs
      <3> QED
        BY <1>5, <3>1, <3>2, <3>3
    <2> QED
      BY <2>0, <2>2, <2>3
  <1>6. CASE w.pc = "pay"
    <2> DEFINE m == Oldest(w.todo)
    <2>1. w \in Settlements /\ w.kind = "settle" /\ w.flat \in Flats
      BY <1>0, <1>6, KindsOf, KindNamed
    <2>2. w.todo # {}
      BY <1>6 DEF Needs
    <2>3. w.todo \in SUBSET (1 .. LastMonth)
      BY <2>1 DEF Settlements, Months
    <2>4. m \in w.todo /\ m \in Months
      BY <2>2, <2>3, FirstOf DEF Months
    <2>5. Needs(t) = {BillRow(w.flat, m)}
      BY <1>6, <2>2 DEF Needs
    <2>6. table[BillRow(w.flat, m)].pub
      BY <1>0, <1>6, <2>1, <2>4 DEF Plans
    <2> QED
      BY <1>6, <2>1, <2>4, <2>5, <2>6
  <1>7. CASE w.pc = "show"
    <2> DEFINE f == Oldest(w.todo)
    <2>1. w \in Publishes /\ w.kind = "publish" /\ w.month \in Months
      BY <1>0, <1>7, KindsOf, KindNamed
    <2>2. w.todo # {}
      BY <1>7 DEF Needs
    <2>3. w.todo \in SUBSET (1 .. LastFlat)
      BY <2>1 DEF Publishes, Flats
    <2>4. f \in Flats
      BY <2>2, <2>3, FirstOf DEF Flats
    <2>5. Needs(t) = {BillRow(f, w.month)}
      BY <1>7, <2>2 DEF Needs
    <2> QED
      BY <1>7, <2>1, <2>4, <2>5
  <1>8. CASE w.pc = "take"
    <2>1. w.kind = "publish" /\ Oldest(w.todo) \in Flats
      BY <1>0, <1>8, KindsOf, KindNamed, NextTaken
    <2>2. Needs(t) = {FlatRow(Oldest(w.todo))}
      BY <1>8 DEF Needs
    <2> QED
      BY <1>8, <2>1, <2>2
  <1> QED
    BY <1>1, <1>2, <1>3, <1>4, <1>5, <1>6, <1>7, <1>8 DEF Needs

\* Sums are written month by month, so nobody in a circle waits for a period's row.
LEMMA NoneWaitsForPeriod ==
    ASSUME Held, NEW ts \in SUBSET Txns, Stuck(ts)
    PROVE  \A t \in ts : \A k \in Months : Needs(t) # {PeriodRow(k)}
  <1> DEFINE P == {k \in Months : \E t \in ts : Needs(t) = {PeriodRow(k)}}
  <1>1. SUFFICES ASSUME P # {} PROVE FALSE
    OBVIOUS
  <1>2. PICK k \in P : \A j \in P : j <= k
    <2>1. P \in SUBSET (1 .. LastMonth)
      BY DEF Months
    <2> HIDE DEF P
    <2> QED
      BY <1>1, <2>1, LastOf
  <1>3. PICK t \in ts : Needs(t) = {PeriodRow(k)}
    BY <1>2
  <1> DEFINE u == holder[PeriodRow(k)]
  <1>4. u \in ts /\ u \in Txns /\ k \in Months
    BY <1>2, <1>3 DEF Stuck
  <1>5. MayHoldPeriod(txn[u], k)
    BY <1>4 DEF Held, LocksInv, LocksFit, HoldsWhatItMay
  <1>6. Needs(u) # {} /\ \A r \in Needs(u) : holder[r] # u
    BY <1>4 DEF Stuck
  <1> HIDE DEF u
  <1>7. CASE txn[u].kind = "publish" /\ txn[u].month = k
    <2>1. Needs(u) = {PeriodRow(k)}
      BY <1>4, <1>5, <1>6, <1>7, NeedsBySort DEF MayHoldPeriod
    <2> QED
      BY <1>6, <2>1 DEF u
  <1>8. CASE /\ txn[u].kind \in {"settle", "fine"} /\ txn[u].pc \in {"sums", "period", "commit"}
             /\ \A q \in txn[u].queue : k < q
    <2>1. Turn(u) \in txn[u].queue /\ Turn(u) \in Months /\ Needs(u) = {PeriodRow(Turn(u))}
      BY <1>4, <1>6, <1>8, NeedsBySort
    <2>2. Turn(u) \in P
      BY <1>4, <2>1
    <2>3. k < Turn(u) /\ Turn(u) <= k
      BY <1>2, <1>8, <2>1, <2>2
    <2> QED
      BY <1>4, <2>1, <2>3 DEF Months
  <1> QED
    BY <1>5, <1>7, <1>8 DEF MayHoldPeriod

\* A payment in a circle without a refund and without a second publish has taken no
\* flat yet.
LEMMA SettlesWaitEarly ==
    ASSUME Held, NEW ts \in SUBSET Txns, Stuck(ts),
           \A t \in ts : txn[t].kind # "refund" /\ ~Republish(t),
           NEW t \in ts, txn[t].kind = "settle"
    PROVE  txn[t].pc \in {"account", "flat"}
  <1>1. SUFFICES ASSUME txn[t].pc \notin {"account", "flat"} PROVE FALSE
    OBVIOUS
  <1>2. Needs(t) # {} /\ t \in Txns
    BY DEF Stuck
  <1>3. txn[t].pc \in {"lock", "pay"} /\ txn[t].flat \in Flats
    BY <1>1, <1>2, NeedsBySort, NoneWaitsForPeriod
  <1>4. PICK m \in Months : Needs(t) = {BillRow(txn[t].flat, m)} /\ table[BillRow(txn[t].flat, m)].pub
    BY <1>1, <1>2, NeedsBySort, NoneWaitsForPeriod
  <1> DEFINE f == txn[t].flat
             u == holder[BillRow(f, m)]
  <1>5. u \in ts /\ u # t /\ u \in Txns /\ Needs(u) # {}
    BY <1>4 DEF Stuck
  <1>6. MayHoldBill(txn[u], f, m)
    BY <1>3, <1>5 DEF Held, LocksInv, LocksFit, HoldsWhatItMay
  <1>7. holder[FlatRow(f)] = t
    BY <1>2, <1>3 DEF Held, LocksInv, LocksFit, HoldsWhatItMust, FlatTaken
  <1> HIDE DEF u
  <1>8. CASE txn[u].kind = "settle" /\ txn[u].pc \in FlatTaken /\ txn[u].flat = f
    <2>1. holder[FlatRow(f)] = u
      BY <1>5, <1>8 DEF Held, LocksInv, LocksFit, HoldsWhatItMust
    <2> QED
      BY <1>5, <1>7, <2>1
  <1>9. CASE txn[u].kind = "fine"
    BY <1>5, <1>9, NeedsBySort, NoneWaitsForPeriod
  <1>10. CASE txn[u].kind = "publish" /\ txn[u].month = m
    BY <1>3, <1>4, <1>5, <1>10 DEF Republish
  <1> QED
    BY <1>6, <1>8, <1>9, <1>10 DEF MayHoldBill

\* So the publishes in it wait for publishes only, and are a circle without the payment.
LEMMA PublishesWaitAlone ==
    ASSUME Held, NEW ts \in SUBSET Txns, Stuck(ts),
           \A t \in ts : txn[t].kind # "refund" /\ ~Republish(t)
    PROVE  /\ {t \in ts : txn[t].kind = "publish"} # {}
           /\ Stuck({t \in ts : txn[t].kind = "publish"})
  <1> DEFINE us == {t \in ts : txn[t].kind = "publish"}
  \* who holds a flat or a bill among those that wait is a publish
  <1>1. ASSUME NEW t \in ts, \/ \E f \in Flats : Needs(t) = {FlatRow(f)}
                             \/ \E f \in Flats, m \in Months : txn[t].kind = "publish" /\ Needs(t) = {BillRow(f, m)}
        PROVE  \A r \in Needs(t) : holder[r] \in us \ {t}
    <2> SUFFICES ASSUME NEW r \in Needs(t) PROVE holder[r] \in us \ {t}
      OBVIOUS
    <2> DEFINE u == holder[r]
    <2>1. u \in ts \ {t} /\ u \in Txns /\ Needs(u) # {}
      BY DEF Stuck
    <2>2. (\E f \in Flats : MayHoldFlat(txn[u], f)) \/ (\E f \in Flats, m \in Months : MayHoldBill(txn[u], f, m))
      <3>1. CASE \E f \in Flats : Needs(t) = {FlatRow(f)}
        BY <2>1, <3>1 DEF Held, LocksInv, LocksFit, HoldsWhatItMay
      <3>2. CASE \E f \in Flats, m \in Months : Needs(t) = {BillRow(f, m)}
        BY <2>1, <3>2 DEF Held, LocksInv, LocksFit, HoldsWhatItMay
      <3> QED
        BY <1>1, <3>1, <3>2
    <2> HIDE DEF u
    <2>3. txn[u].kind = "settle" => txn[u].pc \notin FlatTaken
      BY <2>1, SettlesWaitEarly DEF FlatTaken
    <2>4. txn[u].kind # "fine"
      BY <2>1, NeedsBySort, NoneWaitsForPeriod
    <2>5. txn[u].kind = "publish"
      BY <2>1, <2>2, <2>3, <2>4 DEF MayHoldFlat, MayHoldBill
    <2> QED
      BY <2>1, <2>5 DEF u
  <1>2. us # {}
    <2>1. SUFFICES ASSUME us = {} PROVE FALSE
      OBVIOUS
    <2>2. PICK t \in ts : TRUE
      BY DEF Stuck
    <2>3. \A x \in ts : Needs(x) # {} /\ x \in Txns
      BY DEF Stuck
    <2>4. \A x \in ts : txn[x].kind = "settle" /\ txn[x].pc \in {"account", "flat"}
      <3> TAKE x \in ts
      <3>1. txn[x].kind \notin {"publish", "refund"}
        BY <2>1
      <3>2. txn[x].kind = "settle"
        BY <2>3, <3>1, NeedsBySort, NoneWaitsForPeriod
      <3> QED
        BY <3>2, SettlesWaitEarly
    <2>5. \A x \in ts : txn[x].pc # "flat"
      <3> TAKE x \in ts
      <3>1. ASSUME txn[x].pc = "flat" PROVE FALSE
        <4>1. \E f \in Flats : Needs(x) = {FlatRow(f)}
          BY <2>3, <2>4, <3>1, NeedsBySort
        <4>2. \A r \in Needs(x) : holder[r] \in us
          BY <1>1, <4>1
        <4> QED
          BY <2>1, <2>3, <4>2
      <3> QED
        BY <3>1
    <2>6. PICK a \in Accounts : Needs(t) = {AccountRow(a)}
      BY <2>3, <2>4, <2>5, NeedsBySort
    <2>7. PICK u \in ts : holder[AccountRow(a)] = u
      BY <2>6 DEF Stuck
    <2>8. MayHoldAccount(txn[u])
      BY <2>3, <2>7 DEF Held, LocksInv, LocksFit, HoldsWhatItMay
    <2> QED
      BY <2>4, <2>5, <2>7, <2>8 DEF MayHoldAccount
  <1>3. ASSUME NEW t \in us PROVE Needs(t) # {} /\ \A r \in Needs(t) : holder[r] \in us \ {t}
    <2>1. t \in ts /\ t \in Txns /\ Needs(t) # {} /\ txn[t].kind = "publish"
      BY DEF Stuck
    <2>2. \/ \E f \in Flats : Needs(t) = {FlatRow(f)}
          \/ \E f \in Flats, m \in Months : Needs(t) = {BillRow(f, m)}
      BY <2>1, NeedsBySort, NoneWaitsForPeriod
    <2> HIDE DEF us
    <2> QED
      BY <1>1, <2>1, <2>2
  <1> HIDE DEF us
  <1>4. Stuck(us)
    BY <1>2, <1>3 DEF Stuck
  <1> QED
    BY <1>2, <1>4 DEF us

\* For any number of flats, months, accounts and concurrent requests: a payment being
\* approved is in a circle of waiting transactions only with a refund, or with a second
\* publish of a month that is published already.  Periods are summed in order, so the
\* last period somebody waits for is held by nobody who waits; and a payment takes its
\* flat before any bill, so of those that wait only a publish holds a flat or a bill.
THEOREM NoCircleWithPayment == Spec => []PaymentNeverDeadlocks
  <1>1. Held => PaymentNeverDeadlocks
    <2> SUFFICES ASSUME Held, NEW ts \in SUBSET Txns, Circle(ts), NEW t \in ts, txn[t].kind = "settle",
                        \A u \in ts : txn[u].kind # "refund" /\ ~Republish(u)
                 PROVE  FALSE
      BY DEF PaymentNeverDeadlocks
    <2> DEFINE us == {u \in ts : txn[u].kind = "publish"}
    <2>1. Stuck(ts)
      BY DEF Circle
    <2>2. Stuck(us)
      BY <2>1, PublishesWaitAlone
    <2>3. us = ts
      BY <2>2 DEF Circle
    <2> QED
      BY <2>3
  <1> QED
    BY <1>1, HeldAlways, PTL

-----------------------------------------------------------------------------
(* The money: what a transaction has moved so far.                         *)

Book == FlatRows \cup BillRows
Vault == AccountRows

\* The money in a row of value v, and what t has put to it and not committed.
Worth(r, v) == IF r \in BillRows THEN v.paid ELSE v
Diff(t, r, h, d, tb) == Worth(r, SeenBy(t, r, h, d, tb)) - Worth(r, tb[r])
Diffs(t, S, h, d, tb) == [r \in S |-> Diff(t, r, h, d, tb)]
Moved(t, S, h, d, tb) == SumOver(Diffs(t, S, h, d, tb))
Change(S, r, v, old) == IF r \in S THEN Worth(r, v) - Worth(r, old) ELSE 0

\* What it ought to have moved, by the statement it is at.
Left(w) == SumOver([m \in w.todo |-> w.share[m]])
PaidIn(w) ==
    CASE w.kind = "settle" /\ w.pc = "pay" -> w.amt - w.seen - Left(w)
      [] w.kind = "settle" /\ w.pc = "excess" -> w.amt - w.seen
      [] w.kind = "settle" /\ w.pc \in {"sums", "period", "commit"} -> w.amt
      [] w.kind = "refund" /\ w.pc = "commit" -> 0 - w.amt
      [] OTHER -> 0
Banked(w) ==
    CASE w.kind = "settle" /\ w.pc \notin {"account", "done"} -> w.amt
      [] w.kind = "refund" /\ w.pc = "commit" -> 0 - w.amt
      [] OTHER -> 0
MovesFit(t, w, h, d, tb) ==
    /\ Moved(t, Book, h, d, tb) = PaidIn(w)
    /\ Moved(t, Vault, h, d, tb) = Banked(w)
MoneyInv == MoneyMoved /\ \A t \in Txns : MovesFit(t, txn[t], holder, draft, table)

LEMMA RowsSorted ==
    /\ \A f \in Flats : FlatRow(f) \in Book /\ FlatRow(f) \notin Vault /\ FlatRow(f) \notin BillRows
    /\ \A f \in Flats, m \in Months : BillRow(f, m) \in Book /\ BillRow(f, m) \notin Vault /\ BillRow(f, m) \in BillRows
    /\ \A m \in Months : PeriodRow(m) \notin Book /\ PeriodRow(m) \notin Vault
    /\ \A a \in Accounts : AccountRow(a) \in Vault /\ AccountRow(a) \notin Book /\ AccountRow(a) \notin BillRows
  BY RowsApart DEF Book, Vault, FlatRows, BillRows, PeriodRows, AccountRows

LEMMA BooksFinite ==
    /\ IsFiniteSet(FlatRows) /\ IsFiniteSet(BillRows) /\ IsFiniteSet(Book) /\ IsFiniteSet(Vault)
    /\ Book \subseteq Rows /\ Vault \subseteq Rows
  <1> DEFINE p == [f \in Flats |-> FlatRow(f)]
             q == [fm \in Flats \X Months |-> BillRow(fm[1], fm[2])]
             a == [x \in Accounts |-> AccountRow(x)]
  <1>1. FlatRows = {p[x] : x \in Flats}
    BY DEF FlatRows
  <1>2. BillRows = {q[x] : x \in Flats \X Months}
    <2>1. ASSUME NEW f \in Flats, NEW m \in Months PROVE BillRow(f, m) = q[<<f, m>>] /\ <<f, m>> \in Flats \X Months
      OBVIOUS
    <2>2. ASSUME NEW x \in Flats \X Months PROVE q[x] = BillRow(x[1], x[2]) /\ x[1] \in Flats /\ x[2] \in Months
      OBVIOUS
    <2> HIDE DEF q
    <2>3. ASSUME NEW y \in BillRows PROVE y \in {q[x] : x \in Flats \X Months}
      <3>1. PICK f \in Flats, m \in Months : y = BillRow(f, m)
        BY DEF BillRows
      <3>2. y = q[<<f, m>>] /\ <<f, m>> \in Flats \X Months
        BY <2>1, <3>1
      <3> HIDE DEF BillRow
      <3> QED
        BY <3>2
    <2>4. {q[x] : x \in Flats \X Months} \subseteq BillRows
      BY <2>2 DEF BillRows
    <2> QED
      BY <2>3, <2>4
  <1>3. AccountRows = {a[x] : x \in Accounts}
    BY DEF AccountRows
  <1> HIDE DEF p, q, a
  <1>4. IsFiniteSet(FlatRows) /\ IsFiniteSet(BillRows) /\ IsFiniteSet(AccountRows)
    BY <1>1, <1>2, <1>3, FlatsAndMonthsFinite, ImageFinite
  <1>5. IsFiniteSet(FlatRows \cup BillRows)
    BY <1>4, FS_Union
  <1> QED
    BY <1>4, <1>5 DEF Book, Vault, Rows

LEMMA ValueWorth == \A r \in Rows : \A v \in Value(r) : Worth(r, v) \in Int
  <1> SUFFICES ASSUME NEW r \in Rows, NEW v \in Value(r) PROVE Worth(r, v) \in Int
    OBVIOUS
  <1>1. CASE r \in BillRows
    <2>1. v \in BillValue
      BY <1>1 DEF Value
    <2>2. v.paid \in Nat
      BY <2>1 DEF BillValue
    <2> QED
      BY <1>1, <2>2 DEF Worth
  <1>2. CASE r \notin BillRows
    BY <1>2 DEF Worth, Value
  <1> QED
    BY <1>1, <1>2

LEMMA WorthTyped ==
    ASSUME TypeInv, NEW t \in Txns, NEW r \in Book \cup Vault
    PROVE  /\ Worth(r, table[r]) \in Int /\ Worth(r, View(t, r)) \in Int
           /\ \A v \in Value(r) : Worth(r, v) \in Int
           /\ Diff(t, r, holder, draft, table) \in Int
  <1>1. r \in Rows /\ (r \in BillRows \/ Value(r) = Nat) /\ (r \in BillRows => Value(r) = BillValue)
    BY BooksFinite DEF Value
  <1>2. \A v \in Value(r) : Worth(r, v) \in Int
    BY <1>1 DEF Worth, BillValue, Value
  <1>3. table[r] \in Value(r) /\ View(t, r) \in Value(r)
    BY <1>1, ViewTyped DEF TypeInv
  <1>4. SeenBy(t, r, holder, draft, table) = View(t, r)
    BY DEF SeenBy, View
  <1> HIDE DEF Worth
  <1>5. Worth(r, table[r]) \in Int /\ Worth(r, View(t, r)) \in Int
    BY <1>2, <1>3
  <1> QED
    BY <1>2, <1>4, <1>5 DEF Diff

LEMMA MovedSame ==
    ASSUME NEW u, NEW S, NEW h, NEW d, NEW tb, NEW h2, NEW d2, NEW tb2,
           \A r \in S : Diff(u, r, h2, d2, tb2) = Diff(u, r, h, d, tb)
    PROVE  Moved(u, S, h2, d2, tb2) = Moved(u, S, h, d, tb)
  <1>1. Diffs(u, S, h2, d2, tb2) = Diffs(u, S, h, d, tb)
    BY DEF Diffs
  <1> QED
    BY <1>1 DEF Moved

\* One row written.
LEMMA MovedWrite ==
    ASSUME NEW t, NEW S, IsFiniteSet(S), NEW h, NEW d, NEW h2, NEW d2, NEW tb, NEW r, NEW v,
           \A x \in S : Diff(t, x, h, d, tb) \in Int,
           r \in S => /\ Worth(r, v) \in Int /\ Worth(r, SeenBy(t, r, h, d, tb)) \in Int
                      /\ Worth(r, tb[r]) \in Int,
           \A x \in S : (h2[x] = t <=> x = r \/ h[x] = t) /\ d2[x] = IF x = r THEN v ELSE d[x]
    PROVE  Moved(t, S, h2, d2, tb) = Moved(t, S, h, d, tb) + Change(S, r, v, SeenBy(t, r, h, d, tb))
  <1> DEFINE old == SeenBy(t, r, h, d, tb)
  <1>1. \A x \in S \ {r} : Diff(t, x, h2, d2, tb) = Diff(t, x, h, d, tb)
    <2>1. \A x \in S \ {r} : SeenBy(t, x, h2, d2, tb) = SeenBy(t, x, h, d, tb)
      BY DEF SeenBy
    <2> QED
      BY <2>1 DEF Diff
  <1>2. CASE r \notin S
    <2>1. Moved(t, S, h2, d2, tb) = Moved(t, S, h, d, tb)
      BY <1>1, <1>2, MovedSame
    <2>2. Moved(t, S, h, d, tb) \in Int
      <3> DEFINE f == Diffs(t, S, h, d, tb)
      <3>1. f \in [S -> Int]
        BY DEF Diffs
      <3> HIDE DEF f
      <3>2. SumOver(f) \in Int
        BY <3>1, SumType
      <3> QED
        BY <3>2 DEF Moved, f
    <2> QED
      BY <1>2, <2>1, <2>2 DEF Change
  <1>3. CASE r \in S
    <2> DEFINE f == Diffs(t, S, h, d, tb)
               g == Diffs(t, S, h2, d2, tb)
               a == Worth(r, v)
               b == Worth(r, old)
               c == Worth(r, tb[r])
    <2>1. SeenBy(t, r, h2, d2, tb) = v
      BY <1>3 DEF SeenBy
    <2>2. f[r] = b - c /\ g[r] = a - c /\ a \in Int /\ b \in Int /\ c \in Int
      BY <1>3, <2>1 DEF Diffs, Diff
    <2>3. f \in [S -> Int] /\ g \in [S -> Int] /\ \A x \in S \ {r} : g[x] = f[x]
      <3>1. \A x \in S : Diff(t, x, h2, d2, tb) \in Int
        <4>1. Diff(t, r, h2, d2, tb) = a - c
          BY <2>1 DEF Diff
        <4> HIDE DEF a, c
        <4>2. Diff(t, r, h2, d2, tb) \in Int
          BY <2>2, <4>1
        <4> QED
          BY <1>1, <4>2
      <3> QED
        BY <1>1, <3>1 DEF Diffs
    <2>4. Change(S, r, v, old) = a - b
      BY <1>3 DEF Change
    <2>5. Moved(t, S, h, d, tb) = SumOver(f) /\ Moved(t, S, h2, d2, tb) = SumOver(g)
      BY DEF Moved
    <2> HIDE DEF f, g, a, b, c, old
    <2>6. SumOver(g) = SumOver(f) - f[r] + g[r]
      BY <1>3, <2>3, SumUpdate
    <2>7. SumOver(f) \in Int
      BY <2>3, SumType
    <2>8. SumOver(g) = SumOver(f) + (a - b)
      BY <2>2, <2>6, <2>7
    <2> QED
      BY <2>4, <2>5, <2>8 DEF old
  <1> QED
    BY <1>2, <1>3

LEMMA MovedTyped ==
    ASSUME TypeInv, NEW t \in Txns, NEW S \in {Book, Vault}
    PROVE  Moved(t, S, holder, draft, table) \in Int
  <1> DEFINE f == Diffs(t, S, holder, draft, table)
  <1>1. f \in [S -> Int]
    BY WorthTyped DEF Diffs
  <1> HIDE DEF f
  <1>2. SumOver(f) \in Int
    BY <1>1, BooksFinite, SumType
  <1> QED
    BY <1>2 DEF Moved, f

LEMMA QuietMoves ==
    ASSUME Quiet, NEW t, NEW S
    PROVE  Moved(t, S, holder', draft', table') = Moved(t, S, holder, draft, table)
  BY DEF Quiet, Kept

LEMMA WriteMoves ==
    ASSUME TypeInv, NEW t \in Txns, Turned(t), NEW r, NEW v, Writes(t, r, v), NEW S \in {Book, Vault}
    PROVE  Moved(t, S, holder', draft', table') =
             Moved(t, S, holder, draft, table) + Change(S, r, v, View(t, r))
  <1> DEFINE h == holder'
             d == draft'
  <1>1. table' = table /\ v \in Value(r)
    BY DEF Writes, Kept
  <1>2. \A x \in S : (h[x] = t <=> x = r \/ holder[x] = t) /\ d[x] = IF x = r THEN v ELSE draft[x]
    BY WritesAlone, BooksFinite
  <1>3. \A x \in S : Diff(t, x, holder, draft, table) \in Int
    BY WorthTyped
  <1>4. r \in S => /\ Worth(r, v) \in Int /\ Worth(r, SeenBy(t, r, holder, draft, table)) \in Int
                   /\ Worth(r, table[r]) \in Int
    BY <1>1, WorthTyped DEF SeenBy, View
  <1>5. IsFiniteSet(S)
    BY BooksFinite
  <1> HIDE DEF h, d
  <1>6. Moved(t, S, h, d, table) = Moved(t, S, holder, draft, table) + Change(S, r, v, SeenBy(t, r, holder, draft, table))
    BY <1>2, <1>3, <1>4, <1>5, MovedWrite
  <1>7. SeenBy(t, r, holder, draft, table) = View(t, r)
    BY DEF SeenBy, View
  <1> QED
    BY <1>1, <1>6, <1>7 DEF h, d

LEMMA TwoMove ==
    ASSUME TypeInv, NEW t \in Txns, Turned(t), NEW r, NEW v, NEW held, NEW x,
           WritesTwo(t, r, v, held, x), holder[held] = t, NEW S \in {Book, Vault}
    PROVE  Moved(t, S, holder', draft', table') =
             Moved(t, S, holder, draft, table) + Change(S, r, v, View(t, r)) + Change(S, held, x, View(t, held))
  <1> DEFINE h == holder'
             d == draft'
             h1 == [holder EXCEPT ![r] = t]
             d1 == [draft EXCEPT ![r] = v]
             Before == Moved(t, S, holder, draft, table)
             Between == Moved(t, S, h1, d1, table)
  <1>1. table' = table /\ v \in Value(r) /\ x \in Value(held) /\ r \in Rows /\ held \in Rows /\ r # held
    BY DEF WritesTwo, Kept
  <1>2. \A y \in S : (h1[y] = t <=> y = r \/ holder[y] = t) /\ d1[y] = IF y = r THEN v ELSE draft[y]
    BY <1>1, BooksFinite DEF TypeInv, TypeOK
  <1>3. \A y \in S : (h[y] = t <=> y = held \/ h1[y] = t) /\ d[y] = IF y = held THEN x ELSE d1[y]
    <2>1. \A y \in Rows : /\ h[y] = t <=> y = r \/ holder[y] = t
                          /\ d[y] = IF y = held THEN x ELSE IF y = r THEN v ELSE draft[y]
      BY TwoAlone
    <2> QED
      BY <1>2, <2>1, BooksFinite
  <1>4. \A y \in S : Diff(t, y, holder, draft, table) \in Int
    BY WorthTyped
  <1>5. /\ SeenBy(t, r, holder, draft, table) = View(t, r)
        /\ SeenBy(t, held, holder, draft, table) = View(t, held)
    BY DEF SeenBy, View
  <1>6. /\ r \in S => Worth(r, v) \in Int /\ Worth(r, View(t, r)) \in Int /\ Worth(r, table[r]) \in Int
        /\ held \in S => Worth(held, x) \in Int /\ Worth(held, View(t, held)) \in Int /\ Worth(held, table[held]) \in Int
    BY <1>1, WorthTyped
  <1>7. IsFiniteSet(S)
    BY BooksFinite
  <1>8. SeenBy(t, r, h1, d1, table) = v /\ SeenBy(t, held, h1, d1, table) = View(t, held)
    BY <1>1, <1>5 DEF SeenBy, TypeInv, TypeOK
  <1>9. \A y \in S : Diff(t, y, h1, d1, table) \in Int
    <2> TAKE y \in S
    <2> HIDE DEF h1, d1
    <2>1. CASE y = r
      BY <1>6, <1>8, <2>1 DEF Diff
    <2>2. CASE y # r
      <3>1. SeenBy(t, y, h1, d1, table) = SeenBy(t, y, holder, draft, table)
        BY <1>2, <2>2 DEF SeenBy
      <3> QED
        BY <1>4, <3>1 DEF Diff
    <2> QED
      BY <2>1, <2>2
  <1> HIDE DEF h, d, h1, d1
  <1>10. Between = Before + Change(S, r, v, View(t, r))
    BY <1>2, <1>4, <1>5, <1>6, <1>7, MovedWrite
  <1>11. Moved(t, S, h, d, table) = Between + Change(S, held, x, View(t, held))
    BY <1>3, <1>6, <1>7, <1>8, <1>9, MovedWrite
  <1> QED
    BY <1>1, <1>10, <1>11 DEF h, d

\* Month by month a payment is shared out, or as much as is lacking if that is less.
LEMMA SharedUpTo ==
    ASSUME NEW lacks \in [Months -> Nat], NEW amt \in Nat
    PROVE  \A n \in 0 .. LastMonth : Part(Shares(lacks, amt), 1 .. n) = Smaller(amt, Upto(lacks, n))
  <1> DEFINE S == Shares(lacks, amt)
             N == {n \in Nat : n <= LastMonth => Part(S, 1 .. n) = Smaller(amt, Upto(lacks, n))}
  <1>1. S \in [Months -> Int] /\ lacks \in [Months -> Int] /\ IsFiniteSet(Months)
    BY SharesTyped, FlatsAndMonthsFinite
  <1>2. \A n : Upto(lacks, n) = Part(lacks, 1 .. n)
    BY DEF Upto, Part
  <1>3. ASSUME NEW f \in [Months -> Int], NEW n \in Nat, n + 1 <= LastMonth
        PROVE  Part(f, 1 .. (n + 1)) = f[n + 1] + Part(f, 1 .. n) /\ Part(f, 1 .. n) \in Int
    <2>1. 1 .. (n + 1) \in SUBSET Months /\ n + 1 \in 1 .. (n + 1) /\ (1 .. (n + 1)) \ {n + 1} = 1 .. n /\ 1 .. n \in SUBSET Months
      BY <1>3 DEF Months
    <2> DEFINE T == 1 .. (n + 1)
               U == 1 .. n
               x == n + 1
    <2>2. T \in SUBSET Months /\ x \in T /\ T \ {x} = U /\ U \in SUBSET Months
      BY <2>1
    <2> HIDE DEF T, U, x
    <2>3. Part(f, T) = f[x] + Part(f, T \ {x}) /\ Part(f, U) \in Int
      BY <1>1, <2>2, PartsAdd
    <2>4. Part(f, T) = f[x] + Part(f, U)
      BY <2>2, <2>3
    <2> QED
      BY <2>3, <2>4 DEF T, U, x
  <1>4. 0 \in N
    <2>1. 1 .. 0 = {}
      OBVIOUS
    <2>2. Part(S, 1 .. 0) = 0 /\ Part(lacks, 1 .. 0) = 0
      <3> HIDE DEF S
      <3> QED
        BY <1>1, <2>1, PartsAdd
    <2> QED
      BY <1>2, <2>2 DEF Smaller
  <1>5. ASSUME NEW n \in Nat, n \in N PROVE n + 1 \in N
    <2> SUFFICES ASSUME n + 1 <= LastMonth
                 PROVE  Part(S, 1 .. (n + 1)) = Smaller(amt, Upto(lacks, n + 1))
      OBVIOUS
    <2> DEFINE u == Part(lacks, 1 .. n)
               a == lacks[n + 1]
               p == Part(S, 1 .. n)
    <2>1. n + 1 \in Months /\ n \in 0 .. LastMonth
      BY DEF Months
    <2>2. S[n + 1] = Smaller(Rest(amt, u), a)
      <3>1. (n + 1) - 1 = n
        OBVIOUS
      <3> QED
        BY <1>2, <2>1, <3>1 DEF Shares
    <2>3. p = Smaller(amt, u)
      BY <1>2, <1>5, <2>1
    <2>4. a \in Nat /\ u \in Nat
      BY <1>2, <2>1, SharesTyped
    <2>5. Part(S, 1 .. (n + 1)) = S[n + 1] + p /\ Upto(lacks, n + 1) = a + u
      <3> HIDE DEF S
      <3> QED
        BY <1>1, <1>2, <1>3
    <2> HIDE DEF u, a, p
    <2> QED
      BY <2>2, <2>3, <2>4, <2>5 DEF Smaller, Rest
  <1>6. Nat \subseteq N
    <2> HIDE DEF N
    <2> QED
      BY <1>4, <1>5, NatSetInduction
  <1> QED
    BY <1>6

\* All of it is planned for: what the bills take and what is left.
LEMMA PlanAddsUp ==
    ASSUME NEW lacks \in [Months -> Nat], NEW amt \in Nat, NEW w,
           w.share = Shares(lacks, amt), w.todo = {m \in Months : w.share[m] > 0},
           w.seen = Rest(amt, Upto(lacks, LastMonth))
    PROVE  amt - w.seen - Left(w) = 0
  <1> DEFINE S == w.share
             u == Upto(lacks, LastMonth)
  <1>1. S \in [Months -> Nat] /\ S \in [Months -> Int] /\ u \in Nat
    BY SharesTyped
  <1>2. Left(w) = Part(S, w.todo)
    BY DEF Left, Part
  <1>3. SumOver(S) = Part(S, w.todo)
    <2>1. \A m \in Months \ w.todo : S[m] = 0
      BY <1>1
    <2>2. w.todo \in SUBSET Months
      OBVIOUS
    <2> HIDE DEF S
    <2> QED
      BY <1>1, <2>1, <2>2, FlatsAndMonthsFinite, SumSupport
  <1>4. SumOver(S) = Part(S, Months)
    <2>1. S = [m \in Months |-> S[m]]
      BY <1>1
    <2> QED
      BY <2>1, PartWhole
  <1>5. Part(S, Months) = Smaller(amt, u)
    <2>1. LastMonth \in 0 .. LastMonth
      OBVIOUS
    <2> QED
      BY <2>1, SharedUpTo DEF Months
  <1>6. w.seen = Rest(amt, u)
    OBVIOUS
  <1> HIDE DEF S, u
  <1> QED
    BY <1>1, <1>2, <1>3, <1>4, <1>5, <1>6 DEF Smaller, Rest

\* One of the bills planned for is paid.
LEMMA LeftLess ==
    ASSUME NEW w \in Settlements, NEW n \in Settlements, NEW m \in w.todo,
           n.share = w.share, n.todo = w.todo \ {m}
    PROVE  Left(w) = w.share[m] + Left(n) /\ Left(n) \in Int /\ w.share[m] \in Nat
  <1> DEFINE S == w.share
  <1>1. S \in [Months -> Nat] /\ S \in [Months -> Int] /\ w.todo \in SUBSET Months
    BY DEF Settlements
  <1>2. Left(w) = Part(S, w.todo) /\ Left(n) = Part(S, w.todo \ {m})
    BY DEF Left, Part
  <1> HIDE DEF S
  <1>3. Part(S, w.todo) = S[m] + Part(S, w.todo \ {m})
    BY <1>1, FlatsAndMonthsFinite, PartsAdd
  <1>4. Part(S, w.todo \ {m}) \in Int
    <2>1. w.todo \ {m} \in SUBSET Months
      BY <1>1
    <2> QED
      BY <1>1, <2>1, FlatsAndMonthsFinite, PartsAdd
  <1> QED
    BY <1>1, <1>2, <1>3, <1>4 DEF S

LEMMA NoneLeft ==
    ASSUME NEW w, w.todo = {}
    PROVE  Left(w) = 0
  <1> DEFINE f == [m \in w.todo |-> w.share[m]]
  <1>1. DOMAIN f = {}
    OBVIOUS
  <1> HIDE DEF f
  <1>2. SumOver(f) = 0
    BY <1>1, SumEmpty
  <1> QED
    BY <1>2 DEF Left, f

LEMMA MoneyIs == \A r : Money(r) = Worth(r, table[r])
  BY DEF Money, Worth

LEMMA OthersMoved ==
    ASSUME TypeInv, NEW t \in Txns, NEW u \in Txns, u # t, Untouched(t), NEW S \in {Book, Vault},
           \/ table' = table
           \/ \A r \in Rows : IF holder[r] = u THEN table'[r] = table[r] ELSE Worth(r, table'[r]) \in Int
    PROVE  Moved(u, S, holder', draft', table') = Moved(u, S, holder, draft, table)
  <1> DEFINE h == holder'
             d == draft'
             tb == table'
  <1>1. ASSUME NEW r \in S PROVE Diff(u, r, h, d, tb) = Diff(u, r, holder, draft, table)
    <2>0. r \in Rows /\ r \in Book \cup Vault
      BY BooksFinite
    <2>1. (h[r] = u <=> holder[r] = u) /\ (holder[r] = u => d[r] = draft[r])
      BY <2>0 DEF Untouched
    <2>2. CASE holder[r] = u
      <3>1. tb[r] = table[r]
        BY <2>0, <2>2
      <3> QED
        BY <2>1, <2>2, <3>1 DEF Diff, SeenBy
    <2>3. CASE holder[r] # u
      <3>1. Worth(r, tb[r]) \in Int /\ Worth(r, table[r]) \in Int
        BY <2>0, <2>3, WorthTyped
      <3>2. SeenBy(u, r, h, d, tb) = tb[r] /\ SeenBy(u, r, holder, draft, table) = table[r]
        BY <2>1, <2>3 DEF SeenBy
      <3> HIDE DEF h, d, tb
      <3> QED
        BY <3>1, <3>2 DEF Diff
    <2> QED
      BY <2>2, <2>3
  <1> HIDE DEF h, d, tb
  <1>2. Moved(u, S, h, d, tb) = Moved(u, S, holder, draft, table)
    BY <1>1, MovedSame
  <1> QED
    BY <1>2 DEF h, d, tb

LEMMA MoneyStep ==
    ASSUME TypeInv, MoneyInv, NEW t \in Txns, Untouched(t), Kept,
           MovesFit(t, txn'[t], holder', draft', table')
    PROVE  MoneyInv'
  <1>1. table' = table /\ received' = received /\ refunded' = refunded
    BY DEF Kept
  <1>2. ASSUME NEW u \in Txns, u # t PROVE MovesFit(u, txn'[u], holder', draft', table')
    <2>1. /\ Moved(u, Book, holder', draft', table') = Moved(u, Book, holder, draft, table)
          /\ Moved(u, Vault, holder', draft', table') = Moved(u, Vault, holder, draft, table)
      BY <1>1, <1>2, OthersMoved
    <2>2. txn'[u] = txn[u] /\ MovesFit(u, txn[u], holder, draft, table)
      BY <1>2 DEF Untouched, MoneyInv
    <2> QED
      BY <2>1, <2>2 DEF MovesFit
  <1>3. MoneyMoved'
    BY <1>1 DEF MoneyInv, MoneyMoved, Total, Money
  <1> QED
    BY <1>2, <1>3 DEF MoneyInv

\* What a transaction ends with is committed or forgotten: it has moved nothing.
LEMMA EndsEmpty ==
    ASSUME TypeInv, TypeInv', NEW t \in Txns, Ends(t)
    PROVE  MovesFit(t, txn'[t], holder', draft', table')
  <1> DEFINE h == holder'
             d == draft'
             tb == table'
  <1>1. ASSUME NEW S \in {Book, Vault} PROVE Moved(t, S, h, d, tb) = 0
    <2> DEFINE f == Diffs(t, S, h, d, tb)
    <2>1. ASSUME NEW r \in S PROVE Diff(t, r, h, d, tb) = 0
      <3>0. r \in Rows
        BY BooksFinite
      <3>1. h[r] # t
        BY <3>0, EndsAlone
      <3>2. Worth(r, tb[r]) \in Int
        <4>1. tb[r] \in Value(r)
          BY <3>0 DEF TypeInv, TypeOK
        <4> HIDE DEF tb
        <4> QED
          BY <4>1, WorthTyped
      <3>3. SeenBy(t, r, h, d, tb) = tb[r]
        BY <3>1 DEF SeenBy
      <3> HIDE DEF h, d, tb
      <3> QED
        BY <3>2, <3>3 DEF Diff
    <2>2. f \in [S -> Int] /\ \A r \in S : f[r] = 0
      BY <2>1 DEF Diffs
    <2> HIDE DEF f
    <2>3. SumOver(f) = 0
      BY <2>2, BooksFinite, SumZero
    <2> QED
      BY <2>3 DEF Moved, f
  <1>2. txn'[t].pc = "done"
    BY KindNamed DEF Ends
  <1> HIDE DEF h, d, tb
  <1>3. Moved(t, Book, h, d, tb) = 0 /\ Moved(t, Vault, h, d, tb) = 0
    BY <1>1
  <1>4. PaidIn(txn'[t]) = 0 /\ Banked(txn'[t]) = 0
    BY <1>2 DEF PaidIn, Banked
  <1> QED
    BY <1>3, <1>4 DEF MovesFit, h, d, tb

\* A commit adds what was moved to the totals.
LEMMA CommitAdds ==
    ASSUME TypeInv, NEW t \in Txns, Commit(t), NEW S \in {Book, Vault}
    PROVE  Total(S)' = Total(S) + Moved(t, S, holder, draft, table)
  <1> DEFINE f == [r \in S |-> Worth(r, table[r])]
             g == [r \in S |-> Worth(r, table'[r])]
             k == Diffs(t, S, holder, draft, table)
  <1>1. ASSUME NEW r \in S
        PROVE  /\ Worth(r, table[r]) \in Int /\ Worth(r, table'[r]) \in Int
               /\ Diff(t, r, holder, draft, table) \in Int
               /\ Worth(r, table'[r]) = Worth(r, table[r]) + Diff(t, r, holder, draft, table)
    <2>1. table'[r] = View(t, r)
      BY DidCommit, BooksFinite
    <2>2. /\ Worth(r, table[r]) \in Int /\ Worth(r, View(t, r)) \in Int
          /\ Diff(t, r, holder, draft, table) \in Int
      BY WorthTyped
    <2>3. Diff(t, r, holder, draft, table) = Worth(r, View(t, r)) - Worth(r, table[r])
      BY DEF Diff, SeenBy, View
    <2> HIDE DEF Worth
    <2> QED
      BY <2>1, <2>2, <2>3
  <1>2. f \in [S -> Int] /\ g \in [S -> Int] /\ k \in [S -> Int] /\ \A r \in S : g[r] = f[r] + k[r]
    BY <1>1 DEF Diffs
  <1>3. Total(S) = SumOver(f) /\ Total(S)' = SumOver(g)
    BY MoneyIs DEF Total, Money, Worth
  <1> HIDE DEF f, g, k
  <1>4. SumOver(g) = SumOver(f) + SumOver(k)
    <2>1. IsFiniteSet(S)
      BY BooksFinite
    <2> QED
      BY <1>2, <2>1, SumPlus
  <1> QED
    BY <1>3, <1>4 DEF Moved, k

LEMMA CommitMoney ==
    ASSUME TypeInv, MoneyInv, NEW t \in Txns, Commit(t), TypeInv'
    PROVE  MoneyInv'
  <1> DEFINE w == txn[t]
  <1>1. /\ Ends(t) /\ w.pc = "commit" /\ w \in Settlements \cup Fines \cup Refunds \cup Publishes
        /\ table' = [r \in Rows |-> View(t, r)]
        /\ received' = IF w \in Settlements THEN received + w.amt ELSE received
        /\ refunded' = IF w \in Refunds THEN refunded + w.amt ELSE refunded
    BY DidCommit
  <1>2. Untouched(t)
    BY <1>1, EndsAlone
  <1>3. ASSUME NEW u \in Txns, u # t PROVE MovesFit(u, txn'[u], holder', draft', table')
    <2>1. \A r \in Rows : IF holder[r] = u THEN table'[r] = table[r] ELSE Worth(r, table'[r]) \in Int
      <3> TAKE r \in Rows
      <3>1. CASE holder[r] = u
        BY <1>1, <1>3, <3>1 DEF View
      <3>2. CASE holder[r] # u
        <4>1. table'[r] \in Value(r)
          BY DEF TypeInv, TypeOK
        <4>2. Worth(r, table'[r]) \in Int
          BY <4>1, ValueWorth
        <4> QED
          BY <3>2, <4>2
      <3> QED
        BY <3>1, <3>2
    <2>2. /\ Moved(u, Book, holder', draft', table') = Moved(u, Book, holder, draft, table)
          /\ Moved(u, Vault, holder', draft', table') = Moved(u, Vault, holder, draft, table)
      BY <1>2, <1>3, <2>1, OthersMoved
    <2>3. txn'[u] = txn[u] /\ MovesFit(u, txn[u], holder, draft, table)
      BY <1>2, <1>3 DEF Untouched, MoneyInv
    <2> QED
      BY <2>2, <2>3 DEF MovesFit
  <1>4. MovesFit(t, txn'[t], holder', draft', table')
    BY <1>1, EndsEmpty
  <1>5. MoneyMoved'
    <2> DEFINE net == received - refunded
               amt == received' - refunded' - net
    <2>1. Total(Book) = net /\ Total(Vault) = net
      BY DEF MoneyInv, MoneyMoved, Book, Vault
    <2>2. Moved(t, Book, holder, draft, table) = PaidIn(w) /\ Moved(t, Vault, holder, draft, table) = Banked(w)
      BY DEF MoneyInv, MovesFit
    <2>3. received \in Nat /\ refunded \in Nat
      BY DEF TypeInv, TypeOK
    <2>4. amt = PaidIn(w) /\ amt = Banked(w) /\ amt \in Int
      <3>1. CASE w \in Settlements
        <4>1. w.kind = "settle" /\ w.amt \in Nat /\ w \notin Refunds
          BY <3>1 DEF Settlements, Refunds
        <4> QED
          BY <1>1, <2>3, <3>1, <4>1 DEF PaidIn, Banked
      <3>2. CASE w \in Refunds
        <4>1. w.kind = "refund" /\ w.amt \in Nat /\ w \notin Settlements
          BY <3>2 DEF Settlements, Refunds
        <4> QED
          BY <1>1, <2>3, <3>2, <4>1 DEF PaidIn, Banked
      <3>3. CASE w \in Fines \cup Publishes
        <4>1. w.kind \in {"fine", "publish"} /\ w \notin Settlements /\ w \notin Refunds
          BY <3>3 DEF Settlements, Refunds, Fines, Publishes
        <4> QED
          BY <1>1, <2>3, <3>3, <4>1 DEF PaidIn, Banked
      <3> QED
        BY <1>1, <3>1, <3>2, <3>3
    <2>5. Total(Book)' = net + amt /\ Total(Vault)' = net + amt
      BY <2>1, <2>2, <2>4, CommitAdds
    <2>6. received' \in Nat /\ refunded' \in Nat
      BY DEF TypeInv, TypeOK
    <2>7. net + amt = received' - refunded'
      BY <2>3, <2>6
    <2> HIDE DEF net, amt
    <2> QED
      BY <2>5, <2>7 DEF MoneyMoved, Book, Vault
  <1> QED
    BY <1>3, <1>4, <1>5 DEF MoneyInv

LEMMA MoneyKept ==
    ASSUME TypeInv, TypeInv', LocksInv, MoneyInv, NEW t \in Txns, Step(t) \/ DeadlockVictim(t)
    PROVE  MoneyInv'
  <1> DEFINE w == txn[t]
             n == txn'[t]
             Paid == Moved(t, Book, holder, draft, table)
             Put == Moved(t, Vault, holder, draft, table)
             PaidNext == Moved(t, Book, holder', draft', table')
             PutNext == Moved(t, Vault, holder', draft', table')
             Same == PaidIn(n) = PaidIn(w) /\ Banked(n) = Banked(w)
  <1>0. /\ Paid = PaidIn(w) /\ Put = Banked(w) /\ Paid \in Int /\ Put \in Int
        /\ w \in Request /\ ListsFit(w) /\ HoldsWhatItMust(t, w, holder)
    <2>1. Paid \in Int /\ Put \in Int
      BY MovedTyped
    <2>2. Paid = PaidIn(w) /\ Put = Banked(w)
      BY DEF MoneyInv, MovesFit
    <2>3. w \in Request /\ ListsFit(w) /\ HoldsWhatItMust(t, w, holder)
      BY TxnTyped DEF LocksInv, LocksFit
    <2> QED
      BY <2>1, <2>2, <2>3
  <1>1. ASSUME Untouched(t), Kept, PaidNext = PaidIn(n), PutNext = Banked(n) PROVE MoneyInv'
    BY <1>1, MoneyStep DEF MovesFit
  <1>2. ASSUME Ends(t), Kept PROVE MoneyInv'
    BY <1>2, EndsAlone, EndsEmpty, MoneyStep
  <1>3. ASSUME Quiet, Turned(t), Same PROVE MoneyInv'
    <2>1. Untouched(t) /\ Kept /\ PaidNext = Paid /\ PutNext = Put
      BY <1>3, QuietAlone, QuietMoves DEF Quiet
    <2> HIDE DEF w, n, Paid, Put, PaidNext, PutNext
    <2> QED
      BY <1>0, <1>1, <1>3, <2>1
  \* a row written, and how far that moves money
  <1>4. ASSUME NEW r, NEW v, Writes(t, r, v), Turned(t),
               PaidIn(n) = PaidIn(w) + Change(Book, r, v, View(t, r)),
               Banked(n) = Banked(w) + Change(Vault, r, v, View(t, r))
        PROVE  MoneyInv'
    <2>1. Untouched(t) /\ Kept
      BY <1>4, WritesAlone DEF Writes
    <2>2. /\ PaidNext = Paid + Change(Book, r, v, View(t, r))
          /\ PutNext = Put + Change(Vault, r, v, View(t, r))
      BY <1>4, WriteMoves
    <2> HIDE DEF w, n, Paid, Put, PaidNext, PutNext
    <2> QED
      BY <1>0, <1>1, <1>4, <2>1, <2>2
  <1>5. ASSUME NEW r, NEW v, Writes(t, r, v), Turned(t), Same,
               r \in Book \cup Vault => Worth(r, v) = Worth(r, View(t, r))
        PROVE  MoneyInv'
    <2>1. Change(Book, r, v, View(t, r)) = 0 /\ Change(Vault, r, v, View(t, r)) = 0
      <3>1. CASE r \in Book \cup Vault
        <4>1. Worth(r, View(t, r)) \in Int
          BY <3>1, WorthTyped
        <4> QED
          BY <1>5, <3>1, <4>1 DEF Change
      <3>2. CASE r \notin Book \cup Vault
        BY <3>2 DEF Change
      <3> QED
        BY <3>1, <3>2
    <2>2. PaidIn(n) = PaidIn(w) + 0 /\ Banked(n) = Banked(w) + 0
      BY <1>0, <1>5
    <2> HIDE DEF w, n, Paid, Put, PaidNext, PutNext
    <2> QED
      BY <1>4, <1>5, <2>1, <2>2
  <1>6. ASSUME NEW r, Writes(t, r, View(t, r)), Turned(t), Same PROVE MoneyInv'
    <2> HIDE DEF w, n, Paid, Put, PaidNext, PutNext, Same
    <2> QED
      BY <1>5, <1>6
  <1>7. w \in Waiting => PaidIn(w) = 0 /\ Banked(w) = 0
    BY KindNamed DEF PaidIn, Banked
  <1>8. CASE BeginSettle(t)
    <2>1. Same /\ Turned(t)
      BY <1>0, <1>7, <1>8, DidBeginSettle, KindNamed DEF SameSettlement, SamePublish, SameSummer, SameRefund, PaidIn, Banked
    <2>2. Quiet
      BY <1>8, DidBeginSettle
    <2> HIDE DEF Same
    <2> QED
      BY <1>3, <2>1, <2>2
  <1>9. CASE BeginPublish(t)
    <2>1. Same /\ Turned(t)
      BY <1>0, <1>7, <1>9, DidBeginPublish, KindNamed DEF SameSettlement, SamePublish, SameSummer, SameRefund, PaidIn, Banked
    <2>2. Quiet
      BY <1>9, DidBeginPublish
    <2> HIDE DEF Same
    <2> QED
      BY <1>3, <2>1, <2>2
  <1>10. CASE ListBills(t)
    <2>1. Same /\ Turned(t)
      BY <1>0, <1>7, <1>10, DidListBills, KindNamed DEF SameSettlement, SamePublish, SameSummer, SameRefund, PaidIn, Banked
    <2>2. Quiet
      BY <1>10, DidListBills
    <2> HIDE DEF Same
    <2> QED
      BY <1>3, <2>1, <2>2
  <1>11. CASE ReadSums(t)
    <2>1. Same /\ Turned(t)
      BY <1>0, <1>7, <1>11, DidReadSums, KindNamed DEF SameSettlement, SamePublish, SameSummer, SameRefund, PaidIn, Banked
    <2>2. Quiet
      BY <1>11, DidReadSums
    <2> HIDE DEF Same
    <2> QED
      BY <1>3, <2>1, <2>2
  <1>12. CASE PickBills(t)
    <2>1. Same /\ Turned(t)
      BY <1>0, <1>7, <1>12, DidPickBills, KindNamed DEF SameSettlement, SamePublish, SameSummer, SameRefund, PaidIn, Banked
    <2>2. Quiet
      BY <1>12, DidPickBills
    <2> HIDE DEF Same
    <2> QED
      BY <1>3, <2>1, <2>2
  <1>13. CASE ReadCredit(t)
    <2>1. Same /\ Turned(t)
      BY <1>0, <1>7, <1>13, DidReadCredit, KindNamed DEF SameSettlement, SamePublish, SameSummer, SameRefund, PaidIn, Banked
    <2>2. Quiet
      BY <1>13, DidReadCredit
    <2> HIDE DEF Same
    <2> QED
      BY <1>3, <2>1, <2>2
  <1>14. CASE LockFlat(t)
    <2>1. Same /\ Turned(t)
      BY <1>0, <1>7, <1>14, DidLockFlat, KindNamed DEF SameSettlement, SamePublish, SameSummer, SameRefund, PaidIn, Banked
    <2> DEFINE r == FlatRow(w.flat)
    <2>2. Writes(t, r, View(t, r))
      BY <1>14, DidLockFlat
    <2> HIDE DEF Same, r
    <2> QED
      BY <1>6, <2>1, <2>2
  <1>15. CASE BeginRefund(t)
    <2>1. Same /\ Turned(t)
      BY <1>0, <1>7, <1>15, DidBeginRefund, KindNamed DEF SameSettlement, SamePublish, SameSummer, SameRefund, PaidIn, Banked
    <2> DEFINE r == FlatRow(n.flat)
    <2>2. Writes(t, r, View(t, r))
      BY <1>15, DidBeginRefund
    <2> HIDE DEF Same, r
    <2> QED
      BY <1>6, <2>1, <2>2
  <1>16. CASE MarkPublished(t)
    <2>1. Same /\ Turned(t)
      BY <1>0, <1>7, <1>16, DidMarkPublished, KindNamed DEF SameSettlement, SamePublish, SameSummer, SameRefund, PaidIn, Banked
    <2> DEFINE r == PeriodRow(w.month)
    <2>2. Writes(t, r, View(t, r))
      BY <1>16, DidMarkPublished
    <2> HIDE DEF Same, r
    <2> QED
      BY <1>6, <2>1, <2>2
  <1>17. CASE LockBill(t)
    <2> DEFINE r == BillRow(w.flat, Turn(t))
    <2>1. Same /\ Turned(t) /\ (Quiet \/ Writes(t, r, View(t, r)))
      BY <1>17, DidLockBill, KindNamed DEF SameSettlement, SamePublish, SameSummer, SameRefund, PaidIn, Banked
    <2> HIDE DEF Same, r
    <2> QED
      BY <1>3, <1>6, <2>1
  <1>18. CASE LockCreditFlat(t)
    <2> DEFINE r == FlatRow(Turn(t))
    <2>1. Same /\ Turned(t) /\ (Quiet \/ Writes(t, r, View(t, r)))
      BY <1>18, DidLockCreditFlat, KindNamed DEF SameSettlement, SamePublish, SameSummer, SameRefund, PaidIn, Banked
    <2> HIDE DEF Same, r
    <2> QED
      BY <1>3, <1>6, <2>1
  <1>19. CASE WriteSums(t)
    <2> DEFINE r == PeriodRow(Turn(t))
    <2>1. Same /\ Turned(t) /\ Writes(t, r, w.seen) /\ Turn(t) \in Months
      BY <1>19, DidWriteSums, KindNamed DEF SameSettlement, SamePublish, SameSummer, SameRefund, PaidIn, Banked
    <2>2. r \notin Book \cup Vault
      BY <2>1, RowsSorted
    <2> HIDE DEF Same, r
    <2> QED
      BY <1>5, <2>1, <2>2
  <1>20. CASE Fine(t)
    <2>1. PICK f \in Flats, m \in Months : Writes(t, BillRow(f, m), Fined(View(t, BillRow(f, m))))
      BY <1>20, DidFine
    <2> DEFINE r == BillRow(f, m)
               b == View(t, r)
    <2>2. Same /\ Turned(t)
      BY <1>7, <1>20, DidFine, KindNamed DEF SameSettlement, SamePublish, SameSummer, SameRefund, PaidIn, Banked
    <2>3. b \in BillValue /\ r \in BillRows
      BY BillsTyped, RowsKnown
    <2>4. Worth(r, Fined(b)) = Worth(r, b)
      BY <2>3, FinedTyped DEF Worth
    <2> HIDE DEF Same, r
    <2> QED
      BY <1>5, <2>1, <2>2, <2>4 DEF r
  <1>21. CASE ShowBill(t)
    <2> DEFINE r == BillRow(Oldest(w.todo), w.month)
               v == Shown(View(t, r))
    <2>1. SamePublish(w, n) /\ Same /\ Turned(t) /\ (Quiet \/ (Oldest(w.todo) \in w.todo /\ Writes(t, r, v)))
      BY <1>21, DidShowBill, KindNamed DEF SameSettlement, SamePublish, SameSummer, SameRefund, PaidIn, Banked
    <2>2. CASE Quiet
      <3> HIDE DEF Same
      <3> QED
        BY <1>3, <2>1, <2>2
    <2>3. CASE Oldest(w.todo) \in w.todo /\ Writes(t, r, v)
      <3>1. r \in BillRows /\ View(t, r) \in BillValue
        BY <2>1, <2>3, KindNamed, BillsTyped, RowsKnown DEF SamePublish, Publishes
      <3>2. Worth(r, v) = Worth(r, View(t, r))
        BY <3>1, ShownTyped DEF Worth
      <3> HIDE DEF Same, r, v
      <3> QED
        BY <1>5, <2>1, <2>3, <3>2
    <2> QED
      BY <2>1, <2>2, <2>3
  <1>22. CASE CreditAccount(t)
    <2> DEFINE r == AccountRow(w.acct)
               old == View(t, r)
               v == old + w.amt
    <2>1. SameSettlement(w, n) /\ w.pc = "account" /\ n.pc = "flat" /\ Writes(t, r, v) /\ Turned(t)
      BY <1>22, DidCreditAccount
    <2>2. w.acct \in Accounts /\ w.amt \in Nat /\ w.kind = "settle" /\ n.kind = "settle" /\ n.amt = w.amt
      BY <2>1, KindNamed DEF SameSettlement, Settlements
    <2>3. r \in Vault /\ r \notin Book /\ r \notin BillRows /\ old \in Nat
      BY <2>2, RowsSorted, RowsKnown, ViewTyped DEF TypeInv
    <2>4. Change(Book, r, v, old) = 0 /\ Change(Vault, r, v, old) = w.amt
      BY <2>2, <2>3 DEF Change, Worth
    <2>5. PaidIn(w) = 0 /\ PaidIn(n) = 0 /\ Banked(w) = 0 /\ Banked(n) = w.amt
      BY <2>1, <2>2 DEF PaidIn, Banked
    <2>6. PaidIn(n) = PaidIn(w) + Change(Book, r, v, View(t, r)) /\ Banked(n) = Banked(w) + Change(Vault, r, v, View(t, r))
      BY <2>2, <2>4, <2>5
    <2> HIDE DEF r, v
    <2> QED
      BY <1>4, <2>1, <2>6
  <1>23. CASE Plan(t)
    <2> DEFINE lacks == Lacks(t, w.flat)
    <2>1. /\ SameSettlement(w, n) /\ w.pc = "plan" /\ n.pc = "pay" /\ Quiet /\ Turned(t)
          /\ n.share = Shares(lacks, w.amt) /\ n.todo = {m \in Months : n.share[m] > 0}
          /\ n.seen = Rest(w.amt, Upto(lacks, LastMonth))
      BY <1>23, DidPlan
    <2>2. /\ w.kind = "settle" /\ n.kind = "settle" /\ n.amt = w.amt /\ w.flat \in Flats /\ w.amt \in Nat
      BY <2>1, KindNamed DEF SameSettlement, Settlements
    <2>3. lacks \in [Months -> Nat]
      BY <2>2, LacksTyped
    <2>4. n.amt - n.seen - Left(n) = 0
      <3> HIDE DEF lacks, n
      <3> QED
        BY <2>1, <2>2, <2>3, PlanAddsUp
    <2>5. Same
      BY <2>1, <2>2, <2>4 DEF PaidIn, Banked
    <2> HIDE DEF Same
    <2> QED
      BY <1>3, <2>1, <2>5
  <1>24. CASE Pay(t)
    <2> DEFINE m == Oldest(w.todo)
               r == BillRow(w.flat, m)
               b == View(t, r)
               a == w.share[m]
               v == More(b, a)
    <2>1. /\ SameSettlement(w, n) /\ w.pc = "pay" /\ Turned(t) /\ n.share = w.share /\ n.seen = w.seen
          /\ \/ Quiet /\ n.pc = "excess" /\ w.todo = {}
             \/ n.pc = "pay" /\ n.todo = w.todo \ {m} /\ m \in w.todo /\ Writes(t, r, v)
      BY <1>24, DidPay
    <2>2. w.kind = "settle" /\ n.kind = "settle" /\ n.amt = w.amt /\ w.flat \in Flats /\ w.amt \in Nat /\ w.seen \in Nat
      BY <2>1, KindNamed DEF SameSettlement, Settlements
    <2>3. CASE Quiet /\ n.pc = "excess" /\ w.todo = {}
      <3>1. Left(w) = 0
        BY <2>3, NoneLeft
      <3>2. Same
        BY <2>1, <2>2, <2>3, <3>1 DEF PaidIn, Banked
      <3> HIDE DEF Same
      <3> QED
        BY <1>3, <2>1, <2>3, <3>2
    <2>4. CASE n.pc = "pay" /\ n.todo = w.todo \ {m} /\ m \in w.todo /\ Writes(t, r, v)
      <3>1. Left(w) = a + Left(n) /\ Left(n) \in Int /\ a \in Nat
        BY <2>1, <2>4, LeftLess DEF SameSettlement
      <3>2. m \in Months
        BY <2>1, <2>4 DEF SameSettlement, Settlements
      <3>3. r \in Book /\ r \notin Vault /\ r \in BillRows /\ b \in BillValue
        BY <2>2, <3>2, RowsSorted, BillsTyped
      <3> HIDE DEF a, b, r, m
      <3>4. v.paid = b.paid + a /\ b.paid \in Nat
        BY <3>1, <3>3, MoreTyped DEF BillValue
      <3>5. Change(Book, r, v, b) = a /\ Change(Vault, r, v, b) = 0
        BY <3>1, <3>3, <3>4 DEF Change, Worth
      <3>6. PaidIn(w) = w.amt - w.seen - Left(w) /\ PaidIn(n) = w.amt - w.seen - Left(n)
        BY <2>1, <2>2, <2>4 DEF PaidIn
      <3>7. Banked(w) = w.amt /\ Banked(n) = w.amt
        BY <2>1, <2>2, <2>4 DEF Banked
      <3>8. PaidIn(n) = PaidIn(w) + Change(Book, r, v, b) /\ Banked(n) = Banked(w) + Change(Vault, r, v, b)
        BY <2>2, <3>1, <3>5, <3>6, <3>7
      <3> HIDE DEF v
      <3> QED
        BY <1>4, <2>1, <2>4, <3>8 DEF b
    <2> QED
      BY <2>1, <2>3, <2>4
  <1>25. CASE KeepExcess(t)
    <2> DEFINE r == FlatRow(w.flat)
               old == View(t, r)
               v == old + w.seen
    <2>1. SameSettlement(w, n) /\ w.pc = "excess" /\ n.pc = "sums" /\ Writes(t, r, v) /\ Turned(t)
      BY <1>25, DidKeepExcess
    <2>2. /\ w.flat \in Flats /\ w.amt \in Nat /\ w.seen \in Nat /\ w.kind = "settle" /\ n.kind = "settle"
          /\ n.amt = w.amt
      BY <2>1, KindNamed DEF SameSettlement, Settlements
    <2>3. r \in Book /\ r \notin Vault /\ r \notin BillRows /\ old \in Nat
      BY <2>2, RowsSorted, RowsKnown, ViewTyped DEF TypeInv
    <2>4. Change(Book, r, v, old) = w.seen /\ Change(Vault, r, v, old) = 0
      BY <2>2, <2>3 DEF Change, Worth
    <2>5. PaidIn(w) = w.amt - w.seen /\ PaidIn(n) = w.amt /\ Banked(w) = w.amt /\ Banked(n) = w.amt
      BY <2>1, <2>2 DEF PaidIn, Banked
    <2>6. PaidIn(n) = PaidIn(w) + Change(Book, r, v, View(t, r)) /\ Banked(n) = Banked(w) + Change(Vault, r, v, View(t, r))
      BY <2>2, <2>4, <2>5
    <2> HIDE DEF r, v
    <2> QED
      BY <1>4, <2>1, <2>6
  <1>26. CASE PayBack(t)
    <2> DEFINE r == AccountRow(w.acct)
               flat == FlatRow(w.flat)
               got == View(t, r)
               had == View(t, flat)
               v == got - w.amt
               x == had - w.amt
    <2>1. CASE Abort(t)
      BY <1>2, <1>26, <2>1, DidPayBack, DidAbort, KindNamed DEF AllKinds
    <2>2. CASE ~Abort(t)
      <3>1. SameRefund(w, n) /\ w.pc = "account" /\ n.pc = "commit" /\ WritesTwo(t, r, v, flat, x) /\ Turned(t)
        BY <1>26, <2>2, DidPayBack
      <3>2. /\ w.acct \in Accounts /\ w.flat \in Flats /\ w.amt \in Nat /\ w.kind = "refund" /\ n.kind = "refund"
            /\ n.amt = w.amt
        BY <3>1, KindNamed DEF SameRefund, Refunds
      <3>3. holder[flat] = t
        BY <1>0, <3>1, <3>2 DEF HoldsWhatItMust
      <3>4. /\ r \in Vault /\ r \notin Book /\ r \notin BillRows /\ got \in Nat
            /\ flat \in Book /\ flat \notin Vault /\ flat \notin BillRows /\ had \in Nat
        BY <3>2, RowsSorted, RowsKnown, ViewTyped DEF TypeInv
      <3>5. /\ Change(Book, r, v, got) = 0 /\ Change(Vault, r, v, got) = 0 - w.amt
            /\ Change(Book, flat, x, had) = 0 - w.amt /\ Change(Vault, flat, x, had) = 0
        BY <3>2, <3>4 DEF Change, Worth
      <3>6. PaidIn(w) = 0 /\ PaidIn(n) = 0 - w.amt /\ Banked(w) = 0 /\ Banked(n) = 0 - w.amt
        BY <3>1, <3>2 DEF PaidIn, Banked
      <3>7. /\ PaidNext = Paid + Change(Book, r, v, got) + Change(Book, flat, x, had)
            /\ PutNext = Put + Change(Vault, r, v, got) + Change(Vault, flat, x, had)
        <4> HIDE DEF r, flat, v, x
        <4> QED
          BY <3>1, <3>3, TwoMove
      <3>8. Untouched(t) /\ Kept
        <4> HIDE DEF r, flat, v, x
        <4> QED
          BY <3>1, <3>3, TwoAlone DEF WritesTwo
      <3>9. PaidNext = PaidIn(n) /\ PutNext = Banked(n)
        <4> HIDE DEF w, n, Paid, Put, PaidNext, PutNext, r, v, flat, x, got, had
        <4> QED
          BY <1>0, <3>2, <3>5, <3>6, <3>7
      <3> QED
        BY <1>1, <3>8, <3>9
    <2> QED
      BY <2>1, <2>2
  <1>27. CASE TakeCredit(t)
    <2> DEFINE f == Oldest(w.todo)
               flat == FlatRow(f)
               r == BillRow(f, w.month)
               had == View(t, flat)
               b == View(t, r)
               x == had - w.seen
               v == More(draft[r], w.seen)
    <2>1. w \in Publishes /\ w.pc = "take" /\ f \in Flats /\ w.kind = "publish" /\ w.month \in Months /\ w.seen \in Nat
      BY <1>27, DidTakeCredit, KindNamed DEF Publishes
    <2>2. CASE Abort(t)
      BY <1>2, <2>1, <2>2, DidAbort DEF AllKinds
    <2>3. CASE ~Abort(t)
      <3>1. SamePublish(w, n) /\ n.pc = "spend" /\ WritesTwo(t, flat, x, r, v) /\ Turned(t)
        BY <1>27, <2>3, DidTakeCredit
      <3>2. holder[r] = t /\ b = draft[r]
        BY <1>0, <2>1 DEF HoldsWhatItMust, View
      <3>3. /\ flat \in Book /\ flat \notin Vault /\ flat \notin BillRows /\ had \in Nat
            /\ r \in Book /\ r \notin Vault /\ r \in BillRows /\ b \in BillValue
        BY <2>1, RowsSorted, RowsKnown, ViewTyped DEF TypeInv
      <3>4. v.paid = b.paid + w.seen /\ b.paid \in Nat
        <4> HIDE DEF b, r
        <4> QED
          BY <2>1, <3>2, <3>3, MoreTyped DEF BillValue
      <3>5. /\ Change(Book, flat, x, had) = 0 - w.seen /\ Change(Vault, flat, x, had) = 0
            /\ Change(Book, r, v, b) = w.seen /\ Change(Vault, r, v, b) = 0
        <4> HIDE DEF b, r, v, flat, had
        <4> QED
          BY <2>1, <3>3, <3>4 DEF Change, Worth
      <3>6. PaidIn(w) = 0 /\ PaidIn(n) = 0 /\ Banked(w) = 0 /\ Banked(n) = 0
        BY <2>1, <3>1, KindNamed DEF PaidIn, Banked, SamePublish
      <3>7. /\ PaidNext = Paid + Change(Book, flat, x, had) + Change(Book, r, v, b)
            /\ PutNext = Put + Change(Vault, flat, x, had) + Change(Vault, r, v, b)
        <4> HIDE DEF r, flat, v, x
        <4> QED
          BY <3>1, <3>2, TwoMove
      <3>8. Untouched(t) /\ Kept
        <4> HIDE DEF r, flat, v, x
        <4> QED
          BY <3>1, <3>2, TwoAlone DEF WritesTwo
      <3>9. PaidNext = PaidIn(n) /\ PutNext = Banked(n)
        <4> HIDE DEF w, n, Paid, Put, PaidNext, PutNext, r, v, flat, x, b, had
        <4> QED
          BY <1>0, <2>1, <3>5, <3>6, <3>7
      <3> QED
        BY <1>1, <3>8, <3>9
    <2> QED
      BY <2>2, <2>3
  <1>28. CASE Commit(t)
    BY <1>28, CommitMoney
  <1>29. CASE DeadlockVictim(t)
    BY <1>2, <1>29, DidDeadlockVictim
  <1> QED
    BY <1>8, <1>9, <1>10, <1>11, <1>12, <1>13, <1>14, <1>15, <1>16, <1>17, <1>18, <1>19, <1>20, <1>21, <1>22, <1>23, <1>24, <1>25, <1>26, <1>27, <1>28, <1>29
       DEF Step, Settle, Refund, Publish

FlatMonths == Flats \X Months

\* A sum over the bills is one over the flats and the months.
LEMMA BillsRenamed ==
    ASSUME NEW G \in [FlatMonths -> Int], NEW H \in [BillRows -> Int],
           \A f \in Flats : \A m \in Months : H[BillRow(f, m)] = G[<<f, m>>]
    PROVE  SumOver(H) = SumOver(G)
  <1> DEFINE q == [x \in FlatMonths |-> BillRow(x[1], x[2])]
  <1>1. ASSUME NEW x \in FlatMonths
        PROVE  x[1] \in Flats /\ x[2] \in Months /\ x = <<x[1], x[2]>> /\ q[x] = BillRow(x[1], x[2])
    BY DEF FlatMonths
  <1>2. BillRows = {q[x] : x \in FlatMonths}
    <2>1. ASSUME NEW f \in Flats, NEW m \in Months
          PROVE  BillRow(f, m) = q[<<f, m>>] /\ <<f, m>> \in FlatMonths
      BY DEF FlatMonths
    <2> HIDE DEF q
    <2>2. ASSUME NEW y \in BillRows PROVE y \in {q[x] : x \in FlatMonths}
      <3>1. PICK f \in Flats, m \in Months : y = BillRow(f, m)
        BY DEF BillRows
      <3>2. y = q[<<f, m>>] /\ <<f, m>> \in FlatMonths
        BY <2>1, <3>1
      <3> HIDE DEF BillRow
      <3> QED
        BY <3>2
    <2>3. {q[x] : x \in FlatMonths} \subseteq BillRows
      BY <1>1 DEF BillRows
    <2> QED
      BY <2>2, <2>3
  <1>3. \A x \in FlatMonths : \A y \in FlatMonths : q[x] = q[y] => x = y
    <2> SUFFICES ASSUME NEW x \in FlatMonths, NEW y \in FlatMonths, q[x] = q[y] PROVE x = y
      OBVIOUS
    <2>1. BillRow(x[1], x[2]) = BillRow(y[1], y[2])
      BY <1>1
    <2>2. x[1] = y[1] /\ x[2] = y[2]
      BY <1>1, <2>1, RowsApart
    <2> QED
      BY <1>1, <2>2
  <1>4. \A x \in FlatMonths : H[q[x]] = G[x]
    <2> SUFFICES ASSUME NEW x \in FlatMonths PROVE H[q[x]] = G[x]
      OBVIOUS
    <2> HIDE DEF q
    <2>1. q[x] = BillRow(x[1], x[2]) /\ G[x] = G[<<x[1], x[2]>>]
      BY <1>1
    <2> QED
      BY <1>1, <2>1
  <1>5. IsFiniteSet(FlatMonths)
    BY FlatsAndMonthsFinite DEF FlatMonths
  <1> HIDE DEF q
  <1> QED
    BY <1>2, <1>3, <1>4, <1>5, SumRenamed

LEMMA StartedSums ==
    ASSUME Init, TypeInv
    PROVE  Total(Book) = received /\ Total(Vault) = received
  <1>1. PICK c \in [Flats -> Credits] :
          /\ \A f \in Flats : table[FlatRow(f)] = c[f]
          /\ \A f \in Flats, m \in Months : table[BillRow(f, m)] =
                [total |-> Due, paid |-> PaidBefore(c, f, m), pub |-> m \notin Drafts, fined |-> FALSE]
          /\ \A a \in Accounts : table[AccountRow(a)] = IF a = Home THEN received ELSE 0
          /\ received = SumOver(Lent(c)) + SumOver(Gone(c)) /\ received \in Nat
    BY StartsFrom
  <1>2. \A S : Total(S) = SumOver([r \in S |-> Money(r)])
    BY DEF Total
  <1>3. \A r \in Book \cup Vault : Money(r) \in Int
    <2> TAKE r \in Book \cup Vault
    <2>1. r \in Rows /\ table[r] \in Value(r)
      BY BooksFinite DEF TypeInv, TypeOK
    <2> QED
      BY <2>1, MoneyIs, ValueWorth
  <1>8. Credits \subseteq Int
    BY MoneyNatural
  <1>9. c \in [Flats -> Int]
    <2>1. \A f \in Flats : c[f] \in Credits
      OBVIOUS
    <2>2. c = [f \in Flats |-> c[f]]
      OBVIOUS
    <2> QED
      BY <1>8, <2>1, <2>2
  <1>4. Total(Book) = received
    <2> DEFINE M == [r \in Book |-> Money(r)]
               Mf == [r \in FlatRows |-> M[r]]
               Mb == [r \in BillRows |-> M[r]]
               p == [f \in Flats |-> FlatRow(f)]
               L == Lent(c)
               G == Gone(c)
    <2>1. M \in [Book -> Int] /\ M = [r \in Book |-> M[r]]
      BY <1>3
    <2>2. Book = FlatRows \cup BillRows /\ FlatRows \in SUBSET Book /\ BillRows \in SUBSET Book /\ FlatRows \cap BillRows = {}
      BY RowsApart DEF Book, FlatRows, BillRows
    <2>3. SumOver(M) = SumOver(Mf) + SumOver(Mb)
      <3>1. Part(M, FlatRows \cup BillRows) = Part(M, FlatRows) + Part(M, BillRows)
        <4> HIDE DEF M
        <4> QED
          BY <2>1, <2>2, BooksFinite, PartsApart
      <3>2. Part(M, Book) = SumOver(M)
        <4> HIDE DEF M
        <4> QED
          BY <2>1, PartWhole
      <3> QED
        BY <2>2, <3>1, <3>2 DEF Part
    <2>4. SumOver(Mf) = SumOver(L)
      <3>1. FlatRows = {p[x] : x \in Flats}
        BY DEF FlatRows
      <3>2. \A x \in Flats : \A y \in Flats : p[x] = p[y] => x = y
        BY RowsApart
      <3>3. Mf \in [FlatRows -> Int] /\ \A x \in Flats : Mf[p[x]] = L[x]
        <4>1. Mf \in [FlatRows -> Int]
          BY <2>1, <2>2
        <4>2. \A x \in Flats : p[x] \in FlatRows /\ p[x] \in Book /\ Money(p[x]) = c[x]
          BY <1>1, RowsKnown, RowsSorted DEF Money
        <4> QED
          BY <4>1, <4>2 DEF Lent
      <3>4. L \in [Flats -> Int]
        BY <1>9 DEF Lent
      <3> HIDE DEF Mf, p, L
      <3> QED
        BY <3>1, <3>2, <3>3, <3>4, FlatsAndMonthsFinite, SumRenamed
    <2>5. SumOver(Mb) = SumOver(G)
      <3>1. Mb \in [BillRows -> Int]
        BY <2>1, <2>2
      <3>2. ASSUME NEW f \in Flats, NEW m \in Months
            PROVE  /\ PaidBefore(c, f, m) \in Int /\ G[<<f, m>>] = PaidBefore(c, f, m)
                   /\ Mb[BillRow(f, m)] = G[<<f, m>>]
        <4>1. PaidBefore(c, f, m) \in Int /\ G[<<f, m>>] = PaidBefore(c, f, m)
          BY DEF PaidBefore, Gone
        <4> DEFINE r == BillRow(f, m)
        <4>2. r \in BillRows /\ r \in Book
          BY RowsKnown, RowsSorted
        <4>3. table[r] = [total |-> Due, paid |-> PaidBefore(c, f, m), pub |-> m \notin Drafts, fined |-> FALSE]
          BY <1>1
        <4>4. Money(r) = PaidBefore(c, f, m)
          BY <4>2, <4>3 DEF Money
        <4> HIDE DEF r, G
        <4>5. Mb[r] = Money(r)
          BY <4>2
        <4> QED
          BY <4>1, <4>4, <4>5 DEF r
      <3>3. G \in [FlatMonths -> Int]
        BY DEF Gone, PaidBefore, FlatMonths
      <3> HIDE DEF Mb, G
      <3>4. \A f \in Flats : \A m \in Months : Mb[BillRow(f, m)] = G[<<f, m>>]
        BY <3>2
      <3> QED
        BY <3>1, <3>3, <3>4, BillsRenamed
    <2> QED
      BY <1>1, <1>2, <2>3, <2>4, <2>5
  <1>5. Total(Vault) = received
    <2> DEFINE M == [r \in Vault |-> Money(r)]
               home == AccountRow(Home)
    <2>1. M \in [Vault -> Int]
      BY <1>3
    <2>2. home \in Vault /\ Home \in Accounts
      BY RowsSorted DEF Home
    <2>3. M[home] = received
      BY <1>1, <2>2, RowsSorted DEF Money
    <2>4. \A r \in Vault \ {home} : M[r] = 0
      <3> TAKE r \in Vault \ {home}
      <3>1. PICK a \in Accounts : r = AccountRow(a)
        BY DEF Vault, AccountRows
      <3>2. a # Home
        BY <3>1
      <3> QED
        BY <1>1, <3>1, <3>2, RowsSorted DEF Money
    <2>5. Total(Vault) = SumOver(M)
      BY <1>2
    <2> HIDE DEF M, home
    <2>6. {home} \in SUBSET Vault /\ {home} \ {home} = {} /\ home \in {home}
      BY <2>2
    <2>7. SumOver(M) = Part(M, {home})
      BY <2>1, <2>4, <2>6, BooksFinite, SumSupport
    <2>8. Part(M, {home}) = M[home] + Part(M, {}) /\ Part(M, {}) = 0
      <3> DEFINE T == {home}
      <3>1. T \in SUBSET Vault /\ home \in T /\ T \ {home} = {}
        BY <2>6
      <3> HIDE DEF T
      <3>2. Part(M, T) = M[home] + Part(M, T \ {home}) /\ Part(M, {}) = 0
        BY <2>1, <3>1, BooksFinite, PartsAdd
      <3> QED
        BY <3>1, <3>2 DEF T
    <2> QED
      BY <1>1, <2>3, <2>5, <2>7, <2>8
  <1> QED
    BY <1>4, <1>5

LEMMA StartedMoney == Init /\ TypeInv => MoneyInv
  <1> SUFFICES ASSUME Init, TypeInv PROVE MoneyInv
    OBVIOUS
  <1>1. MoneyMoved
    <2>1. received \in Nat /\ refunded = 0
      BY DEF Init, TypeInv, TypeOK
    <2> QED
      BY <2>1, StartedSums DEF MoneyMoved, Book, Vault
  <1>2. ASSUME NEW t \in Txns PROVE MovesFit(t, txn[t], holder, draft, table)
    <2>1. txn[t].kind = "none" /\ \A r \in Rows : holder[r] # t
      BY DEF Init
    <2>2. ASSUME NEW S \in {Book, Vault} PROVE Moved(t, S, holder, draft, table) = 0
      <3> DEFINE f == Diffs(t, S, holder, draft, table)
      <3>1. ASSUME NEW r \in S PROVE Diff(t, r, holder, draft, table) = 0
        <4>1. holder[r] # t /\ Worth(r, table[r]) \in Int
          BY <2>1, BooksFinite, WorthTyped
        <4>2. SeenBy(t, r, holder, draft, table) = table[r]
          BY <4>1 DEF SeenBy
        <4> QED
          BY <4>1, <4>2 DEF Diff
      <3>2. f \in [S -> Int] /\ \A r \in S : f[r] = 0
        BY <3>1 DEF Diffs
      <3>3. IsFiniteSet(S)
        BY BooksFinite
      <3> HIDE DEF f
      <3>4. SumOver(f) = 0
        BY <3>2, <3>3, SumZero
      <3> QED
        BY <3>4 DEF Moved, f
    <2>3. Moved(t, Book, holder, draft, table) = 0 /\ Moved(t, Vault, holder, draft, table) = 0
      BY <2>2
    <2>4. PaidIn(txn[t]) = 0 /\ Banked(txn[t]) = 0
      BY <2>1 DEF PaidIn, Banked
    <2> QED
      BY <2>3, <2>4 DEF MovesFit
  <1> QED
    BY <1>1, <1>2 DEF MoneyInv

LEMMA MoneyRest ==
    ASSUME MoneyInv, UNCHANGED vars
    PROVE  MoneyInv'
  <1>1. /\ txn' = txn /\ holder' = holder /\ draft' = draft /\ table' = table
        /\ received' = received /\ refunded' = refunded
    BY DEF vars
  <1> QED
    BY <1>1 DEF MoneyInv, MoneyMoved, Total, Money

\* For any number of flats, months, accounts and concurrent requests, at every moment:
\* what the flats hold and have paid, and what the accounts hold, is what came in less
\* what went back. Every transaction has moved, of its own rows, what the statements it
\* has behind it say, so that a commit adds just its amount to both sums.
THEOREM NoUpdateLost == Spec => []MoneyMoved
  <1> DEFINE Inv == Held /\ MoneyInv
  <1>1. Init => Inv
    BY StartedTyped, StartedLocks, StartedBills, StartedMoney DEF Held
  <1>2. Held /\ Held' /\ MoneyInv /\ [Next]_vars => MoneyInv'
    <2>1. ASSUME Held, Held', MoneyInv, Next PROVE MoneyInv'
      <3>1. PICK t \in Txns : Step(t) \/ DeadlockVictim(t)
        BY <2>1 DEF Next
      <3>2. TypeInv /\ LocksInv /\ TypeInv'
        BY <2>1 DEF Held
      <3> QED
        BY <2>1, <3>1, <3>2, MoneyKept
    <2>2. ASSUME MoneyInv, UNCHANGED vars PROVE MoneyInv'
      BY <2>2, MoneyRest
    <2> QED
      BY <2>1, <2>2
  <1>3. MoneyInv => MoneyMoved
    BY DEF MoneyInv
  <1> QED
    BY <1>1, <1>2, <1>3, HeldAlways, PTL DEF Spec

=============================================================================
