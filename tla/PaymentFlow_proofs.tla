------------------------ MODULE PaymentFlow_proofs ------------------------
(***************************************************************************)
(* What PaymentFlow promises for every number of residents, admins,        *)
(* payments and accounts, with or without crashes and failed clean-ups.    *)
(***************************************************************************)
EXTENDS PaymentFlow, FiniteSetTheorems, TLAPS

\* A row that exists carries an amount a payer may type.
RowsHaveAmounts ==
    \A p \in Payments : pay[p].status # "NONE" => pay[p].amt \in Amounts

\* What a request holds at each of its steps: an amount while it may still
\* create a row, a row that exists while it works on one, an account while it
\* may credit one.
Reviewing == {"idle", "approve", "credit", "reject", "undo", "notify"}
OnRow == {"attach", "attachStore", "attachLink", "attachUndo", "retry",
          "autoCommit", "notify", "approve", "credit", "reject", "undo"}
OnAccount == {"create", "approve", "credit", "autoCommit"}

Fits(x) ==
    /\ x.pc \notin Reviewing => x.amt \in Amounts
    /\ x.pc \in OnRow => x.pay # NoPay
    /\ x.pay # NoPay => pay[x.pay].status # "NONE"
    /\ x.pc \in OnAccount => x.acct # NoAcct
    /\ x.pc \in {"upload", "commit"} /\ x.auto => x.acct # NoAcct

RequestsFit == \A h \in Handlers : Fits(req[h])

IInv == TypeOK /\ RowsHaveAmounts /\ RequestsFit /\ CreditedOnce

-----------------------------------------------------------------------------
(* Facts about single definitions.                                         *)

\* The account chosen when there is only one is an account.
LEMMA SoleAccount ==
    Cardinality(ActiveAccounts) = 1
        => (CHOOSE x \in ActiveAccounts : TRUE) \in Accounts
  <1> SUFFICES ASSUME Cardinality(ActiveAccounts) = 1
               PROVE  (CHOOSE x \in ActiveAccounts : TRUE) \in Accounts
    OBVIOUS
  <1>1. ActiveAccounts # {}
    BY FS_EmptySet
  <1> QED
    BY <1>1 DEF ActiveAccounts

\* Settling keeps what is owed within the bill and the credit non-negative.
LEMMA SettleTyped ==
    ASSUME pending \in 0 .. Dues, credit \in Nat,
           NEW amt \in Nat, Settle(amt)
    PROVE  pending' \in 0 .. Dues /\ credit' \in Nat
  BY DuesPositive DEF Settle

\* Crediting a payment no transaction names yet keeps the rows well typed,
\* makes the payment approved, and leaves it with one transaction and every
\* other payment with those it had.
LEMMA CreditAndApproveSafe ==
    ASSUME TypeOK, RowsHaveAmounts, CreditedOnce,
           NEW p \in Payments, NEW row \in Row, NEW a \in Accounts,
           row.amt \in Amounts,
           pay[p].status \in {"NONE", "PENDING"},
           CreditAndApprove(p, row, a)
    PROVE  /\ pay' \in [Payments -> Row]
           /\ ledger' \subseteq LedgerRow
           /\ nextTxn' \in Nat \ {0}
           /\ balance' \in [Accounts -> Nat]
           /\ pending' \in 0 .. Dues
           /\ credit' \in Nat
           /\ \A q \in Payments : pay[q].status # "NONE" => pay'[q].status # "NONE"
           /\ pay'[p].status # "NONE"
           /\ RowsHaveAmounts'
           /\ CreditedOnce'
  <1> DEFINE new == [id |-> nextTxn, pay |-> p, acct |-> a, amt |-> row.amt, utr |-> row.utr]
  <1>1. /\ pay' = [pay EXCEPT ![p] = [row EXCEPT !.status = "APPROVED", !.txn = nextTxn]]
        /\ ledger' = ledger \cup {new}
        /\ nextTxn' = nextTxn + 1
        /\ balance' = [balance EXCEPT ![a] = @ + row.amt]
        /\ IF row.bill THEN Settle(row.amt) ELSE UNCHANGED <<pending, credit>>
    BY DEF CreditAndApprove
  <1>2. row.amt \in Nat
    BY AmountsPositive
  <1>3. pay' \in [Payments -> Row]
    BY <1>1 DEF TypeOK, Row
  <1>4. new \in LedgerRow
    BY DEF TypeOK, LedgerRow, Row
  <1>5. /\ ledger' \subseteq LedgerRow
        /\ nextTxn' \in Nat \ {0}
        /\ balance' \in [Accounts -> Nat]
    BY <1>1, <1>2, <1>4 DEF TypeOK
  <1>6. pending' \in 0 .. Dues /\ credit' \in Nat
    BY <1>1, <1>2, SettleTyped DEF TypeOK
  <1>7. /\ pay'[p].status = "APPROVED"
        /\ pay'[p].txn = nextTxn
        /\ pay'[p].amt = row.amt
    BY <1>1 DEF TypeOK, Row
  <1>8. \A q \in Payments \ {p} : pay'[q] = pay[q]
    BY <1>1 DEF TypeOK
  <1>9. RowsHaveAmounts'
    BY <1>7, <1>8 DEF RowsHaveAmounts
  <1>10. CreditedOnce'
    <2> SUFFICES ASSUME NEW q \in Payments
                 PROVE  (IF pay[q].status = "APPROVED"
                         THEN \E l \in ledger : /\ Credits(q) = {l}
                                                /\ l.id = pay[q].txn
                                                /\ l.amt = pay[q].amt
                         ELSE pay[q].status # "DELETED" => Credits(q) = {})'
      BY DEF CreditedOnce
    <2>1. CASE q = p
      <3>1. Credits(p) = {}
        BY DEF CreditedOnce
      <3>2. Credits(p)' = {new}
        BY <1>1, <3>1 DEF Credits
      <3>3. new \in ledger' /\ new.id = nextTxn /\ new.amt = row.amt
        BY <1>1
      <3> QED
        BY <2>1, <1>7, <3>2, <3>3
    <2>2. CASE q # p
      <3>1. Credits(q)' = Credits(q)
        BY <1>1, <2>2 DEF Credits
      <3>2. ledger \subseteq ledger' /\ pay'[q] = pay[q]
        BY <1>1, <1>8, <2>2
      <3> QED
        BY <3>1, <3>2 DEF CreditedOnce
    <2> QED
      BY <2>1, <2>2
  <1> QED
    BY <1>3, <1>5, <1>6, <1>7, <1>8, <1>9, <1>10

\* Rows only come into existence, and what a request of another handler holds
\* still fits after a step that replaces one request by one that fits.
LEMMA RequestChange ==
    ASSUME TypeOK, RequestsFit, NEW h \in Handlers, NEW x \in Request,
           req' = [req EXCEPT ![h] = x],
           \A p \in Payments : pay[p].status # "NONE" => pay'[p].status # "NONE",
           Fits(x)'
    PROVE  req' \in [Handlers -> Request] /\ RequestsFit'
  <1>1. req' \in [Handlers -> Request]
    BY DEF TypeOK
  <1>2. ASSUME NEW k \in Handlers
        PROVE  Fits(req[k])'
    <2>1. CASE k = h
      <3>1. req'[k] = x
        BY <2>1 DEF TypeOK
      <3> QED
        BY <3>1 DEF Fits
    <2>2. CASE k # h
      <3>1. req'[k] = req[k] /\ req[k] \in Request
        BY <2>2 DEF TypeOK
      <3>2. req[k].pay \in Payments \cup {NoPay}
        BY <3>1 DEF Request
      <3>3. Fits(req[k])
        BY DEF RequestsFit
      <3> QED
        BY <3>1, <3>2, <3>3 DEF Fits
    <2> QED
      BY <2>1, <2>2
  <1> QED
    BY <1>1, <1>2 DEF RequestsFit

\* What a step that leaves payments and transactions alone cannot disturb.
LEMMA RowsUnmoved ==
    ASSUME RowsHaveAmounts, CreditedOnce, UNCHANGED <<pay, ledger>>
    PROVE  /\ RowsHaveAmounts'
           /\ CreditedOnce'
           /\ \A p \in Payments : pay[p].status # "NONE" => pay'[p].status # "NONE"
  BY DEF RowsHaveAmounts, CreditedOnce, Credits

\* A request that is done is at rest.
LEMMA IdleRequest == Idle \in Request /\ Fits(Idle) /\ Fits(Idle)'
  BY DEF Idle, Request, Labels, Fits, Reviewing, OnRow, OnAccount

LEMMA DoneSafe ==
    ASSUME TypeOK, RequestsFit, NEW h \in Handlers, Done(h),
           \A p \in Payments : pay[p].status # "NONE" => pay'[p].status # "NONE"
    PROVE  req' \in [Handlers -> Request] /\ RequestsFit'
  BY RequestChange, IdleRequest DEF Done

\* A step that moves no money and no payment keeps the invariant if the request
\* it leaves behind fits.
LEMMA QuietStep ==
    ASSUME IInv, NEW h \in Handlers, NEW x \in Request,
           req' = [req EXCEPT ![h] = x],
           Fits(x),
           UNCHANGED <<pay, money, acct, verify>>,
           docs' \subseteq [pay : Payments, file : Files],
           stored' \subseteq Files,
           told' \in [Payments -> Nat]
    PROVE  IInv'
  <1>1. RowsHaveAmounts' /\ CreditedOnce'
    BY RowsUnmoved DEF IInv, money
  <1>2. Fits(x)'
    BY DEF Fits
  <1>3. req' \in [Handlers -> Request] /\ RequestsFit'
    BY <1>2, RequestChange DEF IInv
  <1> QED
    BY <1>1, <1>3 DEF IInv, TypeOK, money

\* The same for a step that also leaves the files, their rows and the
\* notifications alone.
LEMMA RequestOnlyStep ==
    ASSUME IInv, NEW h \in Handlers, NEW x \in Request,
           req' = [req EXCEPT ![h] = x],
           Fits(x),
           UNCHANGED <<rows, config, stored, told>>
    PROVE  IInv'
  BY QuietStep DEF IInv, TypeOK, rows, config

-----------------------------------------------------------------------------
(* A resident's request.                                                   *)

LEMMA BeginSubmitSafe ==
    ASSUME IInv, NEW r \in Handlers, BeginSubmit(r)
    PROVE  IInv'
  <1>1. PICK f \in Forms :
           req' = [req EXCEPT ![r] = [Idle EXCEPT
                     !.pc = IF f.utr = NoUtr THEN "config" ELSE "lookup",
                     !.utr = f.utr, !.bill = f.bill, !.amt = f.amt,
                     !.proof = f.proof]]
    BY DEF BeginSubmit
  <1> DEFINE x == [Idle EXCEPT
                     !.pc = IF f.utr = NoUtr THEN "config" ELSE "lookup",
                     !.utr = f.utr, !.bill = f.bill, !.amt = f.amt,
                     !.proof = f.proof]
  <1>2. /\ x \in Request
        /\ x.pc \in {"config", "lookup"} /\ x.amt \in Amounts
        /\ x.pay = NoPay /\ x.auto = FALSE
    BY FormsTyped DEF Idle, Request, Labels
  <1>3. Fits(x)
    BY <1>2 DEF Fits, OnRow, OnAccount
  <1> QED
    BY <1>1, <1>2, <1>3, RequestOnlyStep DEF BeginSubmit

LEMMA FoundSafe ==
    ASSUME IInv, NEW r \in Handlers, Found(r)
    PROVE  IInv'
  <1>1. PICK p \in WithUtr(req[r].utr) :
           IF Decided(p) THEN Done(r)
           ELSE req' = [req EXCEPT ![r].pay = p,
                          ![r].pc = IF req[r].proof THEN "attach" ELSE "retry"]
    BY DEF Found
  <1>2. p \in Payments /\ pay[p].status # "NONE" /\ p # NoPay
    BY Disjoint DEF WithUtr, Live
  <1>3. \E x \in Request : Fits(x) /\ req' = [req EXCEPT ![r] = x]
    <2>1. CASE Decided(p)
      BY <1>1, <2>1, IdleRequest DEF Done
    <2>2. CASE ~Decided(p)
      <3> DEFINE x == [req[r] EXCEPT !.pay = p,
                          !.pc = IF req[r].proof THEN "attach" ELSE "retry"]
      <3>1. req[r] \in Request /\ req[r].pc \in {"lookup", "relookup"} /\ Fits(req[r])
        BY DEF IInv, TypeOK, RequestsFit, Found
      <3>2. /\ x \in Request /\ x.pay = p /\ x.pc \in {"attach", "retry"}
            /\ x.amt = req[r].amt
        BY <1>2, <3>1 DEF Request, Labels
      <3>3. Fits(x)
        BY <1>2, <3>1, <3>2 DEF Fits, Reviewing, OnRow, OnAccount
      <3>4. req' = [req EXCEPT ![r] = x]
        BY <1>1, <2>2 DEF IInv, TypeOK
      <3> QED
        BY <3>2, <3>3, <3>4
    <2> QED
      BY <2>1, <2>2
  <1> QED
    BY <1>3, RequestOnlyStep DEF Found

LEMMA NotFoundSafe ==
    ASSUME IInv, NEW r \in Handlers, NotFound(r)
    PROVE  IInv'
  <1> DEFINE x == [req[r] EXCEPT !.pc = "config"]
  <1>1. req[r] \in Request /\ Fits(req[r]) /\ req[r].pc \in {"lookup", "relookup"}
    BY DEF IInv, TypeOK, RequestsFit, NotFound
  <1>2. x \in Request /\ Fits(x)
    BY <1>1 DEF Request, Labels, Fits, Reviewing, OnRow, OnAccount
  <1>3. \/ req' = [req EXCEPT ![r] = x]
        \/ req' = [req EXCEPT ![r] = Idle]
    BY DEF NotFound, Goto, Done, IInv, TypeOK
  <1> QED
    BY <1>2, <1>3, IdleRequest, RequestOnlyStep DEF NotFound

LEMMA ReadConfigSafe ==
    ASSUME IInv, NEW r \in Handlers, ReadConfig(r)
    PROVE  IInv'
  <1> DEFINE auto == ~verify /\ req[r].utr # NoUtr /\ req[r].bill
             x == [req[r] EXCEPT !.pc = "accounts", !.auto = auto]
  <1>1. req[r] \in Request /\ Fits(req[r]) /\ req[r].pc = "config"
    BY DEF IInv, TypeOK, RequestsFit, ReadConfig, At
  <1>2. auto \in BOOLEAN
    OBVIOUS
  <1>3. /\ x \in Request /\ x.pc = "accounts"
        /\ x.amt = req[r].amt /\ x.pay = req[r].pay
    <2> HIDE DEF auto
    <2> QED
      BY <1>1, <1>2 DEF Request, Labels
  <1>4. Fits(x)
    <2> HIDE DEF x
    <2> QED
      BY <1>1, <1>3 DEF Fits, Reviewing, OnRow, OnAccount
  <1>5. \/ req' = [req EXCEPT ![r] = x]
        \/ req' = [req EXCEPT ![r] = Idle]
    BY DEF ReadConfig, Done, IInv, TypeOK
  <1> QED
    BY <1>3, <1>4, <1>5, IdleRequest, RequestOnlyStep DEF ReadConfig

LEMMA ReadAccountsSafe ==
    ASSUME IInv, NEW r \in Handlers, ReadAccounts(r)
    PROVE  IInv'
  <1> DEFINE sole == Cardinality(ActiveAccounts) = 1
             a == IF sole THEN CHOOSE c \in ActiveAccounts : TRUE ELSE NoAcct
             resumed == req[r].pay # NoPay
             auto == req[r].auto /\ sole
             next == IF resumed THEN "autoCommit"
                     ELSE IF req[r].proof THEN "upload" ELSE "commit"
             x == [req[r] EXCEPT !.acct = a, !.auto = auto, !.pc = next]
  <1>1. req[r] \in Request /\ Fits(req[r]) /\ req[r].pc = "accounts"
    BY DEF IInv, TypeOK, RequestsFit, ReadAccounts, At
  <1>2. a \in Accounts \cup {NoAcct} /\ (sole => a # NoAcct)
    BY SoleAccount, Disjoint
  <1>3. auto \in BOOLEAN
    OBVIOUS
  <1>4. next \in Labels
    BY DEF Labels
  <1>5. x \in Request
    <2> HIDE DEF a, sole, next, auto
    <2> QED
      BY <1>1, <1>2, <1>3, <1>4 DEF Request
  <1>6. CASE resumed /\ ~sole
    <2>1. Done(r)
      BY <1>6 DEF ReadAccounts
    <2> QED
      BY <2>1, IdleRequest, RequestOnlyStep DEF ReadAccounts, Done
  <1>7. CASE ~(resumed /\ ~sole)
    <2>1. req' = [req EXCEPT ![r] = x]
      BY <1>7 DEF ReadAccounts, IInv, TypeOK
    <2>2. /\ x.acct = a /\ x.pay = req[r].pay /\ x.amt = req[r].amt
          /\ x.auto = auto /\ x.pc = next
      <3> HIDE DEF a, sole, next, auto
      <3> QED
        BY <1>1 DEF Request
    <2>3. Fits(x)
      <3> HIDE DEF a, sole, x
      <3> QED
        BY <1>1, <1>2, <1>7, <2>2 DEF Fits, Reviewing, OnRow, OnAccount
    <2> HIDE DEF x
    <2> QED
      BY <1>5, <2>1, <2>3, RequestOnlyStep DEF ReadAccounts
  <1> QED
    BY <1>6, <1>7

LEMMA UploadSafe ==
    ASSUME IInv, NEW r \in Handlers, Upload(r)
    PROVE  IInv'
  <1>1. req[r] \in Request /\ Fits(req[r]) /\ req[r].pc = "upload"
    BY DEF IInv, TypeOK, RequestsFit, Upload, At
  <1>2. CASE \E f \in FreshFiles :
                /\ stored' = stored \cup {f}
                /\ req' = [req EXCEPT ![r].file = f, ![r].pc = "commit"]
    <2>1. PICK f \in FreshFiles :
             /\ stored' = stored \cup {f}
             /\ req' = [req EXCEPT ![r].file = f, ![r].pc = "commit"]
      BY <1>2
    <2> DEFINE x == [req[r] EXCEPT !.file = f, !.pc = "commit"]
    <2>2. f \in Files
      BY DEF FreshFiles
    <2>3. x \in Request /\ Fits(x)
      BY <1>1, <2>2 DEF Request, Labels, Fits, Reviewing, OnRow, OnAccount
    <2>4. req' = [req EXCEPT ![r] = x]
      BY <2>1 DEF IInv, TypeOK
    <2>5. stored' \subseteq Files
      BY <2>1, <2>2 DEF IInv, TypeOK
    <2> QED
      BY <2>3, <2>4, <2>5, QuietStep DEF IInv, TypeOK, Upload, rows, config
  <1>3. CASE Done(r) /\ UNCHANGED stored
    BY <1>3, IdleRequest, RequestOnlyStep DEF Upload, Done
  <1> QED
    BY <1>2, <1>3 DEF Upload

\* The request that creates a row has the fields of a row.
LEMMA NewRowTyped ==
    ASSUME TypeOK, NEW h \in Handlers, req[h].amt \in Amounts
    PROVE  /\ NewRow(h) \in Row
           /\ NewRow(h).amt = req[h].amt
           /\ NewRow(h).status = "PENDING"
  <1>1. req[h] \in Request
    BY DEF TypeOK
  <1> QED
    BY <1>1 DEF NewRow, Row, Request, NoTxn

LEMMA ProofRowTyped ==
    ASSUME TypeOK, NEW h \in Handlers, NEW p \in Payments
    PROVE  ProofRow(h, p) \subseteq [pay : Payments, file : Files]
  <1>1. req[h] \in Request
    BY DEF TypeOK
  <1> QED
    BY <1>1 DEF ProofRow, Request

\* A row added without an approval.
LEMMA NewRowSafe ==
    ASSUME IInv, NEW h \in Handlers, NEW p \in Fresh, req[h].amt \in Amounts,
           pay' = [pay EXCEPT ![p] = NewRow(h)], UNCHANGED ledger
    PROVE  /\ pay' \in [Payments -> Row]
           /\ RowsHaveAmounts'
           /\ CreditedOnce'
           /\ pay'[p].status = "PENDING"
           /\ \A q \in Payments : pay[q].status # "NONE" => pay'[q].status # "NONE"
  <1>1. /\ NewRow(h) \in Row
        /\ NewRow(h).amt \in Amounts
        /\ NewRow(h).status = "PENDING"
    BY NewRowTyped DEF IInv
  <1>2. p \in Payments /\ pay[p].status = "NONE"
    BY DEF Fresh
  <1>3. pay' \in [Payments -> Row]
    BY <1>1, <1>2 DEF IInv, TypeOK
  <1>4. pay'[p] = NewRow(h) /\ \A q \in Payments \ {p} : pay'[q] = pay[q]
    BY <1>2 DEF IInv, TypeOK
  <1>5. RowsHaveAmounts'
    BY <1>1, <1>4 DEF IInv, RowsHaveAmounts
  <1>6. \A q \in Payments : Credits(q)' = Credits(q)
    BY DEF Credits
  <1>7. CreditedOnce'
    BY <1>1, <1>2, <1>4, <1>6 DEF IInv, CreditedOnce
  <1> QED
    BY <1>1, <1>3, <1>4, <1>5, <1>7

LEMMA CommitSafe ==
    ASSUME IInv, NEW r \in Handlers, Commit(r)
    PROVE  IInv'
  <1>1. req[r] \in Request /\ Fits(req[r]) /\ req[r].pc = "commit"
    BY DEF IInv, TypeOK, RequestsFit, Commit, At
  <1>2. req[r].amt \in Amounts /\ req[r].acct \in Accounts \cup {NoAcct}
    BY <1>1 DEF Fits, Reviewing, Request
  <1>3. PICK p \in Fresh :
           /\ IF req[r].auto
              THEN /\ CreditAndApprove(p, NewRow(r), req[r].acct)
                   /\ req' = [req EXCEPT ![r].pc = "notify", ![r].pay = p]
              ELSE /\ pay' = [pay EXCEPT ![p] = NewRow(r)]
                   /\ Done(r)
                   /\ UNCHANGED money
           /\ docs' = docs \cup ProofRow(r, p)
    BY DEF Commit
  <1>4. p \in Payments /\ pay[p].status = "NONE" /\ p # NoPay
    BY Disjoint DEF Fresh
  <1>5. docs' \subseteq [pay : Payments, file : Files]
    BY <1>3, <1>4, ProofRowTyped DEF IInv, TypeOK
  <1>6. UNCHANGED <<acct, verify, stored, told>>
    BY DEF Commit, config
  <1>7. CASE req[r].auto
    <2> DEFINE x == [req[r] EXCEPT !.pc = "notify", !.pay = p]
    <2>1. req[r].acct \in Accounts
      BY <1>1, <1>2, <1>7 DEF Fits
    <2>2. CreditAndApprove(p, NewRow(r), req[r].acct)
      BY <1>3, <1>7
    <2>3. NewRow(r) \in Row /\ NewRow(r).amt \in Amounts
      BY <1>2, NewRowTyped DEF IInv
    <2>4. /\ pay' \in [Payments -> Row] /\ ledger' \subseteq LedgerRow
          /\ nextTxn' \in Nat \ {0} /\ balance' \in [Accounts -> Nat]
          /\ pending' \in 0 .. Dues /\ credit' \in Nat
          /\ \A q \in Payments : pay[q].status # "NONE" => pay'[q].status # "NONE"
          /\ pay'[p].status # "NONE"
          /\ RowsHaveAmounts' /\ CreditedOnce'
      BY <1>4, <2>1, <2>2, <2>3, CreditAndApproveSafe DEF IInv
    <2>5. x \in Request /\ x.pc = "notify" /\ x.pay = p
      BY <1>1, <1>4 DEF Request, Labels
    <2>6. req' = [req EXCEPT ![r] = x]
      BY <1>3, <1>7 DEF IInv, TypeOK
    <2>7. ASSUME NEW y \in Request, y = x
          PROVE  Fits(y)'
      BY <1>4, <2>4, <2>5, <2>7 DEF Fits, Reviewing, OnAccount
    <2>8. req' \in [Handlers -> Request] /\ RequestsFit'
      BY <2>4, <2>5, <2>6, <2>7, RequestChange DEF IInv
    <2> QED
      BY <1>5, <1>6, <2>4, <2>8 DEF IInv, TypeOK
  <1>8. CASE ~req[r].auto
    <2>1. /\ pay' = [pay EXCEPT ![p] = NewRow(r)]
          /\ Done(r)
          /\ UNCHANGED <<ledger, nextTxn, balance, pending, credit>>
      BY <1>3, <1>8 DEF money
    <2>2. /\ pay' \in [Payments -> Row]
          /\ RowsHaveAmounts' /\ CreditedOnce'
          /\ \A q \in Payments : pay[q].status # "NONE" => pay'[q].status # "NONE"
      BY <1>2, <2>1, NewRowSafe
    <2>3. req' \in [Handlers -> Request] /\ RequestsFit'
      BY <2>1, <2>2, DoneSafe DEF IInv
    <2> QED
      BY <1>5, <1>6, <2>1, <2>2, <2>3 DEF IInv, TypeOK
  <1> QED
    BY <1>7, <1>8

\* A request that moves to another step keeps everything else it holds.
LEMMA GotoRequest ==
    ASSUME TypeOK, NEW h \in Handlers, NEW l \in Labels, Goto(h, l)
    PROVE  \E x \in Request : /\ req' = [req EXCEPT ![h] = x]
                              /\ x = [req[h] EXCEPT !.pc = l]
  <1>1. req[h] \in Request
    BY DEF TypeOK
  <1>2. [req[h] EXCEPT !.pc = l] \in Request
    BY <1>1 DEF Request
  <1>3. req' = [req EXCEPT ![h] = [req[h] EXCEPT !.pc = l]]
    BY DEF Goto, TypeOK
  <1> QED
    BY <1>2, <1>3

LEMMA CommitFailsSafe ==
    ASSUME IInv, NEW r \in Handlers, CommitFails(r)
    PROVE  IInv'
  <1>1. req[r] \in Request /\ Fits(req[r]) /\ req[r].pc = "commit"
    BY DEF IInv, TypeOK, RequestsFit, CommitFails, At
  <1>2. PICK l \in {"cleanDup", "clean"} : Goto(r, l)
    BY DEF CommitFails
  <1>3. PICK x \in Request : /\ req' = [req EXCEPT ![r] = x]
                             /\ x = [req[r] EXCEPT !.pc = l]
    BY <1>2, GotoRequest DEF IInv, Labels
  <1>4. Fits(x)
    BY <1>1, <1>3 DEF Request, Fits, Reviewing, OnRow, OnAccount
  <1> QED
    BY <1>3, <1>4, RequestOnlyStep DEF CommitFails

LEMMA CleanSafe ==
    ASSUME IInv, NEW r \in Handlers, Clean(r)
    PROVE  IInv'
  <1> DEFINE x == [req[r] EXCEPT !.pc = "relookup", !.file = NoFile]
  <1>1. req[r] \in Request /\ Fits(req[r]) /\ req[r].pc \in {"clean", "cleanDup"}
    BY DEF IInv, TypeOK, RequestsFit, Clean
  <1>2. x \in Request /\ Fits(x)
    BY <1>1 DEF Request, Labels, Fits, Reviewing, OnRow, OnAccount
  <1>3. \/ req' = [req EXCEPT ![r] = x]
        \/ req' = [req EXCEPT ![r] = Idle]
    BY DEF Clean, Done, IInv, TypeOK
  <1>4. stored' \subseteq Files
    BY DEF Clean, RemoveFile, IInv, TypeOK
  <1> QED
    BY <1>2, <1>3, <1>4, IdleRequest, QuietStep DEF IInv, TypeOK, Clean, rows, config

LEMMA AttachSafe ==
    ASSUME IInv, NEW r \in Handlers, Attach(r)
    PROVE  IInv'
  <1>1. req[r] \in Request /\ Fits(req[r]) /\ req[r].pc = "attach"
    BY DEF IInv, TypeOK, RequestsFit, Attach, At
  <1>2. PICK l \in {"retry", "attachStore"} : Goto(r, l)
    BY DEF Attach
  <1>3. PICK x \in Request : /\ req' = [req EXCEPT ![r] = x]
                             /\ x = [req[r] EXCEPT !.pc = l]
    BY <1>2, GotoRequest DEF IInv, Labels
  <1>4. Fits(x)
    BY <1>1, <1>3 DEF Request, Fits, Reviewing, OnRow, OnAccount
  <1> QED
    BY <1>3, <1>4, RequestOnlyStep DEF Attach

LEMMA AttachStoreSafe ==
    ASSUME IInv, NEW r \in Handlers, AttachStore(r)
    PROVE  IInv'
  <1>1. req[r] \in Request /\ Fits(req[r]) /\ req[r].pc = "attachStore"
    BY DEF IInv, TypeOK, RequestsFit, AttachStore, At
  <1>2. CASE \E f \in FreshFiles :
                /\ stored' = stored \cup {f}
                /\ req' = [req EXCEPT ![r].file = f, ![r].pc = "attachLink"]
    <2>1. PICK f \in FreshFiles :
             /\ stored' = stored \cup {f}
             /\ req' = [req EXCEPT ![r].file = f, ![r].pc = "attachLink"]
      BY <1>2
    <2> DEFINE x == [req[r] EXCEPT !.file = f, !.pc = "attachLink"]
    <2>2. f \in Files
      BY DEF FreshFiles
    <2>3. x \in Request /\ Fits(x)
      BY <1>1, <2>2 DEF Request, Labels, Fits, Reviewing, OnRow, OnAccount
    <2>4. req' = [req EXCEPT ![r] = x]
      BY <2>1 DEF IInv, TypeOK
    <2>5. stored' \subseteq Files
      BY <2>1, <2>2 DEF IInv, TypeOK
    <2> QED
      BY <2>3, <2>4, <2>5, QuietStep DEF IInv, TypeOK, AttachStore, rows, config
  <1>3. CASE Goto(r, "retry") /\ UNCHANGED stored
    <2>1. PICK x \in Request : /\ req' = [req EXCEPT ![r] = x]
                               /\ x = [req[r] EXCEPT !.pc = "retry"]
      BY <1>3, GotoRequest DEF IInv, Labels
    <2>2. Fits(x)
      BY <1>1, <2>1 DEF Request, Fits, Reviewing, OnRow, OnAccount
    <2> QED
      BY <1>3, <2>1, <2>2, RequestOnlyStep DEF AttachStore
  <1> QED
    BY <1>2, <1>3 DEF AttachStore

LEMMA AttachLinkSafe ==
    ASSUME IInv, NEW r \in Handlers, AttachLink(r)
    PROVE  IInv'
  <1>1. req[r] \in Request /\ Fits(req[r]) /\ req[r].pc = "attachLink"
    BY DEF IInv, TypeOK, RequestsFit, AttachLink, At
  <1>2. req[r].pay \in Payments
    BY <1>1 DEF Fits, OnRow, Request
  <1>3. docs' \subseteq [pay : Payments, file : Files]
    BY <1>2, ProofRowTyped DEF AttachLink, IInv, TypeOK
  <1>4. CASE req' = [req EXCEPT ![r].pc = "retry", ![r].file = NoFile]
    <2> DEFINE x == [req[r] EXCEPT !.pc = "retry", !.file = NoFile]
    <2>1. x \in Request /\ Fits(x)
      BY <1>1 DEF Request, Labels, Fits, Reviewing, OnRow, OnAccount
    <2>2. req' = [req EXCEPT ![r] = x]
      BY <1>4 DEF IInv, TypeOK
    <2> QED
      BY <1>3, <2>1, <2>2, QuietStep DEF IInv, TypeOK, AttachLink, config
  <1>5. CASE Goto(r, "attachUndo")
    <2>1. PICK x \in Request : /\ req' = [req EXCEPT ![r] = x]
                               /\ x = [req[r] EXCEPT !.pc = "attachUndo"]
      BY <1>5, GotoRequest DEF IInv, Labels
    <2>2. Fits(x)
      BY <1>1, <2>1 DEF Request, Fits, Reviewing, OnRow, OnAccount
    <2> QED
      BY <1>3, <2>1, <2>2, QuietStep DEF IInv, TypeOK, AttachLink, config
  <1> QED
    BY <1>4, <1>5 DEF AttachLink

LEMMA AttachUndoSafe ==
    ASSUME IInv, NEW r \in Handlers, AttachUndo(r)
    PROVE  IInv'
  <1> DEFINE x == [req[r] EXCEPT !.pc = "retry", !.file = NoFile]
  <1>1. req[r] \in Request /\ Fits(req[r]) /\ req[r].pc = "attachUndo"
    BY DEF IInv, TypeOK, RequestsFit, AttachUndo, At
  <1>2. x \in Request /\ Fits(x)
    BY <1>1 DEF Request, Labels, Fits, Reviewing, OnRow, OnAccount
  <1>3. req' = [req EXCEPT ![r] = x]
    BY DEF AttachUndo, IInv, TypeOK
  <1>4. stored' \subseteq Files
    BY DEF AttachUndo, RemoveFile, IInv, TypeOK
  <1> QED
    BY <1>2, <1>3, <1>4, QuietStep DEF IInv, TypeOK, AttachUndo, rows, config

LEMMA RetrySafe ==
    ASSUME IInv, NEW r \in Handlers, Retry(r)
    PROVE  IInv'
  <1>1. req[r] \in Request /\ Fits(req[r]) /\ req[r].pc = "retry"
    BY DEF IInv, TypeOK, RequestsFit, Retry, At
  <1>2. CASE Goto(r, "accounts")
    <2>1. PICK x \in Request : /\ req' = [req EXCEPT ![r] = x]
                               /\ x = [req[r] EXCEPT !.pc = "accounts"]
      BY <1>2, GotoRequest DEF IInv, Labels
    <2>2. Fits(x)
      BY <1>1, <2>1 DEF Request, Fits, Reviewing, OnRow, OnAccount
    <2> QED
      BY <2>1, <2>2, RequestOnlyStep DEF Retry
  <1>3. CASE Done(r)
    BY <1>3, IdleRequest, RequestOnlyStep DEF Retry, Done
  <1> QED
    BY <1>2, <1>3 DEF Retry

\* The approval of a row that is open, by whichever request holds it.
LEMMA ApproveOpenSafe ==
    ASSUME IInv, NEW h \in Handlers,
           req[h].pay # NoPay, req[h].acct # NoAcct, Open(req[h].pay),
           CreditAndApprove(req[h].pay, pay[req[h].pay], req[h].acct),
           Goto(h, "notify"),
           UNCHANGED <<docs, config, stored, told>>
    PROVE  IInv'
  <1> DEFINE p == req[h].pay
  <1>1. req[h] \in Request /\ Fits(req[h])
    BY DEF IInv, TypeOK, RequestsFit
  <1>2. p \in Payments /\ req[h].acct \in Accounts
    BY <1>1 DEF Request
  <1>3. pay[p] \in Row /\ pay[p].amt \in Amounts /\ pay[p].status = "PENDING"
    BY <1>2 DEF IInv, TypeOK, RowsHaveAmounts, Open
  <1>4. /\ pay' \in [Payments -> Row] /\ ledger' \subseteq LedgerRow
        /\ nextTxn' \in Nat \ {0} /\ balance' \in [Accounts -> Nat]
        /\ pending' \in 0 .. Dues /\ credit' \in Nat
        /\ \A q \in Payments : pay[q].status # "NONE" => pay'[q].status # "NONE"
        /\ pay'[p].status # "NONE"
        /\ RowsHaveAmounts' /\ CreditedOnce'
    BY <1>2, <1>3, CreditAndApproveSafe DEF IInv
  <1>5. PICK x \in Request : /\ req' = [req EXCEPT ![h] = x]
                             /\ x = [req[h] EXCEPT !.pc = "notify"]
    BY GotoRequest DEF IInv, Labels
  <1>6. x.pc = "notify" /\ x.pay = p
    BY <1>1, <1>5 DEF Request
  <1>7. Fits(x)'
    BY <1>2, <1>4, <1>6, Disjoint DEF Fits, Reviewing, OnAccount
  <1>8. req' \in [Handlers -> Request] /\ RequestsFit'
    BY <1>4, <1>5, <1>7, RequestChange DEF IInv
  <1> QED
    BY <1>4, <1>8 DEF IInv, TypeOK, config

LEMMA AutoCommitSafe ==
    ASSUME IInv, NEW r \in Handlers, AutoCommit(r)
    PROVE  IInv'
  <1>1. req[r] \in Request /\ Fits(req[r]) /\ req[r].pc = "autoCommit"
    BY DEF IInv, TypeOK, RequestsFit, AutoCommit, At
  <1>2. req[r].pay # NoPay /\ req[r].acct # NoAcct
    BY <1>1 DEF Fits, OnRow, OnAccount
  <1>3. CASE /\ Open(req[r].pay)
             /\ CreditAndApprove(req[r].pay, pay[req[r].pay], req[r].acct)
             /\ Goto(r, "notify")
    BY <1>2, <1>3, ApproveOpenSafe DEF AutoCommit
  <1>4. CASE Done(r) /\ UNCHANGED <<pay, money>>
    BY <1>4, IdleRequest, RequestOnlyStep DEF AutoCommit, Done, rows
  <1> QED
    BY <1>3, <1>4 DEF AutoCommit

LEMMA NotifySafe ==
    ASSUME IInv, NEW h \in Handlers, Notify(h)
    PROVE  IInv'
  <1>1. told' \in [Payments -> Nat]
    BY DEF Notify, IInv, TypeOK
  <1> QED
    BY <1>1, IdleRequest, QuietStep DEF Notify, Done, IInv, TypeOK, rows, config

-----------------------------------------------------------------------------
(* An admin's request.                                                     *)

LEMMA BeginReviewSafe ==
    ASSUME IInv, NEW a \in Handlers, BeginReview(a)
    PROVE  IInv'
  <1>1. PICK p \in Payments :
           /\ Live(p)
           /\ \/ \E c \in Accounts :
                    req' = [req EXCEPT ![a] = [Idle EXCEPT !.pc = "approve",
                                                  !.pay = p, !.acct = c]]
              \/ req' = [req EXCEPT ![a] = [Idle EXCEPT !.pc = "reject", !.pay = p]]
    BY DEF BeginReview
  <1>2. p # NoPay /\ pay[p].status # "NONE"
    BY <1>1, Disjoint DEF Live
  <1>3. CASE \E c \in Accounts :
                req' = [req EXCEPT ![a] = [Idle EXCEPT !.pc = "approve",
                                              !.pay = p, !.acct = c]]
    <2>1. PICK c \in Accounts :
             req' = [req EXCEPT ![a] = [Idle EXCEPT !.pc = "approve",
                                           !.pay = p, !.acct = c]]
      BY <1>3
    <2> DEFINE x == [Idle EXCEPT !.pc = "approve", !.pay = p, !.acct = c]
    <2>2. x \in Request /\ Fits(x)
      BY <1>2, Disjoint DEF Idle, Request, Labels, Fits, Reviewing, OnRow, OnAccount
    <2> QED
      BY <2>1, <2>2, RequestOnlyStep DEF BeginReview
  <1>4. CASE req' = [req EXCEPT ![a] = [Idle EXCEPT !.pc = "reject", !.pay = p]]
    <2> DEFINE x == [Idle EXCEPT !.pc = "reject", !.pay = p]
    <2>1. x \in Request /\ Fits(x)
      BY <1>2 DEF Idle, Request, Labels, Fits, Reviewing, OnRow, OnAccount
    <2> QED
      BY <1>4, <2>1, RequestOnlyStep DEF BeginReview
  <1> QED
    BY <1>1, <1>3, <1>4

\* A failed approval leaves the request at rest or about to delete its row.
LEMMA FailFits ==
    ASSUME IInv, NEW a \in Handlers, Fail(a), req[a].pay # NoPay
    PROVE  \E x \in Request : Fits(x) /\ req' = [req EXCEPT ![a] = x]
  <1>1. req[a] \in Request /\ Fits(req[a])
    BY DEF IInv, TypeOK, RequestsFit
  <1>2. CASE Done(a)
    BY <1>2, IdleRequest DEF Done
  <1>3. CASE Goto(a, "undo")
    <2>1. PICK x \in Request : /\ req' = [req EXCEPT ![a] = x]
                               /\ x = [req[a] EXCEPT !.pc = "undo"]
      BY <1>3, GotoRequest DEF IInv, Labels
    <2>2. Fits(x)
      BY <1>1, <2>1 DEF Request, Fits, Reviewing, OnRow, OnAccount
    <2> QED
      BY <2>1, <2>2
  <1> QED
    BY <1>2, <1>3 DEF Fail

LEMMA CheckAccountSafe ==
    ASSUME IInv, NEW a \in Handlers, CheckAccount(a)
    PROVE  IInv'
  <1>1. req[a] \in Request /\ Fits(req[a]) /\ req[a].pc = "approve"
    BY DEF IInv, TypeOK, RequestsFit, CheckAccount, At
  <1>2. CASE Goto(a, "credit")
    <2>1. PICK x \in Request : /\ req' = [req EXCEPT ![a] = x]
                               /\ x = [req[a] EXCEPT !.pc = "credit"]
      BY <1>2, GotoRequest DEF IInv, Labels
    <2>2. Fits(x)
      BY <1>1, <2>1 DEF Request, Fits, Reviewing, OnRow, OnAccount
    <2> QED
      BY <2>1, <2>2, RequestOnlyStep DEF CheckAccount
  <1>3. CASE Fail(a)
    <2>1. req[a].pay # NoPay
      BY <1>1 DEF Fits, OnRow
    <2> QED
      BY <1>3, <2>1, FailFits, RequestOnlyStep DEF CheckAccount
  <1> QED
    BY <1>2, <1>3 DEF CheckAccount

LEMMA ApproveSafe ==
    ASSUME IInv, NEW a \in Handlers, Approve(a)
    PROVE  IInv'
  <1>1. req[a].pay # NoPay /\ req[a].acct # NoAcct
    BY DEF IInv, RequestsFit, Approve, At, Fits, OnRow, OnAccount
  <1> QED
    BY <1>1, ApproveOpenSafe DEF Approve

LEMMA ApproveFailsSafe ==
    ASSUME IInv, NEW a \in Handlers, ApproveFails(a)
    PROVE  IInv'
  <1>1. req[a].pay # NoPay
    BY DEF IInv, RequestsFit, ApproveFails, At, Fits, OnRow
  <1> QED
    BY <1>1, FailFits, RequestOnlyStep DEF ApproveFails

\* A row that is rejected or deleted has no transaction to lose, or is no
\* longer one CreditedOnce speaks of.
LEMMA StatusChangeSafe ==
    ASSUME IInv, NEW p \in Payments, NEW s \in {"REJECTED", "DELETED"},
           s = "REJECTED" => Open(p),
           pay[p].status # "NONE",
           pay' = [pay EXCEPT ![p].status = s],
           UNCHANGED ledger
    PROVE  /\ pay' \in [Payments -> Row]
           /\ RowsHaveAmounts'
           /\ CreditedOnce'
           /\ \A q \in Payments : pay[q].status # "NONE" => pay'[q].status # "NONE"
  <1>1. pay[p] \in Row
    BY DEF IInv, TypeOK
  <1>2. pay' \in [Payments -> Row]
    BY <1>1 DEF IInv, TypeOK, Row
  <1>3. /\ pay'[p].status = s
        /\ pay'[p].amt = pay[p].amt
        /\ \A q \in Payments \ {p} : pay'[q] = pay[q]
    BY <1>1 DEF IInv, TypeOK, Row
  <1>4. RowsHaveAmounts'
    BY <1>3 DEF IInv, RowsHaveAmounts
  <1>5. \A q \in Payments : Credits(q)' = Credits(q)
    BY DEF Credits
  <1>6. CreditedOnce'
    BY <1>3, <1>5 DEF IInv, CreditedOnce, Open
  <1> QED
    BY <1>2, <1>3, <1>4, <1>6

LEMMA RejectSafe ==
    ASSUME IInv, NEW a \in Handlers, Reject(a)
    PROVE  IInv'
  <1>1. req[a] \in Request /\ Fits(req[a]) /\ req[a].pc = "reject"
    BY DEF IInv, TypeOK, RequestsFit, Reject, At
  <1>2. req[a].pay \in Payments /\ pay[req[a].pay].status # "NONE"
    BY <1>1 DEF Fits, OnRow, Request
  <1>3. CASE /\ Open(req[a].pay)
             /\ pay' = [pay EXCEPT ![req[a].pay].status = "REJECTED"]
             /\ Goto(a, "notify")
    <2>1. /\ pay' \in [Payments -> Row]
          /\ RowsHaveAmounts' /\ CreditedOnce'
          /\ \A q \in Payments : pay[q].status # "NONE" => pay'[q].status # "NONE"
      BY <1>2, <1>3, StatusChangeSafe DEF Reject, money
    <2>2. PICK x \in Request : /\ req' = [req EXCEPT ![a] = x]
                               /\ x = [req[a] EXCEPT !.pc = "notify"]
      BY <1>3, GotoRequest DEF IInv, Labels
    <2>3. x.pc = "notify" /\ x.pay = req[a].pay
      BY <1>1, <2>2 DEF Request
    <2>4. Fits(x)'
      BY <1>2, <2>1, <2>3, Disjoint DEF Fits, Reviewing, OnAccount
    <2>5. req' \in [Handlers -> Request] /\ RequestsFit'
      BY <2>1, <2>2, <2>4, RequestChange DEF IInv
    <2> QED
      BY <2>1, <2>5 DEF Reject, IInv, TypeOK, money, config
  <1>4. CASE Done(a) /\ UNCHANGED pay
    BY <1>4, IdleRequest, RequestOnlyStep DEF Reject, Done, rows
  <1> QED
    BY <1>3, <1>4 DEF Reject

LEMMA BeginRecordSafe ==
    ASSUME IInv, NEW a \in Handlers, BeginRecord(a)
    PROVE  IInv'
  <1>1. PICK f \in RecordForms, c \in ActiveAccounts :
           req' = [req EXCEPT ![a] = [Idle EXCEPT !.pc = "create", !.utr = f.utr,
                      !.bill = TRUE, !.amt = f.amt, !.acct = c, !.record = TRUE]]
    BY DEF BeginRecord
  <1> DEFINE x == [Idle EXCEPT !.pc = "create", !.utr = f.utr,
                      !.bill = TRUE, !.amt = f.amt, !.acct = c, !.record = TRUE]
  <1>2. c \in Accounts /\ c # NoAcct
    BY Disjoint DEF ActiveAccounts
  <1>3. /\ x \in Request
        /\ x.pc = "create" /\ x.amt \in Amounts /\ x.acct = c
        /\ x.pay = NoPay /\ x.auto = FALSE
    BY <1>2, FormsTyped DEF Idle, Request, Labels
  <1>4. Fits(x)
    BY <1>2, <1>3 DEF Fits, OnRow
  <1> QED
    BY <1>1, <1>3, <1>4, RequestOnlyStep DEF BeginRecord

LEMMA CreateRecordSafe ==
    ASSUME IInv, NEW a \in Handlers, CreateRecord(a)
    PROVE  IInv'
  <1>1. req[a] \in Request /\ Fits(req[a]) /\ req[a].pc = "create"
    BY DEF IInv, TypeOK, RequestsFit, CreateRecord, At
  <1>2. req[a].amt \in Amounts /\ req[a].acct # NoAcct
    BY <1>1 DEF Fits, Reviewing, OnAccount
  <1>3. CASE \E p \in Fresh :
                /\ pay' = [pay EXCEPT ![p] = NewRow(a)]
                /\ req' = [req EXCEPT ![a].pay = p, ![a].pc = "approve"]
    <2>1. PICK p \in Fresh :
             /\ pay' = [pay EXCEPT ![p] = NewRow(a)]
             /\ req' = [req EXCEPT ![a].pay = p, ![a].pc = "approve"]
      BY <1>3
    <2>2. /\ pay' \in [Payments -> Row]
          /\ RowsHaveAmounts' /\ CreditedOnce'
          /\ pay'[p].status = "PENDING"
          /\ \A q \in Payments : pay[q].status # "NONE" => pay'[q].status # "NONE"
      BY <1>2, <2>1, NewRowSafe DEF CreateRecord, money
    <2>3. p \in Payments
      BY DEF Fresh
    <2>4. PICK x \in Request :
             /\ x = [req[a] EXCEPT !.pay = p, !.pc = "approve"]
             /\ req' = [req EXCEPT ![a] = x]
      BY <1>1, <2>1, <2>3 DEF IInv, TypeOK, Request, Labels
    <2>5. x.pc = "approve" /\ x.pay = p /\ x.acct = req[a].acct
      BY <1>1, <2>4 DEF Request
    <2>6. Fits(x)'
      BY <1>2, <2>2, <2>3, <2>5, Disjoint DEF Fits, Reviewing
    <2>7. req' \in [Handlers -> Request] /\ RequestsFit'
      BY <2>2, <2>4, <2>6, RequestChange DEF IInv
    <2> QED
      BY <2>2, <2>7 DEF CreateRecord, IInv, TypeOK, money, config
  <1>4. CASE Done(a) /\ UNCHANGED pay
    BY <1>4, IdleRequest, RequestOnlyStep DEF CreateRecord, Done, rows
  <1> QED
    BY <1>3, <1>4 DEF CreateRecord

LEMMA UndoRecordSafe ==
    ASSUME IInv, NEW a \in Handlers, UndoRecord(a)
    PROVE  IInv'
  <1>1. req[a] \in Request /\ Fits(req[a]) /\ req[a].pc = "undo"
    BY DEF IInv, TypeOK, RequestsFit, UndoRecord, At
  <1>2. req[a].pay \in Payments /\ pay[req[a].pay].status # "NONE"
    BY <1>1 DEF Fits, OnRow, Request
  <1>3. CASE pay' = [pay EXCEPT ![req[a].pay].status = "DELETED"]
    <2>1. /\ pay' \in [Payments -> Row]
          /\ RowsHaveAmounts' /\ CreditedOnce'
          /\ \A q \in Payments : pay[q].status # "NONE" => pay'[q].status # "NONE"
      BY <1>2, <1>3, StatusChangeSafe DEF UndoRecord, money
    <2>2. req' \in [Handlers -> Request] /\ RequestsFit'
      BY <2>1, DoneSafe DEF UndoRecord, IInv
    <2> QED
      BY <2>1, <2>2 DEF UndoRecord, IInv, TypeOK, money, config
  <1>4. CASE UNCHANGED pay
    BY <1>4, IdleRequest, RequestOnlyStep DEF UndoRecord, Done, rows
  <1> QED
    BY <1>3, <1>4 DEF UndoRecord

-----------------------------------------------------------------------------
(* Accounts, settings, crashes.                                            *)

\* What no request is a part of: the rows stay, the requests stay.
LEMMA SettingsSafe ==
    ASSUME IInv, UNCHANGED <<rows, stored, told, req>>,
           acct' \in [Accounts -> {"absent", "active", "inactive", "deleted"}],
           verify' \in BOOLEAN
    PROVE  IInv'
  <1>1. RowsHaveAmounts' /\ CreditedOnce'
    BY RowsUnmoved DEF IInv, rows, money
  <1>2. RequestsFit'
    BY DEF IInv, RequestsFit, Fits, rows
  <1> QED
    BY <1>1, <1>2 DEF IInv, TypeOK, rows, money

LEMMA AccountStepSafe ==
    ASSUME IInv, NEW c \in Accounts, AccountStep(c)
    PROVE  IInv'
  <1>1. acct' \in [Accounts -> {"absent", "active", "inactive", "deleted"}]
    BY DEF AccountStep, CreateAccount, RemoveAccount, UpdateAccount, IInv, TypeOK
  <1>2. UNCHANGED <<rows, verify, stored, told, req>>
    BY DEF AccountStep, CreateAccount, RemoveAccount, UpdateAccount
  <1> QED
    BY <1>1, <1>2, SettingsSafe DEF IInv, TypeOK

LEMMA SetVerificationSafe ==
    ASSUME IInv, SetVerification
    PROVE  IInv'
  BY SettingsKnown, SettingsSafe DEF SetVerification, IInv, TypeOK

LEMMA CrashSafe ==
    ASSUME IInv, Crash
    PROVE  IInv'
  <1>1. req' \in [Handlers -> Request] /\ \A h \in Handlers : req'[h] = Idle
    BY IdleRequest DEF Crash
  <1>2. RequestsFit'
    BY <1>1, IdleRequest DEF RequestsFit, Fits
  <1>3. RowsHaveAmounts' /\ CreditedOnce'
    BY RowsUnmoved DEF Crash, IInv, rows, money
  <1> QED
    BY <1>1, <1>2, <1>3 DEF Crash, IInv, TypeOK, rows, config, money

-----------------------------------------------------------------------------
(* The theorems.                                                           *)

LEMMA InitIInv == Init => IInv
  <1> SUFFICES ASSUME Init PROVE IInv
    OBVIOUS
  <1>1. NoRow \in Row /\ NoRow.status = "NONE"
    BY DEF NoRow, Row, NoTxn
  <1>2. TypeOK
    BY <1>1, IdleRequest, DuesPositive, SettingsKnown DEF Init, TypeOK
  <1>3. RowsHaveAmounts /\ CreditedOnce
    BY <1>1 DEF Init, RowsHaveAmounts, CreditedOnce, Credits
  <1>4. RequestsFit
    BY IdleRequest DEF Init, RequestsFit
  <1> QED
    BY <1>2, <1>3, <1>4 DEF IInv

LEMMA NextIInv == IInv /\ [Next]_vars => IInv'
  <1> SUFFICES ASSUME IInv, [Next]_vars PROVE IInv'
    OBVIOUS
  <1>1. ASSUME NEW r \in Residents, ResidentStep(r) PROVE IInv'
    <2> r \in Handlers
      BY DEF Handlers
    <2> QED
      BY <1>1, BeginSubmitSafe, FoundSafe, NotFoundSafe, ReadConfigSafe,
         ReadAccountsSafe, UploadSafe, CommitSafe, CommitFailsSafe, CleanSafe,
         AttachSafe, AttachStoreSafe, AttachLinkSafe, AttachUndoSafe, RetrySafe,
         AutoCommitSafe, NotifySafe
      DEF ResidentStep
  <1>2. ASSUME NEW a \in Admins, AdminStep(a) PROVE IInv'
    <2> a \in Handlers
      BY DEF Handlers
    <2> QED
      BY <1>2, BeginReviewSafe, CheckAccountSafe, ApproveSafe, ApproveFailsSafe,
         RejectSafe, BeginRecordSafe, CreateRecordSafe, UndoRecordSafe, NotifySafe
      DEF AdminStep
  <1>3. CASE UNCHANGED vars
    <2>1. UNCHANGED <<rows, config, stored, told, req>>
      BY <1>3 DEF vars, rows, config, money
    <2> QED
      BY <2>1, SettingsSafe DEF config, IInv, TypeOK
  <1> QED
    BY <1>1, <1>2, <1>3, AccountStepSafe, SetVerificationSafe, CrashSafe DEF Next

\* The inductive invariant holds in every reachable state, whatever the numbers
\* of residents, admins, payments, accounts and files, with faults or without.
THEOREM Invariance == Spec => []IInv
  <1> QED
    BY InitIInv, NextIInv, PTL DEF Spec

\* Every variable keeps its type: no bill below zero, no negative balance, no
\* transaction without an account of the society and an amount.
THEOREM TypeCorrect == Spec => []TypeOK
  <1>1. IInv => TypeOK
    BY DEF IInv
  <1> QED
    BY <1>1, Invariance, PTL

\* A payment is APPROVED exactly when one transaction credits it, with its
\* amount, and it links to that transaction; whichever of approve, reject,
\* auto-approval, a resumed submission, recordForFlat and a restart race.
THEOREM ApprovedIffCredited == Spec => []CreditedOnce
  <1>1. IInv => CreditedOnce
    BY DEF IInv
  <1> QED
    BY <1>1, Invariance, PTL

-----------------------------------------------------------------------------
(* Proof files.                                                            *)

\* The file a request has stored and not yet linked or removed.
Holding == {"commit", "clean", "cleanDup", "attachLink", "attachUndo"}
HeldBy(x) == IF x.pc \in Holding /\ x.file # NoFile THEN {x.file} ELSE {}
Held(h) == HeldBy(req[h])
Linked == {d.file : d \in docs}

\* A held file is stored, no document names it and no other request holds it, so removing it takes no
\* proof away; and while nothing fails there is no other file than these.
FInv ==
    /\ ProofCanBeOpened
    /\ \A h \in Handlers : Held(h) \subseteq stored /\ Held(h) \cap Linked = {}
    /\ \A h, k \in Handlers : h # k => Held(h) \cap Held(k) = {}
    /\ \A h \in Handlers : req[h].pc \notin Holding \cup {"notify"} => req[h].file = NoFile
    /\ ~Faults => stored = Linked \cup UNION {Held(h) : h \in Handlers}

\* Only one request moves.
Alone(h) == \A k \in Handlers : k # h => req'[k] = req[k]
Tidy(h) == req'[h].pc \notin Holding \cup {"notify"} => req'[h].file = NoFile

\* What a step does to the files: nothing, or its request stores one, links the one it holds, or
\* drops it, by removing it or, when a removal fails, without.
KeepsFile(h) == UNCHANGED <<docs, stored>> /\ Held(h)' = Held(h)
StoresFile(h) == /\ Held(h) = {}
                 /\ \E f \in FreshFiles : stored' = stored \cup {f} /\ Held(h)' = {f}
                 /\ UNCHANGED docs
LinksFile(h) == /\ Linked' = Linked \cup Held(h)
                /\ Held(h)' = {}
                /\ UNCHANGED stored
DropsFile(h) == /\ stored' = stored \ Held(h) \/ (Faults /\ stored' = stored)
                /\ Held(h)' = {}
                /\ UNCHANGED docs
FileStep(h) == /\ Alone(h) /\ Tidy(h)
               /\ KeepsFile(h) \/ StoresFile(h) \/ LinksFile(h) \/ DropsFile(h)

LEMMA FilesStayLinked ==
    ASSUME FInv, NEW h \in Handlers, FileStep(h)
    PROVE  FInv'
  <1>1. \A k \in Handlers : k # h => Held(k)' = Held(k) /\ req'[k] = req[k]
    BY DEF FileStep, Alone, Held, HeldBy
  <1>2. ProofCanBeOpened <=> Linked \subseteq stored
    BY DEF ProofCanBeOpened, Linked
  <1>3. ProofCanBeOpened' <=> Linked' \subseteq stored'
    BY DEF ProofCanBeOpened, Linked
  <1>4. \A k \in Handlers : req'[k].pc \notin Holding \cup {"notify"} => req'[k].file = NoFile
    BY <1>1 DEF FInv, FileStep, Tidy
  <1>5. UNCHANGED docs => Linked' = Linked
    BY DEF Linked
  <1> DEFINE Rest == UNION {Held(k) : k \in Handlers \ {h}}
  <1>6. UNION {Held(k) : k \in Handlers} = Held(h) \cup Rest
    OBVIOUS
  <1>7. (UNION {Held(k) : k \in Handlers})' = Held(h)' \cup Rest
    <2>1. Rest' = Rest
      BY <1>1
    <2>2. (UNION {Held(k) : k \in Handlers})' = Held(h)' \cup Rest'
      OBVIOUS
    <2> QED
      BY <2>1, <2>2
  <1>8. Rest \cap Held(h) = {}
    BY DEF FInv
  <1>9. CASE KeepsFile(h)
    <2>1. \A k \in Handlers : Held(k)' = Held(k)
      BY <1>1, <1>9 DEF KeepsFile
    <2>2. UNION {Held(k) : k \in Handlers}' = UNION {Held(k) : k \in Handlers}
      BY <2>1
    <2> QED
      BY <1>2, <1>3, <1>4, <1>5, <1>9, <2>1, <2>2 DEF FInv, KeepsFile
  <1>10. CASE StoresFile(h)
    <2>1. PICK f \in FreshFiles : stored' = stored \cup {f} /\ Held(h)' = {f}
      BY <1>10 DEF StoresFile
    <2>2. f \notin stored /\ f \notin Linked
      BY DEF FreshFiles, Linked
    <2>3. \A k \in Handlers : Held(k)' \subseteq stored' /\ Held(k)' \cap Linked' = {}
      BY <1>1, <1>5, <1>10, <2>1, <2>2 DEF FInv, StoresFile
    <2>4. \A j, k \in Handlers : j # k => Held(j)' \cap Held(k)' = {}
      BY <1>1, <2>1, <2>2 DEF FInv
    <2>5. ~Faults => stored' = Linked' \cup (UNION {Held(k) : k \in Handlers})'
      BY <1>5, <1>6, <1>7, <1>10, <2>1 DEF FInv, StoresFile
    <2>6. ProofCanBeOpened'
      BY <1>2, <1>3, <1>5, <1>10, <2>1 DEF FInv, StoresFile
    <2> HIDE DEF Rest
    <2> QED
      BY <1>4, <2>3, <2>4, <2>5, <2>6 DEF FInv
  <1>11. CASE LinksFile(h)
    <2>1. \A k \in Handlers : Held(k)' \subseteq stored' /\ Held(k)' \cap Linked' = {}
      BY <1>1, <1>11 DEF FInv, LinksFile
    <2>2. \A j, k \in Handlers : j # k => Held(j)' \cap Held(k)' = {}
      BY <1>1, <1>11 DEF FInv, LinksFile
    <2>3. ~Faults => stored' = Linked' \cup (UNION {Held(k) : k \in Handlers})'
      BY <1>6, <1>7, <1>11 DEF FInv, LinksFile
    <2>4. ProofCanBeOpened'
      BY <1>2, <1>3, <1>11 DEF FInv, LinksFile
    <2> HIDE DEF Rest
    <2> QED
      BY <1>4, <2>1, <2>2, <2>3, <2>4 DEF FInv
  <1>12. CASE DropsFile(h)
    <2>1. \A k \in Handlers : Held(k)' \subseteq stored' /\ Held(k)' \cap Linked' = {}
      BY <1>1, <1>5, <1>12 DEF FInv, DropsFile
    <2>2. \A j, k \in Handlers : j # k => Held(j)' \cap Held(k)' = {}
      BY <1>1, <1>12 DEF FInv, DropsFile
    <2>3. ~Faults => stored' = Linked' \cup (UNION {Held(k) : k \in Handlers})'
      <3>1. ASSUME ~Faults PROVE stored' = Linked' \cup (UNION {Held(k) : k \in Handlers})'
        <4>1. /\ stored = Linked \cup (Held(h) \cup Rest) /\ stored' = stored \ Held(h)
              /\ Held(h)' = {} /\ Linked' = Linked /\ Held(h) \cap Linked = {}
          BY <1>5, <1>6, <1>12, <3>1 DEF FInv, DropsFile
        <4> HIDE DEF Rest
        <4> QED
          BY <1>7, <1>8, <4>1
      <3> QED
        BY <3>1
    <2>4. ProofCanBeOpened'
      BY <1>2, <1>3, <1>5, <1>12 DEF FInv, DropsFile
    <2> HIDE DEF Rest
    <2> QED
      BY <1>4, <2>1, <2>2, <2>3, <2>4 DEF FInv
  <1> QED
    BY <1>9, <1>10, <1>11, <1>12 DEF FileStep

LEMMA Becomes ==
    ASSUME TypeOK, NEW h \in Handlers, NEW x, req' = [req EXCEPT ![h] = x]
    PROVE  Alone(h) /\ req'[h] = x
  BY DEF Alone, TypeOK

\* A request that goes on, or is done, keeps its file or holds none.
LEMMA TurnsAlone ==
    ASSUME TypeOK, NEW h \in Handlers, NEW l
    PROVE  /\ Done(h) => Alone(h) /\ req'[h].file = NoFile /\ req'[h].pc = "idle"
           /\ Goto(h, l) => Alone(h) /\ req'[h].file = req[h].file /\ req'[h].pc = l
  <1>1. ASSUME Done(h) PROVE Alone(h) /\ req'[h].file = NoFile /\ req'[h].pc = "idle"
    <2>1. Idle.file = NoFile /\ Idle.pc = "idle"
      BY DEF Idle
    <2> QED
      BY <1>1, <2>1, Becomes DEF Done
  <1>2. ASSUME Goto(h, l) PROVE Alone(h) /\ req'[h].file = req[h].file /\ req'[h].pc = l
    <2>1. req' = [req EXCEPT ![h] = [req[h] EXCEPT !.pc = l]]
      BY <1>2 DEF Goto, TypeOK
    <2>2. [req[h] EXCEPT !.pc = l].pc = l /\ [req[h] EXCEPT !.pc = l].file = req[h].file
      BY DEF TypeOK, Request
    <2> QED
      BY <2>1, <2>2, Becomes
  <1> QED
    BY <1>1, <1>2

LEMMA Fileless ==
    ASSUME NEW h \in Handlers, req[h].pc \notin Holding, Alone(h), req'[h].file = NoFile,
           UNCHANGED <<docs, stored>>
    PROVE  FileStep(h)
  BY DEF FileStep, KeepsFile, Held, HeldBy, Tidy

\* The steps of a request that holds no file and takes none.
LEMMA ResidentFileless ==
    ASSUME TypeOK, FInv, NEW r \in Handlers,
           \/ BeginSubmit(r) \/ Found(r) \/ NotFound(r) \/ ReadConfig(r) \/ ReadAccounts(r)
           \/ Attach(r) \/ Retry(r) \/ AutoCommit(r) \/ Notify(r)
    PROVE  FileStep(r)
  <1> USE DEF rows, config
  <1>1. CASE BeginSubmit(r)
    <2>1. req[r].pc \notin Holding /\ UNCHANGED <<docs, stored>>
      BY <1>1 DEF BeginSubmit, At, Holding
    <2>2. PICK f : req' = [req EXCEPT ![r] = [Idle EXCEPT
                     !.pc = IF f.utr = NoUtr THEN "config" ELSE "lookup",
                     !.utr = f.utr, !.bill = f.bill, !.amt = f.amt, !.proof = f.proof]]
      BY <1>1 DEF BeginSubmit
    <2> DEFINE x == [Idle EXCEPT !.pc = IF f.utr = NoUtr THEN "config" ELSE "lookup",
                     !.utr = f.utr, !.bill = f.bill, !.amt = f.amt, !.proof = f.proof]
    <2>3. req' = [req EXCEPT ![r] = x] /\ x.file = NoFile
      BY <2>2 DEF Idle
    <2>4. Alone(r) /\ req'[r].file = NoFile
      <3> HIDE DEF x
      <3> QED
        BY <2>3, Becomes
    <2> QED
      BY <2>1, <2>4, Fileless
  <1>2. CASE Notify(r)
    <2>1. req[r].pc \notin Holding /\ UNCHANGED <<docs, stored>> /\ Done(r)
      BY <1>2 DEF Notify, At, Holding
    <2> QED
      BY <2>1, TurnsAlone, Fileless
  <1>3. CASE ~BeginSubmit(r) /\ ~Notify(r)
    <2>1. /\ req[r].pc \notin Holding /\ req[r].file = NoFile /\ UNCHANGED <<docs, stored>>
      BY <1>3 DEF Found, NotFound, ReadConfig, ReadAccounts, Attach, Retry, AutoCommit, At, Holding, FInv
    <2>2. Alone(r) /\ req'[r].file = NoFile
      <3>1. CASE Found(r)
        BY <2>1, <3>1, TurnsAlone DEF Found, Alone, TypeOK, Request
      <3>2. CASE NotFound(r) \/ Attach(r) \/ Retry(r) \/ AutoCommit(r)
        BY <2>1, <3>2, TurnsAlone DEF NotFound, Attach, Retry, AutoCommit
      <3>3. CASE ReadConfig(r)
        BY <2>1, <3>3, TurnsAlone DEF ReadConfig, Alone, TypeOK, Request
      <3>4. CASE ReadAccounts(r)
        <4>1. CASE Done(r)
          BY <4>1, TurnsAlone
        <4>2. CASE ~Done(r)
          <5> DEFINE sole == Cardinality(ActiveAccounts) = 1
                     c == IF sole THEN CHOOSE y \in ActiveAccounts : TRUE ELSE NoAcct
                     auto == req[r].auto /\ sole
                     l == IF req[r].pay # NoPay THEN "autoCommit"
                          ELSE IF req[r].proof THEN "upload" ELSE "commit"
                     x == [req[r] EXCEPT !.acct = c, !.auto = auto, !.pc = l]
          <5>1. req' = [req EXCEPT ![r] = x]
            BY <3>4, <4>2 DEF ReadAccounts, TypeOK
          <5>2. x.file = req[r].file
            <6> HIDE DEF c, auto, l
            <6> QED
              BY DEF TypeOK, Request
          <5> HIDE DEF x
          <5> QED
            BY <2>1, <5>1, <5>2, Becomes
        <4> QED
          BY <4>1, <4>2
      <3> QED
        BY <1>3, <3>1, <3>2, <3>3, <3>4
    <2> QED
      BY <2>1, <2>2, Fileless
  <1> QED
    BY <1>1, <1>2, <1>3

LEMMA AdminFileless ==
    ASSUME TypeOK, FInv, NEW a \in Handlers, AdminStep(a)
    PROVE  FileStep(a)
  <1> USE DEF rows, config
  <1>1. /\ req[a].pc \notin Holding /\ UNCHANGED <<docs, stored>>
        /\ req[a].pc # "notify" => req[a].file = NoFile
    BY DEF AdminStep, BeginReview, CheckAccount, Approve, ApproveFails, Reject, BeginRecord, CreateRecord,
           UndoRecord, Notify, At, Holding, FInv
  <1>2. CASE BeginReview(a) \/ BeginRecord(a)
    <2>1. \E x : x.file = NoFile /\ req' = [req EXCEPT ![a] = x]
      <3>1. CASE BeginReview(a)
        BY <3>1 DEF BeginReview, Idle
      <3>2. CASE BeginRecord(a)
        <4>1. PICK f, c : req' = [req EXCEPT ![a] = [Idle EXCEPT !.pc = "create", !.utr = f.utr,
                        !.bill = TRUE, !.amt = f.amt, !.acct = c, !.record = TRUE]]
          BY <3>2 DEF BeginRecord
        <4> QED
          BY <4>1 DEF Idle
      <3> QED
        BY <1>2, <3>1, <3>2
    <2>2. Alone(a) /\ req'[a].file = NoFile
      BY <2>1, Becomes
    <2> QED
      BY <1>1, <2>2, Fileless
  <1>3. CASE Notify(a)
    BY <1>1, <1>3, TurnsAlone, Fileless DEF Notify
  <1>4. CASE CreateRecord(a)
    <2>1. req[a].file = NoFile
      BY <1>1, <1>4 DEF CreateRecord, At
    <2>2. Alone(a) /\ req'[a].file = NoFile
      <3>1. CASE Done(a)
        BY <3>1, TurnsAlone
      <3>2. ASSUME NEW p, req' = [req EXCEPT ![a].pay = p, ![a].pc = "approve"]
            PROVE  Alone(a) /\ req'[a].file = NoFile
        <4> DEFINE x == [req[a] EXCEPT !.pay = p, !.pc = "approve"]
        <4>1. req' = [req EXCEPT ![a] = x] /\ x.file = req[a].file
          BY <3>2 DEF TypeOK, Request
        <4> QED
          BY <2>1, <4>1, Becomes
      <3> QED
        BY <1>4, <3>1, <3>2 DEF CreateRecord
    <2> QED
      BY <1>1, <2>2, Fileless
  <1>5. CASE CheckAccount(a) \/ Approve(a) \/ ApproveFails(a) \/ Reject(a) \/ UndoRecord(a)
    <2>1. req[a].file = NoFile
      BY <1>1, <1>5 DEF CheckAccount, Approve, ApproveFails, Reject, UndoRecord, At
    <2>2. Done(a) \/ \E l : Goto(a, l)
      BY <1>5 DEF CheckAccount, Approve, ApproveFails, Fail, Reject, UndoRecord
    <2> QED
      BY <1>1, <2>1, <2>2, TurnsAlone, Fileless
  <1> QED
    BY <1>2, <1>3, <1>4, <1>5 DEF AdminStep

\* A file goes to storage: no other file has its name.
LEMMA StoringStep ==
    ASSUME TypeOK, FInv, NEW r \in Handlers, Upload(r) \/ AttachStore(r)
    PROVE  FileStep(r)
  <1> USE DEF rows
  <1>1. /\ req[r].pc \notin Holding /\ req[r].file = NoFile /\ docs' = docs /\ Held(r) = {}
    BY DEF Upload, AttachStore, At, Holding, FInv, Held, HeldBy
  <1>2. CASE stored' = stored /\ (Done(r) \/ Goto(r, "retry"))
    BY <1>1, <1>2, TurnsAlone, Fileless
  <1>3. ASSUME NEW f \in FreshFiles, NEW l \in {"commit", "attachLink"}, stored' = stored \cup {f},
               req' = [req EXCEPT ![r].file = f, ![r].pc = l]
        PROVE  FileStep(r)
    <2>1. Alone(r) /\ req'[r].file = f /\ req'[r].pc = l
      BY <1>3 DEF Alone, TypeOK, Request
    <2>2. f # NoFile
      BY Disjoint DEF FreshFiles
    <2>3. Held(r)' = {f} /\ Tidy(r)
      BY <2>1, <2>2 DEF Held, HeldBy, Tidy, Holding
    <2> QED
      BY <1>1, <1>3, <2>1, <2>3 DEF FileStep, StoresFile
  <1> QED
    BY <1>2, <1>3 DEF Upload, AttachStore

\* The rows that link a file link the one the request holds.
LEMMA LinkedByRow ==
    ASSUME NEW h \in Handlers, req[h].pc \in Holding, NEW p, docs' = docs \cup ProofRow(h, p)
    PROVE  Linked' = Linked \cup Held(h)
  <1>1. {d.file : d \in ProofRow(h, p)} = Held(h)
    <2>1. CASE req[h].file = NoFile
      BY <2>1 DEF ProofRow, Held, HeldBy
    <2>2. CASE req[h].file # NoFile
      <3>1. Held(h) = {req[h].file} /\ ProofRow(h, p) = {[pay |-> p, file |-> req[h].file]}
        BY <2>2 DEF ProofRow, Held, HeldBy
      <3>2. {d.file : d \in {[pay |-> p, file |-> req[h].file]}} = {req[h].file}
        OBVIOUS
      <3> QED
        BY <3>1, <3>2
    <2> QED
      BY <2>1, <2>2
  <1>2. {d.file : d \in docs \cup ProofRow(h, p)} = {d.file : d \in docs} \cup {d.file : d \in ProofRow(h, p)}
    OBVIOUS
  <1> QED
    BY <1>1, <1>2 DEF Linked

LEMMA LinkingStep ==
    ASSUME TypeOK, FInv, NEW r \in Handlers, Commit(r) \/ AttachLink(r)
    PROVE  FileStep(r)
  <1>1. req[r].pc \in Holding /\ stored' = stored
    BY DEF Commit, AttachLink, At, Holding
  <1>2. CASE Commit(r)
    <2>1. PICK p : docs' = docs \cup ProofRow(r, p)
                   /\ (Done(r) \/ req' = [req EXCEPT ![r].pc = "notify", ![r].pay = p])
      BY <1>2 DEF Commit
    <2>2. Alone(r) /\ (req'[r].pc = "notify" \/ (req'[r].pc = "idle" /\ req'[r].file = NoFile))
      BY <2>1, TurnsAlone DEF Alone, TypeOK, Request
    <2>3. Held(r)' = {} /\ Tidy(r)
      BY <2>2 DEF Held, HeldBy, Tidy, Holding
    <2> QED
      BY <1>1, <2>1, <2>2, <2>3, LinkedByRow DEF FileStep, LinksFile
  <1>3. CASE AttachLink(r) /\ docs' = docs \cup ProofRow(r, req[r].pay)
             /\ req' = [req EXCEPT ![r].pc = "retry", ![r].file = NoFile]
    <2>1. Alone(r) /\ req'[r].pc = "retry" /\ req'[r].file = NoFile
      BY <1>3 DEF Alone, TypeOK, Request
    <2>2. Held(r)' = {} /\ Tidy(r)
      BY <2>1 DEF Held, HeldBy, Tidy, Holding
    <2> QED
      BY <1>1, <1>3, <2>1, <2>2, LinkedByRow DEF FileStep, LinksFile
  <1>4. CASE AttachLink(r) /\ Goto(r, "attachUndo") /\ docs' = docs
    <2>1. Alone(r) /\ req'[r].pc = "attachUndo" /\ req'[r].file = req[r].file
      BY <1>4, TurnsAlone
    <2> QED
      BY <1>1, <1>4, <2>1 DEF FileStep, KeepsFile, Held, HeldBy, Tidy, Holding
  <1> QED
    BY <1>2, <1>3, <1>4 DEF AttachLink

LEMMA DroppingStep ==
    ASSUME TypeOK, FInv, NEW r \in Handlers, CommitFails(r) \/ Clean(r) \/ AttachUndo(r)
    PROVE  FileStep(r)
  <1> USE DEF rows
  <1>1. req[r].pc \in Holding /\ docs' = docs
    BY DEF CommitFails, Clean, AttachUndo, At, Holding
  <1>2. CASE CommitFails(r)
    <2>1. PICK l \in {"cleanDup", "clean"} : Goto(r, l)
      BY <1>2 DEF CommitFails
    <2>2. Alone(r) /\ req'[r].pc = l /\ req'[r].file = req[r].file /\ stored' = stored
      BY <1>2, <2>1, TurnsAlone DEF CommitFails
    <2> QED
      BY <1>1, <2>2 DEF FileStep, KeepsFile, Held, HeldBy, Tidy, Holding
  <1>3. CASE Clean(r) \/ AttachUndo(r)
    <2>1. \/ Done(r)
          \/ \E l \in {"relookup", "retry"} : req' = [req EXCEPT ![r].pc = l, ![r].file = NoFile]
      BY <1>3 DEF Clean, AttachUndo
    <2>2. Alone(r) /\ req'[r].file = NoFile
      BY <2>1, TurnsAlone DEF Alone, TypeOK, Request
    <2>3. Held(r)' = {} /\ Tidy(r)
      BY <2>2 DEF Held, HeldBy, Tidy
    <2>4. NoFile \notin stored
      BY Disjoint DEF TypeOK
    <2>5. stored' = stored \ Held(r) \/ (Faults /\ stored' = stored)
      BY <1>1, <1>3, <2>4 DEF Clean, AttachUndo, RemoveFile, Held, HeldBy
    <2> QED
      BY <1>1, <2>2, <2>3, <2>5 DEF FileStep, DropsFile
  <1> QED
    BY <1>2, <1>3

\* A crash forgets what requests held; their files stay.
LEMMA CrashLeavesFiles == ASSUME FInv, Crash PROVE FInv'
  <1>1. Faults /\ UNCHANGED <<docs, stored>>
    BY DEF Crash, rows
  <1>2. \A h \in Handlers : Held(h)' = {} /\ req'[h].file = NoFile
    BY DEF Crash, Held, HeldBy, Idle
  <1> QED
    BY <1>1, <1>2 DEF FInv, ProofCanBeOpened, Linked

LEMMA FilesUnmoved == ASSUME FInv, UNCHANGED <<docs, stored, req>> PROVE FInv'
  BY DEF FInv, ProofCanBeOpened, Linked, Held

LEMMA InitFInv == Init => FInv
  <1> SUFFICES ASSUME Init PROVE FInv
    OBVIOUS
  <1>1. \A h \in Handlers : Held(h) = {} /\ req[h].file = NoFile
    BY DEF Init, Held, HeldBy, Idle
  <1>2. docs = {} /\ stored = {} /\ Linked = {}
    BY DEF Init, Linked
  <1> QED
    BY <1>1, <1>2 DEF FInv, ProofCanBeOpened

LEMMA NextFInv == TypeOK /\ FInv /\ [Next]_vars => FInv'
  <1> SUFFICES ASSUME TypeOK, FInv, [Next]_vars PROVE FInv'
    OBVIOUS
  <1>1. ASSUME NEW r \in Residents, ResidentStep(r) PROVE FInv'
    <2>1. r \in Handlers
      BY DEF Handlers
    <2>2. FileStep(r)
      BY <1>1, <2>1, ResidentFileless, StoringStep, LinkingStep, DroppingStep DEF ResidentStep
    <2> QED
      BY <2>1, <2>2, FilesStayLinked
  <1>2. ASSUME NEW a \in Admins, AdminStep(a) PROVE FInv'
    BY <1>2, AdminFileless, FilesStayLinked DEF Handlers
  <1>3. CASE UNCHANGED vars \/ SetVerification \/ \E c \in Accounts : AccountStep(c)
    <2>1. UNCHANGED <<docs, stored, req>>
      BY <1>3 DEF vars, SetVerification, AccountStep, CreateAccount, RemoveAccount, UpdateAccount, rows
    <2> QED
      BY <2>1, FilesUnmoved
  <1> QED
    BY <1>1, <1>2, <1>3, CrashLeavesFiles DEF Next

\* Every proof file a payment names is in storage: no clean-up of a lost race, a failed link or a
\* crashed request removes a file that became some payment's proof.
THEOREM ProofsOpen == Spec => []ProofCanBeOpened
  <1>1. FInv => ProofCanBeOpened
    BY DEF FInv
  <1>2. Spec => []FInv
    BY InitFInv, NextFInv, TypeCorrect, PTL DEF Spec
  <1> QED
    BY <1>1, <1>2, PTL

\* While nothing fails, a quiet flow has no stored file that is no payment's proof.
THEOREM NoFileLeftBehind == Spec => []NoOrphanFile
  <1>1. FInv => NoOrphanFile
    <2> SUFFICES ASSUME FInv, ~Faults, \A h \in Handlers : At(h, "idle") PROVE stored = Linked
      BY DEF NoOrphanFile, Linked
    <2>1. \A h \in Handlers : Held(h) = {}
      BY DEF At, Held, HeldBy, Holding
    <2> QED
      BY <2>1 DEF FInv
  <1>2. Spec => []FInv
    BY InitFInv, NextFInv, TypeCorrect, PTL DEF Spec
  <1> QED
    BY <1>1, <1>2, PTL
=============================================================================
