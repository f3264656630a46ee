---------------------------- MODULE PaymentFlow ----------------------------
(***************************************************************************)
(* The life of the payments of one flat: App/src/payments.                 *)
(*                                                                         *)
(* A resident submits a payment (and submits it again when the answer is   *)
(* lost), an admin approves or rejects it, or an admin records a payment   *)
(* on the flat's behalf.  Each HTTP request is a process: what it reads    *)
(* before a database transaction is a step of its own, the transaction is  *)
(* one step, and file storage (SFTP) and notifications are steps outside   *)
(* it.  Two requests interleave at every await between them.               *)
(*                                                                         *)
(* The flat's bills are abstracted to one published bill of Dues, of which *)
(* "pending" is still owed: how a payment is shared between months is the  *)
(* subject of FlatLedger.                                                  *)
(***************************************************************************)
EXTENDS Integers, FiniteSets, Summation

CONSTANTS
    Residents,      \* request handlers that serve the flat's residents
    Admins,         \* request handlers that serve admins and accountants
    Payments,       \* payment ids; each create takes a fresh one (a bound)
    Utrs,           \* bank transaction references a payer may type
    NoUtr,          \* a cash or cheque payment carries none
    Accounts,       \* the society's bank and cash accounts
    NoAcct,
    Files,          \* names of stored proof files (a bound)
    NoFile,
    NoPay,
    Amounts,        \* amounts a payer may type
    Forms,          \* what a resident may submit, again and again
    RecordForms,    \* what an admin may record
    Dues,           \* what the flat's bill comes to
    AdminOps,       \* which admin requests occur
    VerifySettings, \* values "payment verification required" may take
    Faults          \* whether the server dies and clean-ups fail

AllAdminOps == {"approve", "reject", "record", "accounts"}

ASSUME DuesPositive == Dues \in Nat \ {0}
ASSUME AmountsPositive == Amounts \subseteq Nat \ {0}
ASSUME FormsTyped ==
    Forms \cup RecordForms
        \subseteq [utr : Utrs \cup {NoUtr}, bill : BOOLEAN, amt : Amounts, proof : BOOLEAN]
ASSUME Disjoint == /\ Residents \cap Admins = {}
                   /\ NoUtr \notin Utrs
                   /\ NoAcct \notin Accounts
                   /\ NoFile \notin Files
                   /\ NoPay \notin Payments
ASSUME OpsKnown == AdminOps \subseteq AllAdminOps
ASSUME SettingsKnown == VerifySettings \subseteq BOOLEAN /\ Faults \in BOOLEAN

VARIABLES
    pay,        \* payment_submissions, by id
    ledger,     \* transactions: the credits written for payments
    nextTxn,    \* the id the next transaction row gets
    balance,    \* accounts.currentBalance
    acct,       \* accounts: absent (not created yet), active, off the lists
                \* (isActive false) or deleted
    pending,    \* what the flat still owes on its bill
    credit,     \* flats.creditBalance: what it has paid ahead
    verify,     \* society_configurations.paymentVerificationRequired
    docs,       \* documents rows that point a payment at its proof file
    stored,     \* files present in storage
    told,       \* how often the payer of a payment was told it was decided
    req         \* the request each handler is working on

money == <<ledger, nextTxn, balance, pending, credit>>
vars == <<pay, ledger, nextTxn, balance, acct, pending, credit, verify, docs,
          stored, told, req>>

Handlers == Residents \cup Admins
NoTxn == 0
MaxAdvanceMonths == 12

Row == [status : {"NONE", "PENDING", "APPROVED", "REJECTED", "DELETED"},
        utr : Utrs \cup {NoUtr}, bill : BOOLEAN, amt : Amounts \cup {0},
        txn : Nat, recorded : BOOLEAN]
NoRow == [status |-> "NONE", utr |-> NoUtr, bill |-> FALSE, amt |-> 0,
          txn |-> NoTxn, recorded |-> FALSE]

Labels == {"idle", "lookup", "config", "accounts", "upload", "commit",
           "clean", "cleanDup", "relookup", "attach", "attachStore",
           "attachLink", "attachUndo", "retry", "autoCommit", "notify",
           "approve", "credit", "reject", "create", "undo"}

Request == [pc : Labels, utr : Utrs \cup {NoUtr}, bill : BOOLEAN,
            amt : Amounts \cup {0}, proof : BOOLEAN,
            pay : Payments \cup {NoPay}, acct : Accounts \cup {NoAcct},
            file : Files \cup {NoFile}, auto : BOOLEAN, record : BOOLEAN]
Idle == [pc |-> "idle", utr |-> NoUtr, bill |-> FALSE, amt |-> 0,
         proof |-> FALSE, pay |-> NoPay, acct |-> NoAcct, file |-> NoFile,
         auto |-> FALSE, record |-> FALSE]

LedgerRow == [id : Nat, pay : Payments, acct : Accounts, amt : Amounts,
              utr : Utrs \cup {NoUtr}]

TypeOK ==
    /\ pay \in [Payments -> Row]
    /\ ledger \subseteq LedgerRow
    /\ nextTxn \in Nat \ {0}
    /\ balance \in [Accounts -> Nat]
    /\ acct \in [Accounts -> {"absent", "active", "inactive", "deleted"}]
    /\ pending \in 0 .. Dues
    /\ credit \in Nat
    /\ verify \in BOOLEAN
    /\ docs \subseteq [pay : Payments, file : Files]
    /\ stored \subseteq Files
    /\ told \in [Payments -> Nat]
    /\ req \in [Handlers -> Request]

Init ==
    /\ pay = [p \in Payments |-> NoRow]
    /\ ledger = {}
    /\ nextTxn = 1
    /\ balance = [a \in Accounts |-> 0]
    /\ acct \in [Accounts -> {"absent", "active"}]
    /\ pending = Dues
    /\ credit = 0
    /\ verify \in VerifySettings
    /\ docs = {}
    /\ stored = {}
    /\ told = [p \in Payments |-> 0]
    /\ req = [h \in Handlers |-> Idle]

-----------------------------------------------------------------------------
(* Rows and requests.                                                      *)

Live(p) == pay[p].status \notin {"NONE", "DELETED"}
Fresh == {p \in Payments : pay[p].status = "NONE"}
Open(p) == pay[p].status = "PENDING"
Decided(p) == pay[p].status \in {"APPROVED", "REJECTED"}

\* (Variant with a seeded fault: decided payments are not looked at.)
OpenWithUtr(u) == IF u = NoUtr THEN {} ELSE {p \in Payments : Open(p) /\ pay[p].utr = u}

\* The rows the unique index (flatId, utrNumber) sees: a null reference is
\* never equal to another.
WithUtr(u) == IF u = NoUtr THEN {} ELSE {p \in Payments : Live(p) /\ pay[p].utr = u}

Exists(c) == acct[c] \in {"active", "inactive"}
ActiveAccounts == {a \in Accounts : acct[a] = "active"}
FreshFiles == Files \ (stored \cup {d.file : d \in docs})
ProofOf(p) == {d \in docs : d.pay = p}

\* outstandingForFlat plus a year of the bill: above it an amount is refused.
Ceiling == pending + MaxAdvanceMonths * Dues

At(h, label) == req[h].pc = label
Goto(h, label) == req' = [req EXCEPT ![h].pc = label]
Done(h) == req' = [req EXCEPT ![h] = Idle]

-----------------------------------------------------------------------------
(* The money a decision moves.                                             *)

\* (Variant with a seeded fault: what is paid beyond the dues is lost.)
SettleLosesExcess(amt) ==
    /\ pending' = IF amt < pending THEN pending - amt ELSE 0
    /\ UNCHANGED credit

\* (Variant with a seeded fault: the bill goes below zero.)
SettleOverdraws(amt) == pending' = pending - amt /\ UNCHANGED credit

\* settleOldestFirst, on the abstraction of one bill: what is owed is settled
\* and the rest of the payment becomes the flat's advance credit.
Settle(amt) ==
    LET take == IF amt < pending THEN amt ELSE pending
    IN  /\ pending' = pending - take
        /\ credit' = credit + (amt - take)

\* (Variant with a seeded fault: the ledger is written, the balance is not.)
CreditWithoutBalance(p, row, a) ==
    /\ pay' = [pay EXCEPT ![p] = [row EXCEPT !.status = "APPROVED",
                                             !.txn = nextTxn]]
    /\ ledger' = ledger \cup {[id |-> nextTxn, pay |-> p, acct |-> a,
                               amt |-> row.amt, utr |-> row.utr]}
    /\ nextTxn' = nextTxn + 1
    /\ UNCHANGED balance
    /\ IF row.bill THEN Settle(row.amt) ELSE UNCHANGED <<pending, credit>>

\* The claim, the account credit, the transaction row, the settlement and the
\* link back to the payment: one database transaction.
CreditAndApprove(p, row, a) ==
    /\ pay' = [pay EXCEPT ![p] = [row EXCEPT !.status = "APPROVED",
                                             !.txn = nextTxn]]
    /\ ledger' = ledger \cup {[id |-> nextTxn, pay |-> p, acct |-> a,
                               amt |-> row.amt, utr |-> row.utr]}
    /\ nextTxn' = nextTxn + 1
    /\ balance' = [balance EXCEPT ![a] = @ + row.amt]
    /\ IF row.bill THEN Settle(row.amt) ELSE UNCHANGED <<pending, credit>>

NewRow(h) == [status |-> "PENDING", utr |-> req[h].utr, bill |-> req[h].bill,
              amt |-> req[h].amt, txn |-> NoTxn, recorded |-> req[h].record]

\* storage.remove never throws: it removes the file, or leaves it and logs.
RemoveFile(f) == \/ stored' = stored \ {f}
                 \/ Faults /\ stored' = stored

-----------------------------------------------------------------------------
(* POST /payments: submit, by a resident of the flat.                      *)

rows == <<pay, money, docs>>
config == <<acct, verify>>

BeginSubmit(r) ==
    /\ At(r, "idle")
    /\ \E f \in Forms :
          req' = [req EXCEPT ![r] = [Idle EXCEPT
                     !.pc = IF f.utr = NoUtr THEN "config" ELSE "lookup",
                     !.utr = f.utr, !.bill = f.bill, !.amt = f.amt,
                     !.proof = f.proof]]
    /\ UNCHANGED <<rows, config, stored, told>>

\* The idempotency lookup by (flat, UTR), before the create and again after the
\* create lost to the unique index.  A decided payment is returned as it is, an
\* open one is resumed.
Found(r) ==
    /\ req[r].pc \in {"lookup", "relookup"}
    /\ \E p \in WithUtr(req[r].utr) :
          IF Decided(p) THEN Done(r)
          ELSE req' = [req EXCEPT ![r].pay = p,
                          ![r].pc = IF req[r].proof THEN "attach" ELSE "retry"]
    /\ UNCHANGED <<rows, config, stored, told>>

NotFound(r) ==
    /\ req[r].pc \in {"lookup", "relookup"}
    /\ WithUtr(req[r].utr) = {}
    /\ IF At(r, "lookup") THEN Goto(r, "config") ELSE Done(r)
    /\ UNCHANGED <<rows, config, stored, told>>

\* The amount is refused above the ceiling; then the verification setting is
\* read.  Auto-approval needs a UTR, a bill and exactly one active account.
ReadConfig(r) ==
    /\ At(r, "config")
    /\ IF req[r].bill /\ req[r].amt > Ceiling THEN Done(r)
       ELSE req' = [req EXCEPT ![r].pc = "accounts",
                       ![r].auto = ~verify /\ req[r].utr # NoUtr /\ req[r].bill]
    /\ UNCHANGED <<rows, config, stored, told>>

\* Both the first attempt and a resumed one pick the account the money would go
\* to; a resumed one has nothing left to do without it.
ReadAccounts(r) ==
    /\ At(r, "accounts")
    /\ LET resumed == req[r].pay # NoPay
           sole    == Cardinality(ActiveAccounts) = 1
           a       == IF sole THEN CHOOSE x \in ActiveAccounts : TRUE ELSE NoAcct
       IN  IF resumed /\ ~sole THEN Done(r)
           ELSE req' = [req EXCEPT ![r].acct = a,
                           ![r].auto = @ /\ sole,
                           ![r].pc = IF resumed THEN "autoCommit"
                                     ELSE IF req[r].proof THEN "upload"
                                     ELSE "commit"]
    /\ UNCHANGED <<rows, config, stored, told>>

\* The proof goes to storage before the row that will name it exists.
Upload(r) ==
    /\ At(r, "upload")
    /\ \/ \E f \in FreshFiles :
             /\ stored' = stored \cup {f}
             /\ req' = [req EXCEPT ![r].file = f, ![r].pc = "commit"]
       \/ Done(r) /\ UNCHANGED stored
    /\ UNCHANGED <<rows, config, told>>

ProofRow(h, p) == IF req[h].file = NoFile THEN {}
                  ELSE {[pay |-> p, file |-> req[h].file]}

\* The transaction: the payment row, the document row and, when it qualifies,
\* the approval, all or nothing.
Commit(r) ==
    /\ At(r, "commit")
    /\ WithUtr(req[r].utr) = {}
    /\ req[r].auto => Exists(req[r].acct)
    /\ \E p \in Fresh :
          /\ IF req[r].auto
             THEN /\ CreditAndApprove(p, NewRow(r), req[r].acct)
                  /\ req' = [req EXCEPT ![r].pc = "notify", ![r].pay = p]
             ELSE /\ pay' = [pay EXCEPT ![p] = NewRow(r)]
                  /\ Done(r)
                  /\ UNCHANGED money
          /\ docs' = docs \cup ProofRow(r, p)
    /\ UNCHANGED <<config, stored, told>>

\* (Variant with a seeded fault: the loser of the race keeps its file.)
CommitFailsKeepsFile(r) ==
    /\ At(r, "commit")
    /\ IF WithUtr(req[r].utr) # {} THEN Goto(r, "relookup") ELSE Goto(r, "clean")
    /\ UNCHANGED <<rows, config, stored, told>>

\* The unique index, or any other error: nothing was written and the file, if
\* there is one, is removed before the error is looked at.
CommitFails(r) ==
    /\ At(r, "commit")
    /\ IF WithUtr(req[r].utr) # {} THEN Goto(r, "cleanDup") ELSE Goto(r, "clean")
    /\ UNCHANGED <<rows, config, stored, told>>

Clean(r) ==
    /\ req[r].pc \in {"clean", "cleanDup"}
    /\ IF req[r].file = NoFile THEN UNCHANGED stored
       ELSE RemoveFile(req[r].file)
    /\ IF At(r, "clean") THEN Done(r)
       ELSE req' = [req EXCEPT ![r].pc = "relookup", ![r].file = NoFile]
    /\ UNCHANGED <<rows, config, told>>

-----------------------------------------------------------------------------
(* Resuming a payment a resubmission found still open.                     *)

\* attachProofIfMissing: nothing to do once some document names the payment.
Attach(r) ==
    /\ At(r, "attach")
    /\ Goto(r, IF ProofOf(req[r].pay) # {} THEN "retry" ELSE "attachStore")
    /\ UNCHANGED <<rows, config, stored, told>>

AttachStore(r) ==
    /\ At(r, "attachStore")
    /\ \/ \E f \in FreshFiles :
             /\ stored' = stored \cup {f}
             /\ req' = [req EXCEPT ![r].file = f, ![r].pc = "attachLink"]
       \/ Goto(r, "retry") /\ UNCHANGED stored
    /\ UNCHANGED <<rows, config, told>>

\* (Variant with a seeded fault: the clean-up runs after success as well.)
AttachLinkAlwaysUndone(r) ==
    /\ At(r, "attachLink")
    /\ docs' \in {docs, docs \cup ProofRow(r, req[r].pay)}
    /\ Goto(r, "attachUndo")
    /\ UNCHANGED <<pay, money, config, stored, told>>

\* The document row connects to the payment row, which may be gone by now.
AttachLink(r) ==
    /\ At(r, "attachLink")
    /\ \/ /\ Live(req[r].pay)
          /\ docs' = docs \cup ProofRow(r, req[r].pay)
          /\ req' = [req EXCEPT ![r].pc = "retry", ![r].file = NoFile]
       \/ /\ Goto(r, "attachUndo")
          /\ UNCHANGED docs
    /\ UNCHANGED <<pay, money, config, stored, told>>

AttachUndo(r) ==
    /\ At(r, "attachUndo")
    /\ RemoveFile(req[r].file)
    /\ req' = [req EXCEPT ![r].pc = "retry", ![r].file = NoFile]
    /\ UNCHANGED <<rows, config, told>>

\* tryAutoApproveExisting: the setting of now, not of the first attempt.
Retry(r) ==
    /\ At(r, "retry")
    /\ IF pay[req[r].pay].bill /\ ~verify THEN Goto(r, "accounts") ELSE Done(r)
    /\ UNCHANGED <<rows, config, stored, told>>

\* (Variant with a seeded fault: no claim, the status read earlier is trusted.)
AutoCommitUnclaimed(r) ==
    /\ At(r, "autoCommit")
    /\ \/ /\ pending > 0
          /\ Exists(req[r].acct)
          /\ CreditAndApprove(req[r].pay, pay[req[r].pay], req[r].acct)
          /\ Goto(r, "notify")
       \/ /\ Done(r)
          /\ UNCHANGED <<pay, money>>
    /\ UNCHANGED <<docs, config, stored, told>>

\* The claim: the payment must still be open and linked to no transaction.
AutoCommit(r) ==
    /\ At(r, "autoCommit")
    /\ LET p == req[r].pay
           claimed == /\ pending > 0
                      /\ Open(p)
                      /\ pay[p].txn = NoTxn
                      /\ Exists(req[r].acct)
       IN  \/ /\ claimed
              /\ CreditAndApprove(p, pay[p], req[r].acct)
              /\ Goto(r, "notify")
           \/ /\ Done(r)
              /\ UNCHANGED <<pay, money>>
    /\ UNCHANGED <<docs, config, stored, told>>

\* (Variant with a seeded fault: a notification that fails is an error of the
\* request, which takes a recorded payment back.)
NotifyLoudly(h) ==
    /\ At(h, "notify")
    /\ \/ /\ told' = [told EXCEPT ![req[h].pay] = @ + 1]
          /\ Done(h)
       \/ /\ req[h].record
          /\ Goto(h, "undo")
          /\ UNCHANGED told
    /\ UNCHANGED <<rows, config, stored>>

\* notifyQuietly: the payer is told after the commit, or is not.
Notify(h) ==
    /\ At(h, "notify")
    /\ \/ told' = [told EXCEPT ![req[h].pay] = @ + 1]
       \/ Faults /\ told' = told
    /\ Done(h)
    /\ UNCHANGED <<rows, config, stored>>

-----------------------------------------------------------------------------
(* Admins: approve, reject, record.                                        *)

\* findOne only needs the payment to exist: the list the admin looks at may be
\* old, and the status is looked at inside the transaction.
BeginReview(a) ==
    /\ At(a, "idle")
    /\ \E p \in Payments :
          /\ Live(p)
          /\ \/ /\ "approve" \in AdminOps
                /\ \E c \in Accounts :
                      req' = [req EXCEPT ![a] = [Idle EXCEPT !.pc = "approve",
                                                    !.pay = p, !.acct = c]]
             \/ /\ "reject" \in AdminOps
                /\ req' = [req EXCEPT ![a] = [Idle EXCEPT !.pc = "reject", !.pay = p]]
    /\ UNCHANGED <<rows, config, stored, told>>

\* (Variant with a seeded fault: the row is left as it is.)
FailLeavesRow(h) == Done(h)

\* An approval that fails reports the error; one made for recordForFlat first
\* deletes the row it was for.
Fail(h) == IF req[h].record THEN Goto(h, "undo") ELSE Done(h)

\* The check that the account is active and the update of its row are two
\* statements, and no lock keeps the account active between them.  (The claim on
\* the payment comes before both, but what an open transaction has claimed
\* shows nowhere until it commits, so the claim stands in Approve.)
CheckAccount(a) ==
    /\ At(a, "approve")
    /\ IF acct[req[a].acct] = "active" THEN Goto(a, "credit") ELSE Fail(a)
    /\ UNCHANGED <<rows, config, stored, told>>

\* (Variant with a seeded fault: no claim on the status.)
ApproveUnclaimed(a) ==
    /\ At(a, "credit")
    /\ Live(req[a].pay)
    /\ Exists(req[a].acct)
    /\ CreditAndApprove(req[a].pay, pay[req[a].pay], req[a].acct)
    /\ Goto(a, "notify")
    /\ UNCHANGED <<docs, config, stored, told>>

\* The claim and the money, in one transaction.
Approve(a) ==
    /\ At(a, "credit")
    /\ Open(req[a].pay)
    /\ Exists(req[a].acct)
    /\ CreditAndApprove(req[a].pay, pay[req[a].pay], req[a].acct)
    /\ Goto(a, "notify")
    /\ UNCHANGED <<docs, config, stored, told>>

\* Not in a reviewable state, or the database refused.
ApproveFails(a) ==
    /\ At(a, "credit")
    /\ Fail(a)
    /\ UNCHANGED <<rows, config, stored, told>>

\* (Variant with a seeded fault: no claim on the status.)
RejectUnclaimed(a) ==
    /\ At(a, "reject")
    /\ pay' = [pay EXCEPT ![req[a].pay].status = "REJECTED"]
    /\ Goto(a, "notify")
    /\ UNCHANGED <<money, docs, config, stored, told>>

\* The claim, with the reason for the payer.
Reject(a) ==
    /\ At(a, "reject")
    /\ \/ /\ Open(req[a].pay)
          /\ pay' = [pay EXCEPT ![req[a].pay].status = "REJECTED"]
          /\ Goto(a, "notify")
       \/ /\ Done(a)
          /\ UNCHANGED pay
    /\ UNCHANGED <<money, docs, config, stored, told>>

\* recordForFlat: the checks, the row, the approval, and on an error the row
\* is deleted.
BeginRecord(a) ==
    /\ At(a, "idle")
    /\ "record" \in AdminOps
    /\ pending > 0
    /\ \E f \in RecordForms, c \in ActiveAccounts :
          /\ f.amt <= Ceiling
          /\ WithUtr(f.utr) = {}
          /\ req' = [req EXCEPT ![a] = [Idle EXCEPT !.pc = "create", !.utr = f.utr,
                        !.bill = TRUE, !.amt = f.amt, !.acct = c, !.record = TRUE]]
    /\ UNCHANGED <<rows, config, stored, told>>

CreateRecord(a) ==
    /\ At(a, "create")
    /\ \/ /\ WithUtr(req[a].utr) = {}
          /\ \E p \in Fresh :
                /\ pay' = [pay EXCEPT ![p] = NewRow(a)]
                /\ req' = [req EXCEPT ![a].pay = p, ![a].pc = "approve"]
       \/ /\ Done(a)
          /\ UNCHANGED pay
    /\ UNCHANGED <<money, docs, config, stored, told>>

\* The delete looks at nothing but the id, and its own failure is swallowed.
UndoRecord(a) ==
    /\ At(a, "undo")
    /\ \/ pay' = [pay EXCEPT ![req[a].pay].status = "DELETED"]
       \/ Faults /\ UNCHANGED pay
    /\ Done(a)
    /\ UNCHANGED <<money, docs, config, stored, told>>

-----------------------------------------------------------------------------
(* Settings and accounts, and the server itself.                           *)

SetVerification ==
    /\ verify' \in VerifySettings \ {verify}
    /\ UNCHANGED <<rows, acct, stored, told, req>>

CreateAccount(c) ==
    /\ "accounts" \in AdminOps
    /\ acct[c] = "absent"
    /\ acct' = [acct EXCEPT ![c] = "active"]
    /\ UNCHANGED <<rows, verify, stored, told, req>>

\* An account some transaction names is only taken off the lists.
RemoveAccount(c) ==
    /\ "accounts" \in AdminOps
    /\ Exists(c)
    /\ acct' = [acct EXCEPT ![c] = IF \E l \in ledger : l.acct = c
                                   THEN "inactive" ELSE "deleted"]
    /\ UNCHANGED <<rows, verify, stored, told, req>>

\* Editing an account makes it active, whatever it was.
UpdateAccount(c) ==
    /\ "accounts" \in AdminOps
    /\ acct[c] = "inactive"
    /\ acct' = [acct EXCEPT ![c] = "active"]
    /\ UNCHANGED <<rows, verify, stored, told, req>>

\* The API process dies: open transactions roll back, requests are lost.
Crash ==
    /\ Faults
    /\ \E h \in Handlers : ~At(h, "idle")
    /\ req' = [h \in Handlers |-> Idle]
    /\ UNCHANGED <<rows, config, stored, told>>

ResidentStep(r) ==
    \/ BeginSubmit(r) \/ Found(r) \/ NotFound(r) \/ ReadConfig(r)
    \/ ReadAccounts(r) \/ Upload(r) \/ Commit(r) \/ CommitFails(r) \/ Clean(r)
    \/ Attach(r) \/ AttachStore(r) \/ AttachLink(r) \/ AttachUndo(r)
    \/ Retry(r) \/ AutoCommit(r) \/ Notify(r)

AdminStep(a) ==
    \/ BeginReview(a) \/ CheckAccount(a) \/ Approve(a) \/ ApproveFails(a)
    \/ Reject(a) \/ BeginRecord(a) \/ CreateRecord(a) \/ UndoRecord(a)
    \/ Notify(a)

AccountStep(c) == CreateAccount(c) \/ RemoveAccount(c) \/ UpdateAccount(c)

Next ==
    \/ \E r \in Residents : ResidentStep(r)
    \/ \E a \in Admins : AdminStep(a)
    \/ \E c \in Accounts : AccountStep(c)
    \/ SetVerification
    \/ Crash

Spec == Init /\ [][Next]_vars

-----------------------------------------------------------------------------
(* What the flow promises.                                                 *)

Credits(p) == {l \in ledger : l.pay = p}

\* A payment is APPROVED exactly when one transaction credits it, with its
\* amount, and it links to that transaction: no interleaving of approve,
\* auto-approve, a resumed submission and a restart leaves one without the
\* other or writes two (payments.service.ts, "no window where an APPROVED
\* payment exists without the money having actually moved").
CreditedOnce ==
    \A p \in Payments :
        IF pay[p].status = "APPROVED"
        THEN \E l \in ledger : /\ Credits(p) = {l}
                               /\ l.id = pay[p].txn
                               /\ l.amt = pay[p].amt
        ELSE pay[p].status # "DELETED" => Credits(p) = {}

\* A bank reference is credited to the books once, however often the payer
\* submits it and whoever else records it.
OneCreditPerUtr ==
    \A k, l \in ledger : k.utr = l.utr /\ k.utr # NoUtr => k = l

\* What came in for the flat's bill is what its bill lost plus what it is ahead.
MoneyAccountedFor ==
    Dues - pending + credit =
        SumOver([l \in {k \in ledger : pay[k.pay].bill} |-> l.amt])

\* An account holds what its transactions say it received.
BalanceMatchesLedger ==
    \A c \in Accounts :
        balance[c] = SumOver([l \in {k \in ledger : k.acct = c} |-> l.amt])

\* A row recordForFlat takes back had settled nothing ("Nothing was settled
\* (approve is one transaction)").
TakenBackUnsettled ==
    \A p \in Payments : pay[p].status = "DELETED" => Credits(p) = {}

\* A row recordForFlat could not approve does not linger for others to see,
\* unless the server died or the delete itself failed.
NoHalfMadeRow ==
    (~Faults /\ \A a \in Admins : At(a, "idle"))
        => \A p \in Payments : pay[p].recorded => ~Open(p)

\* Every proof a payment names can be opened.
ProofCanBeOpened == \A d \in docs : d.file \in stored

\* When nothing is in progress and no clean-up failed, every stored file is
\* some payment's proof: the losers of races leave none behind.
NoOrphanFile ==
    (~Faults /\ \A h \in Handlers : At(h, "idle"))
        => stored = {d.file : d \in docs}

\* A payer hears at most once that a payment was decided, and only of a
\* decision that stands in the books.
ToldOfDecision ==
    \A p \in Payments : /\ told[p] <= 1
                        /\ told[p] > 0 => Decided(p)

\* To the books, the flow is PaymentBook.
Book == INSTANCE PaymentBook WITH
            status <- [p \in Payments |-> pay[p].status],
            entries <- [p \in Payments |-> {l.id : l \in Credits(p)}]
BookSpec == Book!Spec
=============================================================================
