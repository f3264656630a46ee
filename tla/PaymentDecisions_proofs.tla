---------------------- MODULE PaymentDecisions_proofs ----------------------
(***************************************************************************)
(* What the requests of PaymentFlow do to the rows and the money, and what *)
(* follows for those who read them: the books and balances add up, no row  *)
(* is left half made, a reference is credited once, a payer is told once,  *)
(* and the flow implements PaymentBook.                                    *)
(*                                                                         *)
(* Each kind of step is described twice, by where it takes its request     *)
(* (ResidentTurn, AdminTurn) and by what it does to the rows and the money *)
(* (RowStepBy); the invariants below are shown from these descriptions.    *)
(***************************************************************************)
EXTENDS PaymentFlow_proofs, Summation_proofs

-----------------------------------------------------------------------------
(* How a request goes on.                                                  *)

Same(x, y) == y.record = x.record /\ y.pay = x.pay /\ y.auto = x.auto
OfRow(x, y, p) == y.record = x.record /\ y.pay = p /\ y.auto = x.auto
Onward == {<<"lookup", "config">>, <<"upload", "commit">>, <<"commit", "clean">>, <<"commit", "cleanDup">>,
           <<"cleanDup", "relookup">>, <<"attach", "attachStore">>, <<"attachStore", "attachLink">>,
           <<"attachLink", "attachUndo">>, <<"attach", "retry">>, <<"attachStore", "retry">>,
           <<"attachLink", "retry">>, <<"attachUndo", "retry">>, <<"autoCommit", "notify">>}

\* From x to y, by a step of a resident's request.
ResidentTurn(x, y) ==
    \/ y = Idle
    \/ /\ x.pc = "idle" /\ y.pc \in {"config", "lookup"}
       /\ y.pay = NoPay /\ ~y.auto /\ ~y.record
    \/ Same(x, y) /\ <<x.pc, y.pc>> \in Onward
    \/ Same(x, y) /\ x.pc = "retry" /\ y.pc = "accounts" /\ ~verify
    \/ /\ x.pc \in {"lookup", "relookup"} /\ y.pc \in {"attach", "retry"}
       /\ y.record = x.record /\ y.auto = x.auto
    \/ /\ x.pc = "config" /\ y.pc = "accounts"
       /\ y.record = x.record /\ y.pay = x.pay /\ (y.auto => ~verify)
    \/ /\ x.pc = "accounts"
       /\ IF x.pay # NoPay THEN y.pc = "autoCommit" ELSE y.pc \in {"upload", "commit"}
       /\ y.record = x.record /\ y.pay = x.pay /\ (y.auto => x.auto)
    \/ x.pc = "commit" /\ y.pc = "notify" /\ y.record = x.record /\ y.auto = x.auto /\ x.auto

LEMMA GotoSame ==
    ASSUME TypeOK, NEW h \in Handlers, NEW l, Goto(h, l)
    PROVE  Alone(h) /\ Same(req[h], req'[h]) /\ req'[h].pc = l
  <1> DEFINE y == [req[h] EXCEPT !.pc = l]
  <1>1. req' = [req EXCEPT ![h] = y]
    BY DEF Goto, TypeOK
  <1>2. y.pc = l /\ Same(req[h], y)
    BY DEF TypeOK, Request, Same
  <1> HIDE DEF y
  <1> QED
    BY <1>1, <1>2, Becomes

LEMMA DoneIdle ==
    ASSUME TypeOK, NEW h \in Handlers, Done(h)
    PROVE  Alone(h) /\ req'[h] = Idle
  BY Becomes DEF Done

\* The file of a request changes with its step.
LEMMA FileSame ==
    ASSUME TypeOK, NEW h \in Handlers, NEW f, NEW l, req' = [req EXCEPT ![h].file = f, ![h].pc = l]
    PROVE  Alone(h) /\ Same(req[h], req'[h]) /\ req'[h].pc = l
  <1> DEFINE y == [req[h] EXCEPT !.file = f, !.pc = l]
  <1>1. req' = [req EXCEPT ![h] = y]
    BY DEF TypeOK, Request
  <1>2. y.pc = l /\ Same(req[h], y)
    BY DEF TypeOK, Request, Same
  <1> HIDE DEF y
  <1> QED
    BY <1>1, <1>2, Becomes

LEMMA PayFound ==
    ASSUME TypeOK, NEW h \in Handlers, NEW p, NEW l, req' = [req EXCEPT ![h].pay = p, ![h].pc = l]
    PROVE  Alone(h) /\ OfRow(req[h], req'[h], p) /\ req'[h].pc = l
  <1> DEFINE y == [req[h] EXCEPT !.pay = p, !.pc = l]
  <1>1. req' = [req EXCEPT ![h] = y]
    BY DEF TypeOK, Request
  <1>2. y.pc = l /\ OfRow(req[h], y, p)
    BY DEF TypeOK, Request, OfRow
  <1> HIDE DEF y
  <1> QED
    BY <1>1, <1>2, Becomes

LEMMA ResidentTurns ==
    ASSUME TypeOK, NEW r \in Handlers, ResidentStep(r)
    PROVE  Alone(r) /\ ResidentTurn(req[r], req'[r])
  <1>1. CASE Done(r)
    BY <1>1, DoneIdle DEF ResidentTurn
  <1>2. ASSUME NEW l, Goto(r, l), <<req[r].pc, l>> \in Onward PROVE Alone(r) /\ ResidentTurn(req[r], req'[r])
    BY <1>2, GotoSame DEF ResidentTurn
  <1>3. ASSUME NEW f, NEW l, req' = [req EXCEPT ![r].file = f, ![r].pc = l], <<req[r].pc, l>> \in Onward
        PROVE Alone(r) /\ ResidentTurn(req[r], req'[r])
    BY <1>3, FileSame DEF ResidentTurn
  <1>4. CASE BeginSubmit(r)
    <2>1. PICK f : req' = [req EXCEPT ![r] = [Idle EXCEPT
                     !.pc = IF f.utr = NoUtr THEN "config" ELSE "lookup",
                     !.utr = f.utr, !.bill = f.bill, !.amt = f.amt, !.proof = f.proof]]
      BY <1>4 DEF BeginSubmit
    <2> DEFINE y == [Idle EXCEPT !.pc = IF f.utr = NoUtr THEN "config" ELSE "lookup",
                     !.utr = f.utr, !.bill = f.bill, !.amt = f.amt, !.proof = f.proof]
    <2>2. y.pc \in {"config", "lookup"} /\ y.pay = NoPay /\ ~y.auto /\ ~y.record
      BY DEF Idle
    <2>3. req[r].pc = "idle" /\ req' = [req EXCEPT ![r] = y]
      BY <1>4, <2>1 DEF BeginSubmit, At
    <2> HIDE DEF y
    <2> QED
      BY <2>2, <2>3, Becomes DEF ResidentTurn
  <1>5. CASE Found(r)
    <2>1. req[r].pc \in {"lookup", "relookup"}
      BY <1>5 DEF Found
    <2>2. Done(r) \/ \E p, l : l \in {"attach", "retry"} /\ req' = [req EXCEPT ![r].pay = p, ![r].pc = l]
      BY <1>5 DEF Found
    <2>3. ASSUME NEW p, NEW l \in {"attach", "retry"}, req' = [req EXCEPT ![r].pay = p, ![r].pc = l]
          PROVE  Alone(r) /\ ResidentTurn(req[r], req'[r])
      <3>1. Alone(r) /\ OfRow(req[r], req'[r], p) /\ req'[r].pc = l
        BY <2>3, PayFound
      <3> QED
        BY <2>1, <3>1 DEF ResidentTurn, OfRow
    <2> QED
      BY <1>1, <2>2, <2>3
  <1>6. CASE NotFound(r)
    BY <1>1, <1>2, <1>6 DEF NotFound, At, Onward
  <1>7. CASE ReadConfig(r)
    <2> DEFINE auto == ~verify /\ req[r].utr # NoUtr /\ req[r].bill
               y == [req[r] EXCEPT !.pc = "accounts", !.auto = auto]
    <2>1. Done(r) \/ req' = [req EXCEPT ![r] = y]
      BY <1>7 DEF ReadConfig, TypeOK
    <2>2. y.pc = "accounts" /\ y.record = req[r].record /\ y.pay = req[r].pay /\ y.auto = auto
      <3> HIDE DEF auto
      <3> QED
        BY DEF TypeOK, Request
    <2>3. (auto => ~verify) /\ req[r].pc = "config"
      BY <1>7 DEF ReadConfig, At
    <2> HIDE DEF y, auto
    <2> QED
      BY <1>1, <2>1, <2>2, <2>3, Becomes DEF ResidentTurn
  <1>8. CASE ReadAccounts(r)
    <2> DEFINE sole == Cardinality(ActiveAccounts) = 1
               c == IF sole THEN CHOOSE x \in ActiveAccounts : TRUE ELSE NoAcct
               auto == req[r].auto /\ sole
               l == IF req[r].pay # NoPay THEN "autoCommit"
                    ELSE IF req[r].proof THEN "upload" ELSE "commit"
               y == [req[r] EXCEPT !.acct = c, !.auto = auto, !.pc = l]
    <2>1. Done(r) \/ req' = [req EXCEPT ![r] = y]
      BY <1>8 DEF ReadAccounts, TypeOK
    <2>2. y.pc = l /\ y.record = req[r].record /\ y.pay = req[r].pay /\ y.auto = auto
      <3> HIDE DEF c, auto, l
      <3> QED
        BY DEF TypeOK, Request
    <2>3. (auto => req[r].auto) /\ req[r].pc = "accounts"
          /\ IF req[r].pay # NoPay THEN l = "autoCommit" ELSE l \in {"upload", "commit"}
      BY <1>8 DEF ReadAccounts, At
    <2> HIDE DEF y, l, auto
    <2> QED
      BY <1>1, <2>1, <2>2, <2>3, Becomes DEF ResidentTurn
  <1>9. CASE Upload(r) \/ AttachStore(r)
    BY <1>1, <1>2, <1>3, <1>9 DEF Upload, AttachStore, At, Onward
  <1>10. CASE Commit(r)
    <2>1. /\ req[r].pc = "commit"
          /\ Done(r) \/ \E p : req[r].auto /\ req' = [req EXCEPT ![r].pc = "notify", ![r].pay = p]
      BY <1>10 DEF Commit, At
    <2>2. ASSUME NEW p, req' = [req EXCEPT ![r].pc = "notify", ![r].pay = p], req[r].auto
          PROVE  Alone(r) /\ ResidentTurn(req[r], req'[r])
      <3>1. req' = [req EXCEPT ![r].pay = p, ![r].pc = "notify"]
        BY <2>2 DEF TypeOK, Request
      <3>2. Alone(r) /\ OfRow(req[r], req'[r], p) /\ req'[r].pc = "notify"
        BY <3>1, PayFound
      <3> QED
        BY <2>1, <2>2, <3>2 DEF ResidentTurn, OfRow
    <2> QED
      BY <1>1, <2>1, <2>2
  <1>11. CASE CommitFails(r)
    BY <1>2, <1>11 DEF CommitFails, At, Onward
  <1>12. CASE Clean(r)
    <2>1. Done(r) \/ (req[r].pc = "cleanDup" /\ req' = [req EXCEPT ![r].pc = "relookup", ![r].file = NoFile])
      BY <1>12 DEF Clean, At
    <2>2. ASSUME NEW l, req' = [req EXCEPT ![r].pc = l, ![r].file = NoFile]
          PROVE  req' = [req EXCEPT ![r].file = NoFile, ![r].pc = l]
      BY <2>2 DEF TypeOK, Request
    <2> QED
      BY <1>1, <1>3, <2>1, <2>2 DEF Onward
  <1>13. CASE Attach(r)
    BY <1>2, <1>13 DEF Attach, At, Onward
  <1>14. CASE AttachLink(r) \/ AttachUndo(r)
    <2>1. /\ req[r].pc \in {"attachLink", "attachUndo"}
          /\ \/ req[r].pc = "attachLink" /\ Goto(r, "attachUndo")
             \/ req' = [req EXCEPT ![r].pc = "retry", ![r].file = NoFile]
      BY <1>14 DEF AttachLink, AttachUndo, At
    <2>2. ASSUME NEW l, req' = [req EXCEPT ![r].pc = l, ![r].file = NoFile]
          PROVE  req' = [req EXCEPT ![r].file = NoFile, ![r].pc = l]
      BY <2>2 DEF TypeOK, Request
    <2> QED
      BY <1>2, <1>3, <2>1, <2>2 DEF Onward
  <1>15. CASE Retry(r)
    BY <1>1, <1>15, GotoSame DEF Retry, At, ResidentTurn
  <1>16. CASE AutoCommit(r)
    BY <1>1, <1>2, <1>16 DEF AutoCommit, At, Onward
  <1>17. CASE Notify(r)
    BY <1>1, <1>17 DEF Notify
  <1> QED
    BY <1>4, <1>5, <1>6, <1>7, <1>8, <1>9, <1>10, <1>11, <1>12, <1>13, <1>14, <1>15, <1>16, <1>17
    DEF ResidentStep

\* From x to y, by a step of an admin's request.
AdminTurn(x, y) ==
    \/ y = Idle /\ ~(x.record /\ x.pc \in {"approve", "credit"})
    \/ x.pc = "idle" /\ y.pc \in {"approve", "reject"} /\ ~y.record
    \/ x.pc = "idle" /\ y.pc = "create" /\ y.record /\ "record" \in AdminOps
    \/ x.pc = "create" /\ y.pc = "approve" /\ y.record = x.record
    \/ Same(x, y) /\ <<x.pc, y.pc>> \in {<<"approve", "credit">>, <<"credit", "notify">>, <<"reject", "notify">>}
    \/ Same(x, y) /\ x.pc \in {"approve", "credit"} /\ y.pc = "undo" /\ x.record

LEMMA AdminTurns ==
    ASSUME TypeOK, NEW a \in Handlers, AdminStep(a)
    PROVE  Alone(a) /\ AdminTurn(req[a], req'[a])
  <1>1. ASSUME Done(a), ~(req[a].record /\ req[a].pc \in {"approve", "credit"})
        PROVE  Alone(a) /\ AdminTurn(req[a], req'[a])
    BY <1>1, DoneIdle DEF AdminTurn
  <1>2. CASE BeginReview(a)
    <2>1. PICK p, c : \/ req' = [req EXCEPT ![a] = [Idle EXCEPT !.pc = "approve", !.pay = p, !.acct = c]]
                      \/ req' = [req EXCEPT ![a] = [Idle EXCEPT !.pc = "reject", !.pay = p]]
      BY <1>2 DEF BeginReview
    <2> DEFINE x == [Idle EXCEPT !.pc = "approve", !.pay = p, !.acct = c]
               y == [Idle EXCEPT !.pc = "reject", !.pay = p]
    <2>2. x.record = FALSE /\ x.pc = "approve" /\ y.record = FALSE /\ y.pc = "reject"
      BY DEF Idle
    <2>3. req[a].pc = "idle" /\ (req' = [req EXCEPT ![a] = x] \/ req' = [req EXCEPT ![a] = y])
      BY <1>2, <2>1 DEF BeginReview, At
    <2> HIDE DEF x, y
    <2> QED
      BY <2>2, <2>3, Becomes DEF AdminTurn
  <1>3. CASE BeginRecord(a)
    <2>1. PICK f, c : req' = [req EXCEPT ![a] = [Idle EXCEPT !.pc = "create", !.utr = f.utr,
                        !.bill = TRUE, !.amt = f.amt, !.acct = c, !.record = TRUE]]
      BY <1>3 DEF BeginRecord
    <2> DEFINE y == [Idle EXCEPT !.pc = "create", !.utr = f.utr,
                        !.bill = TRUE, !.amt = f.amt, !.acct = c, !.record = TRUE]
    <2>2. y.pc = "create" /\ y.record
      BY DEF Idle
    <2>3. req[a].pc = "idle" /\ "record" \in AdminOps /\ req' = [req EXCEPT ![a] = y]
      BY <1>3, <2>1 DEF BeginRecord, At
    <2> HIDE DEF y
    <2> QED
      BY <2>2, <2>3, Becomes DEF AdminTurn
  <1>4. CASE CreateRecord(a)
    <2>1. /\ req[a].pc = "create"
          /\ Done(a) \/ \E p : req' = [req EXCEPT ![a].pay = p, ![a].pc = "approve"]
      BY <1>4 DEF CreateRecord, At
    <2>2. ASSUME NEW p, req' = [req EXCEPT ![a].pay = p, ![a].pc = "approve"]
          PROVE  Alone(a) /\ AdminTurn(req[a], req'[a])
      <3>1. Alone(a) /\ OfRow(req[a], req'[a], p) /\ req'[a].pc = "approve"
        BY <2>2, PayFound
      <3> QED
        BY <2>1, <3>1 DEF AdminTurn, OfRow
    <2> QED
      BY <1>1, <2>1, <2>2
  <1>5. CASE CheckAccount(a) \/ Approve(a) \/ ApproveFails(a) \/ Reject(a)
    <2>1. \/ Done(a) /\ ~(req[a].record /\ req[a].pc \in {"approve", "credit"})
          \/ \E l : /\ Goto(a, l)
                    /\ \/ <<req[a].pc, l>> \in {<<"approve", "credit">>, <<"credit", "notify">>, <<"reject", "notify">>}
                       \/ req[a].pc \in {"approve", "credit"} /\ l = "undo" /\ req[a].record
      BY <1>5 DEF CheckAccount, Approve, ApproveFails, Reject, Fail, At
    <2> QED
      BY <1>1, <2>1, GotoSame DEF AdminTurn
  <1>6. CASE UndoRecord(a) \/ Notify(a)
    BY <1>1, <1>6 DEF UndoRecord, Notify, At
  <1> QED
    BY <1>2, <1>3, <1>4, <1>5, <1>6 DEF AdminStep

-----------------------------------------------------------------------------
(* What a step does to the rows and the money.                             *)

Added(p, h) == /\ pay' = [pay EXCEPT ![p] = NewRow(h)]
               /\ WithUtr(req[h].utr) = {}
               /\ UNCHANGED money
Settled(p, row, a) == /\ CreditAndApprove(p, row, a)
                      /\ row.amt \in Amounts
                      /\ Open(p) => row = pay[p]
Closed(p, s) == /\ pay' = [pay EXCEPT ![p].status = s]
                /\ UNCHANGED money

\* What a step of request h does to the rows and the money: it adds a row, approves one that is new or
\* is the open one it works on, rejects that one, takes it back, or touches neither.
RowStepBy(h) ==
    \/ UNCHANGED <<pay, money>>
    \/ \E p \in Fresh : /\ req[h].amt \in Amounts /\ Added(p, h)
                        /\ \/ At(h, "commit")
                           \/ At(h, "create") /\ req'[h].pc = "approve" /\ req'[h].pay = p
    \/ \E p \in Payments, row \in Row, a \in Accounts :
          /\ \/ Open(p) /\ req[h].pay = p /\ req[h].pc \in {"credit", "autoCommit"}
             \/ p \in Fresh /\ WithUtr(row.utr) = {} /\ At(h, "commit") /\ req[h].auto
                            /\ row.recorded = req[h].record
          /\ Settled(p, row, a)
    \/ Open(req[h].pay) /\ At(h, "reject") /\ req[h].pay \in Payments /\ Closed(req[h].pay, "REJECTED")
    \/ At(h, "undo") /\ req[h].pay \in Payments /\ Closed(req[h].pay, "DELETED")

RowStep == UNCHANGED <<pay, money>> \/ \E h \in Handlers : RowStepBy(h)

LEMMA CommitRowStep ==
    ASSUME IInv, NEW r \in Handlers, Commit(r)
    PROVE  RowStepBy(r)
  <1>1. /\ req[r] \in Request /\ Fits(req[r]) /\ At(r, "commit") /\ WithUtr(req[r].utr) = {}
    BY DEF IInv, TypeOK, RequestsFit, Commit
  <1>2. PICK p \in Fresh :
           IF req[r].auto
           THEN CreditAndApprove(p, NewRow(r), req[r].acct)
           ELSE /\ pay' = [pay EXCEPT ![p] = NewRow(r)]
                /\ UNCHANGED money
    BY DEF Commit
  <1>3. req[r].amt \in Amounts
    BY <1>1 DEF Fits, Reviewing, At
  <1>4. CASE req[r].auto
    <2>1. req[r].acct \in Accounts
      BY <1>1, <1>4 DEF Fits, Request, At
    <2>2. /\ NewRow(r) \in Row /\ NewRow(r).amt \in Amounts /\ NewRow(r).utr = req[r].utr
          /\ NewRow(r).recorded = req[r].record
      BY <1>3, NewRowTyped DEF IInv, NewRow
    <2>3. ~Open(p) /\ p \in Payments
      BY DEF Fresh, Open
    <2>4. Settled(p, NewRow(r), req[r].acct)
      BY <1>2, <1>4, <2>2, <2>3 DEF Settled
    <2> QED
      BY <1>1, <1>4, <2>1, <2>2, <2>3, <2>4 DEF RowStepBy
  <1>5. CASE ~req[r].auto
    <2>1. Added(p, r)
      BY <1>1, <1>2, <1>5 DEF Added
    <2> QED
      BY <1>1, <1>3, <2>1 DEF RowStepBy
  <1> QED
    BY <1>4, <1>5

LEMMA ApproveOpenRowStep ==
    ASSUME IInv, NEW h \in Handlers, Open(req[h].pay), req[h].pc \in {"credit", "autoCommit"},
           CreditAndApprove(req[h].pay, pay[req[h].pay], req[h].acct)
    PROVE  RowStepBy(h)
  <1>1. req[h].pay \in Payments /\ req[h].acct \in Accounts
    BY DEF IInv, TypeOK, Request, RequestsFit, Fits, OnRow, OnAccount
  <1>2. pay[req[h].pay] \in Row /\ pay[req[h].pay].amt \in Amounts
    BY <1>1 DEF IInv, TypeOK, RowsHaveAmounts, Open
  <1>3. Settled(req[h].pay, pay[req[h].pay], req[h].acct)
    BY <1>2 DEF Settled
  <1> QED
    BY <1>1, <1>2, <1>3 DEF RowStepBy

LEMMA AdminRowStep ==
    ASSUME IInv, NEW a \in Handlers, AdminStep(a)
    PROVE  RowStepBy(a)
  <1>1. req[a] \in Request /\ Fits(req[a])
    BY DEF IInv, TypeOK, RequestsFit
  <1>2. CASE Approve(a)
    BY <1>2, ApproveOpenRowStep DEF Approve, At
  <1>3. CASE Reject(a)
    <2>1. req[a].pay \in Payments
      BY <1>1, <1>3 DEF Reject, At, Fits, OnRow, Request
    <2> QED
      BY <1>3, <2>1 DEF Reject, RowStepBy, Closed
  <1>4. CASE CreateRecord(a)
    <2>1. req[a].amt \in Amounts /\ At(a, "create")
      BY <1>1, <1>4 DEF CreateRecord, At, Fits, Reviewing
    <2>2. CASE UNCHANGED <<pay, money>>
      BY <2>2 DEF RowStepBy
    <2>3. ASSUME NEW p \in Fresh, WithUtr(req[a].utr) = {}, pay' = [pay EXCEPT ![p] = NewRow(a)],
                 req' = [req EXCEPT ![a].pay = p, ![a].pc = "approve"]
          PROVE  RowStepBy(a)
      <3>1. OfRow(req[a], req'[a], p) /\ req'[a].pc = "approve"
        BY <2>3, PayFound DEF IInv
      <3>2. Added(p, a)
        BY <1>4, <2>3 DEF Added, CreateRecord
      <3> QED
        BY <2>1, <3>1, <3>2 DEF RowStepBy, OfRow
    <2> QED
      BY <1>4, <2>2, <2>3 DEF CreateRecord
  <1>5. CASE UndoRecord(a)
    <2>1. req[a].pay \in Payments
      BY <1>1, <1>5 DEF UndoRecord, At, Fits, OnRow, Request
    <2> QED
      BY <1>5, <2>1 DEF UndoRecord, RowStepBy, Closed
  <1>6. CASE BeginReview(a) \/ CheckAccount(a) \/ ApproveFails(a) \/ BeginRecord(a) \/ Notify(a)
    BY <1>6 DEF BeginReview, CheckAccount, ApproveFails, BeginRecord, Notify, rows, RowStepBy
  <1> QED
    BY <1>2, <1>3, <1>4, <1>5, <1>6 DEF AdminStep

LEMMA ResidentRowStep ==
    ASSUME IInv, NEW r \in Handlers, ResidentStep(r)
    PROVE  RowStepBy(r)
  <1>1. CASE Commit(r)
    BY <1>1, CommitRowStep
  <1>2. CASE AutoCommit(r)
    <2>1. CASE UNCHANGED <<pay, money>>
      BY <2>1 DEF RowStepBy
    <2>2. CASE /\ Open(req[r].pay)
               /\ CreditAndApprove(req[r].pay, pay[req[r].pay], req[r].acct)
      BY <1>2, <2>2, ApproveOpenRowStep DEF AutoCommit, At
    <2> QED
      BY <1>2, <2>1, <2>2 DEF AutoCommit
  <1>3. CASE \/ BeginSubmit(r) \/ Found(r) \/ NotFound(r) \/ ReadConfig(r) \/ ReadAccounts(r)
             \/ Upload(r) \/ CommitFails(r) \/ Clean(r) \/ Attach(r) \/ AttachStore(r)
             \/ AttachLink(r) \/ AttachUndo(r) \/ Retry(r) \/ Notify(r)
    <2>1. UNCHANGED <<pay, money>>
      BY <1>3 DEF BeginSubmit, Found, NotFound, ReadConfig, ReadAccounts, Upload, CommitFails, Clean,
                  Attach, AttachStore, AttachLink, AttachUndo, Retry, Notify, rows
    <2> QED
      BY <2>1 DEF RowStepBy
  <1> QED
    BY <1>1, <1>2, <1>3 DEF ResidentStep

LEMMA NextRowStep == IInv /\ [Next]_vars => RowStep
  <1> SUFFICES ASSUME IInv, [Next]_vars PROVE RowStep
    OBVIOUS
  <1>1. CASE \/ UNCHANGED vars \/ SetVerification \/ Crash \/ \E c \in Accounts : AccountStep(c)
    <2>1. UNCHANGED <<pay, money>>
      BY <1>1 DEF vars, SetVerification, Crash, AccountStep, CreateAccount, RemoveAccount,
                  UpdateAccount, rows, money
    <2> QED
      BY <2>1 DEF RowStep
  <1> QED
    BY <1>1, ResidentRowStep, AdminRowStep DEF Next, RowStep, Handlers

-----------------------------------------------------------------------------
(* The books: entries, balances and the flat's bill.                       *)

Sum(S) == SumOver([l \in S |-> l.amt])

\* The books are finite, and an entry's id was used up when it was made.
BooksFit == /\ IsFiniteSet(ledger)
            /\ \A l \in ledger : l.id < nextTxn

MInv == BooksFit /\ BalanceMatchesLedger /\ MoneyAccountedFor

\* One more entry in a part of the books.
LEMMA EntryAdds ==
    ASSUME NEW S, IsFiniteSet(S), S \subseteq LedgerRow, NEW l \in LedgerRow, l \notin S
    PROVE  Sum(S \cup {l}) = Sum(S) + l.amt
  <1> DEFINE f == [k \in S |-> k.amt]
             g == [k \in S \cup {l} |-> k.amt]
  <1>1. \A k \in LedgerRow : k.amt \in Int
    <2>1. \A k \in LedgerRow : k.amt \in Amounts
      BY DEF LedgerRow
    <2>2. \A x \in Amounts : x \in Int
      BY AmountsPositive
    <2> QED
      BY <2>1, <2>2, Zenon
  <1>2. f \in [S -> Int] /\ g \in [S \cup {l} -> Int] /\ g[l] = l.amt /\ \A k \in S : g[k] = f[k]
    BY <1>1
  <1> HIDE DEF f, g
  <1>3. SumOver(g) = SumOver(f) + g[l]
    BY <1>2, SumInsert
  <1> QED
    BY <1>2, <1>3 DEF f, g, Sum

\* The account of a new entry gets its amount, and the other accounts nothing.
LEMMA BalanceMoves ==
    ASSUME IInv, MInv, NEW p \in Payments, NEW row \in Row, NEW a \in Accounts, Settled(p, row, a)
    PROVE  BooksFit' /\ BalanceMatchesLedger'
  <1> DEFINE new == [id |-> nextTxn, pay |-> p, acct |-> a, amt |-> row.amt, utr |-> row.utr]
             On(c) == {k \in ledger : k.acct = c}
  <1>1. /\ ledger' = ledger \cup {new} /\ nextTxn' = nextTxn + 1
        /\ balance' = [balance EXCEPT ![a] = @ + row.amt] /\ row.amt \in Amounts
    BY DEF Settled, CreditAndApprove
  <1>2. new \in LedgerRow /\ new \notin ledger /\ ledger \subseteq LedgerRow /\ nextTxn \in Nat
    BY <1>1 DEF IInv, TypeOK, MInv, BooksFit, LedgerRow, Row
  <1>3. BooksFit'
    <2>1. IsFiniteSet(ledger')
      BY <1>1, FS_AddElement DEF MInv, BooksFit
    <2>2. \A l \in ledger' : l.id < nextTxn'
      BY <1>1, <1>2 DEF MInv, BooksFit, LedgerRow
    <2> QED
      BY <2>1, <2>2 DEF BooksFit
  <1>4. ASSUME NEW c \in Accounts
        PROVE  balance'[c] = SumOver([l \in {k \in ledger' : k.acct = c} |-> l.amt])
    <2>1. balance[c] = Sum(On(c)) /\ IsFiniteSet(On(c)) /\ On(c) \subseteq LedgerRow /\ new \notin On(c)
      BY <1>2, FS_Subset DEF MInv, BalanceMatchesLedger, BooksFit, Sum
    <2>2. CASE c = a
      <3>1. {k \in ledger' : k.acct = c} = On(c) \cup {new}
        BY <1>1, <2>2
      <3>2. Sum(On(c) \cup {new}) = Sum(On(c)) + new.amt
        BY <1>2, <2>1, EntryAdds
      <3>3. balance'[c] = balance[c] + row.amt
        BY <1>1, <2>2 DEF IInv, TypeOK
      <3> QED
        BY <2>1, <3>1, <3>2, <3>3 DEF Sum
    <2>3. CASE c # a
      <3>1. {k \in ledger' : k.acct = c} = On(c)
        BY <1>1, <2>3
      <3>2. balance'[c] = balance[c]
        BY <1>1, <2>3 DEF IInv, TypeOK
      <3> QED
        BY <2>1, <3>1, <3>2 DEF Sum
    <2> QED
      BY <2>2, <2>3
  <1> QED
    BY <1>3, <1>4 DEF BalanceMatchesLedger

ForBill == {k \in ledger : pay[k.pay].bill}

\* What an approval takes off the bill and adds to the advance is the payment, if it is for the bill.
LEMMA BillMoves ==
    ASSUME IInv, MInv, NEW p \in Payments, NEW row \in Row, NEW a \in Accounts, Settled(p, row, a),
           pay[p].status \in {"NONE", "PENDING"}
    PROVE  MoneyAccountedFor'
  <1> DEFINE new == [id |-> nextTxn, pay |-> p, acct |-> a, amt |-> row.amt, utr |-> row.utr]
  <1>1. /\ ledger' = ledger \cup {new} /\ row.amt \in Amounts
        /\ pay' = [pay EXCEPT ![p] = [row EXCEPT !.status = "APPROVED", !.txn = nextTxn]]
        /\ IF row.bill THEN Settle(row.amt) ELSE UNCHANGED <<pending, credit>>
    BY DEF Settled, CreditAndApprove
  <1>2. new \in LedgerRow /\ new \notin ledger /\ ledger \subseteq LedgerRow /\ nextTxn \in Nat
    BY <1>1 DEF IInv, TypeOK, MInv, BooksFit, LedgerRow, Row
  <1>3. \A k \in ledger : k.pay # p /\ k.pay \in Payments
    BY <1>2 DEF IInv, CreditedOnce, Credits, LedgerRow
  <1>4. pay'[p].bill = row.bill /\ \A q \in Payments : q # p => pay'[q] = pay[q]
    BY <1>1 DEF IInv, TypeOK, Row
  <1>5. IsFiniteSet(ForBill) /\ ForBill \subseteq LedgerRow /\ new \notin ForBill
    BY <1>2, FS_Subset DEF MInv, BooksFit, ForBill
  <1>6. /\ pending \in Nat /\ Dues \in Nat /\ credit \in Nat /\ row.amt \in Nat
        /\ Dues - pending + credit = Sum(ForBill)
    BY <1>1, AmountsPositive, DuesPositive DEF IInv, TypeOK, MInv, MoneyAccountedFor, ForBill, Sum
  <1>7. CASE row.bill
    <2>1. ForBill' = ForBill \cup {new}
      <3>1. \A k \in ledger : pay'[k.pay] = pay[k.pay]
        BY <1>3, <1>4
      <3>2. pay'[new.pay].bill
        BY <1>4, <1>7
      <3>3. ForBill' = {k \in ledger \cup {new} : pay'[k.pay].bill}
        BY <1>1 DEF ForBill
      <3> HIDE DEF new
      <3> QED
        BY <3>1, <3>2, <3>3 DEF ForBill
    <2>2. Sum(ForBill \cup {new}) = Sum(ForBill) + row.amt
      BY <1>2, <1>5, EntryAdds
    <2>3. Dues - pending' + credit' = Dues - pending + credit + row.amt
      BY <1>1, <1>6, <1>7 DEF Settle
    <2>4. Dues - pending' + credit' = Sum(ForBill)'
      BY <1>6, <2>1, <2>2, <2>3 DEF Sum
    <2> QED
      BY <2>4 DEF MoneyAccountedFor, ForBill, Sum
  <1>8. CASE ~row.bill
    <2>1. ForBill' = ForBill
      BY <1>1, <1>3, <1>4, <1>8 DEF ForBill
    <2>2. pending' = pending /\ credit' = credit
      BY <1>1, <1>8
    <2> QED
      BY <1>6, <2>1, <2>2 DEF MoneyAccountedFor, ForBill, Sum
  <1> QED
    BY <1>7, <1>8

\* The money stays, and the rows it was paid for stay for the bill.
LEMMA MoneyStays ==
    ASSUME IInv, MInv, UNCHANGED money, \A l \in ledger : pay'[l.pay].bill = pay[l.pay].bill
    PROVE  MInv'
  <1>1. ForBill' = ForBill
    BY DEF ForBill, money
  <1>2. MoneyAccountedFor'
    BY <1>1 DEF MInv, MoneyAccountedFor, ForBill, money
  <1>3. BooksFit' /\ BalanceMatchesLedger'
    BY DEF MInv, BooksFit, BalanceMatchesLedger, money
  <1> QED
    BY <1>2, <1>3 DEF MInv

LEMMA NextMInv == IInv /\ MInv /\ [Next]_vars => MInv'
  <1> SUFFICES ASSUME IInv, MInv, [Next]_vars PROVE MInv'
    OBVIOUS
  <1>1. \A l \in ledger : l.pay \in Payments
    BY DEF IInv, TypeOK, LedgerRow
  <1>2. CASE UNCHANGED <<pay, money>>
    BY <1>2, MoneyStays
  <1>3. ASSUME NEW p \in Fresh, NEW h \in Handlers, Added(p, h) PROVE MInv'
    <2>1. \A l \in ledger : l.pay # p
      BY DEF Fresh, IInv, CreditedOnce, Credits
    <2> QED
      BY <1>1, <1>3, <2>1, MoneyStays DEF Added, IInv, TypeOK
  <1>4. ASSUME NEW p \in Payments, NEW row \in Row, NEW a \in Accounts, Open(p) \/ p \in Fresh,
               Settled(p, row, a)
        PROVE  MInv'
    BY <1>4, BalanceMoves, BillMoves DEF Open, Fresh, MInv
  <1>5. ASSUME NEW p, NEW s, Closed(p, s) PROVE MInv'
    <2>1. \A q \in Payments : pay[q] \in Row
      BY DEF IInv, TypeOK
    <2>2. \A q \in Payments : pay'[q].bill = pay[q].bill
      BY <1>5, <2>1 DEF Closed, Row, IInv, TypeOK
    <2> QED
      BY <1>1, <1>5, <2>2, MoneyStays DEF Closed
  <1> QED
    BY <1>2, <1>3, <1>4, <1>5, NextRowStep DEF RowStep, RowStepBy

LEMMA InitMInv == Init => MInv
  <1> SUFFICES ASSUME Init PROVE MInv
    OBVIOUS
  <1>1. ledger = {}
    BY DEF Init
  <1>2. BooksFit
    BY <1>1, FS_EmptySet DEF BooksFit
  <1>3. SumOver([l \in {} |-> l.amt]) = 0
    BY SumEmpty
  <1>4. BalanceMatchesLedger
    <2>1. \A c : {k \in ledger : k.acct = c} = {}
      BY <1>1
    <2> QED
      BY <1>3, <2>1 DEF BalanceMatchesLedger, Init
  <1>5. MoneyAccountedFor
    <2>1. {k \in ledger : pay[k.pay].bill} = {}
      BY <1>1
    <2> QED
      BY <1>3, <2>1, DuesPositive DEF MoneyAccountedFor, Init
  <1> QED
    BY <1>2, <1>4, <1>5 DEF MInv

LEMMA BooksKept == Spec => []MInv
  BY InitMInv, NextMInv, Invariance, PTL DEF Spec

\* Every account holds what its transactions say it received, whatever crashes between two requests and
\* however many of them credit it at once.
THEOREM BalancesAgree == Spec => []BalanceMatchesLedger
  <1>1. MInv => BalanceMatchesLedger
    BY DEF MInv
  <1> QED
    BY <1>1, BooksKept, PTL

\* What came in for the flat's bill is what the bill lost plus what the flat is ahead: no order of
\* approvals loses a part of a payment or counts one twice.
THEOREM BillAccountedFor == Spec => []MoneyAccountedFor
  <1>1. MInv => MoneyAccountedFor
    BY DEF MInv
  <1> QED
    BY <1>1, BooksKept, PTL

-----------------------------------------------------------------------------
(* What a step does to one row.                                            *)

Others(p) == \A q \in Payments : q # p => pay'[q] = pay[q]
Entered(p) == \E l : ledger' = ledger \cup {l} /\ l.pay = p /\ l.utr = pay'[p].utr

Submits(h, p) ==
    /\ pay[p].status = "NONE" /\ pay'[p].status = "PENDING"
    /\ WithUtr(pay'[p].utr) = {} /\ pay'[p].recorded = req[h].record
    /\ \/ At(h, "commit")
       \/ At(h, "create") /\ req'[h].pc = "approve" /\ req'[h].pay = p
    /\ UNCHANGED ledger
Approves(h, p) ==
    /\ \/ /\ Open(p) /\ pay'[p].utr = pay[p].utr
          /\ req[h].pay = p /\ req[h].pc \in {"credit", "autoCommit"}
       \/ /\ pay[p].status = "NONE" /\ WithUtr(pay'[p].utr) = {}
          /\ At(h, "commit") /\ req[h].auto
    /\ pay'[p].status = "APPROVED"
    /\ Entered(p)
Rejects(h, p) ==
    /\ Open(p) /\ At(h, "reject")
    /\ pay'[p].status = "REJECTED" /\ pay'[p].utr = pay[p].utr
    /\ UNCHANGED ledger
TakesBack(h, p) ==
    /\ At(h, "undo") /\ req[h].pay = p
    /\ pay'[p].status = "DELETED" /\ pay'[p].utr = pay[p].utr
    /\ UNCHANGED ledger
Changes(h, p) == Others(p) /\ (Submits(h, p) \/ Approves(h, p) \/ Rejects(h, p) \/ TakesBack(h, p))

LEMMA RowForms ==
    ASSUME IInv, NEW h \in Handlers, RowStepBy(h)
    PROVE  UNCHANGED <<pay, ledger>> \/ \E p \in Payments : Changes(h, p)
  <1>0. pay \in [Payments -> Row]
    BY DEF IInv, TypeOK
  <1>1. CASE UNCHANGED <<pay, money>>
    BY <1>1 DEF money
  <1>2. ASSUME NEW p \in Fresh, req[h].amt \in Amounts, Added(p, h),
               At(h, "commit") \/ (At(h, "create") /\ req'[h].pc = "approve" /\ req'[h].pay = p)
        PROVE  Changes(h, p)
    <2>1. pay'[p] = NewRow(h) /\ Others(p) /\ pay[p].status = "NONE"
      BY <1>0, <1>2 DEF Added, Others, Fresh
    <2>2. NewRow(h).status = "PENDING" /\ NewRow(h).utr = req[h].utr /\ NewRow(h).recorded = req[h].record
      BY DEF NewRow
    <2> QED
      BY <1>2, <2>1, <2>2 DEF Added, Changes, Submits, money
  <1>3. ASSUME NEW p \in Payments, NEW row \in Row, NEW a \in Accounts, Settled(p, row, a),
               \/ Open(p) /\ req[h].pay = p /\ req[h].pc \in {"credit", "autoCommit"}
               \/ p \in Fresh /\ WithUtr(row.utr) = {} /\ At(h, "commit") /\ req[h].auto
        PROVE  Changes(h, p)
    <2> DEFINE l == [id |-> nextTxn, pay |-> p, acct |-> a, amt |-> row.amt, utr |-> row.utr]
               new == [row EXCEPT !.status = "APPROVED", !.txn = nextTxn]
    <2>1. pay' = [pay EXCEPT ![p] = new] /\ ledger' = ledger \cup {l} /\ (Open(p) => row = pay[p])
      BY <1>3 DEF Settled, CreditAndApprove
    <2>2. new.status = "APPROVED" /\ new.utr = row.utr /\ l.pay = p /\ l.utr = row.utr
      BY DEF Row
    <2> HIDE DEF new, l
    <2>3. pay'[p] = new /\ Others(p)
      BY <1>0, <2>1 DEF Others
    <2>4. Entered(p)
      BY <2>1, <2>2, <2>3 DEF Entered
    <2> QED
      BY <1>3, <2>1, <2>2, <2>3, <2>4 DEF Changes, Approves, Fresh
  <1>4. ASSUME NEW p \in Payments, NEW s, Closed(p, s)
        PROVE  Others(p) /\ pay'[p].status = s /\ pay'[p].utr = pay[p].utr /\ UNCHANGED ledger
    BY <1>0, <1>4 DEF Closed, Others, Row, money
  <1>5. CASE Open(req[h].pay) /\ At(h, "reject") /\ req[h].pay \in Payments /\ Closed(req[h].pay, "REJECTED")
    BY <1>4, <1>5 DEF Changes, Rejects
  <1>6. CASE At(h, "undo") /\ req[h].pay \in Payments /\ Closed(req[h].pay, "DELETED")
    BY <1>4, <1>6 DEF Changes, TakesBack
  <1>7. Fresh \subseteq Payments
    BY DEF Fresh
  <1> QED
    BY <1>1, <1>2, <1>3, <1>5, <1>6, <1>7 DEF RowStepBy

-----------------------------------------------------------------------------
(* recordForFlat: the row it makes, and what becomes of it.                *)

\* Only admins record, and only the requests that do create rows before they are reviewed and take
\* rows back.
RecordFits(h) == /\ req[h].record => h \in Admins /\ req[h].pc \in Reviewing \cup {"create"}
                                     /\ "record" \in AdminOps
                 /\ At(h, "create") \/ At(h, "undo") => req[h].record
RecordsFit == \A h \in Handlers : RecordFits(h)

\* The request is still to approve or to take back the row it recorded.
Recording(h) == req[h].record /\ req[h].pc \in {"approve", "credit", "undo"}

\* A resident's request records nothing.
LEMMA ResidentRecords ==
    ASSUME TypeOK, RecordsFit, NEW r \in Residents, ResidentStep(r)
    PROVE  RecordFits(r)' /\ ~Recording(r) /\ ~Recording(r)' /\ ~req[r].record /\ ~At(r, "create")
           /\ ~At(r, "undo")
  <1>1. r \in Handlers /\ r \notin Admins
    BY Disjoint DEF Handlers
  <1>2. ~req[r].record /\ req[r].pc \notin {"create", "undo"}
    BY <1>1 DEF RecordsFit, RecordFits, At
  <1>3. ResidentTurn(req[r], req'[r])
    BY <1>1, ResidentTurns
  <1>4. ~req'[r].record /\ req'[r].pc \notin {"create", "undo"}
    BY <1>2, <1>3 DEF ResidentTurn, Same, Onward, Idle
  <1> QED
    BY <1>2, <1>4 DEF RecordFits, Recording, At

LEMMA AdminRecords ==
    ASSUME TypeOK, RecordsFit, NEW a \in Admins, AdminStep(a)
    PROVE  RecordFits(a)'
  <1>1. a \in Handlers /\ RecordFits(a)
    BY DEF Handlers, RecordsFit
  <1>2. AdminTurn(req[a], req'[a])
    BY <1>1, AdminTurns
  <1> QED
    BY <1>1, <1>2 DEF AdminTurn, RecordFits, At, Same, Idle, Reviewing

\* A request that records has just made its row, or goes on with it.
LEMMA RecordingGoesOn ==
    ASSUME IInv, NEW a \in Handlers, AdminStep(a), Recording(a)'
    PROVE  \/ pay'[req'[a].pay].status = "PENDING" /\ req'[a].pay \in Payments
           \/ Recording(a) /\ req'[a].pay = req[a].pay /\ UNCHANGED pay
  <1>1. TypeOK /\ AdminTurn(req[a], req'[a])
    BY AdminTurns DEF IInv
  <1> DEFINE x == req[a]
             y == req'[a]
  <1>0. Idle.pc = "idle" /\ y.record /\ y.pc \in {"approve", "credit", "undo"} /\ y # Idle
    BY DEF Idle, Recording
  <1>2. CASE CreateRecord(a)
    <2>1. CASE Done(a)
      BY <1>1, <2>1, DoneIdle DEF Recording, Idle
    <2>2. ASSUME NEW p \in Fresh, pay' = [pay EXCEPT ![p] = NewRow(a)],
                 req' = [req EXCEPT ![a].pay = p, ![a].pc = "approve"]
          PROVE  pay'[req'[a].pay].status = "PENDING" /\ req'[a].pay \in Payments
      <3>1. req'[a].pay = p
        BY <1>1, <2>2, PayFound DEF OfRow
      <3>2. pay'[p].status = "PENDING" /\ p \in Payments
        BY <2>2 DEF IInv, TypeOK, Fresh, NewRow
      <3> QED
        BY <3>1, <3>2
    <2> QED
      BY <1>2, <2>1, <2>2 DEF CreateRecord
  <1>3. CASE CheckAccount(a) \/ ApproveFails(a)
    <2>1. req[a].pc \in {"approve", "credit"} /\ UNCHANGED pay
      BY <1>3 DEF CheckAccount, ApproveFails, At, rows
    <2>2. Same(x, y)
      BY <1>0, <1>1, <2>1 DEF AdminTurn
    <2>3. Recording(a) /\ y.pay = x.pay
      BY <1>0, <2>1, <2>2 DEF Recording, Same
    <2> QED
      BY <2>1, <2>3
  <1>4. CASE BeginReview(a) \/ Approve(a) \/ Reject(a) \/ BeginRecord(a) \/ UndoRecord(a) \/ Notify(a)
    <2>1. CASE BeginReview(a) \/ BeginRecord(a)
      <3>1. x.pc = "idle"
        BY <2>1 DEF BeginReview, BeginRecord, At
      <3> QED
        BY <1>0, <1>1, <3>1 DEF AdminTurn
    <2>2. CASE Approve(a)
      BY <1>1, <2>2, GotoSame DEF Approve, Recording
    <2>3. CASE Reject(a)
      BY <1>1, <2>3, GotoSame, DoneIdle DEF Reject, Recording, Idle
    <2>4. CASE UndoRecord(a) \/ Notify(a)
      BY <1>1, <2>4, DoneIdle DEF UndoRecord, Notify, Recording, Idle
    <2> QED
      BY <1>4, <2>1, <2>2, <2>3, <2>4
  <1> QED
    BY <1>2, <1>3, <1>4 DEF AdminStep

\* A request stops recording when its row is approved or, if nothing fails, taken back.
LEMMA RecordingEnds ==
    ASSUME IInv, ~Faults, NEW a \in Handlers, AdminStep(a), Recording(a), ~Recording(a)'
    PROVE  pay'[req[a].pay].status # "PENDING"
  <1>1. TypeOK /\ AdminTurn(req[a], req'[a])
    BY AdminTurns DEF IInv
  <1>2. pay \in [Payments -> Row] /\ req[a].pay \in Payments
    BY DEF IInv, TypeOK, Request, RequestsFit, Fits, OnRow, Recording
  <1>3. req[a].pc \in {"approve", "credit", "undo"} /\ req[a].record
    BY DEF Recording
  <1>4. CASE CheckAccount(a) \/ ApproveFails(a)
    <2>1. req[a].pc \in {"approve", "credit"} /\ (Goto(a, "credit") \/ Goto(a, "undo"))
      BY <1>3, <1>4 DEF CheckAccount, ApproveFails, At, Fail
    <2>2. Recording(a)'
      BY <1>1, <1>3, <2>1, GotoSame DEF Recording, Same
    <2> QED
      BY <2>2
  <1>5. CASE Approve(a)
    <2> DEFINE new == [pay[req[a].pay] EXCEPT !.status = "APPROVED", !.txn = nextTxn]
    <2>1. new.status = "APPROVED"
      BY <1>2 DEF Row
    <2>2. pay' = [pay EXCEPT ![req[a].pay] = new]
      BY <1>5 DEF Approve, CreditAndApprove
    <2> HIDE DEF new
    <2> QED
      BY <1>2, <2>1, <2>2
  <1>6. CASE UndoRecord(a)
    BY <1>2, <1>6 DEF UndoRecord, Row
  <1> QED
    BY <1>3, <1>4, <1>5, <1>6 DEF AdminStep, BeginReview, Reject, BeginRecord, CreateRecord, Notify, At

-----------------------------------------------------------------------------
(* No row is left half made.                                               *)

HalfMadeHeld == \A p \in Payments : pay[p].recorded /\ Open(p)
                    => \E a \in Admins : Recording(a) /\ req[a].pay = p
RInv == RecordsFit /\ (~Faults => HalfMadeHeld)

\* A step after which every half-made row is one from before or the request's own, and after which
\* the request still works on the row it recorded while that row is open.
RecordStep(h) ==
    /\ Alone(h)
    /\ RecordFits(h)'
    /\ ~Faults => /\ \A p \in Payments : pay'[p].recorded /\ Open(p)'
                        => (pay[p].recorded /\ Open(p)) \/ (Recording(h)' /\ req'[h].pay = p)
                  /\ Recording(h) /\ pay'[req[h].pay].status = "PENDING"
                        => Recording(h)' /\ req'[h].pay = req[h].pay

LEMMA RecordKept == ASSUME RInv, NEW h \in Handlers, RecordStep(h) PROVE RInv'
  <1>1. \A k \in Handlers : k # h => req'[k] = req[k]
    BY DEF RecordStep, Alone
  <1>2. RecordsFit'
    BY <1>1 DEF RInv, RecordsFit, RecordFits, RecordStep, At
  <1>3. ASSUME ~Faults, NEW p \in Payments, pay'[p].recorded, Open(p)'
        PROVE  \E a \in Admins : Recording(a)' /\ req'[a].pay = p
    <2>1. CASE Recording(h)' /\ req'[h].pay = p
      <3>1. h \in Admins
        BY <2>1 DEF RecordStep, RecordFits, Recording
      <3> QED
        BY <2>1, <3>1
    <2>2. CASE ~(Recording(h)' /\ req'[h].pay = p)
      <3>1. pay[p].recorded /\ Open(p)
        BY <1>3, <2>2 DEF RecordStep
      <3>2. PICK a \in Admins : Recording(a) /\ req[a].pay = p
        BY <1>3, <3>1 DEF RInv, HalfMadeHeld
      <3>3. a # h
        BY <1>3, <2>2, <3>2 DEF RecordStep, Open
      <3> QED
        BY <1>1, <3>2, <3>3 DEF Recording, Handlers
    <2> QED
      BY <2>1, <2>2
  <1> QED
    BY <1>2, <1>3 DEF RInv, HalfMadeHeld

\* What is half made after a step was so before, or was just recorded.
LEMMA HalfMadeBefore ==
    ASSUME IInv, RecordsFit, NEW h \in Handlers, RowStepBy(h), NEW p \in Payments,
           At(h, "create") /\ req'[h].pc = "approve" => req'[h].record,
           pay'[p].recorded, Open(p)'
    PROVE  (pay[p].recorded /\ Open(p)) \/ (Recording(h)' /\ req'[h].pay = p)
  <1>1. CASE UNCHANGED pay
    BY <1>1 DEF Open
  <1>2. ASSUME NEW q \in Payments, Changes(h, q), q # p
        PROVE  pay[p].recorded /\ Open(p)
    BY <1>2 DEF Changes, Others, Open
  <1>3. CASE Changes(h, p)
    <2>1. Submits(h, p)
      BY <1>3 DEF Changes, Approves, Rejects, TakesBack, Open
    <2>2. req[h].record /\ ~At(h, "commit")
      BY <2>1 DEF Submits, RecordsFit, RecordFits, Reviewing, At
    <2> QED
      BY <2>1, <2>2 DEF Submits, Recording
  <1> QED
    BY <1>1, <1>2, <1>3, RowForms

LEMMA RecordingKept == IInv /\ RInv /\ [Next]_vars => RInv'
  <1> SUFFICES ASSUME IInv, RInv, [Next]_vars PROVE RInv'
    OBVIOUS
  <1>0. TypeOK /\ RecordsFit
    BY DEF IInv, RInv
  <1>1. ASSUME NEW r \in Residents, ResidentStep(r) PROVE RInv'
    <2>1. r \in Handlers /\ RowStepBy(r) /\ Alone(r)
      BY <1>0, <1>1, ResidentRowStep, ResidentTurns DEF Handlers
    <2>2. RecordFits(r)' /\ ~Recording(r) /\ ~At(r, "create")
      BY <1>0, <1>1, ResidentRecords
    <2> QED
      BY <1>0, <2>1, <2>2, HalfMadeBefore, RecordKept DEF RecordStep
  <1>2. ASSUME NEW a \in Admins, AdminStep(a) PROVE RInv'
    <2>1. a \in Handlers /\ RowStepBy(a) /\ Alone(a) /\ AdminTurn(req[a], req'[a])
      BY <1>0, <1>2, AdminRowStep, AdminTurns DEF Handlers
    <2>2. RecordFits(a)' /\ RecordFits(a)
      BY <1>0, <1>2, <2>1, AdminRecords DEF RecordsFit
    <2>3. At(a, "create") /\ req'[a].pc = "approve" => req'[a].record
      BY <2>1, <2>2 DEF AdminTurn, RecordFits, At, Idle, Same
    <2>4. ASSUME ~Faults, Recording(a), pay'[req[a].pay].status = "PENDING"
          PROVE  Recording(a)' /\ req'[a].pay = req[a].pay
      <3>1. Recording(a)'
        BY <1>2, <2>1, <2>4, RecordingEnds
      <3>2. req[a].pc \in {"approve", "credit", "undo"} /\ req'[a].pc \in {"approve", "credit", "undo"}
            /\ req'[a].record /\ Idle.pc = "idle"
        BY <2>4, <3>1 DEF Recording, Idle
      <3>3. Same(req[a], req'[a])
        BY <2>1, <3>2 DEF AdminTurn
      <3> QED
        BY <3>1, <3>3 DEF Same
    <2> QED
      BY <1>0, <2>1, <2>2, <2>3, <2>4, HalfMadeBefore, RecordKept DEF RecordStep
  <1>3. CASE UNCHANGED vars \/ SetVerification \/ \E c \in Accounts : AccountStep(c)
    <2>1. UNCHANGED <<pay, req>>
      BY <1>3 DEF vars, SetVerification, AccountStep, CreateAccount, RemoveAccount, UpdateAccount, rows
    <2> QED
      BY <2>1 DEF RInv, RecordsFit, RecordFits, HalfMadeHeld, Recording, Open, At
  <1>4. CASE Crash
    <2>1. Faults /\ \A h \in Handlers : req'[h].record = FALSE /\ req'[h].pc = "idle"
      BY <1>4 DEF Crash, Idle
    <2> QED
      BY <2>1 DEF RInv, RecordsFit, RecordFits, At
  <1> QED
    BY <1>1, <1>2, <1>3, <1>4 DEF Next

LEMMA RecordsKept == Spec => []RInv
  <1>1. Init => RInv
    <2> SUFFICES ASSUME Init PROVE RInv
      OBVIOUS
    <2>1. \A h \in Handlers : req[h].record = FALSE /\ req[h].pc = "idle"
      BY DEF Init, Idle
    <2>2. \A p \in Payments : ~Open(p)
      BY DEF Init, NoRow, Open
    <2> QED
      BY <2>1, <2>2 DEF RInv, RecordsFit, RecordFits, HalfMadeHeld, At
  <1> QED
    BY <1>1, RecordingKept, Invariance, PTL DEF Spec

\* A payment an admin records is approved or taken back by the time the request is over: none stays
\* PENDING for others to approve, whatever requests of whoever interleave, unless the server died or
\* the delete itself failed.
THEOREM NoneHalfMade == Spec => []NoHalfMadeRow
  <1>1. RInv => NoHalfMadeRow
    <2> SUFFICES ASSUME RInv, ~Faults, \A a \in Admins : At(a, "idle"), NEW p \in Payments,
                        pay[p].recorded, Open(p)
                 PROVE  FALSE
      BY DEF NoHalfMadeRow
    <2> QED
      BY DEF RInv, HalfMadeHeld, Recording, At
  <1> QED
    BY <1>1, RecordsKept, PTL

-----------------------------------------------------------------------------
(* One admin, and every payment reviewed: nobody else decides the row      *)
(* recordForFlat works on.                                                 *)

Unrivalled == (\A a, b \in Admins : a = b) /\ VerifySettings \subseteq {TRUE}
NoRecording == "record" \notin AdminOps

\* A resident's request that will not approve anything by itself.
Calm(x) == /\ ~x.auto
           /\ x.pay # NoPay => x.pc \in {"attach", "attachStore", "attachLink", "attachUndo", "retry"}
           /\ x.pc \in {"idle", "lookup", "config", "accounts", "upload", "commit", "clean", "cleanDup",
                        "relookup", "attach", "attachStore", "attachLink", "attachUndo", "retry"}

TInv == /\ verify = TRUE
        /\ \A r \in Residents : Calm(req[r])
        /\ \A a \in Admins : Recording(a) => Open(req[a].pay)

LEMMA StaysCalm ==
    ASSUME verify = TRUE, NEW x, NEW y, Calm(x), x.auto \in BOOLEAN, y.auto \in BOOLEAN,
           ResidentTurn(x, y)
    PROVE  Calm(y)
  <1>1. Idle.pay = NoPay /\ Idle.pc = "idle" /\ Idle.auto = FALSE
    BY DEF Idle
  <1>2. CASE y = Idle
    BY <1>1, <1>2 DEF Calm
  <1>3. CASE Same(x, y) /\ <<x.pc, y.pc>> \in Onward
    BY <1>3 DEF Calm, Same, Onward
  <1> QED
    BY <1>2, <1>3 DEF ResidentTurn, Calm, Same

\* While a resident's request is calm, what it does to the rows leaves the open ones alone.
LEMMA CalmRows ==
    ASSUME IInv, NEW r \in Handlers, Calm(req[r]), RowStepBy(r), NEW p \in Payments, Open(p)
    PROVE  Open(p)'
  <1>1. CASE UNCHANGED pay
    BY <1>1 DEF Open
  <1>2. ASSUME NEW q \in Payments, Changes(r, q) PROVE q # p /\ Others(q)
    BY <1>2 DEF Changes, Submits, Approves, Rejects, TakesBack, Calm, Open, At
  <1> QED
    BY <1>1, <1>2, RowForms DEF Others, Open

LEMMA TakesTurns == Unrivalled /\ IInv /\ RInv /\ TInv /\ [Next]_vars => TInv'
  <1> SUFFICES ASSUME Unrivalled, IInv, RInv, TInv, [Next]_vars PROVE TInv'
    OBVIOUS
  <1>0. TypeOK /\ RecordsFit /\ \A h \in Handlers : req[h] \in Request /\ Fits(req[h])
    BY DEF IInv, RInv, TypeOK, RequestsFit
  <1>1. \A a \in Admins : Recording(a) => req[a].pay \in Payments
    BY <1>0 DEF Fits, OnRow, Recording, Request, Handlers
  <1>2. ASSUME NEW r \in Residents, ResidentStep(r) PROVE TInv'
    <2>1. r \in Handlers /\ Alone(r) /\ ResidentTurn(req[r], req'[r]) /\ RowStepBy(r) /\ r \notin Admins
      BY <1>0, <1>2, ResidentTurns, ResidentRowStep, Disjoint DEF Handlers
    <2>2. verify' = verify
      BY <1>2 DEF ResidentStep, BeginSubmit, Found, NotFound, ReadConfig, ReadAccounts, Upload, Commit,
         CommitFails, Clean, Attach, AttachStore, AttachLink, AttachUndo, Retry, AutoCommit, Notify, config
    <2>3. req' \in [Handlers -> Request]
      BY NextIInv DEF IInv, TypeOK
    <2>4. Calm(req'[r])
      BY <1>0, <2>1, <2>3, StaysCalm DEF TInv, Request
    <2>5. \A k \in Residents : Calm(req[k])'
      BY <2>1, <2>4 DEF TInv, Alone, Calm, Handlers
    <2>6. \A a \in Admins : req'[a] = req[a]
      BY <2>1 DEF Alone, Handlers
    <2>7. \A a \in Admins : Recording(a)' => Open(req[a].pay)'
      <3> SUFFICES ASSUME NEW a \in Admins, Recording(a) PROVE pay'[req[a].pay].status = "PENDING"
        BY <2>6 DEF Recording, Open
      <3> QED
        BY <1>1, <2>1, CalmRows DEF TInv, Open
    <2> QED
      BY <2>2, <2>5, <2>7 DEF TInv
  <1>3. ASSUME NEW a \in Admins, AdminStep(a) PROVE TInv'
    <2>1. a \in Handlers /\ Alone(a) /\ \A b \in Admins : b = a
      BY <1>0, <1>3, AdminTurns DEF Handlers, Unrivalled
    <2>2. verify' = verify
      BY <1>3 DEF AdminStep, BeginReview, CheckAccount, Approve, ApproveFails, Reject, BeginRecord,
                  CreateRecord, UndoRecord, Notify, config
    <2>3. \A k \in Residents : req'[k] = req[k]
      BY <2>1, Disjoint DEF Alone, Handlers
    <2>4. \A k \in Residents : Calm(req[k])'
      BY <2>3 DEF TInv, Calm
    <2>5. Recording(a)' => Open(req[a].pay)'
      BY <1>3, <2>1, RecordingGoesOn DEF TInv, Open
    <2> QED
      BY <2>1, <2>2, <2>4, <2>5 DEF TInv
  <1>4. CASE UNCHANGED vars \/ SetVerification \/ \E c \in Accounts : AccountStep(c)
    <2>1. UNCHANGED <<pay, req>> /\ verify' = TRUE
      BY <1>4 DEF vars, SetVerification, AccountStep, CreateAccount, RemoveAccount, UpdateAccount, rows,
                  TInv, Unrivalled
    <2> QED
      BY <2>1 DEF TInv, Calm, Recording, Open
  <1>5. CASE Crash
    <2>1. \A h \in Handlers : req'[h] = Idle
      BY <1>5 DEF Crash
    <2>2. verify' = verify /\ Idle.pc = "idle" /\ Idle.pay = NoPay /\ Idle.auto = FALSE
      BY <1>5 DEF Crash, config, Idle
    <2> QED
      BY <2>1, <2>2 DEF TInv, Calm, Recording, Handlers
  <1> QED
    BY <1>2, <1>3, <1>4, <1>5 DEF Next

\* What recordForFlat takes back is still open when it does.
Timely == \A h \in Handlers : At(h, "undo") => Open(req[h].pay)
Orderly == NoRecording \/ Unrivalled

LEMMA TakenBackInTime == ASSUME Orderly PROVE Spec => []Timely
  <1>1. CASE NoRecording
    <2>1. RInv => Timely
      BY <1>1 DEF NoRecording, RInv, RecordsFit, RecordFits, Timely
    <2> QED
      BY <2>1, RecordsKept, PTL
  <1>2. CASE Unrivalled
    <2>1. Init => TInv
      <3> SUFFICES ASSUME Init PROVE TInv
        OBVIOUS
      <3>1. \A h \in Handlers : req[h].pc = "idle" /\ req[h].pay = NoPay /\ req[h].auto = FALSE
        BY DEF Init, Idle
      <3>2. verify = TRUE
        BY <1>2 DEF Init, Unrivalled
      <3> QED
        BY <3>1, <3>2 DEF TInv, Calm, Recording, Handlers
    <2>2. IInv /\ RInv /\ TInv /\ [Next]_vars => TInv'
      BY <1>2, TakesTurns
    <2>3. RInv /\ TInv => Timely
      BY DEF RInv, RecordsFit, RecordFits, TInv, Recording, Timely, At
    <2> QED
      BY <2>1, <2>2, <2>3, RecordsKept, Invariance, PTL DEF Spec
  <1> QED
    BY <1>1, <1>2 DEF Orderly

-----------------------------------------------------------------------------
(* One row for a reference, one entry for a row.                           *)

OneRowPerUtr == \A p, q \in Payments :
                    Live(p) /\ Live(q) /\ pay[p].utr = pay[q].utr /\ pay[p].utr # NoUtr => p = q
UtrCopied == \A l \in ledger : l.utr = pay[l.pay].utr
UInv == OneRowPerUtr /\ UtrCopied /\ TakenBackUnsettled

\* A reference stays with one row when the row that changes keeps its own or takes a free one.
LEMMA StaysOne ==
    ASSUME OneRowPerUtr, NEW p \in Payments, Others(p),
           \/ pay'[p].utr = pay[p].utr /\ (Live(p) \/ ~Live(p)')
           \/ WithUtr(pay'[p].utr) = {}
    PROVE  OneRowPerUtr'
  <1> SUFFICES ASSUME NEW q \in Payments, NEW s \in Payments, Live(q)', Live(s)',
                      pay'[q].utr = pay'[s].utr, pay'[q].utr # NoUtr, q # s
               PROVE  FALSE
    BY DEF OneRowPerUtr
  <1>1. ASSUME NEW t \in Payments, t # p, Live(p)', Live(t)', pay'[t].utr = pay'[p].utr,
               pay'[p].utr # NoUtr
        PROVE  FALSE
    <2>1. Live(t) /\ pay[t].utr = pay'[p].utr
      BY <1>1 DEF Live, Others
    <2>2. CASE pay'[p].utr = pay[p].utr /\ Live(p)
      BY <1>1, <2>1, <2>2 DEF OneRowPerUtr
    <2>3. CASE WithUtr(pay'[p].utr) = {}
      BY <1>1, <2>1, <2>3 DEF WithUtr
    <2> QED
      BY <1>1, <2>2, <2>3
  <1>2. CASE q = p \/ s = p
    BY <1>1, <1>2
  <1>3. CASE q # p /\ s # p
    BY <1>3 DEF OneRowPerUtr, Live, Others
  <1> QED
    BY <1>2, <1>3

LEMMA ReferenceStep ==
    ASSUME IInv, UInv, Timely, NEW h \in Handlers, RowStepBy(h)
    PROVE  UInv'
  <1>1. CASE UNCHANGED <<pay, ledger>>
    BY <1>1 DEF UInv, OneRowPerUtr, UtrCopied, TakenBackUnsettled, Live, Credits
  <1>2. ASSUME NEW p \in Payments, Changes(h, p) PROVE UInv'
    <2>1. pay[p].status \in {"NONE", "PENDING"} /\ Others(p)
      BY <1>2 DEF Changes, Submits, Approves, Rejects, TakesBack, Timely, Open
    <2>2. \A l \in ledger : l.pay \in Payments /\ l.pay # p
      BY <2>1 DEF IInv, TypeOK, LedgerRow, CreditedOnce, Credits
    <2>3. OneRowPerUtr'
      BY <1>2, <2>1, StaysOne DEF Changes, Submits, Approves, Rejects, TakesBack, UInv, Live, Open
    <2>4. UNCHANGED ledger \/ (Entered(p) /\ pay'[p].status # "DELETED")
      BY <1>2 DEF Changes, Submits, Approves, Rejects, TakesBack
    <2>5. UtrCopied'
      BY <2>1, <2>2, <2>4 DEF UInv, UtrCopied, Entered, Others
    <2>6. TakenBackUnsettled'
      BY <2>1, <2>2, <2>4 DEF UInv, TakenBackUnsettled, Entered, Others, Credits
    <2> QED
      BY <2>3, <2>5, <2>6 DEF UInv
  <1> QED
    BY <1>1, <1>2, RowForms

LEMMA ReferencesKept == ASSUME Orderly PROVE Spec => []UInv
  <1>1. Init => UInv
    <2> SUFFICES ASSUME Init PROVE UInv
      OBVIOUS
    <2>1. ledger = {} /\ \A p \in Payments : pay[p].status = "NONE"
      BY DEF Init, NoRow
    <2> QED
      BY <2>1 DEF UInv, OneRowPerUtr, UtrCopied, TakenBackUnsettled, Live, Credits
  <1>2. IInv /\ UInv /\ Timely /\ [Next]_vars => UInv'
    <2> SUFFICES ASSUME IInv, UInv, Timely, [Next]_vars PROVE UInv'
      OBVIOUS
    <2>1. CASE UNCHANGED <<pay, money>>
      BY <2>1 DEF UInv, OneRowPerUtr, UtrCopied, TakenBackUnsettled, Live, Credits, money
    <2> QED
      BY <2>1, NextRowStep, ReferenceStep DEF RowStep
  <1> QED
    BY <1>1, <1>2, TakenBackInTime, Invariance, PTL DEF Spec

\* What recordForFlat takes back had settled nothing, when nobody records on a flat's behalf or when
\* payments are always reviewed and one admin reviews them: no other request can then decide the row
\* between its creation and the delete.
THEOREM TakenBackNothing == ASSUME Orderly PROVE Spec => []TakenBackUnsettled
  <1>1. UInv => TakenBackUnsettled
    BY DEF UInv
  <1> QED
    BY <1>1, ReferencesKept, PTL

\* Under the same conditions a bank reference is credited to the books at most once: however many
\* residents submit it at once, however often, and whoever approves or records it.
THEOREM ReferenceCreditedOnce == ASSUME Orderly PROVE Spec => []OneCreditPerUtr
  <1>1. IInv /\ UInv => OneCreditPerUtr
    <2> SUFFICES ASSUME IInv, UInv, NEW k \in ledger, NEW l \in ledger, k.utr = l.utr, k.utr # NoUtr
                 PROVE  k = l
      BY DEF OneCreditPerUtr
    <2>1. k.pay \in Payments /\ l.pay \in Payments
      BY DEF IInv, TypeOK, LedgerRow
    <2>2. pay[k.pay].status = "APPROVED" /\ pay[l.pay].status = "APPROVED"
      BY <2>1 DEF IInv, CreditedOnce, Credits, UInv, TakenBackUnsettled
    <2>3. k.pay = l.pay
      BY <2>1, <2>2 DEF UInv, UtrCopied, OneRowPerUtr, Live
    <2> QED
      BY <2>1, <2>2, <2>3 DEF IInv, CreditedOnce, Credits
  <1> QED
    BY <1>1, ReferencesKept, Invariance, PTL

-----------------------------------------------------------------------------
(* Who tells the payer.                                                    *)

\* A decision is told of by the one request that made it.
ToldOnceDecided == \A p \in Payments : told[p] <= 1 /\ (told[p] > 0 => Decided(p))
TellerDecided == \A h \in Handlers : At(h, "notify") => Decided(req[h].pay) /\ told[req[h].pay] = 0
OneTeller == \A h, k \in Handlers :
                 At(h, "notify") /\ At(k, "notify") /\ req[h].pay = req[k].pay => h = k
DInv == ToldOnceDecided /\ TellerDecided /\ OneTeller

\* The request is about to tell of a decision it has just made.
Tells(h) == \E p \in Payments : req'[h].pay = p /\ ~Decided(p) /\ pay'[p].status \in {"APPROVED", "REJECTED"}

LEMMA DecidedStay ==
    ASSUME IInv, Timely, NEW h \in Handlers, RowStepBy(h), NEW p \in Payments, Decided(p)
    PROVE  Decided(p)'
  <1>1. CASE UNCHANGED pay
    BY <1>1 DEF Decided
  <1>2. ASSUME NEW q \in Payments, Changes(h, q) PROVE q # p /\ Others(q)
    BY <1>2 DEF Changes, Submits, Approves, Rejects, TakesBack, Timely, Open, Decided
  <1> QED
    BY <1>1, <1>2, RowForms DEF Others, Decided

LEMMA TellingStep ==
    ASSUME IInv, DInv, Timely, NEW h \in Handlers, Alone(h), RowStepBy(h), UNCHANGED told,
           req'[h].pc = "notify" => Tells(h)
    PROVE  DInv'
  <1>1. \A k \in Handlers : At(k, "notify") => req[k].pay \in Payments
    BY DEF IInv, TypeOK, Request, RequestsFit, At, Fits, OnRow
  <1>2. \A p \in Payments : Decided(p) => Decided(p)'
    BY DecidedStay
  <1>3. \A k \in Handlers : k # h /\ At(k, "notify")' => At(k, "notify") /\ req'[k] = req[k]
    BY DEF Alone, At
  <1>4. ToldOnceDecided'
    BY <1>2 DEF DInv, ToldOnceDecided
  <1>5. CASE req'[h].pc # "notify"
    <2>1. TellerDecided'
      BY <1>1, <1>2, <1>3, <1>5 DEF DInv, TellerDecided, At, Decided
    <2>2. OneTeller'
      BY <1>3, <1>5 DEF DInv, OneTeller, At
    <2> QED
      BY <1>4, <2>1, <2>2 DEF DInv
  <1>6. CASE req'[h].pc = "notify"
    <2>1. PICK p \in Payments : req'[h].pay = p /\ ~Decided(p) /\ pay'[p].status \in {"APPROVED", "REJECTED"}
      BY <1>6 DEF Tells
    <2>2. told[p] = 0
      BY <2>1 DEF DInv, ToldOnceDecided, IInv, TypeOK
    <2>3. \A k \in Handlers : At(k, "notify") => req[k].pay # p
      BY <2>1 DEF DInv, TellerDecided
    <2>4. TellerDecided'
      BY <1>1, <1>2, <1>3, <2>1, <2>2 DEF DInv, TellerDecided, At, Decided
    <2>5. OneTeller'
      BY <1>3, <2>1, <2>3 DEF DInv, OneTeller, At
    <2> QED
      BY <1>4, <2>4, <2>5 DEF DInv
  <1> QED
    BY <1>5, <1>6

\* An approval of a row that was not decided, by the request that goes on to tell of it.
LEMMA ApprovalTold ==
    ASSUME IInv, NEW h \in Handlers, NEW p \in Payments, NEW row \in Row, NEW a, ~Decided(p),
           CreditAndApprove(p, row, a), req'[h].pay = p
    PROVE  Tells(h)
  <1> DEFINE new == [row EXCEPT !.status = "APPROVED", !.txn = nextTxn]
  <1>1. new.status = "APPROVED" /\ pay' = [pay EXCEPT ![p] = new]
    BY DEF CreditAndApprove, Row
  <1> HIDE DEF new
  <1> QED
    BY <1>1 DEF Tells, IInv, TypeOK

LEMMA ResidentTells ==
    ASSUME IInv, NEW r \in Handlers, ResidentStep(r), ~Notify(r)
    PROVE  UNCHANGED told /\ (req'[r].pc = "notify" => Tells(r))
  <1>1. TypeOK /\ req[r] \in Request /\ Fits(req[r]) /\ ResidentTurn(req[r], req'[r]) /\ Idle.pc = "idle"
    BY ResidentTurns DEF IInv, TypeOK, RequestsFit, Idle
  <1>2. UNCHANGED told
    BY DEF ResidentStep, BeginSubmit, Found, NotFound, ReadConfig, ReadAccounts, Upload, Commit,
       CommitFails, Clean, Attach, AttachStore, AttachLink, AttachUndo, Retry, AutoCommit
  <1>3. SUFFICES ASSUME req'[r].pc = "notify" PROVE Tells(r)
    BY <1>2
  <1>4. CASE Commit(r)
    <2>1. ~Done(r)
      BY <1>1, <1>3, DoneIdle
    <2>2. PICK p \in Fresh : /\ CreditAndApprove(p, NewRow(r), req[r].acct)
                             /\ req' = [req EXCEPT ![r].pc = "notify", ![r].pay = p]
      BY <1>4, <2>1 DEF Commit
    <2>3. req'[r].pay = p
      <3>1. req' = [req EXCEPT ![r].pay = p, ![r].pc = "notify"]
        BY <1>1, <2>2 DEF TypeOK, Request
      <3> QED
        BY <1>1, <3>1, PayFound DEF OfRow
    <2>4. NewRow(r) \in Row
      BY <1>1, <1>4, NewRowTyped DEF Commit, At, Fits, Reviewing
    <2>5. p \in Payments /\ ~Decided(p)
      BY DEF Fresh, Decided
    <2> QED
      BY <2>2, <2>3, <2>4, <2>5, ApprovalTold
  <1>5. CASE AutoCommit(r)
    <2>1. ~Done(r)
      BY <1>1, <1>3, DoneIdle
    <2>2. /\ Open(req[r].pay) /\ CreditAndApprove(req[r].pay, pay[req[r].pay], req[r].acct)
          /\ Goto(r, "notify") /\ At(r, "autoCommit")
      BY <1>5, <2>1 DEF AutoCommit
    <2>3. req[r].pay \in Payments /\ req'[r].pay = req[r].pay
      BY <1>1, <2>2, GotoSame DEF Fits, OnRow, Request, At, Same
    <2>4. pay[req[r].pay] \in Row /\ ~Decided(req[r].pay)
      BY <1>1, <2>2, <2>3 DEF TypeOK, Open, Decided
    <2> QED
      BY <2>2, <2>3, <2>4, ApprovalTold
  <1>6. CASE CommitFails(r)
    BY <1>1, <1>3, <1>6, GotoSame DEF CommitFails
  <1>7. CASE \/ BeginSubmit(r) \/ Found(r) \/ NotFound(r) \/ ReadConfig(r) \/ ReadAccounts(r) \/ Upload(r)
             \/ Clean(r) \/ Attach(r) \/ AttachStore(r) \/ AttachLink(r) \/ AttachUndo(r) \/ Retry(r)
    <2>1. req[r].pc \notin {"commit", "autoCommit"}
      BY <1>7 DEF BeginSubmit, Found, NotFound, ReadConfig, ReadAccounts, Upload, Clean, Attach,
                  AttachStore, AttachLink, AttachUndo, Retry, At
    <2> QED
      BY <1>1, <1>3, <2>1 DEF ResidentTurn, Onward
  <1> QED
    BY <1>4, <1>5, <1>6, <1>7 DEF ResidentStep

LEMMA AdminTells ==
    ASSUME IInv, NEW a \in Handlers, AdminStep(a), ~Notify(a)
    PROVE  UNCHANGED told /\ (req'[a].pc = "notify" => Tells(a))
  <1>1. TypeOK /\ req[a] \in Request /\ Fits(req[a]) /\ AdminTurn(req[a], req'[a]) /\ Idle.pc = "idle"
    BY AdminTurns DEF IInv, TypeOK, RequestsFit, Idle
  <1>2. UNCHANGED told
    BY DEF AdminStep, BeginReview, CheckAccount, Approve, ApproveFails, Reject, BeginRecord,
           CreateRecord, UndoRecord
  <1>3. SUFFICES ASSUME req'[a].pc = "notify" PROVE Tells(a)
    BY <1>2
  <1>4. ~Done(a)
    BY <1>1, <1>3, DoneIdle
  <1>5. CASE Approve(a) \/ Reject(a)
    <2>1. Goto(a, "notify") /\ Open(req[a].pay) /\ req[a].pc \in {"credit", "reject"}
      BY <1>4, <1>5 DEF Approve, Reject, At
    <2>2. req[a].pay \in Payments /\ req'[a].pay = req[a].pay
      BY <1>1, <2>1, GotoSame DEF Fits, OnRow, Request, Same
    <2>3. pay[req[a].pay] \in Row /\ ~Decided(req[a].pay)
      BY <1>1, <2>1, <2>2 DEF TypeOK, Open, Decided
    <2>4. CASE Approve(a)
      BY <2>2, <2>3, <2>4, ApprovalTold DEF Approve
    <2>5. CASE Reject(a)
      <3>1. pay' = [pay EXCEPT ![req[a].pay].status = "REJECTED"]
        BY <1>4, <2>5 DEF Reject
      <3>2. pay'[req[a].pay].status = "REJECTED"
        BY <1>1, <2>2, <2>3, <3>1 DEF TypeOK, Row
      <3> QED
        BY <2>2, <2>3, <3>2 DEF Tells
    <2> QED
      BY <1>5, <2>4, <2>5
  <1>6. CASE ApproveFails(a)
    BY <1>1, <1>3, <1>4, <1>6, GotoSame DEF ApproveFails, Fail
  <1>7. CASE BeginReview(a) \/ CheckAccount(a) \/ BeginRecord(a) \/ CreateRecord(a) \/ UndoRecord(a)
    <2>1. req[a].pc \notin {"credit", "reject"}
      BY <1>7 DEF BeginReview, CheckAccount, BeginRecord, CreateRecord, UndoRecord, At
    <2> QED
      BY <1>1, <1>3, <2>1 DEF AdminTurn
  <1> QED
    BY <1>5, <1>6, <1>7 DEF AdminStep

LEMMA NotifyStep ==
    ASSUME IInv, DInv, NEW h \in Handlers, Notify(h)
    PROVE  DInv'
  <1>1. req[h] \in Request /\ Fits(req[h]) /\ req[h].pc = "notify"
    BY DEF IInv, TypeOK, RequestsFit, Notify, At
  <1>2. PICK p \in Payments : p = req[h].pay
    BY <1>1 DEF Fits, OnRow, Request
  <1>3. Alone(h) /\ req'[h].pc = "idle" /\ UNCHANGED pay
    BY DoneIdle DEF Notify, rows, IInv, Idle
  <1>4. told[p] = 0 /\ Decided(p)
    BY <1>1, <1>2 DEF DInv, TellerDecided, At
  <1>5. told'[p] \in {0, 1} /\ \A q \in Payments : q # p => told'[q] = told[q]
    BY <1>2, <1>4 DEF IInv, TypeOK, Notify
  <1>6. \A k \in Handlers : At(k, "notify")' => At(k, "notify") /\ req'[k] = req[k] /\ k # h
    BY <1>3 DEF Alone, At
  <1>7. \A k \in Handlers : At(k, "notify") => req[k].pay \in Payments /\ (k # h => req[k].pay # p)
    BY <1>1, <1>2 DEF DInv, OneTeller, IInv, TypeOK, Request, RequestsFit, At, Fits, OnRow
  <1>8. ToldOnceDecided'
    BY <1>3, <1>4, <1>5 DEF DInv, ToldOnceDecided, Decided
  <1>9. TellerDecided' /\ OneTeller'
    BY <1>3, <1>5, <1>6, <1>7 DEF DInv, TellerDecided, OneTeller, Decided, At
  <1> QED
    BY <1>8, <1>9 DEF DInv

LEMMA DecisionsGoOn == IInv /\ Timely /\ DInv /\ [Next]_vars => DInv'
  <1> SUFFICES ASSUME IInv, Timely, DInv, [Next]_vars PROVE DInv'
    OBVIOUS
  <1>1. ASSUME NEW r \in Residents, ResidentStep(r) PROVE DInv'
    <2>1. r \in Handlers /\ RowStepBy(r) /\ Alone(r)
      BY <1>1, ResidentRowStep, ResidentTurns DEF Handlers, IInv
    <2> QED
      BY <1>1, <2>1, NotifyStep, ResidentTells, TellingStep
  <1>2. ASSUME NEW a \in Admins, AdminStep(a) PROVE DInv'
    <2>1. a \in Handlers /\ RowStepBy(a) /\ Alone(a)
      BY <1>2, AdminRowStep, AdminTurns DEF Handlers, IInv
    <2> QED
      BY <1>2, <2>1, NotifyStep, AdminTells, TellingStep
  <1>3. CASE \/ UNCHANGED vars \/ SetVerification \/ \E c \in Accounts : AccountStep(c)
    <2>1. UNCHANGED <<pay, told, req>>
      BY <1>3 DEF vars, SetVerification, AccountStep, CreateAccount, RemoveAccount, UpdateAccount, rows
    <2> QED
      BY <2>1 DEF DInv, ToldOnceDecided, TellerDecided, OneTeller, Decided, At
  <1>4. CASE Crash
    <2>1. UNCHANGED <<pay, told>> /\ \A h \in Handlers : req'[h].pc = "idle"
      BY <1>4 DEF Crash, rows, Idle
    <2> QED
      BY <2>1 DEF DInv, ToldOnceDecided, TellerDecided, OneTeller, Decided, At
  <1> QED
    BY <1>1, <1>2, <1>3, <1>4 DEF Next

\* A payer hears at most once of a payment, and only of a decision that stands in the books, through
\* crashes and with any number of handlers, while no row is taken back that another request may have
\* decided: nobody records on a flat's behalf, or one admin reviews every payment.
THEOREM ToldOnce == ASSUME Orderly PROVE Spec => []ToldOfDecision
  <1>1. Init => DInv
    <2> SUFFICES ASSUME Init PROVE DInv
      OBVIOUS
    <2>1. /\ \A p \in Payments : told[p] = 0
          /\ \A h \in Handlers : req[h].pc = "idle"
      BY DEF Init, Idle
    <2> QED
      BY <2>1 DEF DInv, ToldOnceDecided, TellerDecided, OneTeller, At
  <1>2. DInv => ToldOfDecision
    BY DEF DInv, ToldOnceDecided, ToldOfDecision
  <1> QED
    BY <1>1, <1>2, DecisionsGoOn, TakenBackInTime, Invariance, PTL DEF Spec

-----------------------------------------------------------------------------
(* The flow implements the books.                                          *)

BookStatus == [p \in Payments |-> pay[p].status]
BookEntries == [p \in Payments |-> {l.id : l \in Credits(p)}]
BookStutters == BookStatus' = BookStatus /\ BookEntries' = BookEntries

\* One row takes another status.
LEMMA StatusMoves ==
    ASSUME NEW p \in Payments, Others(p)
    PROVE  BookStatus' = [BookStatus EXCEPT ![p] = pay'[p].status]
  BY DEF BookStatus, Others

LEMMA EntriesStay ==
    ASSUME UNCHANGED ledger
    PROVE  BookEntries' = BookEntries
  <1>1. \A p : Credits(p)' = Credits(p)
    BY DEF Credits
  <1> QED
    BY <1>1 DEF BookEntries

\* The new entry of a row that had none.
LEMMA EntryMade ==
    ASSUME NEW p \in Payments, NEW l, ledger' = ledger \cup {l}, l.pay = p, Credits(p) = {}
    PROVE  BookEntries' = [BookEntries EXCEPT ![p] = {l.id}]
  <1>1. Credits(p)' = {l}
    BY DEF Credits
  <1>2. \A q \in Payments : q # p => Credits(q)' = Credits(q)
    BY DEF Credits
  <1>3. {k.id : k \in Credits(p)}' = {l.id}
    BY <1>1
  <1> QED
    BY <1>2, <1>3 DEF BookEntries

LEMMA ApprovalBooked ==
    ASSUME IInv, BooksFit, NEW p \in Payments, NEW row \in Row, NEW a \in Accounts, Settled(p, row, a),
           pay[p].status \in {"NONE", "PENDING"}
    PROVE  Book!Approve(p)
  <1> DEFINE l == [id |-> nextTxn, pay |-> p, acct |-> a, amt |-> row.amt, utr |-> row.utr]
             new == [row EXCEPT !.status = "APPROVED", !.txn = nextTxn]
  <1>1. pay' = [pay EXCEPT ![p] = new] /\ ledger' = ledger \cup {l} /\ new.status = "APPROVED"
        /\ l.pay = p /\ l.id = nextTxn
    BY DEF Settled, CreditAndApprove, Row
  <1> HIDE DEF l, new
  <1>2. Credits(p) = {} /\ Others(p) /\ pay'[p].status = "APPROVED"
    BY <1>1 DEF IInv, TypeOK, CreditedOnce, Others
  <1>3. BookStatus' = [BookStatus EXCEPT ![p] = "APPROVED"]
    BY <1>2, StatusMoves
  <1>4. BookEntries' = [BookEntries EXCEPT ![p] = {nextTxn}]
    BY <1>1, <1>2, EntryMade
  <1>5. nextTxn \in BookEntries'[p]
    BY <1>4 DEF BookEntries
  <1>6. \A q \in Payments : nextTxn \notin BookEntries[q]
    <2>1. \A k \in ledger : k.id # nextTxn
      <3>1. \A k \in ledger : k.id \in Nat /\ k.id < nextTxn /\ nextTxn \in Nat
        BY DEF IInv, TypeOK, LedgerRow, BooksFit
      <3> QED
        BY <3>1
    <2> QED
      BY <2>1 DEF BookEntries, Credits
  <1>7. BookStatus[p] \in {"NONE", "PENDING"}
    BY DEF BookStatus
  <1> QED
    BY <1>3, <1>4, <1>5, <1>6, <1>7 DEF Book!Approve, Book!Become, BookStatus, BookEntries

LEMMA RowBooked ==
    ASSUME IInv, BooksFit, Timely, NEW h \in Handlers, RowStepBy(h)
    PROVE  Book!Next \/ BookStutters
  <1>0. pay \in [Payments -> Row] /\ Fresh \subseteq Payments
    BY DEF IInv, TypeOK, Fresh
  <1>1. CASE UNCHANGED <<pay, money>>
    BY <1>1, EntriesStay DEF BookStatus, BookStutters, money
  <1>2. ASSUME NEW p \in Fresh, Added(p, h) PROVE Book!Next
    <2>1. Others(p) /\ pay'[p].status = "PENDING" /\ UNCHANGED ledger
      BY <1>0, <1>2 DEF Added, Others, NewRow, money
    <2>2. BookStatus' = [BookStatus EXCEPT ![p] = "PENDING"] /\ BookEntries' = BookEntries
      BY <1>0, <2>1, StatusMoves, EntriesStay
    <2>3. BookStatus[p] = "NONE"
      BY <1>0 DEF Fresh, BookStatus
    <2> QED
      BY <1>0, <2>2, <2>3 DEF Book!Next, Book!Submit, Book!Become, BookStatus, BookEntries
  <1>3. ASSUME NEW p \in Payments, NEW row \in Row, NEW a \in Accounts, Settled(p, row, a), Open(p) \/ p \in Fresh
        PROVE  Book!Next
    BY <1>3, ApprovalBooked DEF Book!Next, Open, Fresh
  <1>4. ASSUME NEW p \in Payments, NEW s \in {"REJECTED", "DELETED"}, Open(p), Closed(p, s) PROVE Book!Next
    <2>1. Others(p) /\ pay'[p].status = s /\ UNCHANGED ledger
      BY <1>0, <1>4 DEF Closed, Others, money, Row
    <2>2. BookStatus' = [BookStatus EXCEPT ![p] = s] /\ BookEntries' = BookEntries
      BY <2>1, StatusMoves, EntriesStay
    <2>3. BookStatus[p] = "PENDING"
      BY <1>4 DEF Open, BookStatus
    <2> QED
      BY <2>2, <2>3 DEF Book!Next, Book!Reject, Book!TakeBack, Book!Become, BookStatus, BookEntries
  <1> QED
    BY <1>1, <1>2, <1>3, <1>4 DEF RowStepBy, Timely

\* To the books, whatever requests, retries and restarts it takes, the flow is PaymentBook: a payment
\* is decided once, an approved one has exactly one entry that no other payment has, a row is taken
\* back only while nothing is decided. With two admins, or unreviewed payments, recordForFlat can
\* take back an approved row, which PaymentBook does not do.
THEOREM KeepsTheBook == ASSUME Orderly PROVE Spec => BookSpec
  <1>1. Init => Book!Init
    <2> SUFFICES ASSUME Init PROVE Book!Init
      OBVIOUS
    <2>1. NoRow.status = "NONE" /\ \A p : Credits(p) = {}
      BY DEF Init, NoRow, Credits
    <2> QED
      BY <2>1 DEF Init, Book!Init
  <1>2. IInv /\ MInv /\ Timely /\ [Next]_vars => [Book!Next]_<<BookStatus, BookEntries>>
    <2> SUFFICES ASSUME IInv, MInv, Timely, [Next]_vars PROVE Book!Next \/ BookStutters
      BY DEF BookStutters
    <2>1. CASE UNCHANGED <<pay, money>>
      BY <2>1, EntriesStay DEF BookStatus, BookStutters, money
    <2> QED
      BY <2>1, NextRowStep, RowBooked DEF RowStep, MInv
  <1>3. Book!Init /\ [][Book!Next]_<<BookStatus, BookEntries>> => BookSpec
    BY DEF BookSpec, Book!Spec, BookStatus, BookEntries
  <1> QED
    BY <1>1, <1>2, <1>3, Invariance, BooksKept, TakenBackInTime, PTL DEF Spec
=============================================================================
