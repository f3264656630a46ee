-------------------------------- MODULE Books --------------------------------
(* The society's money apart from the bills: expenses and their payment and *)
(* correction, funds, hand adjustments, salaries, and the recording of an   *)
(* event's cost.  What is read before a transaction is kept in a request.   *)
EXTENDS Integers, FiniteSets

CONSTANTS Accounts, Funds, Expenses, Salaries,
          Linked,      \* the account each fund names, or "none"
          Opening,     \* the balance each account and fund begins with
          Amounts,     \* the sums of money in play
          Calls,       \* requests under way at once
          MaxMoves     \* bound: contributions and adjustments by hand

Purses == Accounts \cup Funds

ASSUME BooksAssumption ==
    /\ Linked \in [Funds -> Accounts \cup {"none"}]
    /\ Opening \in [Purses -> Int]
    /\ Amounts \subseteq Nat \ {0} /\ MaxMoves \in Nat
    /\ Accounts \cap Funds = {} /\ Purses \cap Expenses = {}
    /\ Salaries \cap (Purses \cup Expenses) = {} /\ "none" \notin Purses \cup Expenses \cup Salaries

VARIABLES balance,     \* of each account and fund
          rows,        \* sum of the ledger rows that name an expense
          expense, salary,
          event,       \* the event's actual cost and fund
          lastDebit,   \* the newest row that took an event's cost from a fund
          request,     \* what each call read before its transaction
          moves

booksVars == <<balance, rows, expense, salary, event, lastDebit, request, moves>>

NoRequest == [op |-> "none", id |-> "none", amount |-> 0, purse |-> "none"]
NoExpense == [status |-> "none", amount |-> 0, account |-> "none", fund |-> "none", ofEvent |-> FALSE]

BooksInit ==
    /\ balance = Opening
    /\ rows = [x \in Expenses |-> 0]
    /\ expense = [x \in Expenses |-> NoExpense]
    /\ salary = [s \in Salaries |-> [status |-> "none", net |-> 0, account |-> "none", paid |-> 0]]
    /\ event \in [cost : Amounts, fund : Funds]
    /\ lastDebit = [amount |-> 0, fund |-> "none"]
    /\ request = [c \in Calls |-> NoRequest]
    /\ moves = 0

Shifted(f, S, d) == [k \in DOMAIN f |-> IF k \in S THEN f[k] + d ELSE f[k]]
\* A transaction that moves balances and writes the row that says so.
Move(purses, d, links) ==
    /\ balance' = Shifted(balance, purses, d)
    /\ rows' = Shifted(rows, links, d)
Ask(c, what) == request[c] = NoRequest /\ request' = [request EXCEPT ![c] = what]
Done(c) == request' = [request EXCEPT ![c] = NoRequest]
Some(purse) == {purse} \ {"none"}
Exists(x) == expense[x].status \notin {"none", "deleted"}

\* Expenses.
CreateExpense(x) ==
    /\ expense[x].status = "none"
    /\ \E n \in Amounts, f \in Funds \cup {"none"} :
          expense' = [expense EXCEPT ![x] = [NoExpense EXCEPT !.status = "PENDING", !.amount = n, !.fund = f]]
    /\ UNCHANGED <<balance, rows, salary, event, lastDebit, request, moves>>

Judge(x, verdict) ==
    /\ expense[x].status = "PENDING"
    /\ expense' = [expense EXCEPT ![x].status = verdict]
    /\ UNCHANGED <<balance, rows, salary, event, lastDebit, request, moves>>

\* Out of an account, and of the planned or a named fund unless an event's fund paid already.
\* What was read before the transaction is only looked at for the fund that was planned.
AskPaid(c, x) ==
    /\ Exists(x)
    /\ \E f \in Funds \cup {"none"} :
          /\ expense[x].ofEvent => f = "none"
          /\ Ask(c, [op |-> "spend", id |-> x, amount |-> expense[x].amount, purse |-> f])
    /\ UNCHANGED <<balance, rows, expense, salary, event, lastDebit, moves>>

\* The claim of the approved row, and the amount as it then stands.
Spends(c, n) ==
    LET x == request[c].id
        f == request[c].purse
    IN /\ request[c].op = "spend"
       /\ \/ /\ expense[x].status = "APPROVED"
             /\ f # "none" => balance[f] >= n
             /\ \E a \in Accounts :
                   /\ Move({a} \cup Some(f), -n, {x})
                   /\ expense' = [expense EXCEPT ![x].status = "PAID", ![x].account = a, ![x].fund = f]
          \/ /\ expense[x].status # "APPROVED" \/ (f # "none" /\ balance[f] < n)
             /\ UNCHANGED <<balance, rows, expense>>
       /\ Done(c)
       /\ UNCHANGED <<salary, event, lastDebit, moves>>

MarkPaidAsRead(c) == Spends(c, request[c].amount)
MarkPaid(c) == Spends(c, expense[request[c].id].amount)

\* An edit of the amount, judged by the row as it is under its lock; once it is paid the account
\* and the fund move by the difference.
Correct(x) ==
    /\ expense[x].status \in {"PENDING", "APPROVED", "PAID"}
    /\ expense[x].status = "PENDING" \/ ~expense[x].ofEvent
    /\ \E n \in Amounts \ {expense[x].amount} :
          LET more == n - expense[x].amount
              f == expense[x].fund
          IN /\ expense' = [expense EXCEPT ![x].amount = n]
             /\ IF expense[x].status = "PAID"
                THEN /\ (f # "none" /\ more > 0) => balance[f] >= more
                     /\ Move({expense[x].account} \cup Some(f), -more, {x})
                ELSE UNCHANGED <<balance, rows>>
    /\ UNCHANGED <<salary, event, lastDebit, request, moves>>

\* Deleting: its status is read, and then the row goes whatever it has become.
AskRemove(c, x) ==
    /\ expense[x].status = "PENDING"
    /\ Ask(c, [NoRequest EXCEPT !.op = "remove", !.id = x])
    /\ UNCHANGED <<balance, rows, expense, salary, event, lastDebit, moves>>

Remove(c) ==
    /\ request[c].op = "remove"
    /\ expense' = IF Exists(request[c].id) THEN [expense EXCEPT ![request[c].id].status = "deleted"]
                  ELSE expense
    /\ Done(c)
    /\ UNCHANGED <<balance, rows, salary, event, lastDebit, moves>>

\* Funds and accounts by hand: the fund alone, the fund with an account, or an account alone.
MoveByHand ==
    /\ moves < MaxMoves /\ moves' = moves + 1
    /\ \E n \in Amounts, S \in {{k} : k \in Purses} \cup {{f, a} : f \in Funds, a \in Accounts} :
          \/ Move(S, n, {})
          \/ /\ \E f \in S : (f \in Funds \/ S \subseteq Accounts) /\ balance[f] >= n
             /\ Move(S, -n, {})
    /\ UNCHANGED <<expense, salary, event, lastDebit, request>>

\* Salaries: made out, changed while a draft, paid once.
AskSalary(c, s) ==
    /\ salary[s].status \in {"none", "DRAFT"}
    /\ \E n \in Amounts, a \in Accounts \cup {"none"} :
          Ask(c, [op |-> IF salary[s].status = "none" THEN "make" ELSE "redo", id |-> s,
                  amount |-> n, purse |-> a])
    /\ UNCHANGED <<balance, rows, expense, salary, event, lastDebit, moves>>

\* One salary per employee and month; a draft read a while ago is overwritten as it is now.
ProcessSalary(c) ==
    /\ request[c].op \in {"make", "redo"}
    /\ LET s == request[c].id
           net == [salary EXCEPT ![s].net = request[c].amount, ![s].account = request[c].purse]
       IN salary' = CASE request[c].op = "redo" -> net
                      [] request[c].op = "make" /\ salary[s].status = "none" -> [net EXCEPT ![s].status = "DRAFT"]
                      [] OTHER -> salary
    /\ Done(c)
    /\ UNCHANGED <<balance, rows, expense, event, lastDebit, moves>>

AskPay(c, s) ==
    /\ salary[s].status = "DRAFT" /\ salary[s].account # "none"
    /\ Ask(c, [op |-> "pay", id |-> s, amount |-> salary[s].net, purse |-> salary[s].account])
    /\ UNCHANGED <<balance, rows, expense, salary, event, lastDebit, moves>>

Pays(c) == LET s == request[c].id
           IN /\ Move({request[c].purse}, -request[c].amount, {})
              /\ salary' = [salary EXCEPT ![s].status = "PAID", ![s].paid = @ + 1]

PaySalaryUnclaimed(c) ==
    /\ request[c].op = "pay" /\ Pays(c) /\ Done(c)
    /\ UNCHANGED <<expense, event, lastDebit, moves>>

PaySalary(c) ==
    /\ request[c].op = "pay"
    /\ IF salary[request[c].id].status = "DRAFT" THEN Pays(c) ELSE UNCHANGED <<balance, rows, salary>>
    /\ Done(c)
    /\ UNCHANGED <<expense, event, lastDebit, moves>>

\* Events: the cost becomes an approved expense and leaves the fund; no account moves.
ChangeEvent ==
    /\ event' \in [cost : Amounts, fund : Funds]
    /\ UNCHANGED <<balance, rows, expense, salary, lastDebit, request, moves>>

EventExpenses == {x \in Expenses : Exists(x) /\ expense[x].ofEvent}
AskRecord(c) ==
    /\ EventExpenses = {}
    /\ Ask(c, [NoRequest EXCEPT !.op = "record", !.amount = event.cost, !.purse = event.fund])
    /\ UNCHANGED <<balance, rows, expense, salary, event, lastDebit, moves>>

RecordExpense(c) ==
    /\ request[c].op = "record"
    /\ LET n == request[c].amount
           f == request[c].purse
       IN /\ \E x \in Expenses :
                /\ expense[x].status = "none"
                /\ expense' = [expense EXCEPT ![x] = [NoExpense EXCEPT !.status = "APPROVED", !.amount = n,
                                                        !.account = Linked[f], !.ofEvent = TRUE]]
          /\ Move({f}, -n, {})
          /\ lastDebit' = [amount |-> n, fund |-> f]
    /\ Done(c)
    /\ UNCHANGED <<salary, event, moves>>

AskUnrecord(c, x) ==
    /\ x \in EventExpenses /\ expense[x].status # "PAID"
    /\ Ask(c, [op |-> "unrecord", id |-> x, amount |-> lastDebit.amount, purse |-> lastDebit.fund])
    /\ UNCHANGED <<balance, rows, expense, salary, event, lastDebit, moves>>

UnrecordExpense(c) ==
    /\ request[c].op = "unrecord"
    /\ IF Exists(request[c].id)
       THEN /\ expense' = [expense EXCEPT ![request[c].id].status = "deleted"]
            /\ Move({request[c].purse}, request[c].amount, {})
       ELSE UNCHANGED <<expense, balance, rows>>
    /\ Done(c)
    /\ UNCHANGED <<salary, event, lastDebit, moves>>

SalaryNext ==
    \E c \in Calls : \/ \E s \in Salaries : AskSalary(c, s) \/ AskPay(c, s)
                    \/ ProcessSalary(c) \/ PaySalary(c)

ExpenseNext ==
    \/ \E x \in Expenses : \/ CreateExpense(x) \/ Correct(x)
                           \/ \E v \in {"APPROVED", "REJECTED"} : Judge(x, v)
    \/ \E c \in Calls : \/ \E x \in Expenses : AskPaid(c, x) \/ AskRemove(c, x) \/ AskUnrecord(c, x)
                        \/ MarkPaid(c) \/ AskRecord(c) \/ Remove(c) \/ RecordExpense(c) \/ UnrecordExpense(c)
    \/ ChangeEvent

BooksNext == SalaryNext \/ ExpenseNext \/ MoveByHand

BooksSpec == BooksInit /\ [][BooksNext]_booksVars

ExpenseRow == [status : {"none", "PENDING", "APPROVED", "REJECTED", "PAID", "deleted"},
               amount : Amounts \cup {0}, account : Accounts \cup {"none"},
               fund : Funds \cup {"none"}, ofEvent : BOOLEAN]
SalaryRow == [status : {"none", "DRAFT", "PAID"}, net : Amounts \cup {0},
              account : Accounts \cup {"none"}, paid : 0..1]
Request == [op : {"none", "spend", "remove", "make", "redo", "pay", "record", "unrecord"},
            id : Expenses \cup Salaries \cup {"none"}, amount : Amounts \cup {0},
            purse : Purses \cup {"none"}]
BooksTypeOK ==
    /\ balance \in [Purses -> Int] /\ rows \in [Expenses -> Int]
    /\ expense \in [Expenses -> ExpenseRow] /\ salary \in [Salaries -> SalaryRow]
    /\ event \in [cost : Amounts, fund : Funds]
    /\ lastDebit \in [amount : Amounts \cup {0}, fund : Funds \cup {"none"}]
    /\ request \in [Calls -> Request]
    /\ moves \in 0..MaxMoves

\* "The bank balance never disagrees with the expenses": the rows of a paid expense add up to
\* its amount as it stands, whatever was corrected, and one that is not paid has none.
PaidMatchesRows ==
    \A x \in Expenses : Exists(x) =>
        rows[x] = IF expense[x].status = "PAID" THEN -expense[x].amount ELSE 0

\* "At most one of these ever reports count === 1": a salary is paid once or not yet.
SalaryPaidOnce == \A s \in Salaries : salary[s].paid = IF salary[s].status = "PAID" THEN 1 ELSE 0

\* "Calling this twice for the same event throws rather than silently double-booking".
EventRecordedOnce == Cardinality(EventExpenses) <= 1
=============================================================================
