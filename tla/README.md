# NGHome in TLA+

NGHome is the back office of a housing society: a NestJS API over PostgreSQL
(`src/App`), a Next.js web app (`src/Web`) and an Expo mobile app
(`src/Mobile`). Every society is a tenant of one database. The API holds the
rules; the front ends are screens over it, with an HTTP client each that keeps
the session. These modules model the part of the API that moves money (payments,
bills, fines, advance credit, expenses, salaries, fees, water), the parts where
requests race (the gate, the amenity slots, the refresh tokens), the queue of
WhatsApp messages with the servers that drain it, and the two HTTP clients. TLC
checks them on small instances; TLAPS proves the theorems of section 4 for every
instance.

## 1. What the system is made of

| Component | Where (`src/App/src/`) | State | Operations that change it |
|---|---|---|---|
| Payments | `payments/payments.service.ts` | `payment_submissions`, `transactions`, proof documents | submit (with resume), approve, reject, recordForFlat |
| Settlement and credit | `payments/settlement.ts`, `billing/advance-credit.ts`, `billing/advance-credits.service.ts`, `billing/period-totals.ts` | `flats.creditBalance`, `flat_credit_entries`, bills' paid amounts, periods' totals | settleOldestFirst, applyCreditToPeriod, refund, refreshPeriodTotals |
| Billing periods | `billing/billing.service.ts` | `billing_periods`, `maintenance_bills` | create, generate, publish, close, delete, adjustBill |
| Late fees | `billing/late-fee.service.ts` | a bill's fee and its "fined" stamp | hourly pass, waive |
| Opening balances | `billing/opening-balances.service.ts` | one published bill per flat in an opening period | save, correct |
| Bank accounts | `accounts/accounts.service.ts` | `accounts` | create, update, adjust, remove |
| File storage | `documents/sftp-storage.service.ts` | files on an SFTP server | upload, remove |
| Notifications | `notifications/` | push and stored notices | send, notifyQuietly |
| Billing calculation | `billing/billing-calculator.service.ts`, `billing-rules/`, `billing/flat-discounts*` | rules, discounts | pure, plus edits of one row |
| Sessions | `auth/auth.service.ts` | `refresh_tokens`, `password_reset_tokens` | login, refresh, logout, change and reset of the password, selectSociety |
| Phone client | `src/Mobile/src/api/client.ts`, `auth/`, `notifications/push.ts` | the secure store's two tokens, the push token, the queue of requests behind a refresh | any request, the shared refresh, the logout |
| Web client | `src/Web/lib/server/backend-request.ts` and the routes over it | two cookies | any request, a rotation of its own, login and logout |
| Membership, platform admins | `users/`, `platform/`, `societies/` | memberships, users, societies | join, approve, reject, remove, assign, (de)activate, purge |
| WhatsApp queue | `whatsapp/whatsapp.service.ts` | `whatsapp_messages` | enqueue, drain, retry, cancel |
| Gate | `visitors/`, `deliveries/`, `helpers/`, `vehicles/`, `attendance/` | entries, invitations, parcels, visits, slots, shifts | register, decide, scan, check in and out, expire |
| Amenities | `amenities/amenities.service.ts` | bookings with a fee | book, decide, cancel, collect, waive |
| Spending | `expenses/`, `funds/`, `salaries/`, `events/` | expenses, funds, salary records | approve, pay, correct, contribute, adjust |
| Water | `water/` | readings, shared costs | read, allocate |
| Talk | `helpdesk/`, `forum/`, `chat/`, `meetings/`, `announcements/`, `statements/` | one row at a time | create, edit |

How they interact. Every request is an async handler. What it reads before its
database transaction may be stale when the transaction runs; the services guard
against that with conditional updates (`updateMany ... where status = ...`, "the
claim"), unique indexes and row locks. Approving a payment calls settlement,
settlement calls the refresh of the period's totals; publishing a period calls
applyCreditToPeriod, which does too. Files are stored before the transaction
and removed after a failed one; notices and WhatsApp messages are sent after a
commit, and their failure is swallowed. Timers (late fees, the WhatsApp drain)
run beside the handlers in the same process, and there may be two processes.

What is hard in it: retries of a submission whose answer was lost; two
requests on one payment, bill or period; checks outside the transaction that
relies on them; a failure between two transactions of one handler
(recordForFlat) or between a store and its row; rows locked in different orders;
totals that are read and then written. `PROJECT.json` lists each under
`hazards`, at its line, with the properties that cover it or the reason why none
does.

What correct means, component by component. Payments: a payment is approved
exactly when its money moved, once, and decisions are final. Settlement: no
money is lost or doubled, the oldest month first, nothing beyond a bill's total.
Periods: what residents have seen does not vanish. Late fees: once per bill.
Opening balances: a correction moves money, it does not make it. Sessions: one
successor per refresh token, and a client that nobody disturbs stays signed in.
WhatsApp: a message is sent or given up, through a number at most once, and a
number keeps to its daily limit. Gate: one decision that stands, no code used more
often than allowed. Amenities: no slot over capacity, a fee collected exactly when
its money landed. Spending: the ledger rows of an expense are its amount as it
stands, a salary is paid once. Water and bills: the shares make up the cost, a bill
is its lines and no discount eats into more than it is taken from.

## 2. Modules

| Module | Models | Checked by |
|---|---|---|
| `PaymentBook` | abstract: a payment is decided once and has exactly one ledger entry when approved | refined by `PaymentFlow` (`BookSpec`) |
| `PaymentFlow` | the handlers of `payments.service.ts`, await by await, with account changes, settings, storage and crashes | `payflow_*`, proofs |
| `FlatLedger` | one flat's bills and credit over the months, one step per transaction, two steps where a check precedes it | `ledger*`, proofs |
| `LedgerLocks` | the same transactions statement by statement with row locks | `locks*`, proofs |
| `RefreshTokens` | the API's refresh tokens and the calls that rotate them | `background`, proofs |
| `PhoneClient` | the mobile app's HTTP client and logout over `RefreshTokens` | `background`, `phone_signout`, proofs |
| `WebClient` | the web server's proxy and the browser's cookies over `RefreshTokens` | `background`, `web_parallel`, proofs |
| `WhatsappQueue` | the outbox and the servers that drain it | `background`, proofs |
| `Gate` | passes, visitors' entries, guards and residents who answer | `services`, proofs |
| `Books` | expenses, funds, salaries, events and adjustments over the accounts | `services`, `books_event_twice`, proofs |
| `Bookings` | bookings of one amenity and their fees | `services`, proofs |
| `Charges` | what a month charges: rules, water, discounts | `services`, proofs |
| `Summation` | the sum over a function that balances, advances and bills are | proofs |
| `PaymentFlow_proofs`, `PaymentDecisions_proofs` | theorems about `PaymentFlow` and its refinement of `PaymentBook` | TLAPS |
| `FlatLedger_proofs`, `LedgerLocks_proofs` | theorems about the module of that name | TLAPS |
| `Sessions_proofs` | theorems about `RefreshTokens`, `PhoneClient` and `WebClient` | TLAPS |
| `WhatsappQueue_proofs` | theorems about the queue, and about `MCBackground` | TLAPS |
| `Services_proofs` | theorems about `Gate`, `Books`, `Bookings` and `Charges`, and about `MCServices` | TLAPS |
| `Summation_proofs` | the laws of `SumOver` that the others use | TLAPS |
| `MC...` | the sets of the instances. `MCBackground` puts phone, browser and queue side by side, `MCServices` gate, expenses, salaries, bookings, water and discounts: each behaviour explores one part, since the parts share nothing | |

The three modules about bills and payments describe one system at three grains.
`PaymentFlow` follows the requests and takes the flat's bills as one amount owed
(`pending`) and one credit. `FlatLedger` follows the bills and takes a payment as
submitted, approved or rejected. `LedgerLocks` justifies taking a transaction as
one step where its locks do so, and shows where they do not: the sums of a period
(`locks_totals`), and the flats a publish does not lock, for which `FlatLedger` takes the
publish in three steps.
`PhoneClient` and `WebClient` each compose with `RefreshTokens`: their steps are the
server's steps together with what the client does.

**PaymentFlow.** One record `req[h]` per request handler: `pc` is the await it is
at, the rest is what it carries in local variables. `Commit` is the whole
transaction of `submit` (row, document, approval), `Approve` that of `approve`.
`WithUtr` is the unique index on (flat, reference). `Found`, `Attach...`,
`Retry`, `AutoCommit` are the resume path; they read the setting, the accounts and
the status again, each in its own step. `Upload` and `RemoveFile` are SFTP. An
error branch is an action of its own (`CommitFails`, `ApproveFails`,
`AttachUndo`), so any statement may fail. `approve` claims the payment before it
looks at the account; since an open transaction's claim shows nowhere until it
commits, `CheckAccount` comes first in the model and the claim stands in
`Approve`, which is where a lost claim shows.

**FlatLedger.** `Check` is the read of the period's status that generate, publish,
close, delete and adjust do before their transaction; the action of that name is
the transaction. `Allocated` is planAllocation as a formula, and `OldestFirst` and
`OverpaidOnlyByWaiver` check what it promises. The foreign key from payments to bills
(no action on delete) is `NamedBill`: it refuses to regenerate a month a payment
names. Due dates are abstracted: a published bill may be overdue at any moment. Generated
bills come to nothing or more, though rules and prices below zero could make them less.

A publish locks the flats that hold credit as it begins (`billing.service.ts:275-278`); for such
a flat it is one step, `PublishPeriod`. A flat that holds none is not locked, and payments,
refunds and fines go on: `PublishUnlocked` begins, `ReadCredit` shows the bill (to its own
transaction) and reads what credit has come meanwhile, `TakeCredit` puts it to the bill and
commits. Between the last two the bill's row is held (`BillHeld`), and nobody else sees the bill
as published. A payment that commits after the read therefore leaves the flat credit beside
the bill just opened, although "A flat that has paid ahead has its next bill paid from that
credit as it is published" (`billing.service.ts:285`); the credit waits there for the next
publish. `CreditPutToWork` asks what the code does keep: a payment leaves no credit beside a
bill it could see, and a publish leaves none but what came after it had read. One interleaving is
left out: generate's transaction is one step, so a publish does not run between its delete of
the bills and its commit.

**LedgerLocks.** A row has a committed value (`table`), a holder and the value its
holder gave it (`draft`); `View` is what a READ COMMITTED statement reads. A write
needs the row free and keeps it until the end. What a transaction has yet to lock or to
sum is a set (`queue`), taken in the order the code takes it (`Turn`). A circle of waiting
transactions enables `DeadlockVictim`, as Postgres does. A publish does not look again at
the period's status once its transaction has begun, so `Republish` names the second
publish of a month: the bills it holds are open already, a payment may wait for one of them,
and the publish may wait for the payment's flat. A bill's update also takes a share
lock on its flat, which does not conflict with the NO KEY UPDATE locks the code
takes; it is left out.

**RefreshTokens.** `tokens` holds the rows in the order they were created; a row
knows its parent, and whether it is revoked or expired. A refresh is `Check`, the
lookup outside the transaction, which refuses a row that is revoked, past its own expiry or of
a user who is not active (`Good`), and the transaction that claims the row
(`updateMany ... where isRevoked = false`) and creates the successor. The access
token signed with a refresh token has its number and is only ever accepted until it
expires. Login is `Issue`; a change of the password and "log out everywhere" end all
sessions; `Lapse` is a row, or with its user every row, that stops being good without being
revoked. A call may be lost at any of its steps (`Hangup`), before or after it rotated the token.

**PhoneClient.** The app has one thread, so a step ends where the code awaits.
`refreshing` and `failedQueue` are the interceptor's two variables: the first request
that meets a 401 leads the refresh, the others queue and are resent or refused with
it. `store` is the secure store, which the request interceptor reads when it sends.
A failed refresh clears the store and calls the logout; the logout first asks the
API to forget the push token, through the same client. A request that meets its 401 after the
queue was rejected and before the `finally` block (`client.ts:117-123`) joins a queue nobody
looks at until the next refresh; `RequestsSettle` excepts exactly that one (`LeftBehind`).

**WebClient.** A request carries the cookies it was sent with. On a 401 it rotates
on its own; nothing is shared between two requests but the browser's cookies, which
each answer sets or deletes when it arrives (`Arrive`). The proxy takes every answer to a
rotation that is not a success as a refusal, also one that says the API was busy or failed
(`RotateFails`, with `Outages`). Logins and logouts come in between.

**WhatsappQueue.** `outbox` is the table; `sender[p]` is the run of server p: find
the oldest message that may go (`Find`), claim it, count the day, send, write down
what came of it. A server may die at any of these points; a message left SENDING by a run
that is gone is put back by a later one (the code waits so long that a run still at work
is done with its message; the model asks that no run is at it). A society that cannot send is skipped for the rest of the
run (`blocked`), what the run learned of a society is kept in `known`, and the
day's count in `counted`. `delivered` and `unsure` are history: how often a message
reached the person and how many sends ended without the server knowing. The delay
before a retry is left out: a failed message may be found again at once.

**Gate.** `pass` are invitations and "let the delivery up" instructions with their
uses and window, `entry` the visitor's entry per press of a guard's button (the
client request id, which is unique), `guard` a guard's request between what it looked
up and the transaction that relies on it, `late` a resident's answer that found the
request too old. Expiry comes from the timer, from a late answer, or from neither.

**Books.** `balance` is every account's and fund's, `rows` the sum of the ledger rows
that name an expense. What a handler reads before its transaction (`AskRemove`,
`AskPay`, `AskRecord`, ...) is kept in `request`; conditional updates in the
transaction look again, and where the code does not look again the model does
not either. `AskPaid` reads the expense and its planned fund, and `MarkPaid` pays the amount as
it stands once the claim holds the row (`expenses.service.ts:345-347`); `MarkPaidAsRead` would
pay the amount it read. A correction begins with a write that locks the row and judges what it finds
under that lock, so it is one step.

**Bookings.** Times are sets of slots, so that two times may overlap without being
equal. The transaction of `book` is two steps: `CountHeld` takes the amenity's lock and counts what
the flat holds and what overlaps, `Book` writes the booking and lets the lock go. In between the
committee may answer and residents cancel, but nobody counts and no rule changes (`Locked`);
`CountUnlocked` counts without the lock. The rules that count and the
fee a cancellation acts on are those read before (`task`). `under` and `income` are
history.

**Charges.** In paise. `Asked` are the six calculation types, `WaterCharge` a flat's
share with its usage limit, `ReadingPrice` the five tariffs of a reading, `DiscountFor`
the fold of standing discounts. A generated bill has its lines under numbers: the items
under the number of their rule, and one more for the water (`WaterLine`) and for the
discounts (`DiscountLine`) when there is something to put there. `Round` is to the
nearest paisa, halves away from zero. What follows publishing is `FlatLedger`'s. A rule's
amounts may be negative, since nothing validates them, and so may the prices, the free units and the
slabs of a water configuration, which are not validated either. A flat's water that comes to
less than nothing is in the total and makes no line (`billing.service.ts:177`); `BillAddsUp`
says that a bill is the sum of its lines less this amount.

## 3. Runs

| Run | Instance | Shows |
|---|---|---|
| `payflow_review` | 1 resident, 1 admin, 3 payments, 1 reference and cash, 2 accounts, no faults; 1.1M states | one credit per reference, balances match the ledger, recorded rows and files cleaned up |
| `payflow_faults` | 2 residents, 1 admin, 2 payments, crashes, failed clean-ups, lost notices; 0.4M states | approved iff credited, money accounted for, told at most once, implements `PaymentBook` (a decision is final) |
| `payflow_record_race` | 2 admins | **violated**: recordForFlat's undo deletes a payment another admin approved |
| `ledger` | 2 months and opening dues, 2 payments, 2 bills ever made, all operations, one period request at a time; 1.4M states | money kept, totals collected, oldest first, credit put to work, fined once |
| `ledger_regenerate` | 2 period requests at once | **violated**: generate deletes a bill just published |
| `locks` | 3 transactions of any kind (the first a payment or a publish), 2 flats, 2 months, 2 accounts, fair; 0.35M states | no lost update, no bill paid twice over, a payment deadlocks only with a refund or with the second of two publishes of a month, every transaction begun ends |
| `locks_totals` | payments and fines of 2 flats | **violated**: a period's totals miss a concurrent change |
| `background` | a phone with 2 requests and a logout; a browser with 2 requests; 2 servers, a society with a number and one with Meta, 2 messages; 0.36M states | one successor per token, an undisturbed phone stays signed in and its requests settle, cookies never step back, no message is sent twice, the daily limit, every message of an able society ends |
| `web_parallel` | a browser with 2 requests | **violated**: the refused request of a page deletes the live token the other one set |
| `phone_signout` | a phone with a push token and 2 logout routines | **violated**: signing out after a failed refresh never ends |
| `services` | one part per behaviour, see below; 1.4M states | passes admit as often as they may, decisions stand, ledger rows agree with expenses, salaries paid once, no slot oversold, fees match money, water pays for itself, bills add up, negative rules included |
| `books_event_twice` | 2 requests for one event | **violated**: an event's cost is recorded and taken from the fund twice |

Each violated run states one sentence of the code, its comments or its tests; the
sentence and the line are under `findings` in `PROJECT.json`.

Two comments in `payments.service.ts` are older than the code below them and
have no run: `creditAndApprove` (lines 400-412) and `tryAutoApproveExisting`
(lines 390-396) say an amount the bill cannot absorb is refused and stays PENDING.
settleOldestFirst no longer refuses: the rest becomes advance credit. The model
follows the code.

A third has no run of its own. settlement.ts:66-68 takes the flat's row first so that a
payment and a publish "can never deadlock". They can when the publish is the second of one
month: publishPeriod looks at the status before its transaction (billing.service.ts:266-272)
and never again. It takes the flats that have credit, sets the month's bills, and then takes
a flat that got credit meanwhile, while a payment that holds that flat waits for its bill.
Trying to prove that payments deadlock with refunds only showed this. `PaymentNeverDeadlocks`
therefore excepts `Republish`, and is proved with the two exceptions.

### Bounds

* Amounts are 1 and 3 against dues of 2: a part, and more than everything. Two
  amounts under one reference (`PartOrMore`) let a retry carry another figure.
* Two payments are enough for a duplicate and three for a duplicate beside a
  cash payment. Two requests race; a third adds only repetitions of what
  two did, as a handler that is done starts again.
* Two months and opening dues give "older", "newer" and "oldest of all"; two
  payments allow one to leave credit and one to come after the publish that spent
  it. `MaxBills` = 2 in `ledger` means opening dues and a month, or two months, or one
  month generated twice. `MaxTotal` caps repeated adjustments.
* Three transactions are the smallest number with a circle that is not a pair.
  Bill ids are taken to be in the order of the months; the code sorts bills by
  month only after it locked them by id, and `PlanUnsorted` shows what the sort
  is for.
* `background`: two requests that meet one expired token, beside a logout; `MaxTokens` = 3
  is a login, a rotation and one more of either; `Ends` = 1 password change.
  A run of the queue has `PerRun` = 2 messages of `MaxAttempts` = 2 attempts under a
  `DailyCap` of 1, so that the cap, the end of the attempts and the end of the run
  are all met. One disturbance (a death, a lost answer, a society or the gateway that
  turns) may happen. With one server deployed it meets two messages and any beginning; with two,
  everyone can send at first, and the disturbance meets one message (`TwoWithOne`, a bound of
  `MCBackground`): one server dies or loses an answer while the other finds the message left
  behind. The phone has a push token and the browser none. The proofs of section 4 have none of these limits.
* `services`: an invitation and a delivery instruction of up to 2 uses, 2 presses, 2 guards'
  requests and 1 resident's; 2 expenses of 1 or 2, a salary, an account and a
  fund, 2 requests; one move by hand beside the salaries; 2 bookings of 2 flats for the
  times {1} and {1, 2} under 2 sets of rules (room for one, with a fee and an approval; room
  for two, free and at once), 2 requests, so that the two race for the one place and room for two is
  never oversold by two bookings (the theorem has any number); 2 flats (one without area, one
  without people), 2 discounts on one of them, 101 paise of water for 1 or 2
  units, all four kinds of limit, all five tariffs and a fixed charge below zero, one single reading. 101 by 3 units and
  33 or 15 percent make the roundings go both ways; a third rule book asks -30 and 5 percent
  of -70, for the halves below zero.
* Payments, files and the two unrestricted transactions are symmetric in the payflow
  runs; the other runs use no symmetry.
* Deadlock is checked in the payflow runs, which can always go on. In the others bills,
  transactions, tokens, messages or ids run out and the instance stops.

### Fairness

* `locks`: some transaction that was begun takes its next statement while one can (the
  database and the event loop go on), and the deadlock detector runs (Postgres does so
  after `deadlock_timeout`). No request is assumed to begin.
* The phone: every call of the app is answered or fails (the client has a timeout),
  and the app's own code runs on. The user and the clock need not do anything.
* The queue: each server's timer fires and its run goes on, the night falls and the
  next day comes. Deaths, lost answers and changed circumstances are not fair, and
  `EveryMessageEnds` speaks of a message whose own society can send from some time on.
* The payment flow, the gate, the books, the bookings and the charges assume none: a server may
  die for good, and the code promises no notice will arrive.

## 4. What is proved

51 theorems in 8 modules, for all values of the constants that the named assumptions of
the modules allow; `PROJECT.json` lists them with the property each states. The
assumptions say that amounts are positive and what is counted is a natural number
(`DuesPositive`, `AmountsPositive`, `AmountsNatural`, `MoneyNatural`, `SizesNatural`,
`MonthsCounted`, `BoundsNatural`), that a form, a fine setting or a queue has the shape
the code gives it (`FormsTyped`, `FeesTyped`, `AdjustmentsSigned`, `TokensAssumption`,
`QueueAssumption`, `GateAssumption`, `BooksAssumption`, `BookingsAssumption`,
`ChargesAssumption`, `AccountsFinite`, `SettingsKnown`, `OpsKnown`, `KindsKnown`) and that
names of different things differ (`Disjoint`, `NobodyElse`, `PagesAssumption`, and
`CallersAssumption`, by which a request is no logout). TLC evaluates them on every run.

Every safety property of a passing run is stated by a theorem. TLC checked each property
before it was proved. A proof has one lemma per action of the module and one that combines
them. Where a module's steps are many and its properties few, the lemmas first describe
what a step does to the state a property reads (`RowStepBy` in `PaymentDecisions_proofs`), and the
properties are shown from the descriptions.

**Summation.** A total is a sum over a set that steps add to, take from or change in one
place. `SumOver` is defined by a fold. The library's induction theorems take the property
as an operator, which the provers cannot instantiate; `NatSetInduction` takes it as a set,
and rests on every set of numbers having a least one. From it follow the laws used
everywhere: a sum does not depend on the order, and one element added, removed or changed adds,
removes or changes one number. `StepByStep` does the same for the recursive functions that
go over a list of discounts or slabs.

**PaymentFlow.** `TypeCorrect` keeps the pending amount within 0 .. Dues and
credit, balances and ids natural. `ApprovedIffCredited`: a payment is APPROVED exactly
when one transaction of its amount credits it and it links to that transaction.
`CreditedOnce` is not inductive alone; `IInv` adds `RowsHaveAmounts` (a row that exists has
an amount) and `RequestsFit` (a request past its lookup names a payment or carries its
form, and the account it will credit). `ProofsOpen` and `NoFileLeftBehind` need to know
who answers for a file, `FInv`: the row that names it, or one request that stored it and
has not yet named or removed it, and never two.

**PaymentDecisions.** Three theorems hold for all requests the API takes. `BalancesAgree` and
`BillAccountedFor` rest on `MInv`, which adds that the ledger is finite and its ids are below
the next one, so that a new entry is a new one. `NoneHalfMade` rests on
`RInv`, by which a row half made has the request that is making it.

The others assume `Orderly`: either no admin uses recordForFlat (`NoRecording`), or one
admin works alone and verification is asked of every payment (`Unrivalled`). Something of
the kind is needed: `payflow_record_race` shows that the undo of recordForFlat deletes a row another
admin decided, after which its reference is free again and the payer was told of a payment
that is gone. Under either assumption a row is still undecided when its undo comes
(`Timely`). From that follow `TakenBackNothing` and `ReferenceCreditedOnce` (`UInv`: a
reference has one row, and the ledger copies the row's), `ToldOnce` (`DInv`: of a
decided payment nobody was told of at most one handler is about to tell), and
`KeepsTheBook`: with the rows' statuses and the entries of each payment as the abstract
state, every step of `PaymentFlow` is a step of `PaymentBook` or leaves it as it is.

**FlatLedger.** `IInv` says of every bill that its pending amount is what its total leaves
unpaid and that it is paid only when nothing is left (`BillsFit`), of every month not
shown that its bill is unpublished and unpaid (`Unseen`), and that the period's figure is
its bill's (`CollectedMatches`). That suffices, with any number of admins, for
`TypeCorrect`, `CollectedAgrees`, and the action properties `OldestPaid` (the months before
the last one that gets money are clear), `CreditWorks` and `NotFinedTwice`. `CreditWorks` speaks
of credit the publish knows of, as section 2 explains.

`NoMoneyLost`, `OverpaidByWaiver` and `SeenStays` assume `OneAtATime`, one admin at a time
on the billing periods. `ledger_regenerate` shows why: the status is read before the
transaction, and with two admins a bill that residents have paid can be deleted with the
money on it. With one, what was checked still holds when the transaction runs
(`ChecksHold`), and `OneInv` is inductive.

**LedgerLocks.** Four layers, each resting on the one before. `TypeInv` is types and the
lists transactions carry. `LocksInv` says which locks a transaction may and must hold at
each statement. `BillsInv` is about values: a transaction that does not hold a flat's row pays none of
the flat's bills, what a settlement plans fits what its bills owe, and nobody else can change
them. `MoneyInv` says that a transaction under way has moved what its
statements so far say, so that a commit adds the amount and a rollback nothing.
`TypeCorrect`, `BillsNotOverpaid` and `NoUpdateLost` follow. `NoCircleWithPayment` is
shown of a state, from what may be held and waited for in it. Periods are summed in order, so
the last period waited for is held by nobody who waits. A payment takes its flat before
any bill, so in a circle without the two exceptions none waits beyond its flat; whoever holds a flat
or a bill there is a publish, the publishes wait for each other only, and the circle is
one of publishes without the payment.

**RefreshTokens and the clients.** `RotationMintsOne` and `RotatedTokensDie`:
`OneSuccessor` needs that a token with a successor is revoked, and that a call past its
lookup names a row there is. `PhoneImplements` and `WebImplements`: every behaviour
of a client is one of the server's (the client's variables are simply not in it), hence
`ClientsMintOne`. `PhoneStaysSignedIn` needs `Surviving`: while nothing disturbed the
session, there is at most one leader, only the leader has a refresh open with the server,
and the token in the store, or in the answer under way, is alive. `PhoneTypeCorrect` says with
the types that the queue is exactly the requests that wait. `CookieStepsOn` needs that the
token a request carries back to the browser has not been seen there, has no successor yet, and
that the tokens of one sign-in are a chain.

**WhatsappQueue.** `SentOnce` rests on `QueueInv`: a message that is being sent is
SENDING and held by the run that claimed it (`Held`), no message is being sent by two
runs (`Apart`), and delivered sends are recorded, or unsure, or under way (`AllAccounted`).
`WithinTheDay` adds `Within`: with one server, what the run has counted is what was sent
today. `BackgroundTypeCorrect` puts phone, browser and queue side by side.

**Gate.** `UsesCounted` and the action property `AnswersStand`. `GateInv` adds that a
guard's request names an entry and a pass that fit what it is about to write, that an entry
not made has no decision and a pass not given has no uses.

**Books.** `PaidAsRecorded` and `OnePayment`; `BooksInv` adds that requests carry what they
read (what `MarkPaid` read it does not need), and that an expense that was never paid has no rows.

**Bookings.** `SlotsNotOversold` and `FeeAsCollected`. `NoDoubleBooking` says that of the
live bookings on a slot one was accepted under a capacity that holds them all; cancelling
that one could break it. `AllBeside`, in `BookingsInv`, says the same of every subset of the live
bookings, which a cancellation only shrinks. `Counted` and `OneInserts` are the lock: one request
at a time is between its count and its booking, and until then what it counted only shrinks.

**Charges.** `BillIsItsLines` and `WaterIsPaidFor`, for any flats, rules and prices (negative ones
too), discounts, tariffs and limits. `DiscountIs` shows what the fold of discounts
comes to: each takes at most the room the earlier ones left. `ShareSound` bounds
one flat's rounding; the sum over the flats is then within half a paisa a reading of the cost, or a
paisa with a limit, where the extra is rounded too. `ChInv` adds that an allocation under way
read the limit that is saved (`AskedIsSaved`) and that a bill is its lines (`BillsSum`).

**Side by side.** `EachAlone`: a behaviour of `MCServices` is one of the gate, of the
books, of the bookings and of the charges; hence `ServicesTypeCorrect`.

Only model-checked. Liveness (`EveryOneEnds`, `RequestsSettle`, `EveryMessageEnds`):
fairness and ENABLED are out of the prover's reach. The properties of the runs that expect a
violation are false of the code. What a theorem assumes and the code does not enforce,
`Orderly` and `OneAtATime`, is what those runs are about; in the runs `payflow_*` and
`ledger` the same properties are checked on instances with one admin or one period
request at a time. No module declares a RECURSIVE operator.

## 5. What is not modelled

Hazards of the code that no property covers (under `hazards` in `PROJECT.json`, each
with its note): the orphan file a crash leaves (`payments.service.ts:147`), an account
taken off the lists while a payment is being credited to it (656), invoice
numbers of two periods generated at once (`billing.service.ts:239`), the sums of a period
whose bill is adjusted (846), two first
residents of a flat (`auth.service.ts:946`), parking (`vehicles.service.ts:83`), an
expense paid while it is removed (`expenses.service.ts:592`), and, in
`water.service.ts`, two allocations of one month at once (228) and a slab's limit
used as its width (380; `ReadingPrice` has it as the code does).

Components that are not modelled or only partly are marked so in `PROJECT.json`, with the reason:
membership, platform admins and the purge of a society (one row at a time, or an
order of deletes a test of the repository holds to the schema); parcels, helpers,
vehicles and attendance (conditional updates of one row, like the gate's); helpdesk,
forum, chat, meetings, announcements and statements (records without interleaving);
mail and settings; buildings, flats and the tenant guard; and the screens of both
front ends, which are most of the repository's lines and hold no rule the API does not.
Within the modelled components: the password reset, registration and the choice
of a society; wording, formatting, pagination, the validation of single fields,
audit rows (written in the same transaction as what they describe) and reports
derived from the tables; a partial file after a failed upload.
