# Verification of the payment sandbox

TLA+ models of the payment sandbox server under `src/` (Go, PostgreSQL), the TLC
configurations that check them on small instances, and theorems about them whose
proofs TLAPS checks.

The server lets merchants issue invoices, lets payers open payment intents for
them, and lets an administrator decide what comes of intents, top-ups and
refunds. Top-ups and refunds credit a merchant's wallet. There is no background
job, no queue and no lock: every state change happens inside an HTTP request, and
a request is a straight line of repository calls, each an SQL statement that
commits by itself. The one exception is registration, which stores a user and its
merchant in a transaction of its own (`CreateWithMerchant`); the general helper
`database.WithTx` exists and nothing calls it. What makes this system hard is
therefore always the same: what one request read is stale by the time it writes,
writes are absolute (a whole row, a whole balance), rollbacks are further
statements that may fail, and the server may stop between any two.

## Inventory

| Component | State | Operations | Where it is hard | What makes it correct |
|---|---|---|---|---|
| Top-ups (`application/topup`, `domain/topup`, its handler and repository) | `top_ups` rows: merchant, amount, key, PENDING / SUCCESS / FAILED | `Request`, `AdminUpdate` (success, failure), `History` | key lookup and insert are two statements; settlement is find-or-create wallet, save wallet, save status, and up to two rollback statements | nothing minted; SUCCESS only with a credit; one top-up per key; an answered success is covered and final |
| Wallets (`application/wallet`, `domain/wallet`) | one `wallets` row per merchant, created on the first credit | `Create`, `FindByMerchantID`, `Save` (absolute balance) | written by top-ups and refunds without a lock; int64 balance | what was added explains the balance |
| Invoices (`application/invoice`, `domain/invoice`, `user_handler.go`) | `invoices` rows: amount, due date, PENDING / PAID / EXPIRED | `Create`, `GetByID`, `List`, `Update`, `Delete`, and the expiry that every read makes | reads write; `Save` overwrites the whole row; update and delete load twice | no early expiry; a deleted invoice stays deleted; a PAID one is neither deleted nor changed |
| Payment intents (`application/payment`, `domain/paymentintent`) | `payment_intents` rows: invoice, due date, PENDING / SUCCESS / FAILED | `CreateIntent`, `ResolvePublicToken`, `SimulateAdminOutcome` | intent and invoice saved one after the other, rollback in the reverse sense, due date branch that drops errors | PAID only if a success was confirmed; what was answered stays |
| Refunds (`application/refund`, `domain/refund`) | `refunds` rows: invoice, amount, REQUESTED / APPROVED / REJECTED / SUCCESS / FAILED | `RequestRefund`, `Approve`, `Reject`, `Process`, `History` | check of the invoice, sum of earlier refunds and insert are separate; a broken connection shortens the sum; processing as for top-ups | a refund fits its invoice, is approved before it is credited, is credited before it is SUCCESS |
| Payment aggregate (`domain/payment`) | one payment: amount, refunded, five statuses | `NewPayment`, `RestorePayment`, `Authorize`, `Capture`, `Refund`, `Fail` | partial refunds before and after the capture | refunds within the amount; transitions follow `CanTransitionTo` |
| Database (`infrastructure/database`) | the tables and their constraints | one statement per call | calls that fail before or after they took effect | UNIQUE columns, the unique index on keys, RESTRICT foreign keys |
| Users and tokens (`application/user`, `domain/user`, `middleware`) | `users`, `merchants`; signed tokens, kept by clients only | `Register` (one transaction for both inserts), `Login`, `Refresh` | the email is looked up and inserted in separate statements; tokens are believed without a look at the tables | an email is one user's; a merchant comes with its user or not at all; the claims of a token are true |
| Issuing (`application/invoice`, the generators; `CreateInvoiceGin`) | number, payment token and merchant of each invoice | draw a number, draw a token, insert | two requests draw the same; an administrator names any merchant; the draws are repeated | numbers and tokens identify an invoice; its merchant exists; the request ends |
| Routing (`infrastructure/http`) | none | two ways to mount the handlers, with the roles each route is open to | the server decides by path prefix what the other router decides by group | both answer alike |
| Merchant aggregate, transaction record, audit event (`domain/merchant`, `domain/transaction`) | values in memory | constructors, `Restore...`, state methods | constructors and `Restore...` check different things | what was made can be restored |
| Dashboard (`application/dashboard`) | none | reads three tables in three statements | the totals mix moments; two sets of repositories answer the lists | the server counts what the tests count (it does not) |
| HTTP bindings, wiring, configuration, in-memory repositories, generated code | none that survives a request | — | — | — |

Interactions: the payment and the refund service call the invoice service, which
may save an EXPIRED invoice on the way; top-ups and refunds write the same wallet
rows; intents and refunds refer to invoices by foreign keys that restrict
deletion. Invoices refer to merchants, which registration stores, and every
request but a few is let in by a token that registration, login or refresh gave
out. The dashboard reads what the others write. All of it goes through the
database, and nothing is shared in memory.

## Modules

| Module | Models |
|---|---|
| `Database` | how a repository call can end, the crash, int64 |
| `Wallets` | the wallets table and the statements on it |
| `Statuses` | the status methods of the domain package (`MarkSuccess`, `Approve`, ...) as predicates |
| `TopUps` | the top-up service on `Wallets` |
| `TopUpLedger` | what the top-up service promises: settlement in one indivisible step |
| `Invoices` | the invoices table, the clock, when an invoice is overdue |
| `Payments` | the invoice service and the payment service together, on `Invoices` |
| `Refunds` | the refund service on `Wallets` and `Invoices` |
| `Sandbox` | `Refunds` and `TopUps` composed: one server, one wallets table, a session serves a request of either |
| `Routing` | the routes and roles of `NewRouterCodegen` and of `NewRouter` |
| `Accounts` | users, merchants, the registration transaction, tokens and the clock, on `Database` and `Routing` |
| `Issuing` | creating invoices (number, payment token, merchant), on `Accounts` |
| `DashboardQueries` | what the dashboard adds up, and the lists of both sets of repositories, as operators |
| `Dashboard` | the dashboard's three reads beside the other services |
| `PaymentAggregate`, `MerchantAggregate`, `TransactionRecord` | the aggregates and records of the domain package |
| `Domain` | these three side by side |
| `MCTopUps`, `MCPayments`, `MCRefunds`, `MCSandbox`, `MCIssuing`, `MCDashboard`, `MCDomain` | instances and symmetry sets for TLC |
| `DatabaseProofs` | lemmas about `Database` that the proofs share |
| `SumProofs` | lemmas about sums over finite sets |
| `TopUpsProofs`, `PaymentsProofs`, `RefundsProofs`, `SandboxProofs`, `IssuingProofs`, `DomainProofs` | theorems and proofs; `IssuingProofs` includes `Accounts` and `Routing`, `DomainProofs` includes `PaymentAggregate` |

**How state and actions correspond to code.** A table is a function from ids to
rows or to a "no row" value. A *session* is a request goroutine: `calls[s]` holds
the local variables of the use case it runs (the model it loaded, the balance it
read, whether it created the wallet) and `step` names the repository call it is
about to make. The first action of a request (`RequestTopUp`, `Simulate`,
`ProcessSuccess`, ...) is the handler up to and including its first load; each
action after it is one repository call with the code up to the next one, error
branch included. Every write is the operator of the table's module that says what
the SQL statement does: `WalletSave` is an UPDATE to an absolute balance,
`InvoiceSave` an UPDATE of the whole row and a no-op without an error when the row
is gone, `IntentCreate` an INSERT that the foreign key refuses, `TopUpCreate` an
INSERT under the unique index.

**Failures.** A call answers `ok`; or it is `lost` (an error, and the statement
never ran: exhausted pool, refused connection, cancelled request); or it is `late`
(an error, and the statement ran: the answer did not come back). `crash` drops
every request in flight and keeps the tables. `Faults` chooses which of these
may happen and `MaxFaults` how often. A load that fails changes nothing and makes
the request answer an error, which leaves the state as if it had not been asked;
where such a load is the first call of a request it is therefore no step. `faults`
counts them, and `Gentle` says that there was at most one and that it was `lost`:
the case the services' rollbacks were written for. The properties that only hold
there say so themselves, so one run shows them beside the ones that always hold. The
exceptions are in the model: `Request` of a top-up drops the error of its key
lookup and goes on (`RequestTopUp`), and no `List` looks at `rows.Err()`,
so a broken read answers some of the rows and no error (`SumRefunds`, `ListInvoices`,
and the three reads of `Dashboard`).

**History variables** (`granted`, `acked`, `credited`, `succeeded`, `confirmed`,
`answered`, `paid`, `approved`, `paidFor`, `issued`) record what was ever added,
answered, stored or given out. `paid` are the answers for which the request saved the
invoice as PAID, and `paidFor` the amounts an invoice was ever stored with as PAID.
`overlapped` in `Sandbox` says whether two requests were ever served at once, `sound`
in `PaymentAggregate` whether the payment was new or came from a row with amounts of
the aggregate's own. No action's effect on a table depends on them, except where a
bound does (`MaxGranted`), where ids must not be reused (`issued`), and where
`Refunds` deletes an invoice (`paidFor`, see below).

**Transactions.** `txs[s]` in `Accounts` holds the rows the open transaction of a
session wrote. Nobody else reads them, but an INSERT of the same email waits for
them (`EmailHeld`), as it does in PostgreSQL; commit makes them visible, rollback
and crash drop them.

**Left out of the data:** names, currencies and timestamps that nothing is decided
by; a refund's merchant is that of its invoice (`Issuer`), which the handler
checks; invoice numbers, payment tokens and merchants appear in `Issuing` only,
amounts and statuses of invoices in `Payments` and `Refunds` only. Which role
reaches which handler is in `Routing`, and the requests of `Accounts` and `Issuing`
carry a token; those of the other modules do not, since nothing there depends on
who sent them. A token whose signature is wrong and a wrong password are refused
without a change. Outcomes that are neither SUCCESS nor FAILED are refused without
a change beyond the expiry that loading makes. The time an intent has is `Window`
instead of 15 minutes. In `Refunds` the invoice and payment services appear
as their statements, which may come between any two calls of a request: an INSERT
(`IssueInvoice`), an UPDATE that writes any whole row over the stored one
(`RewriteInvoice`), a DELETE (`DeleteInvoice`), and the clock. In the code such an UPDATE
saves a copy loaded at some earlier time, so that PAID goes back to PENDING or EXPIRED
and amounts change; the model keeps no account of which copies are around and allows
every row. A refund request's own expiry saves the row that request loaded
(`ExpireInvoice`), over whatever was saved since. An invoice that was PAID once is not
deleted, because its intents restrict it; `PaidNeverDeleted` of `Payments` is that fact.
In `Dashboard` each of them changes one row in
one step, and nothing that a request does in more steps is lost there, because
the dashboard looks at single tables.

Operators commented as a *mistake* (`WalletSaveRelative`, `UndoCreditToZero`,
`IntentCreateAnyway`, ...) are plausible bugs. None is used by a specification;
each takes the place of a definition to show that a property notices it.

## Runs

| Run | Instance | Distinct states | Shows |
|---|---|---|---|
| `topups_concurrent` | 2 sessions, 2 top-ups, 1 fault of any kind, int64 up to 3 | 116 000 | `TypeOK`, `NeverMinted`, `SuccessWasCredited`, `OneTopUpPerKey`, `NeverReopened` |
| `topups_serial` | 1 session, 2 faults of any kind | 18 000 | `AckedIsCovered`, `AckedStaysSuccess`, `StatusIsFinal`; `AllOrNothing`, and that `TopUps` implements `TopUpLedger` (`LedgerSpec`) |
| `topups_repeat` (violation) | 1 session, no fault | | `CreditedOnce` is violated |
| `payments_concurrent` | 2 sessions, 1 invoice, 1 intent, 1 fault of any kind, 3 moments | 515 000 | `TypeOK`, `IntentHasInvoice`, `PaidWasConfirmed`, `ExpiredWasOverdue`, `DeletedStaysDeleted`, `PaidNeverDeleted` |
| `payments_serial` | 1 session, 2 invoices, 2 intents, 2 faults of any kind | 1 970 000 | `AnsweredIsKept`, `PaymentIsAtomic`, `SettledIsFrozen` |
| `payments_unpaid` (violation) | 2 sessions, no fault | | `AnsweredIsPaid` is violated |
| `sandbox` | 2 sessions, 1 refund, 1 top-up, 1 wallet, 1 fault of any kind, int64 up to 4, 3 moments | 601 000 | `SandboxTypeOK`, `NothingMinted`, `AllAckedIsCovered`, `CreditedWasApproved`, `SuccessWasCredited` |
| `refunds_serial` | 1 session, 2 refunds of one invoice, its row rewritten at any time, 2 faults of any kind, 3 moments | 768 000 | `AckedIsCovered`, `RefundFitsInvoice`, `StatusIsFinal`, `StoredWithinMax` |
| `refunds_over_refunded` (violation) | 1 session, no fault | | `NeverOverRefunded` is violated |
| `accounts` | 2 sessions, 2 users, 2 emails, 2 numbers and tokens, 1 fault of any kind, 2 moments, fair | 396 000 | `IssuingTypeOK`, `OneUserPerEmail`, `MerchantsMatchUsers`, `TokensAreBacked`, `RoutersAgree`, `InvoicesIdentified`, `InvoicesHaveMerchants`, `RequestsEnd` |
| `domain` | one payment, amounts from -1 to 2, one merchant, one transaction, one audit event | 446 000 | `DomainTypeOK`, `RefundedExactly`, `TableIsKept`, `RestoresWhatItMade` |
| `dashboard` (violation) | 2 merchants, 2 rows per table, 2 moments | | `AnswersAsTested` is violated |

The code guarantees three different things, and each property says which it is of.

*Whatever overlaps and fails.* The runs with two sessions have two requests at once
and a fault. What holds there holds always: no interleaving of reads, absolute
writes and rollbacks adds money nobody granted, stores a SUCCESS that was never
credited, credits a refund that was never approved, leaves an intent without an
invoice, brings a deleted row back, or stores half a registration. Two sessions are
enough for every race the code can have between a read and a write of one row,
since a step looks at its own call and the tables only; one fault is enough for a
rollback to start while another request runs. `MaxInt64` is 3, or 4 in
`sandbox`, so that credits do overflow. `sandbox` asks this of refunds and top-ups on the wallet they
share, where a rollback of one service overwrites a credit of the other.

*One request after the other.* What was answered stays: a wallet covers all it
answered 200 for, an intent answered SUCCESS stays SUCCESS and its invoice what that
request saved. This is PAID, or EXPIRED where the expiry branch found an intent left at
SUCCESS and answered it (`AnsweredIsKept`). In `refunds_serial` the requests are those of
the refund service; the invoice is saved over between any two of their calls, so that
`RefundFitsInvoice` and `StoredWithinMax` meet every interleaving with the other services
that a single refund request can meet. Two faults
reach the failed rollback and the crash inside a rollback. With two sessions these
properties are false; see below. `AllAckedIsCovered` says it of both services
together, by `overlapped`.

*At most one call lost* (`Gentle`). There a settlement happens entirely or not at
all, as in `TopUpLedger`. A second fault, a late one or a crash breaks this, as
expected of a protocol without a transaction.

Bounds: ids (`TopUpIds`, `IntentIds`, `InvoiceIds`, `RefundIds`, `UserIds`) stand for
the UUIDs given out; `Numbers` and `Links` for what a draw can answer, two of each so
that a draw can be taken, and two `Tries` so that it is repeated and that it gives up;
`MaxGranted` stops an administrator from repeating successes forever; `MaxTime` stops
the clock after the last due date, intent window or token life has passed;
`MaxFaults` as above. Amounts 1 and 2 tell one credit from two, and 0 is sent to the
handlers that refuse it; `sandbox`, where the size of the state counts, has the amount 2
only, of which two fit an int64 and three do not. Due dates are 0 (none) and 1, so that the clock can be
before, at and after one. Symmetry permutes sessions and ids only; `accounts` has a
liveness property and no symmetry.

*Deadlock* is checked in all runs but `domain`, where terminal values really have
no next step, and `dashboard`, where the clock stops. In the others `Quiet` is the one
way to stop, and only when no request is under way: a request that had no next step
would be reported. Registrations are where one request waits for another
(`EmailHeld`): no two wait for each other, because a transaction holds one email.

*Fairness and liveness.* `FairIssuingSpec` assumes weak fairness of the next call
of each session: Go schedules every goroutine, and a call is answered, if only with
an error, because pgx returns when the connection breaks or the request's context
ends. Nothing is assumed about clients, the clock or the administrator.
`RequestsEnd` is then a property worth having in the one part that waits and
repeats: an INSERT that waits for another transaction is let go, and the loops that
draw numbers give up. The other requests are finite straight lines of calls without
a wait, so that for them the deadlock check says the same, and their specifications
have no fairness.

## Where the code and its own texts disagree

Four runs end in a violation, on purpose, with a counterexample in the code:

* `topups_repeat` — an administrator who repeats the success of a top-up credits
  the wallet again. `MarkSuccess` treats SUCCESS → SUCCESS as a no-op and the wallet
  is saved all the same. `Refunds.ProcessSuccess` has the same lines.
* `payments_unpaid` — `Update` saves the whole row it loaded; if the invoice was
  paid in between, a payment that was answered SUCCESS becomes unpaid and its amount
  changes. A simulated failure, an expiry and a page of `List` do the same. A refund
  that was stored meanwhile stays, for an invoice that is no longer PAID.
* `refunds_over_refunded` — only SUCCESS refunds count when another one is
  requested, and neither `Approve` nor `Process` looks again: two full refunds
  requested first both succeed. No fault and no concurrency is needed.

* `dashboard` — the tests count the invoices of a merchant within a period, on the
  in-memory repositories. `List` of the PostgreSQL invoices, which the server is
  wired to, ignores the period, and its list of refunds compares the merchant even
  when the filter names none, and so finds no refund at all.

The models contain more of the same kind. No run is kept for these; each is a
few steps of the specification named:

* two settlements of one merchant lose a credit (`TopUps`, two sessions: both
  `FindWallet` before either `CreditWallet`); a late failure overwrites an answered
  success (`AckedStaysSuccess` with two sessions); a late approval overwrites a
  rejection (`StatusIsFinal` of `Refunds` with two sessions);
* a merchant's second top-up without a key is refused, because the absent key is
  stored as `''` and the index skips NULL only (`TopUpCreate`);
* a crash after the intent was saved as SUCCESS (between `SaveIntent` and
  `SaveInvoice`), then a repeated request past the due date: `DecideOverdue` drops both
  errors, the intent stays SUCCESS, the invoice becomes EXPIRED, and the answer is 200
  with an intent that is SUCCESS. No concurrency is needed, so `AnsweredIsPaid` is false
  of one request after the other too; what holds is `AnsweredIsKept`;
* the error of a rollback is dropped: two lost calls leave the credit of a PENDING
  top-up in the wallet (`UndoCredit`), or an intent SUCCESS for an unpaid invoice
  (`UndoIntent`);
* a broken connection while earlier refunds are read makes the remaining amount
  too large (`SumRefunds`, which is why `StoredWithinMax` speaks of runs in which no
  call failed so far);
* the sum of earlier refunds is an int64: after refunds beyond the amount of their
  invoice that add up to more than an int64, it wraps and the remaining amount is too
  large (`SumRefunded`, which is why `RefundFitsInvoice` and `StoredWithinMax` speak
  of what was granted up to `MaxInt64`);
* of two registrations with one email the loser of the race is refused by the UNIQUE
  column, and its request answers 500 where `api.yaml:498` promises 409
  (`InsertUser`);
* the emails of the in-memory users are compared by `EqualFold`, those of PostgreSQL
  as they are: what the tests refuse as a duplicate, the server stores. `Emails` are
  the server's;
* an answer of the dashboard mixes the moments of its three queries (`ReadInvoices`,
  `ReadIntents`, `ReadRefunds`): an invoice counted as unpaid beside a refund of it;
* a broken connection while the dashboard reads a list leaves out rows and no error is
  answered (`Seen`);
* `RestorePayment` takes any amounts, its comment "assuming data integrity from
  persistence": a row that breaks `Sound` is restored, and what its refunds then add up
  to is nobody's business (`RefundedExactly` is about `sound` payments);
* the aggregate's REFUNDED is documented as "partially or fully" and is reached
  when the whole amount was refunded only.

## Proofs

Every theorem is proved for all values of the constants that satisfy the named
assumptions of the modules (`FaultsAssumption`, `Int64Assumption`,
`WalletAssumption`, `TopUpAssumption`, `InvoiceAssumption`, `RefundAssumption`,
`SandboxAssumption`, `AccountAssumption`, `IssuingAssumption`, `PaymentAssumption`):
ids, merchants and sessions are any sets, amounts any int64 values, faults any
number. These assumptions only say what the constants are, and that "no row" is not
a row; `SandboxAssumption` repeats the one of `TopUps` for the instance of it inside
`Sandbox`, since an assumption of an instantiated module is no fact of the module
around it. TLC evaluates each of them.

Theorems about *one request after the other* have two hypotheses more, which they
name: `OneAtATime` (there is at most one session) and, where balances matter,
`Roomy` (no balance within `MaxGranted` overflows, which the models bounded that
way satisfy, as do the runs). Without `OneAtATime` they are false, as listed above.

### Top-ups: `TopUpsProofs`

*Any number of concurrent requests, whatever fails:* `TypeCorrect`,
`WalletNeverMinted`, `SuccessCredited`, `KeyIsUnique`, `TopUpNeverReopened`. The
properties are not inductive by themselves: a rollback writes the balance its call
carries, and a status save the row its call carries. The inductive invariant `Inv`
adds what each step relies on: `BaseGranted` (a balance that was read is at most what
was granted by now, so writing it back, or writing it plus an amount granted in the
same step, mints nothing), `ModelMatchesStep` (a call about to store SUCCESS has
credited its top-up; no call stores PENDING), and `IdsOwned` (a call works on a stored
row, and two inserts never share an id). One lemma per action shows that it keeps
`Inv`; lemmas about `Return`, `GoTo` and `MarkSuccess` carry what the actions share.
`AddInt64Bound` covers the overflow: a wrapped sum is smaller than the true one.

*One request after the other, whatever fails and however often the server crashes:*
`SerialAckedCovered`, `SerialSuccessStays`, `SerialStatusFinal`. `SerialInv` adds what
the one request under way knows of the tables (`Knows`): the wallet holds the base it
read, or base plus amount after the credit, and what was answered is at most the base.

`SerialAllOrNothing` and `ServiceImplementsLedger` strengthen this, for as long as at
most one call was lost (`Gentle`), to an equality, `Exact`: between requests every
balance is what was answered and every SUCCESS row was answered; and a rollback only
runs when the one fault has happened already, so that it cannot fail. With it every
step of `TopUps` is a step of `TopUpLedger` or leaves the ledger's variables alone
(`LedgerStep`, one lemma per kind of write): the ledger settles a top-up when the
service saves its row, and a credit that is still to be confirmed or rolled back is
not yet in the ledger's balance (`LedgerBalance`).

### Payments: `PaymentsProofs`

*Any number of concurrent requests, whatever fails:* `PaymentsTypeCorrect`,
`IntentsHaveInvoices`, `PaidNeedsConfirmation`, `ExpiredNeedsDueDate`,
`DeletedIsFinal` and `PaidIsKept`. Requests save whole rows they loaded long before,
so the invariant has to speak of those rows: `Right` says when an invoice may be
stored as a row, and `Fits` that every row a call holds and may still save is right,
or becomes so (`Confirming`) because the intent is saved first. `RightStays` is the
reason this is stable: time only advances, intents keep their invoice and due date,
and what was confirmed stays so (`Grows`). `IdsOwned` keeps two requests from opening
one intent. The two action properties rest on `StepWrites`, which lists the only four
ways a step writes the table of invoices, and `PaidIsKept` besides on the intent that
`PaidNeedsConfirmation` gives a PAID invoice: the foreign key then refuses the delete.

*One request after the other, whatever fails:* `AnsweredStays`,
`SettledStaysFrozen`, `PaymentsAreAtomic`. `CallsKnown` says that the rows the one
request holds are those in the tables, except the one it is about to change, and that
a rollback writes back exactly what was there; `Served` that an answered success is
an intent SUCCESS and an invoice PAID, or EXPIRED past the intent's time if it was not in
`paid`; `Exact`, while `Gentle`, that nothing else is.
A list of invoices holds a page of rows and saves the overdue ones
one by one, so what is known of a page is known of each row still in it.

### Refunds: `RefundsProofs` and `SumProofs`

*Any number of concurrent requests, whatever fails:* `RefundsTypeCorrect`,
`CreditNeedsApproval`, `SuccessNeedsCredit` and
`RefundsFitInvoices`. `Fits` says what the call of a request relies on: its refund is
stored and was approved before it is credited, and credited before it is saved as
SUCCESS; the invoice it was checked against was PAID once when the refund is inserted.
`Keeps` names what a step of one session must leave alone for the calls beside it to go
on fitting; one lemma (`MoveInv`) carries the induction over the sessions, and each
action has only its own call and the tables to account for. The invoice's row is none
of what a call may rely on, because any row may be saved over it: what stands is
`paidFor` (`PaidStands`, `InvoicesWerePaid`), and it keeps the invoice from being deleted.

That a stored refund is within an amount its invoice was PAID with needs the check of
`RequestRefund` to be right when it is made and to stay right until the INSERT
(`BookInv`): the request carries the row it loaded, whose amount is in `paidFor` and stays
there whatever is saved over the invoice, ids are fresh, and the sum that was subtracted
is not negative. The last is arithmetic about sums: the earlier refunds counted are among
those credited, so their sum is between 0 and what was granted, and does not wrap around
while that is within `MaxInt64`. The sums of the model are folds. `SumProofs` proves
what the proof uses of them (a sum over one element more, over a subset, of
nonnegative terms) from their definition by a recursive choice. The induction theorems
of the library take an operator as a parameter, which the provers cannot
instantiate, so the induction is over a least counterexample: a subset with the
fewest elements for which the recursion has no solution.

*One request after the other, whatever fails:* `SerialStatusIsFinal`,
`SerialStoredWithinMax`, `SerialRefundsCovered`. `RefundsKnown` says that
the status a request is about to save follows the stored one, and that the refund it is
about to insert fits what is left; `WalletsKnown` what it knows of the balance, as for
top-ups.

### Both on one wallet: `SandboxProofs`

`SandboxTypeCorrect`, `TogetherNothingMinted`, `TogetherAckedIsCovered` and
`RefundsHoldBesideTopUps`, for any number of sessions serving both services. What a step
does to the wallets and to what was granted and answered is one of seven moves of the
call being served (`Waits`, `Reads`, `Credits`, `Answers`, `GivesUp`, `RollsBack`,
`Empties`); each action of either service is shown to be one of them, and the
invariants are proved of the moves alone. `AllBacked` is the invariant behind
`NothingMinted`: a balance that a call of either service read is at most what both
granted since, so the absolute write of one service over a credit of the other loses
money and never makes any. `Knows` holds until two requests met (`overlapped`), which
is how `AllAckedIsCovered` is stated without a hypothesis on the number of sessions.
`RefundsHoldBesideTopUps` carries `CreditedWasApproved`, `SuccessWasCredited` and
`RefundFitsInvoice` over to the composition.

### Accounts, invoices' names and routes: `IssuingProofs`

`AccountsTypeCorrect`, `EmailsAreUnique`, `MerchantsAreUsers`, `ClaimsAreTrue`, for any
number of concurrent registrations and any faults. The invariant says what each step's
transaction holds (`TxMatchesStep`), that the id of a registration is nobody else's
(`IdsOwned`), and that its email is not either once it has inserted the user
(`EmailsOwned`), which the UNIQUE column and the wait for open transactions give. The
second part carries all four over to `IssuingSpec`, the specification of the run
(`AccountsStayRight`, `IssuingTypeCorrect`), and adds `NumbersAreUnique` and
`IssuersAreMerchants`. The third compares the routers: `CodegenTable` computes what the
prefix of each generated route opens, `RouterSide` what each group's routes are below
it, and both are one `Table` of routes, roles and handlers; hence `RoutersAlwaysAgree`,
for every identity and not only those that hold a token in a run.

### The domain package: `DomainProofs`

`PaymentTypeCorrect`, `NeverRefundedTooMuch`, `TransitionsAllowed` and `TerminalStays`,
for any set of integer amounts, negative ones included, and any restored row. The
invariant adds that the amount of a `sound` payment is positive, without which a new
payment would already satisfy "refunded = amount". `DomainTypeCorrect` and `EverythingRestores` are about the package: whatever a
constructor made and methods changed passes the checks of its `Restore...`.
`PaymentUndisturbed` says that the package seen through the payment alone is the
payment's specification, which carries the first four theorems over.

### What is only model-checked

`RequestsEnd` is liveness under fairness, which the prover cannot reach. The violations
are counterexamples, which need no proof. Every other property of a passing run is
stated by a theorem.

## Not modelled

The HTTP layer beyond roles and what the handlers check: bindings, pagination
(`parsePagination`), headers, CORS and logging keep no state. The generated code
is modelled as far as its routes go; its wrappers bind the query parameters before
the middleware checks the token, which decides only which error is answered, and
its strict handlers are not used. Of the in-memory repositories only the lists of
the dashboard are modelled: the rest are maps under a lock, which tests use and
the server is not wired to. `WithTx`, which nothing calls. Start-up,
configuration, dependency injection and logging have no state that a property
could be about.

## Plan

Done: the services, their composition on wallets, accounts and issuing, the domain
package, the dashboard, and proofs of every safety property that the passing runs
check, with the refinement of `TopUpLedger` among them. Left:

1. `PaymentLedger`: what the payment service promises (an intent succeeds and its
   invoice is paid in one step), and `Payments` shown to implement it where
   `PaymentIsAtomic` holds. `CallsKnown`, `Served` and `Exact` of `PaymentsProofs` are
   the invariants the simulation needs.
2. The theorems about one request after the other, restated as `AllAckedIsCovered` is
   (they hold until two requests met) instead of under `OneAtATime`.
