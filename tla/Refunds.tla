------------------------------ MODULE Refunds -------------------------------
(***************************************************************************)
(* The refund service over PostgreSQL: merchants ask for refunds of paid   *)
(* invoices, an administrator approves or rejects them and then processes  *)
(* the approved ones, and a processed one credits the merchant's wallet.   *)
(* A session is one request goroutine at a time, and its steps are the     *)
(* repository calls it makes.  The services of Payments write to the same  *)
(* invoices: here one action is one of their statements, and may come      *)
(* between any two steps of a request.                                     *)
(***************************************************************************)
EXTENDS Wallets, Invoices, FiniteSetsExt

CONSTANTS
  Sessions,    \* the requests the server runs at once
  RefundIds,   \* bound: the ids uuid.NewString can give out
  Issuer,      \* Issuer[i]: the merchant of invoice i
  MaxGranted,  \* bound: no success is asked once this much was credited
  NoRefund

ASSUME RefundAssumption ==
  /\ Issuer \in [InvoiceIds -> Merchants]
  /\ MaxGranted \in Nat
  /\ NoRefund \notin [invoice : InvoiceIds, amount : Amounts \cap Amount64, status : RefundStatus]

VARIABLES
  paidFor,    \* history: the amounts each invoice was ever stored with as PAID
  refunds,    \* the refunds table: the row of each id, or NoRefund
  calls,      \* the request each session is serving
  granted,    \* history: what was ever added to each merchant's wallet
  acked,      \* history: the part of it whose request answered 200
  approved,   \* history: the refunds ever stored as APPROVED
  credited    \* history: the refunds added to a wallet at least once

history == <<granted, acked, approved, credited>>
vars == <<faults, wallets, invoices, issued, paidFor, now, refunds, calls, granted, acked, approved, credited>>

-----------------------------------------------------------------------------
(* The refunds table.  A refund's merchant is its invoice's.               *)

Refund == [invoice : InvoiceIds, amount : Amounts \cap Amount64, status : RefundStatus]

Filed == {f \in RefundIds : refunds[f] # NoRefund}

(* ListByInvoiceID                                                         *)
RefundsOf(i) == {f \in Filed : refunds[f].invoice = i}

(* INSERT; the foreign key refuses it when the invoice is gone.            *)
RefundCreate(f, row) ==
  IF InvoiceExists(row.invoice) THEN [refunds EXCEPT ![f] = row] ELSE refunds

(* UPDATE refunds SET status                                               *)
RefundSave(f, st) == [refunds EXCEPT ![f].status = st]

-----------------------------------------------------------------------------
(* The requests in flight.  A call holds the model the service loaded, its *)
(* invoice as loaded while a refund is being requested, the balance the    *)
(* service read (originalBalance) and whether it created the wallet.       *)

Steps == {"loadInvoice", "expire", "sum", "insert", "save", "findWallet", "createWallet",
          "credit", "saveSuccess", "undo", "undoCreated"}
Idle == [step |-> "idle"]
Call == [step : Steps, id : RefundIds, row : Refund, loaded : Invoice \cup {NoInvoice},
         base : Int64, created : BOOLEAN]

At(s, step) == calls[s].step = step
Id(s) == calls[s].id
Row(s) == calls[s].row
Merchant(s) == Issuer[calls[s].row.invoice]

Become(s, c) == calls' = [calls EXCEPT ![s] = c]
Begin(s, step, f, row) ==
  Become(s, [step |-> step, id |-> f, row |-> row, loaded |-> NoInvoice, base |-> 0, created |-> FALSE])
GoTo(s, step) == calls' = [calls EXCEPT ![s].step = step]
Return(s) == Become(s, Idle)

Spare == {f \in RefundIds \ Filed : \A s \in Sessions : At(s, "idle") \/ Id(s) # f}

-----------------------------------------------------------------------------
(* RequestRefund: the merchant of the request owns the invoice, or it is   *)
(* refused.                                                                *)
RequestRefund(s, f, i, a) ==
  /\ At(s, "idle")
  /\ a > 0
  /\ f \in Spare
  /\ i \in issued
  /\ Begin(s, "loadInvoice", f, [invoice |-> i, amount |-> a, status |-> "REQUESTED"])
  /\ UNCHANGED <<faults, wallets, invoices, issued, paidFor, now, refunds, history>>

(* Mistake: the invoice's status is not checked.                           *)
AnyInvoice(row) == TRUE

Refundable(row) == row.status = "PAID"

(* GetByID, which saves an overdue invoice as EXPIRED; only a PAID one may *)
(* be refunded.                                                            *)
LoadInvoice(s) ==
  LET row == invoices[Row(s).invoice] IN
  /\ At(s, "loadInvoice")
  /\ \E r \in Replies :
       /\ Reply(r)
       /\ \/ (r # "ok" \/ row = NoInvoice) /\ Return(s)
          \/ /\ r = "ok" /\ row # NoInvoice /\ Overdue(row)
             /\ Become(s, [calls[s] EXCEPT !.step = "expire", !.loaded = row])
          \/ /\ r = "ok" /\ row # NoInvoice /\ ~Overdue(row)
             /\ IF Refundable(row)
                  THEN Become(s, [calls[s] EXCEPT !.step = "sum", !.loaded = row])
                  ELSE Return(s)
  /\ UNCHANGED <<wallets, invoices, issued, paidFor, now, refunds, history>>

(* The row is saved whole, as it was loaded; an EXPIRED invoice has no     *)
(* refund.                                                                 *)
ExpireInvoice(s) ==
  /\ At(s, "expire")
  /\ \E r \in Replies :
       /\ Reply(r)
       /\ invoices' = IF Executed(r) THEN InvoiceSave(Row(s).invoice, Expired(calls[s].loaded)) ELSE invoices
  /\ Return(s)
  /\ UNCHANGED <<wallets, issued, paidFor, now, refunds, history>>

(* x as a Go int64.                                                        *)
Wrap64(x) == ((x + MaxInt64 + 1) % (2 * (MaxInt64 + 1))) - (MaxInt64 + 1)

(* Mistake: earlier refunds do not count.                                  *)
NoneRefunded(fs) == 0

(* alreadyRefunded                                                         *)
SumRefunded(fs) ==
  Wrap64(MapThenSumSet(LAMBDA f : refunds[f].amount, {f \in fs : refunds[f].status = "SUCCESS"}))

(* The amount may not exceed what is left of the invoice after the         *)
(* refunds that are SUCCESS.  ListByInvoiceID does not look at rows.Err(): *)
(* when the connection breaks while it reads, it answers the rows it has.  *)
SumRefunds(s) ==
  /\ At(s, "sum")
  /\ \E r \in Replies, seen \in SUBSET RefundsOf(Row(s).invoice) :
       LET maxRefundable == Wrap64(calls[s].loaded.amount - SumRefunded(seen)) IN
       /\ Reply(r)
       /\ r = "ok" => seen = RefundsOf(Row(s).invoice)
       /\ \/ r # "ok" /\ Return(s)
          \/ maxRefundable < Row(s).amount /\ Return(s)
          \/ /\ maxRefundable >= Row(s).amount
             /\ Become(s, [calls[s] EXCEPT !.step = "insert", !.loaded = NoInvoice])
  /\ UNCHANGED <<wallets, invoices, issued, paidFor, now, refunds, history>>

InsertRefund(s) ==
  /\ At(s, "insert")
  /\ \E r \in Replies :
       /\ Reply(r)
       /\ refunds' = IF Executed(r) THEN RefundCreate(Id(s), Row(s)) ELSE refunds
  /\ Return(s)
  /\ UNCHANGED <<wallets, invoices, issued, paidFor, now, history>>

-----------------------------------------------------------------------------
(* Approve, Reject and Process load the refund.  A load that fails, or     *)
(* that finds nothing, answers an error and changes nothing.               *)

Mark(s, f, st) ==
  /\ At(s, "idle")
  /\ f \in Filed
  /\ Begin(s, "save", f, [refunds[f] EXCEPT !.status = st])
  /\ UNCHANGED <<faults, wallets, invoices, issued, paidFor, now, refunds, history>>

Approve(s, f) == Mark(s, f, "APPROVED") /\ RefundCanApprove(refunds[f].status)
Reject(s, f) == Mark(s, f, "REJECTED") /\ RefundCanReject(refunds[f].status)
ProcessFailed(s, f) == Mark(s, f, "FAILED") /\ RefundCanFail(refunds[f].status)

SaveRefund(s) ==
  /\ At(s, "save")
  /\ \E r \in Replies :
       /\ Reply(r)
       /\ refunds' = IF Executed(r) THEN RefundSave(Id(s), Row(s).status) ELSE refunds
       /\ approved' = IF Executed(r) /\ Row(s).status = "APPROVED"
                        THEN approved \cup {Id(s)} ELSE approved
  /\ Return(s)
  /\ UNCHANGED <<wallets, invoices, issued, paidFor, now, granted, acked, credited>>

ProcessSuccess(s, f) ==
  /\ At(s, "idle")
  /\ f \in Filed
  /\ granted[Issuer[refunds[f].invoice]] < MaxGranted
  /\ Begin(s, "findWallet", f, refunds[f])
  /\ UNCHANGED <<faults, wallets, invoices, issued, paidFor, now, refunds, history>>

(* Mistake: the wallet is not saved before the status.                     *)
MarkSuccessUncredited(s, base, created) ==
  IF RefundCanSucceed(Row(s).status)
    THEN Become(s, [calls[s] EXCEPT !.step = "saveSuccess", !.row.status = "SUCCESS",
                                    !.base = base, !.created = created])
    ELSE Return(s)

(* With the wallet at hand, mark the model SUCCESS or give up.             *)
MarkSuccess(s, base, created) ==
  IF RefundCanSucceed(Row(s).status)
    THEN Become(s, [calls[s] EXCEPT !.step = "credit", !.row.status = "SUCCESS",
                                    !.base = base, !.created = created])
    ELSE Return(s)

FindWallet(s) ==
  /\ At(s, "findWallet")
  /\ \E r \in Replies :
       /\ Reply(r)
       /\ \/ r # "ok" /\ Return(s)
          \/ r = "ok" /\ HasWallet(Merchant(s)) /\ MarkSuccess(s, wallets[Merchant(s)], FALSE)
          \/ r = "ok" /\ ~HasWallet(Merchant(s)) /\ GoTo(s, "createWallet")
  /\ UNCHANGED <<wallets, invoices, issued, paidFor, now, refunds, history>>

CreateWallet(s) ==
  /\ At(s, "createWallet")
  /\ \E r \in Replies :
       /\ Reply(r)
       /\ IF r = "ok" /\ ~HasWallet(Merchant(s)) THEN MarkSuccess(s, 0, TRUE) ELSE Return(s)
       /\ wallets' = IF Executed(r) THEN WalletCreate(Merchant(s)) ELSE wallets
  /\ UNCHANGED <<invoices, issued, paidFor, now, refunds, history>>

(* The wallet is saved first, at the balance that was read plus the amount.*)
CreditWallet(s) ==
  /\ At(s, "credit")
  /\ \E r \in Replies :
       /\ Reply(r)
       /\ IF r = "ok" THEN GoTo(s, "saveSuccess") ELSE Return(s)
       /\ \/ Executed(r)
             /\ wallets' = WalletSave(Merchant(s), AddInt64(calls[s].base, Row(s).amount))
             /\ granted' = [granted EXCEPT ![Merchant(s)] = @ + Row(s).amount]
             /\ credited' = credited \cup {Id(s)}
          \/ ~Executed(r) /\ UNCHANGED <<wallets, granted, credited>>
  /\ UNCHANGED <<invoices, issued, paidFor, now, refunds, acked, approved>>

SaveSuccess(s) ==
  /\ At(s, "saveSuccess")
  /\ \E r \in Replies :
       /\ Reply(r)
       /\ refunds' = IF Executed(r) THEN RefundSave(Id(s), Row(s).status) ELSE refunds
       /\ \/ /\ r = "ok" /\ Return(s)
             /\ acked' = [acked EXCEPT ![Merchant(s)] = @ + Row(s).amount]
          \/ r # "ok" /\ GoTo(s, "undo") /\ UNCHANGED acked
  /\ UNCHANGED <<wallets, invoices, issued, paidFor, now, granted, approved, credited>>

(* Mistake: the balance is set to 0 also when the wallet was there before. *)
UndoCreditToZero(s) ==
  /\ At(s, "undo")
  /\ \E r \in Replies :
       /\ Reply(r)
       /\ wallets' = IF Executed(r) THEN WalletSave(Merchant(s), calls[s].base) ELSE wallets
  /\ GoTo(s, "undoCreated")
  /\ UNCHANGED <<invoices, issued, paidFor, now, refunds, history>>

(* The rollback writes back the balance that was read; its error is        *)
(* dropped.  After a wallet was created the same call is made once more,   *)
(* with balance 0.                                                         *)
UndoCredit(s) ==
  /\ At(s, "undo")
  /\ \E r \in Replies :
       /\ Reply(r)
       /\ wallets' = IF Executed(r) THEN WalletSave(Merchant(s), calls[s].base) ELSE wallets
  /\ IF calls[s].created THEN GoTo(s, "undoCreated") ELSE Return(s)
  /\ UNCHANGED <<invoices, issued, paidFor, now, refunds, history>>

UndoCreated(s) ==
  /\ At(s, "undoCreated")
  /\ \E r \in Replies :
       /\ Reply(r)
       /\ wallets' = IF Executed(r) THEN WalletSave(Merchant(s), 0) ELSE wallets
  /\ Return(s)
  /\ UNCHANGED <<invoices, issued, paidFor, now, refunds, history>>

-----------------------------------------------------------------------------
(* What the requests of the invoice and payment services do to invoices.   *)

IssueInvoice(i, a, d) ==
  /\ a > 0
  /\ i \notin issued
  /\ invoices' = InvoiceCreate(i, [amount |-> a, status |-> "PENDING", due |-> d])
  /\ issued' = issued \cup {i}
  /\ UNCHANGED <<faults, wallets, paidFor, now, refunds, calls, history>>

(* They hold a copy loaded at some earlier time and save it whole: a       *)
(* PENDING one with a new amount and due date, as PAID or as EXPIRED, any  *)
(* other as it is.  What was saved since is overwritten, so that each row  *)
(* may follow each other one.                                              *)
RewriteInvoice(i, row) ==
  /\ InvoiceExists(i)
  /\ invoices' = InvoiceSave(i, row)
  /\ paidFor' = IF row.status = "PAID" THEN [paidFor EXCEPT ![i] = @ \cup {row.amount}] ELSE paidFor
  /\ UNCHANGED <<faults, wallets, issued, now, refunds, calls, history>>

(* DELETE; an invoice that was PAID has intents, and their foreign key     *)
(* refuses it (PaidNeverDeleted in Payments).                              *)
DeleteInvoice(i) ==
  /\ InvoiceExists(i)
  /\ paidFor[i] = {}
  /\ invoices' = InvoiceDelete(i)
  /\ UNCHANGED <<faults, wallets, issued, paidFor, now, refunds, calls, history>>

TimePasses ==
  /\ Tick
  /\ UNCHANGED <<faults, wallets, invoices, issued, paidFor, refunds, calls, history>>

(* The server stops and starts again: every request in flight is lost.     *)
Crash ==
  /\ CrashFault
  /\ \E s \in Sessions : ~At(s, "idle")
  /\ calls' = [s \in Sessions |-> Idle]
  /\ UNCHANGED <<wallets, invoices, issued, paidFor, now, refunds, history>>

(* No request is being served and no client sends another.                 *)
Quiet ==
  /\ \A s \in Sessions : At(s, "idle")
  /\ UNCHANGED vars

Init ==
  /\ faults = NoFaults
  /\ wallets = [m \in Merchants |-> NoWallet]
  /\ invoices = [i \in InvoiceIds |-> NoInvoice]
  /\ issued = {}
  /\ paidFor = [i \in InvoiceIds |-> {}]
  /\ now = 0
  /\ refunds = [f \in RefundIds |-> NoRefund]
  /\ calls = [s \in Sessions |-> Idle]
  /\ granted = [m \in Merchants |-> 0]
  /\ acked = [m \in Merchants |-> 0]
  /\ approved = {}
  /\ credited = {}

Ask(s) ==
  \/ \E f \in RefundIds, i \in InvoiceIds, a \in Amounts : RequestRefund(s, f, i, a)
  \/ \E f \in RefundIds : Approve(s, f) \/ Reject(s, f) \/ ProcessFailed(s, f) \/ ProcessSuccess(s, f)

Serve(s) ==
  \/ LoadInvoice(s)
  \/ ExpireInvoice(s)
  \/ SumRefunds(s)
  \/ InsertRefund(s)
  \/ SaveRefund(s)
  \/ FindWallet(s)
  \/ CreateWallet(s)
  \/ CreditWallet(s)
  \/ SaveSuccess(s)
  \/ UndoCredit(s)
  \/ UndoCreated(s)

Invoicing ==
  \/ \E i \in InvoiceIds, a \in Amounts, d \in Dues : IssueInvoice(i, a, d)
  \/ \E i \in InvoiceIds : (\E row \in Invoice : RewriteInvoice(i, row)) \/ DeleteInvoice(i)

Next == (\E s \in Sessions : Ask(s) \/ Serve(s)) \/ Invoicing \/ TimePasses \/ Crash \/ Quiet

Spec == Init /\ [][Next]_vars

-----------------------------------------------------------------------------
(* Properties of any number of concurrent requests, whatever fails.        *)

TypeOK ==
  /\ faults \in FaultsSoFar
  /\ WalletsTypeOK
  /\ InvoicesTypeOK
  /\ paidFor \in [InvoiceIds -> SUBSET (Amounts \cap Amount64)]
  /\ refunds \in [RefundIds -> Refund \cup {NoRefund}]
  /\ calls \in [Sessions -> Call \cup {Idle}]
  /\ granted \in [Merchants -> Nat]
  /\ acked \in [Merchants -> Nat]
  /\ approved \subseteq RefundIds
  /\ credited \subseteq RefundIds

(* An approval may be overwritten by a rejection or a failure that loaded  *)
(* the refund earlier, and a failure by a success: whatever the order of   *)
(* the saves, no refund is added to a wallet that was not APPROVED once.   *)
CreditedWasApproved == credited \subseteq approved

(* Process saves the wallet before the status: a refund stored as SUCCESS  *)
(* was added to a wallet, also after a crash between the two saves.        *)
SuccessWasCredited == \A f \in Filed : refunds[f].status = "SUCCESS" => f \in credited

(* The invoice is checked and the refund stored in separate statements,    *)
(* with any save of the invoice before, between and after: every refund    *)
(* has an invoice that was PAID once, and, while what was refunded adds up *)
(* to an int64, was it with no less than the refund's amount.              *)
RefundFitsInvoice ==
  \A f \in Filed :
    LET i == refunds[f].invoice IN
    /\ InvoiceExists(i) /\ paidFor[i] # {}
    /\ granted[Issuer[i]] <= MaxInt64 => \E a \in paidFor[i] : refunds[f].amount <= a

-----------------------------------------------------------------------------
(* Properties of requests served one after the other.                      *)

(* What requests answered 200 for is in the wallet.                        *)
AckedIsCovered == \A m \in Merchants : acked[m] <= Balance(m)

(* SUCCESS, FAILED and REJECTED are final, and APPROVED is not taken back. *)
StatusIsFinal ==
  [][\A f \in Filed :
       refunds'[f].status # refunds[f].status
         => \/ refunds[f].status = "REQUESTED" /\ refunds'[f].status \in {"APPROVED", "REJECTED"}
            \/ refunds[f].status = "APPROVED" /\ refunds'[f].status \in {"SUCCESS", "FAILED"}]_vars

(* What an invoice's refunds with one of these statuses add up to.         *)
Total(i, statuses) ==
  MapThenSumSet(LAMBDA f : refunds[f].amount, {f \in RefundsOf(i) : refunds[f].status \in statuses})

(* "refund amount exceeds max refundable amount": while no call failed, a  *)
(* refund is stored only where, with those that are SUCCESS, it stays      *)
(* within an amount the invoice was PAID with, whatever was requested,     *)
(* approved and processed, as long as these add up to an int64.            *)
StoredWithinMax ==
  [][\A f \in RefundIds \ Filed :
       LET i == refunds'[f].invoice IN
       faults.count = 0 /\ refunds'[f] # NoRefund /\ granted[Issuer[i]] <= MaxInt64
         => \E a \in paidFor[i] : Total(i, {"SUCCESS"}) + refunds'[f].amount <= a]_vars

-----------------------------------------------------------------------------
(* What comments, tests and messages say and the code does not.            *)

(* "refund amount exceeds max refundable amount": the refunds that are     *)
(* SUCCESS never add up to more than the invoice was ever PAID with.       *)
NeverOverRefunded ==
  \A i \in InvoiceIds :
    Total(i, {"SUCCESS"}) > 0 => \E a \in paidFor[i] : Total(i, {"SUCCESS"}) <= a
=============================================================================
