------------------------------ MODULE Payments ------------------------------
(***************************************************************************)
(* The invoice and payment services over PostgreSQL: merchants create,     *)
(* read, update and delete invoices, payers open payment intents for them, *)
(* and an administrator simulates an intent's outcome, which pays or       *)
(* expires the invoice.  A session is one request goroutine at a time, and *)
(* its steps are the repository calls it makes.                            *)
(***************************************************************************)
EXTENDS Invoices

CONSTANTS
  Sessions,    \* the requests the server runs at once
  IntentIds,   \* bound: the ids uuid.NewString can give out
  Window,      \* the time a payer has, 15 minutes in the code
  NoIntent

ASSUME PaymentAssumption ==
  /\ Window \in Nat
  /\ NoIntent \notin IntentIds
  /\ NoIntent \notin [invoice : InvoiceIds, status : IntentStatus, due : Nat]

VARIABLES
  intents,    \* the payment_intents table: the row of each id, or NoIntent
  calls,      \* the request each session is serving
  confirmed,  \* history: the intents ever stored as SUCCESS
  answered,   \* history: the intents some request answered SUCCESS for
  paid        \* history: those of them whose invoice that request saved as PAID

vars == <<faults, invoices, issued, now, intents, calls, confirmed, answered, paid>>

-----------------------------------------------------------------------------
(* The payment_intents table.                                              *)

Intent == [invoice : InvoiceIds, status : IntentStatus, due : Nat]

Opened == {p \in IntentIds : intents[p] # NoIntent}

IntentsOf(i) == {p \in Opened : intents[p].invoice = i}

(* Mistake: there is no foreign key.                                       *)
IntentCreateAnyway(p, row) == [intents EXCEPT ![p] = row]

(* INSERT; the foreign key refuses it when the invoice is gone.            *)
IntentCreate(p, row) ==
  IF InvoiceExists(row.invoice) THEN [intents EXCEPT ![p] = row] ELSE intents

(* UPDATE payment_intents SET status                                       *)
IntentSave(p, st) == [intents EXCEPT ![p].status = st]

(* Mistake: no foreign key refuses the DELETE.                             *)
InvoiceDeleteAnyway(i) == InvoiceDelete(i)

(* DELETE; the foreign keys RESTRICT it while an intent refers to the row. *)
InvoiceDeleteRestricted(i) ==
  IF IntentsOf(i) = {} THEN InvoiceDelete(i) ELSE invoices

-----------------------------------------------------------------------------
(* The requests in flight.  Every one but Create loads an invoice and then *)
(* goes on as its kind says.  A call holds the invoice as loaded and as    *)
(* changed, the new values an update asks for, and of the intent the id,   *)
(* the due date of a new one, the status loaded and the one it is to have. *)

Kinds == {"get", "checkUpdate", "update", "checkDelete", "delete", "pay",
          "succeed", "fail", "overdue"}
Steps == {"load", "expire", "decide", "saveUpdate", "delete", "insertIntent",
          "saveIntent", "saveInvoice", "undoIntent", "undoInvoice"}
Idle == [step |-> "idle"]

At(s, step) == calls[s].step = step

Become(s, c) == calls' = [calls EXCEPT ![s] = c]
GoTo(s, step) == calls' = [calls EXCEPT ![s].step = step]
Return(s) == Become(s, Idle)

Begin(s, kind, i, p, st, ask) ==
  Become(s, [step |-> "load", kind |-> kind, id |-> i, loaded |-> NoInvoice, row |-> NoInvoice,
             intent |-> p, due |-> 0, was |-> st, status |-> st, ask |-> ask])

NoAsk == [amount |-> 0, due |-> 0]

Spare ==
  {p \in IntentIds \ Opened :
     \A s \in Sessions : At(s, "idle") \/ At(s, "list") \/ calls[s].intent # p}

(* Mistake: amounts are not checked.                                       *)
AnyAmount(a) == TRUE

(* The handlers refuse an amount that is not positive.                     *)
ValidAmount(a) == a > 0

-----------------------------------------------------------------------------
(* Create: the number and the token are looked up first, which changes     *)
(* nothing, and are unique columns; a call that fails before the INSERT    *)
(* leaves no trace.                                                        *)
CreateInvoice(s, i, a, d) ==
  /\ At(s, "idle")
  /\ ValidAmount(a)
  /\ i \notin issued
  /\ \E r \in Replies : Reply(r) /\ Executed(r)
  /\ invoices' = InvoiceCreate(i, [amount |-> a, status |-> "PENDING", due |-> d])
  /\ issued' = issued \cup {i}
  /\ UNCHANGED <<now, intents, calls, confirmed, answered, paid>>

(* The requests that start by loading an invoice: GetByID, or             *)
(* ResolvePaymentToken for "pay".  Update and Delete are checked by the    *)
(* handler, which loads the invoice a first time.                          *)
OpenInvoice(s, kind, i, p, ask) ==
  /\ At(s, "idle")
  /\ i \in issued
  /\ Begin(s, kind, i, p, "PENDING", ask)
  /\ UNCHANGED <<faults, invoices, issued, now, intents, confirmed, answered, paid>>

GetInvoice(s, i) == OpenInvoice(s, "get", i, NoIntent, NoAsk)
PayInvoice(s, i, p) == p \in Spare /\ OpenInvoice(s, "pay", i, p, NoAsk)
DeleteInvoice(s, i) == OpenInvoice(s, "checkDelete", i, NoIntent, NoAsk)
UpdateInvoice(s, i, a, d) ==
  /\ ValidAmount(a)
  /\ OpenInvoice(s, "checkUpdate", i, NoIntent, [amount |-> a, due |-> d])

(* List takes a page of invoices and refreshes each, one after the other,  *)
(* until one cannot be saved.                                              *)
ListInvoices(s, page) ==
  /\ At(s, "idle")
  /\ \A i \in page : InvoiceExists(i)
  /\ Become(s, [step |-> "list", page |-> [i \in page |-> invoices[i]]])
  /\ UNCHANGED <<faults, invoices, issued, now, intents, confirmed, answered, paid>>

RefreshListed(s, i) ==
  LET page == calls[s].page IN
  /\ At(s, "list")
  /\ i \in DOMAIN page
  /\ \E r \in Replies :
       /\ Reply(r)
       /\ IF Overdue(page[i])
            THEN invoices' = IF Executed(r) THEN InvoiceSave(i, Expired(page[i])) ELSE invoices
            ELSE r = "ok" /\ UNCHANGED invoices
       /\ IF r = "ok" /\ DOMAIN page # {i}
            THEN Become(s, [step |-> "list", page |-> [j \in DOMAIN page \ {i} |-> page[j]]])
            ELSE Return(s)
  /\ UNCHANGED <<issued, now, intents, confirmed, answered, paid>>

(* SimulateAdminOutcome loads the intent, then its invoice.  An outcome    *)
(* that is neither SUCCESS nor FAILED is refused after that, and before    *)
(* that expires what is overdue as the others do.                          *)
Simulate(s, p, outcome) ==
  /\ At(s, "idle")
  /\ p \in Opened
  /\ Begin(s, outcome, intents[p].invoice, p, intents[p].status, NoAsk)
  /\ UNCHANGED <<faults, invoices, issued, now, intents, confirmed, answered, paid>>

-----------------------------------------------------------------------------
(* What a request does once it holds the invoice.                          *)

(* The handler keeps the due date it read when the client sends none, and  *)
(* Update loads the invoice again.                                         *)
Proceed(s, row) ==
  LET c == [calls[s] EXCEPT !.row = NoInvoice] IN
  \/ c.kind = "get" /\ Return(s)
  \/ /\ c.kind = "checkUpdate"
     /\ Become(s, [c EXCEPT !.step = "load", !.kind = "update",
                            !.ask.due = IF @ = 0 THEN row.due ELSE @])
  \/ c.kind = "checkDelete" /\ Become(s, [c EXCEPT !.step = "load", !.kind = "delete"])
  \/ c.kind \in {"update", "delete"} /\ row.status # "PENDING" /\ Return(s)
  \/ /\ c.kind = "update" /\ row.status = "PENDING"
     /\ Become(s, [c EXCEPT !.step = "saveUpdate", !.ask = NoAsk,
                            !.row = [row EXCEPT !.amount = c.ask.amount, !.due = c.ask.due]])
  \/ c.kind = "delete" /\ row.status = "PENDING" /\ Become(s, [c EXCEPT !.step = "delete"])
  \/ c.kind = "pay" /\ Become(s, [c EXCEPT !.step = "insertIntent", !.due = now + Window])
  \/ /\ c.kind \in {"succeed", "fail"}
     /\ Become(s, [c EXCEPT !.step = "decide", !.loaded = row, !.row = row])

(* FindByID, then refreshExpiry: an overdue invoice is saved as EXPIRED.   *)
LoadInvoice(s) ==
  LET row == invoices[calls[s].id] IN
  /\ At(s, "load")
  /\ \E r \in Replies :
       /\ Reply(r)
       /\ \/ (r # "ok" \/ row = NoInvoice) /\ Return(s)
          \/ r = "ok" /\ row # NoInvoice /\ ~Overdue(row) /\ Proceed(s, row)
          \/ /\ r = "ok" /\ row # NoInvoice /\ Overdue(row)
             /\ Become(s, [calls[s] EXCEPT !.step = "expire", !.row = Expired(row)])
  /\ UNCHANGED <<invoices, issued, now, intents, confirmed, answered, paid>>

ExpireInvoice(s) ==
  /\ At(s, "expire")
  /\ \E r \in Replies :
       /\ Reply(r)
       /\ IF r = "ok" THEN Proceed(s, calls[s].row) ELSE Return(s)
       /\ invoices' = IF Executed(r) THEN InvoiceSave(calls[s].id, calls[s].row) ELSE invoices
  /\ UNCHANGED <<issued, now, intents, confirmed, answered, paid>>

SaveUpdate(s) ==
  /\ At(s, "saveUpdate")
  /\ \E r \in Replies :
       /\ Reply(r)
       /\ invoices' = IF Executed(r) THEN InvoiceSave(calls[s].id, calls[s].row) ELSE invoices
  /\ Return(s)
  /\ UNCHANGED <<issued, now, intents, confirmed, answered, paid>>

RemoveInvoice(s) ==
  /\ At(s, "delete")
  /\ \E r \in Replies :
       /\ Reply(r)
       /\ invoices' = IF Executed(r) THEN InvoiceDeleteRestricted(calls[s].id) ELSE invoices
  /\ Return(s)
  /\ UNCHANGED <<issued, now, intents, confirmed, answered, paid>>

(* CreateIntent asks nothing of the invoice's status, and sets the due date*)
(* before it inserts the intent.                                           *)
InsertIntent(s) ==
  /\ At(s, "insertIntent")
  /\ \E r \in Replies :
       /\ Reply(r)
       /\ intents' = IF Executed(r)
            THEN IntentCreate(calls[s].intent, [invoice |-> calls[s].id, status |-> "PENDING", due |-> calls[s].due])
            ELSE intents
  /\ Return(s)
  /\ UNCHANGED <<invoices, issued, now, confirmed, answered, paid>>

-----------------------------------------------------------------------------
(* SimulateAdminOutcome with both at hand.  The intent's due date is the   *)
(* one it was created with.                                                *)

(* Mistake: the invoice is saved without the intent.                       *)
SettleInvoiceOnly(s, kind, st, invoiceSt) ==
  Become(s, [calls[s] EXCEPT !.step = "saveInvoice", !.kind = kind,
                             !.status = st, !.row.status = invoiceSt])

(* Both models have their new statuses; the intent is saved first.         *)
Settle(s, kind, st, invoiceSt) ==
  Become(s, [calls[s] EXCEPT !.step = "saveIntent", !.kind = kind,
                             !.status = st, !.row.status = invoiceSt])

(* Past the due date the intent fails and the invoice expires where their  *)
(* statuses allow it; both are saved in any case.                          *)
DecideOverdue(s) ==
  LET c == calls[s] IN
  /\ At(s, "decide")
  /\ now > intents[c.intent].due
  /\ Settle(s, "overdue", IF IntentCanFail(c.status) THEN "FAILED" ELSE c.status,
            IF InvoiceCanExpire(c.row.status) THEN "EXPIRED" ELSE c.row.status)
  /\ UNCHANGED <<faults, invoices, issued, now, intents, confirmed, answered, paid>>

DecideSuccess(s) ==
  LET c == calls[s] IN
  /\ At(s, "decide")
  /\ now <= intents[c.intent].due
  /\ c.kind = "succeed"
  /\ IF IntentCanSucceed(c.status) /\ InvoiceCanBePaid(c.row.status)
       THEN Settle(s, c.kind, "SUCCESS", "PAID")
       ELSE Return(s)
  /\ UNCHANGED <<faults, invoices, issued, now, intents, confirmed, answered, paid>>

DecideFailed(s) ==
  LET c == calls[s] IN
  /\ At(s, "decide")
  /\ now <= intents[c.intent].due
  /\ c.kind = "fail"
  /\ IF IntentCanFail(c.status) THEN Settle(s, c.kind, "FAILED", c.row.status) ELSE Return(s)
  /\ UNCHANGED <<faults, invoices, issued, now, intents, confirmed, answered, paid>>

WriteIntent(s, r, st) ==
  LET p == calls[s].intent IN
  /\ intents' = IF Executed(r) THEN IntentSave(p, st) ELSE intents
  /\ confirmed' = IF Executed(r) /\ st = "SUCCESS" THEN confirmed \cup {p} ELSE confirmed

SaveIntent(s) ==
  /\ At(s, "saveIntent")
  /\ \E r \in Replies :
       /\ Reply(r)
       /\ IF r = "ok" THEN GoTo(s, "saveInvoice") ELSE Return(s)
       /\ WriteIntent(s, r, calls[s].status)
  /\ UNCHANGED <<invoices, issued, now, answered, paid>>

(* The status of the intent is the answer, also past the due date, when an *)
(* intent that cannot fail keeps SUCCESS while its invoice expires.        *)
RecordAnswer(s, r) ==
  LET c == calls[s]
      success == IF r = "ok" /\ c.status = "SUCCESS" THEN {c.intent} ELSE {} IN
  /\ answered' = answered \cup success
  /\ paid' = IF c.row.status = "PAID" THEN paid \cup success ELSE paid

(* Mistake: a failed save is not rolled back.                              *)
SaveInvoiceNoRollback(s) ==
  /\ At(s, "saveInvoice")
  /\ \E r \in Replies :
       /\ Reply(r)
       /\ invoices' = IF Executed(r) THEN InvoiceSave(calls[s].id, calls[s].row) ELSE invoices
       /\ RecordAnswer(s, r)
  /\ Return(s)
  /\ UNCHANGED <<issued, now, intents, confirmed>>

(* The invoice is saved whole, also when the outcome did not change it.    *)
SaveInvoice(s) ==
  /\ At(s, "saveInvoice")
  /\ \E r \in Replies :
       /\ Reply(r)
       /\ IF r = "ok" THEN Return(s) ELSE GoTo(s, "undoIntent")
       /\ invoices' = IF Executed(r) THEN InvoiceSave(calls[s].id, calls[s].row) ELSE invoices
       /\ RecordAnswer(s, r)
  /\ UNCHANGED <<issued, now, intents, confirmed>>

(* The intent gets the status it was loaded with; the invoice then the row *)
(* it was loaded with, except after an expiry and when this save fails.    *)
UndoIntent(s) ==
  /\ At(s, "undoIntent")
  /\ \E r \in Replies :
       /\ Reply(r)
       /\ IF r = "ok" /\ calls[s].kind # "overdue" THEN GoTo(s, "undoInvoice") ELSE Return(s)
       /\ WriteIntent(s, r, calls[s].was)
  /\ UNCHANGED <<invoices, issued, now, answered, paid>>

UndoInvoice(s) ==
  /\ At(s, "undoInvoice")
  /\ \E r \in Replies :
       /\ Reply(r)
       /\ invoices' = IF Executed(r) THEN InvoiceSave(calls[s].id, calls[s].loaded) ELSE invoices
  /\ Return(s)
  /\ UNCHANGED <<issued, now, intents, confirmed, answered, paid>>

-----------------------------------------------------------------------------
TimePasses ==
  /\ Tick
  /\ UNCHANGED <<faults, invoices, issued, intents, calls, confirmed, answered, paid>>

Crash ==
  /\ CrashFault
  /\ \E s \in Sessions : ~At(s, "idle")
  /\ calls' = [s \in Sessions |-> Idle]
  /\ UNCHANGED <<invoices, issued, now, intents, confirmed, answered, paid>>

(* No request is being served and no client sends another.                 *)
Quiet ==
  /\ \A s \in Sessions : At(s, "idle")
  /\ UNCHANGED vars

Init ==
  /\ faults = NoFaults
  /\ invoices = [i \in InvoiceIds |-> NoInvoice]
  /\ issued = {}
  /\ now = 0
  /\ intents = [p \in IntentIds |-> NoIntent]
  /\ calls = [s \in Sessions |-> Idle]
  /\ confirmed = {}
  /\ answered = {}
  /\ paid = {}

Ask(s) ==
  \/ \E i \in InvoiceIds : GetInvoice(s, i) \/ DeleteInvoice(s, i)
  \/ \E i \in InvoiceIds, p \in IntentIds : PayInvoice(s, i, p)
  \/ \E i \in InvoiceIds, a \in Amounts, d \in Dues : CreateInvoice(s, i, a, d) \/ UpdateInvoice(s, i, a, d)
  \/ \E page \in SUBSET InvoiceIds \ {{}} : ListInvoices(s, page)
  \/ \E p \in IntentIds, outcome \in {"succeed", "fail"} : Simulate(s, p, outcome)

Serve(s) ==
  \/ \E i \in InvoiceIds : RefreshListed(s, i)
  \/ LoadInvoice(s)
  \/ ExpireInvoice(s)
  \/ SaveUpdate(s)
  \/ RemoveInvoice(s)
  \/ InsertIntent(s)
  \/ DecideOverdue(s)
  \/ DecideSuccess(s)
  \/ DecideFailed(s)
  \/ SaveIntent(s)
  \/ SaveInvoice(s)
  \/ UndoIntent(s)
  \/ UndoInvoice(s)

Next == (\E s \in Sessions : Ask(s) \/ Serve(s)) \/ TimePasses \/ Crash \/ Quiet

Spec == Init /\ [][Next]_vars

-----------------------------------------------------------------------------
(* Properties of any number of concurrent requests, whatever fails.        *)

Call == [step : Steps, kind : Kinds, id : InvoiceIds,
         loaded : Invoice \cup {NoInvoice}, row : Invoice \cup {NoInvoice},
         intent : IntentIds \cup {NoIntent}, due : Nat, was : IntentStatus, status : IntentStatus,
         ask : [amount : Amounts \cup {0}, due : Dues]]

Listing == [step : {"list"}, page : UNION {[page -> Invoice] : page \in SUBSET InvoiceIds}]

TypeOK ==
  /\ faults \in FaultsSoFar
  /\ InvoicesTypeOK
  /\ intents \in [IntentIds -> Intent \cup {NoIntent}]
  /\ calls \in [Sessions -> Call \cup Listing \cup {Idle}]
  /\ confirmed \subseteq IntentIds
  /\ answered \subseteq IntentIds
  /\ paid \subseteq answered

(* An intent is inserted some time after its invoice was loaded, and the   *)
(* invoice may be deleted in between: no intent is left without one.       *)
IntentHasInvoice == \A p \in Opened : InvoiceExists(intents[p].invoice)

(* The intent is saved before the invoice, so whatever fails in between,   *)
(* an invoice stored as PAID had an intent stored as SUCCESS.              *)
PaidWasConfirmed ==
  \A i \in InvoiceIds :
    InvoiceExists(i) /\ invoices[i].status = "PAID"
      => \E p \in confirmed : intents[p].invoice = i

(* However stale the row is that a request saves, an invoice stored as     *)
(* EXPIRED is past its due date, or one of its intents is.                 *)
ExpiredWasOverdue ==
  \A i \in InvoiceIds :
    InvoiceExists(i) /\ invoices[i].status = "EXPIRED"
      => \/ invoices[i].due # 0 /\ now > invoices[i].due
         \/ \E p \in IntentsOf(i) : now > intents[p].due

(* Requests that loaded an invoice before it was deleted save it later:    *)
(* it stays deleted.                                                       *)
DeletedStaysDeleted ==
  [][\A i \in issued : ~InvoiceExists(i) => ~InvoiceExists(i)']_vars

(* Delete checks the status some time before it deletes: no PAID invoice   *)
(* is ever deleted, because an intent refers to it.                        *)
PaidNeverDeleted ==
  [][\A i \in InvoiceIds :
       InvoiceExists(i) /\ invoices[i].status = "PAID" => InvoiceExists(i)']_vars

-----------------------------------------------------------------------------
(* Properties of requests served one after the other.                      *)

(* What was answered stays, whatever is asked afterwards and whatever      *)
(* fails: an intent answered SUCCESS stays SUCCESS and its invoice PAID.   *)
(* The exception is the late answer of the expiry branch, which finds an   *)
(* intent left at SUCCESS by a request that stopped halfway, expires its   *)
(* invoice and answers SUCCESS: that invoice stays EXPIRED.                *)
AnsweredIsKept ==
  \A p \in answered :
    LET i == intents[p].invoice IN
    /\ intents[p].status = "SUCCESS" /\ InvoiceExists(i)
    /\ IF p \in paid THEN invoices[i].status = "PAID"
                      ELSE invoices[i].status = "EXPIRED" /\ now > intents[p].due

(* The row of a PAID or EXPIRED invoice, its amount included, never        *)
(* changes.  A second fault, a late one or a crash breaks this.            *)
SettledIsFrozen ==
  [][\A i \in InvoiceIds :
       Gentle' /\ InvoiceExists(i) /\ invoices[i].status # "PENDING"
         => invoices'[i] = invoices[i]]_vars

(* When no request is under way, exactly the intents some request answered *)
(* SUCCESS for are SUCCESS, and exactly their invoices are PAID: "atomic   *)
(* payment flow" in the service, for a single call that is lost.           *)
PaymentIsAtomic ==
  Gentle /\ (\A s \in Sessions : At(s, "idle")) =>
    /\ {p \in Opened : intents[p].status = "SUCCESS"} = answered
    /\ {i \in InvoiceIds : InvoiceExists(i) /\ invoices[i].status = "PAID"}
         = {intents[p].invoice : p \in answered}

-----------------------------------------------------------------------------
(* What the code's checks and messages promise and it does not keep.        *)

(* "only pending invoice can be updated": an intent answered SUCCESS has a *)
(* PAID invoice.  A request that loaded the invoice before and saves it    *)
(* whole breaks this, and so does a stop between the two saves when the    *)
(* outcome is asked for again past the due date (see AnsweredIsKept).      *)
AnsweredIsPaid ==
  \A p \in answered : /\ intents[p].status = "SUCCESS"
                       /\ InvoiceExists(intents[p].invoice)
                       /\ invoices[intents[p].invoice].status = "PAID"
=============================================================================
