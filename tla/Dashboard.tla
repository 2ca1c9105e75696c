----------------------------- MODULE Dashboard -----------------------------
(***************************************************************************)
(* The admin dashboard beside the services: it adds its figures up from    *)
(* three queries, and between them the other services go on.  What those   *)
(* do to a row is one step here; Payments and Refunds have it in detail.   *)
(* The dashboard writes nothing, so one request at a time shows all that   *)
(* several would.                                                          *)
(***************************************************************************)
EXTENDS DashboardQueries

CONSTANTS
  Merchants,
  Ids,       \* bound: the ids uuid.NewString can give out, per table
  Amounts,   \* the amounts of invoices
  Filters,   \* the filters administrators ask for
  MaxTime    \* bound: the last moment of the clock

VARIABLES
  invoices,  \* the invoices table: its rows
  intents,   \* the payment_intents table: its rows
  refunds,   \* the refunds table: its rows
  now,       \* the clock
  report     \* the dashboard request: the rows each query saw

tables == <<invoices, intents, refunds>>
vars == <<tables, now, report>>

-----------------------------------------------------------------------------
(* The rows the services store.                                            *)

Fresh(rows) == Ids \ {r.id : r \in rows}

Update(rows, r, status) == (rows \ {r}) \cup {[r EXCEPT !.status = status]}

IssueInvoice(i, m, a) ==
  /\ i \in Fresh(invoices)
  /\ invoices' = invoices \cup {[id |-> i, merchant |-> m, amount |-> a, status |-> "PENDING", at |-> now]}
  /\ UNCHANGED <<intents, refunds, now, report>>

SettleInvoice(r, status) ==
  /\ r.status = "PENDING"
  /\ status \in {"PAID", "EXPIRED"}
  /\ invoices' = Update(invoices, r, status)
  /\ UNCHANGED <<intents, refunds, now, report>>

OpenIntent(p) ==
  /\ invoices # {}
  /\ p \in Fresh(intents)
  /\ intents' = intents \cup {[id |-> p, status |-> "PENDING", at |-> now]}
  /\ UNCHANGED <<invoices, refunds, now, report>>

FailIntent(p) ==
  /\ p.status = "PENDING"
  /\ intents' = Update(intents, p, "FAILED")
  /\ UNCHANGED <<invoices, refunds, now, report>>

RequestRefund(f, r) ==
  /\ f \in Fresh(refunds)
  /\ r.status = "PAID"
  /\ refunds' = refunds \cup {[id |-> f, merchant |-> r.merchant, amount |-> r.amount,
                               status |-> "REQUESTED", at |-> now]}
  /\ UNCHANGED <<invoices, intents, now, report>>

(* Approved and processed.                                                 *)
RefundSuccess(f) ==
  /\ f.status = "REQUESTED"
  /\ refunds' = Update(refunds, f, "SUCCESS")
  /\ UNCHANGED <<invoices, intents, now, report>>

TimePasses ==
  /\ now < MaxTime
  /\ now' = now + 1
  /\ UNCHANGED <<tables, report>>

-----------------------------------------------------------------------------
(* Stats and GetStats.  A query that fails, or a row that does not scan,   *)
(* ends the request with an error (Fail).  But no List looks at rows.Err() *)
(* after its loop: a connection that breaks while the rows are read ends   *)
(* the loop, and the rows seen so far are the answer.                      *)

NoReport == [step |-> "idle"]

Seen(rows) == SUBSET rows

ReadInvoices(filter, rows) ==
  /\ report.step \in {"idle", "answered"}
  /\ report' = [step |-> "intents", filter |-> filter, invoices |-> rows]
  /\ UNCHANGED <<tables, now>>

ReadIntents(rows) ==
  /\ report.step = "intents"
  /\ report' = [step |-> "refunds", filter |-> report.filter, invoices |-> report.invoices,
                intents |-> rows]
  /\ UNCHANGED <<tables, now>>

ReadRefunds(rows) ==
  /\ report.step = "refunds"
  /\ report' = [step |-> "answered", filter |-> report.filter, invoices |-> report.invoices,
                intents |-> report.intents, refunds |-> rows]
  /\ UNCHANGED <<tables, now>>

(* At any of the three queries, the first one of the next request included. *)
Fail ==
  /\ report.step \in {"intents", "refunds", "answered"}
  /\ report' = NoReport
  /\ UNCHANGED <<tables, now>>

Init ==
  /\ invoices = {} /\ intents = {} /\ refunds = {}
  /\ now = 0
  /\ report = NoReport

Services ==
  \/ \E i \in Ids, m \in Merchants, a \in Amounts : IssueInvoice(i, m, a)
  \/ \E r \in invoices, status \in {"PAID", "EXPIRED"} : SettleInvoice(r, status)
  \/ \E p \in Ids : OpenIntent(p)
  \/ \E p \in intents : FailIntent(p)
  \/ \E f \in Ids, r \in invoices : RequestRefund(f, r)
  \/ \E f \in refunds : RefundSuccess(f)
  \/ TimePasses

Next ==
  \/ Services
  \/ \E filter \in Filters, rows \in Seen(invoices) : ReadInvoices(filter, rows)
  \/ \E rows \in Seen(intents) : ReadIntents(rows)
  \/ \E rows \in Seen(refunds) : ReadRefunds(rows)
  \/ Fail

Spec == Init /\ [][Next]_vars

-----------------------------------------------------------------------------
(* What the server answers to a request whose queries saw these rows, and  *)
(* what the tests' repositories would have answered on the same rows.      *)

Answer ==
  GetStats(PgInvoices(report.invoices, report.filter),
           PgIntents(report.intents, report.filter),
           PgRefunds(report.refunds, report.filter))

TestedAnswer ==
  GetStats(MemoryInvoices(report.invoices, report.filter),
           MemoryIntents(report.intents, report.filter),
           MemoryRefunds(report.refunds, report.filter))

(* "assert.Equal(t, 2, stats.TotalInvoices)" with a merchant and a period, *)
(* "assert.Equal(t, int64(500), stats.TotalRefundAmount)" with no filter:  *)
(* the server counts what the tests count.                                 *)
AnswersAsTested == report.step = "answered" => Answer = TestedAnswer
=============================================================================
