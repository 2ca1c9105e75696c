-------------------------- MODULE DashboardQueries --------------------------
(***************************************************************************)
(* What the admin dashboard adds up, and the three lists it adds up from,  *)
(* as the PostgreSQL repositories of the server and the in-memory ones of  *)
(* the tests answer them.  A filter names a merchant, or NoMerchant, and a *)
(* period [from, to] of the clock, or NoPeriod; a row has the fields that  *)
(* are filtered by and counted.  The page of 100000 invoices is all of     *)
(* them, and the order of the rows plays no part.                          *)
(***************************************************************************)
EXTENDS Integers, FiniteSetsExt

CONSTANTS NoMerchant, NoPeriod

Within(row, filter) ==
  \/ filter.period = NoPeriod
  \/ row.at >= filter.period.from /\ row.at <= filter.period.to

OfMerchant(row, filter) == filter.merchant \in {NoMerchant, row.merchant}

-----------------------------------------------------------------------------
(* The PostgreSQL repositories.  The invoices have no condition on the     *)
(* period, and the refunds always have one on the merchant.                *)

PgInvoices(rows, filter) == {r \in rows : OfMerchant(r, filter)}
PgIntents(rows, filter) == {r \in rows : Within(r, filter)}
PgRefunds(rows, filter) == {r \in rows : r.merchant = filter.merchant /\ Within(r, filter)}

(* The in-memory repositories.                                             *)

MemoryInvoices(rows, filter) == {r \in rows : OfMerchant(r, filter) /\ Within(r, filter)}
MemoryIntents(rows, filter) == {r \in rows : Within(r, filter)}
MemoryRefunds(rows, filter) == {r \in rows : OfMerchant(r, filter) /\ Within(r, filter)}

-----------------------------------------------------------------------------
(* GetStats, once it has the three lists.                                  *)

Having(rows, status) == {r \in rows : r.status = status}
Worth(rows) == MapThenSumSet(LAMBDA r : r.amount, rows)

CountInvoices(rows) ==
  [totalInvoices |-> Cardinality(rows),
   paidCount |-> Cardinality(Having(rows, "PAID")),
   expiredCount |-> Cardinality(Having(rows, "EXPIRED")),
   totalTransactionAmount |-> Worth(Having(rows, "PAID"))]

FailedCount(rows) == Cardinality(Having(rows, "FAILED"))
TotalRefundAmount(rows) == Worth(Having(rows, "SUCCESS"))

GetStats(invoices, intents, refunds) ==
  [invoices |-> CountInvoices(invoices),
   failedCount |-> FailedCount(intents),
   totalRefundAmount |-> TotalRefundAmount(refunds)]
=============================================================================
