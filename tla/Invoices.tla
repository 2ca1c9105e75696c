------------------------------ MODULE Invoices ------------------------------
(***************************************************************************)
(* The invoices table with its PostgreSQL repository, and the clock that   *)
(* decides when an invoice is overdue.  The operators below are the table  *)
(* after a statement.  The merchant, the number, the token and the         *)
(* currency of an invoice play no part here and are left out.              *)
(***************************************************************************)
EXTENDS Database, Statuses

CONSTANTS
  InvoiceIds,  \* bound: the ids uuid.NewString can give out
  Amounts,     \* the amounts clients send
  Dues,        \* the due dates clients send, 0 when there is none
  MaxTime,     \* bound: the clock stops there
  NoInvoice

ASSUME InvoiceAssumption ==
  /\ Amounts \subseteq Int64
  /\ Dues \subseteq Nat
  /\ 0 \in Dues
  /\ MaxTime \in Nat
  /\ NoInvoice \notin [amount : Amounts \cap Amount64, status : InvoiceStatus, due : Dues]

VARIABLES
  invoices,  \* the row of each id, or NoInvoice
  issued,    \* history: the ids ever given to an invoice
  now

Invoice == [amount : Amounts \cap Amount64, status : InvoiceStatus, due : Dues]

InvoiceExists(i) == invoices[i] # NoInvoice

InvoiceCreate(i, row) == [invoices EXCEPT ![i] = row]

(* Mistake: a row that is gone is inserted again.                          *)
InvoiceUpsert(i, row) == [invoices EXCEPT ![i] = row]

(* UPDATE of the whole row: amount, currency, status and due date are the  *)
(* ones the writer holds.  There is no error when the row is gone.         *)
InvoiceSave(i, row) ==
  IF InvoiceExists(i) THEN [invoices EXCEPT ![i] = row] ELSE invoices

InvoiceDelete(i) == [invoices EXCEPT ![i] = NoInvoice]

(* Mistake: an invoice expires at its due date.                            *)
OverdueAtDate(row) == row.status = "PENDING" /\ row.due # 0 /\ now >= row.due

(* The condition under which refreshExpiry marks an invoice EXPIRED and    *)
(* saves it.                                                               *)
Overdue(row) == row.status = "PENDING" /\ row.due # 0 /\ now > row.due

Expired(row) == [row EXCEPT !.status = "EXPIRED"]

Tick == now < MaxTime /\ now' = now + 1

InvoicesTypeOK ==
  /\ invoices \in [InvoiceIds -> Invoice \cup {NoInvoice}]
  /\ issued \subseteq InvoiceIds
  /\ now \in 0 .. MaxTime
=============================================================================
