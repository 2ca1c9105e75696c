--------------------------- MODULE RefundsProofs ---------------------------
(***************************************************************************)
(* Proofs about Refunds for every value of its constants.  The inductive   *)
(* invariant Inv says, besides the types, what the call of a request that  *)
(* has come to a step relies on (Fits): its refund is stored, was approved *)
(* before it is credited and credited before it is SUCCESS, and its invoice*)
(* was PAID before the refund is stored.  Whatever the other services save *)
(* of an invoice, they do not take back that it was PAID (paidFor).        *)
(* BookInv adds what the amounts come to: what is SUCCESS was credited, so *)
(* a check of what is left of an invoice cannot wrap around.  RefundsKnown *)
(* and WalletsKnown are what the only request under way may rely on.       *)
(***************************************************************************)
EXTENDS Refunds, DatabaseProofs, SumProofs

Requesting == {"loadInvoice", "expire", "sum", "insert"}
Settling == {"credit", "saveSuccess", "undo", "undoCreated"}

WasPaid(i) == paidFor[i] # {}

Fits(c) ==
  /\ c.step \in Requesting => c.row.status = "REQUESTED"
  /\ c.step \notin Requesting \cup {"idle"} => c.id \in Filed
  /\ c.step = "save" => c.row.status # "SUCCESS"
  /\ c.step \in {"findWallet", "createWallet"} /\ RefundCanSucceed(c.row.status) => c.id \in approved
  /\ c.step \in Settling => c.row.status = "SUCCESS" /\ c.id \in approved
  /\ c.step = "saveSuccess" => c.id \in credited
  /\ c.step \in {"expire", "sum"} => c.loaded \in Invoice
  /\ c.step = "sum" => c.loaded.amount \in paidFor[c.row.invoice]
  /\ c.step = "insert" => WasPaid(c.row.invoice)

CallsFit == \A s \in Sessions : Fits(calls[s])

(* An id is given to an invoice once.                                      *)
IssuedKnown == \A i \in InvoiceIds : InvoiceExists(i) => i \in issued

(* A refund that may be credited, or was, has been APPROVED.               *)
ApprovedKnown == \A f \in Filed : RefundCanSucceed(refunds[f].status) => f \in approved

(* An invoice that was PAID is still there, and a PAID one was so with the *)
(* amount it has.                                                          *)
PaidStands ==
  \A i \in InvoiceIds :
    /\ WasPaid(i) => InvoiceExists(i)
    /\ InvoiceExists(i) /\ invoices[i].status = "PAID" => invoices[i].amount \in paidFor[i]

(* The refunds stored are of invoices that were PAID.                      *)
InvoicesWerePaid == \A f \in Filed : WasPaid(refunds[f].invoice)

Tables == /\ IssuedKnown /\ ApprovedKnown /\ PaidStands /\ InvoicesWerePaid
          /\ SuccessWasCredited /\ CreditedWasApproved

Inv == TypeOK /\ CallsFit /\ Tables

-----------------------------------------------------------------------------
(* Types.                                                                  *)

LEMMA WalletCreateType ==
  ASSUME WalletsTypeOK, NEW m \in Merchants
  PROVE  WalletCreate(m) \in [Merchants -> Int64 \cup {NoWallet}]
BY ZeroIsInt64 DEF WalletsTypeOK, WalletCreate

LEMMA WalletSaveType ==
  ASSUME WalletsTypeOK, NEW m \in Merchants, NEW b \in Int64
  PROVE  WalletSave(m, b) \in [Merchants -> Int64 \cup {NoWallet}]
BY DEF WalletsTypeOK, WalletSave

LEMMA NoRefundIsNoRow == NoRefund \notin Refund
BY RefundAssumption DEF Refund

LEMMA NoInvoiceIsNoRow == NoInvoice \notin Invoice
BY InvoiceAssumption DEF Invoice

LEMMA FiledRow ==
  ASSUME TypeOK, NEW f \in Filed
  PROVE  f \in RefundIds /\ refunds[f] \in Refund /\ Issuer[refunds[f].invoice] \in Merchants
BY RefundAssumption DEF TypeOK, Filed, Refund

LEMMA CallType ==
  ASSUME TypeOK, NEW s \in Sessions, ~At(s, "idle")
  PROVE  /\ calls[s] \in Call
         /\ Id(s) \in RefundIds /\ Row(s) \in Refund /\ Merchant(s) \in Merchants
         /\ Row(s).invoice \in InvoiceIds /\ Row(s).amount \in Amount64 /\ Row(s).status \in RefundStatus
         /\ calls[s].base \in Int64
<1>1. calls[s] \in Call
  BY DEF TypeOK, At, Idle
<1> QED
  BY <1>1, RefundAssumption DEF Call, Id, Row, Merchant, Refund

(* The call a request begins or goes on with, seen as one value.           *)
LEMMA BeginGives ==
  ASSUME NEW s \in Sessions, NEW step \in Steps, NEW f \in RefundIds, NEW row \in Refund,
         Begin(s, step, f, row)
  PROVE  \E c \in Call : /\ calls' = [calls EXCEPT ![s] = c]
                         /\ c.step = step /\ c.id = f /\ c.row = row
<1> DEFINE d == [step |-> step, id |-> f, row |-> row, loaded |-> NoInvoice, base |-> 0, created |-> FALSE]
<1>1. d \in Call /\ d.step = step /\ d.id = f /\ d.row = row
  BY ZeroIsInt64 DEF Call
<1>2. calls' = [calls EXCEPT ![s] = d]
  BY DEF Begin, Become
<1> HIDE DEF d
<1> QED
  BY <1>1, <1>2

LEMMA GoToGives ==
  ASSUME NEW s \in Sessions, calls[s] \in Call, NEW step \in Steps, GoTo(s, step)
  PROVE  \E c \in Call : /\ calls' = [calls EXCEPT ![s] = c]
                         /\ c.step = step /\ c.id = Id(s) /\ c.row = Row(s)
                         /\ c.base = calls[s].base /\ c.created = calls[s].created
<1> DEFINE d == [calls[s] EXCEPT !.step = step]
<1>1. /\ d \in Call /\ d.step = step /\ d.id = Id(s) /\ d.row = Row(s)
      /\ d.base = calls[s].base /\ d.created = calls[s].created
  BY DEF Call, Id, Row
<1>2. calls' = [calls EXCEPT ![s] = d]
  BY DEF GoTo
<1> HIDE DEF d
<1> QED
  BY <1>1, <1>2

LEMMA MarkSuccessGives ==
  ASSUME NEW s \in Sessions, calls[s] \in Call, NEW base \in Int64, NEW created \in BOOLEAN,
         MarkSuccess(s, base, created)
  PROVE  \/ Return(s)
         \/ /\ RefundCanSucceed(Row(s).status)
            /\ \E c \in Call : /\ calls' = [calls EXCEPT ![s] = c]
                               /\ c.step = "credit" /\ c.id = Id(s) /\ c.row.status = "SUCCESS"
                               /\ c.row.invoice = Row(s).invoice /\ c.row.amount = Row(s).amount
                               /\ c.base = base /\ c.created = created
<1> DEFINE d == [calls[s] EXCEPT !.step = "credit", !.row.status = "SUCCESS",
                                 !.base = base, !.created = created]
<1>1. /\ d \in Call /\ d.step = "credit" /\ d.id = Id(s) /\ d.row.status = "SUCCESS"
      /\ d.row.invoice = Row(s).invoice /\ d.row.amount = Row(s).amount
      /\ d.base = base /\ d.created = created
  BY DEF Call, Refund, RefundStatus, Steps, Id, Row
<1>2. \/ Return(s)
      \/ RefundCanSucceed(Row(s).status) /\ calls' = [calls EXCEPT ![s] = d]
  BY DEF MarkSuccess, Become
<1> HIDE DEF d
<1> QED
  BY <1>1, <1>2

-----------------------------------------------------------------------------
(* What a step may do without a call that waits beside it noticing.        *)

Keeps ==
  /\ Filed \subseteq Filed' /\ approved \subseteq approved' /\ credited \subseteq credited'
  /\ \A i \in InvoiceIds : paidFor[i] \subseteq paidFor'[i]

LEMMA OtherFits ==
  ASSUME TypeOK, CallsFit, Keeps, NEW t \in Sessions, calls'[t] = calls[t]
  PROVE  Fits(calls[t])'
<1>1. Fits(calls[t])
  BY DEF CallsFit
<1>2. CASE At(t, "idle")
  BY <1>2 DEF Fits, At, Requesting, Settling
<1>3. CASE ~At(t, "idle")
  <2>1. calls[t].row.invoice \in InvoiceIds
    BY <1>3, CallType DEF Row
  <2>2. At(t, "insert") => WasPaid(calls[t].row.invoice)'
    BY <1>1, <2>1 DEF Fits, At, Keeps, WasPaid
  <2>3. At(t, "sum") => calls[t].loaded.amount \in paidFor'[calls[t].row.invoice]
    BY <1>1, <2>1 DEF Fits, At, Keeps
  <2> QED
    BY <1>1, <2>2, <2>3 DEF Fits, At, Keeps
<1> QED
  BY <1>2, <1>3

LEMMA MoveInv ==
  ASSUME Inv, TypeOK', Tables', NEW s \in Sessions, Keeps,
         NEW c, calls' = [calls EXCEPT ![s] = c], Fits(c)'
  PROVE  Inv'
<1>1. Fits(calls[s])'
  <2>1. calls'[s] = c
    BY DEF Inv, TypeOK
  <2> QED
    BY <2>1
<1>2. ASSUME NEW t \in Sessions \ {s} PROVE Fits(calls[t])'
  <2>1. calls'[t] = calls[t]
    BY DEF Inv, TypeOK
  <2> QED
    BY <2>1, OtherFits DEF Inv
<1> QED
  BY <1>1, <1>2 DEF Inv, CallsFit

LEMMA EndInv ==
  ASSUME Inv, TypeOK', Tables', NEW s \in Sessions, Keeps, Return(s)
  PROVE  Inv'
<1>1. Fits(Idle)'
  BY DEF Fits, Idle, Requesting, Settling
<1> QED
  BY <1>1, MoveInv DEF Return, Become

(* Nothing changes but the call, the wallets and the count of the faults.  *)
TablesStay == UNCHANGED <<invoices, issued, paidFor, now, refunds, history>>

LEMMA StayTables ==
  ASSUME Inv, TablesStay, NEW s \in Sessions
  PROVE  Tables' /\ Keeps
<1>1. UNCHANGED <<invoices, issued, paidFor, refunds, approved, credited>>
  BY DEF TablesStay, history
<1>2. Filed' = Filed
  BY <1>1 DEF Filed
<1>3. Tables'
  BY <1>1, <1>2 DEF Inv, Tables, IssuedKnown, ApprovedKnown, PaidStands, InvoicesWerePaid, WasPaid, InvoiceExists,
                    SuccessWasCredited, CreditedWasApproved
<1>4. Keeps
  BY <1>1, <1>2 DEF Keeps
<1> QED
  BY <1>3, <1>4

LEMMA CallOnlyInv ==
  ASSUME Inv, TablesStay, NEW s \in Sessions, NEW c \in Call, calls' = [calls EXCEPT ![s] = c],
         faults' \in FaultsSoFar, WalletsTypeOK', Fits(c)
  PROVE  Inv'
<1>1. UNCHANGED <<invoices, issued, paidFor, now, refunds, granted, acked, approved, credited>>
  BY DEF TablesStay, history
<1>2. TypeOK'
  BY <1>1 DEF Inv, TypeOK, InvoicesTypeOK
<1>3. Fits(c)'
  BY <1>1 DEF Fits, Filed, WasPaid, InvoiceExists
<1> QED
  BY <1>2, <1>3, StayTables, MoveInv

LEMMA ReturnOnlyInv ==
  ASSUME Inv, TablesStay, NEW s \in Sessions, Return(s), faults' \in FaultsSoFar, WalletsTypeOK'
  PROVE  Inv'
<1>1. UNCHANGED <<invoices, issued, paidFor, now, refunds, granted, acked, approved, credited>>
  BY DEF TablesStay, history
<1>2. TypeOK'
  BY <1>1 DEF Inv, TypeOK, InvoicesTypeOK, Return, Become
<1> QED
  BY <1>2, StayTables, EndInv

-----------------------------------------------------------------------------
(* The steps that leave the tables of refunds and invoices alone.          *)

LEMMA RequestRefundInv ==
  ASSUME Inv, NEW s \in Sessions, NEW f \in RefundIds, NEW i \in InvoiceIds, NEW a \in Amounts,
         RequestRefund(s, f, i, a)
  PROVE  Inv'
<1> DEFINE row == [invoice |-> i, amount |-> a, status |-> "REQUESTED"]
<1>1. a \in Amount64
  BY InvoiceAssumption, Int64Assumption DEF RequestRefund, Int64, Amount64
<1>2. row \in Refund /\ row.status = "REQUESTED"
  BY <1>1 DEF Refund, RefundStatus
<1>3. Begin(s, "loadInvoice", f, row) /\ TablesStay /\ UNCHANGED <<faults, wallets>>
  BY DEF RequestRefund, TablesStay
<1> HIDE DEF row
<1>4. PICK c \in Call : /\ calls' = [calls EXCEPT ![s] = c]
                        /\ c.step = "loadInvoice" /\ c.row = row
  BY <1>2, <1>3, BeginGives DEF Steps
<1>5. Fits(c)
  BY <1>2, <1>4 DEF Fits, Requesting, Settling
<1>6. faults' \in FaultsSoFar /\ WalletsTypeOK'
  BY <1>3 DEF Inv, TypeOK, WalletsTypeOK
<1> QED
  BY <1>3, <1>4, <1>5, <1>6, CallOnlyInv

LEMMA LoadInvoiceInv ==
  ASSUME Inv, NEW s \in Sessions, LoadInvoice(s)
  PROVE  Inv'
<1> DEFINE i == Row(s).invoice
<1>1. At(s, "loadInvoice") /\ TablesStay /\ UNCHANGED wallets
  BY DEF LoadInvoice, TablesStay
<1>2. PICK r \in Replies :
        /\ Reply(r)
        /\ \/ Return(s)
           \/ InvoiceExists(i) /\ Become(s, [calls[s] EXCEPT !.step = "expire", !.loaded = invoices[i]])
           \/ /\ InvoiceExists(i) /\ Refundable(invoices[i])
              /\ Become(s, [calls[s] EXCEPT !.step = "sum", !.loaded = invoices[i]])
  BY DEF LoadInvoice, InvoiceExists
<1>3. faults' \in FaultsSoFar /\ WalletsTypeOK'
  BY <1>1, <1>2, ReplyType DEF Inv, TypeOK, WalletsTypeOK
<1>4. calls[s] \in Call /\ i \in InvoiceIds /\ Row(s).status = "REQUESTED" /\ Row(s) = calls[s].row
  <2>1. ~At(s, "idle")
    BY <1>1 DEF At
  <2> QED
    BY <1>1, <2>1, CallType DEF Inv, CallsFit, Fits, At, Row, Requesting
<1> HIDE DEF i
<1>5. CASE Return(s)
  BY <1>1, <1>3, <1>5, ReturnOnlyInv
<1>6. ASSUME InvoiceExists(i) PROVE invoices[i] \in Invoice /\ invoices[i] \in Invoice \cup {NoInvoice}
  BY <1>4, <1>6 DEF Inv, TypeOK, InvoicesTypeOK, InvoiceExists
<1>7. CASE InvoiceExists(i) /\ Become(s, [calls[s] EXCEPT !.step = "expire", !.loaded = invoices[i]])
  <2>1. /\ calls[s] \in Call /\ "expire" \in Steps /\ invoices[i] \in Invoice \cup {NoInvoice}
        /\ Become(s, [calls[s] EXCEPT !.step = "expire", !.loaded = invoices[i]])
    BY <1>4, <1>6, <1>7 DEF Steps
  <2>2. PICK c : c = [calls[s] EXCEPT !.step = "expire", !.loaded = invoices[i]]
    OBVIOUS
  <2>3. c \in Call /\ c.step = "expire" /\ c.row = Row(s) /\ c.loaded = invoices[i]
    BY <2>1, <2>2 DEF Call, Id, Row
  <2>4. calls' = [calls EXCEPT ![s] = c]
    BY <2>1, <2>2 DEF Become
  <2>5. Fits(c)
    BY <1>4, <1>6, <1>7, <2>3 DEF Fits, Requesting, Settling
  <2> QED
    BY <1>1, <1>3, <2>3, <2>4, <2>5, CallOnlyInv
<1>8. CASE /\ InvoiceExists(i) /\ Refundable(invoices[i])
           /\ Become(s, [calls[s] EXCEPT !.step = "sum", !.loaded = invoices[i]])
  <2>1. /\ calls[s] \in Call /\ "sum" \in Steps /\ invoices[i] \in Invoice \cup {NoInvoice}
        /\ Become(s, [calls[s] EXCEPT !.step = "sum", !.loaded = invoices[i]])
    BY <1>4, <1>6, <1>8 DEF Steps
  <2>2. PICK c : c = [calls[s] EXCEPT !.step = "sum", !.loaded = invoices[i]]
    OBVIOUS
  <2>3. c \in Call /\ c.step = "sum" /\ c.row = Row(s) /\ c.loaded = invoices[i]
    BY <2>1, <2>2 DEF Call, Id, Row
  <2>4. calls' = [calls EXCEPT ![s] = c]
    BY <2>1, <2>2 DEF Become
  <2>5. invoices[i].amount \in paidFor[i]
    BY <1>4, <1>8 DEF Refundable, Inv, Tables, PaidStands
  <2>6. Fits(c)
    BY <1>4, <1>6, <1>8, <2>3, <2>5 DEF Fits, Requesting, Settling, i
  <2> QED
    BY <1>1, <1>3, <2>3, <2>4, <2>6, CallOnlyInv
<1> QED
  BY <1>2, <1>5, <1>7, <1>8

LEMMA SumRefundsInv ==
  ASSUME Inv, NEW s \in Sessions, SumRefunds(s)
  PROVE  Inv'
<1>1. At(s, "sum") /\ TablesStay /\ UNCHANGED wallets
  BY DEF SumRefunds, TablesStay
<1>2. PICK r \in Replies :
        /\ Reply(r)
        /\ \/ Return(s)
           \/ Become(s, [calls[s] EXCEPT !.step = "insert", !.loaded = NoInvoice])
  BY DEF SumRefunds
<1>3. faults' \in FaultsSoFar /\ WalletsTypeOK'
  BY <1>1, <1>2, ReplyType DEF Inv, TypeOK, WalletsTypeOK
<1>4. calls[s] \in Call /\ Row(s).status = "REQUESTED" /\ WasPaid(Row(s).invoice)
  <2>1. ~At(s, "idle")
    BY <1>1 DEF At
  <2> QED
    BY <1>1, <2>1, CallType DEF Inv, CallsFit, Fits, At, Row, Requesting, WasPaid
<1>5. CASE Return(s)
  BY <1>1, <1>3, <1>5, ReturnOnlyInv
<1>6. CASE Become(s, [calls[s] EXCEPT !.step = "insert", !.loaded = NoInvoice])
  <2>1. "insert" \in Steps /\ NoInvoice \in Invoice \cup {NoInvoice}
    BY DEF Steps
  <2>2. PICK c : c = [calls[s] EXCEPT !.step = "insert", !.loaded = NoInvoice]
    OBVIOUS
  <2>3. c \in Call /\ c.step = "insert" /\ c.row = Row(s)
    BY <1>4, <2>1, <2>2 DEF Call, Id, Row
  <2>4. calls' = [calls EXCEPT ![s] = c]
    BY <1>6, <2>2 DEF Become
  <2>5. Fits(c)
    BY <1>4, <2>3 DEF Fits, Requesting, Settling
  <2> QED
    BY <1>1, <1>3, <2>3, <2>4, <2>5, CallOnlyInv
<1> QED
  BY <1>2, <1>5, <1>6

LEMMA MarkInv ==
  ASSUME Inv, NEW s \in Sessions, NEW f \in RefundIds, NEW st \in RefundStatus \ {"SUCCESS"}, Mark(s, f, st)
  PROVE  Inv'
<1> DEFINE row == [refunds[f] EXCEPT !.status = st]
<1>1. f \in Filed /\ TablesStay /\ UNCHANGED <<faults, wallets>>
  BY DEF Mark, TablesStay
<1>2. row \in Refund /\ row.status = st
  BY <1>1, FiledRow DEF Inv, Refund
<1>3. Begin(s, "save", f, row)
  BY DEF Mark
<1> HIDE DEF row
<1>4. PICK c \in Call : /\ calls' = [calls EXCEPT ![s] = c]
                        /\ c.step = "save" /\ c.id = f /\ c.row = row
  BY <1>2, <1>3, BeginGives DEF Steps
<1>5. Fits(c)
  BY <1>1, <1>2, <1>4 DEF Fits, Requesting, Settling
<1>6. faults' \in FaultsSoFar /\ WalletsTypeOK'
  BY <1>1 DEF Inv, TypeOK, WalletsTypeOK
<1> QED
  BY <1>1, <1>4, <1>5, <1>6, CallOnlyInv

LEMMA ProcessSuccessInv ==
  ASSUME Inv, NEW s \in Sessions, NEW f \in RefundIds, ProcessSuccess(s, f)
  PROVE  Inv'
<1>1. f \in Filed /\ TablesStay /\ UNCHANGED <<faults, wallets>>
  BY DEF ProcessSuccess, TablesStay
<1>2. refunds[f] \in Refund /\ (RefundCanSucceed(refunds[f].status) => f \in approved)
  BY <1>1, FiledRow DEF Inv, Tables, ApprovedKnown
<1>3. Begin(s, "findWallet", f, refunds[f])
  BY DEF ProcessSuccess
<1>4. PICK c \in Call : /\ calls' = [calls EXCEPT ![s] = c]
                        /\ c.step = "findWallet" /\ c.id = f /\ c.row = refunds[f]
  BY <1>2, <1>3, BeginGives DEF Steps
<1>5. Fits(c)
  BY <1>1, <1>2, <1>4 DEF Fits, Requesting, Settling
<1>6. faults' \in FaultsSoFar /\ WalletsTypeOK'
  BY <1>1 DEF Inv, TypeOK, WalletsTypeOK
<1> QED
  BY <1>1, <1>4, <1>5, <1>6, CallOnlyInv

(* A request that has found or created the wallet marks its refund.        *)
LEMMA MarkSuccessInv ==
  ASSUME Inv, TablesStay, NEW s \in Sessions, At(s, "findWallet") \/ At(s, "createWallet"),
         NEW base \in Int64, NEW created \in BOOLEAN, MarkSuccess(s, base, created),
         faults' \in FaultsSoFar, WalletsTypeOK'
  PROVE  Inv'
<1>1. /\ calls[s] \in Call /\ Id(s) \in Filed
      /\ RefundCanSucceed(Row(s).status) => Id(s) \in approved
  <2>1. ~At(s, "idle")
    BY DEF At
  <2> QED
    BY <2>1, CallType DEF Inv, CallsFit, Fits, At, Id, Row, Requesting
<1>2. CASE Return(s)
  BY <1>2, ReturnOnlyInv
<1>3. CASE /\ RefundCanSucceed(Row(s).status)
           /\ \E c \in Call : /\ calls' = [calls EXCEPT ![s] = c]
                              /\ c.step = "credit" /\ c.id = Id(s) /\ c.row.status = "SUCCESS"
  <2>1. PICK c \in Call : /\ calls' = [calls EXCEPT ![s] = c]
                          /\ c.step = "credit" /\ c.id = Id(s) /\ c.row.status = "SUCCESS"
    BY <1>3
  <2>2. Fits(c)
    BY <1>1, <1>3, <2>1 DEF Fits, Requesting, Settling
  <2> QED
    BY <2>1, <2>2, CallOnlyInv
<1> QED
  BY <1>1, <1>2, <1>3, MarkSuccessGives

(* A settlement that goes on to a step that relies on nothing new.         *)
LEMMA GoToInv ==
  ASSUME Inv, TablesStay, NEW s \in Sessions, NEW from \in Steps \ Requesting, At(s, from), from # "save",
         NEW step \in {"createWallet", "undoCreated"}, from \in Settling <=> step \in Settling,
         GoTo(s, step), faults' \in FaultsSoFar, WalletsTypeOK'
  PROVE  Inv'
<1>1. calls[s] \in Call /\ Fits(calls[s])
  <2>1. ~At(s, "idle")
    BY DEF At, Steps
  <2> QED
    BY <2>1, CallType DEF Inv, CallsFit
<1>2. PICK c \in Call : /\ calls' = [calls EXCEPT ![s] = c]
                        /\ c.step = step /\ c.id = Id(s) /\ c.row = Row(s)
  BY <1>1, GoToGives DEF Steps
<1>3. Fits(c)
  BY <1>1, <1>2 DEF Fits, At, Id, Row, Steps, Requesting, Settling
<1> QED
  BY <1>2, <1>3, CallOnlyInv

LEMMA FindWalletInv ==
  ASSUME Inv, NEW s \in Sessions, FindWallet(s)
  PROVE  Inv'
<1>1. At(s, "findWallet") /\ TablesStay /\ UNCHANGED wallets
  BY DEF FindWallet, TablesStay
<1>2. PICK r \in Replies :
        /\ Reply(r)
        /\ \/ Return(s)
           \/ HasWallet(Merchant(s)) /\ MarkSuccess(s, wallets[Merchant(s)], FALSE)
           \/ GoTo(s, "createWallet")
  BY DEF FindWallet
<1>3. faults' \in FaultsSoFar /\ WalletsTypeOK'
  BY <1>1, <1>2, ReplyType DEF Inv, TypeOK, WalletsTypeOK
<1>4. CASE Return(s)
  BY <1>1, <1>3, <1>4, ReturnOnlyInv
<1>5. CASE HasWallet(Merchant(s)) /\ MarkSuccess(s, wallets[Merchant(s)], FALSE)
  <2>1. wallets[Merchant(s)] \in Int64
    BY <1>1, <1>5, CallType DEF At, Inv, TypeOK, WalletsTypeOK, HasWallet
  <2> QED
    BY <1>1, <1>3, <1>5, <2>1, MarkSuccessInv
<1>6. CASE GoTo(s, "createWallet")
  BY <1>1, <1>3, <1>6, GoToInv DEF Steps, Requesting, Settling
<1> QED
  BY <1>2, <1>4, <1>5, <1>6

LEMMA CreateWalletInv ==
  ASSUME Inv, NEW s \in Sessions, CreateWallet(s)
  PROVE  Inv'
<1>1. At(s, "createWallet") /\ TablesStay
  BY DEF CreateWallet, TablesStay
<1>2. PICK r \in Replies :
        /\ Reply(r)
        /\ MarkSuccess(s, 0, TRUE) \/ Return(s)
        /\ wallets' = IF Executed(r) THEN WalletCreate(Merchant(s)) ELSE wallets
  BY DEF CreateWallet
<1>3. Merchant(s) \in Merchants
  BY <1>1, CallType DEF At, Inv
<1>4. faults' \in FaultsSoFar /\ WalletsTypeOK'
  BY <1>2, <1>3, ReplyType, WalletCreateType DEF Inv, TypeOK, WalletsTypeOK
<1>5. CASE Return(s)
  BY <1>1, <1>4, <1>5, ReturnOnlyInv
<1>6. CASE MarkSuccess(s, 0, TRUE)
  BY <1>1, <1>4, <1>6, MarkSuccessInv, ZeroIsInt64
<1> QED
  BY <1>2, <1>5, <1>6

LEMMA UndoCreditInv ==
  ASSUME Inv, NEW s \in Sessions, UndoCredit(s)
  PROVE  Inv'
<1>1. At(s, "undo") /\ TablesStay /\ (GoTo(s, "undoCreated") \/ Return(s))
  BY DEF UndoCredit, TablesStay
<1>2. PICK r \in Replies :
        /\ Reply(r)
        /\ wallets' = IF Executed(r) THEN WalletSave(Merchant(s), calls[s].base) ELSE wallets
  BY DEF UndoCredit
<1>3. Merchant(s) \in Merchants /\ calls[s].base \in Int64
  BY <1>1, CallType DEF At, Inv
<1>4. faults' \in FaultsSoFar /\ WalletsTypeOK'
  BY <1>2, <1>3, ReplyType, WalletSaveType DEF Inv, TypeOK, WalletsTypeOK
<1>5. CASE Return(s)
  BY <1>1, <1>4, <1>5, ReturnOnlyInv
<1>6. CASE GoTo(s, "undoCreated")
  BY <1>1, <1>4, <1>6, GoToInv DEF Steps, Requesting, Settling
<1> QED
  BY <1>1, <1>5, <1>6

LEMMA UndoCreatedInv ==
  ASSUME Inv, NEW s \in Sessions, UndoCreated(s)
  PROVE  Inv'
<1>1. At(s, "undoCreated") /\ TablesStay /\ Return(s)
  BY DEF UndoCreated, TablesStay
<1>2. PICK r \in Replies :
        /\ Reply(r)
        /\ wallets' = IF Executed(r) THEN WalletSave(Merchant(s), 0) ELSE wallets
  BY DEF UndoCreated
<1>3. Merchant(s) \in Merchants
  BY <1>1, CallType DEF At, Inv
<1>4. faults' \in FaultsSoFar /\ WalletsTypeOK'
  BY <1>2, <1>3, ReplyType, WalletSaveType, ZeroIsInt64 DEF Inv, TypeOK, WalletsTypeOK
<1> QED
  BY <1>1, <1>4, ReturnOnlyInv

-----------------------------------------------------------------------------
(* The steps that change a table.                                          *)

(* A status is saved, if the call took effect.                             *)
LEMMA RefundSaveKeeps ==
  ASSUME Inv, NEW f \in Filed, NEW st \in RefundStatus,
         \/ refunds' = refunds
         \/ /\ refunds' = RefundSave(f, st)
            /\ RefundCanSucceed(st) => f \in approved'
            /\ st = "SUCCESS" => f \in credited,
         approved \subseteq approved', UNCHANGED <<invoices, issued, paidFor, credited>>
  PROVE  Tables' /\ Keeps /\ refunds' \in [RefundIds -> Refund \cup {NoRefund}]
<1>1. CASE refunds' = refunds
  <2>1. Filed' = Filed
    BY <1>1 DEF Filed
  <2> QED
    BY <1>1, <2>1 DEF Inv, TypeOK, Tables, IssuedKnown, ApprovedKnown, PaidStands, InvoicesWerePaid, WasPaid, InvoiceExists,
                      SuccessWasCredited, CreditedWasApproved, Keeps
<1>2. CASE /\ refunds' = RefundSave(f, st)
           /\ RefundCanSucceed(st) => f \in approved'
           /\ st = "SUCCESS" => f \in credited
  <2> DEFINE row == [refunds[f] EXCEPT !.status = st]
  <2>1. refunds' = [refunds EXCEPT ![f] = row] /\ f \in RefundIds
    BY <1>2, FiledRow DEF RefundSave, Inv
  <2>2. row \in Refund /\ row # NoRefund /\ row.status = st /\ row.invoice = refunds[f].invoice
    BY FiledRow, NoRefundIsNoRow DEF Inv, Refund
  <2> HIDE DEF row
  <2>3. refunds' \in [RefundIds -> Refund \cup {NoRefund}]
    BY <2>1, <2>2 DEF Inv, TypeOK
  <2>4. /\ Filed' = Filed
        /\ refunds'[f] = row
        /\ \A g \in Filed \ {f} : refunds'[g] = refunds[g]
    BY <2>1, <2>2 DEF Filed, Inv, TypeOK
  <2>5. Tables'
    BY <1>2, <2>2, <2>4 DEF Inv, Tables, IssuedKnown, ApprovedKnown, PaidStands, InvoicesWerePaid, WasPaid, InvoiceExists,
                            SuccessWasCredited, CreditedWasApproved
  <2>6. Keeps
    BY <2>4 DEF Keeps
  <2> QED
    BY <2>3, <2>5, <2>6
<1> QED
  BY <1>1, <1>2

LEMMA SaveRefundInv ==
  ASSUME Inv, NEW s \in Sessions, SaveRefund(s)
  PROVE  Inv'
<1>1. At(s, "save") /\ Return(s) /\ UNCHANGED <<wallets, invoices, issued, paidFor, now, granted, acked, credited>>
  BY DEF SaveRefund
<1>2. PICK r \in Replies :
        /\ Reply(r)
        /\ refunds' = IF Executed(r) THEN RefundSave(Id(s), Row(s).status) ELSE refunds
        /\ approved' = IF Executed(r) /\ Row(s).status = "APPROVED"
                         THEN approved \cup {Id(s)} ELSE approved
  BY DEF SaveRefund
<1>3. Id(s) \in Filed /\ Id(s) \in RefundIds /\ Row(s).status \in RefundStatus /\ Row(s).status # "SUCCESS"
  <2>1. ~At(s, "idle")
    BY <1>1 DEF At
  <2> QED
    BY <1>1, <2>1, CallType DEF Inv, CallsFit, Fits, At, Id, Row, Requesting
<1>4. /\ Tables' /\ Keeps
      /\ refunds' \in [RefundIds -> Refund \cup {NoRefund}]
  BY <1>1, <1>2, <1>3, RefundSaveKeeps DEF RefundCanSucceed
<1>5. TypeOK'
  BY <1>1, <1>2, <1>3, <1>4, ReplyType DEF Inv, TypeOK, WalletsTypeOK, InvoicesTypeOK, Return, Become
<1> QED
  BY <1>1, <1>4, <1>5, EndInv

LEMMA SaveSuccessInv ==
  ASSUME Inv, NEW s \in Sessions, SaveSuccess(s)
  PROVE  Inv'
<1>1. At(s, "saveSuccess") /\ UNCHANGED <<wallets, invoices, issued, paidFor, now, granted, approved, credited>>
  BY DEF SaveSuccess
<1>2. PICK r \in Replies :
        /\ Reply(r)
        /\ refunds' = IF Executed(r) THEN RefundSave(Id(s), Row(s).status) ELSE refunds
        /\ \/ Return(s) /\ acked' = [acked EXCEPT ![Merchant(s)] = @ + Row(s).amount]
           \/ GoTo(s, "undo") /\ UNCHANGED acked
  BY DEF SaveSuccess
<1>3. /\ calls[s] \in Call /\ Merchant(s) \in Merchants /\ Row(s).amount \in Amount64
      /\ Id(s) \in Filed /\ Id(s) \in approved /\ Id(s) \in credited
      /\ Row(s).status = "SUCCESS" /\ "SUCCESS" \in RefundStatus
  <2>1. ~At(s, "idle")
    BY <1>1 DEF At
  <2> QED
    BY <1>1, <2>1, CallType DEF Inv, CallsFit, Fits, At, Id, Row, Requesting, Settling, RefundStatus
<1>4. /\ Tables' /\ Keeps
      /\ refunds' \in [RefundIds -> Refund \cup {NoRefund}]
  BY <1>1, <1>2, <1>3, RefundSaveKeeps
<1>5. acked' \in [Merchants -> Nat] /\ faults' \in FaultsSoFar
  BY <1>2, <1>3, ReplyType DEF Inv, TypeOK, Amount64
<1>6. CASE Return(s)
  <2>1. TypeOK'
    BY <1>1, <1>4, <1>5, <1>6 DEF Inv, TypeOK, WalletsTypeOK, InvoicesTypeOK, Return, Become
  <2> QED
    BY <1>4, <1>6, <2>1, EndInv
<1>7. CASE GoTo(s, "undo")
  <2>1. PICK c \in Call : /\ calls' = [calls EXCEPT ![s] = c]
                          /\ c.step = "undo" /\ c.id = Id(s) /\ c.row = Row(s)
    BY <1>3, <1>7, GoToGives DEF Steps
  <2>2. TypeOK'
    BY <1>1, <1>4, <1>5, <2>1 DEF Inv, TypeOK, WalletsTypeOK, InvoicesTypeOK
  <2>3. Fits(c)'
    BY <1>1, <1>3, <1>4, <2>1 DEF Fits, Keeps, Requesting, Settling
  <2> QED
    BY <1>4, <2>1, <2>2, <2>3, MoveInv
<1> QED
  BY <1>2, <1>6, <1>7

LEMMA CreditWalletInv ==
  ASSUME Inv, NEW s \in Sessions, CreditWallet(s)
  PROVE  Inv'
<1> DEFINE sum == AddInt64(calls[s].base, Row(s).amount)
<1>1. At(s, "credit") /\ UNCHANGED <<invoices, issued, paidFor, now, refunds, acked, approved>>
  BY DEF CreditWallet
<1>2. PICK r \in Replies :
        /\ Reply(r)
        /\ \/ r = "ok" /\ GoTo(s, "saveSuccess")
           \/ r # "ok" /\ Return(s)
        /\ \/ /\ Executed(r)
              /\ wallets' = WalletSave(Merchant(s), sum)
              /\ granted' = [granted EXCEPT ![Merchant(s)] = @ + Row(s).amount]
              /\ credited' = credited \cup {Id(s)}
           \/ ~Executed(r) /\ UNCHANGED <<wallets, granted, credited>>
  BY DEF CreditWallet
<1>3. /\ calls[s] \in Call /\ Merchant(s) \in Merchants /\ Row(s).amount \in Amount64
      /\ calls[s].base \in Int64 /\ Id(s) \in RefundIds
      /\ Id(s) \in Filed /\ Id(s) \in approved /\ Row(s).status = "SUCCESS"
  <2>1. ~At(s, "idle")
    BY <1>1 DEF At
  <2> QED
    BY <1>1, <2>1, CallType DEF Inv, CallsFit, Fits, At, Id, Row, Requesting, Settling
<1>4. sum \in Int64
  BY <1>3, AddInt64Bound
<1> HIDE DEF sum
<1>5. /\ WalletsTypeOK' /\ granted' \in [Merchants -> Nat] /\ faults' \in FaultsSoFar
      /\ credited' \subseteq RefundIds
      /\ credited \subseteq credited' /\ credited' \subseteq credited \cup {Id(s)}
  <2>1. faults' \in FaultsSoFar
    BY <1>2, ReplyType DEF Inv, TypeOK
  <2>2. CASE ~Executed(r) /\ UNCHANGED <<wallets, granted, credited>>
    BY <2>1, <2>2 DEF Inv, TypeOK, WalletsTypeOK
  <2>3. CASE /\ wallets' = WalletSave(Merchant(s), sum)
             /\ granted' = [granted EXCEPT ![Merchant(s)] = @ + Row(s).amount]
             /\ credited' = credited \cup {Id(s)}
    <3>1. WalletsTypeOK'
      BY <1>3, <1>4, <2>3, WalletSaveType DEF Inv, TypeOK, WalletsTypeOK
    <3>2. granted' \in [Merchants -> Nat]
      BY <1>3, <2>3 DEF Inv, TypeOK, Amount64
    <3> QED
      BY <1>3, <2>1, <2>3, <3>1, <3>2 DEF Inv, TypeOK
  <2> QED
    BY <1>2, <2>2, <2>3
<1>6. Filed' = Filed
  BY <1>1 DEF Filed
<1>7. Tables'
  BY <1>1, <1>3, <1>5, <1>6 DEF Inv, Tables, IssuedKnown, ApprovedKnown, PaidStands, InvoicesWerePaid, WasPaid, InvoiceExists,
                                SuccessWasCredited, CreditedWasApproved
<1>8. Keeps
  BY <1>1, <1>5, <1>6 DEF Keeps
<1>9. CASE Return(s)
  <2>1. TypeOK'
    BY <1>1, <1>5, <1>9 DEF Inv, TypeOK, InvoicesTypeOK, Return, Become
  <2> QED
    BY <1>7, <1>8, <1>9, <2>1, EndInv
<1>10. CASE r = "ok" /\ GoTo(s, "saveSuccess")
  <2>1. PICK c \in Call : /\ calls' = [calls EXCEPT ![s] = c]
                          /\ c.step = "saveSuccess" /\ c.id = Id(s) /\ c.row = Row(s)
    BY <1>3, <1>10, GoToGives DEF Steps
  <2>2. TypeOK'
    BY <1>1, <1>5, <2>1 DEF Inv, TypeOK, InvoicesTypeOK
  <2>3. Id(s) \in credited'
    BY <1>2, <1>10 DEF Executed
  <2>4. Fits(c)'
    BY <1>1, <1>3, <1>6, <2>1, <2>3 DEF Fits, Requesting, Settling
  <2> QED
    BY <1>7, <1>8, <2>1, <2>2, <2>4, MoveInv
<1> QED
  BY <1>2, <1>9, <1>10

LEMMA InsertRefundInv ==
  ASSUME Inv, NEW s \in Sessions, InsertRefund(s)
  PROVE  Inv'
<1>1. /\ At(s, "insert") /\ Return(s)
      /\ UNCHANGED <<wallets, invoices, issued, paidFor, now, granted, acked, approved, credited>>
  BY DEF InsertRefund, history
<1>2. PICK r \in Replies :
        /\ Reply(r)
        /\ refunds' = IF Executed(r) THEN RefundCreate(Id(s), Row(s)) ELSE refunds
  BY DEF InsertRefund
<1>3. Id(s) \in RefundIds /\ Row(s) \in Refund /\ Row(s).status = "REQUESTED" /\ WasPaid(Row(s).invoice)
  <2>1. ~At(s, "idle")
    BY <1>1 DEF At
  <2> QED
    BY <1>1, <2>1, CallType DEF Inv, CallsFit, Fits, At, Row, Requesting
<1>4. /\ refunds' \in [RefundIds -> Refund \cup {NoRefund}]
      /\ Filed \subseteq Filed'
      /\ \A f \in Filed' : \/ f \in Filed /\ refunds'[f] = refunds[f]
                           \/ refunds'[f] = Row(s)
  BY <1>2, <1>3, NoRefundIsNoRow DEF RefundCreate, Filed, Inv, TypeOK
<1>5. TypeOK'
  BY <1>1, <1>2, <1>4, ReplyType DEF Inv, TypeOK, WalletsTypeOK, InvoicesTypeOK, Return, Become
<1>6. ApprovedKnown' /\ SuccessWasCredited'
  BY <1>1, <1>3, <1>4 DEF Inv, Tables, ApprovedKnown, SuccessWasCredited, RefundCanSucceed
<1>7. InvoicesWerePaid'
  BY <1>1, <1>3, <1>4 DEF Inv, Tables, InvoicesWerePaid, WasPaid
<1>8. Tables'
  BY <1>1, <1>6, <1>7 DEF Inv, Tables, IssuedKnown, PaidStands, WasPaid, InvoiceExists, CreditedWasApproved
<1>9. Keeps
  BY <1>1, <1>4 DEF Keeps
<1> QED
  BY <1>1, <1>5, <1>8, <1>9, EndInv

-----------------------------------------------------------------------------
(* The steps of the other services, the clock and a restart.               *)

(* An invoice changes, and what was PAID before still was.                 *)
LEMMA InvoiceChanges ==
  ASSUME Inv, TypeOK', IssuedKnown', PaidStands', \A i \in InvoiceIds : paidFor[i] \subseteq paidFor'[i],
         UNCHANGED <<refunds, approved, credited>>
  PROVE  Tables' /\ Keeps
<1>1. Filed' = Filed
  BY DEF Filed
<1>2. Keeps
  BY <1>1 DEF Keeps
<1>3. InvoicesWerePaid'
  BY <1>1, FiledRow DEF Inv, Tables, InvoicesWerePaid, WasPaid, Refund
<1> QED
  BY <1>1, <1>2, <1>3 DEF Inv, Tables, ApprovedKnown, SuccessWasCredited, CreditedWasApproved

LEMMA OutsideInv ==
  ASSUME Inv, TypeOK', Tables', Keeps, UNCHANGED calls
  PROVE  Inv'
BY OtherFits DEF Inv, CallsFit

LEMMA IssueInvoiceInv ==
  ASSUME Inv, NEW i \in InvoiceIds, NEW a \in Amounts, NEW d \in Dues, IssueInvoice(i, a, d)
  PROVE  Inv'
<1> DEFINE row == [amount |-> a, status |-> "PENDING", due |-> d]
<1>1. /\ invoices' = [invoices EXCEPT ![i] = row] /\ issued' = issued \cup {i} /\ i \notin issued
      /\ UNCHANGED <<faults, wallets, paidFor, now, refunds, calls, granted, acked, approved, credited>>
  BY DEF IssueInvoice, InvoiceCreate, history
<1>2. row \in Invoice /\ row # NoInvoice /\ row.status = "PENDING"
  <2>1. a \in Amount64
    BY InvoiceAssumption, Int64Assumption DEF IssueInvoice, Int64, Amount64
  <2>2. row \in Invoice
    BY <2>1 DEF Invoice, InvoiceStatus
  <2> QED
    BY <2>2, NoInvoiceIsNoRow
<1> HIDE DEF row
<1>3. TypeOK'
  BY <1>1, <1>2 DEF Inv, TypeOK, WalletsTypeOK, InvoicesTypeOK
<1>4. /\ invoices'[i] = row
      /\ \A j \in InvoiceIds \ {i} : invoices'[j] = invoices[j]
  BY <1>1 DEF Inv, TypeOK, InvoicesTypeOK
<1>5. IssuedKnown'
  BY <1>1, <1>4 DEF Inv, Tables, IssuedKnown, InvoiceExists
<1>6. PaidStands'
  BY <1>1, <1>2, <1>4 DEF Inv, Tables, PaidStands, WasPaid, InvoiceExists
<1> QED
  BY <1>1, <1>3, <1>5, <1>6, InvoiceChanges, OutsideInv

(* Any row may follow any other; a PAID one is remembered.                 *)
LEMMA RewriteInvoiceInv ==
  ASSUME Inv, NEW i \in InvoiceIds, NEW row \in Invoice, RewriteInvoice(i, row)
  PROVE  Inv'
<1>1. /\ InvoiceExists(i) /\ invoices' = [invoices EXCEPT ![i] = row]
      /\ paidFor' = IF row.status = "PAID" THEN [paidFor EXCEPT ![i] = @ \cup {row.amount}] ELSE paidFor
      /\ UNCHANGED <<faults, wallets, issued, now, refunds, calls, granted, acked, approved, credited>>
  BY DEF RewriteInvoice, InvoiceSave, history
<1>2. row # NoInvoice /\ row.amount \in Amounts \cap Amount64
  BY NoInvoiceIsNoRow DEF Invoice
<1>3. /\ paidFor' \in [InvoiceIds -> SUBSET (Amounts \cap Amount64)]
      /\ \A j \in InvoiceIds : paidFor[j] \subseteq paidFor'[j]
      /\ \A j \in InvoiceIds \ {i} : paidFor'[j] = paidFor[j]
      /\ row.status = "PAID" => row.amount \in paidFor'[i]
  <2>1. paidFor \in [InvoiceIds -> SUBSET (Amounts \cap Amount64)]
    BY DEF Inv, TypeOK
  <2> QED
    BY <1>1, <1>2, <2>1
<1>4. TypeOK'
  BY <1>1, <1>3 DEF Inv, TypeOK, WalletsTypeOK, InvoicesTypeOK
<1>5. /\ invoices'[i] = row
      /\ \A j \in InvoiceIds \ {i} : invoices'[j] = invoices[j]
  BY <1>1 DEF Inv, TypeOK, InvoicesTypeOK
<1>6. IssuedKnown'
  BY <1>1, <1>5 DEF Inv, Tables, IssuedKnown, InvoiceExists
<1>7. PaidStands'
  BY <1>2, <1>3, <1>5 DEF Inv, Tables, PaidStands, WasPaid, InvoiceExists
<1> QED
  BY <1>1, <1>3, <1>4, <1>6, <1>7, InvoiceChanges, OutsideInv

(* What is deleted was never PAID.                                         *)
LEMMA DeleteInvoiceInv ==
  ASSUME Inv, NEW i \in InvoiceIds, DeleteInvoice(i)
  PROVE  Inv'
<1>1. /\ invoices' = [invoices EXCEPT ![i] = NoInvoice] /\ ~WasPaid(i)
      /\ UNCHANGED <<faults, wallets, issued, paidFor, now, refunds, calls, granted, acked, approved, credited>>
  BY DEF DeleteInvoice, InvoiceDelete, WasPaid, history
<1>2. TypeOK'
  BY <1>1 DEF Inv, TypeOK, WalletsTypeOK, InvoicesTypeOK
<1>3. /\ invoices'[i] = NoInvoice
      /\ \A j \in InvoiceIds \ {i} : invoices'[j] = invoices[j]
  BY <1>1 DEF Inv, TypeOK, InvoicesTypeOK
<1>4. IssuedKnown'
  BY <1>1, <1>3 DEF Inv, Tables, IssuedKnown, InvoiceExists
<1>5. PaidStands'
  BY <1>1, <1>3 DEF Inv, Tables, PaidStands, WasPaid, InvoiceExists
<1> QED
  BY <1>1, <1>2, <1>4, <1>5, InvoiceChanges, OutsideInv

(* The row that was loaded is saved as EXPIRED, over whatever there is by  *)
(* now, a PAID row included.                                               *)
LEMMA ExpireInvoiceInv ==
  ASSUME Inv, NEW s \in Sessions, ExpireInvoice(s)
  PROVE  Inv'
<1> DEFINE i == Row(s).invoice
           row == Expired(calls[s].loaded)
<1>1. /\ At(s, "expire") /\ Return(s)
      /\ UNCHANGED <<wallets, issued, paidFor, now, refunds, granted, acked, approved, credited>>
  BY DEF ExpireInvoice, history
<1>2. i \in InvoiceIds /\ row \in Invoice /\ row # NoInvoice /\ row.status = "EXPIRED"
  <2>1. ~At(s, "idle")
    BY <1>1 DEF At
  <2>2. i \in InvoiceIds /\ calls[s].loaded \in Invoice
    BY <1>1, <2>1, CallType DEF Inv, CallsFit, Fits, At
  <2>3. row \in Invoice /\ row.status = "EXPIRED"
    BY <2>2 DEF Invoice, InvoiceStatus, Expired
  <2> QED
    BY <2>2, <2>3, NoInvoiceIsNoRow
<1>3. PICK r \in Replies :
        /\ Reply(r)
        /\ invoices' = IF Executed(r) THEN InvoiceSave(i, row) ELSE invoices
  BY DEF ExpireInvoice
<1> HIDE DEF i, row
<1>4. TypeOK'
  BY <1>1, <1>2, <1>3, ReplyType
     DEF Inv, TypeOK, WalletsTypeOK, InvoicesTypeOK, InvoiceSave, Return, Become
<1>5. \A j \in InvoiceIds : \/ invoices'[j] = invoices[j]
                            \/ j = i /\ InvoiceExists(i) /\ invoices'[j] = row
  BY <1>2, <1>3 DEF Inv, TypeOK, InvoicesTypeOK, InvoiceSave, InvoiceExists
<1>6. IssuedKnown'
  BY <1>1, <1>2, <1>5 DEF Inv, Tables, IssuedKnown, InvoiceExists
<1>7. PaidStands'
  BY <1>1, <1>2, <1>5 DEF Inv, Tables, PaidStands, WasPaid, InvoiceExists
<1> QED
  BY <1>1, <1>4, <1>6, <1>7, InvoiceChanges, EndInv

LEMMA TimePassesInv ==
  ASSUME Inv, TimePasses
  PROVE  Inv'
<1>1. /\ now' \in 0 .. MaxTime
      /\ UNCHANGED <<faults, wallets, invoices, issued, paidFor, refunds, calls, granted, acked, approved, credited>>
  BY InvoiceAssumption DEF TimePasses, Tick, history, Inv, TypeOK, InvoicesTypeOK
<1>2. TypeOK'
  BY <1>1 DEF Inv, TypeOK, WalletsTypeOK, InvoicesTypeOK
<1>3. Filed' = Filed
  BY <1>1 DEF Filed
<1>4. Tables'
  BY <1>1, <1>3 DEF Inv, Tables, IssuedKnown, ApprovedKnown, PaidStands, InvoicesWerePaid, WasPaid, InvoiceExists,
                    SuccessWasCredited, CreditedWasApproved
<1>5. Keeps
  BY <1>1, <1>3 DEF Keeps
<1> QED
  BY <1>1, <1>2, <1>4, <1>5, OtherFits DEF Inv, CallsFit

LEMMA CrashInv ==
  ASSUME Inv, Crash
  PROVE  Inv'
<1>1. /\ calls' = [s \in Sessions |-> Idle] /\ CrashFault
      /\ UNCHANGED <<wallets, invoices, issued, paidFor, now, refunds, granted, acked, approved, credited>>
  BY DEF Crash, history
<1>2. TypeOK'
  BY <1>1, CrashFaultType DEF Inv, TypeOK, WalletsTypeOK, InvoicesTypeOK
<1>3. Filed' = Filed
  BY <1>1 DEF Filed
<1>4. Tables'
  BY <1>1, <1>3 DEF Inv, Tables, IssuedKnown, ApprovedKnown, PaidStands, InvoicesWerePaid, WasPaid, InvoiceExists,
                    SuccessWasCredited, CreditedWasApproved
<1>5. CallsFit'
  BY <1>1 DEF CallsFit, Fits, Idle, Requesting, Settling
<1> QED
  BY <1>2, <1>4, <1>5 DEF Inv

LEMMA StutterInv ==
  ASSUME Inv, UNCHANGED vars
  PROVE  Inv'
<1>1. TypeOK'
  BY DEF vars, Inv, TypeOK, WalletsTypeOK, InvoicesTypeOK
<1>2. Filed' = Filed
  BY DEF vars, Filed
<1>3. Tables'
  BY <1>2 DEF vars, Inv, Tables, IssuedKnown, ApprovedKnown, PaidStands, InvoicesWerePaid, WasPaid, InvoiceExists,
              SuccessWasCredited, CreditedWasApproved
<1>4. Keeps
  BY <1>2 DEF vars, Keeps, WasPaid, InvoiceExists
<1> QED
  BY <1>1, <1>3, <1>4, OtherFits DEF vars, Inv, CallsFit

-----------------------------------------------------------------------------
LEMMA InitInv == Init => Inv
<1> SUFFICES ASSUME Init PROVE Inv
  OBVIOUS
<1>1. TypeOK
  BY FaultsAssumption, InvoiceAssumption
     DEF Init, TypeOK, WalletsTypeOK, InvoicesTypeOK, NoFaults, FaultsSoFar
<1>2. Filed = {}
  BY DEF Init, Filed
<1>3. Tables
  BY <1>2 DEF Init, Tables, IssuedKnown, ApprovedKnown, PaidStands, InvoicesWerePaid, WasPaid, InvoiceExists,
              SuccessWasCredited, CreditedWasApproved
<1>4. CallsFit
  BY DEF Init, CallsFit, Fits, Idle, Requesting, Settling
<1> QED
  BY <1>1, <1>3, <1>4 DEF Inv

LEMMA AskInv ==
  ASSUME Inv, NEW s \in Sessions, Ask(s)
  PROVE  Inv'
BY RequestRefundInv, MarkInv, ProcessSuccessInv DEF Ask, Approve, Reject, ProcessFailed, RefundStatus

LEMMA ServeInv ==
  ASSUME Inv, NEW s \in Sessions, Serve(s)
  PROVE  Inv'
BY LoadInvoiceInv, ExpireInvoiceInv, SumRefundsInv, InsertRefundInv, SaveRefundInv, FindWalletInv,
   CreateWalletInv, CreditWalletInv, SaveSuccessInv, UndoCreditInv, UndoCreatedInv DEF Serve

LEMMA StepInv == Inv /\ [Next]_vars => Inv'
<1> SUFFICES ASSUME Inv, [Next]_vars PROVE Inv'
  OBVIOUS
<1>1. CASE \E s \in Sessions : Ask(s) \/ Serve(s)
  BY <1>1, AskInv, ServeInv
<1>2. CASE Invoicing
  BY <1>2, IssueInvoiceInv, RewriteInvoiceInv, DeleteInvoiceInv DEF Invoicing
<1>3. CASE TimePasses
  BY <1>3, TimePassesInv
<1>4. CASE Crash
  BY <1>4, CrashInv
<1>5. CASE UNCHANGED vars
  BY <1>5, StutterInv
<1> QED
  BY <1>1, <1>2, <1>3, <1>4, <1>5 DEF Next, Quiet

LEMMA InvariantHolds == Spec => []Inv
BY InitInv, StepInv, PTL DEF Spec

(* Rows, balances (within 64 bits) and calls keep their types.             *)
THEOREM RefundsTypeCorrect == Spec => []TypeOK
<1>1. Inv => TypeOK
  BY DEF Inv
<1> QED
  BY <1>1, InvariantHolds, PTL

(* However approvals, rejections and settlements of one refund overwrite   *)
(* each other, whatever fails and wherever the server stops, none is added *)
(* to a wallet that was not APPROVED once.                                 *)
THEOREM CreditNeedsApproval == Spec => []CreditedWasApproved
<1>1. Inv => CreditedWasApproved
  BY DEF Inv, Tables
<1> QED
  BY <1>1, InvariantHolds, PTL

(* A refund stored as SUCCESS was added to a wallet, because the wallet is *)
(* saved before the status.                                                *)
THEOREM SuccessNeedsCredit == Spec => []SuccessWasCredited
<1>1. Inv => SuccessWasCredited
  BY DEF Inv, Tables
<1> QED
  BY <1>1, InvariantHolds, PTL

-----------------------------------------------------------------------------
(* What is refunded adds up.  A refund is checked against the refunds that *)
(* are stored and inserted later; what the check found still holds then,   *)
(* because an id is inserted once, the invoice and the amount of a refund  *)
(* never change, an amount an invoice was PAID with is not forgotten, and  *)
(* the refunds that are SUCCESS cannot add up to more than was credited.   *)

Serving == Steps \ Requesting

Owed == [f \in Filed |-> refunds[f].amount]

CreditedOf(m) == {f \in credited : Issuer[refunds[f].invoice] = m}

Within(row) == granted[Issuer[row.invoice]] <= MaxInt64 => \E a \in paidFor[row.invoice] : row.amount <= a

(* The call of a request that settles a refund holds its invoice and       *)
(* amount.                                                                 *)
Matches(c) == c.step \in Serving => /\ c.row.invoice = refunds[c.id].invoice
                                    /\ c.row.amount = refunds[c.id].amount

Checked(c) == c.step = "insert" => Within(c.row)

ModelsMatch == \A s \in Sessions : Matches(calls[s])

ChecksHold == \A s \in Sessions : Checked(calls[s])

IdsFresh ==
  \A s \in Sessions : calls[s].step \in Requesting =>
    /\ Id(s) \notin Filed
    /\ \A t \in Sessions \ {s} : calls[t].step \in Requesting => Id(t) # Id(s)

Covered == \A m \in Merchants : Sum(Owed, CreditedOf(m)) <= granted[m]

AllWithin == \A f \in Filed : Within(refunds[f])

CreditedFiled == credited \subseteq Filed

BookInv ==
  IsFiniteSet(Filed) /\ CreditedFiled /\ ModelsMatch /\ ChecksHold /\ IdsFresh /\ Covered /\ AllWithin

-----------------------------------------------------------------------------
(* The sums of the model, in terms of Sum.                                 *)

LEMMA RowsSum ==
  ASSUME NEW tbl, NEW S, IsFiniteSet(S)
  PROVE  MapThenSumSet(LAMBDA f : tbl[f].amount, S) = Sum([f \in S |-> tbl[f].amount], S)
<1> DEFINE amt == [f \in S |-> tbl[f].amount]
           Rows(g) == g = [s \in SUBSET S |-> IF s = {} THEN 0
                                               ELSE tbl[Pick(s)].amount + g[s \ {Pick(s)}]]
           rows == CHOOSE g : Rows(g)
<1>1. \A g : Solves(amt, S, g) <=> Rows(g)
  <2>1. \A s \in SUBSET S : s # {} => amt[Pick(s)] = tbl[Pick(s)].amount
    BY PickIn
  <2> HIDE DEF amt
  <2> QED
    BY <2>1 DEF Solves, Unfold
<1>2. MapThenSumSet(LAMBDA f : tbl[f].amount, S) = rows[S]
  BY DEF MapThenSumSet, MapThenFoldSet, Pick
<1>3. Rows(rows)
  <2>1. \E g : Rows(g)
    BY <1>1, SolutionExists
  <2> HIDE DEF Rows
  <2> QED
    BY <2>1
<1>4. Solves(amt, S, rows) /\ Solves(amt, S, Solution(amt, S))
  BY <1>1, <1>3, SolutionExists
<1> HIDE DEF amt, rows
<1>5. rows[S] = Solution(amt, S)[S]
  BY <1>4, SolutionsAgree
<1>6. rows[S] = Sum(amt, S)
  BY <1>5, SumUnfolds
<1> QED
  BY <1>2, <1>6 DEF amt

LEMMA FiledSum ==
  ASSUME IsFiniteSet(Filed), NEW S \in SUBSET Filed
  PROVE  MapThenSumSet(LAMBDA f : refunds[f].amount, S) = Sum(Owed, S)
<1> DEFINE amt == [f \in S |-> refunds[f].amount]
<1>1. IsFiniteSet(S) /\ \A f \in S : amt[f] = Owed[f]
  BY FS_Subset DEF Owed
<1>2. MapThenSumSet(LAMBDA f : refunds[f].amount, S) = Sum(amt, S)
  BY <1>1, RowsSum
<1> HIDE DEF amt
<1>3. Sum(amt, S) = Sum(Owed, S)
  BY <1>1, SumSame
<1> QED
  BY <1>2, <1>3

LEMMA WrapSmall ==
  ASSUME NEW x \in Int64
  PROVE  Wrap64(x) = x
<1> DEFINE a == x + MaxInt64 + 1
           n == 2 * (MaxInt64 + 1)
<1>1. a \in Nat /\ n \in Nat /\ a < n
  BY Int64Assumption DEF Int64
<1> HIDE DEF a, n
<1>2. a % n = a
  BY <1>1
<1> QED
  BY <1>2, Int64Assumption DEF Wrap64, Int64, a, n

(* Successes of an invoice are credits of its merchant, so while what was  *)
(* credited fits in an int64, nothing wraps around.                        *)
LEMMA SuccessesCovered ==
  ASSUME Inv, BookInv, NEW i \in InvoiceIds, NEW seen \in SUBSET RefundsOf(i)
  PROVE  LET won == {f \in seen : refunds[f].status = "SUCCESS"} IN
         /\ Sum(Owed, won) \in Nat /\ Sum(Owed, won) <= granted[Issuer[i]]
         /\ granted[Issuer[i]] <= MaxInt64 => SumRefunded(seen) = Sum(Owed, won)
<1> DEFINE won == {f \in seen : refunds[f].status = "SUCCESS"}
           m == Issuer[i]
<1>1. m \in Merchants /\ granted[m] \in Nat
  BY RefundAssumption DEF Inv, TypeOK
<1>2. won \in SUBSET CreditedOf(m) /\ won \in SUBSET Filed
  BY DEF RefundsOf, Inv, Tables, SuccessWasCredited, CreditedOf
<1>3. IsFiniteSet(CreditedOf(m)) /\ \A f \in CreditedOf(m) : Owed[f] \in Nat
  BY FS_Subset, FiledRow DEF BookInv, CreditedFiled, CreditedOf, Owed, Inv, Refund, Amount64
<1> HIDE DEF won, m
<1>4. Sum(Owed, won) \in Nat /\ Sum(Owed, won) <= Sum(Owed, CreditedOf(m)) /\ Sum(Owed, CreditedOf(m)) \in Nat
  <2>1. CreditedOf(m) \in SUBSET CreditedOf(m)
    OBVIOUS
  <2> QED
    BY <1>2, <1>3, <2>1, SumOfPart
<1>5. Sum(Owed, won) <= granted[m]
  BY <1>1, <1>4 DEF BookInv, Covered
<1>6. ASSUME granted[m] <= MaxInt64 PROVE SumRefunded(seen) = Sum(Owed, won)
  <2>1. MapThenSumSet(LAMBDA f : refunds[f].amount, won) = Sum(Owed, won)
    BY <1>2, FiledSum DEF BookInv
  <2>2. SumRefunded(seen) = Wrap64(Sum(Owed, won))
    BY <2>1 DEF SumRefunded, won
  <2>3. Sum(Owed, won) \in Int64
    BY <1>1, <1>4, <1>5, <1>6, Int64Assumption DEF Int64
  <2> QED
    BY <2>2, <2>3, WrapSmall
<1> QED
  BY <1>4, <1>5, <1>6 DEF won, m

(* What the check of a request found is true when the refunds it saw are   *)
(* all there are, and otherwise true of its own amount.                    *)
LEMMA CheckGives ==
  ASSUME Inv, BookInv, NEW s \in Sessions, At(s, "sum"),
         NEW seen \in SUBSET RefundsOf(Row(s).invoice), granted[Merchant(s)] <= MaxInt64,
         Wrap64(calls[s].loaded.amount - SumRefunded(seen)) >= Row(s).amount
  PROVE  LET won == {f \in seen : refunds[f].status = "SUCCESS"} IN
         /\ Sum(Owed, won) \in Nat
         /\ \E a \in paidFor[Row(s).invoice] : Sum(Owed, won) + Row(s).amount <= a
<1> DEFINE won == {f \in seen : refunds[f].status = "SUCCESS"}
           a == calls[s].loaded.amount
<1>1. /\ Row(s).invoice \in InvoiceIds /\ Merchant(s) = Issuer[Row(s).invoice]
      /\ Row(s).amount \in Int /\ a \in 0 .. MaxInt64
      /\ granted[Merchant(s)] \in Nat
      /\ a \in paidFor[Row(s).invoice]
  <2>1. ~At(s, "idle")
    BY DEF At
  <2>2. calls[s].loaded \in Invoice /\ a \in paidFor[Row(s).invoice]
    BY DEF Inv, CallsFit, Fits, At, Row
  <2>3. a \in 0 .. MaxInt64
    BY <2>2, Int64Assumption DEF Invoice, Amount64
  <2> QED
    BY <2>1, <2>2, <2>3, CallType DEF Inv, Amount64, Merchant, Row, TypeOK
<1>2. Sum(Owed, won) \in Nat /\ Sum(Owed, won) <= MaxInt64 /\ SumRefunded(seen) = Sum(Owed, won)
  BY <1>1, SuccessesCovered, Int64Assumption
<1> HIDE DEF won, a
<1>3. a - SumRefunded(seen) \in Int64
  BY <1>1, <1>2, Int64Assumption DEF Int64
<1>4. a - SumRefunded(seen) >= Row(s).amount
  BY <1>3, WrapSmall DEF a
<1>5. Sum(Owed, won) + Row(s).amount <= a
  BY <1>1, <1>2, <1>4, Int64Assumption
<1> QED
  BY <1>1, <1>2, <1>5 DEF won

-----------------------------------------------------------------------------
(* What every step does to the rows that are stored.                       *)

RowsKept ==
  /\ Filed \subseteq Filed'
  /\ \A f \in Filed : /\ refunds'[f].invoice = refunds[f].invoice
                      /\ refunds'[f].amount = refunds[f].amount

PaidKept == \A i \in InvoiceIds : paidFor[i] \subseteq paidFor'[i]

LEMMA OwedKept ==
  ASSUME Inv, BookInv, RowsKept, NEW S \in SUBSET Filed
  PROVE  Sum(Owed', S) = Sum(Owed, S)
<1>1. IsFiniteSet(S) /\ \A f \in S : Owed'[f] = Owed[f]
  BY FS_Subset DEF BookInv, Owed, RowsKept
<1> HIDE DEF Owed
<1>2. Sum(Owed, S) = Sum(Owed', S)
  BY <1>1, SumSame
<1> QED
  BY <1>2

LEMMA WithinKept ==
  ASSUME Inv, Inv', PaidKept, NEW row \in Refund, Within(row),
         granted'[Issuer[row.invoice]] >= granted[Issuer[row.invoice]]
  PROVE  Within(row)'
<1>1. row.invoice \in InvoiceIds /\ Issuer[row.invoice] \in Merchants
  BY RefundAssumption DEF Refund
<1>2. paidFor[row.invoice] \subseteq paidFor'[row.invoice]
  BY <1>1 DEF PaidKept
<1>3. granted[Issuer[row.invoice]] \in Nat /\ granted'[Issuer[row.invoice]] \in Nat
  BY <1>1 DEF Inv, TypeOK
<1> QED
  BY <1>2, <1>3, Int64Assumption DEF Within

GrantedGrows == \A m \in Merchants : granted'[m] >= granted[m]

(* The call that moves is right, and the others do not notice.             *)
LEMMA CallsBook ==
  ASSUME Inv, Inv', BookInv, RowsKept, PaidKept, GrantedGrows,
         NEW s \in Sessions, NEW c, calls' = [calls EXCEPT ![s] = c], Matches(c)', Checked(c)',
         c.step \in Requesting => /\ c.id \notin Filed'
                                  /\ \A t \in Sessions \ {s} : calls[t].step \in Requesting => Id(t) # c.id,
         \A t \in Sessions \ {s} : calls[t].step \in Requesting => Id(t) \notin Filed'
  PROVE  ModelsMatch' /\ ChecksHold' /\ IdsFresh'
<1>1. calls'[s] = c /\ \A t \in Sessions \ {s} : calls'[t] = calls[t]
  BY DEF Inv, TypeOK
<1>2. ASSUME NEW t \in Sessions \ {s} PROVE Matches(calls[t])' /\ Checked(calls[t])'
  <2>1. PICK d : d = calls[t]
    OBVIOUS
  <2>2. calls'[t] = d
    BY <1>1, <2>1
  <2>3. Matches(d) /\ Checked(d) /\ Fits(d)
    BY <2>1 DEF BookInv, ModelsMatch, ChecksHold, Inv, CallsFit
  <2>4. Matches(d)'
    BY <2>3 DEF Matches, Fits, RowsKept, Serving, Steps, Requesting
  <2>5. Checked(d)'
    <3> SUFFICES ASSUME d.step = "insert" PROVE Within(d.row)'
      BY DEF Checked
    <3>1. d \in Call
      BY <2>1 DEF Inv, TypeOK, Idle
    <3>2. d.row \in Refund /\ Issuer[d.row.invoice] \in Merchants
      BY <3>1, RefundAssumption DEF Call, Refund
    <3> QED
      BY <2>3, <3>2, WithinKept DEF Checked, GrantedGrows
  <2> QED
    BY <2>1, <2>2, <2>4, <2>5
<1>3. ModelsMatch'
  BY <1>1, <1>2 DEF ModelsMatch
<1>4. ChecksHold'
  BY <1>1, <1>2 DEF ChecksHold
<1>5. IdsFresh'
  BY <1>1 DEF IdsFresh, BookInv, Id
<1> QED
  BY <1>3, <1>4, <1>5

(* Rows and credits stay, but for the statuses.                            *)
LEMMA RowsBook ==
  ASSUME Inv, Inv', BookInv, RowsKept, PaidKept, Filed' = Filed, UNCHANGED <<granted, credited>>
  PROVE  IsFiniteSet(Filed)' /\ CreditedFiled' /\ Covered' /\ AllWithin' /\ GrantedGrows
<1>1. IsFiniteSet(Filed)' /\ CreditedFiled'
  BY DEF BookInv, CreditedFiled
<1>2. GrantedGrows
  BY DEF Inv, TypeOK, GrantedGrows
<1>3. Covered'
  <2> SUFFICES ASSUME NEW m \in Merchants PROVE Sum(Owed', CreditedOf(m)') <= granted'[m]
    BY DEF Covered
  <2>1. CreditedOf(m)' = CreditedOf(m) /\ CreditedOf(m) \in SUBSET Filed
    BY DEF CreditedOf, RowsKept, BookInv, CreditedFiled
  <2> QED
    BY <2>1, OwedKept DEF BookInv, Covered
<1>4. AllWithin'
  <2> SUFFICES ASSUME NEW f \in Filed PROVE Within(refunds[f])'
    BY DEF AllWithin
  <2>1. PICK row : row = refunds[f]
    OBVIOUS
  <2>2. row \in Refund /\ Issuer[row.invoice] \in Merchants /\ Within(row)
    BY <2>1, FiledRow DEF Inv, BookInv, AllWithin
  <2>3. Within(row)'
    BY <1>2, <2>2, WithinKept DEF GrantedGrows
  <2> QED
    BY <2>1, <2>3 DEF RowsKept, Within
<1> QED
  BY <1>1, <1>2, <1>3, <1>4

(* A step of s that inserts no row and credits nothing.                    *)
LEMMA MoveBook ==
  ASSUME Inv, Inv', BookInv, RowsKept, PaidKept, Filed' = Filed, UNCHANGED <<granted, credited>>,
         NEW s \in Sessions, NEW c, calls' = [calls EXCEPT ![s] = c], Matches(c)', Checked(c)',
         c.step \in Requesting => c.id \in Spare \/ (c.id = Id(s) /\ calls[s].step \in Requesting)
  PROVE  BookInv'
<1>1. IsFiniteSet(Filed)' /\ CreditedFiled' /\ Covered' /\ AllWithin' /\ GrantedGrows
  BY RowsBook
<1>2. c.step \in Requesting => /\ c.id \notin Filed'
                               /\ \A t \in Sessions \ {s} : calls[t].step \in Requesting => Id(t) # c.id
  BY DEF BookInv, IdsFresh, Spare, At, Requesting
<1>3. \A t \in Sessions \ {s} : calls[t].step \in Requesting => Id(t) \notin Filed'
  BY DEF BookInv, IdsFresh
<1>4. ModelsMatch' /\ ChecksHold' /\ IdsFresh'
  BY <1>1, <1>2, <1>3, CallsBook
<1> QED
  BY <1>1, <1>4 DEF BookInv

LEMMA ReturnBook ==
  ASSUME Inv, Inv', BookInv, RowsKept, PaidKept, Filed' = Filed, UNCHANGED <<granted, credited>>,
         NEW s \in Sessions, Return(s)
  PROVE  BookInv'
<1>1. PICK c : c = Idle
  OBVIOUS
<1>2. c.step = "idle" /\ calls' = [calls EXCEPT ![s] = c]
  BY <1>1 DEF Return, Become, Idle
<1>3. Matches(c)' /\ Checked(c)' /\ c.step \notin Requesting
  BY <1>2 DEF Matches, Checked, Serving, Steps, Requesting
<1> QED
  BY <1>2, <1>3, MoveBook

(* A step that does not touch the tables of refunds and invoices.          *)
LEMMA StayKeeps ==
  ASSUME TablesStay
  PROVE  /\ RowsKept /\ PaidKept /\ Filed' = Filed
         /\ UNCHANGED <<refunds, paidFor, granted, credited>>
BY DEF TablesStay, RowsKept, PaidKept, Filed, history

-----------------------------------------------------------------------------
LEMMA RequestRefundBook ==
  ASSUME Inv, Inv', BookInv, NEW s \in Sessions, NEW f \in RefundIds, NEW i \in InvoiceIds,
         NEW a \in Amounts, RequestRefund(s, f, i, a)
  PROVE  BookInv'
<1> DEFINE row == [invoice |-> i, amount |-> a, status |-> "REQUESTED"]
<1>1. row \in Refund
  BY InvoiceAssumption, Int64Assumption DEF RequestRefund, Int64, Amount64, Refund, RefundStatus
<1>2. Begin(s, "loadInvoice", f, row) /\ TablesStay /\ f \in Spare
  BY DEF RequestRefund, TablesStay
<1> HIDE DEF row
<1>3. PICK c \in Call : /\ calls' = [calls EXCEPT ![s] = c]
                        /\ c.step = "loadInvoice" /\ c.id = f /\ c.row = row
  BY <1>1, <1>2, BeginGives DEF Steps
<1>4. Matches(c)' /\ Checked(c)'
  BY <1>3 DEF Matches, Checked, Serving, Requesting
<1> QED
  BY <1>2, <1>3, <1>4, StayKeeps, MoveBook

LEMMA LoadInvoiceBook ==
  ASSUME Inv, Inv', BookInv, NEW s \in Sessions, LoadInvoice(s)
  PROVE  BookInv'
<1> DEFINE d(step) == [calls[s] EXCEPT !.step = step, !.loaded = invoices[Row(s).invoice]]
<1>1. At(s, "loadInvoice") /\ TablesStay
  BY DEF LoadInvoice, TablesStay
<1>2. \/ Return(s)
      \/ \E step \in {"expire", "sum"} : calls' = [calls EXCEPT ![s] = d(step)]
  BY DEF LoadInvoice, Become
<1>3. calls[s] \in Call /\ calls[s].step \in Requesting
  <2>1. ~At(s, "idle")
    BY <1>1 DEF At
  <2> QED
    BY <1>1, <2>1, CallType DEF Inv, At, Requesting
<1>4. CASE Return(s)
  BY <1>1, <1>4, StayKeeps, ReturnBook
<1>5. ASSUME NEW step \in {"expire", "sum"}, calls' = [calls EXCEPT ![s] = d(step)]
      PROVE  BookInv'
  <2>1. PICK c : c = d(step)
    OBVIOUS
  <2>2. c.step = step /\ c.id = Id(s)
    BY <1>3, <2>1 DEF Call, Id
  <2>3. calls' = [calls EXCEPT ![s] = c]
    BY <1>5, <2>1
  <2> HIDE DEF d
  <2>4. Matches(c)' /\ Checked(c)'
    BY <2>2 DEF Matches, Checked, Serving, Requesting
  <2> QED
    BY <1>1, <1>3, <2>2, <2>3, <2>4, StayKeeps, MoveBook
<1> QED
  BY <1>2, <1>4, <1>5

(* The amount a request goes on with is within the invoice, as long as     *)
(* what its merchant was credited fits in an int64.                        *)
LEMMA SumRefundsBook ==
  ASSUME Inv, Inv', BookInv, NEW s \in Sessions, SumRefunds(s)
  PROVE  BookInv'
<1> DEFINE d == [calls[s] EXCEPT !.step = "insert", !.loaded = NoInvoice]
<1>1. At(s, "sum") /\ TablesStay
  BY DEF SumRefunds, TablesStay
<1>2. \/ Return(s)
      \/ /\ calls' = [calls EXCEPT ![s] = d]
         /\ \E seen \in SUBSET RefundsOf(Row(s).invoice) :
              Wrap64(calls[s].loaded.amount - SumRefunded(seen)) >= Row(s).amount
  BY DEF SumRefunds, Become
<1>3. calls[s] \in Call /\ calls[s].step \in Requesting /\ Row(s).amount \in Nat
  <2>1. ~At(s, "idle")
    BY <1>1 DEF At
  <2> QED
    BY <1>1, <2>1, CallType DEF Inv, At, Requesting, Amount64
<1>4. CASE Return(s)
  BY <1>1, <1>4, StayKeeps, ReturnBook
<1>5. CASE /\ calls' = [calls EXCEPT ![s] = d]
           /\ \E seen \in SUBSET RefundsOf(Row(s).invoice) :
                Wrap64(calls[s].loaded.amount - SumRefunded(seen)) >= Row(s).amount
  <2>1. d.step = "insert" /\ d.id = Id(s) /\ d.row = Row(s)
    BY <1>3 DEF Call, Id, Row
  <2> HIDE DEF d
  <2>2. PICK seen \in SUBSET RefundsOf(Row(s).invoice) :
          Wrap64(calls[s].loaded.amount - SumRefunded(seen)) >= Row(s).amount
    BY <1>5
  <2>3. Within(Row(s))
    <3> SUFFICES ASSUME granted[Merchant(s)] <= MaxInt64
                 PROVE  \E a \in paidFor[Row(s).invoice] : Row(s).amount <= a
      BY DEF Within, Merchant, Row
    <3>1. PICK n \in Nat, a \in paidFor[Row(s).invoice] : n + Row(s).amount <= a
      BY <1>1, <2>2, CheckGives
    <3>2. a \in Int
      BY <1>1, CallType DEF Inv, TypeOK, At, Amount64
    <3> QED
      BY <1>3, <3>1, <3>2
  <2>4. PICK c : c = d
    OBVIOUS
  <2>5. calls' = [calls EXCEPT ![s] = c] /\ c.id = Id(s) /\ c.step = "insert" /\ Within(c.row)
    BY <1>5, <2>1, <2>3, <2>4
  <2>6. Matches(c)' /\ Checked(c)'
    BY <1>1, <2>5, StayKeeps DEF Matches, Checked, Within, Serving, Requesting
  <2> QED
    BY <1>1, <1>3, <2>5, <2>6, StayKeeps, MoveBook
<1> QED
  BY <1>2, <1>4, <1>5

(* A row is inserted under an id of its own, and within its invoice.       *)
LEMMA InsertRefundBook ==
  ASSUME Inv, Inv', BookInv, NEW s \in Sessions, InsertRefund(s)
  PROVE  BookInv'
<1>1. /\ At(s, "insert") /\ Return(s)
      /\ refunds' = refunds \/ refunds' = [refunds EXCEPT ![Id(s)] = Row(s)]
      /\ UNCHANGED <<paidFor, granted, credited>>
  BY DEF InsertRefund, RefundCreate, history
<1>2. Id(s) \in RefundIds /\ Row(s) \in Refund /\ Id(s) \notin Filed /\ Within(Row(s))
  <2>1. ~At(s, "idle")
    BY <1>1 DEF At
  <2> QED
    BY <1>1, <2>1, CallType DEF Inv, BookInv, IdsFresh, ChecksHold, Checked, At, Id, Row, Requesting
<1>3. PaidKept
  BY <1>1 DEF PaidKept
<1>4. CASE refunds' = refunds
  <2>1. RowsKept /\ Filed' = Filed
    BY <1>4 DEF RowsKept, Filed
  <2> QED
    BY <1>1, <1>3, <2>1, ReturnBook
<1>5. CASE refunds' = [refunds EXCEPT ![Id(s)] = Row(s)]
  <2>1. Filed' = Filed \cup {Id(s)} /\ refunds'[Id(s)] = Row(s)
    BY <1>2, <1>5, NoRefundIsNoRow DEF Filed, Inv, TypeOK
  <2>2. \A f \in Filed : refunds'[f] = refunds[f]
    BY <1>2, <1>5 DEF Filed, Inv, TypeOK
  <2>3. RowsKept /\ GrantedGrows
    BY <1>1, <2>1, <2>2 DEF RowsKept, GrantedGrows, Inv, TypeOK
  <2>4. IsFiniteSet(Filed)' /\ CreditedFiled'
    BY <1>1, <2>1, FS_AddElement DEF BookInv, CreditedFiled
  <2>5. Covered'
    <3> SUFFICES ASSUME NEW m \in Merchants PROVE Sum(Owed', CreditedOf(m)') <= granted'[m]
      BY DEF Covered
    <3>1. CreditedOf(m)' = CreditedOf(m) /\ CreditedOf(m) \in SUBSET Filed
      BY <1>1, <2>2 DEF CreditedOf, BookInv, CreditedFiled
    <3> QED
      BY <1>1, <2>3, <3>1, <1>3, OwedKept DEF BookInv, Covered
  <2>6. AllWithin'
    BY <1>1, <1>2, <2>1, <2>2 DEF AllWithin, BookInv, Within
  <2>7. ModelsMatch' /\ ChecksHold' /\ IdsFresh'
    <3>1. PICK c : c = Idle
      OBVIOUS
    <3>2. c.step = "idle" /\ calls' = [calls EXCEPT ![s] = c]
      BY <1>1, <3>1 DEF Return, Become, Idle
    <3>3. Matches(c)' /\ Checked(c)' /\ c.step \notin Requesting
      BY <3>2 DEF Matches, Checked, Serving, Steps, Requesting
    <3>4. \A t \in Sessions \ {s} : calls[t].step \in Requesting => Id(t) \notin Filed'
      BY <1>1, <2>1 DEF BookInv, IdsFresh, At, Requesting
    <3> QED
      BY <1>3, <2>3, <3>2, <3>3, <3>4, CallsBook
  <2> QED
    BY <2>4, <2>5, <2>6, <2>7 DEF BookInv
<1> QED
  BY <1>1, <1>4, <1>5

LEMMA ExpireInvoiceBook ==
  ASSUME Inv, Inv', BookInv, NEW s \in Sessions, ExpireInvoice(s)
  PROVE  BookInv'
<1>1. Return(s) /\ UNCHANGED <<paidFor, refunds, granted, credited>>
  BY DEF ExpireInvoice, history
<1>2. RowsKept /\ PaidKept /\ Filed' = Filed
  BY <1>1 DEF RowsKept, PaidKept, Filed
<1> QED
  BY <1>1, <1>2, ReturnBook

LEMMA MarkBook ==
  ASSUME Inv, Inv', BookInv, NEW s \in Sessions, NEW f \in RefundIds, NEW st \in RefundStatus, Mark(s, f, st)
  PROVE  BookInv'
<1> DEFINE row == [refunds[f] EXCEPT !.status = st]
<1>1. f \in Filed /\ TablesStay
  BY DEF Mark, TablesStay
<1>2. row \in Refund /\ row.invoice = refunds[f].invoice /\ row.amount = refunds[f].amount
  BY <1>1, FiledRow DEF Inv, Refund
<1>3. Begin(s, "save", f, row)
  BY DEF Mark
<1> HIDE DEF row
<1>4. PICK c \in Call : /\ calls' = [calls EXCEPT ![s] = c]
                        /\ c.step = "save" /\ c.id = f /\ c.row = row
  BY <1>2, <1>3, BeginGives DEF Steps
<1>5. Matches(c)' /\ Checked(c)' /\ c.step \notin Requesting
  BY <1>1, <1>2, <1>4, StayKeeps DEF Matches, Checked, Requesting
<1> QED
  BY <1>1, <1>4, <1>5, StayKeeps, MoveBook

LEMMA ProcessSuccessBook ==
  ASSUME Inv, Inv', BookInv, NEW s \in Sessions, NEW f \in RefundIds, ProcessSuccess(s, f)
  PROVE  BookInv'
<1>1. f \in Filed /\ TablesStay /\ Begin(s, "findWallet", f, refunds[f]) /\ refunds[f] \in Refund
  BY FiledRow DEF ProcessSuccess, TablesStay, Inv
<1>2. PICK c \in Call : /\ calls' = [calls EXCEPT ![s] = c]
                        /\ c.step = "findWallet" /\ c.id = f /\ c.row = refunds[f]
  BY <1>1, BeginGives DEF Steps
<1>3. Matches(c)' /\ Checked(c)' /\ c.step \notin Requesting
  BY <1>1, <1>2, StayKeeps DEF Matches, Checked, Requesting
<1> QED
  BY <1>1, <1>2, <1>3, StayKeeps, MoveBook

(* A request that settles a refund goes on with it.                        *)
LEMMA ServingBook ==
  ASSUME Inv, Inv', BookInv, NEW s \in Sessions, calls[s].step \in Serving,
         RowsKept, PaidKept, Filed' = Filed, UNCHANGED <<granted, credited>>,
         NEW c, calls' = [calls EXCEPT ![s] = c], c.step \in Serving, c.id = Id(s),
         c.row.invoice = Row(s).invoice, c.row.amount = Row(s).amount
  PROVE  BookInv'
<1>1. Id(s) \in Filed /\ Matches(calls[s])
  BY DEF Inv, CallsFit, Fits, BookInv, ModelsMatch, Id, Serving, Steps
<1>2. Matches(c)' /\ Checked(c)'
  BY <1>1 DEF Matches, Checked, RowsKept, Id, Row, Serving, Requesting
<1>3. c.step \notin Requesting
  BY DEF Serving
<1> QED
  BY <1>2, <1>3, MoveBook

LEMMA MarkSuccessBook ==
  ASSUME Inv, Inv', BookInv, NEW s \in Sessions, At(s, "findWallet") \/ At(s, "createWallet"), TablesStay,
         NEW base \in Int64, NEW created \in BOOLEAN, MarkSuccess(s, base, created)
  PROVE  BookInv'
<1>1. calls[s] \in Call /\ calls[s].step \in Serving
  <2>1. ~At(s, "idle")
    BY DEF At
  <2> QED
    BY <2>1, CallType DEF Inv, At, Serving, Steps, Requesting
<1>2. CASE Return(s)
  BY <1>2, StayKeeps, ReturnBook
<1>3. CASE \E c \in Call : /\ calls' = [calls EXCEPT ![s] = c]
                           /\ c.step = "credit" /\ c.id = Id(s) /\ c.row.status = "SUCCESS"
                           /\ c.row.invoice = Row(s).invoice /\ c.row.amount = Row(s).amount
  <2>1. PICK c \in Call : /\ calls' = [calls EXCEPT ![s] = c]
                          /\ c.step = "credit" /\ c.id = Id(s)
                          /\ c.row.invoice = Row(s).invoice /\ c.row.amount = Row(s).amount
    BY <1>3
  <2>2. c.step \in Serving
    BY <2>1 DEF Serving, Steps, Requesting
  <2> QED
    BY <1>1, <2>1, <2>2, StayKeeps, ServingBook
<1> QED
  BY <1>1, <1>2, <1>3, MarkSuccessGives

LEMMA GoToBook ==
  ASSUME Inv, Inv', BookInv, NEW s \in Sessions, calls[s] \in Call, calls[s].step \in Serving,
         RowsKept, PaidKept, Filed' = Filed, UNCHANGED <<granted, credited>>,
         NEW step \in Serving, GoTo(s, step)
  PROVE  BookInv'
<1>1. PICK c \in Call : /\ calls' = [calls EXCEPT ![s] = c]
                        /\ c.step = step /\ c.id = Id(s) /\ c.row = Row(s)
  BY GoToGives DEF Serving
<1>2. /\ c.step \in Serving /\ c.id = Id(s)
      /\ c.row.invoice = Row(s).invoice /\ c.row.amount = Row(s).amount
  BY <1>1
<1> QED
  BY <1>1, <1>2, ServingBook

LEMMA WalletStepsBook ==
  ASSUME Inv, Inv', BookInv, NEW s \in Sessions,
         FindWallet(s) \/ CreateWallet(s) \/ UndoCredit(s) \/ UndoCreated(s)
  PROVE  BookInv'
<1>1. /\ TablesStay /\ calls[s].step \in {"findWallet", "createWallet", "undo", "undoCreated"}
      /\ {"createWallet", "undoCreated"} \subseteq Serving
  BY DEF FindWallet, CreateWallet, UndoCredit, UndoCreated, TablesStay, At, Serving, Steps, Requesting
<1>2. calls[s] \in Call /\ Merchant(s) \in Merchants /\ calls[s].step \in Serving
  <2>1. ~At(s, "idle")
    BY <1>1 DEF At
  <2> QED
    BY <1>1, <2>1, CallType DEF Inv, Serving, Steps, Requesting
<1>3. CASE Return(s)
  BY <1>1, <1>3, StayKeeps, ReturnBook
<1>4. CASE GoTo(s, "createWallet") \/ GoTo(s, "undoCreated")
  BY <1>1, <1>2, <1>4, StayKeeps, GoToBook
<1>5. CASE FindWallet(s) /\ HasWallet(Merchant(s)) /\ MarkSuccess(s, wallets[Merchant(s)], FALSE)
  <2>1. wallets[Merchant(s)] \in Int64
    BY <1>2, <1>5 DEF Inv, TypeOK, WalletsTypeOK, HasWallet
  <2> QED
    BY <1>1, <1>5, <2>1, MarkSuccessBook DEF FindWallet
<1>6. CASE CreateWallet(s) /\ MarkSuccess(s, 0, TRUE)
  BY <1>1, <1>6, ZeroIsInt64, MarkSuccessBook DEF CreateWallet
<1> QED
  BY <1>3, <1>4, <1>5, <1>6 DEF FindWallet, CreateWallet, UndoCredit, UndoCreated

(* A status is saved: the invoice and the amount stay.                     *)
LEMMA SaveKeeps ==
  ASSUME Inv, NEW f \in Filed, NEW st \in RefundStatus,
         \/ refunds' = refunds
         \/ refunds' = RefundSave(f, st),
         UNCHANGED paidFor
  PROVE  RowsKept /\ PaidKept /\ Filed' = Filed
<1>1. PaidKept
  BY DEF PaidKept
<1>2. CASE refunds' = refunds
  BY <1>1, <1>2 DEF RowsKept, Filed
<1>3. CASE refunds' = RefundSave(f, st)
  <2> DEFINE row == [refunds[f] EXCEPT !.status = st]
  <2>1. refunds' = [refunds EXCEPT ![f] = row] /\ f \in RefundIds
    BY <1>3, FiledRow DEF RefundSave, Inv
  <2>2. /\ row \in Refund /\ row # NoRefund
        /\ row.invoice = refunds[f].invoice /\ row.amount = refunds[f].amount
    BY FiledRow, NoRefundIsNoRow DEF Inv, Refund
  <2> HIDE DEF row
  <2>3. Filed' = Filed /\ refunds'[f] = row /\ \A g \in Filed \ {f} : refunds'[g] = refunds[g]
    BY <2>1, <2>2 DEF Filed, Inv, TypeOK
  <2> QED
    BY <1>1, <2>2, <2>3 DEF RowsKept
<1> QED
  BY <1>2, <1>3

LEMMA SaveRefundBook ==
  ASSUME Inv, Inv', BookInv, NEW s \in Sessions, SaveRefund(s)
  PROVE  BookInv'
<1>1. /\ At(s, "save") /\ Return(s) /\ UNCHANGED <<paidFor, granted, credited>>
      /\ refunds' = refunds \/ refunds' = RefundSave(Id(s), Row(s).status)
  BY DEF SaveRefund
<1>2. Id(s) \in Filed /\ Row(s).status \in RefundStatus
  <2>1. ~At(s, "idle")
    BY <1>1 DEF At
  <2> QED
    BY <1>1, <2>1, CallType DEF Inv, CallsFit, Fits, At, Id, Row, Requesting
<1> QED
  BY <1>1, <1>2, SaveKeeps, ReturnBook

LEMMA SaveSuccessBook ==
  ASSUME Inv, Inv', BookInv, NEW s \in Sessions, SaveSuccess(s)
  PROVE  BookInv'
<1>1. /\ At(s, "saveSuccess") /\ UNCHANGED <<paidFor, granted, credited>>
      /\ refunds' = refunds \/ refunds' = RefundSave(Id(s), Row(s).status)
      /\ Return(s) \/ GoTo(s, "undo")
  BY DEF SaveSuccess
<1>2. Id(s) \in Filed /\ Row(s).status \in RefundStatus /\ calls[s] \in Call /\ calls[s].step \in Serving
  <2>1. ~At(s, "idle")
    BY <1>1 DEF At
  <2> QED
    BY <1>1, <2>1, CallType DEF Inv, CallsFit, Fits, At, Id, Row, Serving, Steps, Requesting
<1>3. RowsKept /\ PaidKept /\ Filed' = Filed
  BY <1>1, <1>2, SaveKeeps
<1>4. CASE Return(s)
  BY <1>1, <1>3, <1>4, ReturnBook
<1>5. CASE GoTo(s, "undo")
  <2>1. "undo" \in Serving
    BY DEF Serving, Steps, Requesting
  <2> QED
    BY <1>1, <1>2, <1>3, <1>5, <2>1, GoToBook
<1> QED
  BY <1>1, <1>4, <1>5

(* A credit adds its amount to what the merchant was granted, and its      *)
(* refund to the credited ones.                                            *)
LEMMA CreditCovered ==
  ASSUME Inv, Inv', BookInv, NEW f \in Filed, NEW m \in Merchants, m = Issuer[refunds[f].invoice],
         UNCHANGED refunds, credited' = credited \cup {f},
         granted' = [granted EXCEPT ![m] = @ + refunds[f].amount]
  PROVE  Covered'
<1> SUFFICES ASSUME NEW n \in Merchants PROVE Sum(Owed', CreditedOf(n)') <= granted'[n]
  BY DEF Covered
<1>1. Owed' = Owed
  BY DEF Owed, Filed
<1>2. /\ granted[n] \in Nat /\ Owed[f] = refunds[f].amount /\ Owed[f] \in Nat
      /\ granted'[n] = IF n = m THEN granted[n] + Owed[f] ELSE granted[n]
  BY FiledRow DEF Inv, TypeOK, Owed, Refund, Amount64
<1>3. /\ IsFiniteSet(CreditedOf(n)) /\ Terms(Owed, CreditedOf(n))
      /\ Sum(Owed, CreditedOf(n)) <= granted[n]
  BY FS_Subset, FiledRow DEF BookInv, CreditedFiled, Covered, CreditedOf, Owed, Terms, Inv, Refund, Amount64
<1>4. Sum(Owed, CreditedOf(n)) \in Int
  BY <1>3, SumType
<1>5. CASE CreditedOf(n)' = CreditedOf(n)
  BY <1>1, <1>2, <1>3, <1>4, <1>5
<1>6. CASE n = m /\ f \notin CreditedOf(n) /\ CreditedOf(n)' = CreditedOf(n) \cup {f}
  <2>1. Sum(Owed, CreditedOf(n) \cup {f}) = Sum(Owed, CreditedOf(n)) + Owed[f]
    BY <1>2, <1>3, <1>6, SumAdd
  <2> QED
    BY <1>1, <1>2, <1>3, <1>4, <1>6, <2>1
<1> QED
  BY <1>5, <1>6 DEF CreditedOf

LEMMA CreditWalletBook ==
  ASSUME Inv, Inv', BookInv, NEW s \in Sessions, CreditWallet(s)
  PROVE  BookInv'
<1>1. /\ At(s, "credit") /\ UNCHANGED <<paidFor, refunds>>
      /\ Return(s) \/ GoTo(s, "saveSuccess")
      /\ \/ UNCHANGED <<granted, credited>>
         \/ /\ granted' = [granted EXCEPT ![Merchant(s)] = @ + Row(s).amount]
            /\ credited' = credited \cup {Id(s)}
  BY DEF CreditWallet
<1>2. /\ Id(s) \in Filed /\ calls[s] \in Call /\ calls[s].step \in Serving
      /\ Merchant(s) \in Merchants /\ Row(s).amount \in Nat
      /\ Row(s).invoice = refunds[Id(s)].invoice /\ Row(s).amount = refunds[Id(s)].amount
      /\ "saveSuccess" \in Serving
  <2>1. ~At(s, "idle")
    BY <1>1 DEF At
  <2>2. calls[s].step \in Serving /\ "saveSuccess" \in Serving
    BY <1>1 DEF At, Serving, Steps, Requesting
  <2>3. Id(s) \in Filed /\ Matches(calls[s])
    BY <1>1 DEF At, Inv, CallsFit, Fits, BookInv, ModelsMatch, Id, Requesting
  <2> QED
    BY <2>1, <2>2, <2>3, CallType DEF Inv, Matches, Id, Row, Amount64
<1>3. RowsKept /\ PaidKept /\ Filed' = Filed
  BY <1>1 DEF RowsKept, PaidKept, Filed
<1>4. CASE UNCHANGED <<granted, credited>>
  BY <1>1, <1>2, <1>3, <1>4, ReturnBook, GoToBook
<1>5. CASE /\ granted' = [granted EXCEPT ![Merchant(s)] = @ + Row(s).amount]
           /\ credited' = credited \cup {Id(s)}
  <2>1. Covered'
    <3>1. PICK f \in Filed : f = Id(s)
      BY <1>2
    <3>2. Merchant(s) = Issuer[refunds[f].invoice] /\ granted' = [granted EXCEPT ![Merchant(s)] = @ + refunds[f].amount]
      BY <1>2, <1>5, <3>1 DEF Merchant, Row
    <3> QED
      BY <1>1, <1>2, <1>5, <3>1, <3>2, CreditCovered
  <2>2. GrantedGrows
    BY <1>2, <1>5 DEF GrantedGrows, Inv, TypeOK
  <2>3. IsFiniteSet(Filed)' /\ CreditedFiled'
    BY <1>2, <1>3, <1>5 DEF BookInv, CreditedFiled
  <2>4. AllWithin'
    <3> SUFFICES ASSUME NEW f \in Filed PROVE Within(refunds[f])'
      BY <1>3 DEF AllWithin
    <3>1. PICK row : row = refunds[f]
      OBVIOUS
    <3>2. row \in Refund /\ Issuer[row.invoice] \in Merchants /\ Within(row)
      BY <3>1, FiledRow DEF Inv, BookInv, AllWithin
    <3>3. Within(row)'
      BY <1>3, <2>2, <3>2, WithinKept DEF GrantedGrows
    <3> QED
      BY <1>1, <3>1, <3>3
  <2>5. PICK c : /\ calls' = [calls EXCEPT ![s] = c]
                 /\ Matches(c)' /\ Checked(c)' /\ c.step \notin Requesting
    <3>1. CASE Return(s)
      <4>1. PICK c : c = Idle
        OBVIOUS
      <4>2. c.step = "idle" /\ calls' = [calls EXCEPT ![s] = c]
        BY <3>1, <4>1 DEF Return, Become, Idle
      <4> QED
        BY <4>2 DEF Matches, Checked, Serving, Steps, Requesting
    <3>2. CASE GoTo(s, "saveSuccess")
      <4>1. PICK c \in Call : /\ calls' = [calls EXCEPT ![s] = c]
                              /\ c.step = "saveSuccess" /\ c.id = Id(s) /\ c.row = Row(s)
        BY <1>2, <3>2, GoToGives DEF Steps
      <4>2. Matches(c)' /\ Checked(c)'
        BY <1>1, <1>2, <4>1 DEF Matches, Checked
      <4> QED
        BY <4>1, <4>2 DEF Requesting
    <3> QED
      BY <1>1, <3>1, <3>2
  <2>6. \A t \in Sessions \ {s} : calls[t].step \in Requesting => Id(t) \notin Filed'
    BY <1>3 DEF BookInv, IdsFresh
  <2>7. ModelsMatch' /\ ChecksHold' /\ IdsFresh'
    BY <1>3, <2>2, <2>5, <2>6, CallsBook
  <2> QED
    BY <2>1, <2>3, <2>4, <2>7 DEF BookInv
<1> QED
  BY <1>1, <1>4, <1>5

(* Steps that leave every call alone.                                      *)
LEMMA OthersBook ==
  ASSUME Inv, Inv', BookInv, PaidKept, UNCHANGED <<refunds, calls, granted, credited>>
  PROVE  BookInv'
<1>1. RowsKept /\ Filed' = Filed
  BY DEF RowsKept, Filed
<1>2. IsFiniteSet(Filed)' /\ CreditedFiled' /\ Covered' /\ AllWithin' /\ GrantedGrows
  BY <1>1, RowsBook
<1>3. CASE Sessions = {}
  BY <1>2, <1>3 DEF BookInv, ModelsMatch, ChecksHold, IdsFresh
<1>4. CASE Sessions # {}
  <2>1. PICK s \in Sessions : TRUE
    BY <1>4
  <2>2. PICK c : c = calls[s]
    OBVIOUS
  <2>3. Matches(c) /\ Checked(c) /\ Fits(c) /\ (c.step # "idle" => c \in Call)
    BY <2>2 DEF BookInv, ModelsMatch, ChecksHold, Inv, CallsFit, TypeOK, Idle
  <2>4. Matches(c)'
    BY <2>3 DEF Matches
  <2>5. Checked(c)'
    BY <2>3 DEF Checked, Fits, PaidKept, Within, Call, Refund
  <2>6. calls' = [calls EXCEPT ![s] = c]
    BY <2>2 DEF Inv, TypeOK
  <2>7. c.step \in Requesting =>
          /\ c.id \notin Filed'
          /\ \A t \in Sessions \ {s} : calls[t].step \in Requesting => Id(t) # c.id
    BY <1>1, <2>2 DEF BookInv, IdsFresh, Id
  <2>8. \A t \in Sessions \ {s} : calls[t].step \in Requesting => Id(t) \notin Filed'
    BY <1>1 DEF BookInv, IdsFresh
  <2>9. ModelsMatch' /\ ChecksHold' /\ IdsFresh'
    BY <1>1, <1>2, <2>4, <2>5, <2>6, <2>7, <2>8, CallsBook
  <2> QED
    BY <1>2, <2>9 DEF BookInv
<1> QED
  BY <1>3, <1>4

(* Whatever is saved of an invoice, it was PAID with the same amounts.     *)
LEMMA InvoicingKeepsPaid ==
  ASSUME Inv, Invoicing
  PROVE  PaidKept /\ UNCHANGED <<faults, wallets, refunds, calls, granted, acked, credited>>
<1>1. CASE \E i \in InvoiceIds, a \in Amounts, d \in Dues : IssueInvoice(i, a, d)
  BY <1>1 DEF IssueInvoice, PaidKept, history
<1>2. CASE \E i \in InvoiceIds, row \in Invoice : RewriteInvoice(i, row)
  BY <1>2 DEF RewriteInvoice, PaidKept, Inv, TypeOK, history
<1>3. CASE \E i \in InvoiceIds : DeleteInvoice(i)
  BY <1>3 DEF DeleteInvoice, PaidKept, history
<1> QED
  BY <1>1, <1>2, <1>3 DEF Invoicing

LEMMA InvoicingBook ==
  ASSUME Inv, Inv', BookInv, Invoicing
  PROVE  BookInv'
BY InvoicingKeepsPaid, OthersBook

LEMMA CrashBook ==
  ASSUME Inv, Inv', BookInv, Crash
  PROVE  BookInv'
<1>1. calls' = [s \in Sessions |-> Idle] /\ UNCHANGED <<refunds, paidFor, granted, credited>>
  BY DEF Crash, history
<1>2. RowsKept /\ PaidKept /\ Filed' = Filed
  BY <1>1 DEF RowsKept, PaidKept, Filed
<1>3. IsFiniteSet(Filed)' /\ CreditedFiled' /\ Covered' /\ AllWithin'
  BY <1>1, <1>2, RowsBook
<1>4. ModelsMatch' /\ ChecksHold' /\ IdsFresh'
  BY <1>1 DEF ModelsMatch, Matches, ChecksHold, Checked, IdsFresh, Idle, Serving, Steps, Requesting
<1> QED
  BY <1>3, <1>4 DEF BookInv

LEMMA InitBook == Init => BookInv
<1> SUFFICES ASSUME Init PROVE BookInv
  OBVIOUS
<1>1. Filed = {} /\ credited = {}
  BY DEF Init, Filed
<1>2. Covered
  BY <1>1, SumEmpty DEF Covered, CreditedOf, Init
<1>3. ModelsMatch /\ ChecksHold /\ IdsFresh
  BY DEF Init, ModelsMatch, Matches, ChecksHold, Checked, IdsFresh, Idle, Serving, Steps, Requesting
<1> QED
  BY <1>1, <1>2, <1>3, FS_EmptySet DEF BookInv, CreditedFiled, AllWithin

LEMMA StepBook == Inv /\ Inv' /\ BookInv /\ [Next]_vars => BookInv'
<1> SUFFICES ASSUME Inv, Inv', BookInv, [Next]_vars PROVE BookInv'
  OBVIOUS
<1>1. ASSUME NEW s \in Sessions, Ask(s) PROVE BookInv'
  BY <1>1, RequestRefundBook, MarkBook, ProcessSuccessBook
     DEF Ask, Approve, Reject, ProcessFailed, RefundStatus
<1>2. ASSUME NEW s \in Sessions, Serve(s) PROVE BookInv'
  BY <1>2, LoadInvoiceBook, ExpireInvoiceBook, SumRefundsBook, InsertRefundBook, SaveRefundBook,
     WalletStepsBook, CreditWalletBook, SaveSuccessBook DEF Serve
<1>3. CASE Invoicing
  BY <1>3, InvoicingBook
<1>4. CASE TimePasses \/ UNCHANGED vars
  BY <1>4, OthersBook DEF TimePasses, vars, history, PaidKept
<1>5. CASE Crash
  BY <1>5, CrashBook
<1> QED
  BY <1>1, <1>2, <1>3, <1>4, <1>5 DEF Next, Quiet

LEMMA BookHolds == Spec => []BookInv
BY InitBook, StepBook, InvariantHolds, PTL DEF Spec

LEMMA StoredFits ==
  ASSUME Inv, BookInv
  PROVE  RefundFitsInvoice
BY FiledRow DEF Inv, Tables, InvoicesWerePaid, PaidStands, WasPaid, Refund,
                BookInv, AllWithin, Within, RefundFitsInvoice

(* The amount of a refund is checked in one statement and stored in        *)
(* another, beside other requests and with a list of refunds that may be   *)
(* cut short: even so, while what its merchant was credited fits in an     *)
(* int64, no refund is stored for more than its invoice was once PAID      *)
(* with, whatever stale copies of the invoice were saved in between.       *)
THEOREM RefundsFitInvoices == Spec => []RefundFitsInvoice
BY StoredFits, InvariantHolds, BookHolds, PTL

-----------------------------------------------------------------------------
(* What Refunds guarantees when requests are served one after the other,   *)
(* whatever calls fail and whenever the server stops.                      *)

OneAtATime == \A r, s \in Sessions : r = s

(* No balance of the bounded model overflows.                              *)
Roomy == \A a \in Amounts : MaxGranted + a <= MaxInt64

Follows(from, to) ==
  \/ from = "REQUESTED" /\ to \in {"APPROVED", "REJECTED"}
  \/ from = "APPROVED" /\ to \in {"SUCCESS", "FAILED"}

(* What the request under way knows about the tables of refunds.           *)
KnowsRefund(c) ==
  /\ c.step = "insert" /\ faults.count = 0 /\ granted[Issuer[c.row.invoice]] <= MaxInt64 =>
       \E a \in paidFor[c.row.invoice] : Total(c.row.invoice, {"SUCCESS"}) + c.row.amount <= a
  /\ c.step = "save" =>
       refunds[c.id].status = c.row.status \/ Follows(refunds[c.id].status, c.row.status)
  /\ c.step \in {"findWallet", "createWallet"} => refunds[c.id].status = c.row.status
  /\ c.step \in {"credit", "saveSuccess"} => RefundCanSucceed(refunds[c.id].status)

(* What it knows about the wallet.                                         *)
KnowsWallet(c) ==
  LET m == Issuer[c.row.invoice] IN
  /\ c.step \in {"findWallet", "createWallet", "credit"} => granted[m] < MaxGranted
  /\ c.step \in {"credit", "saveSuccess"} => HasWallet(m)
  /\ c.step = "credit" => wallets[m] = c.base
  /\ c.step = "saveSuccess" => wallets[m] = c.base + c.row.amount
  /\ c.step \in {"credit", "saveSuccess", "undo"} =>
       acked[m] <= c.base /\ c.base <= granted[m] /\ (c.created => c.base = 0)
  /\ c.step = "undoCreated" => acked[m] = 0

RefundsKnown == \A s \in Sessions : KnowsRefund(calls[s])

WalletsKnown == \A s \in Sessions : KnowsWallet(calls[s])

(* A wallet holds what was answered for and no more than was credited.     *)
Solvent == \A m \in Merchants : acked[m] <= Balance(m) /\ Balance(m) <= granted[m]

-----------------------------------------------------------------------------
(* The statuses.                                                           *)

(* Every status a step writes follows from the one that is stored.         *)
StatusesFollow ==
  \A f \in Filed : \/ refunds'[f].status = refunds[f].status
                   \/ Follows(refunds[f].status, refunds'[f].status)

LEMMA IdleKnows ==
  ASSUME OneAtATime, TypeOK, NEW s \in Sessions, Return(s)
  PROVE  RefundsKnown' /\ WalletsKnown'
BY DEF OneAtATime, TypeOK, Return, Become, RefundsKnown, KnowsRefund, WalletsKnown, KnowsWallet, Idle

LEMMA TotalIs ==
  ASSUME Inv, BookInv, NEW i \in InvoiceIds
  PROVE  LET won == {f \in RefundsOf(i) : refunds[f].status = "SUCCESS"} IN
         Total(i, {"SUCCESS"}) = Sum(Owed, won)
<1> DEFINE won == {f \in RefundsOf(i) : refunds[f].status = "SUCCESS"}
           some == {f \in RefundsOf(i) : refunds[f].status \in {"SUCCESS"}}
<1>1. some \in SUBSET Filed /\ some = won
  BY DEF RefundsOf
<1> HIDE DEF won
<1>2. MapThenSumSet(LAMBDA f : refunds[f].amount, some) = Sum(Owed, some)
  <2> HIDE DEF some
  <2> QED
    BY <1>1, FiledSum DEF BookInv
<1>3. Total(i, {"SUCCESS"}) = Sum(Owed, some)
  BY <1>2 DEF Total
<1> QED
  BY <1>1, <1>3 DEF won

(* Nothing a total is made of changes.                                     *)
LEMMA TotalStays ==
  ASSUME UNCHANGED refunds, NEW i
  PROVE  Total(i, {"SUCCESS"})' = Total(i, {"SUCCESS"})
BY DEF Total, RefundsOf, Filed, MapThenSumSet, MapThenFoldSet

LEMMA OneKnowsRefund ==
  ASSUME OneAtATime, TypeOK, NEW s \in Sessions, NEW c, calls' = [calls EXCEPT ![s] = c], KnowsRefund(c)'
  PROVE  RefundsKnown'
<1>1. calls'[s] = c
  BY DEF TypeOK
<1> QED
  BY <1>1 DEF OneAtATime, RefundsKnown

(* Steps after which the request knows nothing about its refund.           *)
Unaware == {"loadInvoice", "expire", "sum", "undo", "undoCreated"}

LEMMA UnawareKnows ==
  ASSUME OneAtATime, TypeOK, NEW s \in Sessions, NEW c,
         calls' = [calls EXCEPT ![s] = c], c.step \in Unaware
  PROVE  RefundsKnown'
<1>1. KnowsRefund(c)'
  BY DEF Unaware, KnowsRefund
<1> QED
  BY <1>1, OneKnowsRefund

LEMMA UnawareGoes ==
  ASSUME OneAtATime, TypeOK, NEW s \in Sessions, calls[s] \in Call, NEW step \in Unaware, GoTo(s, step)
  PROVE  RefundsKnown'
<1>1. PICK c \in Call : calls' = [calls EXCEPT ![s] = c] /\ c.step = step
  BY GoToGives DEF Unaware, Steps
<1> QED
  BY <1>1, UnawareKnows

LEMMA SameStatuses ==
  ASSUME UNCHANGED refunds
  PROVE  StatusesFollow
BY DEF StatusesFollow

LEMMA AskStatuses ==
  ASSUME OneAtATime, Inv, NEW s \in Sessions, Ask(s)
  PROVE  RefundsKnown' /\ StatusesFollow
<1>1. UNCHANGED refunds
  BY DEF Ask, RequestRefund, Approve, Reject, ProcessFailed, ProcessSuccess, Mark
<1>2. CASE \E f \in RefundIds, i \in InvoiceIds, a \in Amounts : RequestRefund(s, f, i, a)
  <2>1. PICK f \in RefundIds, i \in InvoiceIds, a \in Amounts : RequestRefund(s, f, i, a)
    BY <1>2
  <2> DEFINE row == [invoice |-> i, amount |-> a, status |-> "REQUESTED"]
  <2>2. row \in Refund
    BY <2>1, InvoiceAssumption, Int64Assumption DEF RequestRefund, Int64, Amount64, Refund, RefundStatus
  <2>3. Begin(s, "loadInvoice", f, row)
    BY <2>1 DEF RequestRefund
  <2> HIDE DEF row
  <2>4. PICK c \in Call : calls' = [calls EXCEPT ![s] = c] /\ c.step = "loadInvoice"
    BY <2>2, <2>3, BeginGives DEF Steps
  <2> QED
    BY <1>1, <2>4, UnawareKnows, SameStatuses DEF Unaware, Inv
<1>3. ASSUME NEW f \in RefundIds, NEW st \in RefundStatus, Mark(s, f, st),
             refunds[f].status = st \/ Follows(refunds[f].status, st)
      PROVE  RefundsKnown'
  <2> DEFINE row == [refunds[f] EXCEPT !.status = st]
  <2>1. row \in Refund /\ row.status = st
    BY <1>3, FiledRow DEF Mark, Inv, Refund
  <2>2. Begin(s, "save", f, row)
    BY <1>3 DEF Mark
  <2> HIDE DEF row
  <2>3. PICK c \in Call : /\ calls' = [calls EXCEPT ![s] = c]
                          /\ c.step = "save" /\ c.id = f /\ c.row = row
    BY <2>1, <2>2, BeginGives DEF Steps
  <2>4. KnowsRefund(c)'
    BY <1>1, <1>3, <2>1, <2>3 DEF KnowsRefund
  <2> QED
    BY <2>3, <2>4, OneKnowsRefund DEF Inv
<1>4. ASSUME NEW f \in RefundIds, ProcessSuccess(s, f) PROVE RefundsKnown'
  <2>1. refunds[f] \in Refund /\ Begin(s, "findWallet", f, refunds[f])
    BY <1>4, FiledRow DEF ProcessSuccess, Inv
  <2>2. PICK c \in Call : /\ calls' = [calls EXCEPT ![s] = c]
                          /\ c.step = "findWallet" /\ c.id = f /\ c.row = refunds[f]
    BY <2>1, BeginGives DEF Steps
  <2>3. KnowsRefund(c)'
    BY <1>1, <2>2 DEF KnowsRefund
  <2> QED
    BY <2>2, <2>3, OneKnowsRefund DEF Inv
<1>5. CASE \E f \in RefundIds : Approve(s, f) \/ Reject(s, f) \/ ProcessFailed(s, f)
  <2>1. PICK f \in RefundIds : Approve(s, f) \/ Reject(s, f) \/ ProcessFailed(s, f)
    BY <1>5
  <2>2. PICK st \in RefundStatus : Mark(s, f, st) /\ (refunds[f].status = st \/ Follows(refunds[f].status, st))
    BY <2>1 DEF Approve, Reject, ProcessFailed, RefundCanApprove, RefundCanReject, RefundCanFail,
                Follows, RefundStatus
  <2> QED
    BY <1>1, <1>3, <2>2, SameStatuses
<1> QED
  BY <1>1, <1>2, <1>4, <1>5, SameStatuses DEF Ask

(* While no call failed, what the request saw is all there is.             *)
LEMMA SumRefundsStatuses ==
  ASSUME OneAtATime, Inv, BookInv, NEW s \in Sessions, SumRefunds(s)
  PROVE  RefundsKnown' /\ StatusesFollow
<1> DEFINE d == [calls[s] EXCEPT !.step = "insert", !.loaded = NoInvoice]
           i == Row(s).invoice
<1>1. /\ At(s, "sum") /\ UNCHANGED <<refunds, paidFor, granted>>
  BY DEF SumRefunds, history
<1>2. \/ Return(s)
      \/ /\ calls' = [calls EXCEPT ![s] = d]
         /\ faults'.count = 0 => Wrap64(calls[s].loaded.amount - SumRefunded(RefundsOf(i))) >= Row(s).amount
  <2>1. PICK r \in Replies, seen \in SUBSET RefundsOf(i) :
          /\ Reply(r)
          /\ r = "ok" => seen = RefundsOf(i)
          /\ \/ Return(s)
             \/ /\ Wrap64(calls[s].loaded.amount - SumRefunded(seen)) >= Row(s).amount
                /\ calls' = [calls EXCEPT ![s] = d]
    BY DEF SumRefunds, Become
  <2>2. r # "ok" => faults'.count # 0
    BY <2>1, FaultGives DEF Reply, Inv, TypeOK
  <2> QED
    BY <2>1, <2>2
<1>3. calls[s] \in Call /\ i \in InvoiceIds
  <2>1. ~At(s, "idle")
    BY <1>1 DEF At
  <2> QED
    BY <1>1, <2>1, CallType DEF Inv
<1>4. CASE Return(s)
  BY <1>1, <1>4, IdleKnows, SameStatuses DEF Inv
<1>5. CASE /\ calls' = [calls EXCEPT ![s] = d]
           /\ faults'.count = 0 => Wrap64(calls[s].loaded.amount - SumRefunded(RefundsOf(i))) >= Row(s).amount
  <2>1. d.step = "insert" /\ d.row = Row(s)
    BY <1>3 DEF Call, Row
  <2>2. PICK c : c = d
    OBVIOUS
  <2> HIDE DEF d
  <2>3. ASSUME faults'.count = 0, granted'[Issuer[c.row.invoice]] <= MaxInt64
        PROVE  \E a \in paidFor'[c.row.invoice] : Total(c.row.invoice, {"SUCCESS"})' + c.row.amount <= a
    <3> DEFINE all == RefundsOf(i)
               won == {f \in all : refunds[f].status = "SUCCESS"}
    <3>1. granted[Merchant(s)] <= MaxInt64 /\ Wrap64(calls[s].loaded.amount - SumRefunded(all)) >= Row(s).amount
      BY <1>1, <1>5, <2>1, <2>2, <2>3 DEF Merchant, Row
    <3>2. all \in SUBSET RefundsOf(Row(s).invoice)
      OBVIOUS
    <3> HIDE DEF all
    <3>3. \E a \in paidFor[Row(s).invoice] : Sum(Owed, won) + Row(s).amount <= a
      BY <1>1, <3>1, <3>2, CheckGives
    <3>4. Total(i, {"SUCCESS"}) = Sum(Owed, won)
      BY <1>3, TotalIs DEF all
    <3>5. c.row.invoice = i /\ c.row.amount = Row(s).amount
      BY <2>1, <2>2
    <3>6. Total(c.row.invoice, {"SUCCESS"})' = Total(c.row.invoice, {"SUCCESS"})
      BY <1>1, TotalStays
    <3> HIDE DEF won
    <3> QED
      BY <1>1, <3>3, <3>4, <3>5, <3>6
  <2>4. KnowsRefund(c)'
    BY <2>1, <2>2, <2>3 DEF KnowsRefund
  <2>5. calls' = [calls EXCEPT ![s] = c]
    BY <1>5, <2>2
  <2> QED
    BY <1>1, <2>4, <2>5, OneKnowsRefund, SameStatuses DEF Inv
<1> QED
  BY <1>2, <1>4, <1>5

LEMMA InsertStatuses ==
  ASSUME OneAtATime, Inv, BookInv, NEW s \in Sessions, InsertRefund(s)
  PROVE  RefundsKnown' /\ StatusesFollow
<1>1. /\ At(s, "insert") /\ Return(s)
      /\ refunds' = refunds \/ refunds' = [refunds EXCEPT ![Id(s)] = Row(s)]
  BY DEF InsertRefund, RefundCreate
<1>2. Id(s) \notin Filed
  BY <1>1 DEF BookInv, IdsFresh, At, Requesting
<1>3. \A f \in Filed : refunds'[f] = refunds[f]
  BY <1>1, <1>2 DEF Inv, TypeOK, Filed
<1> QED
  BY <1>1, <1>3, IdleKnows DEF StatusesFollow, Inv

LEMMA SavedStatus ==
  ASSUME Inv, NEW f \in Filed, NEW st \in RefundStatus,
         refunds' = refunds \/ refunds' = RefundSave(f, st),
         refunds[f].status = st \/ Follows(refunds[f].status, st)
  PROVE  StatusesFollow
<1>1. CASE refunds' = refunds
  BY <1>1, SameStatuses
<1>2. CASE refunds' = RefundSave(f, st)
  <2> DEFINE row == [refunds[f] EXCEPT !.status = st]
  <2>1. refunds' = [refunds EXCEPT ![f] = row] /\ row.status = st
    BY <1>2, FiledRow DEF RefundSave, Inv, Refund
  <2> HIDE DEF row
  <2>2. \A g \in Filed : refunds'[g] = IF g = f THEN row ELSE refunds[g]
    BY <2>1 DEF Filed, Inv, TypeOK
  <2> QED
    BY <2>1, <2>2 DEF StatusesFollow
<1> QED
  BY <1>1, <1>2

LEMMA SaveRefundStatuses ==
  ASSUME OneAtATime, Inv, RefundsKnown, NEW s \in Sessions, SaveRefund(s)
  PROVE  RefundsKnown' /\ StatusesFollow
<1>1. /\ At(s, "save") /\ Return(s)
      /\ refunds' = refunds \/ refunds' = RefundSave(Id(s), Row(s).status)
  BY DEF SaveRefund
<1>2. /\ Id(s) \in Filed /\ Row(s).status \in RefundStatus
      /\ refunds[Id(s)].status = Row(s).status \/ Follows(refunds[Id(s)].status, Row(s).status)
  <2>1. ~At(s, "idle")
    BY <1>1 DEF At
  <2> QED
    BY <1>1, <2>1, CallType DEF Inv, CallsFit, Fits, RefundsKnown, KnowsRefund, At, Id, Row, Requesting
<1> QED
  BY <1>1, <1>2, SavedStatus, IdleKnows DEF Inv

(* Finding or creating the wallet, the request still holds the status that *)
(* is stored.                                                              *)
LEMMA MarkStatuses ==
  ASSUME OneAtATime, Inv, RefundsKnown, NEW s \in Sessions, At(s, "findWallet") \/ At(s, "createWallet"),
         UNCHANGED refunds, NEW base \in Int64, NEW created \in BOOLEAN, MarkSuccess(s, base, created)
  PROVE  RefundsKnown'
<1>1. calls[s] \in Call /\ refunds[Id(s)].status = Row(s).status
  <2>1. ~At(s, "idle")
    BY DEF At
  <2> QED
    BY <2>1, CallType DEF Inv, RefundsKnown, KnowsRefund, At, Id, Row
<1>2. CASE Return(s)
  BY <1>2, IdleKnows DEF Inv
<1>3. CASE /\ RefundCanSucceed(Row(s).status)
           /\ \E c \in Call : /\ calls' = [calls EXCEPT ![s] = c]
                              /\ c.step = "credit" /\ c.id = Id(s)
  <2>1. PICK c \in Call : /\ calls' = [calls EXCEPT ![s] = c]
                          /\ c.step = "credit" /\ c.id = Id(s)
    BY <1>3
  <2>2. KnowsRefund(c)'
    BY <1>1, <1>3, <2>1 DEF KnowsRefund
  <2> QED
    BY <2>1, <2>2, OneKnowsRefund DEF Inv
<1> QED
  BY <1>1, <1>2, <1>3, MarkSuccessGives

LEMMA WalletStatuses ==
  ASSUME OneAtATime, Inv, RefundsKnown, NEW s \in Sessions,
         FindWallet(s) \/ CreateWallet(s) \/ UndoCredit(s) \/ UndoCreated(s)
  PROVE  RefundsKnown' /\ StatusesFollow
<1>1. UNCHANGED refunds /\ calls[s].step \in {"findWallet", "createWallet", "undo", "undoCreated"}
  BY DEF FindWallet, CreateWallet, UndoCredit, UndoCreated, At
<1>2. calls[s] \in Call /\ Merchant(s) \in Merchants
  BY <1>1, CallType DEF Inv, At
<1>3. CASE Return(s)
  BY <1>1, <1>3, IdleKnows, SameStatuses DEF Inv
<1>4. CASE GoTo(s, "undoCreated")
  BY <1>1, <1>2, <1>4, UnawareGoes, SameStatuses DEF Unaware, Inv
<1>5. CASE FindWallet(s) /\ GoTo(s, "createWallet")
  <2>1. PICK c \in Call : /\ calls' = [calls EXCEPT ![s] = c]
                          /\ c.step = "createWallet" /\ c.id = Id(s) /\ c.row = Row(s)
    BY <1>2, <1>5, GoToGives DEF Steps
  <2>2. refunds[Id(s)].status = Row(s).status
    BY <1>5 DEF FindWallet, RefundsKnown, KnowsRefund, At, Id, Row
  <2>3. KnowsRefund(c)'
    BY <1>1, <2>1, <2>2 DEF KnowsRefund
  <2> QED
    BY <1>1, <2>1, <2>3, OneKnowsRefund, SameStatuses DEF Inv
<1>6. CASE FindWallet(s) /\ HasWallet(Merchant(s)) /\ MarkSuccess(s, wallets[Merchant(s)], FALSE)
  <2>1. wallets[Merchant(s)] \in Int64
    BY <1>2, <1>6 DEF Inv, TypeOK, WalletsTypeOK, HasWallet
  <2> QED
    BY <1>1, <1>6, <2>1, MarkStatuses, SameStatuses DEF FindWallet
<1>7. CASE CreateWallet(s) /\ MarkSuccess(s, 0, TRUE)
  BY <1>1, <1>7, ZeroIsInt64, MarkStatuses, SameStatuses DEF CreateWallet
<1> QED
  BY <1>3, <1>4, <1>5, <1>6, <1>7 DEF FindWallet, CreateWallet, UndoCredit, UndoCreated

LEMMA CreditStatuses ==
  ASSUME OneAtATime, Inv, RefundsKnown, NEW s \in Sessions, CreditWallet(s)
  PROVE  RefundsKnown' /\ StatusesFollow
<1>1. At(s, "credit") /\ UNCHANGED refunds /\ (Return(s) \/ GoTo(s, "saveSuccess"))
  BY DEF CreditWallet
<1>2. calls[s] \in Call /\ RefundCanSucceed(refunds[Id(s)].status)
  BY <1>1, CallType DEF Inv, RefundsKnown, KnowsRefund, At, Id
<1>3. CASE Return(s)
  BY <1>1, <1>3, IdleKnows, SameStatuses DEF Inv
<1>4. CASE GoTo(s, "saveSuccess")
  <2>1. PICK c \in Call : /\ calls' = [calls EXCEPT ![s] = c]
                          /\ c.step = "saveSuccess" /\ c.id = Id(s)
    BY <1>2, <1>4, GoToGives DEF Steps
  <2>2. KnowsRefund(c)'
    BY <1>1, <1>2, <2>1 DEF KnowsRefund
  <2> QED
    BY <1>1, <2>1, <2>2, OneKnowsRefund, SameStatuses DEF Inv
<1> QED
  BY <1>1, <1>3, <1>4

LEMMA SaveSuccessStatuses ==
  ASSUME OneAtATime, Inv, RefundsKnown, NEW s \in Sessions, SaveSuccess(s)
  PROVE  RefundsKnown' /\ StatusesFollow
<1>1. /\ At(s, "saveSuccess") /\ (Return(s) \/ GoTo(s, "undo"))
      /\ refunds' = refunds \/ refunds' = RefundSave(Id(s), Row(s).status)
  BY DEF SaveSuccess
<1>2. /\ calls[s] \in Call /\ Id(s) \in Filed /\ Row(s).status = "SUCCESS" /\ "SUCCESS" \in RefundStatus
      /\ RefundCanSucceed(refunds[Id(s)].status)
  <2>1. ~At(s, "idle")
    BY <1>1 DEF At
  <2> QED
    BY <1>1, <2>1, CallType DEF Inv, CallsFit, Fits, RefundsKnown, KnowsRefund, At, Id, Row,
                                Requesting, Settling, RefundStatus
<1>3. StatusesFollow
  BY <1>1, <1>2, SavedStatus DEF RefundCanSucceed, Follows
<1> QED
  BY <1>1, <1>2, <1>3, IdleKnows, UnawareGoes DEF Unaware, Inv

(* Invoices that are PAID stay as they are, so what was found stays true.  *)
LEMMA OthersStatuses ==
  ASSUME OneAtATime, Inv, RefundsKnown, PaidKept, UNCHANGED <<faults, refunds, calls, granted>>
  PROVE  RefundsKnown' /\ StatusesFollow
<1> SUFFICES ASSUME NEW s \in Sessions PROVE KnowsRefund(calls[s])'
  BY SameStatuses DEF RefundsKnown
<1>1. PICK c : c = calls[s]
  OBVIOUS
<1>2. KnowsRefund(c) /\ Fits(c) /\ (c.step # "idle" => c \in Call)
  BY <1>1 DEF RefundsKnown, Inv, CallsFit, TypeOK, Idle
<1>3. Total(c.row.invoice, {"SUCCESS"})' = Total(c.row.invoice, {"SUCCESS"})
  BY TotalStays
<1>4. c.step = "insert" => paidFor[c.row.invoice] \subseteq paidFor'[c.row.invoice]
  BY <1>2 DEF PaidKept, Call, Refund
<1>5. KnowsRefund(c)'
  BY <1>2, <1>3, <1>4 DEF KnowsRefund
<1> QED
  BY <1>1, <1>5

LEMMA StepStatuses ==
  OneAtATime /\ Inv /\ BookInv /\ RefundsKnown /\ [Next]_vars => RefundsKnown' /\ StatusesFollow
<1> SUFFICES ASSUME OneAtATime, Inv, BookInv, RefundsKnown, [Next]_vars
             PROVE  RefundsKnown' /\ StatusesFollow
  OBVIOUS
<1>1. ASSUME NEW s \in Sessions, Ask(s) PROVE RefundsKnown' /\ StatusesFollow
  BY <1>1, AskStatuses
<1>2. ASSUME NEW s \in Sessions, LoadInvoice(s) PROVE RefundsKnown' /\ StatusesFollow
  <2> DEFINE d(step) == [calls[s] EXCEPT !.step = step, !.loaded = invoices[Row(s).invoice]]
  <2>1. /\ UNCHANGED refunds
        /\ Return(s) \/ \E step \in {"expire", "sum"} : calls' = [calls EXCEPT ![s] = d(step)]
    BY <1>2 DEF LoadInvoice, Become
  <2>2. calls[s] \in Call
    BY <1>2, CallType DEF Inv, LoadInvoice, At
  <2>3. ASSUME NEW step \in {"expire", "sum"}, calls' = [calls EXCEPT ![s] = d(step)] PROVE RefundsKnown'
    <3>1. PICK c : c = d(step)
      OBVIOUS
    <3>2. c.step \in Unaware /\ calls' = [calls EXCEPT ![s] = c]
      BY <2>2, <2>3, <3>1 DEF Call, Unaware
    <3> QED
      BY <3>2, UnawareKnows DEF Inv
  <2> HIDE DEF d
  <2> QED
    BY <2>1, <2>3, IdleKnows, SameStatuses DEF Inv
<1>3. ASSUME NEW s \in Sessions, ExpireInvoice(s) PROVE RefundsKnown' /\ StatusesFollow
  BY <1>3, IdleKnows, SameStatuses DEF ExpireInvoice, Inv
<1>4. ASSUME NEW s \in Sessions, Serve(s) PROVE RefundsKnown' /\ StatusesFollow
  BY <1>2, <1>3, <1>4, SumRefundsStatuses, InsertStatuses, SaveRefundStatuses, WalletStatuses,
     CreditStatuses, SaveSuccessStatuses DEF Serve
<1>5. CASE Invoicing
  BY <1>5, InvoicingKeepsPaid, OthersStatuses
<1>6. CASE TimePasses \/ UNCHANGED vars
  BY <1>6, OthersStatuses DEF TimePasses, vars, history, PaidKept
<1>7. CASE Crash
  <2>1. UNCHANGED refunds /\ calls' = [s \in Sessions |-> Idle]
    BY <1>7 DEF Crash
  <2> QED
    BY <2>1, SameStatuses DEF RefundsKnown, KnowsRefund, Idle
<1> QED
  BY <1>1, <1>4, <1>5, <1>6, <1>7 DEF Next, Quiet

LEMMA InitStatuses == Init => RefundsKnown
BY DEF Init, RefundsKnown, KnowsRefund, Idle

LEMMA StatusesHold ==
  ASSUME OneAtATime
  PROVE  Spec => []RefundsKnown
<1>1. Init => RefundsKnown
  BY InitStatuses
<1>2. Inv /\ BookInv /\ RefundsKnown /\ [Next]_vars => RefundsKnown'
  BY StepStatuses
<1> QED
  BY <1>1, <1>2, InvariantHolds, BookHolds, PTL DEF Spec

(* With requests one after the other, SUCCESS, FAILED and REJECTED are     *)
(* final and an approval is not taken back, whatever fails: each request   *)
(* saves the status that follows the one it loaded.                        *)
THEOREM SerialStatusIsFinal ==
  ASSUME OneAtATime
  PROVE  Spec => StatusIsFinal
<1> DEFINE Final == \A f \in Filed :
                      refunds'[f].status # refunds[f].status
                        => \/ refunds[f].status = "REQUESTED" /\ refunds'[f].status \in {"APPROVED", "REJECTED"}
                           \/ refunds[f].status = "APPROVED" /\ refunds'[f].status \in {"SUCCESS", "FAILED"}
<1>1. Inv /\ BookInv /\ RefundsKnown /\ [Next]_vars => Final
  BY StepStatuses DEF StatusesFollow, Follows
<1> HIDE DEF Final
<1>2. Spec => [][Final]_vars
  BY <1>1, InvariantHolds, BookHolds, StatusesHold, PTL DEF Spec
<1> QED
  BY <1>2 DEF StatusIsFinal, Final

(* Only InsertRefund stores a row.                                         *)
LEMMA FiledGrows ==
  ASSUME Inv, [Next]_vars, NEW f \in RefundIds \ Filed, f \in Filed'
  PROVE  \E s \in Sessions : InsertRefund(s)
<1>1. CASE refunds' = refunds
  BY <1>1 DEF Filed
<1>2. CASE \E s \in Sessions : SaveRefund(s) \/ SaveSuccess(s)
  <2>1. PICK s \in Sessions : SaveRefund(s) \/ SaveSuccess(s)
    BY <1>2
  <2>2. Id(s) \in Filed /\ Row(s).status \in RefundStatus /\ ~At(s, "idle")
    <3>1. ~At(s, "idle")
      BY <2>1 DEF SaveRefund, SaveSuccess, At
    <3> QED
      BY <2>1, <3>1, CallType DEF SaveRefund, SaveSuccess, Inv, CallsFit, Fits, At, Id, Row, Requesting
  <2>3. UNCHANGED paidFor /\ (refunds' = refunds \/ refunds' = RefundSave(Id(s), Row(s).status))
    BY <2>1 DEF SaveRefund, SaveSuccess
  <2> QED
    BY <2>2, <2>3, SaveKeeps
<1> QED
  BY <1>1, <1>2 DEF Next, Ask, Serve, RequestRefund, Approve, Reject, ProcessFailed, ProcessSuccess, Mark,
     LoadInvoice, ExpireInvoice, SumRefunds, FindWallet, CreateWallet, CreditWallet, UndoCredit, UndoCreated,
     Invoicing, IssueInvoice, RewriteInvoice, DeleteInvoice, TimePasses, Crash, Quiet, vars

(* With requests one after the other and no failed call so far, a refund   *)
(* is stored only where it fits beside those that are SUCCESS: the sum is  *)
(* taken one statement before the insert, and nothing comes between.       *)
THEOREM SerialStoredWithinMax ==
  ASSUME OneAtATime
  PROVE  Spec => StoredWithinMax
<1> DEFINE Fitting == \A f \in RefundIds \ Filed :
                        LET i == refunds'[f].invoice IN
                        faults.count = 0 /\ refunds'[f] # NoRefund /\ granted[Issuer[i]] <= MaxInt64
                          => \E a \in paidFor[i] : Total(i, {"SUCCESS"}) + refunds'[f].amount <= a
<1>1. ASSUME Inv, BookInv, RefundsKnown, [Next]_vars PROVE Fitting
  <2> SUFFICES ASSUME NEW f \in RefundIds \ Filed, NEW i, i = refunds'[f].invoice,
                      faults.count = 0, refunds'[f] # NoRefund, granted[Issuer[i]] <= MaxInt64
               PROVE  \E a \in paidFor[i] : Total(i, {"SUCCESS"}) + refunds'[f].amount <= a
    OBVIOUS
  <2>1. PICK s \in Sessions : InsertRefund(s)
    BY <1>1, FiledGrows DEF Filed
  <2>2. /\ At(s, "insert")
        /\ refunds' = refunds \/ refunds' = [refunds EXCEPT ![Id(s)] = Row(s)]
    BY <2>1 DEF InsertRefund, RefundCreate
  <2>3. refunds'[f] = Row(s)
    BY <1>1, <2>2 DEF Filed, Inv, TypeOK
  <2>4. KnowsRefund(calls[s])
    BY <1>1 DEF RefundsKnown
  <2> QED
    BY <2>2, <2>3, <2>4 DEF KnowsRefund, At, Row
<1>2. Inv /\ BookInv /\ RefundsKnown /\ [Next]_vars => Fitting
  BY <1>1
<1> HIDE DEF Fitting
<1>3. Spec => [][Fitting]_vars
  BY <1>2, InvariantHolds, BookHolds, StatusesHold, PTL DEF Spec
<1> QED
  BY <1>3 DEF StoredWithinMax, Fitting

-----------------------------------------------------------------------------
(* The wallet.                                                             *)

LEMMA OneKnowsWallet ==
  ASSUME OneAtATime, TypeOK, NEW s \in Sessions, NEW c, calls' = [calls EXCEPT ![s] = c], KnowsWallet(c)'
  PROVE  WalletsKnown'
<1>1. calls'[s] = c
  BY DEF TypeOK
<1> QED
  BY <1>1 DEF OneAtATime, WalletsKnown

Careless == {"loadInvoice", "expire", "sum", "insert", "save"}

LEMMA CarelessKnows ==
  ASSUME OneAtATime, TypeOK, NEW s \in Sessions, NEW c,
         calls' = [calls EXCEPT ![s] = c], c.step \in Careless
  PROVE  WalletsKnown'
<1>1. KnowsWallet(c)'
  BY DEF Careless, KnowsWallet
<1> QED
  BY <1>1, OneKnowsWallet

LEMMA SolventStays ==
  ASSUME Solvent, UNCHANGED <<wallets, granted, acked>>
  PROVE  Solvent'
BY DEF Solvent, Balance, HasWallet

LEMMA OthersWallet ==
  ASSUME WalletsKnown, Solvent, UNCHANGED <<calls, wallets, granted, acked>>
  PROVE  WalletsKnown' /\ Solvent'
<1> SUFFICES ASSUME NEW s \in Sessions PROVE KnowsWallet(calls[s])'
  BY SolventStays DEF WalletsKnown
<1> QED
  BY DEF WalletsKnown, KnowsWallet, HasWallet

LEMMA AskWallet ==
  ASSUME OneAtATime, Inv, Solvent, NEW s \in Sessions, Ask(s)
  PROVE  WalletsKnown' /\ Solvent'
<1>1. UNCHANGED <<wallets, granted, acked>>
  BY DEF Ask, RequestRefund, Approve, Reject, ProcessFailed, ProcessSuccess, Mark, history
<1>2. CASE \E f \in RefundIds : ProcessSuccess(s, f)
  <2>1. PICK f \in RefundIds : ProcessSuccess(s, f)
    BY <1>2
  <2>2. /\ refunds[f] \in Refund /\ Begin(s, "findWallet", f, refunds[f])
        /\ granted[Issuer[refunds[f].invoice]] < MaxGranted
    BY <2>1, FiledRow DEF ProcessSuccess, Inv
  <2>3. PICK c \in Call : /\ calls' = [calls EXCEPT ![s] = c]
                          /\ c.step = "findWallet" /\ c.id = f /\ c.row = refunds[f]
    BY <2>2, BeginGives DEF Steps
  <2>4. KnowsWallet(c)'
    BY <1>1, <2>2, <2>3 DEF KnowsWallet
  <2> QED
    BY <1>1, <2>3, <2>4, OneKnowsWallet, SolventStays DEF Inv
<1>3. ASSUME NEW step \in {"loadInvoice", "save"}, NEW f \in RefundIds, NEW row, Begin(s, step, f, row)
      PROVE  WalletsKnown'
  <2> DEFINE d == [step |-> step, id |-> f, row |-> row, loaded |-> NoInvoice, base |-> 0, created |-> FALSE]
  <2>1. d.step = step /\ calls' = [calls EXCEPT ![s] = d]
    BY <1>3 DEF Begin, Become
  <2> HIDE DEF d
  <2>2. PICK c : c = d
    OBVIOUS
  <2>3. c.step \in Careless /\ calls' = [calls EXCEPT ![s] = c]
    BY <2>1, <2>2 DEF Careless
  <2> QED
    BY <2>3, CarelessKnows DEF Inv
<1>4. CASE \E f \in RefundIds, i \in InvoiceIds, a \in Amounts : RequestRefund(s, f, i, a)
  <2>1. PICK f \in RefundIds, i \in InvoiceIds, a \in Amounts :
          Begin(s, "loadInvoice", f, [invoice |-> i, amount |-> a, status |-> "REQUESTED"])
    BY <1>4 DEF RequestRefund
  <2>2. PICK row : row = [invoice |-> i, amount |-> a, status |-> "REQUESTED"]
    OBVIOUS
  <2>3. Begin(s, "loadInvoice", f, row)
    BY <2>1, <2>2
  <2> QED
    BY <1>1, <1>3, <2>3, SolventStays
<1>5. CASE \E f \in RefundIds, st \in RefundStatus : Mark(s, f, st)
  <2>1. PICK f \in RefundIds, st \in RefundStatus : Begin(s, "save", f, [refunds[f] EXCEPT !.status = st])
    BY <1>5 DEF Mark
  <2>2. PICK row : row = [refunds[f] EXCEPT !.status = st]
    OBVIOUS
  <2>3. Begin(s, "save", f, row)
    BY <2>1, <2>2
  <2> QED
    BY <1>1, <1>3, <2>3, SolventStays
<1> QED
  BY <1>2, <1>4, <1>5 DEF Ask, Approve, Reject, ProcessFailed, RefundStatus

LEMMA RequestingWallet ==
  ASSUME OneAtATime, Inv, Solvent, NEW s \in Sessions,
         LoadInvoice(s) \/ ExpireInvoice(s) \/ SumRefunds(s) \/ InsertRefund(s) \/ SaveRefund(s)
  PROVE  WalletsKnown' /\ Solvent'
<1> DEFINE d(step, row) == [calls[s] EXCEPT !.step = step, !.loaded = row]
<1>1. UNCHANGED <<wallets, granted, acked>> /\ ~At(s, "idle")
  BY DEF LoadInvoice, ExpireInvoice, SumRefunds, InsertRefund, SaveRefund, At, history
<1>2. calls[s] \in Call
  BY <1>1, CallType DEF Inv
<1>3. \/ Return(s)
      \/ \E step \in {"expire", "sum"} : calls' = [calls EXCEPT ![s] = d(step, invoices[Row(s).invoice])]
      \/ calls' = [calls EXCEPT ![s] = d("insert", NoInvoice)]
  BY DEF LoadInvoice, ExpireInvoice, SumRefunds, InsertRefund, SaveRefund, Become
<1>4. CASE Return(s)
  BY <1>1, <1>4, IdleKnows, SolventStays DEF Inv
<1>5. ASSUME NEW step \in {"expire", "sum", "insert"}, NEW row, calls' = [calls EXCEPT ![s] = d(step, row)]
      PROVE  WalletsKnown'
  <2>1. d(step, row).step = step
    BY <1>2 DEF Call
  <2>2. PICK c : c = d(step, row)
    OBVIOUS
  <2>3. c.step \in Careless /\ calls' = [calls EXCEPT ![s] = c]
    BY <1>5, <2>1, <2>2 DEF Careless
  <2> QED
    BY <2>3, CarelessKnows DEF Inv
<1>6. CASE \E step \in {"expire", "sum"} : calls' = [calls EXCEPT ![s] = d(step, invoices[Row(s).invoice])]
  <2>1. PICK row : row = invoices[Row(s).invoice]
    OBVIOUS
  <2>2. PICK step \in {"expire", "sum"} : calls' = [calls EXCEPT ![s] = d(step, row)]
    BY <1>6, <2>1
  <2> HIDE DEF d
  <2> QED
    BY <1>1, <1>5, <2>2, SolventStays
<1>7. CASE calls' = [calls EXCEPT ![s] = d("insert", NoInvoice)]
  <2> HIDE DEF d
  <2> QED
    BY <1>1, <1>5, <1>7, SolventStays
<1> QED
  BY <1>3, <1>4, <1>6, <1>7

(* One balance changes.                                                    *)
LEMMA SolventMoves ==
  ASSUME Inv, Solvent, NEW m \in Merchants, NEW b \in Int, b # NoWallet,
         wallets' = wallets \/ wallets' = [wallets EXCEPT ![m] = b],
         \A n \in Merchants \ {m} : acked'[n] = acked[n] /\ granted'[n] = granted[n],
         acked'[m] <= Balance(m)' /\ Balance(m)' <= granted'[m]
  PROVE  Solvent'
<1> SUFFICES ASSUME NEW n \in Merchants \ {m} PROVE acked'[n] <= Balance(n)' /\ Balance(n)' <= granted'[n]
  BY DEF Solvent
<1>1. wallets'[n] = wallets[n]
  BY DEF Inv, TypeOK, WalletsTypeOK
<1> QED
  BY <1>1 DEF Solvent, Balance, HasWallet

LEMMA AtWallet ==
  ASSUME Inv, WalletsKnown, Solvent, NEW s \in Sessions, ~At(s, "idle")
  PROVE  /\ calls[s] \in Call /\ Merchant(s) \in Merchants /\ Row(s).amount \in Amounts \cap Nat
         /\ calls[s].base \in Int64 /\ KnowsWallet(calls[s]) /\ Merchant(s) = Issuer[calls[s].row.invoice]
         /\ wallets[Merchant(s)] \in Int64 \cup {NoWallet}
         /\ acked[Merchant(s)] \in Nat /\ granted[Merchant(s)] \in Nat
         /\ acked[Merchant(s)] <= Balance(Merchant(s)) /\ Balance(Merchant(s)) <= granted[Merchant(s)]
<1>1. calls[s] \in Call /\ Merchant(s) \in Merchants /\ Row(s) \in Refund /\ calls[s].base \in Int64
  BY CallType DEF Inv
<1>2. Row(s).amount \in Amounts \cap Nat
  BY <1>1 DEF Refund, Amount64
<1>3. KnowsWallet(calls[s]) /\ Merchant(s) = Issuer[calls[s].row.invoice]
  BY DEF WalletsKnown, Merchant
<1> QED
  BY <1>1, <1>2, <1>3 DEF Inv, TypeOK, WalletsTypeOK, Solvent

(* With the wallet at hand and nobody else around, its balance is the base *)
(* the credit starts from.                                                 *)
LEMMA MarkWallet ==
  ASSUME OneAtATime, Inv, NEW s \in Sessions, calls[s] \in Call, NEW m, m = Merchant(s),
         NEW base \in Int64, NEW created \in BOOLEAN, MarkSuccess(s, base, created),
         UNCHANGED <<granted, acked>>, wallets'[m] = base, granted[m] < MaxGranted,
         acked[m] <= base, base <= granted[m], created => base = 0
  PROVE  WalletsKnown'
<1>1. CASE Return(s)
  BY <1>1, IdleKnows DEF Inv
<1>2. CASE \E c \in Call : /\ calls' = [calls EXCEPT ![s] = c]
                           /\ c.step = "credit" /\ c.row.invoice = Row(s).invoice
                           /\ c.base = base /\ c.created = created
  <2>1. PICK c \in Call : /\ calls' = [calls EXCEPT ![s] = c]
                          /\ c.step = "credit" /\ c.row.invoice = Row(s).invoice
                          /\ c.base = base /\ c.created = created
    BY <1>2
  <2>2. m = Issuer[c.row.invoice]
    BY <2>1 DEF Merchant, Row
  <2>3. HasWallet(m)'
    BY WalletAssumption DEF HasWallet, Int64
  <2>4. KnowsWallet(c)'
    BY <2>1, <2>2, <2>3 DEF KnowsWallet
  <2> QED
    BY <2>1, <2>4, OneKnowsWallet DEF Inv
<1> QED
  BY <1>1, <1>2, MarkSuccessGives

LEMMA FindWalletWallet ==
  ASSUME OneAtATime, Inv, WalletsKnown, Solvent, NEW s \in Sessions, FindWallet(s)
  PROVE  WalletsKnown' /\ Solvent'
<1>1. At(s, "findWallet") /\ UNCHANGED <<wallets, granted, acked>>
  BY DEF FindWallet, history
<1>2. calls[s] \in Call /\ granted[Merchant(s)] < MaxGranted
  BY <1>1, AtWallet DEF At, KnowsWallet
<1>3. CASE Return(s)
  BY <1>1, <1>3, IdleKnows, SolventStays DEF Inv
<1>4. CASE HasWallet(Merchant(s)) /\ MarkSuccess(s, wallets[Merchant(s)], FALSE)
  <2>1. PICK m, b : m = Merchant(s) /\ b = wallets[m]
    OBVIOUS
  <2>2. b \in Int64 /\ acked[m] <= b /\ b <= granted[m] /\ wallets'[m] = b
    BY <1>1, <1>4, <2>1, AtWallet DEF At, Balance, HasWallet
  <2>3. MarkSuccess(s, b, FALSE)
    BY <1>4, <2>1
  <2> QED
    BY <1>1, <1>2, <2>1, <2>2, <2>3, MarkWallet, SolventStays
<1>5. CASE GoTo(s, "createWallet")
  <2>1. PICK c \in Call : /\ calls' = [calls EXCEPT ![s] = c]
                          /\ c.step = "createWallet" /\ c.row = Row(s)
    BY <1>2, <1>5, GoToGives DEF Steps
  <2>2. granted'[Issuer[c.row.invoice]] < MaxGranted
    BY <1>1, <1>2, <2>1 DEF Merchant, Row
  <2>3. KnowsWallet(c)'
    BY <2>1, <2>2 DEF KnowsWallet
  <2> QED
    BY <1>1, <2>1, <2>3, OneKnowsWallet, SolventStays DEF Inv
<1> QED
  BY <1>3, <1>4, <1>5 DEF FindWallet

(* A wallet that is created is empty, as it was for everybody before.      *)
LEMMA CreateWalletWallet ==
  ASSUME OneAtATime, Inv, WalletsKnown, Solvent, NEW s \in Sessions, CreateWallet(s)
  PROVE  WalletsKnown' /\ Solvent'
<1>1. PICK m : m = Merchant(s)
  OBVIOUS
<1>2. /\ At(s, "createWallet") /\ UNCHANGED <<granted, acked>>
      /\ \/ Return(s) /\ (wallets' = wallets \/ wallets' = WalletCreate(m))
         \/ ~HasWallet(m) /\ MarkSuccess(s, 0, TRUE) /\ wallets' = WalletCreate(m)
  BY <1>1 DEF CreateWallet, history, Executed
<1>3. /\ m \in Merchants /\ granted[m] < MaxGranted /\ calls[s] \in Call
      /\ acked[m] <= Balance(m) /\ Balance(m) <= granted[m] /\ granted[m] \in Nat
  BY <1>1, <1>2, AtWallet DEF At, KnowsWallet
<1>4. 0 # NoWallet /\ (wallets' = wallets \/ (~HasWallet(m) /\ wallets' = [wallets EXCEPT ![m] = 0]))
  <2>1. 0 # NoWallet
    BY WalletAssumption
  <2>2. WalletCreate(m) = wallets \/ (~HasWallet(m) /\ WalletCreate(m) = [wallets EXCEPT ![m] = 0])
    BY DEF WalletCreate
  <2> QED
    BY <1>2, <2>1, <2>2
<1>5. Balance(m)' = Balance(m)
  BY <1>3, <1>4 DEF Balance, HasWallet, Inv, TypeOK, WalletsTypeOK
<1>6. Solvent'
  BY <1>2, <1>3, <1>4, <1>5, SolventMoves
<1>7. CASE Return(s)
  BY <1>6, <1>7, IdleKnows DEF Inv
<1>8. CASE ~HasWallet(m) /\ MarkSuccess(s, 0, TRUE) /\ wallets' = WalletCreate(m)
  <2>1. wallets'[m] = 0 /\ acked[m] <= 0
    BY <1>3, <1>8 DEF WalletCreate, Balance, HasWallet, Inv, TypeOK, WalletsTypeOK
  <2>2. 0 <= granted[m] /\ 0 \in Int64 /\ TRUE \in BOOLEAN
    BY <1>3, ZeroIsInt64
  <2>3. WalletsKnown'
    BY <1>1, <1>2, <1>3, <1>8, <2>1, <2>2, MarkWallet
  <2> QED
    BY <1>6, <2>3
<1> QED
  BY <1>2, <1>7, <1>8

LEMMA CreditWalletWallet ==
  ASSUME OneAtATime, Roomy, Inv, WalletsKnown, Solvent, NEW s \in Sessions, CreditWallet(s)
  PROVE  WalletsKnown' /\ Solvent'
<1>1. PICK m, a, b : m = Merchant(s) /\ a = Row(s).amount /\ b = calls[s].base
  OBVIOUS
<1>2. /\ At(s, "credit") /\ UNCHANGED acked
      /\ \/ Return(s) /\ UNCHANGED <<wallets, granted>>
         \/ /\ Return(s) \/ GoTo(s, "saveSuccess")
            /\ wallets' = WalletSave(m, AddInt64(b, a))
            /\ granted' = [granted EXCEPT ![m] = @ + a]
  BY <1>1 DEF CreditWallet, Executed
<1>3. /\ m \in Merchants /\ a \in Amounts \cap Nat /\ b \in Int64 /\ calls[s] \in Call
      /\ m = Issuer[calls[s].row.invoice]
      /\ HasWallet(m) /\ acked[m] <= b /\ b <= granted[m] /\ granted[m] < MaxGranted
      /\ acked[m] \in Nat /\ granted[m] \in Nat /\ (calls[s].created => b = 0)
  BY <1>1, <1>2, AtWallet DEF At, KnowsWallet
<1>4. CASE Return(s) /\ UNCHANGED <<wallets, granted>>
  BY <1>2, <1>4, IdleKnows, SolventStays DEF Inv
<1>5. CASE /\ Return(s) \/ GoTo(s, "saveSuccess")
           /\ wallets' = WalletSave(m, AddInt64(b, a))
           /\ granted' = [granted EXCEPT ![m] = @ + a]
  <2>1. AddInt64(b, a) = b + a /\ b \in Int
    <3>1. MaxGranted + a <= MaxInt64 /\ MaxGranted \in Nat /\ b \in Int
      BY <1>3, RefundAssumption DEF Roomy, Int64
    <3> QED
      BY <1>3, <3>1, Int64Assumption DEF AddInt64
  <2>2. b + a \in Int /\ b + a # NoWallet
    BY <1>3, <2>1, WalletAssumption
  <2>3. wallets' = [wallets EXCEPT ![m] = b + a] /\ wallets'[m] = b + a /\ HasWallet(m)'
    BY <1>3, <1>5, <2>1, <2>2 DEF WalletSave, HasWallet, Inv, TypeOK, WalletsTypeOK
  <2>4. /\ granted'[m] = granted[m] + a
        /\ \A n \in Merchants \ {m} : granted'[n] = granted[n]
    BY <1>3, <1>5 DEF Inv, TypeOK
  <2>5. acked'[m] <= Balance(m)' /\ Balance(m)' <= granted'[m]
    <3>1. Balance(m)' = b + a
      BY <2>3 DEF Balance
    <3> QED
      BY <1>2, <1>3, <2>1, <2>4, <3>1
  <2>6. Solvent'
    BY <1>2, <1>3, <2>2, <2>3, <2>4, <2>5, SolventMoves
  <2>7. CASE Return(s)
    BY <2>6, <2>7, IdleKnows DEF Inv
  <2>8. CASE GoTo(s, "saveSuccess")
    <3>1. PICK c \in Call : /\ calls' = [calls EXCEPT ![s] = c]
                            /\ c.step = "saveSuccess" /\ c.row = Row(s)
                            /\ c.base = calls[s].base /\ c.created = calls[s].created
      BY <1>3, <2>8, GoToGives DEF Steps
    <3>2. m = Issuer[c.row.invoice] /\ c.base = b /\ c.row.amount = a /\ (c.created => c.base = 0)
      BY <1>1, <1>3, <3>1 DEF Row
    <3>3. acked'[m] <= b /\ b <= granted'[m]
      BY <1>2, <1>3, <2>1, <2>4
    <3>4. KnowsWallet(c)'
      BY <2>3, <3>1, <3>2, <3>3 DEF KnowsWallet
    <3> QED
      BY <2>6, <3>1, <3>4, OneKnowsWallet DEF Inv
  <2> QED
    BY <1>5, <2>7, <2>8
<1> QED
  BY <1>2, <1>4, <1>5

LEMMA SaveSuccessWallet ==
  ASSUME OneAtATime, Inv, WalletsKnown, Solvent, NEW s \in Sessions, SaveSuccess(s)
  PROVE  WalletsKnown' /\ Solvent'
<1>1. PICK m, a, b : m = Merchant(s) /\ a = Row(s).amount /\ b = calls[s].base
  OBVIOUS
<1>2. /\ At(s, "saveSuccess") /\ UNCHANGED <<wallets, granted>>
      /\ \/ Return(s) /\ acked' = [acked EXCEPT ![m] = @ + a]
         \/ GoTo(s, "undo") /\ UNCHANGED acked
  BY <1>1 DEF SaveSuccess
<1>3. /\ m \in Merchants /\ a \in Nat /\ b \in Int64 /\ calls[s] \in Call
      /\ m = Issuer[calls[s].row.invoice]
      /\ HasWallet(m) /\ acked[m] <= b /\ b <= granted[m] /\ wallets[m] = b + a
      /\ acked[m] \in Nat /\ granted[m] \in Nat /\ Balance(m) <= granted[m]
      /\ (calls[s].created => b = 0)
  BY <1>1, <1>2, AtWallet DEF At, KnowsWallet, Row
<1>4. CASE Return(s) /\ acked' = [acked EXCEPT ![m] = @ + a]
  <2>1. /\ acked'[m] = acked[m] + a
        /\ \A n \in Merchants \ {m} : acked'[n] = acked[n]
    BY <1>3, <1>4 DEF Inv, TypeOK
  <2>2. Balance(m) = b + a /\ Balance(m)' = Balance(m) /\ b \in Int
    BY <1>2, <1>3 DEF Balance, HasWallet, Int64
  <2>3. Solvent'
    <3>1. acked'[m] <= Balance(m)' /\ Balance(m)' <= granted'[m]
      BY <1>2, <1>3, <2>1, <2>2
    <3>2. \A n \in Merchants \ {m} : Balance(n)' = Balance(n)
      BY <1>2 DEF Balance, HasWallet
    <3> QED
      BY <1>2, <2>1, <3>1, <3>2 DEF Solvent
  <2> QED
    BY <1>4, <2>3, IdleKnows DEF Inv
<1>5. CASE GoTo(s, "undo") /\ UNCHANGED acked
  <2>1. PICK c \in Call : /\ calls' = [calls EXCEPT ![s] = c]
                          /\ c.step = "undo" /\ c.row = Row(s)
                          /\ c.base = calls[s].base /\ c.created = calls[s].created
    BY <1>3, <1>5, GoToGives DEF Steps
  <2>2. m = Issuer[c.row.invoice] /\ c.base = b /\ (c.created => c.base = 0)
    BY <1>1, <1>3, <2>1 DEF Row
  <2>3. KnowsWallet(c)'
    BY <1>2, <1>3, <1>5, <2>1, <2>2 DEF KnowsWallet
  <2> QED
    BY <1>2, <1>5, <2>1, <2>3, OneKnowsWallet, SolventStays DEF Inv
<1> QED
  BY <1>2, <1>4, <1>5

(* The rollback goes back to a balance that covers what was answered for.  *)
LEMMA UndoWallet ==
  ASSUME OneAtATime, Inv, WalletsKnown, Solvent, NEW s \in Sessions, UndoCredit(s) \/ UndoCreated(s)
  PROVE  WalletsKnown' /\ Solvent'
<1>1. PICK m, b : /\ m = Merchant(s)
                  /\ b = IF At(s, "undo") THEN calls[s].base ELSE 0
  OBVIOUS
<1>2. /\ At(s, "undo") \/ At(s, "undoCreated")
      /\ UNCHANGED <<granted, acked>>
      /\ wallets' = wallets \/ wallets' = WalletSave(m, b)
      /\ Return(s) \/ (At(s, "undo") /\ calls[s].created /\ GoTo(s, "undoCreated"))
  BY <1>1 DEF UndoCredit, UndoCreated, At, history
<1>3. /\ m \in Merchants /\ b \in Int64 /\ calls[s] \in Call
      /\ m = Issuer[calls[s].row.invoice]
      /\ acked[m] <= b /\ b <= granted[m] /\ acked[m] \in Nat /\ granted[m] \in Nat
      /\ acked[m] <= Balance(m) /\ Balance(m) <= granted[m]
      /\ (At(s, "undo") /\ calls[s].created => b = 0)
  BY <1>1, <1>2, AtWallet, ZeroIsInt64 DEF At, KnowsWallet
<1>4. b \in Int /\ b # NoWallet
  BY <1>3, WalletAssumption DEF Int64
<1>5. wallets' = wallets \/ (HasWallet(m) /\ wallets' = [wallets EXCEPT ![m] = b])
  BY <1>2 DEF WalletSave
<1>6. Balance(m)' = Balance(m) \/ Balance(m)' = b
  BY <1>3, <1>4, <1>5 DEF Balance, HasWallet, Inv, TypeOK, WalletsTypeOK
<1>7. Solvent'
  BY <1>2, <1>3, <1>4, <1>5, <1>6, SolventMoves
<1>8. CASE Return(s)
  BY <1>7, <1>8, IdleKnows DEF Inv
<1>9. CASE At(s, "undo") /\ calls[s].created /\ GoTo(s, "undoCreated")
  <2>1. PICK c \in Call : /\ calls' = [calls EXCEPT ![s] = c]
                          /\ c.step = "undoCreated" /\ c.row = Row(s)
    BY <1>3, <1>9, GoToGives DEF Steps
  <2>2. acked'[Issuer[c.row.invoice]] = 0
    BY <1>2, <1>3, <1>9, <2>1 DEF Row
  <2>3. KnowsWallet(c)'
    BY <2>1, <2>2 DEF KnowsWallet
  <2> QED
    BY <1>7, <2>1, <2>3, OneKnowsWallet DEF Inv
<1> QED
  BY <1>2, <1>8, <1>9

LEMMA StepWallet ==
  OneAtATime /\ Roomy /\ Inv /\ WalletsKnown /\ Solvent /\ [Next]_vars => WalletsKnown' /\ Solvent'
<1> SUFFICES ASSUME OneAtATime, Roomy, Inv, WalletsKnown, Solvent, [Next]_vars
             PROVE  WalletsKnown' /\ Solvent'
  OBVIOUS
<1>1. ASSUME NEW s \in Sessions, Ask(s) \/ Serve(s) PROVE WalletsKnown' /\ Solvent'
  BY <1>1, AskWallet, RequestingWallet, FindWalletWallet, CreateWalletWallet, CreditWalletWallet,
     SaveSuccessWallet, UndoWallet DEF Serve
<1>2. CASE Invoicing
  BY <1>2, InvoicingKeepsPaid, OthersWallet
<1>3. CASE TimePasses \/ UNCHANGED vars
  BY <1>3, OthersWallet DEF TimePasses, vars, history
<1>4. CASE Crash
  <2>1. UNCHANGED <<wallets, granted, acked>> /\ calls' = [s \in Sessions |-> Idle]
    BY <1>4 DEF Crash, history
  <2> QED
    BY <2>1, SolventStays DEF WalletsKnown, KnowsWallet, Idle
<1> QED
  BY <1>1, <1>2, <1>3, <1>4 DEF Next, Quiet

(* With requests one after the other and room for every credit in an       *)
(* int64, a wallet always covers what refunds were answered 200 for,       *)
(* whatever fails, however often an answer is lost and wherever the server *)
(* stops.                                                                  *)
THEOREM SerialRefundsCovered ==
  ASSUME OneAtATime, Roomy
  PROVE  Spec => []AckedIsCovered
<1>1. Init => WalletsKnown /\ Solvent
  BY DEF Init, WalletsKnown, KnowsWallet, Idle, Solvent, Balance, HasWallet
<1>2. Inv /\ WalletsKnown /\ Solvent /\ [Next]_vars => WalletsKnown' /\ Solvent'
  BY StepWallet
<1>3. Solvent => AckedIsCovered
  BY DEF Solvent, AckedIsCovered
<1> QED
  BY <1>1, <1>2, <1>3, InvariantHolds, PTL DEF Spec
=============================================================================
