--------------------------- MODULE PaymentsProofs ---------------------------
(***************************************************************************)
(* Proofs about Payments for every value of its constants.  The inductive  *)
(* invariant Inv says, besides the types, which rows the call of a request *)
(* may save at its step (Fits): a PAID one only once an intent of the      *)
(* invoice was stored as SUCCESS, an EXPIRED one only once it is overdue,  *)
(* and always of the invoice its intent is for.  SerialInv is what the only*)
(* request under way knows of the tables, whatever failed before it.       *)
(***************************************************************************)
EXTENDS Payments, DatabaseProofs

Settling == {"decide", "saveIntent", "saveInvoice", "undoIntent", "undoInvoice"}
Outcomes == {"succeed", "fail", "overdue"}
Price == Amounts \cap Amount64

Active(s) == ~At(s, "idle") /\ ~At(s, "list")

(* Invoice i may be stored as this row.                                    *)
Right(i, row) ==
  /\ row.status = "PAID" => \E p \in confirmed : intents[p].invoice = i
  /\ row.status = "EXPIRED" => \/ row.due # 0 /\ now > row.due
                               \/ \E p \in IntentsOf(i) : now > intents[p].due

(* The row becomes right when the intent is saved before it.               *)
Confirming(c) == c.step = "saveIntent" /\ c.status = "SUCCESS" /\ c.row.status = "PAID"

Fits(c) ==
  /\ c.step \in Settling => c.kind \in Outcomes /\ c.loaded \in Invoice /\ Right(c.id, c.loaded)
  /\ c.step \in Settling \cup {"expire", "saveUpdate"} => c.row \in Invoice
  /\ c.step \in {"expire", "saveUpdate", "decide", "saveInvoice"} => Right(c.id, c.row)
  /\ c.step = "saveIntent" => Right(c.id, c.row) \/ Confirming(c)
  /\ c.kind \in Outcomes => c.intent \in IntentsOf(c.id)
  /\ c.kind \in {"checkUpdate", "update"} /\ c.step \in {"load", "expire"} => c.ask.amount \in Price
  /\ c.step = "insertIntent" => c.kind = "pay"
  /\ c.kind = "pay" => c.intent \in IntentIds \ Opened

CallsFit == \A s \in Sessions : Active(s) => Fits(calls[s])

Paying(s) == Active(s) /\ calls[s].kind = "pay"

(* No two requests open an intent with the same id.                        *)
IdsOwned ==
  \A s, t \in Sessions : s # t /\ Paying(s) /\ Paying(t) => calls[s].intent # calls[t].intent

InvoicesRight == \A i \in InvoiceIds : InvoiceExists(i) => Right(i, invoices[i])

Tables == InvoicesRight /\ IntentHasInvoice /\ confirmed \subseteq Opened

Inv == TypeOK /\ CallsFit /\ IdsOwned /\ Tables

-----------------------------------------------------------------------------
(* Types.                                                                  *)

LEMMA NoInvoiceIsNoRow == NoInvoice \notin Invoice
BY InvoiceAssumption DEF Invoice

LEMMA NoIntentIsNoRow == NoIntent \notin Intent
BY PaymentAssumption DEF Intent

LEMMA InvoiceRow ==
  ASSUME TypeOK, NEW i \in InvoiceIds, InvoiceExists(i)
  PROVE  invoices[i] \in Invoice
BY DEF TypeOK, InvoicesTypeOK, InvoiceExists

LEMMA OpenedRow ==
  ASSUME TypeOK, NEW p \in Opened
  PROVE  p \in IntentIds /\ intents[p] \in Intent
BY DEF TypeOK, Opened

LEMMA CallType ==
  ASSUME TypeOK, NEW s \in Sessions, Active(s)
  PROVE  calls[s] \in Call
BY DEF TypeOK, Active, At, Idle, Listing

LEMMA StepIsActive ==
  ASSUME NEW s \in Sessions, NEW step \in Steps, At(s, step)
  PROVE  Active(s)
BY DEF Active, At, Steps

LEMMA ExpiredRow ==
  ASSUME NEW row \in Invoice
  PROVE  /\ Expired(row) \in Invoice /\ Expired(row).status = "EXPIRED"
         /\ Expired(row).due = row.due
BY DEF Expired, Invoice, InvoiceStatus

LEMMA SaveType ==
  ASSUME TypeOK, NEW i \in InvoiceIds, NEW row \in Invoice
  PROVE  InvoiceSave(i, row) \in [InvoiceIds -> Invoice \cup {NoInvoice}]
BY DEF TypeOK, InvoicesTypeOK, InvoiceSave

-----------------------------------------------------------------------------
(* What a step leaves alone, so that rows that were right stay so.         *)

Grows ==
  /\ now <= now' /\ confirmed \subseteq confirmed' /\ Opened \subseteq Opened'
  /\ \A p \in Opened : intents'[p].invoice = intents[p].invoice /\ intents'[p].due = intents[p].due

LEMMA RightStays ==
  ASSUME TypeOK, now' \in Int, confirmed \subseteq Opened, Grows,
         NEW i \in InvoiceIds, NEW row \in Invoice, Right(i, row)
  PROVE  Right(i, row)'
<1>1. now \in Int /\ now' \in Int /\ now <= now' /\ row.due \in Int
  <2>1. row.due \in Dues /\ Dues \subseteq Int
    BY InvoiceAssumption DEF Invoice
  <2>2. now \in Int
    BY DEF TypeOK, InvoicesTypeOK
  <2> QED
    BY <2>1, <2>2 DEF Grows
<1>2. ASSUME NEW p \in IntentsOf(i), now > intents[p].due PROVE p \in IntentsOf(i)' /\ now' > intents'[p].due
  <2>1. p \in Opened /\ intents[p].due \in Int /\ intents[p].invoice = i
    BY OpenedRow DEF IntentsOf, Intent
  <2>2. p \in Opened' /\ intents'[p].invoice = i /\ intents'[p].due = intents[p].due
    BY <2>1 DEF Grows
  <2> QED
    BY <1>1, <1>2, <2>1, <2>2 DEF IntentsOf
<1>3. row.status = "EXPIRED" => \/ row.due # 0 /\ now' > row.due
                                \/ \E p \in IntentsOf(i)' : now' > intents'[p].due
  BY <1>1, <1>2 DEF Right
<1>4. row.status = "PAID" => \E p \in confirmed' : intents'[p].invoice = i
  BY DEF Right, Grows
<1> QED
  BY <1>3, <1>4 DEF Right

(* The calls beside s fit as before.                                       *)
Keeps(s) ==
  /\ Grows
  /\ \A t \in Sessions \ {s} : Paying(t) => calls[t].intent \notin Opened'

LEMMA FitsStays ==
  ASSUME TypeOK, TypeOK', confirmed \subseteq Opened, Grows, NEW c \in Call, Fits(c),
         c.kind = "pay" => c.intent \notin Opened'
  PROVE  Fits(c)'
<1>1. c.id \in InvoiceIds /\ c.intent \in IntentIds \cup {NoIntent} /\ now' \in Int
  BY DEF Call, TypeOK, InvoicesTypeOK
<1>2. c.step \in Settling => Right(c.id, c.loaded)'
  BY <1>1, RightStays DEF Fits
<1>3. c.step \in {"expire", "saveUpdate", "decide", "saveInvoice"} => Right(c.id, c.row)'
  BY <1>1, RightStays DEF Fits, Settling
<1>4. c.step = "saveIntent" => Right(c.id, c.row)' \/ Confirming(c)
  BY <1>1, RightStays DEF Fits, Settling
<1>5. c.kind \in Outcomes => c.intent \in IntentsOf(c.id)'
  BY DEF Fits, Grows, IntentsOf
<1> QED
  BY <1>2, <1>3, <1>4, <1>5 DEF Fits, Confirming

LEMMA MoveInv ==
  ASSUME Inv, TypeOK', Tables', NEW s \in Sessions, Keeps(s), NEW c \in Call,
         calls' = [calls EXCEPT ![s] = c], Fits(c)',
         c.kind = "pay" => \A t \in Sessions \ {s} : Paying(t) => calls[t].intent # c.intent
  PROVE  Inv'
<1> USE DEF Inv
<1>1. calls'[s] = c /\ \A t \in Sessions \ {s} : calls'[t] = calls[t]
  BY DEF TypeOK
<1>2. Fits(calls[s])'
  BY <1>1 DEF Fits, Right, Confirming, IntentsOf, Opened
<1>3. ASSUME NEW t \in Sessions \ {s}, Active(t)' PROVE Fits(calls[t])'
  <2>1. Active(t) /\ calls[t] \in Call
    BY <1>1, <1>3, CallType DEF Active, At
  <2>2. PICK d \in Call : d = calls[t]
    BY <2>1
  <2>3. Fits(d)
    BY <2>1, <2>2 DEF CallsFit
  <2>4. Fits(d)'
    BY <2>1, <2>2, <2>3, FitsStays DEF Keeps, Paying, Tables
  <2>5. calls'[t] = d
    BY <1>1, <2>2
  <2> QED
    BY <2>4, <2>5 DEF Fits, Right, Confirming, IntentsOf, Opened
<1>4. CallsFit'
  BY <1>2, <1>3 DEF CallsFit
<1>5. IdsOwned'
  BY <1>1 DEF IdsOwned, Paying, Active, At
<1> QED
  BY <1>4, <1>5

LEMMA RestInv ==
  ASSUME Inv, TypeOK', Tables', NEW s \in Sessions, Keeps(s), NEW c,
         calls' = [calls EXCEPT ![s] = c], ~Active(s)'
  PROVE  Inv'
<1> USE DEF Inv
<1>1. \A t \in Sessions \ {s} : calls'[t] = calls[t]
  BY DEF TypeOK
<1>2. ASSUME NEW t \in Sessions, Active(t)' PROVE Fits(calls[t])'
  <2>0. t # s
    BY <1>2
  <2>1. Active(t) /\ calls[t] \in Call
    BY <1>1, <1>2, <2>0, CallType DEF Active, At
  <2>2. PICK d \in Call : d = calls[t]
    BY <2>1
  <2>3. Fits(d)
    BY <2>1, <2>2 DEF CallsFit
  <2>4. Fits(d)'
    BY <2>0, <2>1, <2>2, <2>3, FitsStays DEF Keeps, Paying, Tables
  <2>5. calls'[t] = d
    BY <1>1, <2>0, <2>2
  <2> QED
    BY <2>4, <2>5 DEF Fits, Right, Confirming, IntentsOf, Opened
<1>3. CallsFit'
  BY <1>2 DEF CallsFit
<1>4. IdsOwned'
  BY <1>1 DEF IdsOwned, Paying, Active, At
<1> QED
  BY <1>3, <1>4

-----------------------------------------------------------------------------
(* The steps of one session that save no intent.                           *)

Others(s, p) == \A t \in Sessions \ {s} : Paying(t) => calls[t].intent # p

(* The session rests, or goes on with a call that fits.                    *)
Goes(s) ==
  \/ \E c \in Listing \cup {Idle} : calls' = [calls EXCEPT ![s] = c]
  \/ \E c \in Call : /\ calls' = [calls EXCEPT ![s] = c] /\ Fits(c)
                     /\ c.kind = "pay" => Others(s, c.intent)

InvoicesKept ==
  /\ invoices' \in [InvoiceIds -> Invoice \cup {NoInvoice}]
  /\ InvoicesRight' /\ IntentHasInvoice'

LEMMA RightSame ==
  ASSUME UNCHANGED <<now, intents, confirmed>>, NEW i, NEW row
  PROVE  Right(i, row)' <=> Right(i, row)
BY DEF Right, IntentsOf, Opened

LEMMA FitsSame ==
  ASSUME UNCHANGED <<now, intents, confirmed>>, NEW c \in Call, Fits(c)
  PROVE  Fits(c)'
<1>1. IntentsOf(c.id)' = IntentsOf(c.id) /\ Opened' = Opened
  BY DEF IntentsOf, Opened
<1>2. /\ Right(c.id, c.loaded)' <=> Right(c.id, c.loaded)
      /\ Right(c.id, c.row)' <=> Right(c.id, c.row)
  BY RightSame
<1> QED
  BY <1>1, <1>2 DEF Fits, Confirming

LEMMA GoesInv ==
  ASSUME Inv, NEW s \in Sessions, Goes(s), InvoicesKept, faults' \in FaultsSoFar,
         answered' \subseteq IntentIds, paid' \subseteq answered', UNCHANGED <<issued, now, intents, confirmed>>
  PROVE  Inv'
<1> USE DEF Inv
<1>1. Opened' = Opened
  BY DEF Opened
<1>2. Tables' /\ Keeps(s)
  <2>1. \A t \in Sessions : Paying(t) => calls[t].intent \notin Opened
    BY DEF CallsFit, Fits, Paying
  <2>2. now <= now'
    BY DEF TypeOK, InvoicesTypeOK
  <2> QED
    BY <1>1, <2>1, <2>2 DEF Tables, InvoicesKept, Keeps, Grows
<1>3. CASE \E c \in Listing \cup {Idle} : calls' = [calls EXCEPT ![s] = c]
  <2>1. PICK c \in Listing \cup {Idle} : calls' = [calls EXCEPT ![s] = c]
    BY <1>3
  <2>2. TypeOK'
    BY <2>1 DEF TypeOK, InvoicesTypeOK, InvoicesKept
  <2>3. calls'[s] = c
    BY <2>1 DEF TypeOK
  <2>4. ~Active(s)'
    BY <2>1, <2>3 DEF Active, At, Idle, Listing
  <2> QED
    BY <1>2, <2>1, <2>2, <2>4, RestInv
<1>4. CASE \E c \in Call : /\ calls' = [calls EXCEPT ![s] = c] /\ Fits(c)
                           /\ c.kind = "pay" => Others(s, c.intent)
  <2>1. PICK c \in Call : /\ calls' = [calls EXCEPT ![s] = c] /\ Fits(c)
                          /\ c.kind = "pay" => Others(s, c.intent)
    BY <1>4
  <2>2. calls' = [calls EXCEPT ![s] = c]
    BY <2>1
  <2>3. TypeOK'
    BY <2>2 DEF TypeOK, InvoicesTypeOK, InvoicesKept
  <2>4. Fits(c)'
    BY <2>1, FitsSame
  <2>5. c.kind = "pay" => \A t \in Sessions \ {s} : Paying(t) => calls[t].intent # c.intent
    BY <2>1 DEF Others
  <2> HIDE DEF Inv
  <2> QED
    BY <1>2, <2>2, <2>3, <2>4, <2>5, MoveInv
<1> QED
  BY <1>3, <1>4 DEF Goes

LEMMA ReturnGoes ==
  ASSUME NEW s \in Sessions, Return(s)
  PROVE  Goes(s)
BY DEF Return, Become, Goes

LEMMA StayKept ==
  ASSUME Inv, UNCHANGED <<invoices, now, intents, confirmed>>
  PROVE  InvoicesKept
<1>1. Opened' = Opened
  BY DEF Opened
<1> QED
  BY <1>1 DEF Inv, TypeOK, InvoicesTypeOK, Tables, InvoicesKept, InvoicesRight, IntentHasInvoice,
              InvoiceExists, Right, IntentsOf

LEMMA SaveKept ==
  ASSUME Inv, UNCHANGED <<now, intents, confirmed>>, NEW i \in InvoiceIds, NEW row \in Invoice,
         Right(i, row), invoices' = InvoiceSave(i, row)
  PROVE  InvoicesKept
<1>1. invoices' \in [InvoiceIds -> Invoice \cup {NoInvoice}]
  BY SaveType DEF Inv
<1>2. Opened' = Opened
  BY DEF Opened
<1>3. row # NoInvoice
  BY NoInvoiceIsNoRow
<1>4. \A j \in InvoiceIds : InvoiceExists(j)' <=> InvoiceExists(j)
  BY <1>3 DEF Inv, TypeOK, InvoicesTypeOK, InvoiceSave, InvoiceExists
<1>5. \A j \in InvoiceIds : InvoiceExists(j)' => invoices'[j] = invoices[j] \/ (j = i /\ invoices'[j] = row)
  BY DEF Inv, TypeOK, InvoicesTypeOK, InvoiceSave, InvoiceExists
<1>6. InvoicesRight'
  <2> SUFFICES ASSUME NEW j \in InvoiceIds, InvoiceExists(j)' PROVE Right(j, invoices[j])'
    BY DEF InvoicesRight
  <2>1. PICK d : d = invoices'[j]
    OBVIOUS
  <2>2. Right(j, d)
    BY <1>4, <1>5, <2>1 DEF Inv, Tables, InvoicesRight
  <2> QED
    BY <1>2, <2>1, <2>2 DEF Right, IntentsOf
<1>7. IntentHasInvoice'
  BY <1>2, <1>4, OpenedRow DEF Inv, Tables, IntentHasInvoice, Intent
<1> QED
  BY <1>1, <1>6, <1>7 DEF InvoicesKept

LEMMA DeleteKept ==
  ASSUME Inv, UNCHANGED <<now, intents, confirmed>>, NEW i \in InvoiceIds,
         invoices' = InvoiceDeleteRestricted(i)
  PROVE  InvoicesKept
<1>1. CASE invoices' = invoices
  BY <1>1, StayKept
<1>2. CASE IntentsOf(i) = {} /\ invoices' = [invoices EXCEPT ![i] = NoInvoice]
  <2>1. invoices' \in [InvoiceIds -> Invoice \cup {NoInvoice}]
    BY <1>2 DEF Inv, TypeOK, InvoicesTypeOK
  <2>2. Opened' = Opened
    BY DEF Opened
  <2>3. \A j \in InvoiceIds : /\ InvoiceExists(j)' => InvoiceExists(j) /\ invoices'[j] = invoices[j]
                              /\ j # i => invoices'[j] = invoices[j]
    BY <1>2 DEF Inv, TypeOK, InvoicesTypeOK, InvoiceExists
  <2>4. InvoicesRight'
    <3> SUFFICES ASSUME NEW j \in InvoiceIds, InvoiceExists(j)' PROVE Right(j, invoices[j])'
      BY DEF InvoicesRight
    <3>1. PICK d : d = invoices'[j]
      OBVIOUS
    <3>2. InvoiceExists(j) /\ invoices[j] = d
      BY <2>3, <3>1
    <3>3. Right(j, d)
      BY <3>2 DEF Inv, Tables, InvoicesRight
    <3> QED
      BY <2>2, <3>1, <3>3 DEF Right, IntentsOf
  <2>5. IntentHasInvoice'
    <3> SUFFICES ASSUME NEW p \in Opened PROVE InvoiceExists(intents[p].invoice)'
      BY <2>2 DEF IntentHasInvoice
    <3>1. intents[p].invoice \in InvoiceIds /\ intents[p].invoice # i
      BY <1>2, OpenedRow DEF IntentsOf, Inv, Intent
    <3>2. InvoiceExists(intents[p].invoice)
      BY DEF Inv, Tables, IntentHasInvoice
    <3> QED
      BY <2>3, <3>1, <3>2 DEF InvoiceExists
  <2> QED
    BY <2>1, <2>4, <2>5 DEF InvoicesKept
<1> QED
  BY <1>1, <1>2 DEF InvoiceDeleteRestricted, InvoiceDelete

-----------------------------------------------------------------------------
(* The actions, one lemma each.                                            *)

LEMMA OpenInvoiceInv ==
  ASSUME Inv, NEW s \in Sessions, NEW kind \in {"get", "checkUpdate", "checkDelete", "pay"},
         NEW i \in InvoiceIds, NEW p \in IntentIds \cup {NoIntent}, NEW a \in Amounts \cup {0}, NEW d \in Dues,
         OpenInvoice(s, kind, i, p, [amount |-> a, due |-> d]),
         kind = "pay" => p \in Spare, kind = "checkUpdate" => a \in Price
  PROVE  Inv'
<1> DEFINE c == [step |-> "load", kind |-> kind, id |-> i, loaded |-> NoInvoice, row |-> NoInvoice,
                 intent |-> p, due |-> 0, was |-> "PENDING", status |-> "PENDING",
                 ask |-> [amount |-> a, due |-> d]]
<1>1. c \in Call
  BY DEF Call, Steps, Kinds, IntentStatus
<1>2. c.step = "load" /\ c.kind = kind /\ c.intent = p /\ c.ask.amount = a
  OBVIOUS
<1>3. calls' = [calls EXCEPT ![s] = c]
  BY DEF OpenInvoice, Begin, Become
<1>4. UNCHANGED <<faults, invoices, issued, now, intents, confirmed, answered, paid>>
  BY DEF OpenInvoice
<1> HIDE DEF c
<1>5. kind = "pay" => p \in IntentIds \ Opened /\ Others(s, p)
  BY DEF Spare, Others, Paying, Active
<1>6. Fits(c)
  BY <1>2, <1>5 DEF Fits, Settling, Outcomes
<1>7. Goes(s)
  BY <1>1, <1>2, <1>3, <1>5, <1>6 DEF Goes
<1> QED
  BY <1>4, <1>7, StayKept, GoesInv DEF Inv, TypeOK

LEMMA SimulateInv ==
  ASSUME Inv, NEW s \in Sessions, NEW p \in IntentIds, NEW kind \in {"succeed", "fail"}, Simulate(s, p, kind)
  PROVE  Inv'
<1> DEFINE i == intents[p].invoice
           st == intents[p].status
           c == [step |-> "load", kind |-> kind, id |-> i, loaded |-> NoInvoice, row |-> NoInvoice,
                 intent |-> p, due |-> 0, was |-> st, status |-> st, ask |-> NoAsk]
<1>1. p \in Opened /\ i \in InvoiceIds /\ st \in IntentStatus
  BY OpenedRow DEF Simulate, Inv, Intent
<1>2. c \in Call
  BY <1>1, InvoiceAssumption DEF Call, Steps, Kinds, NoAsk
<1>3. c.step = "load" /\ c.kind = kind /\ c.intent = p /\ c.id = i
  OBVIOUS
<1>4. calls' = [calls EXCEPT ![s] = c]
  BY DEF Simulate, Begin, Become
<1>5. UNCHANGED <<faults, invoices, issued, now, intents, confirmed, answered, paid>>
  BY DEF Simulate
<1> HIDE DEF c
<1>6. Fits(c)
  BY <1>1, <1>3 DEF Fits, Settling, Outcomes, IntentsOf
<1>7. Goes(s)
  BY <1>2, <1>3, <1>4, <1>6 DEF Goes
<1> QED
  BY <1>5, <1>7, StayKept, GoesInv DEF Inv, TypeOK

(* A page of rows is of the type Listing.                                  *)
LEMMA PageType ==
  ASSUME NEW S \in SUBSET InvoiceIds, NEW f \in [S -> Invoice]
  PROVE  [step |-> "list", page |-> f] \in Listing
BY DEF Listing

LEMMA ListInvoicesInv ==
  ASSUME Inv, NEW s \in Sessions, NEW page \in SUBSET InvoiceIds, ListInvoices(s, page)
  PROVE  Inv'
<1>1. [i \in page |-> invoices[i]] \in [page -> Invoice]
  BY InvoiceRow DEF ListInvoices, Inv
<1>2. Goes(s)
  BY <1>1, PageType DEF ListInvoices, Become, Goes
<1> QED
  BY <1>2, StayKept, GoesInv DEF ListInvoices, Inv, TypeOK

LEMMA RefreshListedInv ==
  ASSUME Inv, NEW s \in Sessions, NEW i \in InvoiceIds, RefreshListed(s, i)
  PROVE  Inv'
<1> DEFINE page == calls[s].page
<1>1. At(s, "list") /\ i \in DOMAIN page /\ UNCHANGED <<issued, now, intents, confirmed, answered, paid>>
  BY DEF RefreshListed
<1>2. PICK r \in Replies :
        /\ Reply(r)
        /\ invoices' = invoices \/ (Overdue(page[i]) /\ invoices' = InvoiceSave(i, Expired(page[i])))
        /\ \/ Become(s, [step |-> "list", page |-> [j \in DOMAIN page \ {i} |-> page[j]]])
           \/ Return(s)
  BY DEF RefreshListed
<1>3. calls[s] \in Listing
  BY <1>1 DEF Inv, TypeOK, At, Idle, Call, Steps
<1>4. PICK S \in SUBSET InvoiceIds : page \in [S -> Invoice]
  BY <1>3 DEF Listing
<1>5. page[i] \in Invoice
  BY <1>1, <1>4
<1>6. Goes(s)
  <2>1. DOMAIN page \ {i} \in SUBSET InvoiceIds
    BY <1>4
  <2>2. [j \in DOMAIN page \ {i} |-> page[j]] \in [DOMAIN page \ {i} -> Invoice]
    BY <1>4
  <2> QED
    BY <1>2, <2>1, <2>2, PageType, ReturnGoes DEF Become, Goes
<1>7. InvoicesKept
  <2>1. CASE invoices' = invoices
    BY <1>1, <2>1, StayKept
  <2>2. CASE Overdue(page[i]) /\ invoices' = InvoiceSave(i, Expired(page[i]))
    <3>1. Right(i, Expired(page[i]))
      BY <1>5, <2>2, ExpiredRow DEF Overdue, Right
    <3> QED
      BY <1>1, <1>5, <2>2, <3>1, ExpiredRow, SaveKept
  <2> QED
    BY <1>2, <2>1, <2>2
<1> QED
  BY <1>1, <1>2, <1>6, <1>7, ReplyType, GoesInv DEF Inv, TypeOK

-----------------------------------------------------------------------------
(* A request that holds its invoice goes on as its kind says.              *)

LEMMA CallFits ==
  ASSUME Inv, NEW s \in Sessions, NEW step \in Steps, At(s, step)
  PROVE  /\ Active(s) /\ calls[s] \in Call /\ Fits(calls[s])
         /\ calls[s].kind = "pay" => Others(s, calls[s].intent)
<1>1. Active(s) /\ calls[s] \in Call
  BY StepIsActive, CallType DEF Inv
<1> QED
  BY <1>1 DEF Inv, CallsFit, IdsOwned, Others, Paying

LEMMA NewDue ==
  ASSUME TypeOK
  PROVE  now + Window \in Nat
BY PaymentAssumption, InvoiceAssumption DEF TypeOK, InvoicesTypeOK

LEMMA ProceedGoes ==
  ASSUME Inv, NEW s \in Sessions, At(s, "load") \/ At(s, "expire"),
         NEW row \in Invoice, Right(calls[s].id, row), Proceed(s, row)
  PROVE  Goes(s)
<1> DEFINE c == [calls[s] EXCEPT !.row = NoInvoice]
<1>1. /\ calls[s] \in Call /\ Fits(calls[s])
      /\ calls[s].kind = "pay" => Others(s, calls[s].intent)
  BY CallFits DEF Steps
<1>2. /\ c \in Call /\ c.kind = calls[s].kind /\ c.id = calls[s].id /\ c.intent = calls[s].intent
      /\ c.ask = calls[s].ask /\ c.row = NoInvoice
  BY <1>1 DEF Call
<1>3. c.kind \in {"checkUpdate", "update"} => c.ask.amount \in Price
  BY <1>1, <1>2 DEF Fits, At
<1>4. c.kind \in Outcomes => c.intent \in IntentsOf(c.id)
  BY <1>1, <1>2 DEF Fits
<1>5. c.kind = "pay" => c.intent \in IntentIds \ Opened /\ Others(s, c.intent)
  BY <1>1, <1>2 DEF Fits
<1>6. \/ Return(s)
      \/ /\ c.kind = "checkUpdate"
         /\ Become(s, [c EXCEPT !.step = "load", !.kind = "update",
                                !.ask.due = IF @ = 0 THEN row.due ELSE @])
      \/ c.kind = "checkDelete" /\ Become(s, [c EXCEPT !.step = "load", !.kind = "delete"])
      \/ /\ c.kind = "update" /\ row.status = "PENDING"
         /\ Become(s, [c EXCEPT !.step = "saveUpdate", !.ask = NoAsk,
                                !.row = [row EXCEPT !.amount = c.ask.amount, !.due = c.ask.due]])
      \/ c.kind = "delete" /\ Become(s, [c EXCEPT !.step = "delete"])
      \/ c.kind = "pay" /\ Become(s, [c EXCEPT !.step = "insertIntent", !.due = now + Window])
      \/ /\ c.kind \in {"succeed", "fail"}
         /\ Become(s, [c EXCEPT !.step = "decide", !.loaded = row, !.row = row])
  BY DEF Proceed
<1>7. Right(c.id, row)
  BY <1>2
<1> HIDE DEF c
<1>8. CASE /\ c.kind = "checkUpdate"
           /\ Become(s, [c EXCEPT !.step = "load", !.kind = "update",
                                  !.ask.due = IF @ = 0 THEN row.due ELSE @])
  <2> DEFINE d == [c EXCEPT !.step = "load", !.kind = "update",
                            !.ask.due = IF @ = 0 THEN row.due ELSE @]
  <2>1. d \in Call /\ d.step = "load" /\ d.kind = "update" /\ d.ask.amount = c.ask.amount
    BY <1>2 DEF Call, Steps, Kinds, Invoice
  <2>2. calls' = [calls EXCEPT ![s] = d]
    BY <1>8 DEF Become
  <2> HIDE DEF d
  <2>3. Fits(d)
    BY <1>3, <1>8, <2>1 DEF Fits, Settling, Outcomes
  <2> QED
    BY <2>1, <2>2, <2>3 DEF Goes
<1>9. CASE c.kind = "checkDelete" /\ Become(s, [c EXCEPT !.step = "load", !.kind = "delete"])
  <2> DEFINE d == [c EXCEPT !.step = "load", !.kind = "delete"]
  <2>1. d \in Call /\ d.step = "load" /\ d.kind = "delete"
    BY <1>2 DEF Call, Steps, Kinds
  <2>2. calls' = [calls EXCEPT ![s] = d]
    BY <1>9 DEF Become
  <2> HIDE DEF d
  <2>3. Fits(d)
    BY <2>1 DEF Fits, Settling, Outcomes
  <2> QED
    BY <2>1, <2>2, <2>3 DEF Goes
<1>10. CASE /\ c.kind = "update" /\ row.status = "PENDING"
            /\ Become(s, [c EXCEPT !.step = "saveUpdate", !.ask = NoAsk,
                                   !.row = [row EXCEPT !.amount = c.ask.amount, !.due = c.ask.due]])
  <2> DEFINE new == [row EXCEPT !.amount = c.ask.amount, !.due = c.ask.due]
             d == [c EXCEPT !.step = "saveUpdate", !.ask = NoAsk, !.row = new]
  <2>1. c.ask.amount \in Price /\ c.ask.due \in Dues
    BY <1>2, <1>3, <1>10 DEF Call
  <2>2. new \in Invoice /\ new.status = "PENDING"
    BY <1>10, <2>1 DEF Invoice, Price
  <2> HIDE DEF new
  <2>3. d \in Call /\ d.step = "saveUpdate" /\ d.kind = "update" /\ d.row = new
    BY <1>2, <1>10, <2>2, InvoiceAssumption DEF Call, Steps, NoAsk
  <2>4. calls' = [calls EXCEPT ![s] = d]
    BY <1>10 DEF Become, new
  <2> HIDE DEF d
  <2>5. Fits(d)
    BY <2>2, <2>3 DEF Fits, Right, Settling, Outcomes
  <2> QED
    BY <2>3, <2>4, <2>5 DEF Goes
<1>11. CASE c.kind = "delete" /\ Become(s, [c EXCEPT !.step = "delete"])
  <2> DEFINE d == [c EXCEPT !.step = "delete"]
  <2>1. d \in Call /\ d.step = "delete" /\ d.kind = "delete"
    BY <1>2, <1>11 DEF Call, Steps
  <2>2. calls' = [calls EXCEPT ![s] = d]
    BY <1>11 DEF Become
  <2> HIDE DEF d
  <2>3. Fits(d)
    BY <2>1 DEF Fits, Settling, Outcomes
  <2> QED
    BY <2>1, <2>2, <2>3 DEF Goes
<1>12. CASE c.kind = "pay" /\ Become(s, [c EXCEPT !.step = "insertIntent", !.due = now + Window])
  <2> DEFINE d == [c EXCEPT !.step = "insertIntent", !.due = now + Window]
  <2>1. d \in Call /\ d.step = "insertIntent" /\ d.kind = "pay" /\ d.intent = c.intent
    BY <1>2, <1>12, NewDue DEF Call, Steps, Inv
  <2>2. calls' = [calls EXCEPT ![s] = d]
    BY <1>12 DEF Become
  <2> HIDE DEF d
  <2>3. Fits(d)
    BY <1>5, <1>12, <2>1 DEF Fits, Settling, Outcomes
  <2> QED
    BY <1>5, <1>12, <2>1, <2>2, <2>3 DEF Goes
<1>13. CASE /\ c.kind \in {"succeed", "fail"}
            /\ Become(s, [c EXCEPT !.step = "decide", !.loaded = row, !.row = row])
  <2> DEFINE d == [c EXCEPT !.step = "decide", !.loaded = row, !.row = row]
  <2>1. /\ d \in Call /\ d.step = "decide" /\ d.kind = c.kind /\ d.intent = c.intent
        /\ d.id = c.id /\ d.row = row /\ d.loaded = row
    BY <1>2 DEF Call, Steps
  <2>2. calls' = [calls EXCEPT ![s] = d]
    BY <1>13 DEF Become
  <2> HIDE DEF d
  <2>3. Fits(d)
    BY <1>4, <1>7, <1>13, <2>1 DEF Fits, Settling, Outcomes
  <2> QED
    BY <1>13, <2>1, <2>2, <2>3 DEF Goes
<1> QED
  BY <1>6, <1>8, <1>9, <1>10, <1>11, <1>12, <1>13, ReturnGoes

LEMMA LoadInvoiceInv ==
  ASSUME Inv, NEW s \in Sessions, LoadInvoice(s)
  PROVE  Inv'
<1> DEFINE i == calls[s].id
           row == invoices[i]
<1>1. At(s, "load") /\ UNCHANGED <<invoices, issued, now, intents, confirmed, answered, paid>>
  BY DEF LoadInvoice
<1>2. PICK r \in Replies :
        /\ Reply(r)
        /\ \/ Return(s)
           \/ row # NoInvoice /\ ~Overdue(row) /\ Proceed(s, row)
           \/ /\ row # NoInvoice /\ Overdue(row)
              /\ Become(s, [calls[s] EXCEPT !.step = "expire", !.row = Expired(row)])
  BY DEF LoadInvoice
<1>3. /\ calls[s] \in Call /\ Fits(calls[s]) /\ i \in InvoiceIds
      /\ calls[s].kind = "pay" => Others(s, calls[s].intent)
  BY <1>1, CallFits DEF Steps, Call
<1>4. row # NoInvoice => row \in Invoice /\ Right(i, row)
  BY <1>3, InvoiceRow DEF InvoiceExists, Inv, Tables, InvoicesRight
<1> HIDE DEF row
<1>5. Goes(s)
  <2>1. CASE Return(s)
    BY <2>1, ReturnGoes
  <2>2. CASE row # NoInvoice /\ ~Overdue(row) /\ Proceed(s, row)
    BY <1>1, <1>4, <2>2, ProceedGoes
  <2>3. CASE /\ row # NoInvoice /\ Overdue(row)
             /\ Become(s, [calls[s] EXCEPT !.step = "expire", !.row = Expired(row)])
    <3> DEFINE new == Expired(row)
               d == [calls[s] EXCEPT !.step = "expire", !.row = new]
    <3>1. new \in Invoice /\ Right(i, new)
      BY <1>4, <2>3, ExpiredRow DEF Right, Overdue
    <3> HIDE DEF new
    <3>2. /\ d \in Call /\ d.step = "expire" /\ d.row = new /\ d.id = i
          /\ d.kind = calls[s].kind /\ d.intent = calls[s].intent /\ d.ask = calls[s].ask
      BY <1>3, <3>1 DEF Call, Steps
    <3>3. calls' = [calls EXCEPT ![s] = d]
      BY <2>3 DEF Become, new
    <3> HIDE DEF d, i
    <3>4. Fits(d)
      BY <1>1, <1>3, <3>1, <3>2 DEF Fits, Settling, At, i
    <3> QED
      BY <1>3, <3>2, <3>3, <3>4 DEF Goes
  <2> QED
    BY <1>2, <2>1, <2>2, <2>3
<1> QED
  BY <1>1, <1>2, <1>5, ReplyType, StayKept, GoesInv DEF Inv, TypeOK

LEMMA ExpireInvoiceInv ==
  ASSUME Inv, NEW s \in Sessions, ExpireInvoice(s)
  PROVE  Inv'
<1> DEFINE i == calls[s].id
           row == calls[s].row
<1>1. At(s, "expire") /\ UNCHANGED <<issued, now, intents, confirmed, answered, paid>>
  BY DEF ExpireInvoice
<1>2. PICK r \in Replies :
        /\ Reply(r)
        /\ Proceed(s, row) \/ Return(s)
        /\ invoices' = invoices \/ invoices' = InvoiceSave(i, row)
  BY DEF ExpireInvoice
<1>3. i \in InvoiceIds /\ row \in Invoice /\ Right(i, row)
  BY <1>1, CallFits DEF Steps, Call, Fits, At
<1>4. Goes(s)
  BY <1>1, <1>2, <1>3, ProceedGoes, ReturnGoes
<1>5. InvoicesKept
  BY <1>1, <1>2, <1>3, StayKept, SaveKept
<1> QED
  BY <1>1, <1>2, <1>4, <1>5, ReplyType, GoesInv DEF Inv, TypeOK

LEMMA SaveUpdateInv ==
  ASSUME Inv, NEW s \in Sessions, SaveUpdate(s)
  PROVE  Inv'
<1>1. At(s, "saveUpdate") /\ Return(s) /\ UNCHANGED <<issued, now, intents, confirmed, answered, paid>>
  BY DEF SaveUpdate
<1>2. PICK r \in Replies :
        /\ Reply(r)
        /\ invoices' = invoices \/ invoices' = InvoiceSave(calls[s].id, calls[s].row)
  BY DEF SaveUpdate
<1>3. calls[s].id \in InvoiceIds /\ calls[s].row \in Invoice /\ Right(calls[s].id, calls[s].row)
  BY <1>1, CallFits DEF Steps, Call, Fits, At
<1>4. InvoicesKept
  BY <1>1, <1>2, <1>3, StayKept, SaveKept
<1> QED
  BY <1>1, <1>2, <1>4, ReturnGoes, ReplyType, GoesInv DEF Inv, TypeOK

LEMMA RemoveInvoiceInv ==
  ASSUME Inv, NEW s \in Sessions, RemoveInvoice(s)
  PROVE  Inv'
<1>1. At(s, "delete") /\ Return(s) /\ UNCHANGED <<issued, now, intents, confirmed, answered, paid>>
  BY DEF RemoveInvoice
<1>2. PICK r \in Replies :
        /\ Reply(r)
        /\ invoices' = invoices \/ invoices' = InvoiceDeleteRestricted(calls[s].id)
  BY DEF RemoveInvoice
<1>3. calls[s].id \in InvoiceIds
  BY <1>1, CallFits DEF Steps, Call
<1>4. InvoicesKept
  BY <1>1, <1>2, <1>3, StayKept, DeleteKept
<1> QED
  BY <1>1, <1>2, <1>4, ReturnGoes, ReplyType, GoesInv DEF Inv, TypeOK

LEMMA SettleGoes ==
  ASSUME Inv, NEW s \in Sessions, At(s, "decide"), NEW kind \in Outcomes, NEW st \in IntentStatus,
         NEW invoiceSt \in InvoiceStatus, Settle(s, kind, st, invoiceSt),
         \/ Right(calls[s].id, [calls[s].row EXCEPT !.status = invoiceSt])
         \/ st = "SUCCESS" /\ invoiceSt = "PAID"
  PROVE  Goes(s)
<1> DEFINE new == [calls[s].row EXCEPT !.status = invoiceSt]
           d == [calls[s] EXCEPT !.step = "saveIntent", !.kind = kind, !.status = st, !.row.status = invoiceSt]
<1>1. calls[s] \in Call /\ Fits(calls[s]) /\ calls[s].row \in Invoice /\ calls[s].kind \in Outcomes
  BY CallFits DEF Steps, Fits, At, Settling
<1>2. new \in Invoice /\ new.status = invoiceSt
  BY <1>1 DEF Invoice
<1>3. d.row = new
  BY <1>1 DEF Call
<1>4. /\ d \in Call /\ d.step = "saveIntent" /\ d.kind = kind /\ d.status = st
      /\ d.id = calls[s].id /\ d.intent = calls[s].intent /\ d.loaded = calls[s].loaded
  BY <1>1, <1>2 DEF Call, Steps, Kinds, Outcomes, Invoice
<1>5. calls' = [calls EXCEPT ![s] = d]
  BY DEF Settle, Become
<1>6. Right(d.id, new) \/ (st = "SUCCESS" /\ invoiceSt = "PAID")
  BY <1>4
<1> HIDE DEF d, new
<1>7. Fits(d)
  BY <1>1, <1>2, <1>3, <1>4, <1>6 DEF Fits, Confirming, Settling, Outcomes, At
<1> QED
  BY <1>4, <1>5, <1>7 DEF Goes, Outcomes

(* The row with another status, or with its own.                           *)
LEMMA StatusRow ==
  ASSUME NEW row \in Invoice, NEW st \in InvoiceStatus
  PROVE  [row EXCEPT !.status = st].status = st /\ [row EXCEPT !.status = st].due = row.due
BY DEF Invoice

LEMMA DecideInv ==
  ASSUME Inv, NEW s \in Sessions, DecideOverdue(s) \/ DecideSuccess(s) \/ DecideFailed(s)
  PROVE  Inv'
<1> DEFINE i == calls[s].id
           row == calls[s].row
<1>1. At(s, "decide") /\ UNCHANGED <<faults, invoices, issued, now, intents, confirmed, answered, paid>>
  BY DEF DecideOverdue, DecideSuccess, DecideFailed
<1>2. /\ calls[s] \in Call /\ row \in Invoice /\ Right(i, row) /\ calls[s].intent \in IntentsOf(i)
      /\ row.status \in InvoiceStatus /\ calls[s].status \in IntentStatus
  BY <1>1, CallFits DEF Steps, Fits, At, Settling, Call, Invoice
<1>3. ASSUME NEW st \in InvoiceStatus,
             st = row.status \/ (st = "EXPIRED" /\ \E p \in IntentsOf(i) : now > intents[p].due)
      PROVE  Right(i, [row EXCEPT !.status = st])
  BY <1>2, <1>3, StatusRow DEF Right
<1>4. CASE DecideOverdue(s)
  <2> DEFINE st == IF IntentCanFail(calls[s].status) THEN "FAILED" ELSE calls[s].status
             invoiceSt == IF InvoiceCanExpire(row.status) THEN "EXPIRED" ELSE row.status
  <2>1. st \in IntentStatus /\ invoiceSt \in InvoiceStatus /\ "overdue" \in Outcomes
    BY <1>2 DEF IntentStatus, InvoiceStatus, Outcomes
  <2>2. Settle(s, "overdue", st, invoiceSt) /\ now > intents[calls[s].intent].due
    BY <1>4 DEF DecideOverdue
  <2>3. Right(i, [row EXCEPT !.status = invoiceSt])
    BY <1>2, <1>3, <2>1, <2>2
  <2> HIDE DEF st, invoiceSt
  <2>4. Goes(s)
    BY <1>1, <2>1, <2>2, <2>3, SettleGoes
  <2> QED
    BY <1>1, <2>4, StayKept, GoesInv DEF Inv, TypeOK
<1>5. CASE DecideSuccess(s)
  <2>1. Settle(s, calls[s].kind, "SUCCESS", "PAID") \/ Return(s)
    BY <1>5 DEF DecideSuccess
  <2>2. calls[s].kind \in Outcomes /\ "SUCCESS" \in IntentStatus /\ "PAID" \in InvoiceStatus
    BY <1>5 DEF DecideSuccess, Outcomes, IntentStatus, InvoiceStatus
  <2>3. Goes(s)
    BY <1>1, <2>1, <2>2, SettleGoes, ReturnGoes
  <2> QED
    BY <1>1, <2>3, StayKept, GoesInv DEF Inv, TypeOK
<1>6. CASE DecideFailed(s)
  <2>1. Settle(s, calls[s].kind, "FAILED", row.status) \/ Return(s)
    BY <1>6 DEF DecideFailed
  <2>2. calls[s].kind \in Outcomes /\ "FAILED" \in IntentStatus
    BY <1>6 DEF DecideFailed, Outcomes, IntentStatus
  <2>3. Right(i, [row EXCEPT !.status = row.status])
    BY <1>2, <1>3
  <2>4. Goes(s)
    BY <1>1, <1>2, <2>1, <2>2, <2>3, SettleGoes, ReturnGoes
  <2> QED
    BY <1>1, <2>4, StayKept, GoesInv DEF Inv, TypeOK
<1> QED
  BY <1>4, <1>5, <1>6

(* A row that may be saved, and the intent it is saved with.               *)
LEMMA SettlingFits ==
  ASSUME Inv, NEW s \in Sessions, NEW step \in Settling, At(s, step)
  PROVE  /\ calls[s] \in Call /\ Fits(calls[s])
         /\ calls[s].id \in InvoiceIds /\ calls[s].row \in Invoice /\ calls[s].loaded \in Invoice
         /\ calls[s].intent \in IntentsOf(calls[s].id) /\ calls[s].intent \in Opened
         /\ calls[s].kind \in Outcomes /\ Right(calls[s].id, calls[s].loaded)
         /\ calls[s].status \in IntentStatus /\ calls[s].was \in IntentStatus
<1>1. calls[s] \in Call /\ Fits(calls[s])
  BY CallFits DEF Steps, Settling
<1> QED
  BY <1>1 DEF Call, Fits, At, IntentsOf

(* The call goes on as it is.                                              *)
LEMMA GoToGives ==
  ASSUME NEW s \in Sessions, calls[s] \in Call, NEW step \in Steps, GoTo(s, step)
  PROVE  \E c \in Call : /\ calls' = [calls EXCEPT ![s] = c]
                         /\ c.step = step /\ c.kind = calls[s].kind /\ c.id = calls[s].id
                         /\ c.row = calls[s].row /\ c.loaded = calls[s].loaded
                         /\ c.intent = calls[s].intent
<1> DEFINE d == [calls[s] EXCEPT !.step = step]
<1>1. /\ d \in Call /\ d.step = step /\ d.kind = calls[s].kind /\ d.id = calls[s].id
      /\ d.row = calls[s].row /\ d.loaded = calls[s].loaded /\ d.intent = calls[s].intent
  BY DEF Call
<1>2. calls' = [calls EXCEPT ![s] = d]
  BY DEF GoTo
<1> HIDE DEF d
<1> QED
  BY <1>1, <1>2

LEMMA SaveInvoiceInv ==
  ASSUME Inv, NEW s \in Sessions, SaveInvoice(s)
  PROVE  Inv'
<1> DEFINE i == calls[s].id
           row == calls[s].row
<1>1. At(s, "saveInvoice") /\ UNCHANGED <<issued, now, intents, confirmed>>
  BY DEF SaveInvoice
<1>2. PICK r \in Replies :
        /\ Reply(r)
        /\ Return(s) \/ GoTo(s, "undoIntent")
        /\ invoices' = invoices \/ invoices' = InvoiceSave(i, row)
        /\ answered' \subseteq answered \cup {calls[s].intent}
        /\ paid \subseteq answered => paid' \subseteq answered'
  BY DEF SaveInvoice, RecordAnswer
<1>3. /\ calls[s] \in Call /\ i \in InvoiceIds /\ row \in Invoice /\ calls[s].loaded \in Invoice
      /\ calls[s].intent \in IntentsOf(i) /\ calls[s].intent \in Opened
      /\ calls[s].kind \in Outcomes /\ Right(i, calls[s].loaded) /\ Right(i, row)
  BY <1>1, SettlingFits DEF Settling, Fits, At
<1>4. Goes(s)
  <2>1. CASE Return(s)
    BY <2>1, ReturnGoes
  <2>2. CASE GoTo(s, "undoIntent")
    <3>1. PICK c \in Call : /\ calls' = [calls EXCEPT ![s] = c]
                           /\ c.step = "undoIntent" /\ c.kind = calls[s].kind /\ c.id = calls[s].id
                           /\ c.row = calls[s].row /\ c.loaded = calls[s].loaded
                           /\ c.intent = calls[s].intent
      BY <1>3, <2>2, GoToGives DEF Steps
    <3>2. Fits(c)
      BY <1>3, <3>1 DEF Fits, Settling, Outcomes
    <3> QED
      BY <1>3, <3>1, <3>2 DEF Goes, Outcomes
  <2> QED
    BY <1>2, <2>1, <2>2
<1>5. InvoicesKept
  BY <1>1, <1>2, <1>3, StayKept, SaveKept
<1>6. answered' \subseteq IntentIds /\ paid' \subseteq answered'
  BY <1>2, <1>3, OpenedRow DEF Inv, TypeOK
<1> QED
  BY <1>1, <1>2, <1>4, <1>5, <1>6, ReplyType, GoesInv DEF Inv, TypeOK

LEMMA UndoInvoiceInv ==
  ASSUME Inv, NEW s \in Sessions, UndoInvoice(s)
  PROVE  Inv'
<1>1. At(s, "undoInvoice") /\ Return(s) /\ UNCHANGED <<issued, now, intents, confirmed, answered, paid>>
  BY DEF UndoInvoice
<1>2. PICK r \in Replies :
        /\ Reply(r)
        /\ invoices' = invoices \/ invoices' = InvoiceSave(calls[s].id, calls[s].loaded)
  BY DEF UndoInvoice
<1>3. InvoicesKept
  BY <1>1, <1>2, SettlingFits, StayKept, SaveKept DEF Settling
<1> QED
  BY <1>1, <1>2, <1>3, ReturnGoes, ReplyType, GoesInv DEF Inv, TypeOK

-----------------------------------------------------------------------------
(* The steps that save an intent.                                          *)

LEMMA IntentSaveKeeps ==
  ASSUME Inv, NEW p \in Opened, NEW st \in IntentStatus, UNCHANGED <<invoices, issued, now>>,
         \/ UNCHANGED <<intents, confirmed>>
         \/ intents' = IntentSave(p, st) /\ confirmed' \in {confirmed, confirmed \cup {p}}
  PROVE  /\ Grows /\ Opened' = Opened /\ Tables'
         /\ intents' \in [IntentIds -> Intent \cup {NoIntent}] /\ confirmed' \subseteq IntentIds
<1> DEFINE row == [intents[p] EXCEPT !.status = st]
<1>1. p \in IntentIds /\ intents[p] \in Intent
  BY OpenedRow DEF Inv
<1>2. row \in Intent /\ row.invoice = intents[p].invoice /\ row.due = intents[p].due
  BY <1>1 DEF Intent
<1>3. row # NoIntent
  BY <1>2, NoIntentIsNoRow
<1>4. intents' = intents \/ intents' = [intents EXCEPT ![p] = row]
  BY DEF IntentSave
<1> HIDE DEF row
<1>5. intents' \in [IntentIds -> Intent \cup {NoIntent}]
  BY <1>2, <1>4 DEF Inv, TypeOK
<1>6. /\ Opened' = Opened
      /\ \A q \in Opened : intents'[q].invoice = intents[q].invoice /\ intents'[q].due = intents[q].due
  BY <1>1, <1>2, <1>3, <1>4 DEF Inv, TypeOK, Opened
<1>7. confirmed \subseteq confirmed' /\ confirmed' \subseteq Opened
  BY DEF Inv, Tables
<1>8. now \in Int /\ now' = now
  BY DEF Inv, TypeOK, InvoicesTypeOK
<1>9. Grows
  BY <1>6, <1>7, <1>8 DEF Grows
<1>10. InvoicesRight'
  <2> SUFFICES ASSUME NEW i \in InvoiceIds, InvoiceExists(i)' PROVE Right(i, invoices[i])'
    BY DEF InvoicesRight
  <2>1. PICK d : d = invoices[i]
    OBVIOUS
  <2>2. d \in Invoice /\ Right(i, d)
    BY <2>1, InvoiceRow DEF Inv, Tables, InvoicesRight, InvoiceExists
  <2>3. Right(i, d)'
    BY <1>8, <1>9, <2>2, RightStays DEF Inv, Tables
  <2>4. invoices'[i] = d
    BY <2>1
  <2> QED
    BY <2>3, <2>4 DEF Right
<1>11. IntentHasInvoice'
  BY <1>6 DEF Inv, Tables, IntentHasInvoice, InvoiceExists
<1>12. confirmed' \subseteq IntentIds
  BY <1>7, OpenedRow DEF Inv
<1> QED
  BY <1>5, <1>6, <1>7, <1>9, <1>10, <1>11, <1>12 DEF Tables

LEMMA OthersKeep ==
  ASSUME Inv, NEW s \in Sessions, Grows, Opened' = Opened
  PROVE  Keeps(s)
BY DEF Inv, CallsFit, Fits, Paying, Keeps

LEMMA WriteIntentGives ==
  ASSUME NEW s \in Sessions, NEW r \in Replies, NEW st \in IntentStatus, WriteIntent(s, r, st)
  PROVE  /\ \/ UNCHANGED <<intents, confirmed>>
            \/ /\ intents' = IntentSave(calls[s].intent, st)
               /\ confirmed' \in {confirmed, confirmed \cup {calls[s].intent}}
         /\ r = "ok" /\ st = "SUCCESS" => calls[s].intent \in confirmed'
BY DEF WriteIntent, Executed

LEMMA SaveIntentInv ==
  ASSUME Inv, NEW s \in Sessions, SaveIntent(s)
  PROVE  Inv'
<1> DEFINE c == calls[s]
<1>1. At(s, "saveIntent") /\ UNCHANGED <<invoices, issued, now, answered, paid>>
  BY DEF SaveIntent
<1>2. PICK r \in Replies :
        /\ Reply(r)
        /\ Return(s) \/ (r = "ok" /\ GoTo(s, "saveInvoice"))
        /\ WriteIntent(s, r, c.status)
  BY DEF SaveIntent
<1>3. /\ c \in Call /\ Fits(c) /\ c.id \in InvoiceIds /\ c.row \in Invoice /\ c.loaded \in Invoice
      /\ c.intent \in IntentsOf(c.id) /\ c.intent \in Opened /\ c.kind \in Outcomes
      /\ Right(c.id, c.loaded) /\ c.status \in IntentStatus
  BY <1>1, SettlingFits DEF Settling
<1>4. /\ Grows /\ Opened' = Opened /\ Tables'
      /\ intents' \in [IntentIds -> Intent \cup {NoIntent}] /\ confirmed' \subseteq IntentIds
  BY <1>1, <1>2, <1>3, WriteIntentGives, IntentSaveKeeps
<1>5. Keeps(s)
  BY <1>4, OthersKeep
<1>6. faults' \in FaultsSoFar /\ now' \in Int
  BY <1>1, <1>2, ReplyType DEF Inv, TypeOK, InvoicesTypeOK
<1>7. CASE Return(s)
  <2>1. calls' = [calls EXCEPT ![s] = Idle]
    BY <1>7 DEF Return, Become
  <2>2. TypeOK'
    BY <1>1, <1>4, <1>6, <2>1 DEF Inv, TypeOK, InvoicesTypeOK
  <2>3. ~Active(s)'
    BY <2>1 DEF Inv, TypeOK, Active, At, Idle
  <2> QED
    BY <1>4, <1>5, <2>1, <2>2, <2>3, RestInv
<1>8. CASE r = "ok" /\ GoTo(s, "saveInvoice")
  <2>1. PICK d \in Call : /\ calls' = [calls EXCEPT ![s] = d]
                         /\ d.step = "saveInvoice" /\ d.kind = c.kind /\ d.id = c.id
                         /\ d.row = c.row /\ d.loaded = c.loaded /\ d.intent = c.intent
    BY <1>3, <1>8, GoToGives DEF Steps
  <2>2. TypeOK'
    <3>1. calls' \in [Sessions -> Call \cup Listing \cup {Idle}]
      BY <2>1 DEF Inv, TypeOK
    <3> QED
      BY <1>1, <1>4, <1>6, <3>1 DEF Inv, TypeOK, InvoicesTypeOK
  <2>3. PICK i, row, loaded, p : i = c.id /\ row = c.row /\ loaded = c.loaded /\ p = c.intent
    OBVIOUS
  <2>4. Right(i, loaded)'
    BY <1>3, <1>4, <1>6, <2>3, RightStays DEF Inv, Tables
  <2>5. p \in IntentsOf(i)'
    BY <1>3, <1>4, <2>3 DEF IntentsOf, Grows
  <2>6. Right(i, row)'
    <3>1. CASE Right(i, row)
      BY <1>3, <1>4, <1>6, <2>3, <3>1, RightStays DEF Inv, Tables
    <3>2. CASE c.status = "SUCCESS" /\ row.status = "PAID"
      <4>1. p \in confirmed'
        BY <1>2, <1>3, <1>8, <2>3, <3>2, WriteIntentGives
      <4> QED
        BY <2>5, <3>2, <4>1 DEF Right, IntentsOf
    <3> QED
      BY <1>1, <1>3, <2>3, <3>1, <3>2 DEF Fits, At, Confirming
  <2>7. Fits(d)'
    BY <1>3, <2>1, <2>3, <2>4, <2>5, <2>6 DEF Fits, Settling, Outcomes
  <2> QED
    BY <1>3, <1>4, <1>5, <2>1, <2>2, <2>7, MoveInv DEF Outcomes
<1> QED
  BY <1>2, <1>7, <1>8

LEMMA UndoIntentInv ==
  ASSUME Inv, NEW s \in Sessions, UndoIntent(s)
  PROVE  Inv'
<1> DEFINE c == calls[s]
<1>1. At(s, "undoIntent") /\ UNCHANGED <<invoices, issued, now, answered, paid>>
  BY DEF UndoIntent
<1>2. PICK r \in Replies :
        /\ Reply(r)
        /\ Return(s) \/ GoTo(s, "undoInvoice")
        /\ WriteIntent(s, r, c.was)
  BY DEF UndoIntent
<1>3. /\ c \in Call /\ Fits(c) /\ c.id \in InvoiceIds /\ c.row \in Invoice /\ c.loaded \in Invoice
      /\ c.intent \in IntentsOf(c.id) /\ c.intent \in Opened /\ c.kind \in Outcomes
      /\ Right(c.id, c.loaded) /\ c.was \in IntentStatus
  BY <1>1, SettlingFits DEF Settling
<1>4. /\ Grows /\ Opened' = Opened /\ Tables'
      /\ intents' \in [IntentIds -> Intent \cup {NoIntent}] /\ confirmed' \subseteq IntentIds
  BY <1>1, <1>2, <1>3, WriteIntentGives, IntentSaveKeeps
<1>5. Keeps(s)
  BY <1>4, OthersKeep
<1>6. faults' \in FaultsSoFar /\ now' \in Int
  BY <1>1, <1>2, ReplyType DEF Inv, TypeOK, InvoicesTypeOK
<1>7. CASE Return(s)
  <2>1. calls' = [calls EXCEPT ![s] = Idle]
    BY <1>7 DEF Return, Become
  <2>2. TypeOK'
    BY <1>1, <1>4, <1>6, <2>1 DEF Inv, TypeOK, InvoicesTypeOK
  <2>3. ~Active(s)'
    BY <2>1 DEF Inv, TypeOK, Active, At, Idle
  <2> QED
    BY <1>4, <1>5, <2>1, <2>2, <2>3, RestInv
<1>8. CASE GoTo(s, "undoInvoice")
  <2>1. PICK d \in Call : /\ calls' = [calls EXCEPT ![s] = d]
                         /\ d.step = "undoInvoice" /\ d.kind = c.kind /\ d.id = c.id
                         /\ d.row = c.row /\ d.loaded = c.loaded /\ d.intent = c.intent
    BY <1>3, <1>8, GoToGives DEF Steps
  <2>2. TypeOK'
    <3>1. calls' \in [Sessions -> Call \cup Listing \cup {Idle}]
      BY <2>1 DEF Inv, TypeOK
    <3> QED
      BY <1>1, <1>4, <1>6, <3>1 DEF Inv, TypeOK, InvoicesTypeOK
  <2>3. PICK i, loaded, p : i = c.id /\ loaded = c.loaded /\ p = c.intent
    OBVIOUS
  <2>4. Right(i, loaded)'
    BY <1>3, <1>4, <1>6, <2>3, RightStays DEF Inv, Tables
  <2>5. p \in IntentsOf(i)'
    BY <1>3, <1>4, <2>3 DEF IntentsOf, Grows
  <2>6. Fits(d)'
    BY <1>3, <2>1, <2>3, <2>4, <2>5 DEF Fits, Settling, Outcomes
  <2> QED
    BY <1>3, <1>4, <1>5, <2>1, <2>2, <2>6, MoveInv DEF Outcomes
<1> QED
  BY <1>2, <1>7, <1>8

LEMMA InsertIntentInv ==
  ASSUME Inv, NEW s \in Sessions, InsertIntent(s)
  PROVE  Inv'
<1> DEFINE p == calls[s].intent
           i == calls[s].id
           row == [invoice |-> i, status |-> "PENDING", due |-> calls[s].due]
<1>1. At(s, "insertIntent") /\ Return(s) /\ UNCHANGED <<invoices, issued, now, confirmed, answered, paid>>
  BY DEF InsertIntent
<1>2. PICK r \in Replies :
        /\ Reply(r)
        /\ \/ intents' = intents
           \/ InvoiceExists(i) /\ intents' = [intents EXCEPT ![p] = row]
  BY DEF InsertIntent, IntentCreate
<1>3. calls[s] \in Call /\ i \in InvoiceIds /\ p \in IntentIds \ Opened /\ Others(s, p)
  BY <1>1, CallFits DEF Steps, Fits, At, Call
<1>4. row \in Intent /\ row.invoice = i
  BY <1>3 DEF Intent, IntentStatus, Call
<1>5. row # NoIntent
  BY <1>4, NoIntentIsNoRow
<1> HIDE DEF row, p, i
<1>6. intents' \in [IntentIds -> Intent \cup {NoIntent}]
  BY <1>2, <1>4 DEF Inv, TypeOK
<1>7. /\ Opened \subseteq Opened' /\ Opened' \subseteq Opened \cup {p}
      /\ \A q \in Opened : intents'[q] = intents[q]
      /\ p \in Opened' => intents'[p] = row /\ InvoiceExists(i)
  BY <1>2, <1>3, <1>5 DEF Inv, TypeOK, Opened
<1>8. now' \in Int /\ now' = now /\ faults' \in FaultsSoFar
  BY <1>1, <1>2, ReplyType DEF Inv, TypeOK, InvoicesTypeOK
<1>9. Grows
  BY <1>1, <1>7, <1>8 DEF Grows
<1>10. Keeps(s)
  BY <1>3, <1>7, <1>9 DEF Keeps, Others, Inv, CallsFit, Fits, Paying
<1>11. InvoicesRight'
  <2> SUFFICES ASSUME NEW j \in InvoiceIds, InvoiceExists(j)' PROVE Right(j, invoices[j])'
    BY DEF InvoicesRight
  <2>1. PICK d : d = invoices[j]
    OBVIOUS
  <2>2. d \in Invoice /\ Right(j, d)
    BY <1>1, <2>1, InvoiceRow DEF Inv, Tables, InvoicesRight, InvoiceExists
  <2>3. Right(j, d)'
    BY <1>8, <1>9, <2>2, RightStays DEF Inv, Tables
  <2>4. invoices'[j] = d
    BY <1>1, <2>1
  <2> QED
    BY <2>3, <2>4 DEF Right
<1>12. IntentHasInvoice'
  BY <1>1, <1>4, <1>7 DEF Inv, Tables, IntentHasInvoice, InvoiceExists
<1>13. Tables'
  BY <1>1, <1>7, <1>11, <1>12 DEF Inv, Tables
<1>14. calls' = [calls EXCEPT ![s] = Idle]
  BY <1>1 DEF Return, Become
<1>15. TypeOK'
  BY <1>1, <1>6, <1>8, <1>14 DEF Inv, TypeOK, InvoicesTypeOK
<1>16. ~Active(s)'
  BY <1>14 DEF Inv, TypeOK, Active, At, Idle
<1> QED
  BY <1>10, <1>13, <1>14, <1>15, <1>16, RestInv

-----------------------------------------------------------------------------
(* The steps that change no call, and a restart.                           *)

LEMMA StillInv ==
  ASSUME Inv, TypeOK', Tables', Grows, UNCHANGED <<calls, intents>>
  PROVE  Inv'
<1> USE DEF Inv
<1>1. Opened' = Opened
  BY DEF Opened
<1>2. ASSUME NEW t \in Sessions, Active(t)' PROVE Fits(calls[t])'
  <2>1. Active(t) /\ calls[t] \in Call
    BY <1>2, CallType DEF Active, At
  <2>2. PICK d \in Call : d = calls[t]
    BY <2>1
  <2>3. Fits(d)
    BY <2>1, <2>2 DEF CallsFit
  <2>4. d.kind = "pay" => d.intent \notin Opened'
    BY <1>1, <2>3 DEF Fits
  <2>5. Fits(d)'
    BY <2>3, <2>4, FitsStays DEF Tables
  <2>6. calls'[t] = d
    BY <2>2
  <2> QED
    BY <2>5, <2>6 DEF Fits, Right, Confirming, IntentsOf, Opened
<1>3. CallsFit'
  BY <1>2 DEF CallsFit
<1>4. IdsOwned'
  BY DEF IdsOwned, Paying, Active, At
<1> QED
  BY <1>3, <1>4

LEMMA CreateInvoiceInv ==
  ASSUME Inv, NEW s \in Sessions, NEW i \in InvoiceIds, NEW a \in Amounts, NEW d \in Dues,
         CreateInvoice(s, i, a, d)
  PROVE  Inv'
<1> DEFINE row == [amount |-> a, status |-> "PENDING", due |-> d]
<1>1. /\ invoices' = [invoices EXCEPT ![i] = row] /\ issued' = issued \cup {i}
      /\ UNCHANGED <<now, intents, confirmed, answered, paid>>
  BY DEF CreateInvoice, InvoiceCreate
<1>2. calls' = calls /\ faults' \in FaultsSoFar
  BY ReplyType DEF CreateInvoice, Inv, TypeOK
<1>3. row \in Invoice /\ row.status = "PENDING"
  <2>1. a \in Amount64
    BY InvoiceAssumption, Int64Assumption DEF CreateInvoice, ValidAmount, Int64, Amount64
  <2> QED
    BY <2>1 DEF Invoice, InvoiceStatus
<1>4. row # NoInvoice
  BY <1>3, NoInvoiceIsNoRow
<1> HIDE DEF row
<1>5. TypeOK'
  BY <1>1, <1>2, <1>3 DEF Inv, TypeOK, InvoicesTypeOK
<1>6. Opened' = Opened
  BY <1>1 DEF Opened
<1>7. /\ invoices'[i] = row
      /\ \A j \in InvoiceIds \ {i} : invoices'[j] = invoices[j]
  BY <1>1 DEF Inv, TypeOK, InvoicesTypeOK
<1>8. InvoicesRight'
  <2> SUFFICES ASSUME NEW j \in InvoiceIds, InvoiceExists(j)' PROVE Right(j, invoices[j])'
    BY DEF InvoicesRight
  <2>1. PICK e : e = invoices'[j]
    OBVIOUS
  <2>2. InvoiceExists(j)' <=> e # NoInvoice
    BY <2>1 DEF InvoiceExists
  <2>3. Right(j, e)
    BY <1>3, <1>7, <2>1, <2>2 DEF Inv, Tables, InvoicesRight, InvoiceExists, Right
  <2> QED
    BY <1>1, <1>6, <2>1, <2>3 DEF Right, IntentsOf
<1>9. IntentHasInvoice'
  <2> SUFFICES ASSUME NEW p \in Opened PROVE InvoiceExists(intents[p].invoice)'
    BY <1>6 DEF IntentHasInvoice
  <2>1. intents[p].invoice \in InvoiceIds /\ invoices[intents[p].invoice] # NoInvoice
    BY OpenedRow DEF Inv, Intent, Tables, IntentHasInvoice, InvoiceExists
  <2> QED
    BY <1>1, <1>4, <1>7, <2>1 DEF InvoiceExists
<1>10. now <= now'
  BY <1>1 DEF Inv, TypeOK, InvoicesTypeOK
<1>11. Grows /\ Tables'
  BY <1>1, <1>6, <1>8, <1>9, <1>10 DEF Grows, Inv, Tables
<1> QED
  BY <1>1, <1>2, <1>5, <1>11, StillInv

LEMMA TimePassesInv ==
  ASSUME Inv, TimePasses
  PROVE  Inv'
<1>1. /\ now' = now + 1 /\ now' \in 0 .. MaxTime /\ now \in Int
      /\ UNCHANGED <<faults, invoices, issued, intents, calls, confirmed, answered, paid>>
  BY InvoiceAssumption DEF TimePasses, Tick, Inv, TypeOK, InvoicesTypeOK
<1>2. TypeOK'
  BY <1>1 DEF Inv, TypeOK, InvoicesTypeOK
<1>3. Opened' = Opened
  BY <1>1 DEF Opened
<1>4. Grows
  BY <1>1, <1>3 DEF Grows
<1>5. InvoicesRight'
  <2> SUFFICES ASSUME NEW i \in InvoiceIds, InvoiceExists(i)' PROVE Right(i, invoices[i])'
    BY DEF InvoicesRight
  <2>1. PICK d : d = invoices[i]
    OBVIOUS
  <2>2. d \in Invoice /\ Right(i, d)
    BY <1>1, <2>1, InvoiceRow DEF Inv, Tables, InvoicesRight, InvoiceExists
  <2>3. Right(i, d)'
    BY <1>1, <1>4, <2>2, RightStays DEF Inv, Tables
  <2>4. invoices'[i] = d
    BY <1>1, <2>1
  <2> QED
    BY <2>3, <2>4 DEF Right
<1>6. Tables'
  BY <1>1, <1>3, <1>5 DEF Inv, Tables, IntentHasInvoice, InvoiceExists
<1> QED
  BY <1>1, <1>2, <1>4, <1>6, StillInv

LEMMA CrashInv ==
  ASSUME Inv, Crash
  PROVE  Inv'
<1>1. /\ calls' = [s \in Sessions |-> Idle] /\ CrashFault
      /\ UNCHANGED <<invoices, issued, now, intents, confirmed, answered, paid>>
  BY DEF Crash
<1>2. TypeOK'
  BY <1>1, CrashFaultType DEF Inv, TypeOK, InvoicesTypeOK
<1>3. CallsFit' /\ IdsOwned'
  BY <1>1 DEF CallsFit, IdsOwned, Paying, Active, At, Idle
<1>4. InvoicesKept
  BY <1>1, StayKept
<1>5. Opened' = Opened
  BY <1>1 DEF Opened
<1>6. Tables'
  BY <1>1, <1>4, <1>5 DEF Inv, Tables, InvoicesKept
<1> QED
  BY <1>2, <1>3, <1>6 DEF Inv

LEMMA StutterInv ==
  ASSUME Inv, UNCHANGED vars
  PROVE  Inv'
<1> USE DEF vars
<1>1. TypeOK'
  BY DEF Inv, TypeOK, InvoicesTypeOK
<1>2. Opened' = Opened
  BY DEF Opened
<1>3. now <= now'
  BY DEF Inv, TypeOK, InvoicesTypeOK
<1>4. InvoicesKept
  BY StayKept
<1>5. Grows /\ Tables'
  BY <1>2, <1>3, <1>4 DEF Grows, Inv, Tables, InvoicesKept
<1> QED
  BY <1>1, <1>5, StillInv

-----------------------------------------------------------------------------
LEMMA InitInv == Init => Inv
<1> SUFFICES ASSUME Init PROVE Inv
  OBVIOUS
<1>1. TypeOK
  BY FaultsAssumption, InvoiceAssumption DEF Init, TypeOK, InvoicesTypeOK, NoFaults, FaultsSoFar
<1>2. Opened = {}
  BY DEF Init, Opened
<1>3. Tables
  BY <1>2 DEF Init, Tables, InvoicesRight, IntentHasInvoice, InvoiceExists
<1>4. CallsFit /\ IdsOwned
  BY DEF Init, CallsFit, IdsOwned, Paying, Active, At, Idle
<1> QED
  BY <1>1, <1>3, <1>4 DEF Inv

LEMMA AskInv ==
  ASSUME Inv, NEW s \in Sessions, Ask(s)
  PROVE  Inv'
<1>1. ASSUME NEW i \in InvoiceIds, GetInvoice(s, i) \/ DeleteInvoice(s, i) PROVE Inv'
  BY <1>1, InvoiceAssumption, OpenInvoiceInv DEF GetInvoice, DeleteInvoice, NoAsk
<1>2. ASSUME NEW i \in InvoiceIds, NEW p \in IntentIds, PayInvoice(s, i, p) PROVE Inv'
  BY <1>2, InvoiceAssumption, OpenInvoiceInv DEF PayInvoice, NoAsk
<1>3. ASSUME NEW i \in InvoiceIds, NEW a \in Amounts, NEW d \in Dues, UpdateInvoice(s, i, a, d) PROVE Inv'
  <2>1. a \in Price
    BY <1>3, InvoiceAssumption, Int64Assumption DEF UpdateInvoice, ValidAmount, Price, Int64, Amount64
  <2>2. OpenInvoice(s, "checkUpdate", i, NoIntent, [amount |-> a, due |-> d])
    BY <1>3 DEF UpdateInvoice
  <2> QED
    BY <2>1, <2>2, OpenInvoiceInv
<1> QED
  BY <1>1, <1>2, <1>3, CreateInvoiceInv, ListInvoicesInv, SimulateInv DEF Ask

LEMMA ServeInv ==
  ASSUME Inv, NEW s \in Sessions, Serve(s)
  PROVE  Inv'
BY RefreshListedInv, LoadInvoiceInv, ExpireInvoiceInv, SaveUpdateInv, RemoveInvoiceInv, InsertIntentInv,
   DecideInv, SaveIntentInv, SaveInvoiceInv, UndoIntentInv, UndoInvoiceInv DEF Serve

LEMMA StepInv == Inv /\ [Next]_vars => Inv'
<1> SUFFICES ASSUME Inv, [Next]_vars PROVE Inv'
  OBVIOUS
<1>1. CASE \E s \in Sessions : Ask(s) \/ Serve(s)
  BY <1>1, AskInv, ServeInv
<1>2. CASE TimePasses
  BY <1>2, TimePassesInv
<1>3. CASE Crash
  BY <1>3, CrashInv
<1>4. CASE UNCHANGED vars
  BY <1>4, StutterInv
<1> QED
  BY <1>1, <1>2, <1>3, <1>4 DEF Next, Quiet

LEMMA InvariantHolds == Spec => []Inv
BY InitInv, StepInv, PTL DEF Spec

(* Under every schedule of requests and every failure of a query, every    *)
(* variable of the payment service keeps its type.                         *)
THEOREM PaymentsTypeCorrect == Spec => []TypeOK
BY InvariantHolds, PTL DEF Inv

(* An invoice is deleted only while no intent refers to it, and an intent  *)
(* inserted only while its invoice is there: none is left without one.     *)
THEOREM IntentsHaveInvoices == Spec => []IntentHasInvoice
<1>1. Inv => IntentHasInvoice
  BY DEF Inv, Tables
<1> QED
  BY <1>1, InvariantHolds, PTL

(* The service saves the intent before the invoice: an invoice stored as   *)
(* PAID had an intent stored as SUCCESS, whatever failed in between.       *)
THEOREM PaidNeedsConfirmation == Spec => []PaidWasConfirmed
<1>1. Inv => PaidWasConfirmed
  BY DEF Inv, Tables, InvoicesRight, Right, PaidWasConfirmed
<1> QED
  BY <1>1, InvariantHolds, PTL

(* No request stores as EXPIRED an invoice that is not past its due date,  *)
(* or that of one of its intents, however stale its row is.                *)
THEOREM ExpiredNeedsDueDate == Spec => []ExpiredWasOverdue
<1>1. Inv => ExpiredWasOverdue
  BY DEF Inv, Tables, InvoicesRight, Right, ExpiredWasOverdue
<1> QED
  BY <1>1, InvariantHolds, PTL

-----------------------------------------------------------------------------
(* What a step may write to the table of invoices.                         *)

Writes ==
  \/ invoices' = invoices
  \/ \E i \in InvoiceIds \ issued, row \in Invoice : invoices' = [invoices EXCEPT ![i] = row]
  \/ \E i \in InvoiceIds, row \in Invoice : invoices' = InvoiceSave(i, row)
  \/ \E i \in InvoiceIds : invoices' = InvoiceDeleteRestricted(i)

LEMMA CreateWrites ==
  ASSUME NEW s \in Sessions, NEW i \in InvoiceIds, NEW a \in Amounts, NEW d \in Dues,
         CreateInvoice(s, i, a, d)
  PROVE  Writes
<1> DEFINE row == [amount |-> a, status |-> "PENDING", due |-> d]
<1>1. a \in Amount64
  BY InvoiceAssumption, Int64Assumption DEF CreateInvoice, ValidAmount, Int64, Amount64
<1>2. row \in Invoice
  BY <1>1 DEF Invoice, InvoiceStatus
<1>3. i \notin issued /\ invoices' = [invoices EXCEPT ![i] = row]
  BY DEF CreateInvoice, InvoiceCreate
<1> QED
  BY <1>2, <1>3 DEF Writes

LEMMA AskWrites ==
  ASSUME NEW s \in Sessions, Ask(s)
  PROVE  Writes
<1>1. CASE \E i \in InvoiceIds, a \in Amounts, d \in Dues : CreateInvoice(s, i, a, d)
  BY <1>1, CreateWrites
<1>2. CASE UNCHANGED invoices
  BY <1>2 DEF Writes
<1> QED
  BY <1>1, <1>2 DEF Ask, GetInvoice, DeleteInvoice, PayInvoice, UpdateInvoice, OpenInvoice,
                    ListInvoices, Simulate

LEMMA ServeWrites ==
  ASSUME Inv, NEW s \in Sessions, Serve(s)
  PROVE  Writes
<1> DEFINE i == calls[s].id
<1>1. ASSUME NEW step \in Steps, At(s, step) PROVE i \in InvoiceIds
  BY <1>1, CallFits DEF Call
<1>2. ASSUME NEW j \in InvoiceIds, RefreshListed(s, j) PROVE Writes
  <2> DEFINE page == calls[s].page
  <2>1. calls[s] \in Listing /\ j \in DOMAIN page
    BY <1>2 DEF RefreshListed, Inv, TypeOK, At, Idle, Call, Steps
  <2>2. page[j] \in Invoice
    BY <2>1 DEF Listing
  <2>3. invoices' = invoices \/ invoices' = InvoiceSave(j, Expired(page[j]))
    BY <1>2 DEF RefreshListed
  <2> QED
    BY <2>2, <2>3, ExpiredRow DEF Writes
<1>3. CASE ExpireInvoice(s) \/ SaveUpdate(s)
  <2>1. \/ invoices' = invoices
        \/ i \in InvoiceIds /\ calls[s].row \in Invoice /\ invoices' = InvoiceSave(i, calls[s].row)
    BY <1>1, <1>3, CallFits DEF ExpireInvoice, SaveUpdate, Fits, At, Steps
  <2> QED
    BY <2>1 DEF Writes
<1>4. CASE SaveInvoice(s) \/ UndoInvoice(s)
  <2>1. \/ invoices' = invoices \/ invoices' = InvoiceSave(i, calls[s].row)
        \/ invoices' = InvoiceSave(i, calls[s].loaded)
    BY <1>4 DEF SaveInvoice, UndoInvoice
  <2>2. i \in InvoiceIds /\ calls[s].row \in Invoice /\ calls[s].loaded \in Invoice
    BY <1>4, SettlingFits DEF SaveInvoice, UndoInvoice, Settling
  <2> QED
    BY <2>1, <2>2 DEF Writes
<1>5. CASE RemoveInvoice(s)
  <2>1. invoices' = invoices \/ invoices' = InvoiceDeleteRestricted(i)
    BY <1>5 DEF RemoveInvoice
  <2>2. i \in InvoiceIds
    BY <1>1, <1>5 DEF RemoveInvoice, Steps
  <2> QED
    BY <2>1, <2>2 DEF Writes
<1>6. CASE UNCHANGED invoices
  BY <1>6 DEF Writes
<1> QED
  BY <1>2, <1>3, <1>4, <1>5, <1>6 DEF Serve, LoadInvoice, InsertIntent, DecideOverdue, DecideSuccess,
     DecideFailed, SaveIntent, UndoIntent

LEMMA StepWrites ==
  ASSUME Inv, [Next]_vars
  PROVE  Writes
<1>1. CASE \E s \in Sessions : Ask(s) \/ Serve(s)
  BY <1>1, AskWrites, ServeWrites
<1>2. CASE UNCHANGED invoices
  BY <1>2 DEF Writes
<1> QED
  BY <1>1, <1>2 DEF Next, Quiet, TimePasses, Crash, vars

(* A step makes an invoice only with an id that was never issued, and      *)
(* deletes only one that no intent refers to.                              *)
LEMMA WritesExist ==
  ASSUME TypeOK, Writes, NEW j \in InvoiceIds
  PROVE  /\ j \in issued /\ ~InvoiceExists(j) => ~InvoiceExists(j)'
         /\ InvoiceExists(j) /\ ~InvoiceExists(j)' => IntentsOf(j) = {}
<1>1. invoices \in [InvoiceIds -> Invoice \cup {NoInvoice}]
  BY DEF TypeOK, InvoicesTypeOK
<1>2. ASSUME NEW i \in InvoiceIds \ issued, NEW row \in Invoice, invoices' = [invoices EXCEPT ![i] = row]
      PROVE  /\ j \in issued => invoices'[j] = invoices[j]
             /\ invoices[j] # NoInvoice => invoices'[j] # NoInvoice
  BY <1>1, <1>2, NoInvoiceIsNoRow
<1>3. ASSUME NEW i \in InvoiceIds, NEW row \in Invoice, invoices' = InvoiceSave(i, row)
      PROVE  invoices[j] # NoInvoice <=> invoices'[j] # NoInvoice
  BY <1>1, <1>3, NoInvoiceIsNoRow DEF InvoiceSave, InvoiceExists
<1>4. ASSUME NEW i \in InvoiceIds, invoices' = InvoiceDeleteRestricted(i)
      PROVE  /\ invoices[j] = NoInvoice => invoices'[j] = NoInvoice
             /\ invoices'[j] # invoices[j] => IntentsOf(j) = {}
  BY <1>1, <1>4 DEF InvoiceDeleteRestricted, InvoiceDelete
<1> QED
  BY <1>2, <1>3, <1>4 DEF Writes, InvoiceExists

-----------------------------------------------------------------------------
(* No save by a request that still holds a deleted invoice, and no new     *)
(* invoice, brings it back.                                                *)
THEOREM DeletedIsFinal == Spec => DeletedStaysDeleted
<1> DEFINE Step == \A i \in issued : ~InvoiceExists(i) => ~InvoiceExists(i)'
<1>1. Inv /\ [Next]_vars => [Step]_vars
  BY StepWrites, WritesExist DEF Inv, TypeOK, InvoicesTypeOK
<1>2. Spec => [][Step]_vars
  BY <1>1, InvariantHolds, PTL DEF Spec
<1> QED
  BY <1>2 DEF DeletedStaysDeleted

(* A PAID invoice has an intent, since one was stored as SUCCESS before it *)
(* and intents are never deleted: no delete that was checked before the    *)
(* payment removes it.                                                     *)
THEOREM PaidIsKept == Spec => PaidNeverDeleted
<1> DEFINE Step == \A i \in InvoiceIds :
                     InvoiceExists(i) /\ invoices[i].status = "PAID" => InvoiceExists(i)'
<1>1. ASSUME Inv, NEW i \in InvoiceIds, InvoiceExists(i), invoices[i].status = "PAID"
      PROVE  IntentsOf(i) # {}
  BY <1>1 DEF Inv, Tables, InvoicesRight, Right, IntentsOf
<1>2. Inv /\ [Next]_vars => [Step]_vars
  BY <1>1, StepWrites, WritesExist DEF Inv
<1>3. Spec => [][Step]_vars
  BY <1>2, InvariantHolds, PTL DEF Spec
<1> QED
  BY <1>3 DEF PaidNeverDeleted

-----------------------------------------------------------------------------
(* One request at a time.  SerialInv says what the request under way knows *)
(* of the tables: that they still hold the rows it loaded, that the        *)
(* statuses it is to save are the ones SimulateAdminOutcome decided, and   *)
(* that an intent answered SUCCESS before was loaded as SUCCESS, so that   *)
(* neither the saves nor the rollbacks undo it.                            *)

OneAtATime == \A r, s \in Sessions : r = s

Undoing == {"undoIntent", "undoInvoice"}

(* A request answered SUCCESS for an intent of this invoice.               *)
Answers(i) == \E p \in answered : intents[p].invoice = i

Waiting(i) == InvoiceExists(i) /\ invoices[i].status = "PENDING"

(* The statuses are those of one of the three outcomes.                    *)
Decided(c) ==
  \/ /\ c.kind = "succeed" /\ c.status = "SUCCESS" /\ InvoiceCanBePaid(c.loaded.status)
     /\ c.row = [c.loaded EXCEPT !.status = "PAID"]
  \/ c.kind = "fail" /\ c.status = "FAILED" /\ IntentCanFail(c.was) /\ c.row = c.loaded
  \/ /\ c.kind = "overdue"
     /\ c.status = IF IntentCanFail(c.was) THEN "FAILED" ELSE c.was
     /\ c.row = [c.loaded EXCEPT !.status = IF InvoiceCanExpire(@) THEN "EXPIRED" ELSE @]

IntentKnown(c) ==
  /\ c.intent \in answered => c.was = "SUCCESS"
  /\ Gentle /\ c.was = "SUCCESS" => c.intent \in answered
  /\ c.kind = "overdue" => now > intents[c.intent].due
  /\ c.step \in {"load", "expire", "decide"} => c.status = c.was
  /\ c.step = "saveInvoice" => intents[c.intent].status = c.status

InvoiceKnown(c) ==
  /\ Answers(c.id) => c.loaded.status = invoices[c.id].status
  /\ (c.step \in Undoing => Gentle) => invoices[c.id] = c.loaded
  /\ c.step = "decide" => c.row = c.loaded
  /\ c.step # "decide" => Decided(c)
  /\ c.step \in Undoing /\ Gentle => faults.count # 0

Known(c) ==
  /\ c.kind \in Outcomes => IntentKnown(c)
  /\ c.step \in Settling => InvoiceKnown(c)
  /\ c.step \in {"expire", "saveUpdate", "delete"} => Waiting(c.id)
  /\ c.step = "expire" => c.row = Expired(invoices[c.id])
  /\ c.step = "saveUpdate" => c.row.status = "PENDING"

PageKnown(page) == \A i \in DOMAIN page : InvoiceExists(i) /\ invoices[i] = page[i]

CallsKnown ==
  \A s \in Sessions : /\ Active(s) => Known(calls[s])
                      /\ At(s, "list") => PageKnown(calls[s].page)

(* The intent is saved, the invoice is not yet.                            *)
InProgress(p) ==
  \E s \in Sessions : (At(s, "saveInvoice") \/ At(s, "undoIntent")) /\ calls[s].intent = p

Exact ==
  Gentle =>
    /\ answered \subseteq paid
    /\ \A p \in Opened : ~InProgress(p) => (intents[p].status = "SUCCESS" <=> p \in answered)
    /\ \A i \in InvoiceIds : InvoiceExists(i) /\ invoices[i].status = "PAID" => Answers(i)

Served ==
  /\ Fresh /\ answered \subseteq Opened /\ AnsweredIsKept
  /\ \A i \in InvoiceIds : InvoiceExists(i) => i \in issued

SerialInv == CallsKnown /\ Served /\ Exact

(* What SettledIsFrozen says of a step.                                    *)
Frozen ==
  \A i \in InvoiceIds :
    Gentle' /\ InvoiceExists(i) /\ invoices[i].status # "PENDING" => invoices'[i] = invoices[i]

-----------------------------------------------------------------------------
(* What the steps have in common.                                          *)

Eases == Fresh' /\ (Gentle' => Gentle)

LEMMA ReplyEases ==
  ASSUME Inv, Served, NEW r \in Replies, Reply(r)
  PROVE  /\ Eases
         /\ Gentle' => \/ r = "ok" /\ faults' = faults
                       \/ r = "lost" /\ faults.count = 0 /\ faults'.count = 1
BY ReplyFresh, ReplyGentle DEF Inv, TypeOK, Served, Eases

LEMMA SameEases ==
  ASSUME Served, UNCHANGED faults
  PROVE  Eases
BY DEF Served, Fresh, Gentle, Eases

LEMMA CallKnown ==
  ASSUME OneAtATime, TypeOK, NEW s \in Sessions, NEW c \in Call,
         calls' = [calls EXCEPT ![s] = c], Known(c)'
  PROVE  CallsKnown'
<1>1. calls'[s] = c /\ \A t \in Sessions : t = s
  BY DEF OneAtATime, TypeOK
<1>2. c.step # "list"
  BY DEF Call, Steps
<1>3. Known(calls[s])'
  BY <1>1 DEF Known, IntentKnown, InvoiceKnown, Answers, Decided, Waiting, InvoiceExists, Gentle
<1> QED
  BY <1>1, <1>2, <1>3 DEF CallsKnown, At

LEMMA RestKnown ==
  ASSUME OneAtATime, TypeOK, NEW s \in Sessions, Return(s)
  PROVE  CallsKnown'
<1>1. calls'[s] = Idle /\ \A t \in Sessions : t = s
  BY DEF OneAtATime, TypeOK, Return, Become
<1> QED
  BY <1>1 DEF CallsKnown, At, Active, Idle

(* What was answered stays when its intents keep SUCCESS and their due     *)
(* dates, and its invoices their statuses.                                 *)
LEMMA KeptStays ==
  ASSUME Inv, answered \subseteq Opened, AnsweredIsKept, UNCHANGED <<answered, paid>>, now' \in {now, now + 1},
         \A p \in answered : /\ intents'[p].status = "SUCCESS" /\ intents'[p].invoice = intents[p].invoice
                             /\ intents'[p].due = intents[p].due,
         \A i \in InvoiceIds : Answers(i) => InvoiceExists(i)' /\ invoices'[i].status = invoices[i].status
  PROVE  AnsweredIsKept'
<1> SUFFICES ASSUME NEW p \in answered
             PROVE  /\ intents'[p].status = "SUCCESS" /\ invoices'[intents'[p].invoice] # NoInvoice
                    /\ IF p \in paid THEN invoices'[intents'[p].invoice].status = "PAID"
                         ELSE invoices'[intents'[p].invoice].status = "EXPIRED" /\ now' > intents'[p].due
  BY DEF AnsweredIsKept, InvoiceExists
<1>1. intents[p].invoice \in InvoiceIds /\ intents[p].due \in Nat /\ Answers(intents[p].invoice)
  BY OpenedRow DEF Inv, Intent, Answers
<1>2. now > intents[p].due => now' > intents[p].due
  BY <1>1 DEF Inv, TypeOK, InvoicesTypeOK
<1>3. PICK i \in InvoiceIds : i = intents[p].invoice /\ i = intents'[p].invoice
  BY <1>1
<1> QED
  BY <1>1, <1>2, <1>3 DEF AnsweredIsKept, InvoiceExists

(* The rows an action may change while a request is served alone: none     *)
(* that is PAID or EXPIRED, and none becomes PAID.                         *)
PendingMoves ==
  \A i \in InvoiceIds :
    \/ invoices'[i] = invoices[i]
    \/ /\ InvoiceExists(i) => invoices[i].status = "PENDING"
       /\ InvoiceExists(i)' => i \in issued' /\ invoices'[i].status # "PAID"

LEMMA KeptSettled ==
  ASSUME AnsweredIsKept, NEW i, Answers(i)
  PROVE  InvoiceExists(i) /\ invoices[i].status \in {"PAID", "EXPIRED"}
BY DEF AnsweredIsKept, Answers

LEMMA ServedStays ==
  ASSUME Inv, Served, Exact, Eases, PendingMoves, issued \subseteq issued',
         UNCHANGED <<intents, answered, paid>>, now' \in {now, now + 1},
         \A p : InProgress(p) => InProgress(p)'
  PROVE  Served' /\ Exact' /\ Frozen
<1>1. Opened' = Opened
  BY DEF Opened
<1>2. ASSUME NEW i \in InvoiceIds, InvoiceExists(i), invoices[i].status # "PENDING"
      PROVE  invoices'[i] = invoices[i] /\ InvoiceExists(i)'
  BY <1>2 DEF PendingMoves, InvoiceExists
<1>3. AnsweredIsKept'
  <2>1. ASSUME NEW i \in InvoiceIds, Answers(i)
        PROVE  InvoiceExists(i)' /\ invoices'[i].status = invoices[i].status
    BY <1>2, <2>1, KeptSettled DEF Served
  <2> QED
    BY <2>1, KeptStays DEF Served, AnsweredIsKept
<1>4. \A i \in InvoiceIds : InvoiceExists(i)' => i \in issued'
  BY DEF PendingMoves, Served, InvoiceExists
<1>5. Served'
  BY <1>1, <1>3, <1>4 DEF Served, Eases
<1>6. ASSUME Gentle', NEW p \in Opened, ~InProgress(p)' PROVE intents[p].status = "SUCCESS" <=> p \in answered
  BY <1>6 DEF Eases, Exact
<1>7. ASSUME Gentle', NEW i \in InvoiceIds, InvoiceExists(i)', invoices'[i].status = "PAID" PROVE Answers(i)
  BY <1>7 DEF Eases, Exact, PendingMoves, InvoiceExists
<1>8. Exact'
  BY <1>1, <1>6, <1>7 DEF Exact, Eases, Answers
<1> QED
  BY <1>2, <1>5, <1>8 DEF Frozen

LEMMA SameMoves ==
  ASSUME UNCHANGED invoices
  PROVE  PendingMoves
BY DEF PendingMoves

LEMMA NoneInProgress ==
  ASSUME OneAtATime, NEW s \in Sessions, ~At(s, "saveInvoice"), ~At(s, "undoIntent")
  PROVE  \A p : ~InProgress(p)
BY DEF OneAtATime, InProgress

(* The save of an invoice that is pending, with another status than PAID.  *)
LEMMA SaveMoves ==
  ASSUME Inv, Served, NEW i \in InvoiceIds, NEW row \in Invoice, Waiting(i), row.status # "PAID",
         invoices' = invoices \/ invoices' = InvoiceSave(i, row), UNCHANGED issued
  PROVE  PendingMoves
<1>1. \A j \in InvoiceIds : invoices'[j] = invoices[j] \/ (j = i /\ invoices'[j] = row)
  BY DEF Inv, TypeOK, InvoicesTypeOK, InvoiceSave
<1>2. InvoiceExists(i) /\ invoices[i].status = "PENDING" /\ i \in issued
  BY DEF Waiting, Served
<1> QED
  BY <1>1, <1>2 DEF PendingMoves

LEMMA KnownNow ==
  ASSUME Inv, CallsKnown, NEW s \in Sessions, NEW step \in Steps, At(s, step)
  PROVE  calls[s] \in Call /\ Fits(calls[s]) /\ Known(calls[s]) /\ calls[s].step = step
BY CallFits DEF CallsKnown, At

-----------------------------------------------------------------------------
(* The actions, one lemma each.                                            *)

LEMMA CreateInvoiceSerial ==
  ASSUME OneAtATime, Inv, SerialInv, NEW s \in Sessions, NEW i \in InvoiceIds, NEW a \in Amounts, NEW d \in Dues,
         CreateInvoice(s, i, a, d)
  PROVE  SerialInv' /\ Frozen
<1> DEFINE row == [amount |-> a, status |-> "PENDING", due |-> d]
<1> USE DEF SerialInv
<1>1. /\ At(s, "idle") /\ i \notin issued
      /\ invoices' = [invoices EXCEPT ![i] = row] /\ issued' = issued \cup {i}
      /\ UNCHANGED <<now, intents, calls, confirmed, answered, paid>>
  BY DEF CreateInvoice, InvoiceCreate
<1>2. Eases
  BY ReplyEases DEF CreateInvoice
<1>3. row.status = "PENDING"
  OBVIOUS
<1> HIDE DEF row
<1>4. /\ invoices'[i] = row
      /\ \A j \in InvoiceIds \ {i} : invoices'[j] = invoices[j]
  BY <1>1 DEF Inv, TypeOK, InvoicesTypeOK
<1>5. PendingMoves
  BY <1>1, <1>3, <1>4 DEF PendingMoves, Served
<1>6. \A p : InProgress(p) => InProgress(p)'
  BY <1>1, NoneInProgress DEF At
<1>7. CallsKnown'
  BY <1>1 DEF CallsKnown, OneAtATime, Active, At
<1> QED
  BY <1>1, <1>2, <1>5, <1>6, <1>7, ServedStays

(* A session begins a request, which has changed nothing yet.              *)
LEMMA BeginsServed ==
  ASSUME OneAtATime, Inv, SerialInv, NEW s \in Sessions, ~At(s, "saveInvoice"), ~At(s, "undoIntent"),
         Eases, UNCHANGED <<invoices, issued, now, intents, answered, paid>>, CallsKnown'
  PROVE  SerialInv' /\ Frozen
BY NoneInProgress, SameMoves, ServedStays DEF SerialInv

LEMMA OpenInvoiceSerial ==
  ASSUME OneAtATime, Inv, SerialInv, NEW s \in Sessions, NEW kind \in {"get", "checkUpdate", "checkDelete", "pay"},
         NEW i \in InvoiceIds, NEW p \in IntentIds \cup {NoIntent}, NEW a \in Amounts \cup {0}, NEW d \in Dues,
         OpenInvoice(s, kind, i, p, [amount |-> a, due |-> d])
  PROVE  SerialInv' /\ Frozen
<1> DEFINE c == [step |-> "load", kind |-> kind, id |-> i, loaded |-> NoInvoice, row |-> NoInvoice,
                 intent |-> p, due |-> 0, was |-> "PENDING", status |-> "PENDING",
                 ask |-> [amount |-> a, due |-> d]]
<1>1. c \in Call
  BY DEF Call, Steps, Kinds, IntentStatus
<1>2. c.step = "load" /\ c.kind = kind
  OBVIOUS
<1>3. calls' = [calls EXCEPT ![s] = c] /\ At(s, "idle")
  BY DEF OpenInvoice, Begin, Become
<1>4. UNCHANGED <<faults, invoices, issued, now, intents, confirmed, answered, paid>>
  BY DEF OpenInvoice
<1> HIDE DEF c
<1>5. Known(c)'
  BY <1>2 DEF Known, Outcomes, Settling
<1>6. CallsKnown'
  BY <1>1, <1>3, <1>5, CallKnown DEF Inv
<1> QED
  BY <1>3, <1>4, <1>6, SameEases, BeginsServed DEF SerialInv, At

LEMMA SimulateSerial ==
  ASSUME OneAtATime, Inv, SerialInv, NEW s \in Sessions, NEW p \in IntentIds, NEW kind \in {"succeed", "fail"},
         Simulate(s, p, kind)
  PROVE  SerialInv' /\ Frozen
<1>0. PICK i, st : i = intents[p].invoice /\ st = intents[p].status
  OBVIOUS
<1> DEFINE c == [step |-> "load", kind |-> kind, id |-> i, loaded |-> NoInvoice, row |-> NoInvoice,
                 intent |-> p, due |-> 0, was |-> st, status |-> st, ask |-> NoAsk]
<1>1. p \in Opened /\ i \in InvoiceIds /\ st \in IntentStatus
  BY <1>0, OpenedRow DEF Simulate, Inv, Intent
<1>2. c \in Call
  BY <1>1, InvoiceAssumption DEF Call, Steps, Kinds, NoAsk
<1>3. c.step = "load" /\ c.kind = kind /\ c.intent = p /\ c.was = st /\ c.status = st
  OBVIOUS
<1>4. calls' = [calls EXCEPT ![s] = c] /\ At(s, "idle")
  BY <1>0 DEF Simulate, Begin, Become
<1>5. UNCHANGED <<faults, invoices, issued, now, intents, confirmed, answered, paid>>
  BY DEF Simulate
<1>6. ~InProgress(p)
  BY <1>4, NoneInProgress DEF At
<1>7. (p \in answered => st = "SUCCESS") /\ (Gentle /\ st = "SUCCESS" => p \in answered)
  BY <1>0, <1>1, <1>6 DEF SerialInv, Served, AnsweredIsKept, Exact
<1> HIDE DEF c
<1>8. Known(c)'
  BY <1>3, <1>5, <1>7 DEF Known, IntentKnown, Settling, Gentle
<1>9. CallsKnown'
  BY <1>2, <1>4, <1>8, CallKnown DEF Inv
<1> QED
  BY <1>4, <1>5, <1>9, SameEases, BeginsServed DEF SerialInv, At

(* The session holds a page of rows the table has.                         *)
LEMMA PageCallKnown ==
  ASSUME OneAtATime, TypeOK, NEW s \in Sessions, NEW page,
         calls' = [calls EXCEPT ![s] = [step |-> "list", page |-> page]], PageKnown(page)'
  PROVE  CallsKnown'
<1>1. calls'[s].step = "list" /\ calls'[s].page = page /\ \A t \in Sessions : t = s
  BY DEF OneAtATime, TypeOK
<1>2. PageKnown(calls[s].page)'
  BY <1>1 DEF PageKnown, InvoiceExists
<1> QED
  BY <1>1, <1>2 DEF CallsKnown, Active, At

LEMMA ListInvoicesSerial ==
  ASSUME OneAtATime, Inv, SerialInv, NEW s \in Sessions, NEW page \in SUBSET InvoiceIds, ListInvoices(s, page)
  PROVE  SerialInv' /\ Frozen
<1>1. /\ At(s, "idle") /\ \A i \in page : InvoiceExists(i)
      /\ calls' = [calls EXCEPT ![s] = [step |-> "list", page |-> [i \in page |-> invoices[i]]]]
      /\ UNCHANGED <<faults, invoices, issued, now, intents, confirmed, answered, paid>>
  BY DEF ListInvoices, Become
<1>2. PageKnown([i \in page |-> invoices[i]])'
  BY <1>1 DEF PageKnown, InvoiceExists
<1>3. CallsKnown'
  BY <1>1, <1>2, PageCallKnown DEF Inv
<1> QED
  BY <1>1, <1>3, SameEases, BeginsServed DEF SerialInv, At

LEMMA RefreshListedSerial ==
  ASSUME OneAtATime, Inv, SerialInv, NEW s \in Sessions, NEW i \in InvoiceIds, RefreshListed(s, i)
  PROVE  SerialInv' /\ Frozen
<1> USE DEF SerialInv
<1> DEFINE page == calls[s].page
           rest == [j \in DOMAIN page \ {i} |-> page[j]]
<1>1. At(s, "list") /\ i \in DOMAIN page /\ UNCHANGED <<issued, now, intents, confirmed, answered, paid>>
  BY DEF RefreshListed
<1>2. PICK r \in Replies :
        /\ Reply(r)
        /\ invoices' = invoices \/ (Overdue(page[i]) /\ invoices' = InvoiceSave(i, Expired(page[i])))
        /\ Become(s, [step |-> "list", page |-> rest]) \/ Return(s)
  BY DEF RefreshListed
<1>3. calls[s] \in Listing
  BY <1>1 DEF Inv, TypeOK, At, Idle, Call, Steps
<1>4. PICK S \in SUBSET InvoiceIds : page \in [S -> Invoice]
  BY <1>3 DEF Listing
<1>5. /\ page[i] \in Invoice /\ InvoiceExists(i) /\ invoices[i] = page[i]
      /\ DOMAIN page \subseteq InvoiceIds /\ PageKnown(page)
  BY <1>1, <1>4 DEF CallsKnown, PageKnown
<1>6. PendingMoves
  <2>1. CASE Overdue(page[i]) /\ invoices' = InvoiceSave(i, Expired(page[i]))
    BY <1>1, <1>5, <2>1, ExpiredRow, SaveMoves DEF Overdue, Waiting
  <2> QED
    BY <1>2, <2>1, SameMoves
<1>7. \A j \in InvoiceIds \ {i} : invoices'[j] = invoices[j]
  BY <1>2 DEF Inv, TypeOK, InvoicesTypeOK, InvoiceSave
<1>8. CallsKnown'
  <2>1. CASE Become(s, [step |-> "list", page |-> rest])
    <3>1. PICK q : q = rest
      OBVIOUS
    <3>2. DOMAIN q = DOMAIN page \ {i} /\ \A j \in DOMAIN q : q[j] = page[j]
      BY <3>1
    <3>3. PageKnown(q)'
      BY <1>5, <1>7, <3>2 DEF PageKnown, InvoiceExists
    <3>4. calls' = [calls EXCEPT ![s] = [step |-> "list", page |-> q]]
      BY <2>1, <3>1 DEF Become
    <3> QED
      BY <3>3, <3>4, PageCallKnown DEF Inv
  <2> QED
    BY <1>2, <2>1, RestKnown DEF Inv
<1>9. Eases /\ \A p : ~InProgress(p)
  BY <1>1, <1>2, ReplyEases, NoneInProgress DEF At
<1> QED
  BY <1>1, <1>6, <1>8, <1>9, ServedStays

(* A request that holds the row the table has goes on as its kind says.    *)
LEMMA ProceedKnown ==
  ASSUME OneAtATime, Inv, CallsKnown, NEW s \in Sessions, At(s, "load") \/ At(s, "expire"),
         NEW row \in Invoice, Proceed(s, row), invoices'[calls[s].id] = row,
         Eases, UNCHANGED <<intents, answered, paid>>
  PROVE  CallsKnown'
<1>1. calls[s] \in Call /\ Known(calls[s])
  BY KnownNow DEF Steps
<1>2. PICK c : c = [calls[s] EXCEPT !.row = NoInvoice]
  OBVIOUS
<1>3. /\ c \in Call /\ c.kind = calls[s].kind /\ c.id = calls[s].id /\ c.intent = calls[s].intent
      /\ c.was = calls[s].was /\ c.status = calls[s].status
  BY <1>1, <1>2 DEF Call
<1>4. PICK i \in InvoiceIds : i = c.id
  BY <1>3 DEF Call
<1>5. invoices'[i] = row /\ InvoiceExists(i)'
  BY <1>3, <1>4, NoInvoiceIsNoRow DEF InvoiceExists
<1>6. row.status = "PENDING" => Waiting(i)'
  BY <1>5 DEF Waiting
<1>7. \/ Return(s)
      \/ /\ c.kind = "checkUpdate"
         /\ Become(s, [c EXCEPT !.step = "load", !.kind = "update",
                                !.ask.due = IF @ = 0 THEN row.due ELSE @])
      \/ c.kind = "checkDelete" /\ Become(s, [c EXCEPT !.step = "load", !.kind = "delete"])
      \/ /\ c.kind = "update" /\ row.status = "PENDING"
         /\ Become(s, [c EXCEPT !.step = "saveUpdate", !.ask = NoAsk,
                                !.row = [row EXCEPT !.amount = c.ask.amount, !.due = c.ask.due]])
      \/ c.kind = "delete" /\ row.status = "PENDING" /\ Become(s, [c EXCEPT !.step = "delete"])
      \/ c.kind = "pay" /\ Become(s, [c EXCEPT !.step = "insertIntent", !.due = now + Window])
      \/ /\ c.kind \in {"succeed", "fail"}
         /\ Become(s, [c EXCEPT !.step = "decide", !.loaded = row, !.row = row])
  BY <1>2 DEF Proceed
<1>8. /\ calls[s].step = "load" \/ calls[s].step = "expire"
      /\ Fits(calls[s])
  BY KnownNow DEF At, Steps
<1>9. CASE /\ c.kind = "checkUpdate"
           /\ Become(s, [c EXCEPT !.step = "load", !.kind = "update",
                                  !.ask.due = IF @ = 0 THEN row.due ELSE @])
  <2> DEFINE d == [c EXCEPT !.step = "load", !.kind = "update",
                            !.ask.due = IF @ = 0 THEN row.due ELSE @]
  <2>1. d \in Call /\ d.step = "load" /\ d.kind = "update"
    BY <1>3 DEF Call, Steps, Kinds, Invoice
  <2>2. calls' = [calls EXCEPT ![s] = d]
    BY <1>9 DEF Become
  <2> HIDE DEF d
  <2>3. Known(d)'
    BY <2>1 DEF Known, Settling, Outcomes
  <2> QED
    BY <2>1, <2>2, <2>3, CallKnown DEF Inv
<1>10. CASE c.kind = "checkDelete" /\ Become(s, [c EXCEPT !.step = "load", !.kind = "delete"])
  <2> DEFINE d == [c EXCEPT !.step = "load", !.kind = "delete"]
  <2>1. d \in Call /\ d.step = "load" /\ d.kind = "delete"
    BY <1>3 DEF Call, Steps, Kinds
  <2>2. calls' = [calls EXCEPT ![s] = d]
    BY <1>10 DEF Become
  <2> HIDE DEF d
  <2>3. Known(d)'
    BY <2>1 DEF Known, Settling, Outcomes
  <2> QED
    BY <2>1, <2>2, <2>3, CallKnown DEF Inv
<1>11. CASE /\ c.kind = "update" /\ row.status = "PENDING"
            /\ Become(s, [c EXCEPT !.step = "saveUpdate", !.ask = NoAsk,
                                   !.row = [row EXCEPT !.amount = c.ask.amount, !.due = c.ask.due]])
  <2> DEFINE new == [row EXCEPT !.amount = c.ask.amount, !.due = c.ask.due]
             d == [c EXCEPT !.step = "saveUpdate", !.ask = NoAsk, !.row = new]
  <2>1. c.ask.amount \in Price /\ c.ask.due \in Dues
    BY <1>1, <1>2, <1>8, <1>11 DEF Fits, Call
  <2>2. new \in Invoice /\ new.status = "PENDING"
    BY <1>11, <2>1 DEF Invoice, Price
  <2> HIDE DEF new
  <2>3. d \in Call /\ d.step = "saveUpdate" /\ d.kind = "update" /\ d.row = new /\ d.id = i
    BY <1>3, <1>4, <1>11, <2>2, InvoiceAssumption DEF Call, Steps, NoAsk
  <2>4. calls' = [calls EXCEPT ![s] = d]
    BY <1>11 DEF Become, new
  <2> HIDE DEF d
  <2>5. Known(d)'
    BY <1>6, <1>11, <2>2, <2>3 DEF Known, Settling, Outcomes
  <2> QED
    BY <2>3, <2>4, <2>5, CallKnown DEF Inv
<1>12. CASE c.kind = "delete" /\ row.status = "PENDING" /\ Become(s, [c EXCEPT !.step = "delete"])
  <2> DEFINE d == [c EXCEPT !.step = "delete"]
  <2>1. d \in Call /\ d.step = "delete" /\ d.kind = "delete" /\ d.id = i
    BY <1>3, <1>4, <1>12 DEF Call, Steps
  <2>2. calls' = [calls EXCEPT ![s] = d]
    BY <1>12 DEF Become
  <2> HIDE DEF d
  <2>3. Known(d)'
    BY <1>6, <1>12, <2>1 DEF Known, Settling, Outcomes
  <2> QED
    BY <2>1, <2>2, <2>3, CallKnown DEF Inv
<1>13. CASE c.kind = "pay" /\ Become(s, [c EXCEPT !.step = "insertIntent", !.due = now + Window])
  <2>0. PICK d : d = [c EXCEPT !.step = "insertIntent", !.due = now + Window]
    OBVIOUS
  <2>1. d \in Call /\ d.step = "insertIntent" /\ d.kind = "pay"
    BY <1>3, <1>13, <2>0, NewDue DEF Call, Steps, Inv
  <2>2. calls' = [calls EXCEPT ![s] = d]
    BY <1>13, <2>0 DEF Become
  <2>3. Known(d)'
    BY <2>1 DEF Known, Settling, Outcomes
  <2> QED
    BY <2>1, <2>2, <2>3, CallKnown DEF Inv
<1>14. CASE /\ c.kind \in {"succeed", "fail"}
            /\ Become(s, [c EXCEPT !.step = "decide", !.loaded = row, !.row = row])
  <2> DEFINE d == [c EXCEPT !.step = "decide", !.loaded = row, !.row = row]
  <2>1. /\ d \in Call /\ d.step = "decide" /\ d.kind = c.kind /\ d.intent = c.intent
        /\ d.id = i /\ d.row = row /\ d.loaded = row /\ d.was = c.was /\ d.status = c.status
    BY <1>3, <1>4 DEF Call, Steps
  <2>2. calls' = [calls EXCEPT ![s] = d]
    BY <1>14 DEF Become
  <2> HIDE DEF d
  <2>3. IntentKnown(d)'
    <3>1. IntentKnown(calls[s])
      BY <1>1, <1>3, <1>14 DEF Known, Outcomes
    <3> QED
      BY <1>3, <1>8, <1>14, <2>1, <3>1 DEF IntentKnown, Eases
  <2>4. InvoiceKnown(d)'
    BY <1>5, <2>1 DEF InvoiceKnown, Undoing
  <2>5. Known(d)'
    BY <2>1, <2>3, <2>4 DEF Known
  <2> QED
    BY <2>1, <2>2, <2>5, CallKnown DEF Inv
<1> QED
  BY <1>7, <1>9, <1>10, <1>11, <1>12, <1>13, <1>14, RestKnown DEF Inv

LEMMA LoadInvoiceSerial ==
  ASSUME OneAtATime, Inv, SerialInv, NEW s \in Sessions, LoadInvoice(s)
  PROVE  SerialInv' /\ Frozen
<1> USE DEF SerialInv
<1>1. At(s, "load") /\ UNCHANGED <<invoices, issued, now, intents, confirmed, answered, paid>>
  BY DEF LoadInvoice
<1>2. PICK i, row : i = calls[s].id /\ row = invoices[i]
  OBVIOUS
<1>3. PICK r \in Replies :
        /\ Reply(r)
        /\ \/ Return(s)
           \/ row # NoInvoice /\ Proceed(s, row)
           \/ /\ row # NoInvoice /\ Overdue(row)
              /\ Become(s, [calls[s] EXCEPT !.step = "expire", !.row = Expired(row)])
  BY <1>2 DEF LoadInvoice
<1>4. calls[s] \in Call /\ Known(calls[s]) /\ calls[s].step = "load"
  BY <1>1, KnownNow DEF Steps
<1>5. i \in InvoiceIds /\ (row # NoInvoice => row \in Invoice)
  BY <1>2, <1>4, InvoiceRow DEF InvoiceExists, Inv, Call
<1>6. Eases
  BY <1>3, ReplyEases
<1>7. Served'
  BY <1>1, <1>6, NoneInProgress, SameMoves, ServedStays DEF At
<1>8. CallsKnown'
  <2>1. CASE Return(s)
    BY <2>1, RestKnown DEF Inv
  <2>2. CASE row # NoInvoice /\ Proceed(s, row)
    BY <1>1, <1>2, <1>5, <1>6, <1>7, <2>2, ProceedKnown DEF Served
  <2>3. CASE /\ row # NoInvoice /\ Overdue(row)
             /\ Become(s, [calls[s] EXCEPT !.step = "expire", !.row = Expired(row)])
    <3>1. PICK new : new = Expired(row)
      OBVIOUS
    <3>2. new \in Invoice /\ Waiting(i)' /\ invoices'[i] = row
      BY <1>1, <1>2, <1>5, <2>3, <3>1, ExpiredRow DEF Waiting, Overdue, InvoiceExists
    <3>3. PICK d : d = [calls[s] EXCEPT !.step = "expire", !.row = new]
      OBVIOUS
    <3>4. /\ d \in Call /\ d.step = "expire" /\ d.row = new /\ d.id = i
          /\ d.kind = calls[s].kind /\ d.intent = calls[s].intent
          /\ d.was = calls[s].was /\ d.status = calls[s].status
      BY <1>2, <1>4, <3>2, <3>3 DEF Call, Steps
    <3>5. calls' = [calls EXCEPT ![s] = d]
      BY <2>3, <3>1, <3>3 DEF Become
    <3>6. IntentKnown(calls[s]) => IntentKnown(d)'
      BY <1>1, <1>4, <1>6, <3>4 DEF IntentKnown, Eases
    <3>7. Known(d)'
      BY <1>4, <3>1, <3>2, <3>4, <3>6 DEF Known, Settling, Expired
    <3> QED
      BY <3>4, <3>5, <3>7, CallKnown DEF Inv
  <2> QED
    BY <1>3, <2>1, <2>2, <2>3
<1> QED
  BY <1>1, <1>6, <1>8, BeginsServed DEF At

LEMMA ExpireInvoiceSerial ==
  ASSUME OneAtATime, Inv, SerialInv, NEW s \in Sessions, ExpireInvoice(s)
  PROVE  SerialInv' /\ Frozen
<1> USE DEF SerialInv
<1>1. At(s, "expire") /\ UNCHANGED <<issued, now, intents, confirmed, answered, paid>>
  BY DEF ExpireInvoice
<1>2. PICK i, row : i = calls[s].id /\ row = calls[s].row
  OBVIOUS
<1>3. PICK r \in Replies :
        /\ Reply(r)
        /\ \/ Return(s)
           \/ r = "ok" /\ Proceed(s, row)
        /\ invoices' = IF Executed(r) THEN InvoiceSave(i, row) ELSE invoices
  BY <1>2 DEF ExpireInvoice
<1>4. /\ calls[s] \in Call /\ Known(calls[s]) /\ Fits(calls[s]) /\ calls[s].step = "expire"
      /\ i \in InvoiceIds /\ row \in Invoice
  BY <1>1, <1>2, KnownNow DEF Steps, Fits, Call
<1>5. Waiting(i) /\ row = Expired(invoices[i]) /\ row.status = "EXPIRED"
  BY <1>2, <1>4, InvoiceRow, ExpiredRow DEF Known, Waiting, Inv
<1>6. PendingMoves
  BY <1>1, <1>3, <1>4, <1>5, SaveMoves
<1>7. Eases /\ \A p : ~InProgress(p)
  BY <1>1, <1>3, ReplyEases, NoneInProgress DEF At
<1>8. Served' /\ Exact' /\ Frozen
  BY <1>1, <1>6, <1>7, ServedStays
<1>9. CallsKnown'
  <2>1. CASE r = "ok" /\ Proceed(s, row)
    <3>1. invoices'[calls[s].id] = row
      BY <1>2, <1>3, <1>4, <1>5, <2>1 DEF Executed, InvoiceSave, Waiting, Inv, TypeOK, InvoicesTypeOK
    <3> QED
      BY <1>1, <1>4, <1>7, <1>8, <2>1, <3>1, ProceedKnown DEF Served
  <2> QED
    BY <1>3, <2>1, RestKnown DEF Inv
<1> QED
  BY <1>8, <1>9

LEMMA SaveUpdateSerial ==
  ASSUME OneAtATime, Inv, SerialInv, NEW s \in Sessions, SaveUpdate(s)
  PROVE  SerialInv' /\ Frozen
<1> USE DEF SerialInv
<1> DEFINE i == calls[s].id
           row == calls[s].row
<1>1. At(s, "saveUpdate") /\ Return(s) /\ UNCHANGED <<issued, now, intents, confirmed, answered, paid>>
  BY DEF SaveUpdate
<1>2. PICK r \in Replies : Reply(r) /\ (invoices' = invoices \/ invoices' = InvoiceSave(i, row))
  BY DEF SaveUpdate
<1>3. i \in InvoiceIds /\ row \in Invoice /\ Waiting(i) /\ row.status = "PENDING"
  BY <1>1, KnownNow DEF Steps, Fits, Call, Known
<1>4. PendingMoves
  BY <1>1, <1>2, <1>3, SaveMoves
<1> QED
  BY <1>1, <1>2, <1>4, ReplyEases, NoneInProgress, ServedStays, RestKnown DEF At, Inv

LEMMA RemoveInvoiceSerial ==
  ASSUME OneAtATime, Inv, SerialInv, NEW s \in Sessions, RemoveInvoice(s)
  PROVE  SerialInv' /\ Frozen
<1> USE DEF SerialInv
<1> DEFINE i == calls[s].id
<1>1. At(s, "delete") /\ Return(s) /\ UNCHANGED <<issued, now, intents, confirmed, answered, paid>>
  BY DEF RemoveInvoice
<1>2. PICK r \in Replies : Reply(r) /\ (invoices' = invoices \/ invoices' = [invoices EXCEPT ![i] = NoInvoice])
  BY DEF RemoveInvoice, InvoiceDeleteRestricted, InvoiceDelete
<1>3. i \in InvoiceIds /\ Waiting(i)
  BY <1>1, KnownNow DEF Steps, Call, Known
<1>4. PendingMoves
  BY <1>2, <1>3 DEF PendingMoves, Waiting, InvoiceExists, Inv, TypeOK, InvoicesTypeOK
<1> QED
  BY <1>1, <1>2, <1>4, ReplyEases, NoneInProgress, ServedStays, RestKnown DEF At, Inv

LEMMA SettleKnown ==
  ASSUME OneAtATime, Inv, CallsKnown, NEW s \in Sessions, At(s, "decide"), NEW kind \in Outcomes,
         NEW st \in IntentStatus, NEW invoiceSt \in InvoiceStatus, Settle(s, kind, st, invoiceSt),
         \A d \in Call : /\ d.kind = kind /\ d.status = st /\ d.was = calls[s].was
                         /\ d.loaded = calls[s].loaded
                         /\ d.row = [calls[s].loaded EXCEPT !.status = invoiceSt]
                         => Decided(d),
         kind = "overdue" => now > intents[calls[s].intent].due,
         UNCHANGED <<faults, invoices, now, intents, answered, paid>>
  PROVE  CallsKnown'
<1>1. /\ calls[s] \in Call /\ Known(calls[s]) /\ calls[s].step = "decide"
      /\ calls[s].row \in Invoice /\ calls[s].kind \in Outcomes
  BY KnownNow DEF Steps, Fits, Settling
<1>2. InvoiceKnown(calls[s]) /\ IntentKnown(calls[s])
  BY <1>1 DEF Known, Settling
<1>3. PICK new : new = [calls[s].row EXCEPT !.status = invoiceSt]
  OBVIOUS
<1>4. PICK d : d = [calls[s] EXCEPT !.step = "saveIntent", !.kind = kind, !.status = st, !.row.status = invoiceSt]
  OBVIOUS
<1>5. new \in Invoice /\ d.row = new
  BY <1>1, <1>3, <1>4 DEF Invoice, Call
<1>6. /\ d \in Call /\ d.step = "saveIntent" /\ d.kind = kind /\ d.status = st
      /\ d.id = calls[s].id /\ d.intent = calls[s].intent /\ d.loaded = calls[s].loaded /\ d.was = calls[s].was
  BY <1>1, <1>4, <1>5 DEF Call, Steps, Kinds, Outcomes
<1>7. calls' = [calls EXCEPT ![s] = d]
  BY <1>4 DEF Settle, Become
<1>8. Decided(d)
  BY <1>1, <1>2, <1>3, <1>5, <1>6 DEF InvoiceKnown
<1>9. IntentKnown(d)'
  BY <1>2, <1>6 DEF IntentKnown, Gentle
<1>10. InvoiceKnown(d)'
  BY <1>1, <1>2, <1>6, <1>8 DEF InvoiceKnown, Undoing, Answers, Decided
<1>11. Known(d)'
  BY <1>6, <1>9, <1>10 DEF Known
<1> QED
  BY <1>6, <1>7, <1>11, CallKnown DEF Inv

LEMMA DecideSerial ==
  ASSUME OneAtATime, Inv, SerialInv, NEW s \in Sessions, DecideOverdue(s) \/ DecideSuccess(s) \/ DecideFailed(s)
  PROVE  SerialInv' /\ Frozen
<1> USE DEF SerialInv
<1>1. At(s, "decide") /\ UNCHANGED <<faults, invoices, issued, now, intents, confirmed, answered, paid>>
  BY DEF DecideOverdue, DecideSuccess, DecideFailed
<1>2. PICK c : c = calls[s]
  OBVIOUS
<1>3. c \in Call /\ Known(c) /\ c.step = "decide" /\ c.row \in Invoice /\ c.kind \in Outcomes
  BY <1>1, <1>2, KnownNow DEF Steps, Fits, Settling
<1>4. c.status = c.was /\ c.row = c.loaded
  BY <1>3 DEF Known, IntentKnown, InvoiceKnown, Settling
<1>5. c.row.status \in InvoiceStatus /\ c.status \in IntentStatus
  BY <1>3 DEF Invoice, Call
<1>6. CASE DecideOverdue(s)
  <2>1. PICK st, invoiceSt : /\ st = IF IntentCanFail(c.status) THEN "FAILED" ELSE c.status
                             /\ invoiceSt = IF InvoiceCanExpire(c.row.status) THEN "EXPIRED" ELSE c.row.status
    OBVIOUS
  <2>2. st \in IntentStatus /\ invoiceSt \in InvoiceStatus /\ "overdue" \in Outcomes
    BY <1>5, <2>1 DEF IntentStatus, InvoiceStatus, Outcomes
  <2>3. Settle(s, "overdue", st, invoiceSt)
    BY <1>2, <1>6, <2>1 DEF DecideOverdue
  <2>4. ASSUME NEW d \in Call, d.kind = "overdue", d.status = st, d.was = c.was, d.loaded = c.loaded,
               d.row = [c.loaded EXCEPT !.status = invoiceSt]
        PROVE  Decided(d)
    BY <1>3, <1>4, <2>1, <2>4 DEF Decided, Invoice
  <2>5. CallsKnown'
    BY <1>1, <1>2, <1>6, <2>2, <2>3, <2>4, SettleKnown DEF DecideOverdue
  <2> QED
    BY <1>1, <2>5, SameEases, BeginsServed DEF At
<1>7. CASE DecideSuccess(s)
  <2>1. CASE Return(s)
    BY <1>1, <2>1, RestKnown, SameEases, BeginsServed DEF At, Inv
  <2>2. CASE c.kind = "succeed" /\ InvoiceCanBePaid(c.row.status) /\ Settle(s, c.kind, "SUCCESS", "PAID")
    <3>1. ASSUME NEW d \in Call, d.kind = "succeed", d.status = "SUCCESS", d.was = c.was, d.loaded = c.loaded,
                 d.row = [c.loaded EXCEPT !.status = "PAID"]
          PROVE  Decided(d)
      BY <1>4, <2>2, <3>1 DEF Decided
    <3>2. /\ "succeed" \in Outcomes /\ "SUCCESS" \in IntentStatus /\ "PAID" \in InvoiceStatus
          /\ Settle(s, "succeed", "SUCCESS", "PAID")
      BY <2>2 DEF Outcomes, IntentStatus, InvoiceStatus
    <3>3. CallsKnown'
      BY <1>1, <1>2, <3>1, <3>2, SettleKnown
    <3> QED
      BY <1>1, <3>3, SameEases, BeginsServed DEF At
  <2> QED
    BY <1>2, <1>7, <2>1, <2>2 DEF DecideSuccess
<1>8. CASE DecideFailed(s)
  <2>1. CASE Return(s)
    BY <1>1, <2>1, RestKnown, SameEases, BeginsServed DEF At, Inv
  <2>2. CASE c.kind = "fail" /\ IntentCanFail(c.status) /\ Settle(s, c.kind, "FAILED", c.row.status)
    <3>1. ASSUME NEW d \in Call, d.kind = "fail", d.status = "FAILED", d.was = c.was, d.loaded = c.loaded,
                 d.row = [c.loaded EXCEPT !.status = c.row.status]
          PROVE  Decided(d)
      BY <1>3, <1>4, <2>2, <3>1 DEF Decided, Invoice
    <3>2. "fail" \in Outcomes /\ "FAILED" \in IntentStatus /\ Settle(s, "fail", "FAILED", c.row.status)
      BY <2>2 DEF Outcomes, IntentStatus
    <3>3. CallsKnown'
      BY <1>1, <1>2, <1>5, <3>1, <3>2, SettleKnown
    <3> QED
      BY <1>1, <3>3, SameEases, BeginsServed DEF At
  <2> QED
    BY <1>2, <1>8, <2>1, <2>2 DEF DecideFailed
<1> QED
  BY <1>6, <1>7, <1>8

-----------------------------------------------------------------------------
(* The steps that save what was decided, or roll it back.                  *)

LEMMA GoToCall ==
  ASSUME NEW s \in Sessions, calls[s] \in Call, NEW step \in Steps, GoTo(s, step)
  PROVE  \E c \in Call : /\ calls' = [calls EXCEPT ![s] = c]
                         /\ c.step = step /\ c.kind = calls[s].kind /\ c.id = calls[s].id
                         /\ c.row = calls[s].row /\ c.loaded = calls[s].loaded
                         /\ c.intent = calls[s].intent
                         /\ c.was = calls[s].was /\ c.status = calls[s].status
<1> DEFINE d == [calls[s] EXCEPT !.step = step]
<1>1. /\ d \in Call /\ d.step = step /\ d.kind = calls[s].kind /\ d.id = calls[s].id
      /\ d.row = calls[s].row /\ d.loaded = calls[s].loaded /\ d.intent = calls[s].intent
      /\ d.was = calls[s].was /\ d.status = calls[s].status
  BY DEF Call
<1>2. calls' = [calls EXCEPT ![s] = d]
  BY DEF GoTo
<1> HIDE DEF d
<1> QED
  BY <1>1, <1>2

LEMMA SettlingKnown ==
  ASSUME Inv, SerialInv, NEW s \in Sessions, NEW step \in Settling, At(s, step)
  PROVE  /\ calls[s] \in Call /\ calls[s].step = step /\ calls[s].kind \in Outcomes
         /\ IntentKnown(calls[s]) /\ InvoiceKnown(calls[s])
         /\ calls[s].id \in InvoiceIds /\ calls[s].row \in Invoice /\ calls[s].loaded \in Invoice
         /\ calls[s].intent \in Opened /\ intents[calls[s].intent].invoice = calls[s].id
         /\ InvoiceExists(calls[s].id)
         /\ calls[s].status \in IntentStatus /\ calls[s].was \in IntentStatus
<1>1. Known(calls[s]) /\ calls[s].step = step
  BY KnownNow DEF Steps, Settling, SerialInv
<1>2. /\ calls[s] \in Call /\ calls[s].kind \in Outcomes
      /\ calls[s].id \in InvoiceIds /\ calls[s].row \in Invoice /\ calls[s].loaded \in Invoice
      /\ calls[s].intent \in IntentsOf(calls[s].id)
      /\ calls[s].status \in IntentStatus /\ calls[s].was \in IntentStatus
  BY SettlingFits
<1>3. InvoiceExists(calls[s].id)
  BY <1>2 DEF IntentsOf, Inv, Tables, IntentHasInvoice
<1> QED
  BY <1>1, <1>2, <1>3 DEF Known, IntentsOf

LEMMA IntentSaved ==
  ASSUME Inv, Served, Eases, NEW p \in Opened, NEW st \in IntentStatus, p \in answered => st = "SUCCESS",
         intents' = intents \/ intents' = IntentSave(p, st), UNCHANGED <<invoices, issued, now, answered, paid>>
  PROVE  /\ Served' /\ Frozen /\ Opened' = Opened
         /\ \A q \in Opened : /\ intents'[q].invoice = intents[q].invoice /\ intents'[q].due = intents[q].due
                              /\ q # p => intents'[q] = intents[q]
         /\ intents' = IntentSave(p, st) => intents'[p].status = st
         /\ \A i : Answers(i)' <=> Answers(i)
<1>1. p \in IntentIds /\ intents[p] \in Intent /\ intents \in [IntentIds -> Intent \cup {NoIntent}]
  BY OpenedRow DEF Inv, TypeOK
<1>2. PICK row : row = [intents[p] EXCEPT !.status = st]
  OBVIOUS
<1>3. /\ row \in Intent /\ row.invoice = intents[p].invoice /\ row.due = intents[p].due
      /\ row.status = st
  BY <1>1, <1>2 DEF Intent
<1>4. intents' = IntentSave(p, st) => intents' = [intents EXCEPT ![p] = row]
  BY <1>2 DEF IntentSave
<1>5. row # NoIntent
  BY <1>3, NoIntentIsNoRow
<1>6. /\ Opened' = Opened
      /\ \A q \in Opened : /\ intents'[q].invoice = intents[q].invoice /\ intents'[q].due = intents[q].due
                           /\ q # p => intents'[q] = intents[q]
      /\ intents' = IntentSave(p, st) => intents'[p].status = st
  BY <1>1, <1>3, <1>4, <1>5 DEF Opened
<1>7. \A i : Answers(i)' <=> Answers(i)
  BY <1>6 DEF Answers, Served
<1>8. AnsweredIsKept'
  <2>1. \A q \in answered : intents'[q].status = "SUCCESS"
    BY <1>6 DEF Served, AnsweredIsKept
  <2>2. ASSUME NEW i \in InvoiceIds, Answers(i)
        PROVE  InvoiceExists(i)' /\ invoices'[i].status = invoices[i].status
    BY <2>2, KeptSettled DEF Served, InvoiceExists
  <2> QED
    BY <1>6, <2>1, <2>2, KeptStays DEF Served
<1>9. Served'
  BY <1>6, <1>8 DEF Served, Eases, InvoiceExists
<1> QED
  BY <1>6, <1>7, <1>9 DEF Frozen

LEMMA SaveIntentSerial ==
  ASSUME OneAtATime, Inv, SerialInv, NEW s \in Sessions, SaveIntent(s)
  PROVE  SerialInv' /\ Frozen
<1> USE DEF SerialInv
<1>1. At(s, "saveIntent") /\ UNCHANGED <<invoices, issued, now, answered, paid>>
  BY DEF SaveIntent
<1>2. PICK c : c = calls[s]
  OBVIOUS
<1>3. PICK r \in Replies :
        /\ Reply(r)
        /\ IF r = "ok" THEN GoTo(s, "saveInvoice") ELSE Return(s)
        /\ intents' = IF Executed(r) THEN IntentSave(c.intent, c.status) ELSE intents
  BY <1>2 DEF SaveIntent, WriteIntent
<1>4. /\ c \in Call /\ c.step = "saveIntent" /\ c.kind \in Outcomes /\ IntentKnown(c) /\ InvoiceKnown(c)
      /\ c.id \in InvoiceIds /\ c.intent \in Opened /\ c.status \in IntentStatus
  BY <1>1, <1>2, SettlingKnown DEF Settling
<1>5. /\ Eases
      /\ Gentle' => (r = "ok" /\ faults' = faults) \/ r = "lost"
  BY <1>3, ReplyEases
<1>6. Decided(c)
  BY <1>4 DEF InvoiceKnown
<1>7. c.intent \in answered => c.status = "SUCCESS"
  BY <1>4, <1>6 DEF Decided, IntentKnown, IntentCanFail
<1>8. intents' = intents \/ intents' = IntentSave(c.intent, c.status)
  BY <1>3
<1>9. /\ Served' /\ Frozen /\ Opened' = Opened
      /\ \A q \in Opened : q # c.intent => intents'[q] = intents[q]
      /\ intents'[c.intent].due = intents[c.intent].due
      /\ intents' = IntentSave(c.intent, c.status) => intents'[c.intent].status = c.status
      /\ \A i : Answers(i)' <=> Answers(i)
  BY <1>1, <1>4, <1>5, <1>7, <1>8, IntentSaved
<1>10. \A p : ~InProgress(p)
  BY <1>1, NoneInProgress DEF At
<1>11. CASE r = "ok"
  <2>1. PICK d \in Call : /\ calls' = [calls EXCEPT ![s] = d]
                         /\ d.step = "saveInvoice" /\ d.kind = c.kind /\ d.id = c.id
                         /\ d.row = c.row /\ d.loaded = c.loaded /\ d.intent = c.intent
                         /\ d.was = c.was /\ d.status = c.status
    BY <1>2, <1>3, <1>4, <1>11, GoToCall DEF Steps
  <2>2. intents'[d.intent].status = d.status
    BY <1>3, <1>9, <1>11, <2>1 DEF Executed
  <2>3. IntentKnown(d)'
    BY <1>1, <1>4, <1>5, <1>9, <2>1, <2>2 DEF IntentKnown, Eases
  <2>4. Decided(d)
    BY <1>6, <2>1 DEF Decided
  <2>5. InvoiceKnown(d)'
    BY <1>1, <1>4, <1>9, <2>1, <2>4 DEF InvoiceKnown, Undoing, Decided
  <2>6. CallsKnown'
    BY <2>1, <2>3, <2>5, CallKnown DEF Known, Inv
  <2>7. InProgress(c.intent)'
    <3>1. calls'[s] = d
      BY <2>1 DEF Inv, TypeOK
    <3> QED
      BY <2>1, <3>1 DEF InProgress, At
  <2>8. Exact'
    BY <1>1, <1>5, <1>9, <1>10, <2>7 DEF Exact, Eases, InvoiceExists
  <2> QED
    BY <1>9, <2>6, <2>8
<1>12. CASE r # "ok"
  <2>1. CallsKnown'
    BY <1>3, <1>12, RestKnown DEF Inv
  <2>2. Gentle' => intents' = intents
    BY <1>3, <1>5, <1>12 DEF Executed
  <2>3. Exact'
    BY <1>1, <1>5, <1>9, <1>10, <2>2 DEF Exact, Eases, InvoiceExists
  <2> QED
    BY <1>9, <2>1, <2>3
<1> QED
  BY <1>11, <1>12

LEMMA UndoIntentSerial ==
  ASSUME OneAtATime, Inv, SerialInv, NEW s \in Sessions, UndoIntent(s)
  PROVE  SerialInv' /\ Frozen
<1> USE DEF SerialInv
<1>1. At(s, "undoIntent") /\ UNCHANGED <<invoices, issued, now, answered, paid>>
  BY DEF UndoIntent
<1>2. PICK c : c = calls[s]
  OBVIOUS
<1>3. PICK r \in Replies :
        /\ Reply(r)
        /\ \/ r = "ok" /\ GoTo(s, "undoInvoice")
           \/ Return(s)
        /\ intents' = IF Executed(r) THEN IntentSave(c.intent, c.was) ELSE intents
  BY <1>2 DEF UndoIntent, WriteIntent
<1>4. /\ c \in Call /\ c.step = "undoIntent" /\ c.kind \in Outcomes /\ IntentKnown(c) /\ InvoiceKnown(c)
      /\ c.id \in InvoiceIds /\ c.intent \in Opened /\ c.was \in IntentStatus
  BY <1>1, <1>2, SettlingKnown DEF Settling
<1>5. /\ Eases
      /\ Gentle' => r = "ok" /\ faults' = faults
  BY <1>3, <1>4, ReplyEases DEF InvoiceKnown, Undoing, Eases
<1>6. c.intent \in answered => c.was = "SUCCESS"
  BY <1>4 DEF IntentKnown
<1>7. intents' = intents \/ intents' = IntentSave(c.intent, c.was)
  BY <1>3
<1>8. /\ Served' /\ Frozen /\ Opened' = Opened
      /\ \A q \in Opened : q # c.intent => intents'[q] = intents[q]
      /\ intents'[c.intent].due = intents[c.intent].due
      /\ intents' = IntentSave(c.intent, c.was) => intents'[c.intent].status = c.was
      /\ \A i : Answers(i)' <=> Answers(i)
  BY <1>1, <1>4, <1>5, <1>6, <1>7, IntentSaved
<1>9. \A p : p # c.intent => ~InProgress(p)
  BY <1>2 DEF InProgress, OneAtATime
<1>10. Exact'
  <2> SUFFICES ASSUME Gentle'
               PROVE  /\ answered \subseteq paid
                      /\ \A p \in Opened : intents'[p].status = "SUCCESS" <=> p \in answered
                      /\ \A i \in InvoiceIds : InvoiceExists(i) /\ invoices[i].status = "PAID" => Answers(i)
    BY <1>1, <1>8 DEF Exact, InvoiceExists
  <2>1. Gentle /\ Exact
    BY <1>5 DEF Eases
  <2>2. intents'[c.intent].status = c.was
    BY <1>3, <1>5, <1>8 DEF Executed
  <2>3. intents'[c.intent].status = "SUCCESS" <=> c.intent \in answered
    BY <1>4, <2>1, <2>2 DEF IntentKnown
  <2> QED
    BY <1>8, <1>9, <2>1, <2>3 DEF Exact
<1>11. CallsKnown'
  <2>1. CASE r = "ok" /\ GoTo(s, "undoInvoice")
    <3>1. PICK d \in Call : /\ calls' = [calls EXCEPT ![s] = d]
                           /\ d.step = "undoInvoice" /\ d.kind = c.kind /\ d.id = c.id
                           /\ d.row = c.row /\ d.loaded = c.loaded /\ d.intent = c.intent
                           /\ d.was = c.was /\ d.status = c.status
      BY <1>2, <1>4, <2>1, GoToCall DEF Steps
    <3>2. IntentKnown(d)'
      BY <1>1, <1>4, <1>5, <1>8, <3>1 DEF IntentKnown, Eases
    <3>3. Decided(d)
      BY <1>4, <3>1 DEF InvoiceKnown, Decided
    <3>4. InvoiceKnown(d)'
      BY <1>1, <1>4, <1>5, <1>8, <3>1, <3>3 DEF InvoiceKnown, Undoing, Decided, Eases
    <3> QED
      BY <3>1, <3>2, <3>4, CallKnown DEF Known, Inv
  <2> QED
    BY <1>3, <2>1, RestKnown DEF Inv
<1> QED
  BY <1>8, <1>10, <1>11

(* The row of an outcome is PAID where the loaded one was, and is the      *)
(* loaded one where that is not pending.                                   *)
LEMMA DecidedRow ==
  ASSUME NEW c \in Call, c.loaded \in Invoice, Decided(c)
  PROVE  /\ c.loaded.status = "PAID" => c.row.status = "PAID"
         /\ c.row.status = "PAID" => c.kind = "succeed" \/ c.loaded.status = "PAID"
         /\ c.kind = "succeed" => c.row.status = "PAID" /\ c.status = "SUCCESS"
         /\ c.kind = "fail" => c.status = "FAILED" /\ c.was # "SUCCESS"
         /\ c.kind = "overdue" => /\ c.status = "SUCCESS" <=> c.was = "SUCCESS"
                                  /\ c.row.status \in {"PAID", "EXPIRED"}
         /\ c.loaded.status # "PENDING" => c.row = c.loaded
<1>1. c.loaded = [c.loaded EXCEPT !.status = @] /\ c.loaded.status \in InvoiceStatus /\ c.was \in IntentStatus
  BY DEF Invoice, Call
<1> QED
  BY <1>1 DEF Decided, Invoice, InvoiceCanBePaid, InvoiceCanExpire, IntentCanFail, InvoiceStatus, IntentStatus

LEMMA SaveInvoiceSerial ==
  ASSUME OneAtATime, Inv, SerialInv, NEW s \in Sessions, SaveInvoice(s)
  PROVE  SerialInv' /\ Frozen
<1> USE DEF SerialInv
<1>1. At(s, "saveInvoice") /\ UNCHANGED <<issued, now, intents, confirmed>>
  BY DEF SaveInvoice
<1>2. PICK c : c = calls[s]
  OBVIOUS
<1>3. PICK r \in Replies :
        /\ Reply(r)
        /\ IF r = "ok" THEN Return(s) ELSE GoTo(s, "undoIntent")
        /\ invoices' = IF Executed(r) THEN InvoiceSave(c.id, c.row) ELSE invoices
        /\ answered' = answered \cup (IF r = "ok" /\ c.status = "SUCCESS" THEN {c.intent} ELSE {})
        /\ paid' = IF r = "ok" /\ c.status = "SUCCESS" /\ c.row.status = "PAID"
                     THEN paid \cup {c.intent} ELSE paid
  BY <1>2 DEF SaveInvoice, RecordAnswer
<1>4. /\ c \in Call /\ c.step = "saveInvoice" /\ c.kind \in Outcomes /\ IntentKnown(c) /\ InvoiceKnown(c)
      /\ c.id \in InvoiceIds /\ c.row \in Invoice /\ c.loaded \in Invoice
      /\ c.intent \in Opened /\ intents[c.intent].invoice = c.id /\ InvoiceExists(c.id)
  BY <1>1, <1>2, SettlingKnown DEF Settling
<1>5. /\ Eases
      /\ Gentle' => (r = "ok" /\ faults' = faults) \/ (r = "lost" /\ faults'.count = 1)
  BY <1>3, ReplyEases
<1>6. /\ Decided(c) /\ invoices[c.id] = c.loaded /\ intents[c.intent].status = c.status
      /\ Answers(c.id) => c.loaded.status \in {"PAID", "EXPIRED"}
      /\ c.intent \in answered => c.was = "SUCCESS"
      /\ Gentle /\ c.was = "SUCCESS" => c.intent \in answered
      /\ c.kind = "overdue" => now > intents[c.intent].due
  BY <1>4, KeptSettled DEF InvoiceKnown, IntentKnown, Undoing, Served
<1>7. /\ c.loaded.status = "PAID" => c.row.status = "PAID"
      /\ c.row.status = "PAID" => c.kind = "succeed" \/ c.loaded.status = "PAID"
      /\ c.kind = "succeed" => c.row.status = "PAID" /\ c.status = "SUCCESS"
      /\ c.kind = "fail" => c.status = "FAILED" /\ c.was # "SUCCESS"
      /\ c.kind = "overdue" => /\ c.status = "SUCCESS" <=> c.was = "SUCCESS"
                               /\ c.row.status \in {"PAID", "EXPIRED"}
      /\ c.loaded.status # "PENDING" => c.row = c.loaded
  BY <1>4, <1>6, DecidedRow
<1>8. /\ \A i \in InvoiceIds : InvoiceExists(i)' <=> InvoiceExists(i)
      /\ \A i \in InvoiceIds : i # c.id => invoices'[i] = invoices[i]
      /\ invoices'[c.id] = invoices[c.id] \/ invoices'[c.id] = c.row
      /\ r = "ok" => invoices'[c.id] = c.row
      /\ r = "lost" => invoices' = invoices
  BY <1>3, <1>4, NoInvoiceIsNoRow DEF Executed, InvoiceSave, InvoiceExists, Inv, TypeOK, InvoicesTypeOK
<1>9. Opened' = Opened
  BY <1>1 DEF Opened
<1>10. Frozen
  BY <1>4, <1>6, <1>7, <1>8 DEF Frozen
<1>11. AnsweredIsKept'
  <2> SUFFICES ASSUME NEW p \in answered'
               PROVE  /\ intents[p].status = "SUCCESS"
                      /\ invoices'[intents[p].invoice] # NoInvoice
                      /\ IF p \in paid' THEN invoices'[intents[p].invoice].status = "PAID"
                           ELSE invoices'[intents[p].invoice].status = "EXPIRED" /\ now > intents[p].due
    BY <1>1 DEF AnsweredIsKept, InvoiceExists
  <2>1. CASE p \in answered
    <3>1. PICK i \in InvoiceIds : i = intents[p].invoice
      BY <2>1, OpenedRow DEF Served, Inv, Intent
    <3>2. /\ intents[p].status = "SUCCESS" /\ InvoiceExists(i)
          /\ IF p \in paid THEN invoices[i].status = "PAID"
               ELSE invoices[i].status = "EXPIRED" /\ now > intents[p].due
      BY <2>1, <3>1 DEF Served, AnsweredIsKept
    <3>3. i = c.id => c.row = c.loaded
      BY <1>6, <1>7, <2>1, <3>1 DEF Answers
    <3>4. invoices'[i].status = invoices[i].status
      BY <1>6, <1>8, <3>1, <3>3
    <3>5. p \in paid' <=> p \in paid
      <4>1. CASE p = c.intent
        BY <1>3, <1>4, <1>6, <3>1, <3>2, <3>3, <4>1
      <4>2. CASE p # c.intent
        BY <1>3, <4>2
      <4> QED
        BY <4>1, <4>2
    <3> QED
      BY <1>8, <3>1, <3>2, <3>4, <3>5 DEF InvoiceExists
  <2>2. CASE p \notin answered
    <3>1. p = c.intent /\ r = "ok" /\ c.status = "SUCCESS" /\ p \notin paid
      BY <1>3, <2>2 DEF Inv, TypeOK
    <3>2. intents[p].invoice = c.id /\ invoices'[c.id] # NoInvoice /\ invoices'[c.id] = c.row
      BY <1>4, <1>8, <3>1 DEF InvoiceExists
    <3>3. CASE c.row.status = "PAID"
      BY <1>3, <1>6, <3>1, <3>2, <3>3
    <3>4. CASE c.row.status # "PAID"
      BY <1>3, <1>4, <1>6, <1>7, <3>1, <3>2, <3>4 DEF Outcomes
    <3> QED
      BY <3>3, <3>4
  <2> QED
    BY <2>1, <2>2
<1>12. Served'
  <2>1. answered' \subseteq Opened
    BY <1>3, <1>4 DEF Served
  <2> QED
    BY <1>1, <1>5, <1>8, <1>9, <1>11, <2>1 DEF Served, Eases
<1>13. CASE r = "ok"
  <2>1. CallsKnown'
    BY <1>3, <1>13, RestKnown DEF Inv
  <2>2. ASSUME Gentle' PROVE c.status = "SUCCESS" <=> c.intent \in answered'
    BY <1>3, <1>4, <1>6, <1>7, <1>13 DEF Outcomes
  <2>3. ASSUME NEW p \in Opened, p # c.intent PROVE ~InProgress(p) /\ (p \in answered' <=> p \in answered)
    BY <1>2, <1>3, <2>3 DEF InProgress, OneAtATime
  <2>4. ASSUME Gentle', NEW p \in Opened PROVE intents[p].status = "SUCCESS" <=> p \in answered'
    <3>1. CASE p = c.intent
      BY <1>6, <2>2, <2>4, <3>1
    <3>2. CASE p # c.intent
      BY <1>5, <2>3, <2>4, <3>2 DEF Exact, Eases
    <3> QED
      BY <3>1, <3>2
  <2>5. ASSUME Gentle', NEW i \in InvoiceIds, InvoiceExists(i)', invoices'[i].status = "PAID" PROVE Answers(i)'
    <3>1. Answers(i) => Answers(i)'
      BY <1>1, <1>3 DEF Answers
    <3>2. CASE i = c.id /\ c.kind = "succeed"
      BY <1>1, <1>3, <1>4, <1>7, <1>13, <3>2 DEF Answers
    <3>3. CASE ~(i = c.id /\ c.kind = "succeed")
      <4>1. InvoiceExists(i) /\ invoices[i].status = "PAID"
        BY <1>6, <1>7, <1>8, <1>13, <2>5, <3>3
      <4> QED
        BY <1>5, <2>5, <3>1, <4>1 DEF Exact, Eases
    <3> QED
      BY <3>2, <3>3
  <2>6. ASSUME Gentle' PROVE answered' \subseteq paid'
    <3>1. Gentle /\ answered \subseteq paid
      BY <1>5, <2>6 DEF Exact, Eases
    <3>2. c.status = "SUCCESS" => c.intent \in paid'
      BY <1>3, <1>4, <1>6, <1>7, <1>13, <3>1 DEF Outcomes
    <3> QED
      BY <1>3, <3>1, <3>2
  <2>7. Exact'
    BY <1>1, <1>9, <2>4, <2>5, <2>6 DEF Exact
  <2> QED
    BY <1>10, <1>12, <2>1, <2>7
<1>14. CASE r # "ok"
  <2>1. PICK d \in Call : /\ calls' = [calls EXCEPT ![s] = d]
                         /\ d.step = "undoIntent" /\ d.kind = c.kind /\ d.id = c.id
                         /\ d.row = c.row /\ d.loaded = c.loaded /\ d.intent = c.intent
                         /\ d.was = c.was /\ d.status = c.status
    BY <1>2, <1>3, <1>4, <1>14, GoToCall DEF Steps
  <2>2. answered' = answered /\ paid' = paid
    BY <1>3, <1>14
  <2>3. IntentKnown(d)'
    BY <1>1, <1>5, <1>6, <2>1, <2>2 DEF IntentKnown, Eases
  <2>4. Decided(d)
    BY <1>6, <2>1 DEF Decided
  <2>5. Gentle' => invoices' = invoices /\ faults'.count # 0
    BY <1>5, <1>8, <1>14
  <2>6. InvoiceKnown(d)'
    BY <1>1, <1>6, <1>7, <1>8, <2>1, <2>2, <2>4, <2>5 DEF InvoiceKnown, Undoing, Decided, Answers
  <2>7. CallsKnown'
    BY <2>1, <2>3, <2>6, CallKnown DEF Known, Inv
  <2>8. InProgress(c.intent)'
    <3>1. calls'[s] = d
      BY <2>1 DEF Inv, TypeOK
    <3> QED
      BY <2>1, <3>1 DEF InProgress, At
  <2>9. \A p : p # c.intent => ~InProgress(p)
    BY <1>2 DEF InProgress, OneAtATime
  <2>10. Exact'
    BY <1>1, <1>5, <1>9, <2>2, <2>5, <2>8, <2>9 DEF Exact, Eases, InvoiceExists, Answers
  <2> QED
    BY <1>10, <1>12, <2>7, <2>10
<1> QED
  BY <1>13, <1>14

LEMMA UndoInvoiceSerial ==
  ASSUME OneAtATime, Inv, SerialInv, NEW s \in Sessions, UndoInvoice(s)
  PROVE  SerialInv' /\ Frozen
<1> USE DEF SerialInv
<1>1. At(s, "undoInvoice") /\ Return(s) /\ UNCHANGED <<issued, now, intents, confirmed, answered, paid>>
  BY DEF UndoInvoice
<1>2. PICK c : c = calls[s]
  OBVIOUS
<1>3. PICK r \in Replies :
        /\ Reply(r)
        /\ invoices' = IF Executed(r) THEN InvoiceSave(c.id, c.loaded) ELSE invoices
  BY <1>2 DEF UndoInvoice
<1>4. /\ c.step = "undoInvoice" /\ InvoiceKnown(c) /\ c.id \in InvoiceIds /\ c.loaded \in Invoice
      /\ InvoiceExists(c.id)
  BY <1>1, <1>2, SettlingKnown DEF Settling
<1>5. Eases
  BY <1>3, ReplyEases
<1>6. /\ Answers(c.id) => c.loaded.status = invoices[c.id].status
      /\ Gentle => invoices[c.id] = c.loaded
  BY <1>4 DEF InvoiceKnown
<1>7. /\ \A i \in InvoiceIds : InvoiceExists(i)' <=> InvoiceExists(i)
      /\ \A i \in InvoiceIds : invoices'[i] = invoices[i] \/ (i = c.id /\ invoices'[i] = c.loaded)
  BY <1>3, <1>4, NoInvoiceIsNoRow DEF InvoiceSave, InvoiceExists, Inv, TypeOK, InvoicesTypeOK
<1>8. Opened' = Opened
  BY <1>1 DEF Opened
<1>9. Gentle' => \A i \in InvoiceIds : invoices'[i] = invoices[i]
  BY <1>5, <1>6, <1>7 DEF Eases
<1>10. AnsweredIsKept'
  <2>1. ASSUME NEW i \in InvoiceIds, Answers(i)
        PROVE  InvoiceExists(i)' /\ invoices'[i].status = invoices[i].status
    BY <1>6, <1>7, <2>1, KeptSettled DEF Served
  <2> QED
    BY <1>1, <2>1, KeptStays DEF Served, AnsweredIsKept
<1>11. Served'
  BY <1>1, <1>5, <1>7, <1>8, <1>10 DEF Served, Eases
<1>12. \A p : ~InProgress(p)
  BY <1>1, NoneInProgress DEF At
<1>13. Exact'
  <2>1. ASSUME Gentle', NEW i \in InvoiceIds, InvoiceExists(i)', invoices'[i].status = "PAID" PROVE Answers(i)'
    BY <1>1, <1>5, <1>7, <1>9, <2>1 DEF Exact, Eases, Answers
  <2> QED
    BY <1>1, <1>5, <1>8, <1>12, <2>1 DEF Exact, Eases
<1>14. Frozen
  BY <1>9 DEF Frozen
<1> QED
  BY <1>1, <1>11, <1>13, <1>14, RestKnown DEF Inv

LEMMA InsertIntentSerial ==
  ASSUME OneAtATime, Inv, SerialInv, NEW s \in Sessions, InsertIntent(s)
  PROVE  SerialInv' /\ Frozen
<1> USE DEF SerialInv
<1>1. At(s, "insertIntent") /\ Return(s) /\ UNCHANGED <<invoices, issued, now, confirmed, answered, paid>>
  BY DEF InsertIntent
<1>2. PICK p, row : p = calls[s].intent /\ row = [invoice |-> calls[s].id, status |-> "PENDING", due |-> calls[s].due]
  OBVIOUS
<1>3. PICK r \in Replies : Reply(r) /\ (intents' = intents \/ intents' = [intents EXCEPT ![p] = row])
  BY <1>2 DEF InsertIntent, IntentCreate
<1>4. p \in IntentIds \ Opened
  BY <1>1, <1>2, CallFits DEF Steps, Fits, At
<1>5. /\ Opened \subseteq Opened' /\ Opened' \subseteq Opened \cup {p}
      /\ \A q \in Opened : intents'[q] = intents[q]
      /\ p \in Opened' => intents'[p].status = "PENDING"
  <2>1. row.status = "PENDING"
    BY <1>2
  <2>2. intents[p] = NoIntent
    BY <1>4 DEF Opened
  <2> QED
    BY <1>3, <1>4, <2>1, <2>2 DEF Opened, Inv, TypeOK
<1>6. Eases
  BY <1>3, ReplyEases
<1>7. AnsweredIsKept'
  <2>1. \A q \in answered : intents'[q] = intents[q]
    BY <1>5 DEF Served
  <2>2. \A i \in InvoiceIds : Answers(i) => InvoiceExists(i)' /\ invoices'[i].status = invoices[i].status
    BY <1>1, KeptSettled DEF Served, InvoiceExists
  <2> QED
    BY <1>1, <2>1, <2>2, KeptStays DEF Served, AnsweredIsKept
<1>8. Served'
  BY <1>1, <1>5, <1>6, <1>7 DEF Served, Eases, InvoiceExists
<1>9. \A q : ~InProgress(q)
  BY <1>1, NoneInProgress DEF At
<1>10. \A i : Answers(i) => Answers(i)'
  BY <1>1, <1>5 DEF Answers, Served
<1>11. Exact'
  <2>1. ASSUME Gentle', NEW q \in Opened' PROVE intents'[q].status = "SUCCESS" <=> q \in answered
    BY <1>4, <1>5, <1>6, <1>9, <2>1 DEF Exact, Eases, Served
  <2> QED
    BY <1>1, <1>6, <1>10, <2>1 DEF Exact, Eases, InvoiceExists
<1>12. Frozen
  BY <1>1 DEF Frozen
<1> QED
  BY <1>1, <1>8, <1>11, <1>12, RestKnown DEF Inv

-----------------------------------------------------------------------------
LEMMA SerialInit == Init => SerialInv
<1> SUFFICES ASSUME Init PROVE SerialInv
  OBVIOUS
<1>1. Opened = {} /\ \A i \in InvoiceIds : ~InvoiceExists(i)
  BY DEF Init, Opened, InvoiceExists
<1>2. CallsKnown
  BY DEF Init, CallsKnown, Active, At, Idle
<1>3. Fresh
  BY DEF Init, NoFaults, Fresh, Gentle
<1>4. Served
  BY <1>1, <1>3 DEF Init, Served, AnsweredIsKept
<1>5. Exact
  BY <1>1 DEF Init, Exact
<1> QED
  BY <1>2, <1>4, <1>5 DEF SerialInv

LEMMA StutterSerial ==
  ASSUME Inv, SerialInv, UNCHANGED <<faults, invoices, issued, intents, calls, answered, paid>>,
         now' \in {now, now + 1}
  PROVE  SerialInv' /\ Frozen
<1> USE DEF SerialInv
<1>1. Opened' = Opened
  BY DEF Opened
<1>2. CallsKnown'
  <2> SUFFICES ASSUME NEW s \in Sessions
               PROVE  /\ Active(s)' => Known(calls[s])'
                      /\ At(s, "list")' => PageKnown(calls[s].page)'
    BY DEF CallsKnown
  <2>1. Active(s)' => Known(calls[s])'
    <3> SUFFICES ASSUME Active(s) PROVE Known(calls[s])'
      BY DEF Active, At
    <3>1. calls[s] \in Call /\ Fits(calls[s]) /\ Known(calls[s])
      BY CallType DEF Inv, CallsFit, CallsKnown
    <3>2. calls[s].kind = "overdue" => intents[calls[s].intent].due \in Nat
      BY <3>1, OpenedRow DEF Fits, Outcomes, IntentsOf, Inv, Intent
    <3>3. now \in Nat
      BY DEF Inv, TypeOK, InvoicesTypeOK
    <3>4. calls[s].kind = "overdue" /\ now > intents[calls[s].intent].due
            => now' > intents'[calls[s].intent].due
      BY <3>2, <3>3
    <3> QED
      BY <3>1, <3>4 DEF Known, IntentKnown, InvoiceKnown, Answers, Decided, Waiting, InvoiceExists, Gentle
  <2>2. At(s, "list")' => PageKnown(calls[s].page)'
    BY DEF CallsKnown, At, PageKnown, InvoiceExists
  <2> QED
    BY <2>1, <2>2
<1>3. \A p : InProgress(p) => InProgress(p)'
  BY DEF InProgress, At
<1> QED
  BY <1>2, <1>3, SameEases, SameMoves, ServedStays

LEMMA CrashSerial ==
  ASSUME Inv, SerialInv, Crash
  PROVE  SerialInv' /\ Frozen
<1>1. /\ calls' = [s \in Sessions |-> Idle] /\ CrashFault
      /\ UNCHANGED <<invoices, issued, now, intents, confirmed, answered, paid>>
  BY DEF Crash
<1>2. ~Gentle' /\ Fresh'
  BY <1>1, CrashNotGentle DEF Inv, TypeOK
<1>3. CallsKnown'
  BY <1>1 DEF CallsKnown, Active, At, Idle
<1>4. Opened' = Opened
  BY <1>1 DEF Opened
<1>5. Served'
  BY <1>1, <1>2, <1>4 DEF SerialInv, Served, AnsweredIsKept, InvoiceExists
<1> QED
  BY <1>2, <1>3, <1>5 DEF SerialInv, Exact, Frozen

LEMMA AskSerial ==
  ASSUME OneAtATime, Inv, SerialInv, NEW s \in Sessions, Ask(s)
  PROVE  SerialInv' /\ Frozen
<1>1. ASSUME NEW i \in InvoiceIds, GetInvoice(s, i) \/ DeleteInvoice(s, i) PROVE SerialInv' /\ Frozen
  BY <1>1, InvoiceAssumption, OpenInvoiceSerial DEF GetInvoice, DeleteInvoice, NoAsk
<1>2. ASSUME NEW i \in InvoiceIds, NEW p \in IntentIds, PayInvoice(s, i, p) PROVE SerialInv' /\ Frozen
  BY <1>2, InvoiceAssumption, OpenInvoiceSerial DEF PayInvoice, NoAsk
<1>3. ASSUME NEW i \in InvoiceIds, NEW a \in Amounts, NEW d \in Dues, UpdateInvoice(s, i, a, d)
      PROVE  SerialInv' /\ Frozen
  BY <1>3, OpenInvoiceSerial DEF UpdateInvoice
<1> QED
  BY <1>1, <1>2, <1>3, CreateInvoiceSerial, ListInvoicesSerial, SimulateSerial DEF Ask

LEMMA ServeSerial ==
  ASSUME OneAtATime, Inv, SerialInv, NEW s \in Sessions, Serve(s)
  PROVE  SerialInv' /\ Frozen
BY RefreshListedSerial, LoadInvoiceSerial, ExpireInvoiceSerial, SaveUpdateSerial, RemoveInvoiceSerial,
   InsertIntentSerial, DecideSerial, SaveIntentSerial, SaveInvoiceSerial, UndoIntentSerial,
   UndoInvoiceSerial DEF Serve

LEMMA SerialStep ==
  ASSUME OneAtATime, Inv, SerialInv, [Next]_vars
  PROVE  SerialInv' /\ Frozen
<1>1. CASE \E s \in Sessions : Ask(s) \/ Serve(s)
  BY <1>1, AskSerial, ServeSerial
<1>2. CASE TimePasses
  BY <1>2, StutterSerial DEF TimePasses, Tick
<1>3. CASE Crash
  BY <1>3, CrashSerial
<1>4. CASE UNCHANGED vars
  BY <1>4, StutterSerial DEF vars
<1> QED
  BY <1>1, <1>2, <1>3, <1>4 DEF Next, Quiet

LEMMA SerialInvariance ==
  ASSUME OneAtATime
  PROVE  Spec => []SerialInv
<1>1. Inv /\ SerialInv /\ [Next]_vars => SerialInv'
  BY SerialStep
<1> QED
  BY <1>1, SerialInit, InvariantHolds, PTL DEF Spec

(* While requests come one after the other and whatever fails, what was    *)
(* answered stays: a later outcome for the same intent or invoice, its     *)
(* rollback, and every expiry save the statuses again that it had.  Only a *)
(* request past the due date may answer SUCCESS with its invoice EXPIRED.  *)
THEOREM AnsweredStays ==
  ASSUME OneAtATime
  PROVE  Spec => []AnsweredIsKept
<1>1. SerialInv => AnsweredIsKept
  BY DEF SerialInv, Served
<1> QED
  BY <1>1, SerialInvariance, PTL

(* A PAID or EXPIRED invoice is saved again only as it is, while no more   *)
(* than one call failed, and before its statement took effect.             *)
THEOREM SettledStaysFrozen ==
  ASSUME OneAtATime
  PROVE  Spec => SettledIsFrozen
<1> DEFINE Step == Frozen
<1>1. Inv /\ SerialInv /\ [Next]_vars => Step
  BY SerialStep
<1>2. Spec => [][Step]_vars
  <2> HIDE DEF Step
  <2> QED
    BY <1>1, InvariantHolds, SerialInvariance, PTL DEF Spec
<1> QED
  BY <1>2 DEF SettledIsFrozen, Frozen

(* The rollbacks of SimulateAdminOutcome do what they were written for:    *)
(* after a single lost call, intents and invoices are settled by exactly   *)
(* the outcomes that were answered SUCCESS.                                *)
THEOREM PaymentsAreAtomic ==
  ASSUME OneAtATime
  PROVE  Spec => []PaymentIsAtomic
<1>1. Inv /\ SerialInv => PaymentIsAtomic
  <2> SUFFICES ASSUME Inv, SerialInv, Gentle, \A s \in Sessions : At(s, "idle")
               PROVE  /\ {p \in Opened : intents[p].status = "SUCCESS"} = answered
                      /\ {i \in InvoiceIds : InvoiceExists(i) /\ invoices[i].status = "PAID"}
                           = {intents[p].invoice : p \in answered}
    BY DEF PaymentIsAtomic
  <2>1. \A p : ~InProgress(p)
    BY DEF InProgress, At
  <2>2. answered \subseteq Opened /\ AnsweredIsKept
    BY DEF SerialInv, Served
  <2>3. \A p \in answered : intents[p].invoice \in InvoiceIds
    BY <2>2, OpenedRow DEF Inv, Intent
  <2>4. \A p \in Opened : intents[p].status = "SUCCESS" <=> p \in answered
    BY <2>1 DEF SerialInv, Exact
  <2>5. \A i \in InvoiceIds : InvoiceExists(i) /\ invoices[i].status = "PAID" => Answers(i)
    BY DEF SerialInv, Exact
  <2>6. \A p \in answered : invoices[intents[p].invoice].status = "PAID"
    BY <2>2 DEF AnsweredIsKept, SerialInv, Exact
  <2> QED
    BY <2>2, <2>3, <2>4, <2>5, <2>6 DEF AnsweredIsKept, Answers
<1> QED
  BY <1>1, InvariantHolds, SerialInvariance, PTL
=============================================================================
