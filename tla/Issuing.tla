------------------------------ MODULE Issuing ------------------------------
(***************************************************************************)
(* Issuing invoices, on top of the accounts: the handler checks the token  *)
(* and whose invoice it is, the invoice service looks for a number and a   *)
(* payment token nobody has, and the INSERT meets the UNIQUE columns and   *)
(* the foreign key to the merchants.  The sessions are those of Accounts:  *)
(* one serves a request of either kind at a time.                          *)
(***************************************************************************)
EXTENDS Accounts

CONSTANTS
  Numbers,  \* bound: the invoice numbers that can be drawn
  Links,    \* bound: the payment tokens that can be drawn
  Tries     \* how often a number is drawn before the request gives up

ASSUME IssuingAssumption == Tries \in Nat \ {0}

VARIABLES
  invoices,  \* the invoices table: number, payment token and merchant of each row
  drafts     \* the invoice each session is creating

issuingVars == <<vars, invoices, drafts>>

Invoice == [number : Numbers, link : Links, merchant : UserIds]

NoDraft == [step |-> "none"]
Draft == [step : {"number"}, merchant : UserIds, left : 1 .. Tries]
         \cup [step : {"link"}, merchant : UserIds, left : 1 .. Tries, number : Numbers]
         \cup [step : {"insert"}, merchant : UserIds, number : Numbers, link : Links]

Drafting(s, step) == drafts[s].step = step
Leave(s) == drafts' = [drafts EXCEPT ![s] = NoDraft]

NumberTaken(n) == \E i \in invoices : i.number = n
LinkTaken(k) == \E i \in invoices : i.link = k

-----------------------------------------------------------------------------
(* CreateInvoiceGin: a merchant issues invoices of its own, an admin those *)
(* of any id it names.                                                     *)
CreateInvoice(s, tk, m) ==
  /\ At(s, "idle") /\ Drafting(s, "none")
  /\ Live(tk, now) /\ tk.role \in OpenTo("CreateInvoiceGin")
  /\ tk.role = "MERCHANT" => m = tk.sub
  /\ drafts' = [drafts EXCEPT ![s] = [step |-> "number", merchant |-> m, left |-> Tries]]
  /\ UNCHANGED <<vars, invoices>>

(* Mistake: a taken number is drawn again for ever.                        *)
DrawForever(s) == UNCHANGED drafts

(* The number or token that was drawn is taken: draw again, or give up.    *)
DrawAgain(s) ==
  IF drafts[s].left = 1 THEN Leave(s) ELSE drafts' = [drafts EXCEPT ![s].left = @ - 1]

(* generateUniqueInvoiceNumber                                             *)
DrawNumber(s) ==
  /\ Drafting(s, "number")
  /\ \E r \in Replies, n \in Numbers :
       /\ Reply(r)
       /\ \/ r # "ok" /\ Leave(s)
          \/ r = "ok" /\ NumberTaken(n) /\ DrawAgain(s)
          \/ /\ r = "ok" /\ ~NumberTaken(n)
             /\ drafts' = [drafts EXCEPT ![s] = [step |-> "link", merchant |-> @.merchant,
                                                 left |-> Tries, number |-> n]]
  /\ UNCHANGED <<users, merchants, txs, calls, tokens, now, invoices>>

(* generateUniquePaymentToken                                              *)
DrawLink(s) ==
  /\ Drafting(s, "link")
  /\ \E r \in Replies, k \in Links :
       /\ Reply(r)
       /\ \/ r # "ok" /\ Leave(s)
          \/ r = "ok" /\ LinkTaken(k) /\ DrawAgain(s)
          \/ /\ r = "ok" /\ ~LinkTaken(k)
             /\ drafts' = [drafts EXCEPT ![s] = [step |-> "insert", merchant |-> @.merchant,
                                                 number |-> @.number, link |-> k]]
  /\ UNCHANGED <<users, merchants, txs, calls, tokens, now, invoices>>

(* Mistake: the columns are not UNIQUE.                                    *)
InvoiceFitsAnyway(i) == \E m \in merchants : m.id = i.merchant

(* Mistake: merchant_id has no foreign key.                                *)
InvoiceFitsNobody(i) == ~NumberTaken(i.number) /\ ~LinkTaken(i.link)

(* UNIQUE invoice_number and payment_token, REFERENCES merchants(id).      *)
InvoiceFits(i) ==
  /\ ~NumberTaken(i.number) /\ ~LinkTaken(i.link)
  /\ \E m \in merchants : m.id = i.merchant

InsertInvoice(s) ==
  /\ Drafting(s, "insert")
  /\ LET i == [number |-> drafts[s].number, link |-> drafts[s].link, merchant |-> drafts[s].merchant]
     IN \E r \in Replies :
          /\ Reply(r)
          /\ invoices' = IF Executed(r) /\ InvoiceFits(i) THEN invoices \cup {i} ELSE invoices
  /\ Leave(s)
  /\ UNCHANGED <<users, merchants, txs, calls, tokens, now>>

-----------------------------------------------------------------------------
IssuingInit ==
  /\ Init
  /\ invoices = {}
  /\ drafts = [s \in Sessions |-> NoDraft]

(* A request for an account of a session that is creating no invoice.      *)
Account(s) ==
  /\ Drafting(s, "none")
  /\ Arrive(s) \/ Proceed(s)
  /\ UNCHANGED <<invoices, drafts>>

IssuingTimePasses == TimePasses /\ UNCHANGED <<invoices, drafts>>

IssuingCrash ==
  /\ CrashFault
  /\ \E s \in Sessions : ~At(s, "idle") \/ ~Drafting(s, "none")
  /\ calls' = [s \in Sessions |-> Idle]
  /\ txs' = [s \in Sessions |-> Nothing]
  /\ drafts' = [s \in Sessions |-> NoDraft]
  /\ UNCHANGED <<users, merchants, tokens, now, invoices>>

(* No request is being served and no client sends another.                 *)
Quiet ==
  /\ \A s \in Sessions : At(s, "idle") /\ Drafting(s, "none")
  /\ UNCHANGED issuingVars

Draw(s) == DrawNumber(s) \/ DrawLink(s) \/ InsertInvoice(s)

IssuingNext ==
  \/ \E s \in Sessions : Account(s) \/ Draw(s)
  \/ \E s \in Sessions, tk \in tokens, m \in UserIds : CreateInvoice(s, tk, m)
  \/ IssuingTimePasses
  \/ IssuingCrash
  \/ Quiet

(* Goroutines are scheduled and the database answers every call, if only   *)
(* with an error: a request that has a next call makes it.  Nothing makes  *)
(* clients send requests or the clock move on.                             *)
Fairness ==
  \A s \in Sessions : WF_issuingVars((Proceed(s) /\ UNCHANGED <<invoices, drafts>>) \/ Draw(s))

IssuingSpec == IssuingInit /\ [][IssuingNext]_issuingVars
FairIssuingSpec == IssuingSpec /\ Fairness

-----------------------------------------------------------------------------
IssuingTypeOK ==
  /\ TypeOK
  /\ invoices \subseteq Invoice
  /\ drafts \in [Sessions -> Draft \cup {NoDraft}]

(* A number and a payment token are looked up before the INSERT, in other  *)
(* statements; two requests that drew the same still leave one invoice.    *)
InvoicesIdentified ==
  \A i, j \in invoices : i.number = j.number \/ i.link = j.link => i = j

(* An admin may name any id; the invoices stored are those of merchants.   *)
InvoicesHaveMerchants == \A i \in invoices : \E m \in merchants : m.id = i.merchant

(* Every request ends: the INSERT of a registration that waits for another *)
(* transaction is let go, and a draw that finds only taken numbers gives up.*)
RequestsEnd == \A s \in Sessions : ~At(s, "idle") \/ ~Drafting(s, "none") ~> At(s, "idle") /\ Drafting(s, "none")
=============================================================================
