--------------------------- MODULE IssuingProofs ---------------------------
(***************************************************************************)
(* Proofs about Accounts and Issuing for every value of their constants.   *)
(* The first part is about the registrations alone: its inductive          *)
(* invariant Inv says, besides the types, what a transaction wrote at each *)
(* step of a registration, and that the ids and emails of registrations    *)
(* under way are nobody else's.  The second part adds the requests that    *)
(* issue invoices: the steps of the accounts keep what they keep alone,    *)
(* and the INSERT of an invoice meets the constraints whatever was looked  *)
(* up before it.  The third part compares the two routers: either mounts   *)
(* the same table of routes, roles and handlers.                           *)
(***************************************************************************)
EXTENDS Issuing, DatabaseProofs, SequenceTheorems

(* A registration with an open transaction has stored its user there.      *)
Open(s) == At(s, "insertMerchant") \/ At(s, "commit")
Registering(s) == At(s, "insertUser") \/ Open(s)

(* What the transaction of a session holds.                                *)
TxFits(s) ==
  /\ ~Open(s) => txs[s] = Nothing
  /\ At(s, "insertMerchant") => /\ txs[s] = [users |-> {Who(s)}, merchants |-> {}]
                                /\ Who(s).role = "MERCHANT"
  /\ At(s, "commit") =>
       txs[s] = [users |-> {Who(s)},
                 merchants |-> IF Who(s).role = "MERCHANT" THEN {MerchantOf(Who(s))} ELSE {}]

TxMatchesStep == \A s \in Sessions : TxFits(s)

(* The id of a registration is its own.                                    *)
IdsOwned ==
  \A s \in Sessions : Registering(s) =>
    /\ \A v \in users : v.id # Who(s).id
    /\ \A t \in Sessions \ {s} : Registering(t) => Who(t).id # Who(s).id

(* The email is its own from the INSERT of the user on.                    *)
EmailsOwned ==
  \A s \in Sessions : Open(s) =>
    /\ \A v \in users : v.email # Who(s).email
    /\ \A t \in Sessions \ {s} : Open(t) => Who(t).email # Who(s).email

(* A token names a stored user.                                            *)
TokensKnown == \A tk \in tokens : [id |-> tk.sub, email |-> tk.email, role |-> tk.role] \in users

(* The merchants are the users of that role, element by element.           *)
MerchantsKnown ==
  \A m \in Merchant : m \in merchants <=> \E u \in users : u.role = "MERCHANT" /\ m = MerchantOf(u)

Tables == OneUserPerEmail /\ MerchantsKnown /\ TokensKnown
Requests == TxMatchesStep /\ IdsOwned /\ EmailsOwned

Inv == TypeOK /\ Tables /\ Requests

-----------------------------------------------------------------------------
(* Types.                                                                  *)

LEMMA CallType ==
  ASSUME TypeOK, NEW s \in Sessions, NEW step \in Steps, At(s, step)
  PROVE  calls[s] \in Call /\ Who(s) \in User
<1>1. calls[s] \in Call
  BY DEF TypeOK, At, Idle, Steps
<1> QED
  BY <1>1 DEF Call, Who

LEMMA UserFields ==
  ASSUME NEW u \in User
  PROVE  /\ u.id \in UserIds /\ u.email \in Emails /\ u.role \in Roles
         /\ MerchantOf(u) \in Merchant
         /\ MerchantOf(u).id = u.id /\ MerchantOf(u).email = u.email
         /\ u = [id |-> u.id, email |-> u.email, role |-> u.role]
BY DEF User, Merchant, MerchantOf

LEMMA NothingType == Nothing \in [users : SUBSET User, merchants : SUBSET Merchant]
BY DEF Nothing

LEMMA TokenForType ==
  ASSUME NEW u \in User, now \in 0 .. MaxTime
  PROVE  /\ TokenFor(u) \in Token
         /\ [id |-> TokenFor(u).sub, email |-> TokenFor(u).email, role |-> TokenFor(u).role] = u
<1>1. now + TokenLife \in 0 .. MaxTime + TokenLife
  BY AccountAssumption
<1> QED
  BY <1>1, UserFields DEF TokenFor, Token, User

LEMMA BeginType ==
  ASSUME TypeOK, NEW s \in Sessions, NEW step \in Steps, NEW u \in User, Begin(s, step, u)
  PROVE  calls' \in [Sessions -> Call \cup {Idle}]
<1>1. [step |-> step, user |-> u] \in Call
  BY DEF Call
<1> QED
  BY <1>1 DEF TypeOK, Begin

LEMMA GoToType ==
  ASSUME TypeOK, NEW s \in Sessions, NEW from \in Steps, At(s, from), NEW step \in Steps, GoTo(s, step)
  PROVE  calls' \in [Sessions -> Call \cup {Idle}]
<1>1. calls[s] \in Call
  BY CallType
<1>2. [calls[s] EXCEPT !.step = step] \in Call
  BY <1>1 DEF Call
<1> QED
  BY <1>2 DEF TypeOK, GoTo

LEMMA ReturnType ==
  ASSUME TypeOK, NEW s \in Sessions, Return(s)
  PROVE  calls' \in [Sessions -> Call \cup {Idle}]
BY DEF TypeOK, Return

LEMMA RollbackType ==
  ASSUME TypeOK, NEW s \in Sessions, Rollback(s)
  PROVE  txs' \in [Sessions -> [users : SUBSET User, merchants : SUBSET Merchant]]
BY NothingType DEF TypeOK, Rollback

-----------------------------------------------------------------------------
(* What the steps share.                                                   *)

LEMMA TablesKept ==
  ASSUME Tables, UNCHANGED <<users, merchants, tokens>>
  PROVE  Tables'
BY DEF Tables, OneUserPerEmail, MerchantsKnown, TokensKnown

LEMMA TxKept ==
  ASSUME NEW t \in Sessions, TxMatchesStep,
         calls'[t] = calls[t], txs'[t] = txs[t]
  PROVE  TxFits(t)'
BY DEF TxMatchesStep, TxFits, Open, At, Who

LEMMA OpenHoldsUser ==
  ASSUME NEW t \in Sessions, TxMatchesStep, Open(t)
  PROVE  txs[t].users = {Who(t)}
<1>1. TxFits(t)
  BY DEF TxMatchesStep
<1>2. CASE At(t, "insertMerchant")
  BY <1>1, <1>2 DEF TxFits
<1>3. CASE At(t, "commit")
  BY <1>1, <1>3 DEF TxFits
<1> QED
  BY <1>2, <1>3 DEF Open

LEMMA TxMerchants ==
  ASSUME TypeOK, NEW s \in Sessions, NEW m, txs' = [txs EXCEPT ![s].merchants = m]
  PROVE  /\ txs'[s] = [users |-> txs[s].users, merchants |-> m]
         /\ \A t \in Sessions \ {s} : txs'[t] = txs[t]
<1>1. txs[s] \in [users : SUBSET User, merchants : SUBSET Merchant]
  BY DEF TypeOK
<1>2. [txs[s] EXCEPT !.merchants = m] = [users |-> txs[s].users, merchants |-> m]
  BY <1>1
<1> QED
  BY <1>2 DEF TypeOK

(* Tokens may go, and tokens of stored users may come.                     *)
LEMMA TokensGiven ==
  ASSUME Inv, UNCHANGED <<users, merchants>>,
         \A tk \in tokens' : tk \in tokens \/ \E u \in users : tk = TokenFor(u)
  PROVE  Tables' /\ tokens' \subseteq Token
<1>1. \A u \in users : /\ u \in User
                       /\ TokenFor(u) \in Token
                       /\ [id |-> TokenFor(u).sub, email |-> TokenFor(u).email, role |-> TokenFor(u).role] = u
  BY TokenForType DEF Inv, TypeOK
<1>2. tokens \subseteq Token
  BY DEF Inv, TypeOK
<1>3. TokensKnown'
  <2> SUFFICES ASSUME NEW tk \in tokens'
               PROVE  [id |-> tk.sub, email |-> tk.email, role |-> tk.role] \in users
    BY DEF TokensKnown
  <2>1. CASE tk \in tokens
    BY <2>1 DEF Inv, Tables, TokensKnown
  <2>2. CASE \E u \in users : tk = TokenFor(u)
    <3>1. PICK u \in users : tk = TokenFor(u)
      BY <2>2
    <3>2. [id |-> TokenFor(u).sub, email |-> TokenFor(u).email, role |-> TokenFor(u).role] = u
      BY <1>1
    <3> QED
      BY <3>1, <3>2
  <2> QED
    BY <2>1, <2>2
<1> QED
  BY <1>1, <1>2, <1>3 DEF Inv, Tables, OneUserPerEmail, MerchantsKnown

(* A request that ends lets go of its transaction.                         *)
LEMMA ReturnKeeps ==
  ASSUME TypeOK, Requests, NEW s \in Sessions, Return(s), Rollback(s), UNCHANGED users
  PROVE  Requests'
<1>1. /\ calls' = [calls EXCEPT ![s] = Idle]
      /\ txs' = [txs EXCEPT ![s] = Nothing]
      /\ calls \in [Sessions -> Call \cup {Idle}]
      /\ txs \in [Sessions -> [users : SUBSET User, merchants : SUBSET Merchant]]
  BY DEF TypeOK, Return, Rollback
<1>2. /\ calls'[s].step = "idle" /\ txs'[s] = Nothing
      /\ \A t \in Sessions \ {s} : calls'[t] = calls[t] /\ txs'[t] = txs[t]
  BY <1>1 DEF Idle
<1>3. TxMatchesStep'
  <2>1. TxFits(s)'
    BY <1>2 DEF TxFits, Open, At
  <2> QED
    BY <1>2, <2>1, TxKept DEF Requests, TxMatchesStep
<1>4. IdsOwned'
  BY <1>2 DEF Requests, IdsOwned, Registering, Open, At, Who
<1>5. EmailsOwned'
  BY <1>2 DEF Requests, EmailsOwned, Open, At, Who
<1> QED
  BY <1>3, <1>4, <1>5 DEF Requests

(* A request without a transaction has none to roll back.                  *)
LEMMA NothingToRollBack ==
  ASSUME TypeOK, Requests, NEW s \in Sessions, ~Open(s), UNCHANGED txs
  PROVE  Rollback(s)
BY DEF TypeOK, Requests, TxMatchesStep, TxFits, Rollback

-----------------------------------------------------------------------------
(* Registration.                                                           *)

LEMMA RegisterInv ==
  ASSUME Inv, NEW s \in Sessions, NEW u \in UserIds, NEW e \in Emails, NEW asked,
         Register(s, u, e, asked)
  PROVE  Inv'
<1> DEFINE row == [id |-> u, email |-> e, role |-> Normalized(asked)]
<1>1. row \in User /\ row.id = u
  BY DEF Register, isAllowedRole, User
<1>2. /\ At(s, "idle") /\ Begin(s, "insertUser", row) /\ u \in Unused
      /\ UNCHANGED <<faults, users, merchants, txs, tokens, now>>
  BY DEF Register
<1> HIDE DEF row
<1>3. TypeOK'
  BY <1>1, <1>2, BeginType DEF Inv, TypeOK, Steps
<1>4. /\ calls'[s] = [step |-> "insertUser", user |-> row]
      /\ \A t \in Sessions \ {s} : calls'[t] = calls[t]
  BY <1>2 DEF Begin, Inv, TypeOK
<1>5. /\ \A v \in users : v.id # u
      /\ \A t \in Sessions : ~At(t, "idle") => Who(t).id # u
  BY <1>2 DEF Unused
<1>6. txs[s] = Nothing
  BY <1>2 DEF Inv, Requests, TxMatchesStep, TxFits, Open, At
<1>7. TxMatchesStep'
  <2>1. TxFits(s)'
    BY <1>2, <1>4, <1>6 DEF TxFits, Open, At
  <2> QED
    BY <1>2, <1>4, <2>1, TxKept DEF Inv, Requests, TxMatchesStep
<1>8. IdsOwned'
  BY <1>1, <1>2, <1>4, <1>5 DEF Inv, Requests, IdsOwned, Registering, Open, At, Who
<1>9. EmailsOwned'
  BY <1>2, <1>4 DEF Inv, Requests, EmailsOwned, Open, At, Who
<1> QED
  BY <1>2, <1>3, <1>7, <1>8, <1>9, TablesKept DEF Inv, Requests

(* The end of a request that stored nothing.                               *)
LEMMA GiveUpInv ==
  ASSUME Inv, NEW s \in Sessions, Return(s), Rollback(s), faults' \in FaultsSoFar,
         UNCHANGED <<users, merchants, tokens, now>>
  PROVE  Inv'
<1>1. TypeOK'
  BY ReturnType, RollbackType DEF Inv, TypeOK
<1> QED
  BY <1>1, ReturnKeeps, TablesKept DEF Inv

LEMMA InsertUserInv ==
  ASSUME Inv, NEW s \in Sessions, InsertUser(s)
  PROVE  Inv'
<1>1. /\ At(s, "insertUser") /\ ~EmailHeld(s)
      /\ UNCHANGED <<users, merchants, tokens, now>>
  BY DEF InsertUser
<1>2. PICK r \in Replies :
        /\ Reply(r)
        /\ IF r = "ok" /\ UserFits(Who(s))
             THEN /\ txs' = [txs EXCEPT ![s] = [users |-> {Who(s)}, merchants |-> {}]]
                  /\ GoTo(s, IF Who(s).role = "MERCHANT" THEN "insertMerchant" ELSE "commit")
             ELSE Rollback(s) /\ Return(s)
  BY DEF InsertUser
<1>3. faults' \in FaultsSoFar
  BY <1>2, ReplyType DEF Inv, TypeOK
<1>4. CASE ~(r = "ok" /\ UserFits(Who(s)))
  BY <1>1, <1>2, <1>3, <1>4, GiveUpInv
<1>5. CASE r = "ok" /\ UserFits(Who(s))
  <2> DEFINE next == IF Who(s).role = "MERCHANT" THEN "insertMerchant" ELSE "commit"
  <2>1. /\ txs' = [txs EXCEPT ![s] = [users |-> {Who(s)}, merchants |-> {}]]
        /\ GoTo(s, next)
    BY <1>2, <1>5
  <2>2. next \in Steps /\ "insertUser" \in Steps
    BY DEF Steps
  <2>3. Who(s) \in User /\ calls[s] \in Call
    BY <1>1, <2>2, CallType DEF Inv
  <2>4. /\ calls'[s].step = next /\ calls'[s].user = Who(s)
        /\ \A t \in Sessions \ {s} : calls'[t] = calls[t]
    <3> HIDE DEF next
    <3>1. calls'[s] = [calls[s] EXCEPT !.step = next] /\ \A t \in Sessions \ {s} : calls'[t] = calls[t]
      BY <2>1 DEF GoTo, Inv, TypeOK
    <3> QED
      BY <3>1, <2>3 DEF Call, Who
  <2>5. /\ txs'[s] = [users |-> {Who(s)}, merchants |-> {}]
        /\ \A t \in Sessions \ {s} : txs'[t] = txs[t]
    BY <2>1 DEF Inv, TypeOK
  <2>6. TypeOK'
    <3>1. [users |-> {Who(s)}, merchants |-> {}] \in [users : SUBSET User, merchants : SUBSET Merchant]
      BY <2>3
    <3>2. calls' \in [Sessions -> Call \cup {Idle}]
      BY <1>1, <2>1, <2>2, GoToType DEF Inv
    <3> QED
      BY <1>1, <1>3, <2>1, <3>1, <3>2 DEF Inv, TypeOK
  <2>7. TxMatchesStep'
    <3>1. /\ next = "insertMerchant" => Who(s).role = "MERCHANT"
          /\ next = "commit" => Who(s).role # "MERCHANT"
          /\ next \in {"insertMerchant", "commit"}
      OBVIOUS
    <3> HIDE DEF next
    <3>2. TxFits(s)'
      BY <2>4, <2>5, <3>1 DEF TxFits, Open, At, Who
    <3> QED
      BY <2>4, <2>5, <3>2, TxKept DEF Inv, Requests, TxMatchesStep
  <2>8. IdsOwned'
    <3>1. Registering(s)
      BY <1>1 DEF Registering
    <3> HIDE DEF next
    <3> QED
      BY <1>1, <2>4, <3>1 DEF Inv, Requests, IdsOwned, Registering, Open, At, Who
  <2>9. EmailsOwned'
    <3>1. \A v \in users : v.email # Who(s).email
      BY <1>5 DEF UserFits
    <3>2. \A t \in Sessions \ {s} : Open(t) => Who(t).email # Who(s).email
      <4> SUFFICES ASSUME NEW t \in Sessions \ {s}, Open(t) PROVE Who(t).email # Who(s).email
        OBVIOUS
      <4>1. Who(t) \in txs[t].users
        BY OpenHoldsUser DEF Inv, Requests
      <4> QED
        BY <1>1, <4>1 DEF EmailHeld
    <3> HIDE DEF next
    <3> QED
      BY <1>1, <2>4, <3>1, <3>2 DEF Inv, Requests, EmailsOwned, Open, At, Who
  <2> QED
    BY <1>1, <2>6, <2>7, <2>8, <2>9, TablesKept DEF Inv, Requests
<1> QED
  BY <1>4, <1>5

LEMMA InsertMerchantInv ==
  ASSUME Inv, NEW s \in Sessions, InsertMerchant(s)
  PROVE  Inv'
<1>1. At(s, "insertMerchant") /\ UNCHANGED <<users, merchants, tokens, now>>
  BY DEF InsertMerchant
<1>2. PICK r \in Replies :
        /\ Reply(r)
        /\ IF r = "ok" /\ MerchantFits(MerchantOf(Who(s)))
             THEN /\ txs' = [txs EXCEPT ![s].merchants = {MerchantOf(Who(s))}]
                  /\ GoTo(s, "commit")
             ELSE Rollback(s) /\ Return(s)
  BY DEF InsertMerchant
<1>3. faults' \in FaultsSoFar
  BY <1>2, ReplyType DEF Inv, TypeOK
<1>4. CASE ~(r = "ok" /\ MerchantFits(MerchantOf(Who(s))))
  BY <1>1, <1>2, <1>3, <1>4, GiveUpInv
<1>5. CASE r = "ok" /\ MerchantFits(MerchantOf(Who(s)))
  <2>1. /\ txs' = [txs EXCEPT ![s].merchants = {MerchantOf(Who(s))}]
        /\ GoTo(s, "commit")
    BY <1>2, <1>5
  <2>2. "insertMerchant" \in Steps /\ "commit" \in Steps
    BY DEF Steps
  <2>3. Who(s) \in User /\ calls[s] \in Call /\ MerchantOf(Who(s)) \in Merchant
    BY <1>1, <2>2, CallType, UserFields DEF Inv
  <2>4. /\ calls'[s].step = "commit" /\ calls'[s].user = Who(s)
        /\ \A t \in Sessions \ {s} : calls'[t] = calls[t]
    <3>1. calls'[s] = [calls[s] EXCEPT !.step = "commit"] /\ \A t \in Sessions \ {s} : calls'[t] = calls[t]
      BY <2>1 DEF GoTo, Inv, TypeOK
    <3> QED
      BY <3>1, <2>3 DEF Call, Who
  <2>5. /\ txs[s] = [users |-> {Who(s)}, merchants |-> {}]
        /\ Who(s).role = "MERCHANT"
    BY <1>1 DEF Inv, Requests, TxMatchesStep, TxFits
  <2>6. /\ txs'[s] = [users |-> {Who(s)}, merchants |-> {MerchantOf(Who(s))}]
        /\ \A t \in Sessions \ {s} : txs'[t] = txs[t]
    <3>1. TypeOK
      BY DEF Inv
    <3>2. /\ txs'[s] = [users |-> txs[s].users, merchants |-> {MerchantOf(Who(s))}]
          /\ \A t \in Sessions \ {s} : txs'[t] = txs[t]
      BY <2>1, <3>1, TxMerchants, Zenon
    <3> QED
      BY <2>5, <3>2
  <2>7. TypeOK'
    <3>1. [users |-> {Who(s)}, merchants |-> {MerchantOf(Who(s))}]
            \in [users : SUBSET User, merchants : SUBSET Merchant]
      BY <2>3
    <3>2. calls' \in [Sessions -> Call \cup {Idle}]
      BY <1>1, <2>1, <2>2, GoToType DEF Inv
    <3>3. txs' \in [Sessions -> [users : SUBSET User, merchants : SUBSET Merchant]]
      BY <2>1, <2>6, <3>1 DEF Inv, TypeOK
    <3> QED
      BY <1>1, <1>3, <3>2, <3>3 DEF Inv, TypeOK
  <2>8. TxMatchesStep'
    <3>1. TxFits(s)'
      BY <2>4, <2>5, <2>6 DEF TxFits, Open, At, Who
    <3> QED
      BY <2>4, <2>6, <3>1, TxKept DEF Inv, Requests, TxMatchesStep
  <2>9. Registering(s) /\ Open(s)
    BY <1>1 DEF Registering, Open
  <2>10. IdsOwned'
    BY <1>1, <2>4, <2>9 DEF Inv, Requests, IdsOwned, Registering, Open, At, Who
  <2>11. EmailsOwned'
    BY <1>1, <2>4, <2>9 DEF Inv, Requests, EmailsOwned, Open, At, Who
  <2> QED
    BY <1>1, <2>7, <2>8, <2>10, <2>11, TablesKept DEF Inv, Requests
<1> QED
  BY <1>4, <1>5

(* The rows of a committed transaction join the tables.                    *)
LEMMA CommittedTables ==
  ASSUME Inv, NEW s \in Sessions, At(s, "commit"),
         users' = users \cup txs[s].users, merchants' = merchants \cup txs[s].merchants,
         tokens' = tokens \/ tokens' = tokens \cup {TokenFor(Who(s))}
  PROVE  Tables' /\ users' \subseteq User /\ merchants' \subseteq Merchant /\ tokens' \subseteq Token
<1> DEFINE w == Who(s)
           own == IF w.role = "MERCHANT" THEN {MerchantOf(w)} ELSE {}
<1>1. w \in User
  BY CallType DEF Inv, Steps
<1>2. MerchantOf(w) \in Merchant
  BY <1>1, UserFields
<1>3. txs[s] = [users |-> {w}, merchants |-> own]
  BY DEF Inv, Requests, TxMatchesStep, TxFits
<1>4. users' = users \cup {w} /\ merchants' = merchants \cup own
  BY <1>3
<1>5. /\ TokenFor(w) \in Token
      /\ [id |-> TokenFor(w).sub, email |-> TokenFor(w).email, role |-> TokenFor(w).role] = w
  BY <1>1, TokenForType DEF Inv, TypeOK
<1>6. users \subseteq User /\ merchants \subseteq Merchant /\ tokens \subseteq Token
  BY DEF Inv, TypeOK
<1>7. \A v \in users : v.id # w.id /\ v.email # w.email
  <2>1. Registering(s) /\ Open(s)
    BY DEF Registering, Open
  <2> QED
    BY <2>1 DEF Inv, Requests, IdsOwned, EmailsOwned
<1> HIDE DEF w
<1>8. OneUserPerEmail'
  BY <1>4, <1>7 DEF Inv, Tables, OneUserPerEmail
<1>9. MerchantsKnown'
  BY <1>4 DEF Inv, Tables, MerchantsKnown
<1>10. TokensKnown'
  <2> SUFFICES ASSUME NEW tk \in tokens'
               PROVE  [id |-> tk.sub, email |-> tk.email, role |-> tk.role] \in users'
    BY DEF TokensKnown
  <2>1. CASE tk \in tokens
    BY <1>4, <2>1 DEF Inv, Tables, TokensKnown
  <2>2. CASE tk = TokenFor(w)
    BY <1>4, <1>5, <2>2
  <2> QED
    BY <2>1, <2>2 DEF w
<1>11. tokens' \subseteq Token
  BY <1>5, <1>6 DEF w
<1> QED
  BY <1>1, <1>2, <1>4, <1>6, <1>8, <1>9, <1>10, <1>11 DEF Tables

LEMMA CommitInv ==
  ASSUME Inv, NEW s \in Sessions, Commit(s)
  PROVE  Inv'
<1>1. At(s, "commit") /\ Rollback(s) /\ Return(s) /\ UNCHANGED now
  BY DEF Commit
<1>2. PICK r \in Replies :
        /\ Reply(r)
        /\ IF Executed(r)
             THEN /\ users' = users \cup txs[s].users
                  /\ merchants' = merchants \cup txs[s].merchants
             ELSE UNCHANGED <<users, merchants>>
        /\ tokens' = IF r = "ok" THEN tokens \cup {TokenFor(Who(s))} ELSE tokens
  BY DEF Commit
<1>3. faults' \in FaultsSoFar
  BY <1>2, ReplyType DEF Inv, TypeOK
<1>4. CASE ~Executed(r)
  <2>1. UNCHANGED <<users, merchants, tokens>>
    BY <1>2, <1>4 DEF Executed
  <2> QED
    BY <1>1, <1>3, <2>1, GiveUpInv
<1>5. CASE Executed(r)
  <2>1. /\ users' = users \cup txs[s].users /\ merchants' = merchants \cup txs[s].merchants
        /\ tokens' = tokens \/ tokens' = tokens \cup {TokenFor(Who(s))}
    BY <1>2, <1>5
  <2>2. Tables' /\ users' \subseteq User /\ merchants' \subseteq Merchant /\ tokens' \subseteq Token
    BY <1>1, <2>1, CommittedTables
  <2>3. TypeOK'
    BY <1>1, <1>3, <2>2, ReturnType, RollbackType DEF Inv, TypeOK
  <2>4. users' = users \cup {Who(s)} /\ Registering(s) /\ Open(s)
    BY <1>1, <2>1, OpenHoldsUser DEF Inv, Requests, Registering, Open
  <2>5. /\ calls'[s].step = "idle" /\ txs'[s] = Nothing
        /\ \A t \in Sessions \ {s} : calls'[t] = calls[t] /\ txs'[t] = txs[t]
    BY <1>1 DEF Return, Rollback, Idle, Inv, TypeOK
  <2>6. TxMatchesStep'
    <3>1. TxFits(s)'
      BY <2>5 DEF TxFits, Open, At
    <3> QED
      BY <2>5, <3>1, TxKept DEF Inv, Requests, TxMatchesStep
  <2>7. IdsOwned'
    BY <2>4, <2>5 DEF Inv, Requests, IdsOwned, Registering, Open, At, Who
  <2>8. EmailsOwned'
    BY <2>4, <2>5 DEF Inv, Requests, EmailsOwned, Open, At, Who
  <2> QED
    BY <2>2, <2>3, <2>6, <2>7, <2>8 DEF Inv, Requests
<1> QED
  BY <1>4, <1>5

-----------------------------------------------------------------------------
(* Tokens, the clock and the crash.                                        *)

(* Only the tokens, the clock and the count of the faults change.          *)
LEMMA TokensOnlyInv ==
  ASSUME Inv, UNCHANGED <<users, merchants, txs, calls>>, faults' \in FaultsSoFar, now' \in 0 .. MaxTime,
         \A tk \in tokens' : tk \in tokens \/ \E u \in users : tk = TokenFor(u)
  PROVE  Inv'
<1>1. Tables' /\ tokens' \subseteq Token
  BY TokensGiven
<1>2. TypeOK'
  BY <1>1 DEF Inv, TypeOK
<1>3. TxMatchesStep'
  BY TxKept DEF Inv, Requests, TxMatchesStep
<1>4. IdsOwned' /\ EmailsOwned'
  BY DEF Inv, Requests, IdsOwned, EmailsOwned, Registering, Open, At, Who
<1> QED
  BY <1>1, <1>2, <1>3, <1>4 DEF Inv, Requests

LEMMA LoginInv ==
  ASSUME Inv, NEW s \in Sessions, NEW e \in Emails, Login(s, e)
  PROVE  Inv'
<1>1. \A tk \in tokens' : tk \in tokens \/ \E u \in users : tk = TokenFor(u)
  BY DEF Login, FindByEmail
<1>2. /\ UNCHANGED <<users, merchants, txs, calls>>
      /\ faults' \in FaultsSoFar /\ now' \in 0 .. MaxTime
  BY DEF Login, Inv, TypeOK
<1> QED
  BY <1>1, <1>2, TokensOnlyInv

LEMMA RefreshInv ==
  ASSUME Inv, NEW s \in Sessions, NEW tk \in tokens, Refresh(s, tk)
  PROVE  Inv'
<1> DEFINE row == [id |-> tk.sub, email |-> tk.email, role |-> tk.role]
<1>1. /\ At(s, "idle") /\ Begin(s, "findUser", row)
      /\ UNCHANGED <<faults, users, merchants, txs, tokens, now>>
  BY DEF Refresh
<1>2. row \in User
  BY DEF Inv, TypeOK, Token, User
<1> HIDE DEF row
<1>3. TypeOK'
  BY <1>1, <1>2, BeginType DEF Inv, TypeOK, Steps
<1>4. calls'[s].step = "findUser" /\ \A t \in Sessions \ {s} : calls'[t] = calls[t]
  BY <1>1 DEF Begin, Inv, TypeOK
<1>5. TxMatchesStep'
  <2>1. txs[s] = Nothing
    BY <1>1 DEF Inv, Requests, TxMatchesStep, TxFits, Open, At
  <2>2. TxFits(s)'
    BY <1>1, <1>4, <2>1 DEF TxFits, Open, At
  <2> QED
    BY <1>1, <1>4, <2>2, TxKept DEF Inv, Requests, TxMatchesStep
<1>6. IdsOwned' /\ EmailsOwned'
  BY <1>1, <1>4 DEF Inv, Requests, IdsOwned, EmailsOwned, Registering, Open, At, Who
<1> QED
  BY <1>1, <1>3, <1>5, <1>6, TablesKept DEF Inv, Requests

LEMMA FindUserInv ==
  ASSUME Inv, NEW s \in Sessions, FindUser(s)
  PROVE  Inv'
<1>1. At(s, "findUser") /\ Return(s) /\ UNCHANGED <<users, merchants, txs, now>>
  BY DEF FindUser
<1>2. PICK r \in Replies :
        /\ Reply(r)
        /\ tokens' = IF r = "ok" THEN tokens \cup {TokenFor(u) : u \in FindByID(Who(s).id)} ELSE tokens
  BY DEF FindUser
<1>3. faults' \in FaultsSoFar
  BY <1>2, ReplyType DEF Inv, TypeOK
<1>4. \A tk \in tokens' : tk \in tokens \/ \E u \in users : tk = TokenFor(u)
  BY <1>2 DEF FindByID
<1>5. Tables' /\ tokens' \subseteq Token
  BY <1>1, <1>4, TokensGiven
<1>6. Rollback(s)
  <2>1. ~Open(s)
    BY <1>1 DEF Open, At
  <2> QED
    BY <1>1, <2>1, NothingToRollBack DEF Inv
<1>7. TypeOK'
  BY <1>1, <1>3, <1>5, ReturnType DEF Inv, TypeOK
<1> QED
  BY <1>1, <1>5, <1>6, <1>7, ReturnKeeps DEF Inv

LEMMA TimePassesInv ==
  ASSUME Inv, TimePasses
  PROVE  Inv'
<1>1. now' \in 0 .. MaxTime
  BY AccountAssumption DEF TimePasses, Inv, TypeOK
<1>2. UNCHANGED <<faults, users, merchants, txs, calls>> /\ tokens' \subseteq tokens
  BY DEF TimePasses
<1>3. faults' \in FaultsSoFar
  BY <1>2 DEF Inv, TypeOK
<1> QED
  BY <1>1, <1>2, <1>3, TokensOnlyInv

(* Every request and every open transaction is lost.                       *)
LEMMA LostInv ==
  ASSUME Inv, CrashFault,
         calls' = [s \in Sessions |-> Idle], txs' = [s \in Sessions |-> Nothing],
         UNCHANGED <<users, merchants, tokens, now>>
  PROVE  Inv'
<1>1. faults' \in FaultsSoFar
  BY CrashFaultType DEF Inv, TypeOK
<1>2. TypeOK'
  BY <1>1, NothingType DEF Inv, TypeOK
<1>3. \A s \in Sessions : calls'[s].step = "idle" /\ txs'[s] = Nothing
  BY DEF Idle
<1>4. Requests'
  BY <1>3 DEF Requests, TxMatchesStep, TxFits, IdsOwned, EmailsOwned, Registering, Open, At
<1> QED
  BY <1>2, <1>4, TablesKept DEF Inv

-----------------------------------------------------------------------------
LEMMA InitInv == Init => Inv
<1> SUFFICES ASSUME Init PROVE Inv
  OBVIOUS
<1>1. faults \in FaultsSoFar
  BY FaultsAssumption DEF Init, NoFaults, FaultsSoFar
<1>2. TypeOK
  BY <1>1, NothingType, AccountAssumption DEF Init, TypeOK
<1>3. \A s \in Sessions : calls[s].step = "idle" /\ txs[s] = Nothing
  BY DEF Init, Idle
<1>4. Requests
  BY <1>3 DEF Requests, TxMatchesStep, TxFits, IdsOwned, EmailsOwned, Registering, Open, At
<1>5. Tables
  BY DEF Init, Tables, OneUserPerEmail, MerchantsKnown, TokensKnown
<1> QED
  BY <1>2, <1>4, <1>5 DEF Inv

LEMMA ArriveInv ==
  ASSUME Inv, NEW s \in Sessions, Arrive(s)
  PROVE  Inv'
BY RegisterInv, LoginInv, RefreshInv DEF Arrive

LEMMA ProceedInv ==
  ASSUME Inv, NEW s \in Sessions, Proceed(s)
  PROVE  Inv'
BY InsertUserInv, InsertMerchantInv, CommitInv, FindUserInv DEF Proceed

LEMMA StepInv == Inv /\ [Next]_vars => Inv'
<1> SUFFICES ASSUME Inv, [Next]_vars PROVE Inv'
  OBVIOUS
<1>1. ASSUME NEW s \in Sessions, Arrive(s) \/ Proceed(s) PROVE Inv'
  BY <1>1, ArriveInv, ProceedInv
<1>2. CASE TimePasses
  BY <1>2, TimePassesInv
<1>3. CASE Crash
  BY <1>3, LostInv DEF Crash
<1>4. CASE UNCHANGED vars
  <2>1. /\ UNCHANGED <<users, merchants, txs, calls, tokens>>
        /\ faults' \in FaultsSoFar /\ now' \in 0 .. MaxTime
    BY <1>4 DEF vars, Inv, TypeOK
  <2> QED
    BY <2>1, TokensOnlyInv
<1> QED
  BY <1>1, <1>2, <1>3, <1>4 DEF Next

LEMMA InvariantHolds == Spec => []Inv
BY InitInv, StepInv, PTL DEF Spec

(* The merchants, element by element, are the set of the property.         *)
LEMMA InvMatchesUsers ==
  ASSUME Inv
  PROVE  MerchantsMatchUsers
<1> DEFINE ofUsers == {MerchantOf(u) : u \in {v \in users : v.role = "MERCHANT"}}
<1>1. merchants \subseteq Merchant /\ users \subseteq User
  BY DEF Inv, TypeOK
<1>2. \A m \in merchants : m \in ofUsers
  BY <1>1 DEF Inv, Tables, MerchantsKnown
<1>3. \A m \in ofUsers : m \in merchants
  BY <1>1, UserFields DEF Inv, Tables, MerchantsKnown
<1> QED
  BY <1>2, <1>3 DEF MerchantsMatchUsers

LEMMA InvBacksTokens ==
  ASSUME Inv
  PROVE  TokensAreBacked
<1> SUFFICES ASSUME NEW tk \in tokens
             PROVE  /\ [id |-> tk.sub, email |-> tk.email, role |-> tk.role] \in users
                    /\ tk.role = "MERCHANT" => [id |-> tk.sub, email |-> tk.email] \in merchants
  BY DEF TokensAreBacked
<1> DEFINE u == [id |-> tk.sub, email |-> tk.email, role |-> tk.role]
<1>1. u \in users /\ u \in User
  BY DEF Inv, Tables, TokensKnown, TypeOK
<1>2. MerchantOf(u) = [id |-> tk.sub, email |-> tk.email] /\ u.role = tk.role
  BY DEF MerchantOf
<1>3. MerchantOf(u) \in Merchant
  BY <1>1, UserFields
<1> HIDE DEF u
<1>4. u.role = "MERCHANT" => MerchantOf(u) \in merchants
  BY <1>1, <1>3 DEF Inv, Tables, MerchantsKnown
<1> QED
  BY <1>1, <1>2, <1>4 DEF u

(* Every variable keeps its type.                                          *)
THEOREM AccountsTypeCorrect == Spec => []TypeOK
<1>1. Inv => TypeOK
  BY DEF Inv
<1> QED
  BY <1>1, InvariantHolds, PTL

(* However registrations interleave and wherever they fail, an email and   *)
(* an id name one user.                                                    *)
THEOREM EmailsAreUnique == Spec => []OneUserPerEmail
<1>1. Inv => OneUserPerEmail
  BY DEF Inv, Tables
<1> QED
  BY <1>1, InvariantHolds, PTL

(* A merchant is stored with its user or not at all.                       *)
THEOREM MerchantsAreUsers == Spec => []MerchantsMatchUsers
<1>1. Inv => MerchantsMatchUsers
  BY InvMatchesUsers
<1> QED
  BY <1>1, InvariantHolds, PTL

(* The claims of a token are those of a stored user and merchant.          *)
THEOREM ClaimsAreTrue == Spec => []TokensAreBacked
<1>1. Inv => TokensAreBacked
  BY InvBacksTokens
<1> QED
  BY <1>1, InvariantHolds, PTL
-----------------------------------------------------------------------------
(* The invoices.                                                           *)

IssuingInv == /\ Inv
              /\ IssuingTypeOK
              /\ InvoicesIdentified
              /\ InvoicesHaveMerchants

-----------------------------------------------------------------------------
(* The drafts.                                                             *)

DraftsType == drafts \in [Sessions -> Draft \cup {NoDraft}]

NumberDraft == [step : {"number"}, merchant : UserIds, left : 1 .. Tries]
LinkDraft == [step : {"link"}, merchant : UserIds, left : 1 .. Tries, number : Numbers]
InsertDraft == [step : {"insert"}, merchant : UserIds, number : Numbers, link : Links]

LEMMA DraftOfStep ==
  ASSUME DraftsType, NEW s \in Sessions
  PROVE  /\ Drafting(s, "number") => drafts[s] \in NumberDraft
         /\ Drafting(s, "link") => drafts[s] \in LinkDraft
         /\ Drafting(s, "insert") => drafts[s] \in InsertDraft
<1>1. drafts[s] \in NumberDraft \cup LinkDraft \cup InsertDraft \cup {NoDraft}
  BY DEF DraftsType, Draft, NumberDraft, LinkDraft, InsertDraft
<1>2. /\ \A d \in NumberDraft : d.step = "number"
      /\ \A d \in LinkDraft : d.step = "link"
      /\ \A d \in InsertDraft : d.step = "insert"
      /\ NoDraft.step = "none"
  BY DEF NumberDraft, LinkDraft, InsertDraft, NoDraft
<1> QED
  BY <1>1, <1>2 DEF Drafting

(* A draft that is replaced by another keeps the type of the drafts.       *)
LEMMA DraftReplaced ==
  ASSUME DraftsType, NEW s \in Sessions, NEW d \in NumberDraft \cup LinkDraft \cup InsertDraft,
         drafts' = [drafts EXCEPT ![s] = d]
  PROVE  DraftsType'
<1>1. d \in Draft
  BY DEF Draft, NumberDraft, LinkDraft, InsertDraft
<1> QED
  BY <1>1 DEF DraftsType

LEMMA LeaveType ==
  ASSUME DraftsType, NEW s \in Sessions, Leave(s)
  PROVE  DraftsType'
BY DEF DraftsType, Leave

LEMMA DrawAgainType ==
  ASSUME DraftsType, NEW s \in Sessions, Drafting(s, "number") \/ Drafting(s, "link"), DrawAgain(s)
  PROVE  DraftsType'
<1>1. CASE drafts[s].left = 1
  BY <1>1, LeaveType DEF DrawAgain
<1>2. CASE drafts[s].left # 1
  <2>1. drafts' = [drafts EXCEPT ![s] = [drafts[s] EXCEPT !.left = drafts[s].left - 1]]
    BY <1>2 DEF DrawAgain
  <2>2. drafts[s] \in NumberDraft \/ drafts[s] \in LinkDraft
    BY DraftOfStep
  <2>3. drafts[s].left - 1 \in 1 .. Tries
    BY <1>2, <2>2, IssuingAssumption DEF NumberDraft, LinkDraft
  <2>4. ASSUME NEW d \in NumberDraft, NEW n \in 1 .. Tries
        PROVE  [d EXCEPT !.left = n] \in NumberDraft
    BY DEF NumberDraft
  <2>5. ASSUME NEW d \in LinkDraft, NEW n \in 1 .. Tries
        PROVE  [d EXCEPT !.left = n] \in LinkDraft
    BY DEF LinkDraft
  <2>6. [drafts[s] EXCEPT !.left = drafts[s].left - 1] \in NumberDraft \cup LinkDraft
    BY <2>2, <2>3, <2>4, <2>5
  <2> QED
    BY <2>1, <2>6, DraftReplaced
<1> QED
  BY <1>1, <1>2

-----------------------------------------------------------------------------
(* What the steps share.                                                   *)

(* Rows of merchants are never taken back.                                 *)
LEMMA MerchantsGrow == [Next]_vars => merchants \subseteq merchants'
<1> SUFFICES ASSUME [Next]_vars PROVE merchants \subseteq merchants'
  OBVIOUS
<1>1. ASSUME NEW s \in Sessions, Arrive(s) PROVE merchants \subseteq merchants'
  BY <1>1 DEF Arrive, Register, Login, Refresh
<1>2. ASSUME NEW s \in Sessions, Proceed(s) PROVE merchants \subseteq merchants'
  BY <1>2 DEF Proceed, InsertUser, InsertMerchant, Commit, FindUser
<1>3. CASE TimePasses
  BY <1>3 DEF TimePasses
<1>4. CASE Crash
  BY <1>4 DEF Crash
<1>5. CASE UNCHANGED vars
  BY <1>5 DEF vars
<1> QED
  BY <1>1, <1>2, <1>3, <1>4, <1>5 DEF Next

(* The tables of the accounts and the requests for them are left alone.    *)
LEMMA AccountsKept ==
  ASSUME Inv, faults' \in FaultsSoFar, UNCHANGED <<users, merchants, txs, calls, tokens, now>>
  PROVE  Inv'
<1>1. now' \in 0 .. MaxTime
  BY DEF Inv, TypeOK
<1> QED
  BY <1>1, TokensOnlyInv

(* The invoices stay, and no merchant goes.                                *)
LEMMA InvoicesKept ==
  ASSUME IssuingInv, Inv', DraftsType', UNCHANGED invoices, merchants \subseteq merchants'
  PROVE  IssuingInv'
<1>1. IssuingTypeOK'
  BY DEF IssuingInv, IssuingTypeOK, Inv, DraftsType
<1>2. InvoicesIdentified' /\ InvoicesHaveMerchants'
  BY DEF IssuingInv, InvoicesIdentified, InvoicesHaveMerchants
<1> QED
  BY <1>1, <1>2 DEF IssuingInv

-----------------------------------------------------------------------------
(* The steps of a request for an invoice.                                  *)

LEMMA CreateInvoiceInv ==
  ASSUME IssuingInv, NEW s \in Sessions, NEW tk \in tokens, NEW m \in UserIds, CreateInvoice(s, tk, m)
  PROVE  IssuingInv'
<1>1. /\ drafts' = [drafts EXCEPT ![s] = [step |-> "number", merchant |-> m, left |-> Tries]]
      /\ UNCHANGED <<vars, invoices>>
  BY DEF CreateInvoice
<1>2. [step |-> "number", merchant |-> m, left |-> Tries] \in NumberDraft
  BY IssuingAssumption DEF NumberDraft
<1>3. DraftsType'
  BY <1>1, <1>2, DraftReplaced DEF IssuingInv, IssuingTypeOK, DraftsType
<1>4. Inv' /\ merchants \subseteq merchants'
  BY <1>1, StepInv DEF IssuingInv, vars
<1> QED
  BY <1>1, <1>3, <1>4, InvoicesKept

LEMMA DrawNumberInv ==
  ASSUME IssuingInv, NEW s \in Sessions, DrawNumber(s)
  PROVE  IssuingInv'
<1>1. /\ Drafting(s, "number")
      /\ UNCHANGED <<users, merchants, txs, calls, tokens, now, invoices>>
  BY DEF DrawNumber
<1>2. PICK r \in Replies, n \in Numbers :
        /\ Reply(r)
        /\ \/ Leave(s)
           \/ DrawAgain(s)
           \/ drafts' = [drafts EXCEPT ![s] = [step |-> "link", merchant |-> drafts[s].merchant,
                                               left |-> Tries, number |-> n]]
  BY DEF DrawNumber
<1>3. DraftsType
  BY DEF IssuingInv, IssuingTypeOK, DraftsType
<1>4. [step |-> "link", merchant |-> drafts[s].merchant, left |-> Tries, number |-> n] \in LinkDraft
  BY <1>1, <1>3, DraftOfStep, IssuingAssumption DEF NumberDraft, LinkDraft
<1>5. DraftsType'
  BY <1>1, <1>2, <1>3, <1>4, LeaveType, DrawAgainType, DraftReplaced
<1>6. faults' \in FaultsSoFar
  BY <1>2, ReplyType DEF IssuingInv, Inv, TypeOK
<1>7. Inv'
  BY <1>1, <1>6, AccountsKept DEF IssuingInv
<1> QED
  BY <1>1, <1>5, <1>7, InvoicesKept

LEMMA DrawLinkInv ==
  ASSUME IssuingInv, NEW s \in Sessions, DrawLink(s)
  PROVE  IssuingInv'
<1>1. /\ Drafting(s, "link")
      /\ UNCHANGED <<users, merchants, txs, calls, tokens, now, invoices>>
  BY DEF DrawLink
<1>2. PICK r \in Replies, k \in Links :
        /\ Reply(r)
        /\ \/ Leave(s)
           \/ DrawAgain(s)
           \/ drafts' = [drafts EXCEPT ![s] = [step |-> "insert", merchant |-> drafts[s].merchant,
                                               number |-> drafts[s].number, link |-> k]]
  BY DEF DrawLink
<1>3. DraftsType
  BY DEF IssuingInv, IssuingTypeOK, DraftsType
<1>4. [step |-> "insert", merchant |-> drafts[s].merchant, number |-> drafts[s].number, link |-> k]
        \in InsertDraft
  BY <1>1, <1>3, DraftOfStep DEF LinkDraft, InsertDraft
<1>5. DraftsType'
  BY <1>1, <1>2, <1>3, <1>4, LeaveType, DrawAgainType, DraftReplaced
<1>6. faults' \in FaultsSoFar
  BY <1>2, ReplyType DEF IssuingInv, Inv, TypeOK
<1>7. Inv'
  BY <1>1, <1>6, AccountsKept DEF IssuingInv
<1> QED
  BY <1>1, <1>5, <1>7, InvoicesKept

LEMMA InsertInvoiceInv ==
  ASSUME IssuingInv, NEW s \in Sessions, InsertInvoice(s)
  PROVE  IssuingInv'
<1> DEFINE i == [number |-> drafts[s].number, link |-> drafts[s].link, merchant |-> drafts[s].merchant]
<1>1. /\ Drafting(s, "insert") /\ Leave(s)
      /\ UNCHANGED <<users, merchants, txs, calls, tokens, now>>
  BY DEF InsertInvoice
<1>2. PICK r \in Replies :
        /\ Reply(r)
        /\ invoices' = IF Executed(r) /\ InvoiceFits(i) THEN invoices \cup {i} ELSE invoices
  BY DEF InsertInvoice
<1>3. DraftsType
  BY DEF IssuingInv, IssuingTypeOK, DraftsType
<1>4. i \in Invoice
  BY <1>1, <1>3, DraftOfStep DEF InsertDraft, Invoice
<1> HIDE DEF i
<1>5. DraftsType'
  BY <1>1, <1>3, LeaveType
<1>6. faults' \in FaultsSoFar
  BY <1>2, ReplyType DEF IssuingInv, Inv, TypeOK
<1>7. Inv'
  BY <1>1, <1>6, AccountsKept DEF IssuingInv
<1>8. CASE invoices' = invoices
  BY <1>1, <1>5, <1>7, <1>8, InvoicesKept
<1>9. CASE invoices' = invoices \cup {i} /\ InvoiceFits(i)
  <2>1. IssuingTypeOK'
    BY <1>4, <1>5, <1>7, <1>9 DEF IssuingInv, IssuingTypeOK, Inv, DraftsType
  <2>2. InvoicesIdentified'
    BY <1>9 DEF IssuingInv, InvoicesIdentified, InvoiceFits, NumberTaken, LinkTaken
  <2>3. InvoicesHaveMerchants'
    BY <1>1, <1>9 DEF IssuingInv, InvoicesHaveMerchants, InvoiceFits
  <2> QED
    BY <1>7, <2>1, <2>2, <2>3 DEF IssuingInv
<1> QED
  BY <1>2, <1>8, <1>9

LEMMA IssuingCrashInv ==
  ASSUME IssuingInv, IssuingCrash
  PROVE  IssuingInv'
<1>1. /\ CrashFault
      /\ calls' = [s \in Sessions |-> Idle] /\ txs' = [s \in Sessions |-> Nothing]
      /\ drafts' = [s \in Sessions |-> NoDraft]
      /\ UNCHANGED <<users, merchants, tokens, now, invoices>>
  BY DEF IssuingCrash
<1>2. Inv'
  BY <1>1, LostInv DEF IssuingInv
<1>3. DraftsType'
  BY <1>1 DEF DraftsType
<1> QED
  BY <1>1, <1>2, <1>3, InvoicesKept

-----------------------------------------------------------------------------
LEMMA IssuingInitInv == IssuingInit => IssuingInv
<1> SUFFICES ASSUME IssuingInit PROVE IssuingInv
  OBVIOUS
<1>1. Inv
  BY InitInv DEF IssuingInit
<1>2. IssuingTypeOK
  BY <1>1 DEF IssuingInit, IssuingTypeOK, Inv
<1> QED
  BY <1>1, <1>2 DEF IssuingInit, IssuingInv, InvoicesIdentified, InvoicesHaveMerchants

LEMMA IssuingStepInv == IssuingInv /\ [IssuingNext]_issuingVars => IssuingInv'
<1> SUFFICES ASSUME IssuingInv, [IssuingNext]_issuingVars PROVE IssuingInv'
  OBVIOUS
(* A step of the accounts beside unchanged invoices.                       *)
<1>1. ASSUME [Next]_vars, UNCHANGED <<invoices, drafts>> PROVE IssuingInv'
  <2>1. Inv' /\ merchants \subseteq merchants'
    BY <1>1, StepInv, MerchantsGrow DEF IssuingInv
  <2>2. DraftsType'
    BY <1>1 DEF IssuingInv, IssuingTypeOK, DraftsType
  <2> QED
    BY <1>1, <2>1, <2>2, InvoicesKept
<1>2. ASSUME NEW s \in Sessions, Account(s) PROVE IssuingInv'
  BY <1>1, <1>2 DEF Account, Next
<1>3. ASSUME NEW s \in Sessions, Draw(s) PROVE IssuingInv'
  BY <1>3, DrawNumberInv, DrawLinkInv, InsertInvoiceInv DEF Draw
<1>4. CASE IssuingTimePasses
  BY <1>1, <1>4 DEF IssuingTimePasses, Next
<1>5. CASE UNCHANGED issuingVars
  BY <1>1, <1>5 DEF issuingVars
<1> QED
  BY <1>2, <1>3, <1>4, <1>5, CreateInvoiceInv, IssuingCrashInv DEF IssuingNext, Quiet

LEMMA IssuingInvariantHolds == IssuingSpec => []IssuingInv
BY IssuingInitInv, IssuingStepInv, PTL DEF IssuingSpec

(* Every variable keeps its type.                                          *)
THEOREM IssuingTypeCorrect == IssuingSpec => []IssuingTypeOK
<1>1. IssuingInv => IssuingTypeOK
  BY DEF IssuingInv
<1> QED
  BY <1>1, IssuingInvariantHolds, PTL

(* Requests that drew the same number or payment token leave one invoice.  *)
THEOREM NumbersAreUnique == IssuingSpec => []InvoicesIdentified
<1>1. IssuingInv => InvoicesIdentified
  BY DEF IssuingInv
<1> QED
  BY <1>1, IssuingInvariantHolds, PTL

(* Every invoice is of a stored merchant, whatever id an admin names.      *)
THEOREM IssuersAreMerchants == IssuingSpec => []InvoicesHaveMerchants
<1>1. IssuingInv => InvoicesHaveMerchants
  BY DEF IssuingInv
<1> QED
  BY <1>1, IssuingInvariantHolds, PTL

(* Beside invoices, registrations still keep the users and the merchants   *)
(* together and the tokens true.                                           *)
THEOREM AccountsStayRight ==
  IssuingSpec => [](OneUserPerEmail /\ MerchantsMatchUsers /\ TokensAreBacked)
<1>1. IssuingInv => OneUserPerEmail /\ MerchantsMatchUsers /\ TokensAreBacked
  BY InvMatchesUsers, InvBacksTokens DEF IssuingInv, Inv, Tables
<1> QED
  BY <1>1, IssuingInvariantHolds, PTL
-----------------------------------------------------------------------------
(* The two routers.  Either is a table of routes, each with the roles it   *)
(* is open to and its handler; the table is the same.                      *)

OpenRows ==
  {<<"POST", <<"auth", "login">>, Public, "LoginGin">>,
   <<"POST", <<"auth", "register">>, Public, "RegisterGin">>,
   <<"GET", <<"health">>, Public, "Health">>,
   <<"GET", <<"pay", "*">>, Public, "ResolvePaymentLink">>,
   <<"POST", <<"pay", "*", "intents">>, Public, "CreatePaymentIntent">>}

TokenRows == {<<"POST", <<"auth", "refresh">>, AnyRole, "RefreshGin">>}

InvoiceRows ==
  {<<"GET", <<"invoices">>, {"MERCHANT", "ADMIN"}, "ListInvoicesGin">>,
   <<"POST", <<"invoices">>, {"MERCHANT", "ADMIN"}, "CreateInvoiceGin">>,
   <<"GET", <<"invoices", "*">>, {"MERCHANT", "ADMIN"}, "GetInvoiceGin">>,
   <<"PUT", <<"invoices", "*">>, {"MERCHANT", "ADMIN"}, "UpdateInvoiceGin">>,
   <<"DELETE", <<"invoices", "*">>, {"MERCHANT", "ADMIN"}, "DeleteInvoiceGin">>}

MerchantRows ==
  {<<"GET", <<"merchant", "profile">>, {"MERCHANT"}, "MerchantOnly">>,
   <<"POST", <<"merchant", "refunds">>, {"MERCHANT"}, "RequestRefund">>,
   <<"GET", <<"merchant", "refunds">>, {"MERCHANT"}, "ListHistory">>,
   <<"POST", <<"merchant", "topups">>, {"MERCHANT"}, "RequestTopUp">>,
   <<"GET", <<"merchant", "topups">>, {"MERCHANT"}, "History">>}

AdminRows ==
  {<<"GET", <<"admin", "dashboard">>, {"ADMIN"}, "AdminOnly">>,
   <<"GET", <<"admin", "dashboard", "stats">>, {"ADMIN"}, "Stats">>,
   <<"POST", <<"admin", "payment-intents", "*", "simulate">>, {"ADMIN"}, "SimulatePaymentIntent">>,
   <<"POST", <<"admin", "refunds", "*", "approve">>, {"ADMIN"}, "ApproveRefund">>,
   <<"POST", <<"admin", "refunds", "*", "reject">>, {"ADMIN"}, "RejectRefund">>,
   <<"POST", <<"admin", "refunds", "*", "process">>, {"ADMIN"}, "ProcessRefund">>,
   <<"POST", <<"admin", "topups", "*", "status">>, {"ADMIN"}, "AdminUpdate">>}

Table == OpenRows \cup TokenRows \cup InvoiceRows \cup MerchantRows \cup AdminRows

AnswersOf(rows) == {<<r[1], r[2], id, Answer(r[3], id, r[4])>> : r \in rows, id \in Identities}

(* The row of the table that a generated route stands for.                 *)
CodegenRow(r) == <<r[1], r[2], CodegenOpen(r[2]), Adapter[r[3]]>>

LEMMA CodegenTable ==
  (\A r \in CodegenRoutes : CodegenRow(r) \in Table) /\ \A t \in Table : \E r \in CodegenRoutes : t = CodegenRow(r)
<1>1. \A r \in CodegenRoutes : CodegenRow(r) \in Table
  BY SMTT(60) DEF CodegenRoutes, CodegenRow, CodegenOpen, Below, Adapter,
         Table, OpenRows, TokenRows, InvoiceRows, MerchantRows, AdminRows
<1>2. \A t \in OpenRows \cup TokenRows : \E r \in CodegenRoutes : t = CodegenRow(r)
  BY DEF CodegenRoutes, CodegenRow, CodegenOpen, Below, Adapter, OpenRows, TokenRows
<1>3. \A t \in InvoiceRows : \E r \in CodegenRoutes : t = CodegenRow(r)
  BY DEF CodegenRoutes, CodegenRow, CodegenOpen, Below, Adapter, InvoiceRows
<1>4. \A t \in MerchantRows : \E r \in CodegenRoutes : t = CodegenRow(r)
  BY DEF CodegenRoutes, CodegenRow, CodegenOpen, Below, Adapter, MerchantRows
<1>5. \A t \in AdminRows : \E r \in CodegenRoutes : t = CodegenRow(r)
  BY DEF CodegenRoutes, CodegenRow, CodegenOpen, Below, Adapter, AdminRows
<1> QED
  BY <1>1, <1>2, <1>3, <1>4, <1>5 DEF Table

(* The routes of the server are the table.                                 *)
LEMMA CodegenSide == CodegenAnswers = AnswersOf(Table)
<1>1. \A r : /\ CodegenRow(r)[1] = r[1] /\ CodegenRow(r)[2] = r[2]
             /\ CodegenRow(r)[3] = CodegenOpen(r[2]) /\ CodegenRow(r)[4] = Adapter[r[3]]
  BY DEF CodegenRow
<1>2. \A r, id : LET t == CodegenRow(r) IN
        <<t[1], t[2], id, Answer(t[3], id, t[4])>>
          = <<r[1], r[2], id, Answer(CodegenOpen(r[2]), id, Adapter[r[3]])>>
  BY <1>1
<1>3. CodegenAnswers \subseteq AnswersOf(Table)
  BY <1>2, CodegenTable DEF CodegenAnswers, AnswersOf
<1>4. AnswersOf(Table) \subseteq CodegenAnswers
  BY <1>2, CodegenTable DEF CodegenAnswers, AnswersOf
<1> QED
  BY <1>3, <1>4

(* The row that a route of a group stands for.                             *)
GroupRow(group, open, r) == <<r[1], group \o r[2], open, r[3]>>

(* A group answers as the rows of its routes.                              *)
LEMMA GroupAnswers ==
  ASSUME NEW group, NEW open, NEW routes, NEW rows,
         \A r \in routes : GroupRow(group, open, r) \in rows,
         \A t \in rows : \E r \in routes : t = GroupRow(group, open, r)
  PROVE  In(group, open, routes) = AnswersOf(rows)
<1>1. \A r, id : LET t == GroupRow(group, open, r) IN
        <<t[1], t[2], id, Answer(t[3], id, t[4])>> = <<r[1], group \o r[2], id, Answer(open, id, r[3])>>
  BY DEF GroupRow
<1>2. ASSUME NEW r \in routes, NEW id \in Identities
      PROVE  <<r[1], group \o r[2], id, Answer(open, id, r[3])>> \in AnswersOf(rows)
  <2>1. PICK t \in rows : t = GroupRow(group, open, r)
    OBVIOUS
  <2>2. <<t[1], t[2], id, Answer(t[3], id, t[4])>> = <<r[1], group \o r[2], id, Answer(open, id, r[3])>>
    BY <1>1, <2>1
  <2> QED
    BY <2>2 DEF AnswersOf
<1>3. ASSUME NEW t \in rows, NEW id \in Identities
      PROVE  <<t[1], t[2], id, Answer(t[3], id, t[4])>> \in In(group, open, routes)
  <2>1. PICK r \in routes : t = GroupRow(group, open, r)
    OBVIOUS
  <2>2. <<t[1], t[2], id, Answer(t[3], id, t[4])>> = <<r[1], group \o r[2], id, Answer(open, id, r[3])>>
    BY <1>1, <2>1
  <2> QED
    BY <2>2 DEF In
<1>4. In(group, open, routes) \subseteq AnswersOf(rows)
  BY <1>2 DEF In
<1>5. AnswersOf(rows) \subseteq In(group, open, routes)
  BY <1>3 DEF AnswersOf
<1> QED
  BY <1>4, <1>5

(* The path of a route below its group.                                    *)
LEMMA GroupItself ==
  ASSUME NEW a
  PROVE  <<a>> \o <<>> = <<a>>
<1> DEFINE S == {a}  s == <<a>> \o <<>>  t == <<a>>
<1>1. /\ <<a>> \in Seq(S) /\ <<>> \in Seq(S) /\ t \in Seq(S) /\ Len(t) = 1
      /\ t[1] = a
  OBVIOUS
<1>2. s \in Seq(S) /\ Len(s) = 1 /\ s[1] = a
  BY <1>1, ConcatProperties, Z3
<1> HIDE DEF s, t, S
<1>3. \A i \in 1 .. Len(s) : s[i] = t[i]
  BY <1>1, <1>2
<1> QED
  BY <1>1, <1>2, <1>3, SeqEqual DEF s, t

LEMMA OneBelow ==
  ASSUME NEW a, NEW b
  PROVE  <<a>> \o <<b>> = <<a, b>>
<1> DEFINE S == {a, b}  s == <<a>> \o <<b>>  t == <<a, b>>
<1>1. /\ <<a>> \in Seq(S) /\ <<b>> \in Seq(S) /\ t \in Seq(S) /\ Len(t) = 2
      /\ t[1] = a /\ t[2] = b
  OBVIOUS
<1>2. s \in Seq(S) /\ Len(s) = 2 /\ s[1] = a /\ s[2] = b
  BY <1>1, ConcatProperties, Z3
<1> HIDE DEF s, t, S
<1>3. \A i \in 1 .. Len(s) : s[i] = t[i]
  BY <1>1, <1>2
<1> QED
  BY <1>1, <1>2, <1>3, SeqEqual DEF s, t

LEMMA TwoBelow ==
  ASSUME NEW a, NEW b, NEW c
  PROVE  <<a>> \o <<b, c>> = <<a, b, c>>
<1> DEFINE S == {a, b, c}  s == <<a>> \o <<b, c>>  t == <<a, b, c>>
<1>1. /\ <<a>> \in Seq(S) /\ <<b, c>> \in Seq(S) /\ t \in Seq(S) /\ Len(t) = 3
      /\ t[1] = a /\ t[2] = b /\ t[3] = c
  OBVIOUS
<1>2. s \in Seq(S) /\ Len(s) = 3 /\ s[1] = a /\ s[2] = b /\ s[3] = c
  BY <1>1, ConcatProperties, Z3
<1> HIDE DEF s, t, S
<1>3. \A i \in 1 .. Len(s) : s[i] = t[i]
  BY <1>1, <1>2
<1> QED
  BY <1>1, <1>2, <1>3, SeqEqual DEF s, t

LEMMA ThreeBelow ==
  ASSUME NEW a, NEW b, NEW c, NEW d
  PROVE  <<a>> \o <<b, c, d>> = <<a, b, c, d>>
<1> DEFINE S == {a, b, c, d}  s == <<a>> \o <<b, c, d>>  t == <<a, b, c, d>>
<1>1. /\ <<a>> \in Seq(S) /\ <<b, c, d>> \in Seq(S) /\ t \in Seq(S) /\ Len(t) = 4
      /\ t[1] = a /\ t[2] = b /\ t[3] = c /\ t[4] = d
  OBVIOUS
<1>2. s \in Seq(S) /\ Len(s) = 4 /\ s[1] = a /\ s[2] = b /\ s[3] = c /\ s[4] = d
  BY <1>1, ConcatProperties, Z3
<1> HIDE DEF s, t, S
<1>3. \A i \in 1 .. Len(s) : s[i] = t[i]
  BY <1>1, <1>2
<1> QED
  BY <1>1, <1>2, <1>3, SeqEqual DEF s, t

(* The routes outside a group keep their path.                             *)
LEMMA BelowNothing ==
  /\ \A a : <<>> \o <<a>> = <<a>>
  /\ \A a, b : <<>> \o <<a, b>> = <<a, b>>
  /\ \A a, b, c : <<>> \o <<a, b, c>> = <<a, b, c>>
<1>1. \A a : <<>> \o <<a>> = <<a>>
  OBVIOUS
<1>2. \A a, b : <<>> \o <<a, b>> = <<a, b>>
  OBVIOUS
<1>3. \A a, b, c : <<>> \o <<a, b, c>> = <<a, b, c>>
  OBVIOUS
<1> QED
  BY <1>1, <1>2, <1>3

(* The groups together are the table as well.                              *)
LEMMA RouterSide == RouterAnswers = AnswersOf(Table)
<1> DEFINE
      openRoutes ==
        {<<"POST", <<"auth", "login">>, "LoginGin">>, <<"POST", <<"auth", "register">>, "RegisterGin">>,
         <<"GET", <<"health">>, "Health">>, <<"GET", <<"pay", "*">>, "ResolvePaymentLink">>,
         <<"POST", <<"pay", "*", "intents">>, "CreatePaymentIntent">>}
      tokenRoutes == {<<"POST", <<"auth", "refresh">>, "RefreshGin">>}
      invoiceRoutes ==
        {<<"GET", <<>>, "ListInvoicesGin">>, <<"POST", <<>>, "CreateInvoiceGin">>,
         <<"GET", <<"*">>, "GetInvoiceGin">>, <<"PUT", <<"*">>, "UpdateInvoiceGin">>,
         <<"DELETE", <<"*">>, "DeleteInvoiceGin">>}
      merchantRoutes ==
        {<<"GET", <<"profile">>, "MerchantOnly">>, <<"POST", <<"refunds">>, "RequestRefund">>,
         <<"GET", <<"refunds">>, "ListHistory">>, <<"POST", <<"topups">>, "RequestTopUp">>,
         <<"GET", <<"topups">>, "History">>}
      adminRoutes ==
        {<<"GET", <<"dashboard">>, "AdminOnly">>, <<"GET", <<"dashboard", "stats">>, "Stats">>,
         <<"POST", <<"payment-intents", "*", "simulate">>, "SimulatePaymentIntent">>,
         <<"POST", <<"refunds", "*", "approve">>, "ApproveRefund">>,
         <<"POST", <<"refunds", "*", "reject">>, "RejectRefund">>,
         <<"POST", <<"refunds", "*", "process">>, "ProcessRefund">>,
         <<"POST", <<"topups", "*", "status">>, "AdminUpdate">>}
<1>1. In(<<>>, Public, openRoutes) = AnswersOf(OpenRows)
  <2>1. \A r \in openRoutes : GroupRow(<<>>, Public, r) \in OpenRows
    BY BelowNothing DEF GroupRow, OpenRows
  <2>2. \A t \in OpenRows : \E r \in openRoutes : t = GroupRow(<<>>, Public, r)
    BY BelowNothing DEF GroupRow, OpenRows
  <2> HIDE DEF openRoutes
  <2> QED
    BY <2>1, <2>2, GroupAnswers, Zenon
<1>2. In(<<>>, AnyRole, tokenRoutes) = AnswersOf(TokenRows)
  <2>1. \A r \in tokenRoutes : GroupRow(<<>>, AnyRole, r) \in TokenRows
    BY BelowNothing DEF GroupRow, TokenRows
  <2>2. \A t \in TokenRows : \E r \in tokenRoutes : t = GroupRow(<<>>, AnyRole, r)
    BY BelowNothing DEF GroupRow, TokenRows
  <2> HIDE DEF tokenRoutes
  <2> QED
    BY <2>1, <2>2, GroupAnswers, Zenon
<1>3. In(<<"invoices">>, {"MERCHANT", "ADMIN"}, invoiceRoutes) = AnswersOf(InvoiceRows)
  <2>0. /\ <<"invoices">> \o <<>> = <<"invoices">>
        /\ <<"invoices">> \o <<"*">> = <<"invoices", "*">>
    BY GroupItself, OneBelow
  <2>rows.
        /\ GroupRow(<<"invoices">>, {"MERCHANT", "ADMIN"}, <<"GET", <<>>, "ListInvoicesGin">>)
             = <<"GET", <<"invoices">>, {"MERCHANT", "ADMIN"}, "ListInvoicesGin">>
        /\ GroupRow(<<"invoices">>, {"MERCHANT", "ADMIN"}, <<"POST", <<>>, "CreateInvoiceGin">>)
             = <<"POST", <<"invoices">>, {"MERCHANT", "ADMIN"}, "CreateInvoiceGin">>
        /\ GroupRow(<<"invoices">>, {"MERCHANT", "ADMIN"}, <<"GET", <<"*">>, "GetInvoiceGin">>)
             = <<"GET", <<"invoices", "*">>, {"MERCHANT", "ADMIN"}, "GetInvoiceGin">>
        /\ GroupRow(<<"invoices">>, {"MERCHANT", "ADMIN"}, <<"PUT", <<"*">>, "UpdateInvoiceGin">>)
             = <<"PUT", <<"invoices", "*">>, {"MERCHANT", "ADMIN"}, "UpdateInvoiceGin">>
        /\ GroupRow(<<"invoices">>, {"MERCHANT", "ADMIN"}, <<"DELETE", <<"*">>, "DeleteInvoiceGin">>)
             = <<"DELETE", <<"invoices", "*">>, {"MERCHANT", "ADMIN"}, "DeleteInvoiceGin">>
    BY <2>0 DEF GroupRow
  <2>1. \A r \in invoiceRoutes : GroupRow(<<"invoices">>, {"MERCHANT", "ADMIN"}, r) \in InvoiceRows
    BY <2>rows DEF InvoiceRows
  <2>2. \A t \in InvoiceRows : \E r \in invoiceRoutes : t = GroupRow(<<"invoices">>, {"MERCHANT", "ADMIN"}, r)
    BY <2>rows DEF InvoiceRows
  <2> HIDE DEF invoiceRoutes
  <2> QED
    BY <2>1, <2>2, GroupAnswers, Zenon
<1>4. In(<<"merchant">>, {"MERCHANT"}, merchantRoutes) = AnswersOf(MerchantRows)
  <2>0. /\ <<"merchant">> \o <<"profile">> = <<"merchant", "profile">>
        /\ <<"merchant">> \o <<"refunds">> = <<"merchant", "refunds">>
        /\ <<"merchant">> \o <<"topups">> = <<"merchant", "topups">>
    BY OneBelow
  <2>rows.
        /\ GroupRow(<<"merchant">>, {"MERCHANT"}, <<"GET", <<"profile">>, "MerchantOnly">>)
             = <<"GET", <<"merchant", "profile">>, {"MERCHANT"}, "MerchantOnly">>
        /\ GroupRow(<<"merchant">>, {"MERCHANT"}, <<"POST", <<"refunds">>, "RequestRefund">>)
             = <<"POST", <<"merchant", "refunds">>, {"MERCHANT"}, "RequestRefund">>
        /\ GroupRow(<<"merchant">>, {"MERCHANT"}, <<"GET", <<"refunds">>, "ListHistory">>)
             = <<"GET", <<"merchant", "refunds">>, {"MERCHANT"}, "ListHistory">>
        /\ GroupRow(<<"merchant">>, {"MERCHANT"}, <<"POST", <<"topups">>, "RequestTopUp">>)
             = <<"POST", <<"merchant", "topups">>, {"MERCHANT"}, "RequestTopUp">>
        /\ GroupRow(<<"merchant">>, {"MERCHANT"}, <<"GET", <<"topups">>, "History">>)
             = <<"GET", <<"merchant", "topups">>, {"MERCHANT"}, "History">>
    BY <2>0 DEF GroupRow
  <2>1. \A r \in merchantRoutes : GroupRow(<<"merchant">>, {"MERCHANT"}, r) \in MerchantRows
    BY <2>rows DEF MerchantRows
  <2>2. \A t \in MerchantRows : \E r \in merchantRoutes : t = GroupRow(<<"merchant">>, {"MERCHANT"}, r)
    BY <2>rows DEF MerchantRows
  <2> HIDE DEF merchantRoutes
  <2> QED
    BY <2>1, <2>2, GroupAnswers, Zenon
<1>5. In(<<"admin">>, {"ADMIN"}, adminRoutes) = AnswersOf(AdminRows)
  <2>0. /\ <<"admin">> \o <<"dashboard">> = <<"admin", "dashboard">>
        /\ <<"admin">> \o <<"dashboard", "stats">> = <<"admin", "dashboard", "stats">>
        /\ <<"admin">> \o <<"payment-intents", "*", "simulate">> = <<"admin", "payment-intents", "*", "simulate">>
        /\ <<"admin">> \o <<"refunds", "*", "approve">> = <<"admin", "refunds", "*", "approve">>
        /\ <<"admin">> \o <<"refunds", "*", "reject">> = <<"admin", "refunds", "*", "reject">>
        /\ <<"admin">> \o <<"refunds", "*", "process">> = <<"admin", "refunds", "*", "process">>
        /\ <<"admin">> \o <<"topups", "*", "status">> = <<"admin", "topups", "*", "status">>
    BY OneBelow, TwoBelow, ThreeBelow
  <2>rows.
        /\ GroupRow(<<"admin">>, {"ADMIN"}, <<"GET", <<"dashboard">>, "AdminOnly">>)
             = <<"GET", <<"admin", "dashboard">>, {"ADMIN"}, "AdminOnly">>
        /\ GroupRow(<<"admin">>, {"ADMIN"}, <<"GET", <<"dashboard", "stats">>, "Stats">>)
             = <<"GET", <<"admin", "dashboard", "stats">>, {"ADMIN"}, "Stats">>
        /\ GroupRow(<<"admin">>, {"ADMIN"}, <<"POST", <<"payment-intents", "*", "simulate">>, "SimulatePaymentIntent">>)
             = <<"POST", <<"admin", "payment-intents", "*", "simulate">>, {"ADMIN"}, "SimulatePaymentIntent">>
        /\ GroupRow(<<"admin">>, {"ADMIN"}, <<"POST", <<"refunds", "*", "approve">>, "ApproveRefund">>)
             = <<"POST", <<"admin", "refunds", "*", "approve">>, {"ADMIN"}, "ApproveRefund">>
        /\ GroupRow(<<"admin">>, {"ADMIN"}, <<"POST", <<"refunds", "*", "reject">>, "RejectRefund">>)
             = <<"POST", <<"admin", "refunds", "*", "reject">>, {"ADMIN"}, "RejectRefund">>
        /\ GroupRow(<<"admin">>, {"ADMIN"}, <<"POST", <<"refunds", "*", "process">>, "ProcessRefund">>)
             = <<"POST", <<"admin", "refunds", "*", "process">>, {"ADMIN"}, "ProcessRefund">>
        /\ GroupRow(<<"admin">>, {"ADMIN"}, <<"POST", <<"topups", "*", "status">>, "AdminUpdate">>)
             = <<"POST", <<"admin", "topups", "*", "status">>, {"ADMIN"}, "AdminUpdate">>
    BY <2>0 DEF GroupRow
  <2>1. \A r \in adminRoutes : GroupRow(<<"admin">>, {"ADMIN"}, r) \in AdminRows
    BY <2>rows DEF AdminRows
  <2>2. \A t \in AdminRows : \E r \in adminRoutes : t = GroupRow(<<"admin">>, {"ADMIN"}, r)
    BY <2>rows DEF AdminRows
  <2> HIDE DEF adminRoutes
  <2> QED
    BY <2>1, <2>2, GroupAnswers, Zenon
<1>6. RouterAnswers = AnswersOf(OpenRows) \cup AnswersOf(TokenRows) \cup AnswersOf(InvoiceRows)
                        \cup AnswersOf(MerchantRows) \cup AnswersOf(AdminRows)
  <2>1. RouterAnswers =
          UNION {In(<<>>, Public, openRoutes), In(<<>>, AnyRole, tokenRoutes),
                 In(<<"invoices">>, {"MERCHANT", "ADMIN"}, invoiceRoutes),
                 In(<<"merchant">>, {"MERCHANT"}, merchantRoutes), In(<<"admin">>, {"ADMIN"}, adminRoutes)}
    BY Zenon DEF RouterAnswers
  <2> HIDE DEF openRoutes, tokenRoutes, invoiceRoutes, merchantRoutes, adminRoutes
  <2> QED
    BY <2>1, <1>1, <1>2, <1>3, <1>4, <1>5
<1>7. AnswersOf(Table) = AnswersOf(OpenRows) \cup AnswersOf(TokenRows) \cup AnswersOf(InvoiceRows)
                           \cup AnswersOf(MerchantRows) \cup AnswersOf(AdminRows)
  BY DEF AnswersOf, Table
<1> QED
  BY <1>6, <1>7

(* Both routers answer every request alike.                                *)
THEOREM RoutersAreEqual == CodegenAnswers = RouterAnswers
BY CodegenSide, RouterSide

(* Whoever holds a token, and someone without one, is answered by the      *)
(* server, which decides by the prefix of the path, what the groups of     *)
(* NewRouter answer: for every route, not only for the tokens given out.   *)
THEOREM RoutersAlwaysAgree == IssuingSpec => []RoutersAgree
<1>1. RoutersAgree
  BY RoutersAreEqual DEF RoutersAgree
<1> QED
  BY <1>1, PTL
=============================================================================
