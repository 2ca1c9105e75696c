------------------------------- MODULE TopUps -------------------------------
(***************************************************************************)
(* The top-up service over PostgreSQL: merchants request top-ups, an       *)
(* administrator settles them, and a settled one credits the merchant's    *)
(* wallet.  The HTTP server runs one goroutine per request; each session   *)
(* of the model is one such goroutine, which serves one request after      *)
(* another, and its steps are the repository calls the service makes.      *)
(***************************************************************************)
EXTENDS Wallets, Statuses

CONSTANTS
  Sessions,    \* the requests the server runs at once
  TopUpIds,    \* bound: the ids uuid.NewString can give out
  Amounts,     \* the amounts clients send
  Keys,        \* the request keys clients send, "" when there is none
  MaxGranted,  \* bound: no success is asked once this much was credited
  NoTopUp

ASSUME TopUpAssumption ==
  /\ Amounts \subseteq Int64
  /\ MaxGranted \in Nat
  /\ NoTopUp \notin [merchant : Merchants, amount : Amounts \cap Amount64,
                     status : TopUpStatus, key : Keys]

VARIABLES
  topups,     \* the top_ups table: the row of each id, or NoTopUp
  calls,      \* the request each session is serving
  granted,    \* history: what was ever added to each merchant's wallet
  acked,      \* history: the part of it whose request answered 200
  credited,   \* history: the top-ups added to a wallet at least once
  succeeded   \* history: the top-ups some request answered SUCCESS for

history == <<granted, acked, credited, succeeded>>
vars == <<faults, wallets, topups, calls, granted, acked, credited, succeeded>>

-----------------------------------------------------------------------------
(* The top_ups table.                                                      *)

TopUp == [merchant : Merchants, amount : Amounts \cap Amount64,
          status : TopUpStatus, key : Keys]

Stored == {t \in TopUpIds : topups[t] # NoTopUp}

(* FindByRequestKey                                                        *)
WithKey(m, k) == {t \in Stored : topups[t].merchant = m /\ topups[t].key = k}

(* Mistake: there is no unique index.                                      *)
TopUpCreateUnindexed(t, row) == [topups EXCEPT ![t] = row]

(* INSERT; the unique index on (merchant_id, request_key) skips NULL keys  *)
(* only, and Create writes the absent key as the empty string.             *)
TopUpCreate(t, row) ==
  IF WithKey(row.merchant, row.key) = {} THEN [topups EXCEPT ![t] = row] ELSE topups

(* UPDATE top_ups SET status                                               *)
TopUpSave(t, st) == [topups EXCEPT ![t].status = st]

-----------------------------------------------------------------------------
(* The requests in flight.  A call holds the model the service loaded, the *)
(* balance it read (originalBalance) and whether it created the wallet.    *)

Steps == {"insert", "findWallet", "createWallet", "credit", "saveSuccess",
          "undo", "undoCreated", "saveFailed"}
Idle == [step |-> "idle"]
Call == [step : Steps, id : TopUpIds, row : TopUp, base : Int64, created : BOOLEAN]

At(s, step) == calls[s].step = step
Id(s) == calls[s].id
Row(s) == calls[s].row
Owner(s) == calls[s].row.merchant

Begin(s, step, t, row) ==
  calls' = [calls EXCEPT ![s] =
              [step |-> step, id |-> t, row |-> row, base |-> 0, created |-> FALSE]]
GoTo(s, step) == calls' = [calls EXCEPT ![s].step = step]
Return(s) == calls' = [calls EXCEPT ![s] = Idle]

Unused == {t \in TopUpIds \ Stored : \A s \in Sessions : At(s, "idle") \/ Id(s) # t}

-----------------------------------------------------------------------------
(* Request: a keyed request that finds its top-up returns it and changes   *)
(* nothing.  Any other goes on to Create, also when the lookup failed,     *)
(* whose error is dropped.                                                 *)
RequestTopUp(s, t, m, a, k) ==
  /\ At(s, "idle")
  /\ a > 0
  /\ t \in Unused
  /\ \/ k = "" /\ UNCHANGED faults
     \/ k # "" /\ WithKey(m, k) = {} /\ UNCHANGED faults
     \/ k # "" /\ \E r \in Replies \ {"ok"} : Reply(r)
  /\ Begin(s, "insert", t, [merchant |-> m, amount |-> a, status |-> "PENDING", key |-> k])
  /\ UNCHANGED <<wallets, topups, history>>

InsertTopUp(s) ==
  /\ At(s, "insert")
  /\ \E r \in Replies :
       /\ Reply(r)
       /\ topups' = IF Executed(r) THEN TopUpCreate(Id(s), Row(s)) ELSE topups
  /\ Return(s)
  /\ UNCHANGED <<wallets, history>>

-----------------------------------------------------------------------------
(* AdminUpdate loads the top-up.  A load that fails, or that finds nothing,*)
(* answers an error and changes nothing.                                   *)
AdminSucceed(s, t) ==
  /\ At(s, "idle")
  /\ t \in Stored
  /\ granted[topups[t].merchant] < MaxGranted
  /\ Begin(s, "findWallet", t, topups[t])
  /\ UNCHANGED <<faults, wallets, topups, history>>

AdminFail(s, t) ==
  /\ At(s, "idle")
  /\ t \in Stored
  /\ TopUpCanFail(topups[t].status)
  /\ Begin(s, "saveFailed", t, [topups[t] EXCEPT !.status = "FAILED"])
  /\ UNCHANGED <<faults, wallets, topups, history>>

(* Mistake: the wallet is not saved before the status.                     *)
MarkSuccessUncredited(s, base, created) ==
  IF TopUpCanSucceed(Row(s).status)
    THEN calls' = [calls EXCEPT ![s] = [@ EXCEPT !.step = "saveSuccess", !.row.status = "SUCCESS",
                                                 !.base = base, !.created = created]]
    ELSE Return(s)

(* With the wallet at hand, mark the model SUCCESS or give up.             *)
MarkSuccess(s, base, created) ==
  IF TopUpCanSucceed(Row(s).status)
    THEN calls' = [calls EXCEPT ![s] = [@ EXCEPT !.step = "credit", !.row.status = "SUCCESS",
                                                 !.base = base, !.created = created]]
    ELSE Return(s)

FindWallet(s) ==
  /\ At(s, "findWallet")
  /\ \E r \in Replies :
       /\ Reply(r)
       /\ \/ r # "ok" /\ Return(s)
          \/ r = "ok" /\ HasWallet(Owner(s)) /\ MarkSuccess(s, wallets[Owner(s)], FALSE)
          \/ r = "ok" /\ ~HasWallet(Owner(s)) /\ GoTo(s, "createWallet")
  /\ UNCHANGED <<wallets, topups, history>>

(* Two requests may both have found no wallet; the second INSERT is refused.*)
CreateWallet(s) ==
  /\ At(s, "createWallet")
  /\ \E r \in Replies :
       /\ Reply(r)
       /\ IF r = "ok" /\ ~HasWallet(Owner(s)) THEN MarkSuccess(s, 0, TRUE) ELSE Return(s)
       /\ wallets' = IF Executed(r) THEN WalletCreate(Owner(s)) ELSE wallets
  /\ UNCHANGED <<topups, history>>

(* The wallet is saved first, at the balance that was read plus the amount.*)
CreditWallet(s) ==
  /\ At(s, "credit")
  /\ \E r \in Replies :
       /\ Reply(r)
       /\ IF r = "ok" THEN GoTo(s, "saveSuccess") ELSE Return(s)
       /\ \/ Executed(r)
             /\ wallets' = WalletSave(Owner(s), AddInt64(calls[s].base, Row(s).amount))
             /\ granted' = [granted EXCEPT ![Owner(s)] = @ + Row(s).amount]
             /\ credited' = credited \cup {Id(s)}
          \/ ~Executed(r) /\ UNCHANGED <<wallets, granted, credited>>
  /\ UNCHANGED <<topups, acked, succeeded>>

(* Mistake: a failed save is not rolled back.                              *)
SaveSuccessNoRollback(s) ==
  /\ At(s, "saveSuccess")
  /\ \E r \in Replies :
       /\ Reply(r)
       /\ topups' = IF Executed(r) THEN TopUpSave(Id(s), Row(s).status) ELSE topups
       /\ Return(s)
       /\ IF r = "ok"
            THEN /\ acked' = [acked EXCEPT ![Owner(s)] = @ + Row(s).amount]
                 /\ succeeded' = succeeded \cup {Id(s)}
            ELSE UNCHANGED <<acked, succeeded>>
  /\ UNCHANGED <<wallets, granted, credited>>

SaveSuccess(s) ==
  /\ At(s, "saveSuccess")
  /\ \E r \in Replies :
       /\ Reply(r)
       /\ topups' = IF Executed(r) THEN TopUpSave(Id(s), Row(s).status) ELSE topups
       /\ \/ /\ r = "ok" /\ Return(s)
             /\ acked' = [acked EXCEPT ![Owner(s)] = @ + Row(s).amount]
             /\ succeeded' = succeeded \cup {Id(s)}
          \/ r # "ok" /\ GoTo(s, "undo") /\ UNCHANGED <<acked, succeeded>>
  /\ UNCHANGED <<wallets, granted, credited>>

(* Mistake: the rollback also saves the status that was read.              *)
UndoCreditAndStatus(s) ==
  /\ At(s, "undo")
  /\ \E r \in Replies :
       /\ Reply(r)
       /\ wallets' = IF Executed(r) THEN WalletSave(Owner(s), calls[s].base) ELSE wallets
  /\ topups' = TopUpSave(Id(s), "PENDING")
  /\ IF calls[s].created THEN GoTo(s, "undoCreated") ELSE Return(s)
  /\ UNCHANGED history

(* Mistake: the balance is set to 0 also when the wallet was there before. *)
UndoCreditToZero(s) ==
  /\ At(s, "undo")
  /\ \E r \in Replies :
       /\ Reply(r)
       /\ wallets' = IF Executed(r) THEN WalletSave(Owner(s), calls[s].base) ELSE wallets
  /\ GoTo(s, "undoCreated")
  /\ UNCHANGED <<topups, history>>

(* The rollback writes back the balance that was read; its error is        *)
(* dropped.  After a wallet was created the same call is made once more,   *)
(* with balance 0.                                                         *)
UndoCredit(s) ==
  /\ At(s, "undo")
  /\ \E r \in Replies :
       /\ Reply(r)
       /\ wallets' = IF Executed(r) THEN WalletSave(Owner(s), calls[s].base) ELSE wallets
  /\ IF calls[s].created THEN GoTo(s, "undoCreated") ELSE Return(s)
  /\ UNCHANGED <<topups, history>>

UndoCreated(s) ==
  /\ At(s, "undoCreated")
  /\ \E r \in Replies :
       /\ Reply(r)
       /\ wallets' = IF Executed(r) THEN WalletSave(Owner(s), 0) ELSE wallets
  /\ Return(s)
  /\ UNCHANGED <<topups, history>>

SaveFailed(s) ==
  /\ At(s, "saveFailed")
  /\ \E r \in Replies :
       /\ Reply(r)
       /\ topups' = IF Executed(r) THEN TopUpSave(Id(s), Row(s).status) ELSE topups
  /\ Return(s)
  /\ UNCHANGED <<wallets, history>>

-----------------------------------------------------------------------------
(* The server stops and starts again: every request in flight is lost.     *)
Crash ==
  /\ CrashFault
  /\ \E s \in Sessions : ~At(s, "idle")
  /\ calls' = [s \in Sessions |-> Idle]
  /\ UNCHANGED <<wallets, topups, history>>

(* No request is being served and no client sends another.                 *)
Quiet ==
  /\ \A s \in Sessions : At(s, "idle")
  /\ UNCHANGED vars

Init ==
  /\ faults = NoFaults
  /\ wallets = [m \in Merchants |-> NoWallet]
  /\ topups = [t \in TopUpIds |-> NoTopUp]
  /\ calls = [s \in Sessions |-> Idle]
  /\ granted = [m \in Merchants |-> 0]
  /\ acked = [m \in Merchants |-> 0]
  /\ credited = {}
  /\ succeeded = {}

Serve(s) ==
  \/ \E t \in TopUpIds, m \in Merchants, a \in Amounts, k \in Keys : RequestTopUp(s, t, m, a, k)
  \/ InsertTopUp(s)
  \/ \E t \in TopUpIds : AdminSucceed(s, t) \/ AdminFail(s, t)
  \/ FindWallet(s)
  \/ CreateWallet(s)
  \/ CreditWallet(s)
  \/ SaveSuccess(s)
  \/ UndoCredit(s)
  \/ UndoCreated(s)
  \/ SaveFailed(s)

Next == (\E s \in Sessions : Serve(s)) \/ Crash \/ Quiet

Spec == Init /\ [][Next]_vars

-----------------------------------------------------------------------------
(* Properties of any number of concurrent requests, whatever fails.        *)

TypeOK ==
  /\ faults \in FaultsSoFar
  /\ WalletsTypeOK
  /\ topups \in [TopUpIds -> TopUp \cup {NoTopUp}]
  /\ calls \in [Sessions -> Call \cup {Idle}]
  /\ granted \in [Merchants -> Nat]
  /\ acked \in [Merchants -> Nat]
  /\ credited \subseteq TopUpIds
  /\ succeeded \subseteq TopUpIds

(* AdminUpdate writes balances it computed from an earlier read, and its   *)
(* rollback writes an older one back: however these writes interleave, a   *)
(* wallet never holds more than what was ever added to it.                 *)
NeverMinted == \A m \in Merchants : Balance(m) <= granted[m]

(* AdminUpdate saves the wallet before the status: a top-up stored as      *)
(* SUCCESS was added to a wallet, also after a crash between the two saves.*)
SuccessWasCredited == \A t \in Stored : topups[t].status = "SUCCESS" => t \in credited

(* Request looks the key up and creates the top-up in two statements; two  *)
(* requests with the same key still leave one top-up.                      *)
OneTopUpPerKey ==
  \A t, u \in Stored :
    topups[t].merchant = topups[u].merchant /\ topups[t].key = topups[u].key => t = u

(* The rollback of AdminUpdate restores originalStatus in memory only: no  *)
(* request reopens a top-up another one has settled.                       *)
NeverReopened ==
  [][\A t \in Stored : topups'[t].status = "PENDING" => topups[t].status = "PENDING"]_vars

-----------------------------------------------------------------------------
(* Properties of requests served one after the other.                      *)

(* What requests answered 200 for is in the wallet.                        *)
AckedIsCovered == \A m \in Merchants : acked[m] <= Balance(m)

(* A top-up that a request answered SUCCESS for stays SUCCESS.             *)
AckedStaysSuccess == \A t \in succeeded : topups[t].status = "SUCCESS"

(* SUCCESS and FAILED are final.                                           *)
StatusIsFinal ==
  [][\A t \in Stored :
       topups'[t].status # topups[t].status => topups[t].status = "PENDING"]_vars

(* When no request is under way, a wallet holds exactly what requests      *)
(* answered 200 for, and the top-ups stored as SUCCESS are the ones some   *)
(* request answered SUCCESS for: "atomic topup flow" in the service.  A    *)
(* second fault, a late one or a crash breaks this.                        *)
AllOrNothing ==
  Gentle /\ (\A s \in Sessions : At(s, "idle")) =>
    /\ \A m \in Merchants : Balance(m) = acked[m]
    /\ {t \in Stored : topups[t].status = "SUCCESS"} = succeeded

(* The wallet and the top-ups change as in the atomic ledger: between the  *)
(* two saves of a settlement, the ledger's balance is the one that was     *)
(* read.                                                                   *)
LedgerBalance ==
  [m \in Merchants |->
    LET unsettled == {s \in Sessions : /\ calls[s].step \in {"saveSuccess", "undo", "undoCreated"}
                                       /\ Owner(s) = m}
    IN IF unsettled = {} THEN Balance(m) ELSE calls[CHOOSE s \in unsettled : TRUE].base]

Ledger == INSTANCE TopUpLedger WITH balance <- LedgerBalance, intact <- Gentle
LedgerSpec == Ledger!Spec

-----------------------------------------------------------------------------
(* What comments, tests and the API description say and the code does not. *)

(* "SUCCESS -> SUCCESS is an idempotent no-op": a top-up is added to the   *)
(* wallet once.                                                            *)
CreditedOnce == [][granted' # granted => credited' # credited]_vars
=============================================================================
