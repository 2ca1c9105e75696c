---------------------------- MODULE TopUpsProofs ----------------------------
(***************************************************************************)
(* Proofs about TopUps for every value of its constants.  The inductive    *)
(* invariant Inv says, besides the types, what each step of a request      *)
(* relies on: the row it works on is stored, the balance it read was       *)
(* granted, and a request about to save SUCCESS has saved the wallet.      *)
(***************************************************************************)
EXTENDS TopUps, DatabaseProofs

(* A request under way works on a stored row; the one about to insert has  *)
(* an id nobody else has.                                                  *)
IdsOwned ==
  \A s \in Sessions :
    /\ calls[s].step \notin {"idle", "insert"} => Id(s) \in Stored
    /\ At(s, "insert") => /\ Id(s) \notin Stored
                          /\ \A r \in Sessions \ {s} : At(r, "insert") => Id(r) # Id(s)

(* What the model in memory says at each save.                             *)
ModelMatchesStep ==
  \A s \in Sessions :
    /\ At(s, "insert") => Row(s).status = "PENDING"
    /\ At(s, "saveFailed") => Row(s).status = "FAILED"
    /\ At(s, "credit") \/ At(s, "saveSuccess") => Row(s).status = "SUCCESS"
    /\ At(s, "saveSuccess") => Id(s) \in credited

(* A balance that was read is at most what was granted since.              *)
BaseGranted ==
  \A s \in Sessions : calls[s].step # "idle" => calls[s].base <= granted[Owner(s)]

Inv == /\ TypeOK
       /\ IdsOwned
       /\ ModelMatchesStep
       /\ BaseGranted
       /\ NeverMinted
       /\ SuccessWasCredited
       /\ OneTopUpPerKey
-----------------------------------------------------------------------------
LEMMA WalletCreateType ==
  ASSUME WalletsTypeOK, NEW m \in Merchants
  PROVE  WalletCreate(m) \in [Merchants -> Int64 \cup {NoWallet}]
BY ZeroIsInt64 DEF WalletsTypeOK, WalletCreate

LEMMA WalletSaveType ==
  ASSUME WalletsTypeOK, NEW m \in Merchants, NEW b \in Int64
  PROVE  WalletSave(m, b) \in [Merchants -> Int64 \cup {NoWallet}]
BY DEF WalletsTypeOK, WalletSave

LEMMA NoTopUpIsNoRow == NoTopUp \notin TopUp
BY TopUpAssumption DEF TopUp

LEMMA StoredRow ==
  ASSUME TypeOK, NEW t \in Stored
  PROVE  t \in TopUpIds /\ topups[t] \in TopUp
BY DEF TypeOK, Stored

LEMMA CallType ==
  ASSUME TypeOK, NEW s \in Sessions, NEW step \in Steps, At(s, step)
  PROVE  /\ calls[s] \in Call
         /\ Id(s) \in TopUpIds
         /\ Row(s) \in TopUp
         /\ Owner(s) \in Merchants
         /\ Row(s).amount \in Amount64
         /\ calls[s].base \in Int64
<1>1. calls[s] \in Call
  BY DEF TypeOK, At, Idle, Steps
<1> QED
  BY <1>1 DEF Call, Id, Row, Owner, TopUp

LEMMA BeginType ==
  ASSUME TypeOK, NEW s \in Sessions, NEW step \in Steps, NEW t \in TopUpIds, NEW row \in TopUp,
         Begin(s, step, t, row)
  PROVE  calls' \in [Sessions -> Call \cup {Idle}]
<1>1. [step |-> step, id |-> t, row |-> row, base |-> 0, created |-> FALSE] \in Call
  BY ZeroIsInt64 DEF Call
<1> QED
  BY <1>1 DEF TypeOK, Begin

LEMMA ReturnType ==
  ASSUME TypeOK, NEW s \in Sessions, Return(s)
  PROVE  calls' \in [Sessions -> Call \cup {Idle}]
BY DEF TypeOK, Return

LEMMA GoToType ==
  ASSUME TypeOK, NEW s \in Sessions, calls[s] \in Call, NEW step \in Steps, GoTo(s, step)
  PROVE  calls' \in [Sessions -> Call \cup {Idle}]
<1>1. [calls[s] EXCEPT !.step = step] \in Call
  BY DEF Call
<1> QED
  BY <1>1 DEF TypeOK, GoTo

LEMMA MarkSuccessType ==
  ASSUME TypeOK, NEW s \in Sessions, calls[s] \in Call, NEW base \in Int64,
         NEW created \in BOOLEAN, MarkSuccess(s, base, created)
  PROVE  calls' \in [Sessions -> Call \cup {Idle}]
<1> DEFINE c == [calls[s] EXCEPT !.step = "credit", !.row.status = "SUCCESS",
                                 !.base = base, !.created = created]
<1>1. c \in Call
  BY DEF Call, TopUp, TopUpStatus, Steps
<1>2. CASE TopUpCanSucceed(Row(s).status)
  BY <1>1, <1>2 DEF MarkSuccess, TypeOK
<1>3. CASE ~TopUpCanSucceed(Row(s).status)
  BY <1>3, ReturnType DEF MarkSuccess
<1> QED
  BY <1>2, <1>3

LEMMA TopUpCreateType ==
  ASSUME TypeOK, NEW t \in TopUpIds, NEW row \in TopUp
  PROVE  TopUpCreate(t, row) \in [TopUpIds -> TopUp \cup {NoTopUp}]
BY DEF TypeOK, TopUpCreate

LEMMA TopUpSaveType ==
  ASSUME TypeOK, NEW t \in Stored, NEW st \in TopUpStatus
  PROVE  TopUpSave(t, st) \in [TopUpIds -> TopUp \cup {NoTopUp}]
<1>1. [topups[t] EXCEPT !.status = st] \in TopUp
  BY StoredRow DEF TopUp
<1> QED
  BY <1>1, StoredRow DEF TypeOK, TopUpSave

-----------------------------------------------------------------------------
(* One lemma per action.                                                   *)

LEMMA InitInv == Init => Inv
<1> SUFFICES ASSUME Init PROVE Inv
  OBVIOUS
<1> USE DEF Init
<1>1. TypeOK
  BY FaultsAssumption DEF TypeOK, WalletsTypeOK, NoFaults, FaultsSoFar
<1>2. Stored = {}
  BY DEF Stored
<1>3. IdsOwned /\ ModelMatchesStep /\ BaseGranted
  BY <1>2 DEF IdsOwned, ModelMatchesStep, BaseGranted, At, Idle
<1>4. NeverMinted
  BY DEF NeverMinted, Balance, HasWallet
<1>5. SuccessWasCredited /\ OneTopUpPerKey
  BY <1>2 DEF SuccessWasCredited, OneTopUpPerKey
<1> QED
  BY <1>1, <1>3, <1>4, <1>5 DEF Inv

(* Table and history untouched, and one session's call moves on: what is   *)
(* left to show is about that session.                                     *)
LEMMA RequestTopUpInv ==
  ASSUME Inv, NEW s \in Sessions, NEW t \in TopUpIds, NEW m \in Merchants,
         NEW a \in Amounts, NEW k \in Keys, RequestTopUp(s, t, m, a, k)
  PROVE  Inv'
<1> DEFINE row == [merchant |-> m, amount |-> a, status |-> "PENDING", key |-> k]
<1> USE DEF Inv
<1>1. row \in TopUp
  <2>1. a \in Int64 /\ a > 0
    BY TopUpAssumption DEF RequestTopUp
  <2>2. a \in Amount64
    BY <2>1, Int64Assumption DEF Int64, Amount64
  <2> QED
    BY <2>2 DEF TopUp, TopUpStatus
<1>2. UNCHANGED <<wallets, topups, granted, acked, credited, succeeded>>
  BY DEF RequestTopUp, history
<1>3. calls' = [calls EXCEPT ![s] = [step |-> "insert", id |-> t, row |-> row,
                                     base |-> 0, created |-> FALSE]]
  BY DEF RequestTopUp, Begin
<1>4. faults' \in FaultsSoFar
  BY ReplyType DEF RequestTopUp, TypeOK
<1>5. calls' \in [Sessions -> Call \cup {Idle}]
  BY <1>1, BeginType DEF RequestTopUp, Steps
<1>6. TypeOK'
  BY <1>2, <1>4, <1>5 DEF TypeOK, WalletsTypeOK
<1>7. Stored' = Stored
  BY <1>2 DEF Stored
<1>8. t \notin Stored /\ \A r \in Sessions : At(r, "insert") => Id(r) # t
  BY DEF RequestTopUp, Unused, At
<1>9. IdsOwned'
  BY <1>3, <1>7, <1>8 DEF IdsOwned, At, Id, TypeOK
<1>10. ModelMatchesStep'
  BY <1>2, <1>3 DEF ModelMatchesStep, At, Id, Row, TypeOK
<1>11. BaseGranted'
  BY <1>2, <1>3 DEF BaseGranted, Owner, TypeOK
<1>12. NeverMinted'
  BY <1>2 DEF NeverMinted, Balance, HasWallet
<1>13. SuccessWasCredited' /\ OneTopUpPerKey'
  BY <1>2, <1>7 DEF SuccessWasCredited, OneTopUpPerKey
<1> QED
  BY <1>6, <1>9, <1>10, <1>11, <1>12, <1>13

LEMMA InsertTopUpInv ==
  ASSUME Inv, NEW s \in Sessions, InsertTopUp(s)
  PROVE  Inv'
<1> USE DEF Inv
<1>1. PICK r \in Replies :
        /\ Reply(r)
        /\ topups' = IF Executed(r) THEN TopUpCreate(Id(s), Row(s)) ELSE topups
  BY DEF InsertTopUp
<1>2. At(s, "insert") /\ Return(s) /\ UNCHANGED <<wallets, granted, acked, credited, succeeded>>
  BY DEF InsertTopUp, history
<1>3. Id(s) \in TopUpIds /\ Row(s) \in TopUp /\ Row(s).status = "PENDING" /\ Id(s) \notin Stored
  BY <1>2, CallType DEF Steps, IdsOwned, ModelMatchesStep
<1>4. TypeOK'
  <2>1. faults' \in FaultsSoFar
    BY <1>1, ReplyType DEF TypeOK
  <2>2. topups' \in [TopUpIds -> TopUp \cup {NoTopUp}]
    BY <1>1, <1>3, TopUpCreateType DEF TypeOK
  <2>3. calls' \in [Sessions -> Call \cup {Idle}]
    BY <1>2, ReturnType
  <2> QED
    BY <1>2, <2>1, <2>2, <2>3 DEF TypeOK, WalletsTypeOK
<1>5. calls' = [calls EXCEPT ![s] = Idle]
  BY <1>2 DEF Return
<1>6. \/ topups' = topups /\ Stored' = Stored
      \/ /\ topups' = [topups EXCEPT ![Id(s)] = Row(s)]
         /\ Stored' = Stored \cup {Id(s)}
         /\ WithKey(Row(s).merchant, Row(s).key) = {}
  BY <1>1, <1>3, NoTopUpIsNoRow DEF TopUpCreate, Stored, TypeOK
<1>7. IdsOwned'
  BY <1>2, <1>5, <1>6 DEF IdsOwned, At, Id, Idle, TypeOK
<1>8. ModelMatchesStep'
  BY <1>2, <1>5 DEF ModelMatchesStep, At, Id, Row, Idle, TypeOK
<1>9. BaseGranted'
  BY <1>2, <1>5 DEF BaseGranted, Owner, Idle, TypeOK
<1>10. NeverMinted'
  BY <1>2 DEF NeverMinted, Balance, HasWallet
<1>11. SuccessWasCredited'
  BY <1>2, <1>3, <1>6 DEF SuccessWasCredited, Stored, TypeOK
<1>12. OneTopUpPerKey'
  BY <1>3, <1>6 DEF OneTopUpPerKey, WithKey, Stored, TypeOK
<1> QED
  BY <1>4, <1>7, <1>8, <1>9, <1>10, <1>11, <1>12

LEMMA AdminSucceedInv ==
  ASSUME Inv, NEW s \in Sessions, NEW t \in TopUpIds, AdminSucceed(s, t)
  PROVE  Inv'
<1> USE DEF Inv
<1>1. UNCHANGED <<faults, wallets, topups, granted, acked, credited, succeeded>>
  BY DEF AdminSucceed, history
<1>2. t \in Stored /\ topups[t] \in TopUp /\ Begin(s, "findWallet", t, topups[t])
  BY StoredRow DEF AdminSucceed
<1>3. TypeOK'
  BY <1>1, <1>2, BeginType DEF TypeOK, WalletsTypeOK, Steps
<1>4. calls' = [calls EXCEPT ![s] = [step |-> "findWallet", id |-> t, row |-> topups[t],
                                     base |-> 0, created |-> FALSE]]
  BY <1>2 DEF Begin
<1>5. Stored' = Stored
  BY <1>1 DEF Stored
<1>6. IdsOwned'
  BY <1>2, <1>4, <1>5 DEF IdsOwned, At, Id, TypeOK
<1>7. ModelMatchesStep'
  BY <1>1, <1>4 DEF ModelMatchesStep, At, Id, Row, TypeOK
<1>8. BaseGranted'
  BY <1>1, <1>2, <1>4 DEF BaseGranted, Owner, TypeOK, TopUp
<1>9. NeverMinted' /\ SuccessWasCredited' /\ OneTopUpPerKey'
  BY <1>1, <1>5 DEF NeverMinted, Balance, HasWallet, SuccessWasCredited, OneTopUpPerKey
<1> QED
  BY <1>3, <1>6, <1>7, <1>8, <1>9

LEMMA AdminFailInv ==
  ASSUME Inv, NEW s \in Sessions, NEW t \in TopUpIds, AdminFail(s, t)
  PROVE  Inv'
<1> DEFINE row == [topups[t] EXCEPT !.status = "FAILED"]
<1> USE DEF Inv
<1>1. UNCHANGED <<faults, wallets, topups, granted, acked, credited, succeeded>>
  BY DEF AdminFail, history
<1>2. t \in Stored /\ Begin(s, "saveFailed", t, row)
  BY DEF AdminFail
<1>3. row \in TopUp /\ row.status = "FAILED"
  BY <1>2, StoredRow DEF TopUp, TopUpStatus
<1>4. TypeOK'
  BY <1>1, <1>2, <1>3, BeginType DEF TypeOK, WalletsTypeOK, Steps
<1>5. calls' = [calls EXCEPT ![s] = [step |-> "saveFailed", id |-> t, row |-> row,
                                     base |-> 0, created |-> FALSE]]
  BY <1>2 DEF Begin
<1>6. Stored' = Stored
  BY <1>1 DEF Stored
<1>7. IdsOwned'
  BY <1>2, <1>5, <1>6 DEF IdsOwned, At, Id, TypeOK
<1> HIDE DEF row
<1>8. ModelMatchesStep'
  BY <1>1, <1>3, <1>5 DEF ModelMatchesStep, At, Id, Row, TypeOK
<1>9. BaseGranted'
  BY <1>1, <1>3, <1>5 DEF BaseGranted, Owner, TypeOK, TopUp
<1>10. NeverMinted' /\ SuccessWasCredited' /\ OneTopUpPerKey'
  BY <1>1, <1>6 DEF NeverMinted, Balance, HasWallet, SuccessWasCredited, OneTopUpPerKey
<1> QED
  BY <1>4, <1>7, <1>8, <1>9, <1>10

-----------------------------------------------------------------------------
(* What the three ways a call moves on keep, in a step that stores no new  *)
(* row and only adds to the history.                                       *)

HistoryGrows == /\ Stored' = Stored
                /\ credited \subseteq credited'
                /\ \A m \in Merchants : granted[m] <= granted'[m]

LEMMA ReturnKeeps ==
  ASSUME Inv, TypeOK', NEW s \in Sessions, Return(s), HistoryGrows
  PROVE  IdsOwned' /\ ModelMatchesStep' /\ BaseGranted'
<1> USE DEF Inv
<1>1. calls' = [calls EXCEPT ![s] = Idle]
  BY DEF Return
<1>2. IdsOwned'
  BY <1>1 DEF IdsOwned, At, Id, Idle, TypeOK, HistoryGrows
<1>3. ModelMatchesStep'
  BY <1>1 DEF ModelMatchesStep, At, Id, Row, Idle, TypeOK, HistoryGrows
<1>4. ASSUME NEW r \in Sessions, calls'[r].step # "idle"
      PROVE  calls'[r].base <= granted'[Owner(r)']
  <2>1. r # s /\ calls'[r] = calls[r]
    BY <1>1, <1>4 DEF Idle, TypeOK
  <2>2. calls[r] \in Call /\ Owner(r) \in Merchants
    BY <1>4, <2>1 DEF TypeOK, Idle, Call, Owner, TopUp
  <2>3. calls[r].base <= granted[Owner(r)] /\ granted[Owner(r)] <= granted'[Owner(r)]
    BY <1>4, <2>1, <2>2 DEF BaseGranted, HistoryGrows
  <2> QED
    BY <2>1, <2>2, <2>3 DEF Owner, TypeOK, Call, Int64
<1> QED
  BY <1>2, <1>3, <1>4 DEF BaseGranted

LEMMA OthersBaseKept ==
  ASSUME Inv, TypeOK', NEW s \in Sessions, NEW c, calls' = [calls EXCEPT ![s] = c], HistoryGrows,
         NEW r \in Sessions \ {s}, calls'[r].step # "idle"
  PROVE  calls'[r].base <= granted'[Owner(r)']
<1> USE DEF Inv
<1>1. calls'[r] = calls[r]
  BY DEF TypeOK
<1>2. calls[r] \in Call /\ Owner(r) \in Merchants
  BY <1>1 DEF TypeOK, Idle, Call, Owner, TopUp
<1>3. calls[r].base <= granted[Owner(r)] /\ granted[Owner(r)] <= granted'[Owner(r)]
  BY <1>1, <1>2 DEF BaseGranted, HistoryGrows
<1> QED
  BY <1>1, <1>2, <1>3 DEF Owner, TypeOK, Call, Int64

LEMMA GoToKeeps ==
  ASSUME Inv, TypeOK', NEW s \in Sessions, NEW step \in Steps \ {"insert", "credit", "saveFailed"},
         calls[s] \in Call, ~At(s, "insert"), GoTo(s, step), HistoryGrows,
         step = "saveSuccess" => Row(s).status = "SUCCESS" /\ Id(s) \in credited'
  PROVE  IdsOwned' /\ ModelMatchesStep' /\ BaseGranted'
<1> USE DEF Inv
<1> DEFINE c == [calls[s] EXCEPT !.step = step]
<1>1. calls' = [calls EXCEPT ![s] = c]
  BY DEF GoTo, TypeOK
<1>2. c.step = step /\ c.id = Id(s) /\ c.row = Row(s) /\ c.base = calls[s].base
  BY DEF Call, Id, Row
<1>3. Id(s) \in Stored /\ calls[s].step # "idle"
  BY DEF Call, Steps, IdsOwned, At
<1> HIDE DEF c
<1>4. IdsOwned'
  BY <1>1, <1>2, <1>3 DEF IdsOwned, At, Id, TypeOK, HistoryGrows
<1>5. ModelMatchesStep'
  BY <1>1, <1>2 DEF ModelMatchesStep, At, Id, Row, TypeOK, HistoryGrows
<1>6. c.base <= granted'[c.row.merchant]
  <2>1. Owner(s) \in Merchants /\ c.base <= granted[Owner(s)]
    BY <1>2, <1>3 DEF BaseGranted, Call, Owner, TopUp
  <2> QED
    BY <2>1, <1>2 DEF HistoryGrows, Owner, Row, TypeOK, Call, Int64
<1>7. calls'[s] = c
  BY <1>1 DEF TypeOK
<1> QED
  BY <1>1, <1>4, <1>5, <1>6, <1>7, OthersBaseKept DEF BaseGranted, Owner

LEMMA MarkSuccessKeeps ==
  ASSUME Inv, TypeOK', NEW s \in Sessions, calls[s] \in Call, ~At(s, "insert"),
         NEW base \in Int64, NEW created \in BOOLEAN, MarkSuccess(s, base, created),
         base <= granted'[Owner(s)], HistoryGrows
  PROVE  IdsOwned' /\ ModelMatchesStep' /\ BaseGranted'
<1> USE DEF Inv
<1> DEFINE c == [calls[s] EXCEPT !.step = "credit", !.row.status = "SUCCESS",
                                 !.base = base, !.created = created]
<1>1. CASE Return(s)
  BY <1>1, ReturnKeeps
<1>2. CASE calls' = [calls EXCEPT ![s] = c]
  <2>1. c.step = "credit" /\ c.id = Id(s) /\ c.base = base /\ c.row.merchant = Owner(s)
        /\ c.row.status = "SUCCESS"
    BY DEF Call, TopUp, Id, Owner
  <2>2. Id(s) \in Stored
    BY DEF Call, Steps, IdsOwned, At
  <2> HIDE DEF c
  <2>3. IdsOwned'
    BY <1>2, <2>1, <2>2 DEF IdsOwned, At, Id, TypeOK, HistoryGrows
  <2>4. ModelMatchesStep'
    BY <1>2, <2>1 DEF ModelMatchesStep, At, Id, Row, TypeOK, HistoryGrows
  <2>5. calls'[s] = c
    BY <1>2 DEF TypeOK
  <2> QED
    BY <1>2, <2>1, <2>3, <2>4, <2>5, OthersBaseKept DEF BaseGranted, Owner
<1> QED
  BY <1>1, <1>2 DEF MarkSuccess

LEMMA FindWalletInv ==
  ASSUME Inv, NEW s \in Sessions, FindWallet(s)
  PROVE  Inv'
<1> USE DEF Inv
<1>1. PICK r \in Replies :
        /\ Reply(r)
        /\ \/ Return(s)
           \/ HasWallet(Owner(s)) /\ MarkSuccess(s, wallets[Owner(s)], FALSE)
           \/ GoTo(s, "createWallet")
  BY DEF FindWallet
<1>2. At(s, "findWallet") /\ UNCHANGED <<wallets, topups, granted, acked, credited, succeeded>>
  BY DEF FindWallet, history
<1>3. calls[s] \in Call /\ Owner(s) \in Merchants /\ ~At(s, "insert")
  BY <1>2, CallType DEF Steps, At
<1>4. HasWallet(Owner(s)) => wallets[Owner(s)] \in Int64 /\ wallets[Owner(s)] <= granted[Owner(s)]
  BY <1>3 DEF TypeOK, WalletsTypeOK, NeverMinted, Balance, HasWallet
<1>5. calls' \in [Sessions -> Call \cup {Idle}]
  BY <1>1, <1>3, <1>4, ReturnType, MarkSuccessType, GoToType DEF Steps
<1>6. TypeOK'
  BY <1>1, <1>2, <1>5, ReplyType DEF TypeOK, WalletsTypeOK
<1>7. HistoryGrows
  BY <1>2 DEF HistoryGrows, Stored, TypeOK
<1>8. IdsOwned' /\ ModelMatchesStep' /\ BaseGranted'
  BY <1>1, <1>2, <1>3, <1>4, <1>6, <1>7, ReturnKeeps, MarkSuccessKeeps, GoToKeeps DEF Steps
<1>9. NeverMinted' /\ SuccessWasCredited' /\ OneTopUpPerKey'
  BY <1>2, <1>7 DEF HistoryGrows, NeverMinted, Balance, HasWallet, SuccessWasCredited, OneTopUpPerKey
<1> QED
  BY <1>6, <1>8, <1>9

LEMMA CreateWalletInv ==
  ASSUME Inv, NEW s \in Sessions, CreateWallet(s)
  PROVE  Inv'
<1> USE DEF Inv
<1>1. PICK r \in Replies :
        /\ Reply(r)
        /\ MarkSuccess(s, 0, TRUE) \/ Return(s)
        /\ wallets' = IF Executed(r) THEN WalletCreate(Owner(s)) ELSE wallets
  BY DEF CreateWallet
<1>2. At(s, "createWallet") /\ UNCHANGED <<topups, granted, acked, credited, succeeded>>
  BY DEF CreateWallet, history
<1>3. calls[s] \in Call /\ Owner(s) \in Merchants /\ ~At(s, "insert")
  BY <1>2, CallType DEF Steps, At
<1>4. calls' \in [Sessions -> Call \cup {Idle}]
  BY <1>1, <1>3, ReturnType, MarkSuccessType, ZeroIsInt64
<1>5. wallets' \in [Merchants -> Int64 \cup {NoWallet}]
  BY <1>1, <1>3, WalletCreateType DEF TypeOK, WalletsTypeOK
<1>6. TypeOK'
  BY <1>1, <1>2, <1>4, <1>5, ReplyType DEF TypeOK, WalletsTypeOK
<1>7. HistoryGrows
  BY <1>2 DEF HistoryGrows, Stored, TypeOK
<1>8. 0 <= granted'[Owner(s)]
  BY <1>2, <1>3 DEF TypeOK
<1>9. IdsOwned' /\ ModelMatchesStep' /\ BaseGranted'
  BY <1>1, <1>3, <1>6, <1>7, <1>8, ReturnKeeps, MarkSuccessKeeps, ZeroIsInt64
<1>10. NeverMinted'
  BY <1>1, <1>2, <1>3 DEF NeverMinted, Balance, HasWallet, WalletCreate, TypeOK, WalletsTypeOK
<1>11. SuccessWasCredited' /\ OneTopUpPerKey'
  BY <1>2, <1>7 DEF HistoryGrows, SuccessWasCredited, OneTopUpPerKey
<1> QED
  BY <1>6, <1>9, <1>10, <1>11

LEMMA CreditWalletInv ==
  ASSUME Inv, NEW s \in Sessions, CreditWallet(s)
  PROVE  Inv'
<1> DEFINE sum == AddInt64(calls[s].base, Row(s).amount)
<1> USE DEF Inv
<1>1. PICK r \in Replies :
        /\ Reply(r)
        /\ \/ r = "ok" /\ GoTo(s, "saveSuccess")
           \/ r # "ok" /\ Return(s)
        /\ \/ /\ Executed(r)
              /\ wallets' = WalletSave(Owner(s), sum)
              /\ granted' = [granted EXCEPT ![Owner(s)] = @ + Row(s).amount]
              /\ credited' = credited \cup {Id(s)}
           \/ ~Executed(r) /\ UNCHANGED <<wallets, granted, credited>>
  BY DEF CreditWallet
<1>2. At(s, "credit") /\ UNCHANGED <<topups, acked, succeeded>>
  BY DEF CreditWallet
<1>3. /\ calls[s] \in Call
      /\ Id(s) \in TopUpIds
      /\ Owner(s) \in Merchants
      /\ Row(s).amount \in Amount64
      /\ calls[s].base \in Int64
      /\ ~At(s, "insert")
  BY <1>2, CallType DEF Steps, At
<1>4. sum \in Int64 /\ sum <= calls[s].base + Row(s).amount
  BY <1>3, AddInt64Bound
<1>5. calls[s].base <= granted[Owner(s)]
  BY <1>2 DEF BaseGranted, At
<1> HIDE DEF sum
<1>6. calls' \in [Sessions -> Call \cup {Idle}]
  BY <1>1, <1>3, ReturnType, GoToType DEF Steps
<1>7. wallets' \in [Merchants -> Int64 \cup {NoWallet}]
  BY <1>1, <1>3, <1>4, WalletSaveType DEF TypeOK, WalletsTypeOK
<1>8. /\ granted' \in [Merchants -> Nat]
      /\ credited' \subseteq TopUpIds
      /\ \A m \in Merchants : granted[m] <= granted'[m]
  BY <1>1, <1>3 DEF TypeOK, Amount64
<1>9. TypeOK'
  BY <1>1, <1>2, <1>6, <1>7, <1>8, ReplyType DEF TypeOK, WalletsTypeOK
<1>10. HistoryGrows
  BY <1>1, <1>2, <1>8 DEF HistoryGrows, Stored
<1>11. r = "ok" => Row(s).status = "SUCCESS" /\ Id(s) \in credited'
  BY <1>1, <1>2 DEF ModelMatchesStep, Executed
<1>12. IdsOwned' /\ ModelMatchesStep' /\ BaseGranted'
  BY <1>1, <1>3, <1>9, <1>10, <1>11, ReturnKeeps, GoToKeeps DEF Steps
<1>13. NeverMinted'
  <2>1. CASE UNCHANGED <<wallets, granted>>
    BY <2>1 DEF NeverMinted, Balance, HasWallet
  <2>2. CASE /\ wallets' = WalletSave(Owner(s), sum)
             /\ granted' = [granted EXCEPT ![Owner(s)] = @ + Row(s).amount]
    <3>1. sum <= granted[Owner(s)] + Row(s).amount
      BY <1>3, <1>4, <1>5 DEF TypeOK, Amount64, Int64
    <3> QED
      BY <2>2, <3>1, <1>3, <1>4
         DEF NeverMinted, Balance, HasWallet, WalletSave, TypeOK, WalletsTypeOK, Amount64
  <2> QED
    BY <1>1, <2>1, <2>2
<1>14. SuccessWasCredited' /\ OneTopUpPerKey'
  BY <1>2, <1>10 DEF HistoryGrows, SuccessWasCredited, OneTopUpPerKey
<1> QED
  BY <1>9, <1>12, <1>13, <1>14

(* Saving a status: the rows keep everything else.                         *)
LEMMA TopUpSaveKeeps ==
  ASSUME Inv, NEW t \in Stored, NEW st \in TopUpStatus, st = "SUCCESS" => t \in credited,
         credited' = credited, topups' = TopUpSave(t, st) \/ topups' = topups
  PROVE  /\ topups' \in [TopUpIds -> TopUp \cup {NoTopUp}]
         /\ Stored' = Stored
         /\ SuccessWasCredited' /\ OneTopUpPerKey'
<1> USE DEF Inv
<1>1. CASE topups' = topups
  BY <1>1 DEF TypeOK, Stored, SuccessWasCredited, OneTopUpPerKey
<1>2. CASE topups' = TopUpSave(t, st)
  <2> DEFINE row == [topups[t] EXCEPT !.status = st]
  <2>1. topups' = [topups EXCEPT ![t] = row]
    BY <1>2 DEF TopUpSave
  <2>2. t \in TopUpIds /\ topups[t] \in TopUp
    BY StoredRow
  <2>3. /\ row \in TopUp /\ row # NoTopUp
        /\ row.merchant = topups[t].merchant /\ row.key = topups[t].key /\ row.status = st
    BY <2>2, NoTopUpIsNoRow DEF TopUp
  <2> HIDE DEF row
  <2>4. topups' \in [TopUpIds -> TopUp \cup {NoTopUp}]
    BY <2>1, <2>2, <2>3 DEF TypeOK
  <2>5. Stored' = Stored
    BY <2>1, <2>2, <2>3 DEF Stored, TypeOK
  <2>6. SuccessWasCredited'
    BY <2>1, <2>2, <2>3, <2>5 DEF SuccessWasCredited, TypeOK, Stored
  <2>7. OneTopUpPerKey'
    BY <2>1, <2>2, <2>3, <2>5 DEF OneTopUpPerKey, TypeOK, Stored
  <2> QED
    BY <2>4, <2>5, <2>6, <2>7
<1> QED
  BY <1>1, <1>2

LEMMA SaveSuccessInv ==
  ASSUME Inv, NEW s \in Sessions, SaveSuccess(s)
  PROVE  Inv'
<1> USE DEF Inv
<1>1. PICK r \in Replies :
        /\ Reply(r)
        /\ topups' = IF Executed(r) THEN TopUpSave(Id(s), Row(s).status) ELSE topups
        /\ \/ Return(s) /\ acked' = [acked EXCEPT ![Owner(s)] = @ + Row(s).amount]
                      /\ succeeded' = succeeded \cup {Id(s)}
           \/ GoTo(s, "undo") /\ UNCHANGED <<acked, succeeded>>
  BY DEF SaveSuccess
<1>2. At(s, "saveSuccess") /\ UNCHANGED <<wallets, granted, credited>>
  BY DEF SaveSuccess
<1>3. /\ calls[s] \in Call
      /\ Id(s) \in TopUpIds
      /\ Owner(s) \in Merchants
      /\ Row(s).amount \in Amount64
      /\ ~At(s, "insert")
  BY <1>2, CallType DEF Steps, At
<1>4. Id(s) \in Stored /\ Row(s).status = "SUCCESS" /\ Id(s) \in credited
  BY <1>2 DEF IdsOwned, ModelMatchesStep, At
<1>5. /\ topups' \in [TopUpIds -> TopUp \cup {NoTopUp}]
      /\ Stored' = Stored
      /\ SuccessWasCredited' /\ OneTopUpPerKey'
  BY <1>1, <1>2, <1>4, TopUpSaveKeeps DEF TopUpStatus
<1>6. calls' \in [Sessions -> Call \cup {Idle}]
  BY <1>1, <1>3, ReturnType, GoToType DEF Steps
<1>7. acked' \in [Merchants -> Nat] /\ succeeded' \subseteq TopUpIds
  BY <1>1, <1>3 DEF TypeOK, Amount64
<1>8. TypeOK'
  BY <1>1, <1>2, <1>5, <1>6, <1>7, ReplyType DEF TypeOK, WalletsTypeOK
<1>9. HistoryGrows
  BY <1>2, <1>5 DEF HistoryGrows, TypeOK
<1>10. IdsOwned' /\ ModelMatchesStep' /\ BaseGranted'
  BY <1>1, <1>3, <1>8, <1>9, ReturnKeeps, GoToKeeps DEF Steps
<1>11. NeverMinted'
  BY <1>2 DEF NeverMinted, Balance, HasWallet
<1> QED
  BY <1>5, <1>8, <1>10, <1>11

LEMMA UndoCreditInv ==
  ASSUME Inv, NEW s \in Sessions, UndoCredit(s)
  PROVE  Inv'
<1> USE DEF Inv
<1>1. PICK r \in Replies :
        /\ Reply(r)
        /\ wallets' = IF Executed(r) THEN WalletSave(Owner(s), calls[s].base) ELSE wallets
  BY DEF UndoCredit
<1>2. /\ At(s, "undo")
      /\ GoTo(s, "undoCreated") \/ Return(s)
      /\ UNCHANGED <<topups, granted, acked, credited, succeeded>>
  BY DEF UndoCredit, history
<1>3. calls[s] \in Call /\ Owner(s) \in Merchants /\ calls[s].base \in Int64 /\ ~At(s, "insert")
  BY <1>2, CallType DEF Steps, At
<1>4. calls[s].base <= granted[Owner(s)]
  BY <1>2 DEF BaseGranted, At
<1>5. calls' \in [Sessions -> Call \cup {Idle}]
  BY <1>2, <1>3, ReturnType, GoToType DEF Steps
<1>6. TypeOK'
  BY <1>1, <1>2, <1>3, <1>5, ReplyType, WalletSaveType DEF TypeOK, WalletsTypeOK
<1>7. HistoryGrows
  BY <1>2 DEF HistoryGrows, Stored, TypeOK
<1>8. IdsOwned' /\ ModelMatchesStep' /\ BaseGranted'
  BY <1>2, <1>3, <1>6, <1>7, ReturnKeeps, GoToKeeps DEF Steps
<1>9. NeverMinted'
  BY <1>1, <1>2, <1>3, <1>4
     DEF NeverMinted, Balance, HasWallet, WalletSave, TypeOK, WalletsTypeOK
<1>10. SuccessWasCredited' /\ OneTopUpPerKey'
  BY <1>2, <1>7 DEF HistoryGrows, SuccessWasCredited, OneTopUpPerKey
<1> QED
  BY <1>6, <1>8, <1>9, <1>10

LEMMA UndoCreatedInv ==
  ASSUME Inv, NEW s \in Sessions, UndoCreated(s)
  PROVE  Inv'
<1> USE DEF Inv
<1>1. PICK r \in Replies :
        /\ Reply(r)
        /\ wallets' = IF Executed(r) THEN WalletSave(Owner(s), 0) ELSE wallets
  BY DEF UndoCreated
<1>2. /\ At(s, "undoCreated") /\ Return(s)
      /\ UNCHANGED <<topups, granted, acked, credited, succeeded>>
  BY DEF UndoCreated, history
<1>3. Owner(s) \in Merchants
  BY <1>2, CallType DEF Steps
<1>4. TypeOK'
  BY <1>1, <1>2, <1>3, ReplyType, ReturnType, WalletSaveType, ZeroIsInt64 DEF TypeOK, WalletsTypeOK
<1>5. HistoryGrows
  BY <1>2 DEF HistoryGrows, Stored, TypeOK
<1>6. NeverMinted'
  BY <1>1, <1>2, <1>3 DEF NeverMinted, Balance, HasWallet, WalletSave, TypeOK, WalletsTypeOK
<1>7. SuccessWasCredited' /\ OneTopUpPerKey'
  BY <1>2, <1>5 DEF HistoryGrows, SuccessWasCredited, OneTopUpPerKey
<1> QED
  BY <1>2, <1>4, <1>5, <1>6, <1>7, ReturnKeeps

LEMMA SaveFailedInv ==
  ASSUME Inv, NEW s \in Sessions, SaveFailed(s)
  PROVE  Inv'
<1> USE DEF Inv
<1>1. PICK r \in Replies :
        /\ Reply(r)
        /\ topups' = IF Executed(r) THEN TopUpSave(Id(s), Row(s).status) ELSE topups
  BY DEF SaveFailed
<1>2. At(s, "saveFailed") /\ Return(s) /\ UNCHANGED <<wallets, granted, acked, credited, succeeded>>
  BY DEF SaveFailed, history
<1>3. Id(s) \in Stored /\ Row(s).status = "FAILED"
  BY <1>2 DEF IdsOwned, ModelMatchesStep, At
<1>4. /\ topups' \in [TopUpIds -> TopUp \cup {NoTopUp}]
      /\ Stored' = Stored
      /\ SuccessWasCredited' /\ OneTopUpPerKey'
  BY <1>1, <1>2, <1>3, TopUpSaveKeeps DEF TopUpStatus
<1>5. TypeOK'
  BY <1>1, <1>2, <1>4, ReplyType, ReturnType DEF TypeOK, WalletsTypeOK
<1>6. HistoryGrows
  BY <1>2, <1>4 DEF HistoryGrows, TypeOK
<1>7. NeverMinted'
  BY <1>2 DEF NeverMinted, Balance, HasWallet
<1> QED
  BY <1>2, <1>4, <1>5, <1>6, <1>7, ReturnKeeps

LEMMA CrashInv ==
  ASSUME Inv, Crash
  PROVE  Inv'
<1> USE DEF Inv
<1>1. calls' = [s \in Sessions |-> Idle] /\ UNCHANGED <<wallets, topups, granted, acked, credited, succeeded>>
  BY DEF Crash, history
<1>2. TypeOK'
  BY <1>1, CrashFaultType DEF Crash, TypeOK, WalletsTypeOK
<1>3. IdsOwned' /\ ModelMatchesStep' /\ BaseGranted'
  BY <1>1 DEF IdsOwned, ModelMatchesStep, BaseGranted, At, Idle
<1>4. NeverMinted' /\ SuccessWasCredited' /\ OneTopUpPerKey'
  BY <1>1 DEF NeverMinted, Balance, HasWallet, SuccessWasCredited, OneTopUpPerKey, Stored
<1> QED
  BY <1>2, <1>3, <1>4

-----------------------------------------------------------------------------
LEMMA ServeInv ==
  ASSUME Inv, NEW s \in Sessions, Serve(s)
  PROVE  Inv'
<1>1. CASE \E t \in TopUpIds, m \in Merchants, a \in Amounts, k \in Keys :
             RequestTopUp(s, t, m, a, k)
  BY <1>1, RequestTopUpInv
<1>2. CASE InsertTopUp(s)
  BY <1>2, InsertTopUpInv
<1>3. CASE \E t \in TopUpIds : AdminSucceed(s, t) \/ AdminFail(s, t)
  BY <1>3, AdminSucceedInv, AdminFailInv
<1>4. CASE FindWallet(s)
  BY <1>4, FindWalletInv
<1>5. CASE CreateWallet(s)
  BY <1>5, CreateWalletInv
<1>6. CASE CreditWallet(s)
  BY <1>6, CreditWalletInv
<1>7. CASE SaveSuccess(s)
  BY <1>7, SaveSuccessInv
<1>8. CASE UndoCredit(s)
  BY <1>8, UndoCreditInv
<1>9. CASE UndoCreated(s)
  BY <1>9, UndoCreatedInv
<1>10. CASE SaveFailed(s)
  BY <1>10, SaveFailedInv
<1> QED
  BY <1>1, <1>2, <1>3, <1>4, <1>5, <1>6, <1>7, <1>8, <1>9, <1>10 DEF Serve

LEMMA StutterInv ==
  ASSUME Inv, UNCHANGED vars
  PROVE  Inv'
<1> USE DEF Inv, vars
<1>1. TypeOK'
  BY DEF TypeOK, WalletsTypeOK
<1>2. Stored' = Stored
  BY DEF Stored
<1>3. IdsOwned' /\ ModelMatchesStep' /\ BaseGranted'
  BY <1>2 DEF IdsOwned, ModelMatchesStep, BaseGranted, At, Id, Row, Owner
<1>4. NeverMinted' /\ SuccessWasCredited' /\ OneTopUpPerKey'
  BY <1>2 DEF NeverMinted, Balance, HasWallet, SuccessWasCredited, OneTopUpPerKey
<1> QED
  BY <1>1, <1>3, <1>4

LEMMA StepInv == Inv /\ [Next]_vars => Inv'
<1> SUFFICES ASSUME Inv, [Next]_vars PROVE Inv'
  OBVIOUS
<1>1. CASE \E s \in Sessions : Serve(s)
  BY <1>1, ServeInv
<1>2. CASE Crash
  BY <1>2, CrashInv
<1>3. CASE UNCHANGED vars
  BY <1>3, StutterInv
<1> QED
  BY <1>1, <1>2, <1>3 DEF Next, Quiet

(* The inductive invariant holds in every behaviour of the service, for    *)
(* any number of requests at once and any faults.                          *)
THEOREM Invariance == Spec => []Inv
BY InitInv, StepInv, PTL DEF Spec

(* Rows, balances (within 64 bits) and calls keep their types.             *)
THEOREM TypeCorrect == Spec => []TypeOK
<1>1. Inv => TypeOK
  BY DEF Inv
<1> QED
  BY <1>1, Invariance, PTL

(* However AdminUpdate's reads, writes and rollbacks interleave, and also  *)
(* when a balance overflows int64, no wallet holds more than was added.    *)
THEOREM WalletNeverMinted == Spec => []NeverMinted
<1>1. Inv => NeverMinted
  BY DEF Inv
<1> QED
  BY <1>1, Invariance, PTL

(* A top-up stored as SUCCESS has been added to its merchant's wallet.     *)
THEOREM SuccessCredited == Spec => []SuccessWasCredited
<1>1. Inv => SuccessWasCredited
  BY DEF Inv
<1> QED
  BY <1>1, Invariance, PTL

(* Concurrent requests with one key leave one top-up.                      *)
THEOREM KeyIsUnique == Spec => []OneTopUpPerKey
<1>1. Inv => OneTopUpPerKey
  BY DEF Inv
<1> QED
  BY <1>1, Invariance, PTL

(* A step writes at most one status, SUCCESS or FAILED.                    *)
LEMMA StatusWrites ==
  ASSUME Inv, [Next]_vars, NEW t \in Stored, topups'[t] # topups[t]
  PROVE  topups'[t].status \in {"SUCCESS", "FAILED"}
<1> USE DEF Inv
<1>1. PICK s \in Sessions : InsertTopUp(s) \/ SaveSuccess(s) \/ SaveFailed(s)
  BY DEF Next, Serve, Crash, Quiet, vars, RequestTopUp, AdminSucceed, AdminFail, FindWallet,
         CreateWallet, CreditWallet, UndoCredit, UndoCreated
<1>2. CASE InsertTopUp(s)
  <2>1. Id(s) \notin Stored /\ Id(s) \in TopUpIds
    BY <1>2, CallType DEF InsertTopUp, IdsOwned, Steps
  <2>2. topups' = topups \/ topups' = [topups EXCEPT ![Id(s)] = Row(s)]
    BY <1>2 DEF InsertTopUp, TopUpCreate
  <2> QED
    BY <2>1, <2>2, StoredRow DEF TypeOK
<1>3. CASE SaveSuccess(s) \/ SaveFailed(s)
  <2>1. Row(s).status \in {"SUCCESS", "FAILED"}
    BY <1>3 DEF SaveSuccess, SaveFailed, ModelMatchesStep
  <2>2. topups' = topups \/ topups' = TopUpSave(Id(s), Row(s).status)
    BY <1>3 DEF SaveSuccess, SaveFailed
  <2> QED
    BY <2>1, <2>2, StoredRow DEF TopUpSave, TypeOK, TopUp
<1> QED
  BY <1>1, <1>2, <1>3

(* No request, and no rollback of one, makes a settled top-up PENDING.     *)
THEOREM TopUpNeverReopened == Spec => NeverReopened
<1> DEFINE Step == \A t \in Stored :
                     topups'[t].status = "PENDING" => topups[t].status = "PENDING"
<1>1. Inv /\ [Next]_vars => [Step]_vars
  BY StatusWrites
<1>2. Spec => [][Step]_vars
  BY <1>1, Invariance, PTL DEF Spec
<1> QED
  BY <1>2 DEF NeverReopened
-----------------------------------------------------------------------------
(* What TopUps guarantees when requests are served one after the other,    *)
(* whatever calls fail and whenever the server crashes.  With two requests *)
(* at once none of the theorems below holds: TLC refutes them.             *)


OneAtATime == \A r, s \in Sessions : r = s

(* No balance of the bounded model overflows.                              *)
Roomy == \A a \in Amounts : MaxGranted + a <= MaxInt64

(* What the request under way knows about the tables.                      *)
Knows(s) ==
  LET step == calls[s].step IN
  /\ step \in {"findWallet", "createWallet"} => topups[Id(s)] = Row(s)
  /\ step \in {"findWallet", "createWallet", "credit"} => granted[Owner(s)] < MaxGranted
  /\ step \in {"credit", "saveSuccess"} =>
       HasWallet(Owner(s)) /\ topups[Id(s)].status # "FAILED"
  /\ step = "credit" => wallets[Owner(s)] = calls[s].base
  /\ step = "saveSuccess" => wallets[Owner(s)] = calls[s].base + Row(s).amount
  /\ step \in {"credit", "saveSuccess", "undo"} =>
       /\ acked[Owner(s)] <= calls[s].base
       /\ calls[s].created => calls[s].base = 0
  /\ step = "undoCreated" => acked[Owner(s)] = 0
  /\ step = "saveFailed" => topups[Id(s)].status # "SUCCESS"

SerialInv ==
  /\ \A s \in Sessions : Knows(s)
  /\ AckedIsCovered
  /\ succeeded \subseteq Stored
  /\ AckedStaysSuccess
-----------------------------------------------------------------------------
LEMMA SerialInit == Init => SerialInv
<1> SUFFICES ASSUME Init PROVE SerialInv
  OBVIOUS
<1>1. \A s \in Sessions : Knows(s)
  BY DEF Init, Knows, Idle
<1>2. AckedIsCovered
  BY DEF Init, AckedIsCovered, Balance, HasWallet
<1> QED
  BY <1>1, <1>2 DEF Init, SerialInv, AckedStaysSuccess

(* Steps that leave the tables and the history alone.                      *)
LEMMA TablesKept ==
  ASSUME SerialInv, UNCHANGED <<wallets, topups, acked, succeeded>>
  PROVE  AckedIsCovered' /\ (succeeded \subseteq Stored)' /\ AckedStaysSuccess'
<1>1. Stored' = Stored
  BY DEF Stored
<1> QED
  BY <1>1 DEF SerialInv, AckedIsCovered, Balance, HasWallet, AckedStaysSuccess

LEMMA ReturnKnows ==
  ASSUME OneAtATime, TypeOK, NEW s \in Sessions, Return(s)
  PROVE  \A r \in Sessions : Knows(r)'
BY DEF OneAtATime, TypeOK, Return, Knows, Idle

LEMMA BeginsSerial ==
  ASSUME OneAtATime, Inv, SerialInv, NEW s \in Sessions,
         NEW t \in TopUpIds, NEW m \in Merchants, NEW a \in Amounts, NEW k \in Keys,
         RequestTopUp(s, t, m, a, k) \/ AdminSucceed(s, t) \/ AdminFail(s, t)
  PROVE  SerialInv'
<1>1. UNCHANGED <<wallets, topups, granted, acked, succeeded>>
  BY DEF RequestTopUp, AdminSucceed, AdminFail, history
<1>2. Knows(s)'
  <2>1. CASE RequestTopUp(s, t, m, a, k)
    BY <2>1 DEF RequestTopUp, Begin, Knows, Inv, TypeOK
  <2>2. CASE AdminSucceed(s, t)
    BY <2>2, <1>1 DEF AdminSucceed, Begin, Knows, Id, Row, Owner, Inv, TypeOK
  <2>3. CASE AdminFail(s, t)
    BY <2>3, <1>1 DEF AdminFail, Begin, TopUpCanFail, Knows, Id, Inv, TypeOK
  <2> QED
    BY <2>1, <2>2, <2>3
<1>3. \A r \in Sessions : Knows(r)'
  BY <1>2 DEF OneAtATime
<1> QED
  BY <1>1, <1>3, TablesKept DEF SerialInv

LEMMA InsertSerial ==
  ASSUME OneAtATime, Inv, SerialInv, NEW s \in Sessions, InsertTopUp(s)
  PROVE  SerialInv'
<1>1. Return(s) /\ UNCHANGED <<wallets, acked, succeeded>>
  BY DEF InsertTopUp, history
<1>2. Id(s) \notin Stored /\ Id(s) \in TopUpIds /\ Row(s) \in TopUp
  BY CallType DEF InsertTopUp, Inv, IdsOwned, Steps
<1>3. topups' = topups \/ topups' = [topups EXCEPT ![Id(s)] = Row(s)]
  BY DEF InsertTopUp, TopUpCreate
<1>4. succeeded \subseteq Stored' /\ AckedStaysSuccess'
  BY <1>1, <1>2, <1>3, NoTopUpIsNoRow DEF SerialInv, AckedStaysSuccess, Stored, Inv, TypeOK
<1>5. AckedIsCovered'
  BY <1>1 DEF SerialInv, AckedIsCovered, Balance, HasWallet
<1> QED
  BY <1>1, <1>4, <1>5, ReturnKnows DEF SerialInv, Inv

(* With the wallet read or created and nobody else around, its balance is  *)
(* the base the credit starts from.                                        *)
LEMMA MarkSuccessKnows ==
  ASSUME OneAtATime, Inv, NEW s \in Sessions, calls[s] \in Call, Id(s) \in Stored,
         NEW base \in Int64, NEW created \in BOOLEAN, MarkSuccess(s, base, created),
         UNCHANGED <<topups, granted, acked>>, wallets' \in [Merchants -> Int64 \cup {NoWallet}],
         topups[Id(s)] = Row(s), granted[Owner(s)] < MaxGranted, wallets'[Owner(s)] = base,
         acked[Owner(s)] <= base, created => base = 0
  PROVE  \A r \in Sessions : Knows(r)'
<1> DEFINE c == [calls[s] EXCEPT !.step = "credit", !.row.status = "SUCCESS",
                                 !.base = base, !.created = created]
<1>1. CASE Return(s)
  BY <1>1, ReturnKnows DEF Inv
<1>2. CASE TopUpCanSucceed(Row(s).status) /\ calls' = [calls EXCEPT ![s] = c]
  <2>1. /\ c.step = "credit" /\ c.id = Id(s) /\ c.row.merchant = Owner(s)
        /\ c.base = base /\ c.created = created
    BY DEF Call, TopUp, Id, Owner
  <2>2. topups[Id(s)].status # "FAILED"
    BY <1>2 DEF TopUpCanSucceed
  <2>3. wallets'[Owner(s)] # NoWallet
    BY WalletAssumption DEF Int64
  <2> HIDE DEF c
  <2>4. calls'[s] = c
    BY <1>2 DEF Inv, TypeOK
  <2>5. Knows(s)'
    BY <2>1, <2>2, <2>3, <2>4 DEF Knows, Id, Row, Owner, HasWallet
  <2> QED
    BY <2>5 DEF OneAtATime
<1> QED
  BY <1>1, <1>2 DEF MarkSuccess

LEMMA FindWalletSerial ==
  ASSUME OneAtATime, Inv, SerialInv, NEW s \in Sessions, FindWallet(s)
  PROVE  SerialInv'
<1>1. At(s, "findWallet") /\ UNCHANGED <<wallets, topups, granted, acked, succeeded>>
  BY DEF FindWallet, history
<1>2. /\ calls[s] \in Call /\ Owner(s) \in Merchants /\ Id(s) \in Stored
      /\ topups[Id(s)] = Row(s) /\ granted[Owner(s)] < MaxGranted
      /\ acked[Owner(s)] <= Balance(Owner(s))
  BY <1>1, CallType DEF Inv, IdsOwned, Steps, SerialInv, Knows, At, AckedIsCovered
<1>3. CASE Return(s)
  BY <1>1, <1>3, ReturnKnows, TablesKept DEF SerialInv, Inv
<1>4. CASE HasWallet(Owner(s)) /\ MarkSuccess(s, wallets[Owner(s)], FALSE)
  <2>1. wallets[Owner(s)] \in Int64 /\ acked[Owner(s)] <= wallets[Owner(s)]
    BY <1>2, <1>4 DEF Inv, TypeOK, WalletsTypeOK, HasWallet, Balance
  <2>2. wallets' \in [Merchants -> Int64 \cup {NoWallet}]
    BY <1>1 DEF Inv, TypeOK, WalletsTypeOK
  <2>3. \A r \in Sessions : Knows(r)'
    BY <1>1, <1>2, <1>4, <2>1, <2>2, MarkSuccessKnows
  <2> QED
    BY <1>1, <2>3, TablesKept DEF SerialInv
<1>5. CASE GoTo(s, "createWallet")
  <2>1. /\ calls'[s].step = "createWallet" /\ calls'[s].id = Id(s) /\ calls'[s].row = Row(s)
    BY <1>2, <1>5 DEF GoTo, Call, Id, Row, Inv, TypeOK
  <2>2. Knows(s)'
    BY <1>1, <1>2, <2>1 DEF Knows, Id, Row, Owner
  <2>3. \A r \in Sessions : Knows(r)'
    BY <2>2 DEF OneAtATime
  <2> QED
    BY <1>1, <2>3, TablesKept DEF SerialInv
<1> QED
  BY <1>3, <1>4, <1>5 DEF FindWallet

LEMMA CreateWalletSerial ==
  ASSUME OneAtATime, Inv, SerialInv, NEW s \in Sessions, CreateWallet(s)
  PROVE  SerialInv'
<1>1. At(s, "createWallet") /\ UNCHANGED <<topups, granted, acked, succeeded>>
  BY DEF CreateWallet, history
<1>2. /\ calls[s] \in Call /\ Owner(s) \in Merchants /\ Id(s) \in Stored
      /\ topups[Id(s)] = Row(s) /\ granted[Owner(s)] < MaxGranted
      /\ acked[Owner(s)] <= Balance(Owner(s))
  BY <1>1, CallType DEF Inv, IdsOwned, Steps, SerialInv, Knows, At, AckedIsCovered
<1>3. PICK r \in Replies :
        /\ IF r = "ok" /\ ~HasWallet(Owner(s)) THEN MarkSuccess(s, 0, TRUE) ELSE Return(s)
        /\ wallets' = IF Executed(r) THEN WalletCreate(Owner(s)) ELSE wallets
  BY DEF CreateWallet
<1>4. wallets' \in [Merchants -> Int64 \cup {NoWallet}]
  BY <1>2, <1>3, WalletCreateType DEF Inv, TypeOK, WalletsTypeOK
<1>5. AckedIsCovered'
  BY <1>1, <1>2, <1>3
     DEF SerialInv, AckedIsCovered, Balance, HasWallet, WalletCreate, Inv, TypeOK, WalletsTypeOK
<1>6. (succeeded \subseteq Stored)' /\ AckedStaysSuccess'
  BY <1>1 DEF SerialInv, Stored, AckedStaysSuccess
<1>7. \A q \in Sessions : Knows(q)'
  <2>1. CASE r = "ok" /\ ~HasWallet(Owner(s))
    <3>1. wallets'[Owner(s)] = 0 /\ acked[Owner(s)] <= 0
      BY <1>2, <1>3, <2>1 DEF Executed, WalletCreate, HasWallet, Balance, Inv, TypeOK, WalletsTypeOK
    <3> QED
      BY <1>1, <1>2, <1>3, <1>4, <2>1, <3>1, MarkSuccessKnows, ZeroIsInt64
  <2>2. CASE ~(r = "ok" /\ ~HasWallet(Owner(s)))
    BY <1>3, <2>2, ReturnKnows DEF Inv
  <2> QED
    BY <2>1, <2>2
<1> QED
  BY <1>5, <1>6, <1>7 DEF SerialInv

LEMMA CreditWalletSerial ==
  ASSUME OneAtATime, Roomy, Inv, SerialInv, NEW s \in Sessions, CreditWallet(s)
  PROVE  SerialInv'
<1> DEFINE sum == calls[s].base + Row(s).amount
<1>1. At(s, "credit") /\ UNCHANGED <<topups, acked, succeeded>>
  BY DEF CreditWallet
<1>2. /\ calls[s] \in Call /\ Owner(s) \in Merchants /\ calls[s].base \in Int64
      /\ Row(s) \in TopUp /\ Row(s).amount \in Amounts \cap Amount64
  BY <1>1, CallType DEF Inv, Steps, TopUp
<1>3. /\ granted[Owner(s)] < MaxGranted /\ HasWallet(Owner(s)) /\ topups[Id(s)].status # "FAILED"
      /\ wallets[Owner(s)] = calls[s].base /\ acked[Owner(s)] <= calls[s].base
      /\ (calls[s].created => calls[s].base = 0)
  BY <1>1 DEF SerialInv, Knows, At
<1>4. sum <= MaxInt64
  <2>1. calls[s].base <= granted[Owner(s)]
    BY <1>1 DEF Inv, BaseGranted, At
  <2>2. MaxGranted + Row(s).amount <= MaxInt64
    BY <1>2 DEF Roomy
  <2> QED
    BY <1>2, <1>3, <2>1, <2>2, TopUpAssumption, Int64Assumption DEF Inv, TypeOK, Amount64, Int64
<1>5. AddInt64(calls[s].base, Row(s).amount) = sum
  BY <1>2, <1>4, Int64Assumption DEF AddInt64, Int64, Amount64
<1>6. sum \in Int /\ sum > calls[s].base
  BY <1>2 DEF Amount64, Int64
<1>7. PICK r \in Replies :
        /\ IF r = "ok" THEN GoTo(s, "saveSuccess") ELSE Return(s)
        /\ \/ Executed(r) /\ wallets' = WalletSave(Owner(s), sum)
           \/ ~Executed(r) /\ UNCHANGED wallets
  BY <1>5 DEF CreditWallet
<1> HIDE DEF sum
<1>8. AckedIsCovered'
  BY <1>1, <1>2, <1>3, <1>6, <1>7, WalletAssumption
     DEF SerialInv, AckedIsCovered, Balance, HasWallet, WalletSave, Inv, TypeOK, WalletsTypeOK, Int64
<1>9. (succeeded \subseteq Stored)' /\ AckedStaysSuccess'
  BY <1>1 DEF SerialInv, Stored, AckedStaysSuccess
<1>10. \A q \in Sessions : Knows(q)'
  <2>1. CASE r # "ok"
    BY <1>7, <2>1, ReturnKnows DEF Inv
  <2>2. CASE r = "ok"
    <3>1. wallets'[Owner(s)] = sum /\ sum # NoWallet
      BY <1>2, <1>3, <1>6, <1>7, <2>2, WalletAssumption
         DEF Executed, WalletSave, Inv, TypeOK, WalletsTypeOK
    <3>2. /\ calls'[s].step = "saveSuccess" /\ calls'[s].id = Id(s) /\ calls'[s].row = Row(s)
          /\ calls'[s].base = calls[s].base /\ calls'[s].created = calls[s].created
      BY <1>2, <1>7, <2>2 DEF GoTo, Call, Id, Row, Inv, TypeOK
    <3>3. Knows(s)'
      BY <1>1, <1>3, <3>1, <3>2 DEF Knows, Id, Row, Owner, HasWallet, sum
    <3> QED
      BY <3>3 DEF OneAtATime
  <2> QED
    BY <2>1, <2>2
<1> QED
  BY <1>8, <1>9, <1>10 DEF SerialInv

LEMMA SaveSuccessSerial ==
  ASSUME OneAtATime, Inv, SerialInv, NEW s \in Sessions, SaveSuccess(s)
  PROVE  SerialInv'
<1>1. At(s, "saveSuccess") /\ UNCHANGED <<wallets, granted>>
  BY DEF SaveSuccess
<1>2. /\ calls[s] \in Call /\ Owner(s) \in Merchants /\ calls[s].base \in Int64
      /\ Id(s) \in Stored /\ Row(s).amount \in Amount64 /\ Row(s).status = "SUCCESS"
  BY <1>1, CallType DEF Inv, IdsOwned, ModelMatchesStep, Steps, At
<1>3. /\ HasWallet(Owner(s)) /\ wallets[Owner(s)] = calls[s].base + Row(s).amount
      /\ acked[Owner(s)] <= calls[s].base /\ (calls[s].created => calls[s].base = 0)
  BY <1>1 DEF SerialInv, Knows, At
<1>4. PICK r \in Replies :
        /\ topups' = IF Executed(r) THEN TopUpSave(Id(s), Row(s).status) ELSE topups
        /\ \/ /\ r = "ok" /\ Return(s)
              /\ acked' = [acked EXCEPT ![Owner(s)] = @ + Row(s).amount]
              /\ succeeded' = succeeded \cup {Id(s)}
           \/ GoTo(s, "undo") /\ UNCHANGED <<acked, succeeded>>
  BY DEF SaveSuccess
<1>5. topups[Id(s)] \in TopUp /\ Id(s) \in TopUpIds
  BY <1>2, StoredRow DEF Inv
<1>6. Stored' = Stored
  BY <1>2, <1>4, TopUpSaveKeeps, <1>1 DEF SaveSuccess, Inv, ModelMatchesStep, TopUpStatus
<1>7. AckedIsCovered'
  BY <1>1, <1>2, <1>3, <1>4
     DEF SerialInv, AckedIsCovered, Balance, HasWallet, Inv, TypeOK, WalletsTypeOK, Int64, Amount64
<1>8. (succeeded \subseteq Stored)'
  BY <1>2, <1>4, <1>6 DEF SerialInv
<1>9. AckedStaysSuccess'
  BY <1>2, <1>4, <1>5 DEF SerialInv, AckedStaysSuccess, TopUpSave, Executed, Inv, TypeOK, TopUp, Stored
<1>10. \A q \in Sessions : Knows(q)'
  <2>1. CASE Return(s)
    BY <2>1, ReturnKnows DEF Inv
  <2>2. CASE GoTo(s, "undo") /\ UNCHANGED acked
    <3>1. /\ calls'[s].step = "undo" /\ calls'[s].row = Row(s)
          /\ calls'[s].base = calls[s].base /\ calls'[s].created = calls[s].created
      BY <1>2, <2>2 DEF GoTo, Call, Row, Inv, TypeOK
    <3>2. Knows(s)'
      BY <1>3, <2>2, <3>1 DEF Knows, Row, Owner
    <3> QED
      BY <3>2 DEF OneAtATime
  <2> QED
    BY <1>4, <2>1, <2>2
<1> QED
  BY <1>7, <1>8, <1>9, <1>10 DEF SerialInv

LEMMA UndoCreditSerial ==
  ASSUME OneAtATime, Inv, SerialInv, NEW s \in Sessions, UndoCredit(s)
  PROVE  SerialInv'
<1>1. At(s, "undo") /\ UNCHANGED <<topups, granted, acked, succeeded>>
  BY DEF UndoCredit, history
<1>2. calls[s] \in Call /\ Owner(s) \in Merchants /\ calls[s].base \in Int64
  BY <1>1, CallType DEF Inv, Steps
<1>3. acked[Owner(s)] <= calls[s].base /\ (calls[s].created => calls[s].base = 0)
  BY <1>1 DEF SerialInv, Knows, At
<1>4. /\ IF calls[s].created THEN GoTo(s, "undoCreated") ELSE Return(s)
      /\ wallets' = wallets \/ wallets' = WalletSave(Owner(s), calls[s].base)
  BY DEF UndoCredit
<1>5. AckedIsCovered'
  BY <1>1, <1>2, <1>3, <1>4, WalletAssumption
     DEF SerialInv, AckedIsCovered, Balance, HasWallet, WalletSave, Inv, TypeOK, WalletsTypeOK, Int64
<1>6. (succeeded \subseteq Stored)' /\ AckedStaysSuccess'
  BY <1>1 DEF SerialInv, Stored, AckedStaysSuccess
<1>7. \A q \in Sessions : Knows(q)'
  <2>1. CASE ~calls[s].created
    BY <1>4, <2>1, ReturnKnows DEF Inv
  <2>2. CASE calls[s].created
    <3>1. calls'[s].step = "undoCreated" /\ calls'[s].row = Row(s)
      BY <1>2, <1>4, <2>2 DEF GoTo, Call, Row, Inv, TypeOK
    <3>2. acked[Owner(s)] = 0
      BY <1>2, <1>3, <2>2 DEF Inv, TypeOK
    <3>3. Knows(s)'
      BY <1>1, <3>1, <3>2 DEF Knows, Row, Owner
    <3> QED
      BY <3>3 DEF OneAtATime
  <2> QED
    BY <2>1, <2>2
<1> QED
  BY <1>5, <1>6, <1>7 DEF SerialInv

LEMMA UndoCreatedSerial ==
  ASSUME OneAtATime, Inv, SerialInv, NEW s \in Sessions, UndoCreated(s)
  PROVE  SerialInv'
<1>1. At(s, "undoCreated") /\ Return(s) /\ UNCHANGED <<topups, granted, acked, succeeded>>
  BY DEF UndoCreated, history
<1>2. Owner(s) \in Merchants /\ acked[Owner(s)] = 0
  BY <1>1, CallType DEF Inv, Steps, SerialInv, Knows, At
<1>3. wallets' = wallets \/ wallets' = WalletSave(Owner(s), 0)
  BY DEF UndoCreated
<1>4. AckedIsCovered'
  BY <1>1, <1>2, <1>3
     DEF SerialInv, AckedIsCovered, Balance, HasWallet, WalletSave, Inv, TypeOK, WalletsTypeOK
<1>5. (succeeded \subseteq Stored)' /\ AckedStaysSuccess'
  BY <1>1 DEF SerialInv, Stored, AckedStaysSuccess
<1> QED
  BY <1>1, <1>4, <1>5, ReturnKnows DEF SerialInv, Inv

LEMMA SaveFailedSerial ==
  ASSUME OneAtATime, Inv, SerialInv, NEW s \in Sessions, SaveFailed(s)
  PROVE  SerialInv'
<1>1. At(s, "saveFailed") /\ Return(s) /\ UNCHANGED <<wallets, acked, credited, succeeded>>
  BY DEF SaveFailed, history
<1>2. Id(s) \in Stored /\ Row(s).status = "FAILED" /\ topups[Id(s)].status # "SUCCESS"
  BY <1>1 DEF Inv, IdsOwned, ModelMatchesStep, SerialInv, Knows, At
<1>3. topups' = TopUpSave(Id(s), "FAILED") \/ topups' = topups
  BY <1>2 DEF SaveFailed
<1>4. Stored' = Stored
  BY <1>1, <1>2, <1>3, TopUpSaveKeeps DEF TopUpStatus
<1>5. AckedIsCovered'
  BY <1>1 DEF SerialInv, AckedIsCovered, Balance, HasWallet
<1>6. Id(s) \notin succeeded
  BY <1>2 DEF SerialInv, AckedStaysSuccess
<1>7. AckedStaysSuccess'
  BY <1>1, <1>3, <1>6 DEF SerialInv, AckedStaysSuccess, TopUpSave, Inv, TypeOK
<1> QED
  BY <1>1, <1>4, <1>5, <1>7, ReturnKnows DEF SerialInv, Inv

LEMMA SerialStep ==
  ASSUME OneAtATime, Roomy, Inv, SerialInv, [Next]_vars
  PROVE  SerialInv'
<1>1. ASSUME NEW s \in Sessions, Serve(s) PROVE SerialInv'
  <2>1. CASE \E t \in TopUpIds, m \in Merchants, a \in Amounts, k \in Keys :
               RequestTopUp(s, t, m, a, k)
    BY <2>1, BeginsSerial
  <2>2. CASE \E t \in TopUpIds : AdminSucceed(s, t) \/ AdminFail(s, t)
    <3>1. PICK t \in TopUpIds : AdminSucceed(s, t) \/ AdminFail(s, t)
      BY <2>2
    <3>2. topups[t] \in TopUp
      BY <3>1, StoredRow DEF AdminSucceed, AdminFail, Inv
    <3>3. topups[t].merchant \in Merchants /\ topups[t].amount \in Amounts /\ topups[t].key \in Keys
      BY <3>2 DEF TopUp
    <3> QED
      BY <3>1, <3>3, BeginsSerial
  <2>3. CASE InsertTopUp(s)
    BY <2>3, InsertSerial
  <2>4. CASE FindWallet(s) \/ CreateWallet(s)
    BY <2>4, FindWalletSerial, CreateWalletSerial
  <2>5. CASE CreditWallet(s) \/ SaveSuccess(s)
    BY <2>5, CreditWalletSerial, SaveSuccessSerial
  <2>6. CASE UndoCredit(s) \/ UndoCreated(s) \/ SaveFailed(s)
    BY <2>6, UndoCreditSerial, UndoCreatedSerial, SaveFailedSerial
  <2> QED
    BY <1>1, <2>1, <2>2, <2>3, <2>4, <2>5, <2>6 DEF Serve
<1>2. CASE Crash
  <2>1. UNCHANGED <<wallets, topups, acked, succeeded>>
    BY <1>2 DEF Crash, history
  <2>2. \A r \in Sessions : Knows(r)'
    BY <1>2 DEF Crash, Knows, Idle
  <2> QED
    BY <2>1, <2>2, TablesKept DEF SerialInv
<1>3. CASE UNCHANGED vars
  <2>1. \A r \in Sessions : Knows(r)'
    BY <1>3 DEF vars, SerialInv, Knows, HasWallet, Id, Row, Owner
  <2> QED
    BY <1>3, <2>1, TablesKept DEF SerialInv, vars
<1> QED
  BY <1>1, <1>2, <1>3 DEF Next, Quiet

-----------------------------------------------------------------------------
LEMMA SerialInvariance ==
  ASSUME OneAtATime, Roomy PROVE Spec => [](Inv /\ SerialInv)
<1>1. Init => Inv /\ SerialInv
  BY InitInv, SerialInit
<1>2. (Inv /\ SerialInv) /\ [Next]_vars => (Inv /\ SerialInv)'
  BY StepInv, SerialStep
<1> QED
  BY <1>1, <1>2, PTL DEF Spec

(* Served one at a time, and as long as no balance overflows, requests     *)
(* that answered 200 are paid in full: no failed call, rollback or crash   *)
(* of a later request takes from the wallet what an earlier one            *)
(* acknowledged.                                                           *)
THEOREM SerialAckedCovered ==
  ASSUME OneAtATime, Roomy PROVE Spec => []AckedIsCovered
<1>1. Inv /\ SerialInv => AckedIsCovered
  BY DEF SerialInv
<1> QED
  BY <1>1, SerialInvariance, PTL

(* Served one at a time, an acknowledged SUCCESS stays SUCCESS.            *)
THEOREM SerialSuccessStays ==
  ASSUME OneAtATime, Roomy PROVE Spec => []AckedStaysSuccess
<1>1. Inv /\ SerialInv => AckedStaysSuccess
  BY DEF SerialInv
<1> QED
  BY <1>1, SerialInvariance, PTL

(* Served one at a time, a status once settled never changes.              *)
THEOREM SerialStatusFinal ==
  ASSUME OneAtATime, Roomy PROVE Spec => StatusIsFinal
<1> DEFINE Step == \A t \in Stored :
                     topups'[t].status # topups[t].status => topups[t].status = "PENDING"
<1>1. ASSUME Inv, SerialInv, [Next]_vars PROVE [Step]_vars
  <2>1. ASSUME NEW t \in Stored, topups'[t].status # topups[t].status
        PROVE  topups[t].status = "PENDING"
    <3>1. t \in TopUpIds /\ topups[t] \in TopUp
      BY <1>1, <2>1, StoredRow DEF Inv
    <3>2. PICK s \in Sessions : InsertTopUp(s) \/ SaveSuccess(s) \/ SaveFailed(s)
      BY <1>1, <2>1 DEF Next, Serve, Crash, Quiet, vars, RequestTopUp, AdminSucceed, AdminFail,
                        FindWallet, CreateWallet, CreditWallet, UndoCredit, UndoCreated
    <3>3. CASE InsertTopUp(s)
      <4>1. Id(s) \notin Stored /\ Id(s) \in TopUpIds
        BY <1>1, <3>3, CallType DEF InsertTopUp, Inv, IdsOwned, Steps
      <4>2. topups' = topups \/ topups' = [topups EXCEPT ![Id(s)] = Row(s)]
        BY <3>3 DEF InsertTopUp, TopUpCreate
      <4> QED
        BY <1>1, <2>1, <3>1, <4>1, <4>2 DEF Inv, TypeOK
    <3>4. CASE SaveSuccess(s)
      <4>1. topups[Id(s)].status # "FAILED" /\ Row(s).status = "SUCCESS"
        BY <1>1, <3>4 DEF SaveSuccess, SerialInv, Knows, Inv, ModelMatchesStep, At
      <4>2. topups' = topups \/ topups' = TopUpSave(Id(s), "SUCCESS")
        BY <3>4, <4>1 DEF SaveSuccess
      <4> QED
        BY <1>1, <2>1, <3>1, <4>1, <4>2 DEF TopUpSave, TopUp, TopUpStatus, Inv, TypeOK
    <3>5. CASE SaveFailed(s)
      <4>1. topups[Id(s)].status # "SUCCESS" /\ Row(s).status = "FAILED"
        BY <1>1, <3>5 DEF SaveFailed, SerialInv, Knows, Inv, ModelMatchesStep, At
      <4>2. topups' = topups \/ topups' = TopUpSave(Id(s), "FAILED")
        BY <3>5, <4>1 DEF SaveFailed
      <4> QED
        BY <1>1, <2>1, <3>1, <4>1, <4>2 DEF TopUpSave, TopUp, TopUpStatus, Inv, TypeOK
    <3> QED
      BY <3>2, <3>3, <3>4, <3>5
  <2> QED
    BY <2>1
<1>2. Spec => [][Step]_vars
  BY <1>1, SerialInvariance, PTL DEF Spec
<1> QED
  BY <1>2 DEF StatusIsFinal

-----------------------------------------------------------------------------
(* The merchant and the amount of a row never change, so a call has those  *)
(* of the row it works on.                                                 *)

Working(s) == calls[s].step \notin {"idle", "insert"}

RowMatches ==
  \A s \in Sessions :
    Working(s) => topups[Id(s)].merchant = Owner(s) /\ topups[Id(s)].amount = Row(s).amount

LEMMA RowsKeep ==
  ASSUME Inv, [Next]_vars, NEW t \in Stored
  PROVE  topups'[t].merchant = topups[t].merchant /\ topups'[t].amount = topups[t].amount
<1> USE DEF Inv
<1>1. SUFFICES ASSUME topups'[t] # topups[t]
               PROVE  topups'[t].merchant = topups[t].merchant /\ topups'[t].amount = topups[t].amount
  OBVIOUS
<1>2. PICK s \in Sessions : InsertTopUp(s) \/ SaveSuccess(s) \/ SaveFailed(s)
  BY <1>1 DEF Next, Serve, Crash, Quiet, vars, RequestTopUp, AdminSucceed, AdminFail, FindWallet,
              CreateWallet, CreditWallet, UndoCredit, UndoCreated
<1>3. CASE InsertTopUp(s)
  <2>1. Id(s) \notin Stored /\ Id(s) \in TopUpIds
    BY <1>3, CallType DEF InsertTopUp, IdsOwned, Steps
  <2>2. topups' = topups \/ topups' = [topups EXCEPT ![Id(s)] = Row(s)]
    BY <1>3 DEF InsertTopUp, TopUpCreate
  <2> QED
    BY <1>1, <2>1, <2>2, StoredRow DEF TypeOK
<1>4. CASE SaveSuccess(s) \/ SaveFailed(s)
  <2>1. topups' = topups \/ topups' = TopUpSave(Id(s), Row(s).status)
    BY <1>4 DEF SaveSuccess, SaveFailed
  <2> QED
    BY <2>1, StoredRow DEF TopUpSave, TypeOK, TopUp
<1> QED
  BY <1>2, <1>3, <1>4

(* A step leaves a call the row it had, or gives it one that is stored.    *)
LEMMA CallMoves ==
  ASSUME Inv, [Next]_vars, NEW s \in Sessions, Working(s)'
  PROVE  \/ /\ Working(s) /\ Id(s)' = Id(s)
            /\ Owner(s)' = Owner(s) /\ Row(s).amount' = Row(s).amount
         \/ /\ Id(s)' \in Stored
            /\ Owner(s)' = topups[Id(s)'].merchant /\ Row(s).amount' = topups[Id(s)'].amount
<1> USE DEF Inv
<1>1. CASE calls'[s] = calls[s]
  BY <1>1 DEF Working, Id, Owner, Row
<1>2. CASE calls'[s] # calls[s]
  <2>1. calls' # [r \in Sessions |-> Idle] /\ ~Return(s)
    BY DEF Working, Idle, Return, TypeOK
  <2>2. Serve(s)
    <3>1. \E r \in Sessions : Serve(r)
      BY <1>2, <2>1 DEF Next, Crash, Quiet, vars
    <3>2. ASSUME NEW r \in Sessions, Serve(r), r # s PROVE calls'[s] = calls[s]
      BY <3>2 DEF Serve, RequestTopUp, InsertTopUp, AdminSucceed, AdminFail, FindWallet, CreateWallet,
                  CreditWallet, SaveSuccess, UndoCredit, UndoCreated, SaveFailed, MarkSuccess,
                  Begin, GoTo, Return, TypeOK
    <3> QED
      BY <1>2, <3>1, <3>2
  <2>3. ASSUME NEW step, NEW t, NEW row, Begin(s, step, t, row)
        PROVE  calls'[s].step = step /\ Id(s)' = t /\ Owner(s)' = row.merchant /\ Row(s).amount' = row.amount
    BY <2>3 DEF Begin, Id, Owner, Row, TypeOK
  <2>4. ASSUME NEW t \in TopUpIds, AdminSucceed(s, t) \/ AdminFail(s, t)
        PROVE  Id(s)' = t /\ t \in Stored /\ Owner(s)' = topups[t].merchant /\ Row(s).amount' = topups[t].amount
    <3>1. t \in Stored /\ topups[t] \in TopUp
      BY <2>4, StoredRow DEF AdminSucceed, AdminFail
    <3>2. CASE AdminSucceed(s, t)
      BY <2>3, <3>1, <3>2 DEF AdminSucceed
    <3>3. CASE AdminFail(s, t)
      <4> DEFINE row == [topups[t] EXCEPT !.status = "FAILED"]
      <4>1. row.merchant = topups[t].merchant /\ row.amount = topups[t].amount
        BY <3>1 DEF TopUp
      <4>2. Begin(s, "saveFailed", t, row)
        BY <3>3 DEF AdminFail
      <4> HIDE DEF row
      <4> QED
        BY <2>3, <3>1, <4>1, <4>2
    <3> QED
      BY <2>4, <3>2, <3>3
  <2>5. ASSUME NEW t \in TopUpIds, NEW m \in Merchants, NEW a \in Amounts, NEW k \in Keys, RequestTopUp(s, t, m, a, k)
        PROVE  FALSE
    BY <2>3, <2>5 DEF RequestTopUp, Working
  <2>6. ASSUME NEW step, GoTo(s, step), calls[s] \in Call
        PROVE  Id(s)' = Id(s) /\ Owner(s)' = Owner(s) /\ Row(s).amount' = Row(s).amount
    BY <2>6 DEF GoTo, Call, Id, Owner, Row, TypeOK
  <2>7. ASSUME NEW base, NEW created, MarkSuccess(s, base, created), calls[s] \in Call
        PROVE  Id(s)' = Id(s) /\ Owner(s)' = Owner(s) /\ Row(s).amount' = Row(s).amount
    <3> DEFINE c == [calls[s] EXCEPT !.step = "credit", !.row.status = "SUCCESS",
                                     !.base = base, !.created = created]
    <3>1. c.id = calls[s].id /\ c.row.merchant = calls[s].row.merchant /\ c.row.amount = calls[s].row.amount
      BY <2>7 DEF Call, TopUp
    <3>2. calls' = [calls EXCEPT ![s] = c]
      BY <2>1, <2>7 DEF MarkSuccess
    <3> HIDE DEF c
    <3> QED
      BY <3>1, <3>2 DEF Id, Owner, Row, TypeOK
  <2>8. CASE FindWallet(s) \/ CreateWallet(s) \/ CreditWallet(s) \/ SaveSuccess(s) \/ UndoCredit(s)
    <3>1. Working(s) /\ calls[s] \in Call
      BY <2>8, CallType DEF FindWallet, CreateWallet, CreditWallet, SaveSuccess, UndoCredit, Working, At, Steps
    <3>2. (\E step : GoTo(s, step)) \/ (\E base, created : MarkSuccess(s, base, created))
      BY <2>1, <2>8 DEF FindWallet, CreateWallet, CreditWallet, SaveSuccess, UndoCredit
    <3> QED
      BY <2>6, <2>7, <3>1, <3>2
  <2> QED
    BY <2>1, <2>2, <2>4, <2>5, <2>8 DEF Serve, InsertTopUp, UndoCreated, SaveFailed
<1> QED
  BY <1>1, <1>2

LEMMA RowMatchesInit == Init => RowMatches
BY DEF Init, RowMatches, Working, Idle

LEMMA RowMatchesStep ==
  ASSUME Inv, RowMatches, [Next]_vars
  PROVE  RowMatches'
<1> SUFFICES ASSUME NEW s \in Sessions, Working(s)'
             PROVE  (topups[Id(s)].merchant = Owner(s) /\ topups[Id(s)].amount = Row(s).amount)'
  BY DEF RowMatches
<1>1. Working(s) => Id(s) \in Stored
  BY DEF Inv, IdsOwned, Working
<1> QED
  BY <1>1, RowsKeep, CallMoves DEF RowMatches

-----------------------------------------------------------------------------
(* While the faults are gentle, the balances and the statuses are known    *)
(* exactly: what was acknowledged, except between the two saves of a       *)
(* settlement and until its rollback.                                      *)

Unsettled == {"saveSuccess", "undo", "undoCreated"}

ExactCall(s) ==
  /\ calls[s].step \in Unsettled => calls[s].base = acked[Owner(s)]
  /\ At(s, "undo") => HasWallet(Owner(s))
  /\ At(s, "undo") \/ At(s, "undoCreated") => faults.count # 0

ExactBalances ==
  \A m \in Merchants :
    (\A s \in Sessions : At(s, "saveSuccess") \/ At(s, "undo") => Owner(s) # m) => Balance(m) = acked[m]

ExactStatuses == {t \in Stored : topups[t].status = "SUCCESS"} = succeeded

Exact == Gentle => (\A s \in Sessions : ExactCall(s)) /\ ExactBalances /\ ExactStatuses

-----------------------------------------------------------------------------
LEMMA ExactInit == Init => Fresh /\ Exact
<1> SUFFICES ASSUME Init PROVE Fresh /\ Exact
  OBVIOUS
<1>1. Fresh
  BY DEF Init, NoFaults, Fresh, Gentle
<1>2. \A s \in Sessions : ExactCall(s)
  BY DEF Init, ExactCall, Unsettled, At, Idle
<1>3. ExactBalances
  BY DEF Init, ExactBalances, Balance, HasWallet
<1>4. ExactStatuses
  BY DEF Init, ExactStatuses, Stored
<1> QED
  BY <1>1, <1>2, <1>3, <1>4 DEF Exact

(* A step that leaves the tables and the history alone and is not the end  *)
(* of a settlement.                                                        *)
LEMMA ExactTablesKept ==
  ASSUME OneAtATime, Inv, Gentle, Exact, UNCHANGED <<wallets, topups, acked, succeeded>>,
         NEW s \in Sessions, calls[s].step \notin {"saveSuccess", "undo"}, calls'[s].step \notin Unsettled
  PROVE  Exact'
<1>1. ExactCall(s)'
  BY DEF ExactCall, At, Unsettled
<1>2. ExactBalances'
  BY DEF OneAtATime, Exact, ExactBalances, Balance, HasWallet, At
<1>3. ExactStatuses'
  BY DEF Exact, ExactStatuses, Stored
<1> QED
  BY <1>1, <1>2, <1>3 DEF OneAtATime, Exact

LEMMA ReturnStep ==
  ASSUME Inv, NEW s \in Sessions, Return(s)
  PROVE  calls'[s].step \notin Unsettled /\ calls'[s].step = "idle"
BY DEF Inv, TypeOK, Return, Idle, Unsettled

LEMMA BeginsExact ==
  ASSUME OneAtATime, Inv, Exact, Fresh, Gentle', NEW s \in Sessions,
         NEW t \in TopUpIds, NEW m \in Merchants, NEW a \in Amounts, NEW k \in Keys,
         RequestTopUp(s, t, m, a, k) \/ AdminSucceed(s, t) \/ AdminFail(s, t)
  PROVE  Exact'
<1>1. UNCHANGED <<wallets, topups, acked, succeeded>> /\ At(s, "idle")
  BY DEF RequestTopUp, AdminSucceed, AdminFail, history
<1>2. Gentle
  <2>1. UNCHANGED faults \/ \E r \in Replies : Reply(r)
    BY DEF RequestTopUp, AdminSucceed, AdminFail
  <2> QED
    BY <2>1, ReplyGentle DEF Gentle, Inv, TypeOK
<1>3. calls'[s].step \in {"insert", "findWallet", "saveFailed"}
  <2>1. ASSUME NEW step, NEW u, NEW row, Begin(s, step, u, row) PROVE calls'[s].step = step
    BY <2>1 DEF Begin, Inv, TypeOK
  <2> QED
    BY <2>1 DEF RequestTopUp, AdminSucceed, AdminFail
<1> QED
  BY <1>1, <1>2, <1>3, ExactTablesKept DEF At, Unsettled

LEMMA InsertExact ==
  ASSUME OneAtATime, Inv, Exact, Fresh, Gentle', NEW s \in Sessions, InsertTopUp(s)
  PROVE  Exact'
<1>1. At(s, "insert") /\ Return(s) /\ UNCHANGED <<wallets, acked, succeeded>>
  BY DEF InsertTopUp, history
<1>2. PICK r \in Replies :
        /\ Reply(r)
        /\ topups' = IF Executed(r) THEN TopUpCreate(Id(s), Row(s)) ELSE topups
  BY DEF InsertTopUp
<1>3. Gentle
  BY <1>2, ReplyGentle DEF Inv, TypeOK
<1>4. Id(s) \notin Stored /\ Id(s) \in TopUpIds /\ Row(s).status = "PENDING"
  BY <1>1, CallType DEF Inv, IdsOwned, ModelMatchesStep, Steps
<1>5. topups' = topups \/ topups' = [topups EXCEPT ![Id(s)] = Row(s)]
  BY <1>2 DEF TopUpCreate
<1>6. ExactStatuses'
  BY <1>1, <1>3, <1>4, <1>5 DEF Exact, ExactStatuses, Stored, Inv, TypeOK
<1>7. ExactBalances'
  BY <1>1, <1>3, ReturnStep DEF OneAtATime, Exact, ExactBalances, Balance, HasWallet, At
<1>8. ExactCall(s)'
  BY <1>1, ReturnStep DEF ExactCall, At
<1> QED
  BY <1>6, <1>7, <1>8 DEF OneAtATime, Exact

LEMMA MarkSuccessStep ==
  ASSUME Inv, NEW s \in Sessions, NEW base, NEW created, MarkSuccess(s, base, created), calls[s] \in Call
  PROVE  calls'[s].step \in {"idle", "credit"}
<1> DEFINE c == [calls[s] EXCEPT !.step = "credit", !.row.status = "SUCCESS",
                                 !.base = base, !.created = created]
<1>1. c.step = "credit"
  BY DEF Call
<1>2. Return(s) \/ calls' = [calls EXCEPT ![s] = c]
  BY DEF MarkSuccess
<1> HIDE DEF c
<1> QED
  BY <1>1, <1>2, ReturnStep DEF Inv, TypeOK

LEMMA FindWalletExact ==
  ASSUME OneAtATime, Inv, Exact, Fresh, Gentle', NEW s \in Sessions, FindWallet(s)
  PROVE  Exact'
<1>1. At(s, "findWallet") /\ UNCHANGED <<wallets, topups, acked, succeeded>>
  BY DEF FindWallet, history
<1>2. PICK r \in Replies :
        /\ Reply(r)
        /\ \/ Return(s)
           \/ MarkSuccess(s, wallets[Owner(s)], FALSE)
           \/ GoTo(s, "createWallet")
  BY DEF FindWallet
<1>3. Gentle
  BY <1>2, ReplyGentle DEF Inv, TypeOK
<1>4. calls[s] \in Call
  BY <1>1, CallType DEF Inv, Steps
<1>5. calls'[s].step \in {"idle", "credit", "createWallet"}
  <2>1. GoTo(s, "createWallet") => calls'[s].step = "createWallet"
    BY <1>4 DEF GoTo, Call, Inv, TypeOK
  <2> QED
    BY <1>2, <1>4, <2>1, ReturnStep, MarkSuccessStep
<1> QED
  BY <1>1, <1>3, <1>5, ExactTablesKept DEF At, Unsettled

(* A wallet that is created holds 0, as did the one that was not there.    *)
LEMMA CreateWalletExact ==
  ASSUME OneAtATime, Inv, Exact, Fresh, Gentle', NEW s \in Sessions, CreateWallet(s)
  PROVE  Exact'
<1>1. At(s, "createWallet") /\ UNCHANGED <<topups, acked, succeeded>>
  BY DEF CreateWallet, history
<1>2. PICK r \in Replies :
        /\ Reply(r)
        /\ MarkSuccess(s, 0, TRUE) \/ Return(s)
        /\ wallets' = IF Executed(r) THEN WalletCreate(Owner(s)) ELSE wallets
  BY DEF CreateWallet
<1>3. Gentle
  BY <1>2, ReplyGentle DEF Inv, TypeOK
<1>4. calls[s] \in Call /\ Owner(s) \in Merchants
  BY <1>1, CallType DEF Inv, Steps
<1>5. calls'[s].step \in {"idle", "credit"}
  BY <1>2, <1>4, ReturnStep, MarkSuccessStep
<1>6. \A m \in Merchants : Balance(m)' = Balance(m)
  BY <1>2, <1>4, WalletAssumption DEF Balance, HasWallet, WalletCreate, Inv, TypeOK, WalletsTypeOK
<1>7. ExactBalances'
  BY <1>1, <1>3, <1>6 DEF OneAtATime, Exact, ExactBalances, At
<1>8. ExactStatuses'
  BY <1>1, <1>3 DEF Exact, ExactStatuses, Stored
<1>9. ExactCall(s)'
  BY <1>5 DEF ExactCall, At, Unsettled
<1> QED
  BY <1>7, <1>8, <1>9 DEF OneAtATime, Exact

LEMMA CreditWalletExact ==
  ASSUME OneAtATime, Inv, SerialInv, Exact, Fresh, Gentle', NEW s \in Sessions, CreditWallet(s)
  PROVE  Exact'
<1> DEFINE sum == AddInt64(calls[s].base, Row(s).amount)
<1>1. At(s, "credit") /\ UNCHANGED <<topups, acked, succeeded>>
  BY DEF CreditWallet
<1>2. PICK r \in Replies :
        /\ Reply(r)
        /\ IF r = "ok" THEN GoTo(s, "saveSuccess") ELSE Return(s)
        /\ \/ Executed(r) /\ wallets' = WalletSave(Owner(s), sum)
           \/ ~Executed(r) /\ UNCHANGED wallets
  BY DEF CreditWallet
<1>3. Gentle /\ (r = "ok" \/ r = "lost")
  BY <1>2, ReplyGentle DEF Inv, TypeOK
<1>4. calls[s] \in Call /\ Owner(s) \in Merchants
  BY <1>1, CallType DEF Inv, Steps
<1>5. calls[s].base = acked[Owner(s)] /\ HasWallet(Owner(s))
  BY <1>1, <1>3, <1>4 DEF OneAtATime, SerialInv, Knows, At, Exact, ExactBalances, Balance
<1>6. ExactStatuses'
  BY <1>1, <1>3 DEF Exact, ExactStatuses, Stored
<1>7. CASE r = "lost"
  BY <1>1, <1>2, <1>3, <1>7, ReturnStep, ExactTablesKept DEF Executed, At
<1>8. CASE r = "ok"
  <2>1. /\ calls'[s].step = "saveSuccess" /\ calls'[s].row = calls[s].row
        /\ calls'[s].base = calls[s].base
    BY <1>2, <1>4, <1>8 DEF GoTo, Call, Inv, TypeOK
  <2>2. ExactCall(s)'
    BY <1>1, <1>5, <2>1 DEF ExactCall, At, Owner
  <2>3. \A m \in Merchants \ {Owner(s)} : wallets'[m] = wallets[m]
    BY <1>2, <1>4 DEF WalletSave, Inv, TypeOK, WalletsTypeOK
  <2>4. ExactBalances'
    BY <1>1, <1>3, <2>1, <2>3 DEF OneAtATime, Exact, ExactBalances, Balance, HasWallet, At, Owner
  <2> QED
    BY <1>6, <2>2, <2>4 DEF OneAtATime, Exact
<1> QED
  BY <1>3, <1>7, <1>8

LEMMA SaveSuccessExact ==
  ASSUME OneAtATime, Inv, SerialInv, Exact, Fresh, Gentle', NEW s \in Sessions, SaveSuccess(s)
  PROVE  Exact'
<1>1. At(s, "saveSuccess") /\ UNCHANGED wallets
  BY DEF SaveSuccess
<1>2. PICK r \in Replies :
        /\ Reply(r)
        /\ topups' = IF Executed(r) THEN TopUpSave(Id(s), Row(s).status) ELSE topups
        /\ \/ /\ r = "ok" /\ Return(s)
              /\ acked' = [acked EXCEPT ![Owner(s)] = @ + Row(s).amount]
              /\ succeeded' = succeeded \cup {Id(s)}
           \/ r # "ok" /\ GoTo(s, "undo") /\ UNCHANGED <<acked, succeeded>>
  BY DEF SaveSuccess
<1>3. Gentle /\ (r = "ok" \/ (r = "lost" /\ faults'.count = 1))
  BY <1>2, ReplyGentle DEF Inv, TypeOK
<1>4. /\ calls[s] \in Call /\ Owner(s) \in Merchants /\ Row(s).amount \in Amount64
      /\ Id(s) \in Stored /\ Id(s) \in TopUpIds /\ topups[Id(s)] \in TopUp /\ Row(s).status = "SUCCESS"
  BY <1>1, CallType, StoredRow DEF Inv, IdsOwned, ModelMatchesStep, Steps, At
<1>5. /\ calls[s].base = acked[Owner(s)]
      /\ HasWallet(Owner(s)) /\ wallets[Owner(s)] = calls[s].base + Row(s).amount
  BY <1>1, <1>3 DEF SerialInv, Knows, At, Exact, ExactCall, Unsettled
<1>6. CASE r = "lost"
  <2>1. /\ calls'[s].step = "undo" /\ calls'[s].row = calls[s].row /\ calls'[s].base = calls[s].base
    BY <1>2, <1>4, <1>6 DEF GoTo, Call, Inv, TypeOK
  <2>2. UNCHANGED <<topups, acked, succeeded>>
    BY <1>2, <1>6 DEF Executed
  <2>3. ExactCall(s)'
    BY <1>1, <1>3, <1>5, <1>6, <2>1, <2>2 DEF ExactCall, At, Owner, HasWallet
  <2>4. ExactBalances'
    BY <1>1, <1>3, <2>1, <2>2 DEF OneAtATime, Exact, ExactBalances, Balance, HasWallet, At, Owner
  <2>5. ExactStatuses'
    BY <1>3, <2>2 DEF Exact, ExactStatuses, Stored
  <2> QED
    BY <2>3, <2>4, <2>5 DEF OneAtATime, Exact
<1>7. CASE r = "ok"
  <2>1. /\ Return(s) /\ topups' = TopUpSave(Id(s), "SUCCESS")
        /\ acked' = [acked EXCEPT ![Owner(s)] = @ + Row(s).amount]
        /\ succeeded' = succeeded \cup {Id(s)}
    BY <1>2, <1>4, <1>7 DEF Executed
  <2>2. ExactCall(s)'
    BY <2>1, ReturnStep DEF ExactCall, At
  <2>3. ASSUME NEW m \in Merchants, m = Owner(s) PROVE Balance(m)' = acked'[m]
    BY <1>1, <1>4, <1>5, <2>1, <2>3 DEF Balance, HasWallet, Inv, TypeOK
  <2>4. ASSUME NEW m \in Merchants, m # Owner(s) PROVE Balance(m)' = acked'[m]
    BY <1>1, <1>3, <2>1, <2>4 DEF OneAtATime, Exact, ExactBalances, Balance, HasWallet, Inv, TypeOK
  <2>5. ExactBalances'
    BY <2>3, <2>4 DEF ExactBalances
  <2>6. Stored' = Stored
    BY <1>1, <1>4, <2>1, TopUpSaveKeeps DEF SaveSuccess, TopUpStatus, Inv, ModelMatchesStep
  <2>7. ExactStatuses'
    BY <1>3, <1>4, <2>1, <2>6 DEF Exact, ExactStatuses, TopUpSave, Inv, TypeOK, TopUp, Stored
  <2> QED
    BY <2>2, <2>5, <2>7 DEF OneAtATime, Exact
<1> QED
  BY <1>3, <1>6, <1>7

(* The rollback restores what was acknowledged: after one fault its calls  *)
(* succeed.                                                                *)
LEMMA UndoCreditExact ==
  ASSUME OneAtATime, Inv, SerialInv, Exact, Fresh, Gentle', NEW s \in Sessions, UndoCredit(s)
  PROVE  Exact'
<1>1. At(s, "undo") /\ UNCHANGED <<topups, acked, succeeded>>
  BY DEF UndoCredit, history
<1>2. PICK r \in Replies :
        /\ Reply(r)
        /\ wallets' = IF Executed(r) THEN WalletSave(Owner(s), calls[s].base) ELSE wallets
  BY DEF UndoCredit
<1>3. Gentle /\ r = "ok" /\ faults' = faults /\ faults.count # 0
  BY <1>1, <1>2, ReplyGentle DEF Inv, TypeOK, Exact, ExactCall
<1>4. calls[s] \in Call /\ Owner(s) \in Merchants /\ calls[s].base \in Int64
  BY <1>1, CallType DEF Inv, Steps
<1>5. calls[s].base = acked[Owner(s)] /\ HasWallet(Owner(s)) /\ calls[s].base # NoWallet
  BY <1>1, <1>3, <1>4, WalletAssumption DEF Exact, ExactCall, Unsettled, At, Int64
<1>6. wallets' = [wallets EXCEPT ![Owner(s)] = acked[Owner(s)]]
  BY <1>2, <1>3, <1>5 DEF Executed, WalletSave
<1>7. ASSUME NEW m \in Merchants, m = Owner(s) PROVE Balance(m)' = acked'[m]
  BY <1>1, <1>4, <1>5, <1>6, <1>7 DEF Balance, HasWallet, Inv, TypeOK, WalletsTypeOK
<1>8. ASSUME NEW m \in Merchants, m # Owner(s) PROVE Balance(m)' = acked'[m]
  BY <1>1, <1>3, <1>6, <1>8 DEF OneAtATime, Exact, ExactBalances, Balance, HasWallet, Inv, TypeOK, WalletsTypeOK
<1>9. ExactBalances'
  BY <1>7, <1>8 DEF ExactBalances
<1>10. ExactStatuses'
  BY <1>1, <1>3 DEF Exact, ExactStatuses, Stored
<1>11. ExactCall(s)'
  <2>1. CASE Return(s)
    BY <2>1, ReturnStep DEF ExactCall, At
  <2>2. CASE GoTo(s, "undoCreated")
    <3>1. /\ calls'[s].step = "undoCreated" /\ calls'[s].row = calls[s].row /\ calls'[s].base = calls[s].base
      BY <1>4, <2>2 DEF GoTo, Call, Inv, TypeOK
    <3> QED
      BY <1>1, <1>3, <1>5, <3>1 DEF ExactCall, At, Owner
  <2> QED
    BY <2>1, <2>2 DEF UndoCredit
<1> QED
  BY <1>9, <1>10, <1>11 DEF OneAtATime, Exact

LEMMA UndoCreatedExact ==
  ASSUME OneAtATime, Inv, SerialInv, Exact, Fresh, Gentle', NEW s \in Sessions, UndoCreated(s)
  PROVE  Exact'
<1>1. At(s, "undoCreated") /\ Return(s) /\ UNCHANGED <<topups, acked, succeeded>>
  BY DEF UndoCreated, history
<1>2. PICK r \in Replies :
        /\ Reply(r)
        /\ wallets' = IF Executed(r) THEN WalletSave(Owner(s), 0) ELSE wallets
  BY DEF UndoCreated
<1>3. Gentle
  BY <1>2, ReplyGentle DEF Inv, TypeOK
<1>4. Owner(s) \in Merchants /\ acked[Owner(s)] = 0
  BY <1>1, CallType DEF Inv, Steps, SerialInv, Knows, At
<1>5. \A m \in Merchants : Balance(m) = acked[m]
  BY <1>1, <1>3 DEF OneAtATime, Exact, ExactBalances, At
<1>6. \A m \in Merchants : Balance(m)' = acked'[m]
  BY <1>1, <1>2, <1>4, <1>5, WalletAssumption DEF Balance, HasWallet, WalletSave, Inv, TypeOK, WalletsTypeOK
<1>7. ExactStatuses'
  BY <1>1, <1>3 DEF Exact, ExactStatuses, Stored
<1>8. ExactCall(s)'
  BY <1>1, ReturnStep DEF ExactCall, At
<1> QED
  BY <1>6, <1>7, <1>8 DEF OneAtATime, Exact, ExactBalances

LEMMA SaveFailedExact ==
  ASSUME OneAtATime, Inv, SerialInv, Exact, Fresh, Gentle', NEW s \in Sessions, SaveFailed(s)
  PROVE  Exact'
<1>1. At(s, "saveFailed") /\ Return(s) /\ UNCHANGED <<wallets, acked, credited, succeeded>>
  BY DEF SaveFailed, history
<1>2. PICK r \in Replies :
        /\ Reply(r)
        /\ topups' = IF Executed(r) THEN TopUpSave(Id(s), Row(s).status) ELSE topups
  BY DEF SaveFailed
<1>3. Gentle
  BY <1>2, ReplyGentle DEF Inv, TypeOK
<1>4. /\ Id(s) \in Stored /\ Id(s) \in TopUpIds /\ topups[Id(s)] \in TopUp /\ Row(s).status = "FAILED"
      /\ topups[Id(s)].status # "SUCCESS"
  BY <1>1, StoredRow DEF Inv, IdsOwned, ModelMatchesStep, SerialInv, Knows, At
<1>5. topups' = TopUpSave(Id(s), "FAILED") \/ topups' = topups
  BY <1>2, <1>4
<1>6. Stored' = Stored
  BY <1>1, <1>4, <1>5, TopUpSaveKeeps DEF TopUpStatus
<1>7. ExactStatuses'
  BY <1>1, <1>3, <1>4, <1>5, <1>6 DEF Exact, ExactStatuses, TopUpSave, Inv, TypeOK, TopUp, Stored
<1>8. ExactBalances'
  BY <1>1, <1>3 DEF OneAtATime, Exact, ExactBalances, Balance, HasWallet, At
<1>9. ExactCall(s)'
  BY <1>1, ReturnStep DEF ExactCall, At
<1> QED
  BY <1>7, <1>8, <1>9 DEF OneAtATime, Exact

LEMMA ExactStep ==
  ASSUME OneAtATime, Roomy, Inv, SerialInv, Fresh, Exact, [Next]_vars
  PROVE  Fresh' /\ Exact'
<1>1. Fresh' /\ (Crash => ~Gentle')
  <2>1. faults \in FaultsSoFar
    BY DEF Inv, TypeOK
  <2>2. \/ UNCHANGED faults /\ ~Crash
        \/ CrashFault
        \/ (\E r \in Replies : Reply(r)) /\ ~Crash
    BY DEF Next, Serve, Crash, Quiet, vars, RequestTopUp, InsertTopUp, AdminSucceed, AdminFail, FindWallet,
           CreateWallet, CreditWallet, SaveSuccess, UndoCredit, UndoCreated, SaveFailed
  <2>3. CASE UNCHANGED faults /\ ~Crash
    BY <2>3 DEF Fresh, Gentle
  <2> QED
    BY <2>1, <2>2, <2>3, ReplyFresh, CrashNotGentle
<1>2. SUFFICES ASSUME Gentle' PROVE Exact'
  BY <1>1 DEF Exact
<1>3. ASSUME NEW s \in Sessions, Serve(s) PROVE Exact'
  <2>1. CASE \E t \in TopUpIds, m \in Merchants, a \in Amounts, k \in Keys :
               RequestTopUp(s, t, m, a, k)
    BY <1>2, <2>1, BeginsExact
  <2>2. CASE \E t \in TopUpIds : AdminSucceed(s, t) \/ AdminFail(s, t)
    <3>1. PICK t \in TopUpIds : AdminSucceed(s, t) \/ AdminFail(s, t)
      BY <2>2
    <3>2. topups[t] \in TopUp
      BY <3>1, StoredRow DEF AdminSucceed, AdminFail, Inv
    <3>3. topups[t].merchant \in Merchants /\ topups[t].amount \in Amounts /\ topups[t].key \in Keys
      BY <3>2 DEF TopUp
    <3> QED
      BY <1>2, <3>1, <3>3, BeginsExact
  <2>3. CASE InsertTopUp(s)
    BY <1>2, <2>3, InsertExact
  <2>4. CASE FindWallet(s) \/ CreateWallet(s)
    BY <1>2, <2>4, FindWalletExact, CreateWalletExact
  <2>5. CASE CreditWallet(s) \/ SaveSuccess(s)
    BY <1>2, <2>5, CreditWalletExact, SaveSuccessExact
  <2>6. CASE UndoCredit(s) \/ UndoCreated(s) \/ SaveFailed(s)
    BY <1>2, <2>6, UndoCreditExact, UndoCreatedExact, SaveFailedExact
  <2> QED
    BY <1>3, <2>1, <2>2, <2>3, <2>4, <2>5, <2>6 DEF Serve
<1>4. CASE UNCHANGED vars
  <2>1. Gentle /\ UNCHANGED <<faults, wallets, topups, calls, acked, succeeded>>
    BY <1>2, <1>4 DEF vars, Gentle
  <2>2. \A s \in Sessions : ExactCall(s)'
    BY <2>1 DEF Exact, ExactCall, At, Owner, HasWallet
  <2>3. ExactBalances'
    BY <2>1 DEF Exact, ExactBalances, Balance, HasWallet, At, Owner
  <2>4. ExactStatuses'
    BY <2>1 DEF Exact, ExactStatuses, Stored
  <2> QED
    BY <2>2, <2>3, <2>4 DEF Exact
<1> QED
  BY <1>1, <1>2, <1>3, <1>4 DEF Next, Quiet

LEMMA ExactInvariance ==
  ASSUME OneAtATime, Roomy PROVE Spec => [](Inv /\ SerialInv /\ RowMatches /\ Fresh /\ Exact)
<1>1. Init => Inv /\ SerialInv /\ RowMatches /\ Fresh /\ Exact
  BY InitInv, SerialInit, RowMatchesInit, ExactInit
<1>2. (Inv /\ SerialInv /\ RowMatches /\ Fresh /\ Exact) /\ [Next]_vars => (Inv /\ SerialInv /\ RowMatches /\ Fresh /\ Exact)'
  BY StepInv, SerialStep, RowMatchesStep, ExactStep
<1> QED
  BY <1>1, <1>2, PTL DEF Spec

(* "atomic topup flow": served one at a time, with at most one call that   *)
(* fails and fails before it took effect, a settlement happens entirely or *)
(* leaves no trace once its rollback is done.                              *)
THEOREM SerialAllOrNothing ==
  ASSUME OneAtATime, Roomy PROVE Spec => []AllOrNothing
<1>1. Exact => AllOrNothing
  BY DEF Exact, ExactBalances, ExactStatuses, AllOrNothing, At
<1> QED
  BY <1>1, ExactInvariance, PTL

-----------------------------------------------------------------------------
(* The service implements the ledger: as long as the faults are gentle,    *)
(* the ledger's balance is what was acknowledged.                          *)

LEMMA LedgerBalanceAcked ==
  ASSUME Inv, Exact, Gentle
  PROVE  LedgerBalance = acked
<1> DEFINE unsettled(m) == {s \in Sessions : calls[s].step \in Unsettled /\ Owner(s) = m}
<1>1. LedgerBalance = [m \in Merchants |-> IF unsettled(m) = {} THEN Balance(m)
                                           ELSE calls[CHOOSE s \in unsettled(m) : TRUE].base]
  BY DEF LedgerBalance, Unsettled
<1>2. ASSUME NEW m \in Merchants, unsettled(m) = {} PROVE Balance(m) = acked[m]
  BY <1>2 DEF Exact, ExactBalances, Unsettled, At
<1>3. ASSUME NEW m \in Merchants, NEW s \in unsettled(m) PROVE calls[s].base = acked[m]
  BY <1>3 DEF Exact, ExactCall
<1> HIDE DEF unsettled
<1>4. ASSUME NEW m \in Merchants, unsettled(m) # {} PROVE calls[CHOOSE s \in unsettled(m) : TRUE].base = acked[m]
  BY <1>3, <1>4
<1>5. LedgerBalance = [m \in Merchants |-> acked[m]]
  BY <1>1, <1>2, <1>4
<1> QED
  BY <1>5 DEF Inv, TypeOK

LEMMA LedgerBalanceStep == (Inv /\ Exact /\ Gentle)' => LedgerBalance' = acked'
<1> DEFINE Equal == LedgerBalance = acked
<1>1. Inv /\ Exact /\ Gentle => Equal
  BY LedgerBalanceAcked
<1> HIDE DEF Equal
<1>2. (Inv /\ Exact /\ Gentle)' => Equal'
  BY <1>1, PTL
<1> QED
  BY <1>2 DEF Equal

LEMMA LedgerInit == Init => Ledger!Init
<1> SUFFICES ASSUME Init PROVE Ledger!Init
  OBVIOUS
<1>1. Gentle = TRUE
  BY DEF Init, NoFaults, Gentle
<1>2. LedgerBalance = acked
  BY <1>1, InitInv, ExactInit, LedgerBalanceAcked
<1> QED
  BY <1>1, <1>2 DEF Init, Ledger!Init

(* Saving SUCCESS settles, saving FAILED declines, the INSERT opens, and   *)
(* every other step changes nothing of the ledger.                         *)
LEMMA LedgerStep ==
  ASSUME OneAtATime, Roomy, Inv, SerialInv, RowMatches, Fresh, Exact, [Next]_vars, Inv', Exact'
  PROVE  [Ledger!Next]_<<LedgerBalance, topups, Gentle>>
<1>1. Gentle \in BOOLEAN /\ Gentle' \in BOOLEAN
  BY DEF Inv, TypeOK, FaultsSoFar, Gentle
<1>2. CASE ~Gentle'
  BY <1>1, <1>2 DEF Ledger!Next, Ledger!Break
<1>3. CASE Gentle'
  <2>1. Gentle
    <3>1. \/ UNCHANGED faults
          \/ CrashFault
          \/ \E r \in Replies : Reply(r)
      BY DEF Next, Serve, Crash, Quiet, vars, RequestTopUp, InsertTopUp, AdminSucceed, AdminFail, FindWallet,
             CreateWallet, CreditWallet, SaveSuccess, UndoCredit, UndoCreated, SaveFailed
    <3> QED
      BY <1>3, <3>1, ReplyGentle, CrashNotGentle DEF Gentle, Inv, TypeOK
  <2>2. UNCHANGED Gentle
    BY <1>1, <1>3, <2>1
  <2>3. LedgerBalance = acked /\ LedgerBalance' = acked'
    BY <1>3, <2>1, LedgerBalanceAcked, LedgerBalanceStep
  <2>4. CASE UNCHANGED <<topups, acked>>
    BY <2>2, <2>3, <2>4
  <2>5. ASSUME NEW s \in Sessions, InsertTopUp(s), topups' # topups
        PROVE  Ledger!Next
    <3>1. topups' = [topups EXCEPT ![Id(s)] = Row(s)] /\ WithKey(Row(s).merchant, Row(s).key) = {} /\ UNCHANGED acked
      BY <2>5 DEF InsertTopUp, TopUpCreate, history
    <3>2. Id(s) \notin Stored /\ Id(s) \in TopUpIds /\ Row(s) \in TopUp /\ Row(s).status = "PENDING"
      BY <2>5, CallType DEF InsertTopUp, Inv, IdsOwned, ModelMatchesStep, Steps
    <3>3. topups'[Id(s)] = Row(s) /\ Row(s) # NoTopUp /\ topups[Id(s)] = NoTopUp
      BY <3>1, <3>2, NoTopUpIsNoRow DEF Inv, TypeOK, Stored
    <3>4. ASSUME NEW u \in TopUpIds \ {Id(s)}, topups[u] # NoTopUp
          PROVE  <<topups[u].merchant, topups[u].key>> # <<Row(s).merchant, Row(s).key>>
      BY <3>1, <3>4 DEF WithKey, Stored
    <3>5. Ledger!Open(Id(s))
      BY <2>2, <2>3, <3>1, <3>2, <3>3, <3>4 DEF Ledger!Open
    <3> QED
      BY <3>2, <3>5 DEF Ledger!Next
  <2>6. ASSUME NEW s \in Sessions, SaveSuccess(s), acked' # acked \/ topups' # topups
        PROVE  Ledger!Next
    <3>1. PICK r \in Replies :
            /\ Reply(r)
            /\ topups' = IF Executed(r) THEN TopUpSave(Id(s), Row(s).status) ELSE topups
            /\ \/ /\ r = "ok"
                  /\ acked' = [acked EXCEPT ![Owner(s)] = @ + Row(s).amount]
               \/ r # "ok" /\ UNCHANGED acked
      BY <2>6 DEF SaveSuccess
    <3>2. r = "ok"
      BY <1>3, <2>6, <3>1, ReplyGentle DEF Executed, Inv, TypeOK
    <3>3. /\ Id(s) \in Stored /\ Id(s) \in TopUpIds /\ Row(s).status = "SUCCESS"
          /\ topups[Id(s)].status # "FAILED"
          /\ topups[Id(s)].merchant = Owner(s) /\ topups[Id(s)].amount = Row(s).amount
      BY <2>6, StoredRow DEF SaveSuccess, Inv, IdsOwned, ModelMatchesStep, SerialInv, Knows, RowMatches, Working, At
    <3>4. Ledger!Settle(Id(s))
      BY <2>2, <2>3, <3>1, <3>2, <3>3 DEF Ledger!Settle, Executed, TopUpSave, Stored
    <3> QED
      BY <3>3, <3>4 DEF Ledger!Next
  <2>7. ASSUME NEW s \in Sessions, SaveFailed(s), topups' # topups
        PROVE  Ledger!Next
    <3>1. topups' = TopUpSave(Id(s), Row(s).status) /\ UNCHANGED acked
      BY <2>7 DEF SaveFailed, history
    <3>2. Id(s) \in Stored /\ topups[Id(s)] \in TopUp /\ Row(s).status = "FAILED" /\ topups[Id(s)].status # "SUCCESS"
      BY <2>7, StoredRow DEF SaveFailed, Inv, IdsOwned, ModelMatchesStep, SerialInv, Knows, At
    <3>3. topups[Id(s)].status # "FAILED"
      <4>1. SUFFICES ASSUME topups[Id(s)].status = "FAILED" PROVE FALSE
        OBVIOUS
      <4>2. [topups[Id(s)] EXCEPT !.status = "FAILED"] = topups[Id(s)]
        BY <3>2, <4>1 DEF TopUp
      <4> QED
        BY <2>7, <3>1, <3>2, <4>2 DEF TopUpSave, Inv, TypeOK
    <3>4. topups[Id(s)].status = "PENDING"
      BY <3>2, <3>3 DEF TopUp, TopUpStatus
    <3>5. Ledger!Decline(Id(s))
      BY <2>2, <2>3, <3>1, <3>2, <3>4 DEF Ledger!Decline, TopUpSave, Stored
    <3> QED
      BY <3>2, <3>5 DEF Ledger!Next, Stored
  <2>8. \/ UNCHANGED <<topups, acked>>
        \/ \E s \in Sessions : /\ InsertTopUp(s) \/ SaveSuccess(s) \/ SaveFailed(s)
                               /\ acked' # acked \/ topups' # topups
    BY DEF Next, Serve, Crash, Quiet, vars, history, RequestTopUp, AdminSucceed, AdminFail, FindWallet,
           CreateWallet, CreditWallet, UndoCredit, UndoCreated
  <2>9. ASSUME NEW s \in Sessions, InsertTopUp(s) \/ SaveFailed(s) PROVE UNCHANGED acked
    BY <2>9 DEF InsertTopUp, SaveFailed, history
  <2> QED
    BY <2>4, <2>5, <2>6, <2>7, <2>8, <2>9
<1> QED
  BY <1>2, <1>3

(* Served one at a time, the reads, saves and rollbacks of the service     *)
(* implement the atomic ledger, in which a top-up is opened once per key   *)
(* and settled or declined in one step: the initial states are the         *)
(* ledger's, and every step is one of its steps or changes none of it, for *)
(* as long as the faults are gentle.                                       *)
THEOREM ServiceImplementsLedger ==
  ASSUME OneAtATime, Roomy PROVE Spec => LedgerSpec
<1> DEFINE Known == Inv /\ SerialInv /\ RowMatches /\ Fresh /\ Exact
<1>1. Known /\ Known' /\ [Next]_vars => [Ledger!Next]_<<LedgerBalance, topups, Gentle>>
  BY LedgerStep
<1>2. Spec => []Known
  BY ExactInvariance
<1> QED
  BY <1>1, <1>2, LedgerInit, PTL DEF Spec, LedgerSpec, Ledger!Spec
=============================================================================
