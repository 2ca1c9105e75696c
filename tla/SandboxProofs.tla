---------------------------- MODULE SandboxProofs ----------------------------
(***************************************************************************)
(* Proofs about Sandbox for every value of its constants.  What a step of  *)
(* either service does to the wallets, and to what was granted and         *)
(* answered for, is one of seven moves of the call the session is serving. *)
(* A wallet holds no more than was granted because every balance that was  *)
(* read did; and while no two requests met, it covers what was answered    *)
(* for because the only request under way knows the balance.               *)
(***************************************************************************)
EXTENDS Sandbox, RefundsProofs

AllGranted(m) == granted[m] + topupGranted[m]
AllAcked(m) == acked[m] + topupAcked[m]

(* The call a session is serving, of whichever service, and its merchant.  *)
CallOf(s) == IF At(s, "idle") THEN topupCalls[s] ELSE calls[s]
OwnerOf(s) == IF At(s, "idle") THEN topupCalls[s].row.merchant ELSE Issuer[calls[s].row.invoice]

OneService == \A s \in Sessions : At(s, "idle") \/ T!At(s, "idle")

(* A top-up under way works on a stored row.                               *)
TopUpsStored ==
  \A s \in Sessions : topupCalls[s].step \notin {"idle", "insert"} => topupCalls[s].id \in T!Stored

(* A balance that was read is at most what was granted since.              *)
Holding == {"credit", "saveSuccess", "undo"}

Backed(c, m) == c.step \in Holding => c.base <= AllGranted(m)

AllBacked == \A s \in Sessions : Backed(CallOf(s), OwnerOf(s))

(* What the only request under way knows about the wallet.                 *)
Fine(m) == AllGranted(m) <= MaxInt64

Knows(c, m) == c.step \in Settling /\ Fine(m) =>
  /\ c.step \in Holding => AllAcked(m) <= c.base /\ (c.created => c.base = 0)
  /\ c.step \in {"credit", "saveSuccess"} => HasWallet(m)
  /\ c.step = "saveSuccess" => wallets[m] = c.base + c.row.amount
  /\ c.step = "undoCreated" => AllAcked(m) <= 0

Covers(m) == Fine(m) => AllAcked(m) <= Balance(m)

NoneMet == /\ ~Overlapping
           /\ \A m \in Merchants : Covers(m)
           /\ \A s \in Sessions : Knows(CallOf(s), OwnerOf(s))

SharedInv ==
  /\ T!TypeOK
  /\ TopUpsStored
  /\ OneService
  /\ NothingMinted
  /\ AllBacked
  /\ overlapped \in BOOLEAN
  /\ ~overlapped => NoneMet

SandboxInv == Inv /\ BookInv /\ SharedInv

-----------------------------------------------------------------------------
(* The moves of a call c, which becomes d, for a merchant m.               *)

SumsStay == \A n \in Merchants : AllGranted(n)' = AllGranted(n) /\ AllAcked(n)' = AllAcked(n)

Idles(d) == d.step \notin Settling

(* A step before the credit, or after a call that failed.                  *)
Waits(d, m) == Idles(d) /\ SumsStay /\ wallets' \in {wallets, WalletCreate(m)}

(* The wallet was found or created.                                        *)
Reads(d, m) ==
  /\ d.step = "credit" /\ SumsStay
  /\ wallets' = WalletCreate(m)
  /\ d.base = wallets'[m] /\ (d.created => d.base = 0)

Keeping(c, d) == d.base = c.base /\ d.created = c.created /\ d.row.amount = c.row.amount

Credits(c, d, m) ==
  /\ c.step = "credit"
  /\ Idles(d) \/ (d.step = "saveSuccess" /\ Keeping(c, d))
  /\ wallets' = WalletSave(m, AddInt64(c.base, c.row.amount))
  /\ AllGranted(m)' = AllGranted(m) + c.row.amount
  /\ \A n \in Merchants \ {m} : AllGranted(n)' = AllGranted(n)
  /\ \A n \in Merchants : AllAcked(n)' = AllAcked(n)

Answers(c, d, m) ==
  /\ c.step = "saveSuccess" /\ Idles(d) /\ UNCHANGED wallets
  /\ AllAcked(m)' = AllAcked(m) + c.row.amount
  /\ \A n \in Merchants \ {m} : AllAcked(n)' = AllAcked(n)
  /\ \A n \in Merchants : AllGranted(n)' = AllGranted(n)

GivesUp(c, d) ==
  c.step = "saveSuccess" /\ d.step = "undo" /\ Keeping(c, d) /\ SumsStay /\ UNCHANGED wallets

RollsBack(c, d, m) ==
  /\ c.step = "undo" /\ SumsStay /\ wallets' \in {wallets, WalletSave(m, c.base)}
  /\ Idles(d) \/ (c.created /\ d.step = "undoCreated")

Empties(c, d, m) ==
  c.step = "undoCreated" /\ SumsStay /\ wallets' \in {wallets, WalletSave(m, 0)} /\ Idles(d)

Moves(c, d, m) ==
  \/ Waits(d, m)
  \/ Reads(d, m)
  \/ Credits(c, d, m)
  \/ Answers(c, d, m)
  \/ GivesUp(c, d)
  \/ RollsBack(c, d, m)
  \/ Empties(c, d, m)

Typed(c) == c.step \in Settling => c.base \in Int64 /\ c.row.amount \in Amount64

SumsType == \A n \in Merchants : AllGranted(n) \in Nat /\ AllAcked(n) \in Nat

-----------------------------------------------------------------------------
(* No move mints.                                                          *)

LEMMA OtherBalances ==
  ASSUME WalletsTypeOK, NEW m \in Merchants, NEW b,
         wallets' \in {wallets, [wallets EXCEPT ![m] = b]}
  PROVE  \A n \in Merchants \ {m} : Balance(n)' = Balance(n)
BY DEF WalletsTypeOK, Balance, HasWallet

LEMMA MovesOne ==
  ASSUME WalletsTypeOK, NEW m \in Merchants, NEW c, Typed(c), NEW d, Moves(c, d, m)
  PROVE  /\ WalletsTypeOK'
         /\ \A n \in Merchants \ {m} :
              Balance(n)' = Balance(n) /\ AllGranted(n)' = AllGranted(n) /\ AllAcked(n)' = AllAcked(n)
<1>1. \/ wallets' \in {wallets, WalletCreate(m)}
      \/ \E b \in Int64 : wallets' = WalletSave(m, b)
  BY ZeroIsInt64, AddInt64Bound
     DEF Moves, Waits, Reads, Credits, Answers, GivesUp, RollsBack, Empties, Typed, Settling
<1>2. \E b \in Int64 : wallets' \in {wallets, [wallets EXCEPT ![m] = b]}
  BY <1>1, ZeroIsInt64 DEF WalletCreate, WalletSave
<1>3. WalletsTypeOK' /\ \A n \in Merchants \ {m} : Balance(n)' = Balance(n)
  BY <1>2, OtherBalances DEF WalletsTypeOK
<1>4. \A n \in Merchants \ {m} : AllGranted(n)' = AllGranted(n) /\ AllAcked(n)' = AllAcked(n)
  BY DEF Moves, Waits, Reads, Credits, Answers, GivesUp, RollsBack, Empties, SumsStay
<1> QED
  BY <1>3, <1>4

(* What a move does to the balance of its merchant.                        *)
LEMMA MovesBalance ==
  ASSUME WalletsTypeOK, NEW m \in Merchants
  PROVE  /\ wallets' = wallets => Balance(m)' = Balance(m) /\ HasWallet(m)' = HasWallet(m)
         /\ wallets' = WalletCreate(m) => /\ Balance(m)' = Balance(m) /\ HasWallet(m)'
                                          /\ wallets'[m] = Balance(m)
         /\ \A b \in Int64 : wallets' = WalletSave(m, b) =>
              /\ Balance(m)' = IF HasWallet(m) THEN b ELSE Balance(m)
              /\ HasWallet(m) => HasWallet(m)' /\ wallets'[m] = b
<1>1. 0 # NoWallet /\ \A b \in Int64 : b # NoWallet
  BY WalletAssumption DEF Int64
<1> QED
  BY <1>1 DEF WalletsTypeOK, WalletCreate, WalletSave, Balance, HasWallet

LEMMA BalanceType ==
  ASSUME WalletsTypeOK, NEW m \in Merchants
  PROVE  Balance(m) \in Int /\ (HasWallet(m) => wallets[m] = Balance(m))
BY DEF WalletsTypeOK, Balance, HasWallet, Int64

LEMMA MovesMint ==
  ASSUME WalletsTypeOK, SumsType, NEW m \in Merchants, NEW c, Typed(c), NEW d, Moves(c, d, m),
         Balance(m) <= AllGranted(m), Backed(c, m)
  PROVE  /\ Balance(m)' <= AllGranted(m)' /\ Backed(d, m)'
         /\ AllGranted(m) <= AllGranted(m)' /\ AllGranted(m)' \in Nat
<1>1. AllGranted(m) \in Nat /\ AllAcked(m) \in Nat /\ Balance(m) \in Int
  BY BalanceType DEF SumsType
<1>2. CASE Waits(d, m)
  <2>1. Balance(m)' = Balance(m) /\ AllGranted(m)' = AllGranted(m)
    BY <1>2, MovesBalance DEF Waits, SumsStay
  <2> QED
    BY <1>1, <1>2, <2>1 DEF Waits, Idles, Backed, Holding, Settling
<1>3. CASE Reads(d, m)
  <2>1. Balance(m)' = Balance(m) /\ d.base = Balance(m) /\ AllGranted(m)' = AllGranted(m)
    BY <1>3, MovesBalance DEF Reads, SumsStay
  <2> QED
    BY <1>1, <2>1 DEF Backed
<1>4. CASE Credits(c, d, m)
  <2> DEFINE b == AddInt64(c.base, c.row.amount)
  <2>1. /\ c.base \in Int64 /\ c.row.amount \in Amount64 /\ c.base <= AllGranted(m)
        /\ AllGranted(m)' = AllGranted(m) + c.row.amount
        /\ wallets' = WalletSave(m, b)
    BY <1>4 DEF Credits, Typed, Settling, Backed, Holding
  <2>2. b \in Int64 /\ b <= c.base + c.row.amount
    BY <2>1, AddInt64Bound
  <2> HIDE DEF b
  <2>3. Balance(m)' = b \/ Balance(m)' = Balance(m)
    BY <2>1, <2>2, MovesBalance
  <2>4. c.row.amount \in Nat /\ c.base \in Int /\ b \in Int
    BY <2>1, <2>2 DEF Amount64, Int64
  <2>5. Balance(m)' <= AllGranted(m)' /\ AllGranted(m) <= AllGranted(m)' /\ AllGranted(m)' \in Nat
    BY <1>1, <2>1, <2>2, <2>3, <2>4
  <2>6. d.step \in Holding => d.base = c.base
    BY <1>4 DEF Credits, Idles, Keeping, Holding, Settling
  <2>7. Backed(d, m)'
    BY <1>1, <2>1, <2>4, <2>5, <2>6 DEF Backed
  <2> QED
    BY <2>5, <2>7
<1>5. CASE Answers(c, d, m) \/ GivesUp(c, d)
  <2>1. /\ Balance(m)' = Balance(m) /\ AllGranted(m)' = AllGranted(m)
        /\ c.step \in Holding /\ (d.step \in Holding => d.base = c.base)
    BY <1>5, MovesBalance DEF Answers, GivesUp, SumsStay, Keeping, Idles, Holding, Settling
  <2> QED
    BY <1>1, <2>1 DEF Backed
<1>6. CASE RollsBack(c, d, m) \/ Empties(c, d, m)
  <2>1. /\ AllGranted(m)' = AllGranted(m) /\ d.step \notin Holding
        /\ \/ wallets' = wallets \/ wallets' = WalletSave(m, 0)
           \/ c.step = "undo" /\ wallets' = WalletSave(m, c.base)
    BY <1>6 DEF RollsBack, Empties, SumsStay, Idles, Holding, Settling
  <2>2. c.step = "undo" => c.base \in Int64 /\ c.base <= AllGranted(m)
    BY DEF Typed, Settling, Backed, Holding
  <2>3. Balance(m)' \in {Balance(m), 0} \/ (c.step = "undo" /\ Balance(m)' = c.base)
    BY <2>1, <2>2, ZeroIsInt64, MovesBalance
  <2> QED
    BY <1>1, <2>1, <2>2, <2>3 DEF Backed
<1> QED
  BY <1>2, <1>3, <1>4, <1>5, <1>6 DEF Moves

-----------------------------------------------------------------------------
(* Alone, no move takes away what was answered for.                        *)

LEMMA MovesCover ==
  ASSUME WalletsTypeOK, SumsType, NEW m \in Merchants, NEW c, Typed(c), NEW d, Moves(c, d, m),
         Backed(c, m), Covers(m), Knows(c, m)
  PROVE  Covers(m)' /\ Knows(d, m)'
<1>1. AllGranted(m) \in Nat /\ AllAcked(m) \in Nat /\ Balance(m) \in Int /\ MaxInt64 \in Nat
  BY BalanceType, Int64Assumption DEF SumsType
<1>2. CASE Waits(d, m)
  <2>1. Balance(m)' = Balance(m) /\ AllGranted(m)' = AllGranted(m) /\ AllAcked(m)' = AllAcked(m)
    BY <1>2, MovesBalance DEF Waits, SumsStay
  <2> QED
    BY <1>2, <2>1 DEF Waits, Idles, Covers, Fine, Knows
<1>3. CASE Reads(d, m)
  <2>1. /\ Balance(m)' = Balance(m) /\ d.base = Balance(m) /\ HasWallet(m)'
        /\ AllGranted(m)' = AllGranted(m) /\ AllAcked(m)' = AllAcked(m)
    BY <1>3, MovesBalance DEF Reads, SumsStay
  <2>2. d.step = "credit" /\ (d.created => d.base = 0)
    BY <1>3 DEF Reads
  <2> QED
    BY <2>1, <2>2 DEF Covers, Fine, Knows
<1>4. CASE Credits(c, d, m)
  <2> DEFINE b == AddInt64(c.base, c.row.amount)
  <2>1. /\ c.base \in Int64 /\ c.row.amount \in Amount64 /\ c.base <= AllGranted(m)
        /\ AllGranted(m)' = AllGranted(m) + c.row.amount /\ AllAcked(m)' = AllAcked(m)
        /\ wallets' = WalletSave(m, b)
        /\ d.step \in Settling => d.step = "saveSuccess" /\ Keeping(c, d)
    BY <1>4 DEF Credits, Typed, Settling, Backed, Holding, Idles
  <2>2. c.row.amount \in Nat /\ c.base \in Int
    BY <2>1 DEF Amount64, Int64
  <2> SUFFICES ASSUME Fine(m)' PROVE Covers(m)' /\ Knows(d, m)'
    BY DEF Covers, Knows
  <2>3. AllGranted(m) + c.row.amount <= MaxInt64
    BY <2>1 DEF Fine
  <2>4. b = c.base + c.row.amount /\ b \in Int64 /\ Fine(m)
    BY <1>1, <2>1, <2>2, <2>3, AddInt64Bound DEF AddInt64, Fine
  <2>5. HasWallet(m) /\ AllAcked(m) <= c.base /\ (c.created => c.base = 0)
    BY <1>4, <2>4 DEF Credits, Knows, Holding, Settling
  <2> HIDE DEF b
  <2>6. HasWallet(m)' /\ wallets'[m] = b /\ Balance(m)' = b
    BY <2>1, <2>4, <2>5, MovesBalance
  <2>7. AllAcked(m)' <= b
    BY <1>1, <2>1, <2>2, <2>4, <2>5
  <2>8. Knows(d, m)'
    BY <2>1, <2>4, <2>5, <2>6 DEF Knows, Keeping
  <2> QED
    BY <2>6, <2>7, <2>8 DEF Covers
<1>5. CASE Answers(c, d, m) \/ GivesUp(c, d)
  <2>1. /\ Balance(m)' = Balance(m) /\ AllGranted(m)' = AllGranted(m) /\ c.step = "saveSuccess"
        /\ \/ Idles(d) /\ AllAcked(m)' = AllAcked(m) + c.row.amount
           \/ d.step = "undo" /\ Keeping(c, d) /\ AllAcked(m)' = AllAcked(m)
    BY <1>5, MovesBalance DEF Answers, GivesUp, SumsStay
  <2>2. c.row.amount \in Nat /\ c.base \in Int
    BY <2>1 DEF Typed, Settling, Amount64, Int64
  <2> SUFFICES ASSUME Fine(m)' PROVE Covers(m)' /\ Knows(d, m)'
    BY DEF Covers, Knows
  <2>3. Fine(m)
    BY <2>1 DEF Fine
  <2>4. /\ HasWallet(m) /\ AllAcked(m) <= c.base /\ (c.created => c.base = 0)
        /\ wallets[m] = c.base + c.row.amount
    BY <2>1, <2>3 DEF Knows, Holding, Settling
  <2>5. Balance(m) = c.base + c.row.amount
    BY <2>4, BalanceType
  <2>6. Covers(m)'
    BY <1>1, <2>1, <2>2, <2>4, <2>5 DEF Covers
  <2>7. Knows(d, m)'
    BY <2>1, <2>4 DEF Knows, Keeping, Idles
  <2> QED
    BY <2>6, <2>7
<1>6. CASE RollsBack(c, d, m)
  <2>1. /\ AllGranted(m)' = AllGranted(m) /\ AllAcked(m)' = AllAcked(m) /\ c.step = "undo"
        /\ wallets' = wallets \/ wallets' = WalletSave(m, c.base)
        /\ d.step \in Settling => c.created /\ d.step = "undoCreated"
        /\ c.base \in Int64
    BY <1>6 DEF RollsBack, SumsStay, Idles, Typed, Settling
  <2> SUFFICES ASSUME Fine(m)' PROVE Covers(m)' /\ Knows(d, m)'
    BY DEF Covers, Knows
  <2>2. Fine(m)
    BY <2>1 DEF Fine
  <2>3. AllAcked(m) <= c.base /\ (c.created => c.base = 0) /\ AllAcked(m) <= Balance(m)
    BY <2>1, <2>2 DEF Knows, Covers, Holding, Settling
  <2>4. Balance(m)' \in {Balance(m), c.base}
    BY <2>1, MovesBalance
  <2>5. Covers(m)'
    BY <2>1, <2>3, <2>4 DEF Covers
  <2>6. Knows(d, m)'
    BY <2>1, <2>3 DEF Knows, Holding
  <2> QED
    BY <2>5, <2>6
<1>7. CASE Empties(c, d, m)
  <2>1. /\ AllGranted(m)' = AllGranted(m) /\ AllAcked(m)' = AllAcked(m) /\ c.step = "undoCreated"
        /\ wallets' = wallets \/ wallets' = WalletSave(m, 0)
        /\ Idles(d)
    BY <1>7 DEF Empties, SumsStay
  <2>2. Fine(m) => AllAcked(m) <= 0 /\ AllAcked(m) <= Balance(m)
    BY <2>1 DEF Knows, Covers, Settling
  <2>3. Balance(m)' \in {Balance(m), 0}
    BY <2>1, MovesBalance, ZeroIsInt64
  <2> QED
    BY <2>1, <2>2, <2>3 DEF Covers, Knows, Idles, Fine
<1> QED
  BY <1>2, <1>3, <1>4, <1>5, <1>6, <1>7 DEF Moves

-----------------------------------------------------------------------------
(* One session moves on and the others wait.                               *)

CallsTyped ==
  \A s \in Sessions : /\ Typed(CallOf(s))
                      /\ CallOf(s).step # "idle" => OwnerOf(s) \in Merchants

BusyKnown == \A s \in Sessions : Busy(s) <=> CallOf(s).step # "idle"

OthersWait(s) ==
  \A t \in Sessions \ {s} : CallOf(t)' = CallOf(t) /\ OwnerOf(t)' = OwnerOf(t)

Goes(s, d, m) ==
  /\ CallOf(s)' = d
  /\ d.step # "idle" => OwnerOf(s)' = m
  /\ CallOf(s).step # "idle" => OwnerOf(s) = m
  /\ CallOf(s).step # "idle" \/ d.step # "idle"
  /\ Moves(CallOf(s), d, m)

(* The top-up service has the same integers and the same database.         *)
LEMMA SameSets ==
  T!Int64 = Int64 /\ T!Amount64 = Amount64 /\ T!Replies = Replies /\ T!FaultsSoFar = FaultsSoFar
BY DEF T!Int64, Int64, T!Amount64, Amount64, T!Replies, Replies, T!FaultsSoFar, FaultsSoFar

LEMMA CallsAreTyped ==
  ASSUME TypeOK, T!TypeOK
  PROVE  CallsTyped
<1> SUFFICES ASSUME NEW s \in Sessions
             PROVE  /\ Typed(CallOf(s))
                    /\ CallOf(s).step # "idle" => OwnerOf(s) \in Merchants
  BY DEF CallsTyped
<1>1. CASE At(s, "idle")
  <2>1. CallOf(s) = topupCalls[s] /\ topupCalls[s] \in T!Call \cup {T!Idle}
        /\ OwnerOf(s) = topupCalls[s].row.merchant
    BY <1>1 DEF CallOf, OwnerOf, T!TypeOK
  <2>2. CASE topupCalls[s] \in T!Call
    BY <2>1, <2>2, SameSets DEF T!Call, T!TopUp, Typed
  <2>3. CASE topupCalls[s] = T!Idle
    BY <2>1, <2>3 DEF T!Idle, Typed, Settling
  <2> QED
    BY <2>1, <2>2, <2>3
<1>2. CASE ~At(s, "idle")
  <2>1. CallOf(s) = calls[s] /\ OwnerOf(s) = Merchant(s) /\ Row(s).amount = calls[s].row.amount
    BY <1>2 DEF CallOf, OwnerOf, Merchant, Row
  <2> QED
    BY <1>2, <2>1, CallType DEF Typed
<1> QED
  BY <1>1, <1>2

LEMMA BusyIsKnown ==
  ASSUME OneService
  PROVE  BusyKnown
BY DEF OneService, BusyKnown, Busy, CallOf, At, T!At

LEMMA GoesShared ==
  ASSUME WalletsTypeOK, SumsType, CallsTyped, BusyKnown, BusyKnown',
         NEW s \in Sessions, NEW d, NEW m \in Merchants, Goes(s, d, m), OthersWait(s),
         NothingMinted, AllBacked, ~overlapped => NoneMet,
         overlapped' = (overlapped \/ Overlapping')
  PROVE  WalletsTypeOK' /\ NothingMinted' /\ AllBacked' /\ (~overlapped' => NoneMet')
<1>1. PICK c : c = CallOf(s)
  OBVIOUS
<1>2. Typed(c) /\ Backed(c, m) /\ Moves(c, d, m) /\ Balance(m) <= AllGranted(m)
  <2>1. Backed(c, OwnerOf(s)) /\ (c.step # "idle" => OwnerOf(s) = m)
    BY <1>1 DEF AllBacked, Goes
  <2>2. Backed(c, m)
    BY <2>1 DEF Backed, Holding
  <2>3. Typed(c) /\ Moves(c, d, m)
    BY <1>1 DEF CallsTyped, Goes
  <2>4. Balance(m) <= AllGranted(m)
    BY DEF NothingMinted, AllGranted
  <2> QED
    BY <2>2, <2>3, <2>4
<1>3. /\ WalletsTypeOK'
      /\ \A n \in Merchants \ {m} :
           Balance(n)' = Balance(n) /\ AllGranted(n)' = AllGranted(n) /\ AllAcked(n)' = AllAcked(n)
  BY <1>2, MovesOne
<1>4. /\ Balance(m)' <= AllGranted(m)' /\ Backed(d, m)'
      /\ AllGranted(m) <= AllGranted(m)' /\ AllGranted(m)' \in Nat
  BY <1>2, MovesMint
<1>5. NothingMinted'
  <2>1. \A n \in Merchants : Balance(n)' <= AllGranted(n)'
    BY <1>3, <1>4 DEF NothingMinted, AllGranted
  <2> QED
    BY <2>1 DEF NothingMinted, AllGranted
<1>6. AllBacked'
  <2> SUFFICES ASSUME NEW t \in Sessions PROVE Backed(CallOf(t), OwnerOf(t))'
    BY DEF AllBacked
  <2>1. CASE t = s
    <3>1. CallOf(s)' = d /\ (d.step # "idle" => OwnerOf(s)' = m)
      BY DEF Goes
    <3> QED
      BY <1>4, <2>1, <3>1 DEF Backed, Holding
  <2>2. CASE t # s
    <3>1. PICK e, n : e = CallOf(t) /\ n = OwnerOf(t)
      OBVIOUS
    <3>2. Backed(e, n) /\ Typed(e) /\ (e.step # "idle" => n \in Merchants)
      BY <3>1 DEF AllBacked, CallsTyped
    <3>3. CallOf(t)' = e /\ OwnerOf(t)' = n
      BY <2>2, <3>1 DEF OthersWait
    <3>4. n \in Merchants => AllGranted(n) <= AllGranted(n)' /\ AllGranted(n) \in Nat /\ AllGranted(n)' \in Nat
      BY <1>3, <1>4 DEF SumsType
    <3>5. e.step \in Holding => e.base <= AllGranted(n)'
      BY <3>2, <3>4 DEF Backed, Typed, Holding, Settling, Int64
    <3> QED
      BY <3>3, <3>5 DEF Backed
  <2> QED
    BY <2>1, <2>2
<1>7. ASSUME ~overlapped' PROVE NoneMet'
  <2>1. ~Overlapping' /\ NoneMet
    BY <1>7
  <2>2. Covers(m) /\ Knows(c, m)
    <3>1. Knows(c, OwnerOf(s)) /\ (c.step # "idle" => OwnerOf(s) = m)
      BY <1>1, <2>1 DEF NoneMet, Goes
    <3> QED
      BY <2>1, <3>1 DEF NoneMet, Knows, Settling
  <2>3. Covers(m)' /\ Knows(d, m)'
    BY <1>2, <2>2, MovesCover
  <2>4. ASSUME NEW n \in Merchants PROVE Covers(n)'
    BY <1>3, <2>1, <2>3 DEF NoneMet, Covers, Fine
  <2>5. ASSUME NEW t \in Sessions PROVE Knows(CallOf(t), OwnerOf(t))'
    <3>1. CASE t = s
      <4>1. CallOf(s)' = d /\ (d.step # "idle" => OwnerOf(s)' = m)
        BY DEF Goes
      <4> QED
        BY <2>3, <3>1, <4>1 DEF Knows, Settling
    <3>2. CASE t # s
      <4>1. CASE CallOf(s).step # "idle"
        <5>1. CallOf(t).step = "idle"
          BY <2>1, <3>2, <4>1 DEF NoneMet, Overlapping, BusyKnown
        <5>2. CallOf(t)'.step = "idle"
          BY <3>2, <5>1 DEF OthersWait
        <5> QED
          BY <5>2 DEF Knows, Settling
      <4>2. CASE d.step # "idle"
        <5>1. CallOf(s)'.step # "idle"
          BY <4>2 DEF Goes
        <5>2. CallOf(t)'.step = "idle"
          BY <2>1, <3>2, <5>1 DEF Overlapping, BusyKnown
        <5> QED
          BY <5>2 DEF Knows, Settling
      <4> QED
        BY <4>1, <4>2 DEF Goes
    <3> QED
      BY <3>1, <3>2
  <2> QED
    BY <2>1, <2>4, <2>5 DEF NoneMet
<1> QED
  BY <1>3, <1>5, <1>6, <1>7

-----------------------------------------------------------------------------
(* The steps of a refund request are moves.                                *)

RefundGoes(s, d, m) ==
  /\ calls' = [calls EXCEPT ![s] = d]
  /\ d.step # "idle" => Issuer[d.row.invoice] = m
  /\ calls[s].step # "idle" => Issuer[calls[s].row.invoice] = m
  /\ calls[s].step # "idle" \/ d.step # "idle"
  /\ Moves(calls[s], d, m)

TopUpSumsStay == UNCHANGED <<topupGranted, topupAcked>>

LEMMA StaySums ==
  ASSUME TopUpSumsStay, UNCHANGED <<granted, acked>>
  PROVE  SumsStay
BY DEF TopUpSumsStay, SumsStay, AllGranted, AllAcked

LEMMA RefundAt ==
  ASSUME Inv, NEW s \in Sessions, ~At(s, "idle")
  PROVE  /\ calls[s] \in Call /\ calls[s].step # "idle" /\ Merchant(s) \in Merchants
         /\ Merchant(s) = Issuer[calls[s].row.invoice] /\ Row(s) = calls[s].row
         /\ Row(s).amount = calls[s].row.amount
BY CallType DEF Inv, At, Merchant, Row

(* A request that goes on without having read the balance.                 *)
LEMMA RefundWaits ==
  ASSUME SumsStay, UNCHANGED wallets, NEW s \in Sessions, NEW c \in Call, NEW m \in Merchants,
         calls' = [calls EXCEPT ![s] = c], c.step \notin Settling, c.step # "idle",
         Issuer[c.row.invoice] = m,
         ~At(s, "idle") => Issuer[calls[s].row.invoice] = m
  PROVE  \E d : RefundGoes(s, d, m)
<1>1. Moves(calls[s], c, m)
  BY DEF Moves, Waits, Idles
<1> QED
  BY <1>1 DEF RefundGoes, At

LEMMA RefundReturns ==
  ASSUME Inv, SumsStay, NEW s \in Sessions, ~At(s, "idle"), NEW m, m = Merchant(s),
         wallets' \in {wallets, WalletCreate(m)}, Return(s)
  PROVE  \E d : RefundGoes(s, d, m)
<1>1. Moves(calls[s], Idle, m) /\ Idle.step = "idle"
  BY DEF Moves, Waits, Idles, Idle, Settling
<1>2. RefundGoes(s, Idle, m)
  BY <1>1, RefundAt DEF RefundGoes, Return, Become
<1> QED
  BY <1>2

LEMMA AskGoes ==
  ASSUME Inv, TopUpSumsStay, NEW s \in Sessions, Ask(s)
  PROVE  \E d : \E m \in Merchants : RefundGoes(s, d, m)
<1>1. UNCHANGED <<wallets, granted, acked>> /\ At(s, "idle") /\ SumsStay
  BY StaySums DEF Ask, RequestRefund, Approve, Reject, ProcessFailed, ProcessSuccess, Mark, history
<1>2. ASSUME NEW step \in {"loadInvoice", "save", "findWallet"}, NEW f \in RefundIds, NEW row \in Refund,
             Begin(s, step, f, row)
      PROVE  \E d : \E m \in Merchants : RefundGoes(s, d, m)
  <2>1. step \in Steps /\ step \notin Settling /\ step # "idle"
    BY DEF Steps, Settling
  <2>2. PICK c \in Call : calls' = [calls EXCEPT ![s] = c] /\ c.step = step /\ c.row = row
    BY <1>2, <2>1, BeginGives
  <2>3. PICK m \in Merchants : Issuer[c.row.invoice] = m
    BY <2>2, RefundAssumption DEF Refund
  <2> QED
    BY <1>1, <2>1, <2>2, <2>3, RefundWaits
<1>3. ASSUME NEW f \in RefundIds, NEW i \in InvoiceIds, NEW a \in Amounts, RequestRefund(s, f, i, a)
      PROVE  \E row \in Refund : Begin(s, "loadInvoice", f, row)
  <2>1. a \in Amount64
    BY <1>3, InvoiceAssumption, Int64Assumption DEF RequestRefund, Int64, Amount64
  <2> QED
    BY <1>3, <2>1 DEF RequestRefund, Refund, RefundStatus
<1>4. ASSUME NEW f \in RefundIds, NEW st \in RefundStatus, Mark(s, f, st)
      PROVE  \E row \in Refund : Begin(s, "save", f, row)
  BY <1>4, FiledRow DEF Mark, Inv, Refund
<1>5. ASSUME NEW f \in RefundIds, ProcessSuccess(s, f)
      PROVE  \E row \in Refund : Begin(s, "findWallet", f, row)
  BY <1>5, FiledRow DEF ProcessSuccess, Inv
<1>6. \E step \in {"loadInvoice", "save", "findWallet"}, f \in RefundIds, row \in Refund :
        Begin(s, step, f, row)
  BY <1>3, <1>4, <1>5 DEF Ask, Approve, Reject, ProcessFailed, RefundStatus
<1> QED
  BY <1>2, <1>6

(* The steps before the wallet.                                            *)
LEMMA RequestingGoes ==
  ASSUME Inv, TopUpSumsStay, NEW s \in Sessions, NEW m, m = Merchant(s),
         LoadInvoice(s) \/ ExpireInvoice(s) \/ SumRefunds(s) \/ InsertRefund(s) \/ SaveRefund(s)
  PROVE  \E d : RefundGoes(s, d, m)
<1>1. UNCHANGED <<wallets, granted, acked>> /\ ~At(s, "idle") /\ SumsStay
  BY StaySums DEF LoadInvoice, ExpireInvoice, SumRefunds, InsertRefund, SaveRefund, At, history
<1>2. /\ calls[s] \in Call /\ m \in Merchants
      /\ m = Issuer[calls[s].row.invoice] /\ Row(s) = calls[s].row
  BY <1>1, RefundAt
<1>3. \/ Return(s)
      \/ \E row \in Invoice \cup {NoInvoice}, step \in {"expire", "sum", "insert"} :
           Become(s, [calls[s] EXCEPT !.step = step, !.loaded = row])
  <2>1. CASE LoadInvoice(s)
    <3>1. \/ Return(s)
          \/ \E step \in {"expire", "sum"} :
               Become(s, [calls[s] EXCEPT !.step = step, !.loaded = invoices[Row(s).invoice]])
      BY <2>1 DEF LoadInvoice
    <3>2. invoices[Row(s).invoice] \in Invoice \cup {NoInvoice}
      BY <1>1, CallType DEF Inv, TypeOK, InvoicesTypeOK
    <3> QED
      BY <3>1, <3>2
  <2>2. CASE SumRefunds(s)
    <3>1. Return(s) \/ Become(s, [calls[s] EXCEPT !.step = "insert", !.loaded = NoInvoice])
      BY <2>2 DEF SumRefunds
    <3> QED
      BY <3>1
  <2>3. CASE ExpireInvoice(s) \/ InsertRefund(s) \/ SaveRefund(s)
    BY <2>3 DEF ExpireInvoice, InsertRefund, SaveRefund
  <2> QED
    BY <2>1, <2>2, <2>3
<1>4. CASE Return(s)
  BY <1>1, <1>4, RefundReturns
<1>5. ASSUME NEW row \in Invoice \cup {NoInvoice}, NEW step \in {"expire", "sum", "insert"},
             Become(s, [calls[s] EXCEPT !.step = step, !.loaded = row])
      PROVE  \E d : RefundGoes(s, d, m)
  <2>1. PICK c : c = [calls[s] EXCEPT !.step = step, !.loaded = row]
    OBVIOUS
  <2>2. c \in Call /\ c.step = step /\ c.row = Row(s)
    BY <1>2, <2>1 DEF Call, Steps
  <2>3. calls' = [calls EXCEPT ![s] = c]
    BY <1>5, <2>1 DEF Become
  <2>4. c.step \notin Settling /\ c.step # "idle"
    BY <2>2 DEF Settling
  <2>5. Issuer[c.row.invoice] = m
    BY <1>2, <2>2
  <2> QED
    BY <1>1, <1>2, <2>2, <2>3, <2>4, <2>5, RefundWaits
<1> QED
  BY <1>3, <1>4, <1>5

(* With the wallet at hand, the balance is what the credit starts from.    *)
LEMMA MarkGoes ==
  ASSUME Inv, SumsStay, NEW s \in Sessions, ~At(s, "idle"), NEW m, m = Merchant(s),
         NEW base \in Int64, NEW created \in BOOLEAN, MarkSuccess(s, base, created),
         wallets' = WalletCreate(m), wallets'[m] = base, created => base = 0
  PROVE  \E d : RefundGoes(s, d, m)
<1>1. calls[s] \in Call /\ calls[s].step # "idle" /\ m = Issuer[calls[s].row.invoice]
      /\ Row(s) = calls[s].row
  BY RefundAt
<1>2. CASE Return(s)
  BY <1>2, RefundReturns
<1>3. ASSUME NEW c \in Call, calls' = [calls EXCEPT ![s] = c], c.step = "credit",
             c.row.invoice = Row(s).invoice, c.base = base, c.created = created
      PROVE  \E d : RefundGoes(s, d, m)
  <2>1. Moves(calls[s], c, m)
    BY <1>3 DEF Moves, Reads
  <2> QED
    BY <1>1, <1>3, <2>1 DEF RefundGoes
<1> QED
  BY <1>1, <1>2, <1>3, MarkSuccessGives

LEMMA FindWalletGoes ==
  ASSUME Inv, TopUpSumsStay, NEW s \in Sessions, NEW m, m = Merchant(s), FindWallet(s)
  PROVE  \E d : RefundGoes(s, d, m)
<1>1. UNCHANGED <<wallets, granted, acked>> /\ ~At(s, "idle") /\ SumsStay
  BY StaySums DEF FindWallet, At, history
<1>2. PICK b : b = wallets[m]
  OBVIOUS
<1>3. calls[s] \in Call /\ m \in Merchants /\ m = Issuer[calls[s].row.invoice]
      /\ Row(s) = calls[s].row
  BY <1>1, <1>2, RefundAt
<1>4. CASE Return(s)
  BY <1>1, <1>4, RefundReturns
<1>5. CASE HasWallet(m) /\ MarkSuccess(s, wallets[m], FALSE)
  <2>1. /\ b \in Int64 /\ MarkSuccess(s, b, FALSE)
        /\ wallets' = WalletCreate(m) /\ wallets'[m] = b
    BY <1>1, <1>2, <1>3, <1>5 DEF Inv, TypeOK, WalletsTypeOK, HasWallet, WalletCreate
  <2> QED
    BY <1>1, <1>2, <2>1, MarkGoes
<1>6. CASE GoTo(s, "createWallet")
  <2>1. PICK c \in Call : calls' = [calls EXCEPT ![s] = c] /\ c.step = "createWallet" /\ c.row = Row(s)
    BY <1>3, <1>6, GoToGives DEF Steps
  <2> QED
    BY <1>1, <1>2, <1>3, <2>1, RefundWaits DEF Settling
<1> QED
  BY <1>2, <1>4, <1>5, <1>6 DEF FindWallet

LEMMA CreateWalletGoes ==
  ASSUME Inv, TopUpSumsStay, NEW s \in Sessions, NEW m, m = Merchant(s), CreateWallet(s)
  PROVE  \E d : RefundGoes(s, d, m)
<1>1. UNCHANGED <<granted, acked>> /\ ~At(s, "idle") /\ SumsStay
  BY StaySums DEF CreateWallet, At, history
<1>2. m \in Merchants
  BY <1>1, RefundAt
<1>3. /\ wallets' \in {wallets, WalletCreate(m)}
      /\ \/ Return(s)
         \/ ~HasWallet(m) /\ MarkSuccess(s, 0, TRUE) /\ wallets' = WalletCreate(m)
  BY DEF CreateWallet, Executed
<1>4. CASE Return(s)
  BY <1>1, <1>3, <1>4, RefundReturns
<1>5. CASE ~HasWallet(m) /\ MarkSuccess(s, 0, TRUE) /\ wallets' = WalletCreate(m)
  <2>1. wallets'[m] = 0
    BY <1>2, <1>5 DEF WalletCreate, Inv, TypeOK, WalletsTypeOK
  <2> QED
    BY <1>1, <1>5, <2>1, MarkGoes, ZeroIsInt64
<1> QED
  BY <1>3, <1>4, <1>5

LEMMA CreditWalletGoes ==
  ASSUME Inv, TopUpSumsStay, T!TypeOK, NEW s \in Sessions, NEW m, m = Merchant(s), CreditWallet(s)
  PROVE  \E d : RefundGoes(s, d, m)
<1>1. UNCHANGED acked /\ ~At(s, "idle") /\ calls[s].step = "credit"
  BY DEF CreditWallet, At
<1>2. PICK a : a = calls[s].row.amount
  OBVIOUS
<1>3. /\ calls[s] \in Call /\ calls[s].step # "idle" /\ m \in Merchants
      /\ m = Issuer[calls[s].row.invoice] /\ Row(s) = calls[s].row /\ a \in Nat
  <2>1. a \in Amount64
    BY <1>1, <1>2, RefundAt, CallType DEF Inv
  <2> QED
    BY <1>1, <1>2, <2>1, RefundAt DEF Amount64
<1>4. \/ Return(s) /\ UNCHANGED <<wallets, granted>>
      \/ /\ Return(s) \/ GoTo(s, "saveSuccess")
         /\ wallets' = WalletSave(m, AddInt64(calls[s].base, a))
         /\ granted' = [granted EXCEPT ![m] = @ + a]
  BY <1>2, <1>3 DEF CreditWallet, Executed
<1>5. CASE Return(s) /\ UNCHANGED <<wallets, granted>>
  BY <1>1, <1>5, StaySums, RefundReturns
<1>6. CASE /\ Return(s) \/ GoTo(s, "saveSuccess")
           /\ wallets' = WalletSave(m, AddInt64(calls[s].base, a))
           /\ granted' = [granted EXCEPT ![m] = @ + a]
  <2>1. /\ granted'[m] = granted[m] + a
        /\ \A n \in Merchants \ {m} : granted'[n] = granted[n]
    BY <1>3, <1>6 DEF Inv, TypeOK
  <2>2. /\ AllGranted(m)' = AllGranted(m) + a
        /\ \A n \in Merchants \ {m} : AllGranted(n)' = AllGranted(n)
        /\ \A n \in Merchants : AllAcked(n)' = AllAcked(n)
    <3>1. granted[m] \in Nat /\ topupGranted[m] \in Nat
      BY <1>3 DEF Inv, TypeOK, T!TypeOK
    <3> QED
      BY <1>1, <1>3, <2>1, <3>1 DEF TopUpSumsStay, AllGranted, AllAcked
  <2>3. ASSUME NEW d, Idles(d) \/ (d.step = "saveSuccess" /\ Keeping(calls[s], d))
        PROVE  Moves(calls[s], d, m)
    BY <1>1, <1>2, <1>6, <2>2, <2>3 DEF Moves, Credits
  <2>4. CASE Return(s)
    <3>1. Idles(Idle) /\ Idle.step = "idle"
      BY DEF Idles, Idle, Settling
    <3>2. RefundGoes(s, Idle, m)
      BY <1>3, <2>3, <2>4, <3>1 DEF RefundGoes, Return, Become
    <3> QED
      BY <1>2, <3>2
  <2>5. CASE GoTo(s, "saveSuccess")
    <3>1. PICK c \in Call : /\ calls' = [calls EXCEPT ![s] = c]
                            /\ c.step = "saveSuccess" /\ c.row = Row(s)
                            /\ c.base = calls[s].base /\ c.created = calls[s].created
      BY <1>3, <2>5, GoToGives DEF Steps
    <3>2. Moves(calls[s], c, m)
      BY <1>3, <2>3, <3>1 DEF Keeping
    <3> QED
      BY <1>2, <1>3, <3>1, <3>2 DEF RefundGoes
  <2> QED
    BY <1>6, <2>4, <2>5
<1> QED
  BY <1>4, <1>5, <1>6

LEMMA SaveSuccessGoes ==
  ASSUME Inv, TopUpSumsStay, T!TypeOK, NEW s \in Sessions, NEW m, m = Merchant(s), SaveSuccess(s)
  PROVE  \E d : RefundGoes(s, d, m)
<1>1. UNCHANGED <<wallets, granted>> /\ ~At(s, "idle") /\ calls[s].step = "saveSuccess"
  BY DEF SaveSuccess, At
<1>2. PICK a : a = calls[s].row.amount
  OBVIOUS
<1>3. /\ calls[s] \in Call /\ calls[s].step # "idle" /\ m \in Merchants
      /\ m = Issuer[calls[s].row.invoice] /\ Row(s) = calls[s].row /\ a \in Nat
  <2>1. a \in Amount64
    BY <1>1, <1>2, RefundAt, CallType DEF Inv
  <2> QED
    BY <1>1, <1>2, <2>1, RefundAt DEF Amount64
<1>4. \/ Return(s) /\ acked' = [acked EXCEPT ![m] = @ + a]
      \/ GoTo(s, "undo") /\ UNCHANGED acked
  BY <1>2, <1>3 DEF SaveSuccess
<1>5. CASE Return(s) /\ acked' = [acked EXCEPT ![m] = @ + a]
  <2>1. /\ acked'[m] = acked[m] + a
        /\ \A n \in Merchants \ {m} : acked'[n] = acked[n]
    BY <1>3, <1>5 DEF Inv, TypeOK
  <2>2. /\ AllAcked(m)' = AllAcked(m) + a
        /\ \A n \in Merchants \ {m} : AllAcked(n)' = AllAcked(n)
        /\ \A n \in Merchants : AllGranted(n)' = AllGranted(n)
    <3>1. acked[m] \in Nat /\ topupAcked[m] \in Nat
      BY <1>3 DEF Inv, TypeOK, T!TypeOK
    <3> QED
      BY <1>1, <1>3, <2>1, <3>1 DEF TopUpSumsStay, AllGranted, AllAcked
  <2>3. Moves(calls[s], Idle, m) /\ Idle.step = "idle"
    BY <1>1, <1>2, <2>2 DEF Moves, Answers, Idles, Idle, Settling
  <2>4. RefundGoes(s, Idle, m)
    BY <1>3, <1>5, <2>3 DEF RefundGoes, Return, Become
  <2> QED
    BY <1>2, <2>4
<1>6. CASE GoTo(s, "undo") /\ UNCHANGED acked
  <2>1. PICK c \in Call : /\ calls' = [calls EXCEPT ![s] = c]
                          /\ c.step = "undo" /\ c.row = Row(s)
                          /\ c.base = calls[s].base /\ c.created = calls[s].created
    BY <1>3, <1>6, GoToGives DEF Steps
  <2>2. SumsStay
    BY <1>1, <1>6, StaySums
  <2>3. Moves(calls[s], c, m)
    BY <1>1, <1>3, <2>1, <2>2 DEF Moves, GivesUp, Keeping
  <2> QED
    BY <1>2, <1>3, <2>1, <2>3 DEF RefundGoes
<1> QED
  BY <1>4, <1>5, <1>6

LEMMA UndoGoes ==
  ASSUME Inv, TopUpSumsStay, NEW s \in Sessions, NEW m, m = Merchant(s), UndoCredit(s) \/ UndoCreated(s)
  PROVE  \E d : RefundGoes(s, d, m)
<1>1. /\ UNCHANGED <<granted, acked>> /\ ~At(s, "idle") /\ SumsStay
      /\ calls[s].step \in {"undo", "undoCreated"}
  BY StaySums DEF UndoCredit, UndoCreated, At, history
<1>2. calls[s] \in Call /\ calls[s].step # "idle" /\ m \in Merchants /\ m = Issuer[calls[s].row.invoice]
      /\ Row(s) = calls[s].row
  BY <1>1, RefundAt
<1>3. \/ /\ calls[s].step = "undo"
         /\ wallets' \in {wallets, WalletSave(m, calls[s].base)}
         /\ Return(s) \/ (calls[s].created /\ GoTo(s, "undoCreated"))
      \/ /\ calls[s].step = "undoCreated"
         /\ wallets' \in {wallets, WalletSave(m, 0)}
         /\ Return(s)
  BY DEF UndoCredit, UndoCreated, At
<1>4. CASE Return(s)
  <2>1. Moves(calls[s], Idle, m) /\ Idle.step = "idle"
    BY <1>1, <1>3 DEF Moves, RollsBack, Empties, Idles, Idle, Settling
  <2>2. RefundGoes(s, Idle, m)
    BY <1>2, <1>4, <2>1 DEF RefundGoes, Return, Become
  <2> QED
    BY <2>2
<1>5. CASE /\ calls[s].step = "undo"
           /\ wallets' \in {wallets, WalletSave(m, calls[s].base)}
           /\ calls[s].created /\ GoTo(s, "undoCreated")
  <2>1. PICK c \in Call : calls' = [calls EXCEPT ![s] = c] /\ c.step = "undoCreated" /\ c.row = Row(s)
    BY <1>2, <1>5, GoToGives DEF Steps
  <2>2. Moves(calls[s], c, m)
    BY <1>1, <1>5, <2>1 DEF Moves, RollsBack
  <2> QED
    BY <1>2, <2>1, <2>2 DEF RefundGoes
<1> QED
  BY <1>3, <1>4, <1>5

LEMMA RefundRequestGoes ==
  ASSUME Inv, T!TypeOK, NEW s \in Sessions, RefundRequest(s)
  PROVE  \E d : \E m \in Merchants : RefundGoes(s, d, m)
<1>1. TopUpSumsStay /\ (Ask(s) \/ Serve(s))
  BY DEF RefundRequest, TopUpSumsStay, topupTables
<1>2. CASE Ask(s)
  BY <1>1, <1>2, AskGoes
<1>3. CASE Serve(s)
  <2>1. ~At(s, "idle")
    BY <1>3 DEF Serve, LoadInvoice, ExpireInvoice, SumRefunds, InsertRefund, SaveRefund, FindWallet,
                CreateWallet, CreditWallet, SaveSuccess, UndoCredit, UndoCreated, At
  <2>2. PICK m \in Merchants : m = Merchant(s)
    BY <2>1, RefundAt
  <2>3. \E d : RefundGoes(s, d, m)
    BY <1>1, <1>3, <2>2, RequestingGoes, FindWalletGoes, CreateWalletGoes, CreditWalletGoes, SaveSuccessGoes,
       UndoGoes DEF Serve
  <2> QED
    BY <2>3
<1> QED
  BY <1>1, <1>2, <1>3

-----------------------------------------------------------------------------
(* The top-up service has the same wallets.                                *)

LEMMA SameWallets ==
  /\ \A m : T!HasWallet(m) = HasWallet(m) /\ T!WalletCreate(m) = WalletCreate(m)
  /\ \A m, b : T!WalletSave(m, b) = WalletSave(m, b) /\ T!AddInt64(m, b) = AddInt64(m, b)
BY DEF T!HasWallet, HasWallet, T!WalletCreate, WalletCreate, T!WalletSave, WalletSave,
       T!AddInt64, AddInt64

LEMMA TopUpReplyType ==
  ASSUME NEW r \in T!Replies, T!Reply(r), faults \in FaultsSoFar
  PROVE  faults' \in FaultsSoFar
<1>1. Reply(r) /\ r \in Replies
  BY SameSets DEF T!Reply, T!Fault, Reply, Fault
<1> QED
  BY <1>1, ReplyType

TopUpRows == topups \in [TopUpIds -> T!TopUp \cup {NoTopUp}]

(* What a step leaves in the tables of the top-up service.                 *)
TablesGo ==
  /\ faults' \in FaultsSoFar
  /\ TopUpRows' /\ T!Stored \subseteq T!Stored'
  /\ topupGranted' \in [Merchants -> Nat] /\ topupAcked' \in [Merchants -> Nat]
  /\ topupCredited' \subseteq TopUpIds /\ topupSucceeded' \subseteq TopUpIds

TopUpGoes(s, d, m) ==
  /\ topupCalls' = [topupCalls EXCEPT ![s] = d]
  /\ d \in T!Call \cup {T!Idle}
  /\ d.step \notin {"idle", "insert"} => d.id \in T!Stored'
  /\ d.step # "idle" => d.row.merchant = m
  /\ topupCalls[s].step # "idle" => topupCalls[s].row.merchant = m
  /\ topupCalls[s].step # "idle" \/ d.step # "idle"
  /\ Moves(topupCalls[s], d, m)

TopUpSteps(s) == TablesGo /\ \E d : \E m \in Merchants : TopUpGoes(s, d, m)

RefundSumsStay == UNCHANGED <<granted, acked>>

LEMMA StayTopUpSums ==
  ASSUME RefundSumsStay, UNCHANGED <<topupGranted, topupAcked>>
  PROVE  SumsStay
BY DEF RefundSumsStay, SumsStay, AllGranted, AllAcked

LEMMA TopUpTypes ==
  ASSUME T!TypeOK
  PROVE  /\ faults \in FaultsSoFar /\ WalletsTypeOK /\ TopUpRows
         /\ topupCalls \in [Sessions -> T!Call \cup {T!Idle}]
         /\ topupGranted \in [Merchants -> Nat] /\ topupAcked \in [Merchants -> Nat]
         /\ topupCredited \subseteq TopUpIds /\ topupSucceeded \subseteq TopUpIds
BY SameSets DEF T!TypeOK, T!WalletsTypeOK, WalletsTypeOK, TopUpRows

LEMMA TopUpAt ==
  ASSUME T!TypeOK, TopUpsStored, NEW s \in Sessions, ~T!At(s, "idle")
  PROVE  /\ topupCalls[s] \in T!Call /\ topupCalls[s].step # "idle"
         /\ T!Id(s) = topupCalls[s].id /\ T!Row(s) = topupCalls[s].row
         /\ T!Owner(s) = topupCalls[s].row.merchant
         /\ T!Id(s) \in TopUpIds /\ T!Row(s) \in T!TopUp /\ T!Owner(s) \in Merchants
         /\ T!Row(s).amount \in Amount64 /\ topupCalls[s].base \in Int64
         /\ ~T!At(s, "insert") => T!Id(s) \in T!Stored
<1>1. topupCalls[s] \in T!Call /\ topupCalls[s].step # "idle"
  BY TopUpTypes DEF T!At, T!Idle
<1> QED
  BY <1>1, SameSets DEF T!Call, T!TopUp, T!Id, T!Row, T!Owner, T!At, TopUpsStored

LEMMA TopUpBegins ==
  ASSUME NEW s \in Sessions, NEW step \in T!Steps, NEW t \in TopUpIds, NEW row \in T!TopUp,
         T!Begin(s, step, t, row)
  PROVE  \E c \in T!Call : /\ topupCalls' = [topupCalls EXCEPT ![s] = c]
                           /\ c.step = step /\ c.id = t /\ c.row = row
<1> DEFINE d == [step |-> step, id |-> t, row |-> row, base |-> 0, created |-> FALSE]
<1>1. d \in T!Call /\ d.step = step /\ d.id = t /\ d.row = row
  BY ZeroIsInt64, SameSets DEF T!Call
<1>2. topupCalls' = [topupCalls EXCEPT ![s] = d]
  BY DEF T!Begin
<1> HIDE DEF d
<1> QED
  BY <1>1, <1>2

LEMMA TopUpGoesTo ==
  ASSUME NEW s \in Sessions, topupCalls[s] \in T!Call, NEW step \in T!Steps, T!GoTo(s, step)
  PROVE  \E c \in T!Call : /\ topupCalls' = [topupCalls EXCEPT ![s] = c]
                           /\ c.step = step /\ c.id = topupCalls[s].id /\ c.row = topupCalls[s].row
                           /\ c.base = topupCalls[s].base /\ c.created = topupCalls[s].created
<1> DEFINE d == [topupCalls[s] EXCEPT !.step = step]
<1>1. /\ d \in T!Call /\ d.step = step /\ d.id = topupCalls[s].id /\ d.row = topupCalls[s].row
      /\ d.base = topupCalls[s].base /\ d.created = topupCalls[s].created
  BY DEF T!Call
<1>2. topupCalls' = [topupCalls EXCEPT ![s] = d]
  BY DEF T!GoTo
<1> HIDE DEF d
<1> QED
  BY <1>1, <1>2

LEMMA TopUpMarks ==
  ASSUME NEW s \in Sessions, topupCalls[s] \in T!Call, NEW base \in Int64, NEW created \in BOOLEAN,
         T!MarkSuccess(s, base, created)
  PROVE  \/ T!Return(s)
         \/ \E c \in T!Call : /\ topupCalls' = [topupCalls EXCEPT ![s] = c]
                              /\ c.step = "credit" /\ c.id = topupCalls[s].id
                              /\ c.row.merchant = topupCalls[s].row.merchant
                              /\ c.base = base /\ c.created = created
<1> DEFINE d == [topupCalls[s] EXCEPT !.step = "credit", !.row.status = "SUCCESS",
                                      !.base = base, !.created = created]
<1>1. /\ d \in T!Call /\ d.step = "credit" /\ d.id = topupCalls[s].id
      /\ d.row.merchant = topupCalls[s].row.merchant
      /\ d.base = base /\ d.created = created
  BY SameSets DEF T!Call, T!TopUp, T!TopUpStatus, T!Steps
<1>2. T!Return(s) \/ topupCalls' = [topupCalls EXCEPT ![s] = d]
  BY DEF T!MarkSuccess
<1> HIDE DEF d
<1> QED
  BY <1>1, <1>2

-----------------------------------------------------------------------------
(* The tables.                                                             *)

LEMMA TablesKeep ==
  ASSUME T!TypeOK, faults' \in FaultsSoFar,
         UNCHANGED <<topups, topupGranted, topupAcked, topupCredited, topupSucceeded>>
  PROVE  TablesGo
BY TopUpTypes DEF TablesGo, TopUpRows, T!Stored

LEMMA NoTopUpIsNone == NoTopUp \notin T!TopUp
BY SandboxAssumption, SameSets DEF T!TopUp, T!TopUpStatus, TopUpStatus

LEMMA RowsInserted ==
  ASSUME T!TypeOK, NEW t \in TopUpIds, NEW row \in T!TopUp,
         topups' \in {topups, T!TopUpCreate(t, row)}
  PROVE  TopUpRows' /\ T!Stored \subseteq T!Stored'
<1>1. topups' = topups \/ topups' = [topups EXCEPT ![t] = row]
  BY DEF T!TopUpCreate
<1> QED
  BY <1>1, TopUpTypes, NoTopUpIsNone DEF TopUpRows, T!Stored

LEMMA RowsSaved ==
  ASSUME T!TypeOK, NEW t \in T!Stored, NEW row \in T!TopUp,
         topups' \in {topups, T!TopUpSave(t, row.status)}
  PROVE  TopUpRows' /\ T!Stored \subseteq T!Stored'
<1> DEFINE d == [topups[t] EXCEPT !.status = row.status]
<1>1. t \in TopUpIds /\ topups[t] \in T!TopUp /\ TopUpRows
  BY TopUpTypes DEF TopUpRows, T!Stored
<1>2. d \in T!TopUp
  BY <1>1 DEF T!TopUp
<1>3. topups' = topups \/ topups' = [topups EXCEPT ![t] = d]
  BY DEF T!TopUpSave
<1> HIDE DEF d
<1> QED
  BY <1>1, <1>2, <1>3, NoTopUpIsNone DEF TopUpRows, T!Stored

-----------------------------------------------------------------------------
(* The steps of a top-up request are moves too.                            *)

LEMMA TopUpWaits ==
  ASSUME SumsStay, UNCHANGED wallets, NEW s \in Sessions, NEW c \in T!Call, NEW m \in Merchants,
         topupCalls' = [topupCalls EXCEPT ![s] = c], c.step \notin Settling, c.step # "idle",
         c.step = "insert" \/ c.id \in T!Stored', c.row.merchant = m,
         ~T!At(s, "idle") => topupCalls[s].row.merchant = m
  PROVE  \E d : TopUpGoes(s, d, m)
<1>1. Moves(topupCalls[s], c, m)
  BY DEF Moves, Waits, Idles
<1> QED
  BY <1>1 DEF TopUpGoes, T!At

LEMMA TopUpReturns ==
  ASSUME T!TypeOK, TopUpsStored, NEW s \in Sessions, ~T!At(s, "idle"), T!Return(s),
         NEW m, m = T!Owner(s), Moves(topupCalls[s], T!Idle, m)
  PROVE  \E d : \E n \in Merchants : TopUpGoes(s, d, n)
<1>1. T!Idle.step = "idle" /\ topupCalls' = [topupCalls EXCEPT ![s] = T!Idle]
  BY DEF T!Idle, T!Return
<1>2. TopUpGoes(s, T!Idle, m)
  BY <1>1, TopUpAt DEF TopUpGoes
<1> QED
  BY <1>2, TopUpAt

LEMMA TopUpEnds ==
  ASSUME SumsStay, NEW c, NEW m, wallets' \in {wallets, WalletCreate(m)}
  PROVE  Moves(c, T!Idle, m)
BY DEF Moves, Waits, Idles, T!Idle, Settling

(* With the wallet at hand, the balance is what the credit starts from.    *)
LEMMA TopUpMarkGoes ==
  ASSUME T!TypeOK, TopUpsStored, T!Stored \subseteq T!Stored', SumsStay, NEW s \in Sessions,
         ~T!At(s, "idle"), ~T!At(s, "insert"), NEW m, m = T!Owner(s),
         NEW base \in Int64, NEW created \in BOOLEAN, T!MarkSuccess(s, base, created),
         wallets' = WalletCreate(m), wallets'[m] = base, created => base = 0
  PROVE  \E d : \E n \in Merchants : TopUpGoes(s, d, n)
<1>1. topupCalls[s] \in T!Call /\ topupCalls[s].step # "idle" /\ m = topupCalls[s].row.merchant
      /\ m \in Merchants /\ topupCalls[s].id \in T!Stored'
  BY TopUpAt
<1>2. CASE T!Return(s)
  BY <1>2, TopUpEnds, TopUpReturns
<1>3. ASSUME NEW c \in T!Call, topupCalls' = [topupCalls EXCEPT ![s] = c], c.step = "credit",
             c.id = topupCalls[s].id, c.row.merchant = topupCalls[s].row.merchant,
             c.base = base, c.created = created
      PROVE  TopUpGoes(s, c, m)
  <2>1. Moves(topupCalls[s], c, m)
    BY <1>3 DEF Moves, Reads
  <2> QED
    BY <1>1, <1>3, <2>1 DEF TopUpGoes
<1> QED
  BY <1>1, <1>2, <1>3, TopUpMarks

LEMMA RequestTopUpGoes ==
  ASSUME T!TypeOK, TopUpsStored, RefundSumsStay, NEW s \in Sessions, NEW t \in TopUpIds,
         NEW m \in Merchants, NEW a \in Amounts, NEW k \in Keys, T!RequestTopUp(s, t, m, a, k)
  PROVE  TopUpSteps(s)
<1> DEFINE row == [merchant |-> m, amount |-> a, status |-> "PENDING", key |-> k]
<1>1. /\ T!At(s, "idle") /\ T!Begin(s, "insert", t, row) /\ UNCHANGED wallets
      /\ UNCHANGED <<topups, topupGranted, topupAcked, topupCredited, topupSucceeded>>
  BY DEF T!RequestTopUp, T!history
<1>2. row \in T!TopUp /\ row.merchant = m
  <2>1. a > 0
    BY DEF T!RequestTopUp
  <2>2. a \in Amount64
    BY <2>1, InvoiceAssumption, Int64Assumption DEF Int64, Amount64
  <2> QED
    BY <2>2, SameSets DEF T!TopUp, T!TopUpStatus
<1>3. faults' \in FaultsSoFar
  <2>1. UNCHANGED faults \/ \E r \in T!Replies : T!Reply(r)
    BY DEF T!RequestTopUp
  <2> QED
    BY <2>1, TopUpTypes, TopUpReplyType
<1> HIDE DEF row
<1>4. TablesGo
  BY <1>1, <1>3, TablesKeep
<1>5. PICK c \in T!Call : topupCalls' = [topupCalls EXCEPT ![s] = c] /\ c.step = "insert" /\ c.row = row
  BY <1>1, <1>2, TopUpBegins DEF T!Steps
<1>6. SumsStay
  BY <1>1, StayTopUpSums
<1>7. \E d : TopUpGoes(s, d, m)
  BY <1>1, <1>2, <1>5, <1>6, TopUpWaits DEF Settling
<1> QED
  BY <1>4, <1>7 DEF TopUpSteps

LEMMA AdminGoes ==
  ASSUME T!TypeOK, TopUpsStored, RefundSumsStay, NEW s \in Sessions, NEW t \in TopUpIds,
         T!AdminSucceed(s, t) \/ T!AdminFail(s, t)
  PROVE  TopUpSteps(s)
<1>1. /\ T!At(s, "idle") /\ t \in T!Stored /\ UNCHANGED <<faults, wallets>>
      /\ UNCHANGED <<topups, topupGranted, topupAcked, topupCredited, topupSucceeded>>
  BY DEF T!AdminSucceed, T!AdminFail, T!history
<1>2. TablesGo /\ SumsStay /\ t \in T!Stored'
  <2>1. faults' \in FaultsSoFar
    BY <1>1, TopUpTypes
  <2>2. TablesGo
    BY <1>1, <2>1, TablesKeep
  <2> QED
    BY <1>1, <2>2, StayTopUpSums DEF TablesGo
<1>3. topups[t] \in T!TopUp
  BY <1>1, TopUpTypes DEF TopUpRows, T!Stored
<1>4. \E step \in {"findWallet", "saveFailed"}, row \in T!TopUp : T!Begin(s, step, t, row)
  <2>1. [topups[t] EXCEPT !.status = "FAILED"] \in T!TopUp
    BY <1>3 DEF T!TopUp, T!TopUpStatus
  <2> QED
    BY <1>3, <2>1 DEF T!AdminSucceed, T!AdminFail
<1>5. PICK step \in {"findWallet", "saveFailed"}, row \in T!TopUp : T!Begin(s, step, t, row)
  BY <1>4
<1>6. step \in T!Steps /\ step \notin Settling /\ step # "idle"
  BY <1>5 DEF T!Steps, Settling
<1>7. PICK c \in T!Call : /\ topupCalls' = [topupCalls EXCEPT ![s] = c]
                          /\ c.step = step /\ c.id = t /\ c.row = row
  BY <1>5, <1>6, TopUpBegins
<1>8. row.merchant \in Merchants
  BY DEF T!TopUp
<1>9. \E d : TopUpGoes(s, d, row.merchant)
  BY <1>1, <1>2, <1>6, <1>7, <1>8, TopUpWaits
<1> QED
  BY <1>2, <1>8, <1>9 DEF TopUpSteps

LEMMA InsertTopUpGoes ==
  ASSUME T!TypeOK, TopUpsStored, RefundSumsStay, NEW s \in Sessions, T!InsertTopUp(s)
  PROVE  TopUpSteps(s)
<1>1. /\ ~T!At(s, "idle") /\ T!Return(s) /\ faults' \in FaultsSoFar
      /\ UNCHANGED <<wallets, topupGranted, topupAcked, topupCredited, topupSucceeded>>
      /\ topups' \in {topups, T!TopUpCreate(T!Id(s), T!Row(s))}
  BY TopUpTypes, TopUpReplyType DEF T!InsertTopUp, T!history, T!At
<1>2. TablesGo
  BY <1>1, TopUpAt, RowsInserted, TopUpTypes DEF TablesGo
<1>3. PICK m : m = T!Owner(s)
  OBVIOUS
<1>4. Moves(topupCalls[s], T!Idle, m)
  BY <1>1, StayTopUpSums, TopUpEnds
<1> QED
  BY <1>1, <1>2, <1>3, <1>4, TopUpReturns DEF TopUpSteps

LEMMA SaveFailedGoes ==
  ASSUME T!TypeOK, TopUpsStored, RefundSumsStay, NEW s \in Sessions, T!SaveFailed(s)
  PROVE  TopUpSteps(s)
<1>1. /\ ~T!At(s, "idle") /\ ~T!At(s, "insert") /\ T!Return(s) /\ faults' \in FaultsSoFar
      /\ UNCHANGED <<wallets, topupGranted, topupAcked, topupCredited, topupSucceeded>>
      /\ topups' \in {topups, T!TopUpSave(T!Id(s), T!Row(s).status)}
  BY TopUpTypes, TopUpReplyType DEF T!SaveFailed, T!history, T!At
<1>2. TablesGo
  BY <1>1, TopUpAt, RowsSaved, TopUpTypes DEF TablesGo
<1>3. PICK m : m = T!Owner(s)
  OBVIOUS
<1>4. Moves(topupCalls[s], T!Idle, m)
  BY <1>1, StayTopUpSums, TopUpEnds
<1> QED
  BY <1>1, <1>2, <1>3, <1>4, TopUpReturns DEF TopUpSteps

LEMMA TopUpFindWalletGoes ==
  ASSUME T!TypeOK, TopUpsStored, RefundSumsStay, NEW s \in Sessions, T!FindWallet(s)
  PROVE  TopUpSteps(s)
<1>1. /\ ~T!At(s, "idle") /\ ~T!At(s, "insert") /\ faults' \in FaultsSoFar /\ UNCHANGED wallets
      /\ UNCHANGED <<topups, topupGranted, topupAcked, topupCredited, topupSucceeded>>
  BY TopUpTypes, TopUpReplyType DEF T!FindWallet, T!history, T!At
<1>2. TablesGo /\ SumsStay
  BY <1>1, TablesKeep, StayTopUpSums
<1>3. PICK m, b : m = T!Owner(s) /\ b = wallets[m]
  OBVIOUS
<1>4. /\ topupCalls[s] \in T!Call /\ m = topupCalls[s].row.merchant /\ m \in Merchants
      /\ topupCalls[s].id \in T!Stored'
  BY <1>1, <1>2, <1>3, TopUpAt DEF TablesGo
<1>5. CASE T!Return(s)
  BY <1>1, <1>2, <1>5, TopUpEnds, TopUpReturns DEF TopUpSteps
<1>6. CASE T!HasWallet(m) /\ T!MarkSuccess(s, b, FALSE)
  <2>1. /\ b \in Int64 /\ wallets' = WalletCreate(m) /\ wallets'[m] = b
    <3>1. HasWallet(m)
      BY <1>6, SameWallets
    <3>2. wallets[m] \in Int64 \cup {NoWallet}
      BY <1>4, TopUpTypes DEF WalletsTypeOK
    <3> QED
      BY <1>1, <1>3, <3>1, <3>2 DEF HasWallet, WalletCreate
  <2>2. FALSE \in BOOLEAN /\ T!MarkSuccess(s, b, FALSE)
    BY <1>6
  <2>3. T!Stored \subseteq T!Stored'
    BY <1>2 DEF TablesGo
  <2> QED
    BY <1>1, <1>2, <1>3, <2>1, <2>2, <2>3, TopUpMarkGoes DEF TopUpSteps
<1>7. CASE T!GoTo(s, "createWallet")
  <2>1. PICK c \in T!Call : /\ topupCalls' = [topupCalls EXCEPT ![s] = c] /\ c.step = "createWallet"
                            /\ c.id = topupCalls[s].id /\ c.row = topupCalls[s].row
    BY <1>4, <1>7, TopUpGoesTo DEF T!Steps
  <2>2. \E d : TopUpGoes(s, d, m)
    BY <1>1, <1>2, <1>4, <2>1, TopUpWaits DEF Settling
  <2> QED
    BY <1>2, <1>4, <2>2 DEF TopUpSteps
<1> QED
  BY <1>3, <1>5, <1>6, <1>7 DEF T!FindWallet

LEMMA TopUpCreateWalletGoes ==
  ASSUME T!TypeOK, TopUpsStored, RefundSumsStay, NEW s \in Sessions, T!CreateWallet(s)
  PROVE  TopUpSteps(s)
<1>1. /\ ~T!At(s, "idle") /\ ~T!At(s, "insert") /\ faults' \in FaultsSoFar
      /\ UNCHANGED <<topups, topupGranted, topupAcked, topupCredited, topupSucceeded>>
  BY TopUpTypes, TopUpReplyType DEF T!CreateWallet, T!history, T!At
<1>2. TablesGo /\ SumsStay
  BY <1>1, TablesKeep, StayTopUpSums
<1>3. PICK m : m = T!Owner(s)
  OBVIOUS
<1>4. m \in Merchants
  BY <1>1, <1>3, TopUpAt
<1>5. /\ wallets' \in {wallets, WalletCreate(m)}
      /\ \/ T!Return(s)
         \/ ~HasWallet(m) /\ T!MarkSuccess(s, 0, TRUE) /\ wallets' = WalletCreate(m)
  BY <1>3, SameWallets DEF T!CreateWallet, T!Executed
<1>6. CASE T!Return(s)
  <2>1. Moves(topupCalls[s], T!Idle, m)
    BY <1>2, <1>5, TopUpEnds
  <2> QED
    BY <1>1, <1>2, <1>3, <1>6, <2>1, TopUpReturns DEF TopUpSteps
<1>7. CASE ~HasWallet(m) /\ T!MarkSuccess(s, 0, TRUE) /\ wallets' = WalletCreate(m)
  <2>1. wallets'[m] = 0
    BY <1>4, <1>7, TopUpTypes DEF WalletCreate, WalletsTypeOK
  <2>2. T!Stored \subseteq T!Stored'
    BY <1>2 DEF TablesGo
  <2> QED
    BY <1>1, <1>2, <1>3, <1>7, <2>1, <2>2, TopUpMarkGoes, ZeroIsInt64 DEF TopUpSteps
<1> QED
  BY <1>5, <1>6, <1>7

LEMMA TopUpCreditGoes ==
  ASSUME TypeOK, T!TypeOK, TopUpsStored, RefundSumsStay, NEW s \in Sessions, T!CreditWallet(s)
  PROVE  TopUpSteps(s)
<1>1. /\ ~T!At(s, "idle") /\ ~T!At(s, "insert") /\ topupCalls[s].step = "credit"
      /\ faults' \in FaultsSoFar /\ UNCHANGED <<topups, topupAcked, topupSucceeded>>
  BY TopUpTypes, TopUpReplyType DEF T!CreditWallet, T!At
<1>2. PICK m, a : m = T!Owner(s) /\ a = T!Row(s).amount
  OBVIOUS
<1>3. /\ topupCalls[s] \in T!Call /\ topupCalls[s].step # "idle" /\ m \in Merchants /\ a \in Nat
      /\ m = topupCalls[s].row.merchant /\ a = topupCalls[s].row.amount
      /\ T!Id(s) \in TopUpIds /\ topupCalls[s].id \in T!Stored
  BY <1>1, <1>2, TopUpAt DEF Amount64
<1>4. \/ T!Return(s) /\ UNCHANGED <<wallets, topupGranted, topupCredited>>
      \/ /\ T!Return(s) \/ T!GoTo(s, "saveSuccess")
         /\ wallets' = WalletSave(m, AddInt64(topupCalls[s].base, a))
         /\ topupGranted' = [topupGranted EXCEPT ![m] = @ + a]
         /\ topupCredited' = topupCredited \cup {T!Id(s)}
  BY <1>2, SameWallets DEF T!CreditWallet, T!Executed
<1>5. CASE T!Return(s) /\ UNCHANGED <<wallets, topupGranted, topupCredited>>
  <2>1. TablesGo /\ SumsStay
    BY <1>1, <1>5, TablesKeep, StayTopUpSums
  <2> QED
    BY <1>1, <1>5, <2>1, TopUpEnds, TopUpReturns DEF TopUpSteps
<1>6. CASE /\ T!Return(s) \/ T!GoTo(s, "saveSuccess")
           /\ wallets' = WalletSave(m, AddInt64(topupCalls[s].base, a))
           /\ topupGranted' = [topupGranted EXCEPT ![m] = @ + a]
           /\ topupCredited' = topupCredited \cup {T!Id(s)}
  <2>1. /\ topupGranted'[m] = topupGranted[m] + a
        /\ \A n \in Merchants \ {m} : topupGranted'[n] = topupGranted[n]
        /\ topupGranted' \in [Merchants -> Nat]
    BY <1>3, <1>6, TopUpTypes
  <2>2. /\ AllGranted(m)' = AllGranted(m) + a
        /\ \A n \in Merchants \ {m} : AllGranted(n)' = AllGranted(n)
        /\ \A n \in Merchants : AllAcked(n)' = AllAcked(n)
    <3>1. granted[m] \in Nat /\ topupGranted[m] \in Nat
      BY <1>3, TopUpTypes DEF TypeOK
    <3> QED
      BY <1>1, <1>3, <2>1, <3>1 DEF RefundSumsStay, AllGranted, AllAcked
  <2>3. TablesGo
    BY <1>1, <1>3, <1>6, <2>1, TopUpTypes DEF TablesGo, TopUpRows, T!Stored
  <2>4. ASSUME NEW d, Idles(d) \/ (d.step = "saveSuccess" /\ Keeping(topupCalls[s], d))
        PROVE  Moves(topupCalls[s], d, m)
    BY <1>1, <1>3, <1>6, <2>2, <2>4 DEF Moves, Credits
  <2>5. CASE T!Return(s)
    <3>1. Idles(T!Idle)
      BY DEF Idles, T!Idle, Settling
    <3>2. Moves(topupCalls[s], T!Idle, m)
      BY <1>2, <2>4, <3>1
    <3> QED
      BY <1>1, <1>2, <2>3, <2>5, <3>2, TopUpReturns DEF TopUpSteps
  <2>6. CASE T!GoTo(s, "saveSuccess")
    <3>1. PICK c \in T!Call : /\ topupCalls' = [topupCalls EXCEPT ![s] = c]
                              /\ c.step = "saveSuccess" /\ c.id = topupCalls[s].id
                              /\ c.row = topupCalls[s].row
                              /\ c.base = topupCalls[s].base /\ c.created = topupCalls[s].created
      BY <1>3, <2>6, TopUpGoesTo DEF T!Steps
    <3>2. Moves(topupCalls[s], c, m)
      BY <2>4, <3>1 DEF Keeping
    <3>3. c.id \in T!Stored'
      BY <1>3, <2>3, <3>1 DEF TablesGo
    <3>4. TopUpGoes(s, c, m)
      BY <1>3, <3>1, <3>2, <3>3 DEF TopUpGoes
    <3> QED
      BY <1>3, <2>3, <3>4 DEF TopUpSteps
  <2> QED
    BY <1>6, <2>5, <2>6
<1> QED
  BY <1>4, <1>5, <1>6

LEMMA TopUpSaveSuccessGoes ==
  ASSUME TypeOK, T!TypeOK, TopUpsStored, RefundSumsStay, NEW s \in Sessions, T!SaveSuccess(s)
  PROVE  TopUpSteps(s)
<1>1. /\ ~T!At(s, "idle") /\ ~T!At(s, "insert") /\ topupCalls[s].step = "saveSuccess"
      /\ faults' \in FaultsSoFar /\ UNCHANGED <<wallets, topupGranted, topupCredited>>
      /\ topups' \in {topups, T!TopUpSave(T!Id(s), T!Row(s).status)}
  BY TopUpTypes, TopUpReplyType DEF T!SaveSuccess, T!At
<1>2. PICK m, a : m = T!Owner(s) /\ a = T!Row(s).amount
  OBVIOUS
<1>3. /\ topupCalls[s] \in T!Call /\ topupCalls[s].step # "idle" /\ m \in Merchants /\ a \in Nat
      /\ m = topupCalls[s].row.merchant /\ a = topupCalls[s].row.amount
      /\ T!Id(s) \in TopUpIds /\ topupCalls[s].id \in T!Stored
  BY <1>1, <1>2, TopUpAt DEF Amount64
<1>4. TopUpRows' /\ T!Stored \subseteq T!Stored'
  BY <1>1, TopUpAt, RowsSaved
<1>5. \/ /\ T!Return(s) /\ topupAcked' = [topupAcked EXCEPT ![m] = @ + a]
         /\ topupSucceeded' = topupSucceeded \cup {T!Id(s)}
      \/ T!GoTo(s, "undo") /\ UNCHANGED <<topupAcked, topupSucceeded>>
  BY <1>2 DEF T!SaveSuccess
<1>6. CASE /\ T!Return(s) /\ topupAcked' = [topupAcked EXCEPT ![m] = @ + a]
           /\ topupSucceeded' = topupSucceeded \cup {T!Id(s)}
  <2>1. /\ topupAcked'[m] = topupAcked[m] + a
        /\ \A n \in Merchants \ {m} : topupAcked'[n] = topupAcked[n]
        /\ topupAcked' \in [Merchants -> Nat]
    BY <1>3, <1>6, TopUpTypes
  <2>2. /\ AllAcked(m)' = AllAcked(m) + a
        /\ \A n \in Merchants \ {m} : AllAcked(n)' = AllAcked(n)
        /\ \A n \in Merchants : AllGranted(n)' = AllGranted(n)
    <3>1. acked[m] \in Nat /\ topupAcked[m] \in Nat
      BY <1>3, TopUpTypes DEF TypeOK
    <3> QED
      BY <1>1, <1>3, <2>1, <3>1 DEF RefundSumsStay, AllGranted, AllAcked
  <2>3. TablesGo
    BY <1>1, <1>3, <1>4, <1>6, <2>1, TopUpTypes DEF TablesGo
  <2>4. Moves(topupCalls[s], T!Idle, m)
    BY <1>1, <1>2, <1>3, <2>2 DEF Moves, Answers, Idles, T!Idle, Settling
  <2> QED
    BY <1>1, <1>2, <1>6, <2>3, <2>4, TopUpReturns DEF TopUpSteps
<1>7. CASE T!GoTo(s, "undo") /\ UNCHANGED <<topupAcked, topupSucceeded>>
  <2>1. TablesGo /\ SumsStay
    BY <1>1, <1>4, <1>7, TopUpTypes, StayTopUpSums DEF TablesGo
  <2>2. PICK c \in T!Call : /\ topupCalls' = [topupCalls EXCEPT ![s] = c]
                            /\ c.step = "undo" /\ c.id = topupCalls[s].id
                            /\ c.row = topupCalls[s].row
                            /\ c.base = topupCalls[s].base /\ c.created = topupCalls[s].created
    BY <1>3, <1>7, TopUpGoesTo DEF T!Steps
  <2>3. Moves(topupCalls[s], c, m)
    BY <1>1, <2>1, <2>2 DEF Moves, GivesUp, Keeping
  <2>4. TopUpGoes(s, c, m)
    BY <1>3, <1>4, <2>2, <2>3 DEF TopUpGoes
  <2> QED
    BY <1>3, <2>1, <2>4 DEF TopUpSteps
<1> QED
  BY <1>5, <1>6, <1>7

LEMMA TopUpUndoGoes ==
  ASSUME T!TypeOK, TopUpsStored, RefundSumsStay, NEW s \in Sessions,
         T!UndoCredit(s) \/ T!UndoCreated(s)
  PROVE  TopUpSteps(s)
<1>1. /\ ~T!At(s, "idle") /\ ~T!At(s, "insert") /\ faults' \in FaultsSoFar
      /\ UNCHANGED <<topups, topupGranted, topupAcked, topupCredited, topupSucceeded>>
  BY TopUpTypes, TopUpReplyType DEF T!UndoCredit, T!UndoCreated, T!history, T!At
<1>2. TablesGo /\ SumsStay
  BY <1>1, TablesKeep, StayTopUpSums
<1>3. PICK m : m = T!Owner(s)
  OBVIOUS
<1>4. /\ topupCalls[s] \in T!Call /\ topupCalls[s].step # "idle" /\ m \in Merchants
      /\ m = topupCalls[s].row.merchant /\ topupCalls[s].id \in T!Stored'
  BY <1>1, <1>2, <1>3, TopUpAt DEF TablesGo
<1>5. \/ /\ topupCalls[s].step = "undo"
         /\ wallets' \in {wallets, WalletSave(m, topupCalls[s].base)}
         /\ T!Return(s) \/ (topupCalls[s].created /\ T!GoTo(s, "undoCreated"))
      \/ /\ topupCalls[s].step = "undoCreated"
         /\ wallets' \in {wallets, WalletSave(m, 0)}
         /\ T!Return(s)
  BY <1>3, SameWallets DEF T!UndoCredit, T!UndoCreated, T!At
<1>6. CASE T!Return(s)
  <2>1. Moves(topupCalls[s], T!Idle, m)
    BY <1>2, <1>3, <1>5 DEF Moves, RollsBack, Empties, Idles, T!Idle, Settling
  <2> QED
    BY <1>1, <1>2, <1>3, <1>6, <2>1, TopUpReturns DEF TopUpSteps
<1>7. CASE /\ topupCalls[s].step = "undo"
           /\ wallets' \in {wallets, WalletSave(m, topupCalls[s].base)}
           /\ topupCalls[s].created /\ T!GoTo(s, "undoCreated")
  <2>1. PICK c \in T!Call : /\ topupCalls' = [topupCalls EXCEPT ![s] = c] /\ c.step = "undoCreated"
                            /\ c.id = topupCalls[s].id /\ c.row = topupCalls[s].row
    BY <1>4, <1>7, TopUpGoesTo DEF T!Steps
  <2>2. Moves(topupCalls[s], c, m)
    BY <1>2, <1>7, <2>1 DEF Moves, RollsBack
  <2>3. TopUpGoes(s, c, m)
    BY <1>4, <2>1, <2>2 DEF TopUpGoes
  <2> QED
    BY <1>2, <1>4, <2>3 DEF TopUpSteps
<1> QED
  BY <1>5, <1>6, <1>7

LEMMA TopUpRequestGoes ==
  ASSUME TypeOK, T!TypeOK, TopUpsStored, NEW s \in Sessions, TopUpRequest(s)
  PROVE  TopUpSteps(s)
<1>1. RefundSumsStay /\ T!Serve(s)
  BY DEF TopUpRequest, refundTables, history, RefundSumsStay
<1> QED
  BY <1>1, RequestTopUpGoes, AdminGoes, InsertTopUpGoes, SaveFailedGoes, TopUpFindWalletGoes,
     TopUpCreateWalletGoes, TopUpCreditGoes, TopUpSaveSuccessGoes, TopUpUndoGoes DEF T!Serve

-----------------------------------------------------------------------------
(* Every step of the two services together.                                *)

LEMMA SumsAreTyped ==
  ASSUME TypeOK, T!TypeOK
  PROVE  SumsType
BY DEF TypeOK, T!TypeOK, SumsType, AllGranted, AllAcked

LEMMA IdleIsIdle ==
  ASSUME TypeOK, T!TypeOK, NEW s \in Sessions
  PROVE  /\ T!Idle = Idle /\ Idle.step = "idle"
         /\ At(s, "idle") => calls[s] = Idle
         /\ T!At(s, "idle") => topupCalls[s] = Idle
BY DEF TypeOK, T!TypeOK, Call, T!Call, Steps, T!Steps, At, T!At, Idle, T!Idle

(* The tables of refunds and invoices stay, and so do the requests.        *)
LEMMA RefundsAside ==
  ASSUME Inv, BookInv, TablesStay, UNCHANGED calls, faults' \in FaultsSoFar, WalletsTypeOK'
  PROVE  Inv' /\ BookInv'
<1>1. UNCHANGED <<invoices, issued, paidFor, now, refunds, granted, acked, approved, credited>>
  BY DEF TablesStay, history
<1>2. Filed' = Filed
  BY <1>1 DEF Filed
<1>3. TypeOK'
  BY <1>1 DEF Inv, TypeOK, InvoicesTypeOK
<1>4. Tables'
  BY <1>1, <1>2 DEF Inv, Tables, IssuedKnown, ApprovedKnown, PaidStands, InvoicesWerePaid, WasPaid, InvoiceExists,
                    SuccessWasCredited, CreditedWasApproved
<1>5. Keeps
  BY <1>1, <1>2 DEF Keeps
<1>6. Inv'
  BY <1>3, <1>4, <1>5, OtherFits DEF Inv, CallsFit
<1> QED
  BY <1>1, <1>6, StayKeeps, OthersBook

(* A move of one session keeps what holds of the shared wallets.           *)
LEMMA MoveShared ==
  ASSUME TypeOK, SharedInv, OneService', NEW s \in Sessions, NEW d, NEW m \in Merchants,
         Goes(s, d, m), OthersWait(s), overlapped' = (overlapped \/ Overlapping')
  PROVE  /\ WalletsTypeOK' /\ NothingMinted' /\ AllBacked'
         /\ overlapped' \in BOOLEAN /\ (~overlapped' => NoneMet')
<1>1. T!TypeOK /\ OneService /\ NothingMinted /\ AllBacked /\ (~overlapped => NoneMet)
  BY DEF SharedInv
<1>2. SumsType /\ CallsTyped /\ BusyKnown /\ WalletsTypeOK
  BY <1>1, SumsAreTyped, CallsAreTyped, BusyIsKnown DEF TypeOK
<1>3. BusyKnown'
  BY DEF OneService, BusyKnown, Busy, CallOf, At, T!At
<1>4. overlapped' \in BOOLEAN
  OBVIOUS
<1> QED
  BY <1>1, <1>2, <1>3, <1>4, GoesShared

LEMMA RefundStep ==
  ASSUME SandboxInv, NEW s \in Sessions, RefundRequest(s),
         overlapped' = (overlapped \/ Overlapping')
  PROVE  SandboxInv'
<1>1. /\ T!At(s, "idle") /\ [Next]_vars
      /\ UNCHANGED <<topups, topupCalls, topupGranted, topupAcked, topupCredited, topupSucceeded>>
  BY DEF RefundRequest, Next, topupTables
<1>2. Inv /\ BookInv /\ SharedInv /\ TypeOK /\ T!TypeOK
  BY DEF SandboxInv, SharedInv, Inv
<1>3. Inv' /\ BookInv' /\ TypeOK'
  BY <1>1, <1>2, StepInv, StepBook DEF Inv
<1>4. T!TypeOK'
  BY <1>1, <1>2, <1>3, SameSets DEF TypeOK, WalletsTypeOK, T!TypeOK, T!WalletsTypeOK
<1>5. PICK d : \E m \in Merchants : RefundGoes(s, d, m)
  BY <1>2, RefundRequestGoes
<1>6. PICK m \in Merchants : RefundGoes(s, d, m)
  BY <1>5
<1>7. calls' = [calls EXCEPT ![s] = d] /\ calls'[s] = d
  BY <1>2, <1>6 DEF RefundGoes, TypeOK
<1>8. CallOf(s) = calls[s] /\ (calls[s].step # "idle" => OwnerOf(s) = Issuer[calls[s].row.invoice])
  BY <1>1, <1>2, IdleIsIdle DEF CallOf, OwnerOf, At
<1>9. CallOf(s)' = d /\ (d.step # "idle" => OwnerOf(s)' = Issuer[d.row.invoice])
  <2>1. d.step = "idle" => d = Idle
    BY <1>3, <1>7 DEF TypeOK, Call, Steps
  <2>2. topupCalls'[s] = Idle
    BY <1>1, <1>2, IdleIsIdle
  <2> QED
    BY <1>7, <2>1, <2>2 DEF CallOf, OwnerOf, At
<1>10. Goes(s, d, m)
  BY <1>6, <1>8, <1>9 DEF RefundGoes, Goes
<1>11. \A t \in Sessions \ {s} : calls'[t] = calls[t] /\ topupCalls'[t] = topupCalls[t]
  BY <1>1, <1>2, <1>7 DEF TypeOK
<1>12. OthersWait(s)
  BY <1>11 DEF OthersWait, CallOf, OwnerOf, At
<1>13. OneService'
  BY <1>1, <1>2, <1>11 DEF SharedInv, OneService, At, T!At
<1>14. TopUpsStored'
  BY <1>1, <1>2 DEF SharedInv, TopUpsStored, T!Stored
<1>15. NothingMinted' /\ AllBacked' /\ overlapped' \in BOOLEAN /\ (~overlapped' => NoneMet')
  BY <1>2, <1>10, <1>12, <1>13, MoveShared
<1> QED
  BY <1>3, <1>4, <1>13, <1>14, <1>15 DEF SandboxInv, SharedInv

LEMMA TopUpStep ==
  ASSUME SandboxInv, NEW s \in Sessions, TopUpRequest(s),
         overlapped' = (overlapped \/ Overlapping')
  PROVE  SandboxInv'
<1>1. At(s, "idle") /\ TablesStay /\ UNCHANGED calls
  BY DEF TopUpRequest, refundTables, TablesStay
<1>2. Inv /\ BookInv /\ SharedInv /\ TypeOK /\ T!TypeOK /\ TopUpsStored
  BY DEF SandboxInv, SharedInv, Inv
<1>3. TablesGo /\ \E d : \E m \in Merchants : TopUpGoes(s, d, m)
  BY <1>2, TopUpRequestGoes DEF TopUpSteps
<1>4. PICK d : \E m \in Merchants : TopUpGoes(s, d, m)
  BY <1>3
<1>5. PICK m \in Merchants : TopUpGoes(s, d, m)
  BY <1>4
<1>6. topupCalls' = [topupCalls EXCEPT ![s] = d] /\ topupCalls'[s] = d /\ d \in T!Call \cup {T!Idle}
  BY <1>2, <1>5 DEF TopUpGoes, T!TypeOK
<1>7. /\ CallOf(s) = topupCalls[s] /\ OwnerOf(s) = topupCalls[s].row.merchant
      /\ CallOf(s)' = d /\ OwnerOf(s)' = d.row.merchant
  BY <1>1, <1>6 DEF CallOf, OwnerOf, At
<1>8. Goes(s, d, m)
  BY <1>5, <1>7 DEF TopUpGoes, Goes
<1>9. \A t \in Sessions \ {s} : calls'[t] = calls[t] /\ topupCalls'[t] = topupCalls[t]
  BY <1>1, <1>2, <1>6 DEF T!TypeOK
<1>10. OthersWait(s)
  BY <1>9 DEF OthersWait, CallOf, OwnerOf, At
<1>11. OneService'
  BY <1>1, <1>2, <1>9 DEF SharedInv, OneService, At, T!At
<1>12. /\ WalletsTypeOK' /\ NothingMinted' /\ AllBacked'
       /\ overlapped' \in BOOLEAN /\ (~overlapped' => NoneMet')
  BY <1>2, <1>8, <1>10, <1>11, MoveShared
<1>13. Inv' /\ BookInv'
  BY <1>1, <1>2, <1>3, <1>12, RefundsAside DEF TablesGo
<1>14. T!TypeOK'
  <2>1. topupCalls' \in [Sessions -> T!Call \cup {T!Idle}]
    BY <1>2, <1>6 DEF T!TypeOK
  <2> QED
    BY <1>3, <1>12, <2>1, SameSets DEF TablesGo, TopUpRows, WalletsTypeOK, T!TypeOK, T!WalletsTypeOK
<1>15. TopUpsStored'
  <2>1. ASSUME NEW t \in Sessions \ {s}, topupCalls[t].step \notin {"idle", "insert"}
        PROVE  topupCalls[t].id \in T!Stored'
    BY <1>2, <1>3, <2>1 DEF TopUpsStored, TablesGo
  <2> QED
    BY <1>5, <1>6, <1>9, <2>1 DEF TopUpGoes, TopUpsStored
<1> QED
  BY <1>11, <1>12, <1>13, <1>14, <1>15 DEF SandboxInv, SharedInv

(* Nothing happens to the wallets and the requests.                        *)
LEMMA SharedStays ==
  ASSUME SharedInv,
         UNCHANGED <<faults, wallets, calls, granted, acked, topups, topupCalls, topupGranted,
                     topupAcked, topupCredited, topupSucceeded>>,
         overlapped' = overlapped \/ overlapped' = (overlapped \/ Overlapping')
  PROVE  SharedInv'
<1>1. T!TypeOK'
  BY DEF SharedInv, T!TypeOK, T!WalletsTypeOK
<1>2. TopUpsStored' /\ OneService' /\ NothingMinted'
  BY DEF SharedInv, TopUpsStored, T!Stored, OneService, At, T!At, NothingMinted, Balance, HasWallet
<1>3. \A s \in Sessions : CallOf(s)' = CallOf(s) /\ OwnerOf(s)' = OwnerOf(s)
  BY DEF CallOf, OwnerOf, At
<1>4. AllBacked'
  BY <1>3 DEF SharedInv, AllBacked, Backed, AllGranted
<1>5. Overlapping' = Overlapping
  BY DEF Overlapping, Busy, At, T!At
<1>6. NoneMet => NoneMet'
  BY <1>3, <1>5 DEF NoneMet, Covers, Knows, Fine, AllGranted, AllAcked, Balance, HasWallet
<1>7. overlapped \in BOOLEAN /\ overlapped' \in BOOLEAN /\ (~overlapped' => ~overlapped)
  BY DEF SharedInv
<1> QED
  BY <1>1, <1>2, <1>4, <1>6, <1>7 DEF SharedInv

LEMMA CrashStep ==
  ASSUME SandboxInv, SandboxCrash, overlapped' = (overlapped \/ Overlapping')
  PROVE  SandboxInv'
<1>1. /\ calls' = [s \in Sessions |-> Idle] /\ topupCalls' = [s \in Sessions |-> T!Idle]
      /\ CrashFault /\ TablesStay
      /\ UNCHANGED <<wallets, granted, acked, topups, topupGranted, topupAcked, topupCredited,
                     topupSucceeded>>
  BY DEF SandboxCrash, TablesStay, history
<1>2. Inv /\ BookInv /\ SharedInv /\ TypeOK /\ T!TypeOK
  BY DEF SandboxInv, SharedInv, Inv
<1>3. faults' \in FaultsSoFar /\ WalletsTypeOK'
  BY <1>1, <1>2, CrashFaultType DEF TypeOK, WalletsTypeOK
<1>4. Inv' /\ BookInv'
  <2>1. CASE \E s \in Sessions : ~At(s, "idle")
    <3>1. Crash
      BY <1>1, <2>1 DEF Crash, TablesStay
    <3> QED
      BY <1>2, <3>1, CrashInv, CrashBook
  <2>2. CASE \A s \in Sessions : At(s, "idle")
    <3>1. calls' = calls
      BY <1>1, <1>2, <2>2, IdleIsIdle DEF TypeOK
    <3> QED
      BY <1>1, <1>2, <1>3, <3>1, RefundsAside
  <2> QED
    BY <2>1, <2>2
<1>5. T!TypeOK'
  BY <1>1, <1>2, <1>3, SameSets DEF WalletsTypeOK, T!TypeOK, T!WalletsTypeOK
<1>6. \A s \in Sessions : /\ At(s, "idle")' /\ T!At(s, "idle")'
                          /\ topupCalls'[s].step = "idle" /\ CallOf(s)'.step = "idle"
  BY <1>1 DEF At, T!At, CallOf, Idle, T!Idle
<1>7. TopUpsStored' /\ OneService' /\ AllBacked'
  BY <1>6 DEF TopUpsStored, OneService, AllBacked, Backed, Holding
<1>8. NothingMinted' /\ ~Overlapping'
  BY <1>1, <1>2, <1>6 DEF SharedInv, NothingMinted, Balance, HasWallet, Overlapping, Busy
<1>9. overlapped' \in BOOLEAN /\ (~overlapped' => NoneMet')
  <2>1. overlapped' = overlapped
    BY <1>2, <1>8 DEF SharedInv
  <2>2. \A s \in Sessions : Knows(CallOf(s), OwnerOf(s))'
    BY <1>6 DEF Knows, Settling
  <2>3. \A m \in Merchants : Covers(m) => Covers(m)'
    BY <1>1 DEF Covers, Fine, AllGranted, AllAcked, Balance, HasWallet
  <2> QED
    BY <1>2, <1>8, <2>1, <2>2, <2>3 DEF SharedInv, NoneMet
<1> QED
  BY <1>4, <1>5, <1>7, <1>8, <1>9 DEF SandboxInv, SharedInv

LEMMA OtherStep ==
  ASSUME SandboxInv,
         \/ /\ (Invoicing \/ TimePasses) /\ UNCHANGED topupTables
            /\ overlapped' = (overlapped \/ Overlapping')
         \/ SandboxQuiet
         \/ UNCHANGED sandboxVars
  PROVE  SandboxInv'
<1>1. Inv /\ BookInv /\ SharedInv
  BY DEF SandboxInv
<1>2. [Next]_vars
  BY DEF SandboxQuiet, sandboxVars, Next
<1>3. Inv' /\ BookInv'
  BY <1>1, <1>2, StepInv, StepBook
<1>4. UNCHANGED <<faults, wallets, calls, granted, acked>>
  BY DEF Invoicing, IssueInvoice, RewriteInvoice, DeleteInvoice, TimePasses, SandboxQuiet, Quiet, sandboxVars, vars, history
<1>5. UNCHANGED <<topups, topupCalls, topupGranted, topupAcked, topupCredited, topupSucceeded>>
  BY DEF topupTables, SandboxQuiet, T!Quiet, T!vars, sandboxVars
<1>6. overlapped' = overlapped \/ overlapped' = (overlapped \/ Overlapping')
  BY DEF SandboxQuiet, sandboxVars
<1>7. SharedInv'
  BY <1>1, <1>4, <1>5, <1>6, SharedStays
<1> QED
  BY <1>3, <1>7 DEF SandboxInv

LEMMA SandboxStep == SandboxInv /\ [SandboxNext]_sandboxVars => SandboxInv'
BY RefundStep, TopUpStep, CrashStep, OtherStep DEF SandboxNext

LEMMA SandboxInitInv == SandboxInit => SandboxInv
<1> SUFFICES ASSUME SandboxInit PROVE SandboxInv
  OBVIOUS
<1>1. Inv /\ BookInv /\ TypeOK
  BY InitInv, InitBook DEF SandboxInit, Inv
<1>2. T!TypeOK
  BY <1>1, SameSets DEF SandboxInit, T!Init, T!TypeOK, TypeOK, WalletsTypeOK, T!WalletsTypeOK
<1>3. \A s \in Sessions : At(s, "idle") /\ T!At(s, "idle") /\ CallOf(s).step = "idle"
  BY DEF SandboxInit, Init, T!Init, At, T!At, CallOf, Idle, T!Idle
<1>4. TopUpsStored /\ OneService /\ AllBacked
  BY <1>3 DEF T!At, TopUpsStored, OneService, AllBacked, Backed, Holding
<1>5. \A m \in Merchants : Balance(m) = 0 /\ AllGranted(m) = 0 /\ AllAcked(m) = 0
  BY DEF SandboxInit, Init, T!Init, Balance, HasWallet, AllGranted, AllAcked
<1>6. NothingMinted
  BY <1>5 DEF NothingMinted, AllGranted
<1>7. ~Overlapping /\ \A s \in Sessions : Knows(CallOf(s), OwnerOf(s))
  BY <1>3 DEF Overlapping, Busy, Knows, Settling
<1>8. NoneMet
  BY <1>5, <1>7 DEF NoneMet, Covers
<1> QED
  BY <1>1, <1>2, <1>4, <1>6, <1>8 DEF SandboxInv, SharedInv, SandboxInit

LEMMA SandboxInvHolds == SandboxSpec => []SandboxInv
BY SandboxInitInv, SandboxStep, PTL DEF SandboxSpec

-----------------------------------------------------------------------------
(* The rows, the shared balances and the requests of both services keep    *)
(* their types, whatever one service does to the other's wallets.          *)
THEOREM SandboxTypeCorrect == SandboxSpec => []SandboxTypeOK
<1>1. SandboxInv => SandboxTypeOK
  BY DEF SandboxInv, SharedInv, Inv, SandboxTypeOK
<1> QED
  BY <1>1, SandboxInvHolds, PTL

(* Any number of refund and top-up requests read a balance, add to what    *)
(* they read, write the sum and may write the old balance back, over each  *)
(* other's writes: a wallet never holds more than both services together   *)
(* ever added to it.                                                       *)
THEOREM TogetherNothingMinted == SandboxSpec => []NothingMinted
<1>1. SandboxInv => NothingMinted
  BY DEF SandboxInv, SharedInv
<1> QED
  BY <1>1, SandboxInvHolds, PTL

(* As long as no request of either service began while another was under   *)
(* way, whatever calls failed and whenever the server stopped, a wallet    *)
(* whose credits fit in an int64 holds what both services answered 200     *)
(* for.                                                                    *)
THEOREM TogetherAckedIsCovered == SandboxSpec => []AllAckedIsCovered
<1>1. SandboxInv => AllAckedIsCovered
  BY DEF SandboxInv, SharedInv, NoneMet, Covers, Fine, AllGranted, AllAcked, AllAckedIsCovered
<1> QED
  BY <1>1, SandboxInvHolds, PTL

(* Top-ups change the wallets under a refund's feet, and yet what the      *)
(* refund service guarantees alone holds beside them: only an approved     *)
(* refund is credited, one stored as SUCCESS was, and one stored is of an  *)
(* invoice that was PAID, with no less than its amount.                    *)
THEOREM RefundsHoldBesideTopUps ==
  SandboxSpec => [](CreditedWasApproved /\ SuccessWasCredited /\ RefundFitsInvoice)
<1>1. SandboxInv => CreditedWasApproved /\ SuccessWasCredited /\ RefundFitsInvoice
  <2> SUFFICES ASSUME Inv, BookInv PROVE CreditedWasApproved /\ SuccessWasCredited /\ RefundFitsInvoice
    BY DEF SandboxInv
  <2> QED
    BY StoredFits DEF Inv, Tables
<1> QED
  BY <1>1, SandboxInvHolds, PTL
=============================================================================
