------------------------------ MODULE Sandbox ------------------------------
(***************************************************************************)
(* The refund service and the top-up service of one server, on the wallets *)
(* they share.  Each reads a balance, adds to what it read and writes the  *)
(* sum; neither knows of the other.  A session serves one request, of      *)
(* either service, at a time.                                              *)
(***************************************************************************)
EXTENDS Refunds

CONSTANTS TopUpIds, Keys, NoTopUp

ASSUME SandboxAssumption ==
  NoTopUp \notin [merchant : Merchants, amount : Amounts \cap Amount64,
                  status : TopUpStatus, key : Keys]

VARIABLES
  topups,          \* the top_ups table
  topupCalls,      \* the top-up request each session is serving
  topupGranted,    \* history: what top-ups ever added to each wallet
  topupAcked,      \* history: the part of it whose request answered 200
  topupCredited,   \* history: the top-ups added to a wallet at least once
  topupSucceeded,  \* history: the top-ups some request answered SUCCESS for
  overlapped       \* history: whether two requests were ever served at once

T == INSTANCE TopUps WITH calls <- topupCalls, granted <- topupGranted, acked <- topupAcked,
                          credited <- topupCredited, succeeded <- topupSucceeded

refundTables == <<invoices, issued, paidFor, now, refunds, calls, history>>
topupTables == <<topups, topupCalls, topupGranted, topupAcked, topupCredited, topupSucceeded>>
sandboxVars == <<vars, topupTables, overlapped>>

-----------------------------------------------------------------------------
Busy(s) == ~At(s, "idle") \/ ~T!At(s, "idle")

Overlapping == \E s, t \in Sessions : s # t /\ Busy(s) /\ Busy(t)

RefundRequest(s) == T!At(s, "idle") /\ (Ask(s) \/ Serve(s)) /\ UNCHANGED topupTables
TopUpRequest(s) == At(s, "idle") /\ T!Serve(s) /\ UNCHANGED refundTables

(* The server stops: the requests of both services are lost.               *)
SandboxCrash ==
  /\ CrashFault
  /\ \E s \in Sessions : Busy(s)
  /\ calls' = [s \in Sessions |-> Idle]
  /\ topupCalls' = [s \in Sessions |-> T!Idle]
  /\ UNCHANGED <<wallets, invoices, issued, paidFor, now, refunds, history, topups,
                 topupGranted, topupAcked, topupCredited, topupSucceeded>>

SandboxQuiet == T!Quiet /\ Quiet /\ UNCHANGED overlapped

SandboxInit == Init /\ T!Init /\ overlapped = FALSE

SandboxNext ==
  \/ /\ \/ \E s \in Sessions : RefundRequest(s) \/ TopUpRequest(s)
        \/ Invoicing /\ UNCHANGED topupTables
        \/ TimePasses /\ UNCHANGED topupTables
        \/ SandboxCrash
     /\ overlapped' = (overlapped \/ Overlapping')
  \/ SandboxQuiet

SandboxSpec == SandboxInit /\ [][SandboxNext]_sandboxVars

-----------------------------------------------------------------------------
SandboxTypeOK == TypeOK /\ T!TypeOK /\ overlapped \in BOOLEAN

(* Credits and rollbacks of the two services overwrite each other's: even  *)
(* so a wallet never holds more than both together ever added to it.       *)
NothingMinted == \A m \in Merchants : Balance(m) <= granted[m] + topupGranted[m]

(* As long as no two requests were served at once and no balance           *)
(* overflowed, a wallet covers what both services answered 200 for,        *)
(* whatever failed in either.                                              *)
AllAckedIsCovered ==
  \A m \in Merchants :
    ~overlapped /\ granted[m] + topupGranted[m] <= MaxInt64
      => acked[m] + topupAcked[m] <= Balance(m)
=============================================================================
