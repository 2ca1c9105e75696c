--------------------------- MODULE DatabaseProofs ---------------------------
(***************************************************************************)
(* What the proofs about the services use of Database: a call keeps the    *)
(* count of the faults, and an int64 sum is in range.                      *)
(***************************************************************************)
EXTENDS Database, TLAPS

LEMMA FaultType ==
  ASSUME NEW kind, Fault(kind), faults \in FaultsSoFar
  PROVE  faults' \in FaultsSoFar
<1>1. faults.count + 1 \in 0 .. MaxFaults
  BY FaultsAssumption DEF Fault, FaultsSoFar
<1>2. (faults.count = 0 /\ kind = "lost") \in BOOLEAN
  OBVIOUS
<1> QED
  BY <1>1, <1>2 DEF Fault, FaultsSoFar

LEMMA ReplyType ==
  ASSUME NEW r \in Replies, Reply(r), faults \in FaultsSoFar
  PROVE  faults' \in FaultsSoFar
BY FaultType DEF Reply

LEMMA CrashFaultType ==
  ASSUME CrashFault, faults \in FaultsSoFar
  PROVE  faults' \in FaultsSoFar
BY FaultType DEF CrashFault

(* No fault so far means only gentle ones.                                 *)
Fresh == faults.count = 0 => Gentle

LEMMA FaultGives ==
  ASSUME NEW kind, Fault(kind), faults \in FaultsSoFar
  PROVE  /\ kind \in Faults
         /\ faults'.count = faults.count + 1 /\ faults.count \in Nat
         /\ Gentle' <=> faults.count = 0 /\ kind = "lost"
<1>1. kind \in Faults /\ faults' = [count |-> faults.count + 1, gentle |-> faults.count = 0 /\ kind = "lost"]
  BY DEF Fault
<1>2. faults'.count = faults.count + 1 /\ faults'.gentle = (faults.count = 0 /\ kind = "lost")
  BY <1>1, Zenon
<1>3. Gentle' <=> faults.count = 0 /\ kind = "lost"
  BY <1>2, Zenon DEF Gentle
<1> QED
  BY <1>1, <1>2, <1>3, FaultsAssumption DEF FaultsSoFar

LEMMA ReplyFresh ==
  ASSUME NEW r, Reply(r), faults \in FaultsSoFar, Fresh
  PROVE  Fresh'
<1>1. CASE r = "ok" /\ faults' = faults
  BY <1>1 DEF Fresh, Gentle
<1>2. CASE Fault(r)
  <2>1. faults'.count # 0
    BY <1>2, FaultGives
  <2> QED
    BY <2>1 DEF Fresh
<1> QED
  BY <1>1, <1>2 DEF Reply

(* While faults stay gentle, a call succeeds, or it is the first to fail   *)
(* and its statement did not take effect.                                  *)
LEMMA ReplyGentle ==
  ASSUME NEW r, Reply(r), faults \in FaultsSoFar, Fresh, Gentle'
  PROVE  /\ Gentle
         /\ \/ r = "ok" /\ faults' = faults
            \/ r = "lost" /\ faults.count = 0 /\ faults'.count = 1
<1>1. CASE r = "ok" /\ faults' = faults
  BY <1>1 DEF Gentle
<1>2. CASE Fault(r)
  BY <1>2, FaultGives DEF Fresh
<1> QED
  BY <1>1, <1>2 DEF Reply

LEMMA CrashNotGentle ==
  ASSUME CrashFault, faults \in FaultsSoFar
  PROVE  ~Gentle' /\ Fresh'
<1>1. faults'.count # 0 /\ ~Gentle'
  BY FaultGives DEF CrashFault
<1> QED
  BY <1>1 DEF Fresh

(* int64 addition of an amount stays in range and never yields more than   *)
(* the sum.                                                                *)
LEMMA AddInt64Bound ==
  ASSUME NEW a \in Int64, NEW b \in Amount64
  PROVE  AddInt64(a, b) \in Int64 /\ AddInt64(a, b) <= a + b
BY Int64Assumption DEF AddInt64, Int64, Amount64

LEMMA ZeroIsInt64 == 0 \in Int64
BY Int64Assumption DEF Int64
=============================================================================
