------------------------------ MODULE Database ------------------------------
(***************************************************************************)
(* What a service sees of PostgreSQL.  No service that moves money opens a *)
(* transaction (database.WithTx is never called), so each repository call  *)
(* is one statement that commits by itself and one step of a model.  A call*)
(* answers "ok", or fails: "lost" failed before the statement took effect  *)
(* (pool exhausted, connection refused, request context cancelled),        *)
(* "late" failed after it took effect (the answer did not come back).      *)
(* "crash" stops the whole server between two calls.                       *)
(***************************************************************************)
EXTENDS Integers

CONSTANTS
  Faults,     \* the kinds of fault that may happen
  MaxFaults,  \* bound: how many of them may happen
  MaxInt64    \* the largest Go int64 / PostgreSQL BIGINT

ASSUME FaultsAssumption == /\ Faults \subseteq {"lost", "late", "crash"}
                           /\ MaxFaults \in Nat
ASSUME Int64Assumption == MaxInt64 \in Nat \ {0}

VARIABLE faults   \* how many faults there were so far, and whether they were gentle

-----------------------------------------------------------------------------
Replies == {"ok"} \cup (Faults \cap {"lost", "late"})

FaultsSoFar == [count : 0 .. MaxFaults, gentle : BOOLEAN]
NoFaults == [count |-> 0, gentle |-> TRUE]

(* A fault of this kind happens, within the budget.                        *)
Fault(kind) ==
  /\ kind \in Faults
  /\ faults.count < MaxFaults
  /\ faults' = [count |-> faults.count + 1,
                gentle |-> faults.count = 0 /\ kind = "lost"]

(* No more than one call failed so far, and before it took effect: what    *)
(* the rollbacks of the services were written for.                         *)
Gentle == faults.gentle

(* The step's call answers r; a failing one is a fault.                    *)
Reply(r) ==
  \/ r = "ok" /\ UNCHANGED faults
  \/ r # "ok" /\ Fault(r)

(* The statement behind a call took effect.                                *)
Executed(r) == r # "lost"

(* The server stops: "crash" is a fault like the others.                   *)
CrashFault == Fault("crash")

-----------------------------------------------------------------------------
Int64 == -(MaxInt64 + 1) .. MaxInt64
Amount64 == 1 .. MaxInt64

(* Mistake: the sum is not kept in 64 bits.                                *)
AddInt64Unbounded(a, b) == a + b

(* a + b on int64 for b >= 0: the sum wraps to the negative numbers.       *)
AddInt64(a, b) ==
  IF a + b > MaxInt64 THEN a + b - 2 * (MaxInt64 + 1) ELSE a + b
=============================================================================
