----------------------------- MODULE BudgetLedger -----------------------------
(***************************************************************************)
(* The token ledger shared by the batches of an experiment                  *)
(* (runner/global-budget-ledger.ts): a record in the memory of the one       *)
(* writer and a file that is replaced whole.  A call first changes the       *)
(* memory; when the write then fails it raises, and only the file is as      *)
(* before.  SerializedWriter runs the calls one after the other.             *)
(***************************************************************************)
EXTENDS Naturals

CONSTANTS
    Cap,        \* cap_tokens
    MaxFaults   \* bound on the writes that fail

ASSUME BudgetAssumption == Cap \in Nat \ {0} /\ MaxFaults \in Nat

VARIABLES
    memory,   \* state of the GlobalBudgetLedger
    file,     \* the file it was last written to
    faults    \* writes that have failed

Balances == [accounted : 0..Cap, reserved : 0..Cap, reconciliation : BOOLEAN]

Empty == [accounted |-> 0, reserved |-> 0, reconciliation |-> FALSE]

Balance(accounted, reserved, reconciliation) ==
    [accounted |-> accounted, reserved |-> reserved, reconciliation |-> reconciliation]

LedgerInit == memory = Empty /\ file = Empty

Fault == faults < MaxFaults /\ faults' = faults + 1

Persist(new, raises) ==
    /\ memory' = new
    /\ \/ ~ raises /\ file' = new /\ UNCHANGED faults
       \/ raises /\ file' = file /\ Fault

\* Faulty: what is reserved and not yet settled is forgotten.
AffordableNow(tokens) ==
    /\ tokens # 0
    /\ ~ memory.reconciliation
    /\ memory.accounted + tokens <= Cap

Affordable(tokens) ==
    /\ tokens # 0
    /\ ~ memory.reconciliation
    /\ memory.accounted + memory.reserved + tokens <= Cap

Reserve(tokens, admitted, raises) ==
    \/ /\ ~ Affordable(tokens) /\ ~ admitted /\ ~ raises
       /\ UNCHANGED <<memory, file, faults>>
    \/ /\ Affordable(tokens) /\ admitted = ~ raises
       /\ Persist(Balance(memory.accounted, memory.reserved + tokens, FALSE), raises)

\* A settlement that does not match is refused, and nothing is admitted any more.
Settle(tokens, actual, raises) ==
    \/ /\ actual <= tokens /\ tokens <= memory.reserved
       /\ Persist(Balance(memory.accounted + actual, memory.reserved - tokens,
                          memory.reconciliation), raises)
    \/ /\ actual > tokens \/ tokens > memory.reserved
       /\ raises
       /\ \E failed \in BOOLEAN :
             Persist(Balance(memory.accounted, memory.reserved, TRUE), failed)

\* Usage nobody knows counts as all that was reserved.
ChargeUnverified(tokens, raises) ==
    \/ /\ tokens <= memory.reserved
       /\ Persist(Balance(memory.accounted + tokens, memory.reserved - tokens, TRUE), raises)
    \/ /\ tokens > memory.reserved
       /\ raises
       /\ UNCHANGED <<memory, file, faults>>
=============================================================================
